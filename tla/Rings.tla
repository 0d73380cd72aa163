--------------------------------- MODULE Rings ---------------------------------
(***************************************************************************)
(* The circular doubly linked lists that server.c and player.c thread      *)
(* through the array of client records: one list of a player's clients     *)
(* (next, prev) for every player, one of the GUI clients (next_gui,        *)
(* prev_gui).  Both files write the pointer updates out by hand, with the  *)
(* same assignments; here links is a record with the functions next and    *)
(* prev, and a list is known by a client in it, its head.                  *)
(***************************************************************************)
EXTENDS Integers

CONSTANT MAXCLIENTS  \* number of client records

ASSUME ClientsAssumption == MAXCLIENTS \in Nat \ {0}

Clients == 0 .. MAXCLIENTS - 1
NULL    == -1

Pointers == Clients \cup {NULL}
LinksSet == [next : [Clients -> Pointers], prev : [Clients -> Pointers]]

NoLinks == [next |-> [c \in Clients |-> NULL], prev |-> [c \in Clients |-> NULL]]

\* The client alone in a list: both links to itself.
LinkAlone(links, c) ==
  [next |-> [links.next EXCEPT ![c] = c], prev |-> [links.prev EXCEPT ![c] = c]]

\* Mutant of LinkAfter: the old successor keeps its link back to the head.
LinkForwardOnly(links, h, c) ==
  [next |-> [links.next EXCEPT ![c] = links.next[h], ![h] = c],
   prev |-> [links.prev EXCEPT ![c] = h]]

\* The client between h and the successor of h.
LinkAfter(links, h, c) ==
  [next |-> [links.next EXCEPT ![c] = links.next[h], ![h] = c],
   prev |-> [links.prev EXCEPT ![c] = h, ![links.next[h]] = c]]

\* The neighbours of the client linked to each other; its own links stay.
Unlink(links, c) ==
  [next |-> [links.next EXCEPT ![links.prev[c]] = links.next[c]],
   prev |-> [links.prev EXCEPT ![links.next[c]] = links.prev[c]]]

\* The client's own links cleared.
ClearLinks(links, c) ==
  [next |-> [links.next EXCEPT ![c] = NULL], prev |-> [links.prev EXCEPT ![c] = NULL]]

--------------------------------------------------------------------------------
(***************************************************************************)
(* What such a list promises.  A walk starts at the head and follows next  *)
(* until it is back at the head (player_writeto, server_writeto_all_gui_   *)
(* clients): Walk is the set it visits.                                    *)
(***************************************************************************)
ClosedUnder(next, S) == \A c \in S : next[c] \in S

Walk(next, h) ==
  IF h = NULL THEN {}
  ELSE {c \in Clients : \A S \in SUBSET Clients : h \in S /\ ClosedUnder(next, S) => c \in S}

\* One list through the clients of M: next and prev undo each other on M, and
\* no part of M is a list of its own.
OneRing(links, M) ==
  /\ \A c \in M : /\ links.next[c] \in M /\ links.prev[links.next[c]] = c
                  /\ links.prev[c] \in M /\ links.next[links.prev[c]] = c
  /\ \A S \in SUBSET M : S # {} /\ ClosedUnder(links.next, S) => S = M

\* The list with head h holds exactly the clients of M, each once.
RingOf(links, h, M) ==
  /\ OneRing(links, M)
  /\ IF M = {} THEN h = NULL ELSE h \in M
================================================================================
