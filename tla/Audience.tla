-------------------------------- MODULE Audience --------------------------------
(***************************************************************************)
(* What the players' programs and the people at the clients may rely on:   *)
(* a player is heard by a set of clients, a client hears at most one       *)
(* player, and a player that nobody condemned leaves the game only after   *)
(* nobody has heard it for more than Grace seconds, unless it is exempt.   *)
(***************************************************************************)
EXTENDS Integers

CONSTANTS
  Clients,
  Players,
  Grace        \* seconds a player survives without a client

VARIABLES
  present,     \* players in the game
  audience,    \* audience[p]: the clients that hear player p
  condemned,   \* players killed by a command or by their score
  exempt,      \* players that may stay without a client
  waited       \* waited[p]: seconds p has been without a client, up to Grace + 1

audienceVars == <<present, audience, condemned, exempt, waited>>

AudienceTypeOK ==
  /\ present \in SUBSET Players
  /\ audience \in [Players -> SUBSET Clients]
  /\ condemned \in SUBSET Players
  /\ exempt \in SUBSET Players
  /\ waited \in [Players -> 0 .. Grace + 1]

AudienceInit ==
  /\ present = {}
  /\ audience = [p \in Players |-> {}]
  /\ condemned = {}
  /\ exempt = {}
  /\ waited = [p \in Players |-> 0]

\* The audience of p becomes A: nobody in it hears another player any more.
\* Whoever loses or gains a client starts to wait from zero.
Gather(p, A) ==
  /\ audience' = [q \in Players |-> IF q = p THEN A ELSE audience[q] \ A]
  /\ waited' = [q \in Players |-> IF audience'[q] = audience[q] THEN waited[q] ELSE 0]

\* A player enters the game, alone or together with its first client.
Enter(p) ==
  /\ p \notin present
  /\ present' = present \cup {p}
  /\ \E A \in {{}} \cup {{c} : c \in Clients} : Gather(p, A)
  /\ condemned' = condemned \ {p}
  /\ exempt' \in {exempt \cup {p}, exempt \ {p}}

Attend(c, p) ==
  /\ p \in present
  /\ c \notin audience[p]
  /\ Gather(p, audience[p] \cup {c})
  /\ UNCHANGED <<present, condemned, exempt>>

Depart(c, p) ==
  /\ c \in audience[p]
  /\ Gather(p, audience[p] \ {c})
  /\ UNCHANGED <<present, condemned, exempt>>

\* Commands, scores or the end of the program decide who has to leave.
Condemn ==
  /\ condemned' \in SUBSET present
  /\ UNCHANGED <<present, audience, exempt, waited>>

Exempt(p) ==
  /\ p \in present
  /\ exempt' = exempt \cup {p}
  /\ UNCHANGED <<present, audience, condemned, waited>>

\* Time passes for the players that nobody hears.
Elapse ==
  /\ \E seconds \in 0 .. Grace + 1 :
       waited' = [p \in Players |->
                   IF p \in present /\ audience[p] = {}
                     THEN IF waited[p] + seconds > Grace THEN Grace + 1 ELSE waited[p] + seconds
                     ELSE waited[p]]
  /\ UNCHANGED <<present, audience, condemned, exempt>>

\* A player leaves the game, when nobody hears it any more.
Leave(p) ==
  /\ p \in present
  /\ audience[p] = {}
  /\ p \in condemned \/ (p \notin exempt /\ waited[p] > Grace)
  /\ present' = present \ {p}
  /\ UNCHANGED audience
  /\ condemned' = condemned \ {p}
  /\ exempt' = exempt \ {p}
  /\ waited' = [waited EXCEPT ![p] = 0]

AudienceNext ==
  \/ \E p \in Players : Enter(p) \/ Exempt(p) \/ Leave(p)
  \/ \E c \in Clients, p \in Players : Attend(c, p) \/ Depart(c, p)
  \/ Condemn
  \/ Elapse

AudienceSpec == AudienceInit /\ [][AudienceNext]_audienceVars
================================================================================
