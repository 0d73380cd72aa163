---------------------------- MODULE ConnectionsProofs ----------------------------
(***************************************************************************)
(* The connections of any number of clients and players.                   *)
(*                                                                         *)
(* What player_attach_client and player_detach_client change is one record,*)
(* att, so what they preserve is said of such records (Sound) and proved   *)
(* once for each function; the actions only compose them.  The lists that  *)
(* such a record is made of come first.                                    *)
(***************************************************************************)
EXTENDS Connections, TLAPS, FiniteSetTheorems

-----------------------------------------------------------------------------
(* What the pointer updates of Rings do to lists of any length *)

\* The assignments keep the links well formed, as long as the pointers they
\* follow lead to clients.
LEMMA LinksType ==
  ASSUME NEW links \in LinksSet, NEW c \in Clients
  PROVE  /\ LinkAlone(links, c) \in LinksSet
         /\ ClearLinks(links, c) \in LinksSet
         /\ Unlink(links, c) \in LinksSet
         /\ \A h \in Clients : LinkAfter(links, h, c) \in LinksSet
BY DEF LinksSet, Pointers, LinkAlone, ClearLinks, Unlink, LinkAfter

\* A list depends on the links of its members only.
LEMMA SameRing ==
  ASSUME NEW M \in SUBSET Clients, NEW links, NEW links2, OneRing(links, M),
         \A c \in M : links2.next[c] = links.next[c] /\ links2.prev[c] = links.prev[c]
  PROVE  OneRing(links2, M)
<1>1. ASSUME NEW c \in M
      PROVE  /\ links2.next[c] \in M /\ links2.prev[links2.next[c]] = c
             /\ links2.prev[c] \in M /\ links2.next[links2.prev[c]] = c
  BY DEF OneRing
<1>2. ASSUME NEW S \in SUBSET M, S # {}, ClosedUnder(links2.next, S)
      PROVE  S = M
  <2>1. ClosedUnder(links.next, S)
    BY <1>2 DEF ClosedUnder
  <2> QED
    BY <1>2, <2>1 DEF OneRing
<1> QED
  BY <1>1, <1>2 DEF OneRing

\* A client linked to itself is a list.
LEMMA AloneIsRing ==
  ASSUME NEW links \in LinksSet, NEW c \in Clients
  PROVE  OneRing(LinkAlone(links, c), {c})
<1> DEFINE l == LinkAlone(links, c)
<1>1. l.next[c] = c /\ l.prev[c] = c
  BY DEF LinkAlone, LinksSet
<1> HIDE DEF l
<1>2. OneRing(l, {c})
  <2>1. \A S \in SUBSET {c} : S # {} => S = {c}
    OBVIOUS
  <2> QED
    BY <1>1, <2>1 DEF OneRing
<1> QED
  BY <1>2 DEF l

\* A new client after the head of a list: the list has one more member.
LEMMA InsertIsRing ==
  ASSUME NEW links \in LinksSet, NEW M \in SUBSET Clients, OneRing(links, M),
         NEW h \in M, NEW c \in Clients \ M
  PROVE  OneRing(LinkAfter(links, h, c), M \cup {c})
<1> DEFINE l == LinkAfter(links, h, c)
           n == links.next[h]
<1>1. n \in M /\ links.prev[n] = h
  BY DEF OneRing
<1>2. /\ l.next[c] = n /\ l.next[h] = c
      /\ \A x \in M \ {h} : l.next[x] = links.next[x]
      /\ l.prev[c] = h /\ l.prev[n] = c
      /\ \A x \in M \ {n} : l.prev[x] = links.prev[x]
  BY <1>1 DEF LinkAfter, LinksSet
<1>3. \A x \in M : /\ links.next[x] \in M /\ links.prev[links.next[x]] = x
                   /\ links.prev[x] \in M /\ links.next[links.prev[x]] = x
  BY DEF OneRing
<1>4. \A S \in SUBSET M : S # {} /\ ClosedUnder(links.next, S) => S = M
  BY DEF OneRing
<1> HIDE DEF l, n
<1>5. ASSUME NEW x \in M \cup {c}
      PROVE  /\ l.next[x] \in M \cup {c} /\ l.prev[l.next[x]] = x
             /\ l.prev[x] \in M \cup {c} /\ l.next[l.prev[x]] = x
  <2>1. CASE x = c
    BY <2>1, <1>1, <1>2
  <2>2. CASE x \in M
    <3>1. l.next[x] \in M \cup {c} /\ l.prev[l.next[x]] = x
      BY <2>2, <1>1, <1>2, <1>3 DEF n
    <3>2. l.prev[x] \in M \cup {c} /\ l.next[l.prev[x]] = x
      BY <2>2, <1>1, <1>2, <1>3 DEF n
    <3> QED
      BY <3>1, <3>2
  <2> QED
    BY <2>1, <2>2
<1>6. ASSUME NEW S \in SUBSET (M \cup {c}), S # {}, ClosedUnder(l.next, S)
      PROVE  S = M \cup {c}
  <2> DEFINE T == S \ {c}
  <2>1. T # {}
    BY <1>1, <1>2, <1>6 DEF ClosedUnder
  <2>2. \A x \in T : links.next[x] \in T
    <3> TAKE x \in T
    <3>1. CASE x = h
      <4>1. l.next[h] = c /\ c \in S
        BY <3>1, <1>2, <1>6 DEF ClosedUnder
      <4>2. n \in S
        BY <4>1, <1>2, <1>6 DEF ClosedUnder
      <4> QED
        BY <4>2, <3>1, <1>1 DEF n
    <3>2. CASE x # h
      BY <3>2, <1>2, <1>3, <1>6 DEF ClosedUnder
    <3> QED
      BY <3>1, <3>2
  <2>3. T = M
    BY <2>1, <2>2, <1>4 DEF ClosedUnder
  <2>4. c \in S
    BY <2>3, <1>2, <1>6 DEF ClosedUnder
  <2> QED
    BY <2>3, <2>4
<1> QED
  BY <1>5, <1>6 DEF OneRing, l

\* A client is its own successor exactly when it is the only member.
LEMMA LonelyMember ==
  ASSUME NEW links \in LinksSet, NEW M \in SUBSET Clients, OneRing(links, M), NEW c \in M
  PROVE  links.next[c] = c <=> M = {c}
<1>1. ASSUME links.next[c] = c
      PROVE  M = {c}
  <2>1. ClosedUnder(links.next, {c})
    BY <1>1 DEF ClosedUnder
  <2> QED
    BY <2>1 DEF OneRing
<1>2. ASSUME M = {c}
      PROVE  links.next[c] = c
  BY <1>2 DEF OneRing
<1> QED
  BY <1>1, <1>2

\* A member unlinked from a list of several: the others are still one list,
\* and its successor is one of them.
LEMMA UnlinkIsRing ==
  ASSUME NEW links \in LinksSet, NEW M \in SUBSET Clients, OneRing(links, M),
         NEW c \in M, M # {c}
  PROVE  /\ OneRing(Unlink(links, c), M \ {c})
         /\ links.next[c] \in M \ {c}
<1> DEFINE l == Unlink(links, c)
           n == links.next[c]
           p == links.prev[c]
<1>1. \A x \in M : /\ links.next[x] \in M /\ links.prev[links.next[x]] = x
                   /\ links.prev[x] \in M /\ links.next[links.prev[x]] = x
  BY DEF OneRing
<1>2. n # c /\ p # c
  BY <1>1, LonelyMember
<1>3. /\ n \in M \ {c} /\ p \in M \ {c}
      /\ links.prev[n] = c /\ links.next[p] = c
  BY <1>1, <1>2
<1>4. /\ l.next[p] = n /\ l.prev[n] = p
      /\ \A x \in M \ {c, p} : l.next[x] = links.next[x]
      /\ \A x \in M \ {c, n} : l.prev[x] = links.prev[x]
  BY <1>3 DEF Unlink, LinksSet
<1>5. \A S \in SUBSET M : S # {} /\ ClosedUnder(links.next, S) => S = M
  BY DEF OneRing
<1> HIDE DEF l, n, p
<1>6. ASSUME NEW x \in M \ {c}
      PROVE  /\ l.next[x] \in M \ {c} /\ l.prev[l.next[x]] = x
             /\ l.prev[x] \in M \ {c} /\ l.next[l.prev[x]] = x
  <2>1. l.next[x] \in M \ {c} /\ l.prev[l.next[x]] = x
    BY <1>1, <1>3, <1>4 DEF n, p
  <2>2. l.prev[x] \in M \ {c} /\ l.next[l.prev[x]] = x
    BY <1>1, <1>3, <1>4 DEF n, p
  <2> QED
    BY <2>1, <2>2
<1>7. ASSUME NEW S \in SUBSET (M \ {c}), S # {}, ClosedUnder(l.next, S)
      PROVE  S = M \ {c}
  <2> DEFINE T == IF p \in S THEN S \cup {c} ELSE S
  <2>1. \A x \in S \ {p} : links.next[x] \in S
    BY <1>4, <1>7 DEF ClosedUnder
  <2>2. p \in S => n \in S
    BY <1>4, <1>7 DEF ClosedUnder
  <2>3. \A x \in T : links.next[x] \in T
    BY <2>1, <2>2, <1>3 DEF n
  <2>4. T = M
    BY <2>3, <1>5, <1>7 DEF ClosedUnder
  <2> QED
    BY <2>4
<1> QED
  BY <1>3, <1>6, <1>7 DEF OneRing, l, n

\* The walk from the head of a list meets exactly its members.
LEMMA WalkIsRing ==
  ASSUME NEW links \in LinksSet, NEW M \in SUBSET Clients, NEW h, RingOf(links, h, M)
  PROVE  Walk(links.next, h) = M
<1>1. CASE M = {}
  BY <1>1 DEF RingOf, Walk
<1>2. CASE M # {}
  <2>1. h \in M /\ h # NULL
    <3>1. h \in M
      BY <1>2 DEF RingOf
    <3>2. \A c \in Clients : c # NULL
      BY ClientsAssumption DEF Clients, NULL
    <3> QED
      BY <3>1, <3>2
  <2>2. ClosedUnder(links.next, M)
    BY DEF RingOf, OneRing, ClosedUnder
  <2>3. ASSUME NEW S \in SUBSET Clients, h \in S, ClosedUnder(links.next, S)
        PROVE  M \subseteq S
    <3>1. ClosedUnder(links.next, S \cap M)
      BY <2>2, <2>3 DEF ClosedUnder
    <3>2. S \cap M = M
      BY <3>1, <2>1, <2>3 DEF RingOf, OneRing
    <3> QED
      BY <3>2
  <2> QED
    BY <2>1, <2>2, <2>3 DEF Walk
<1> QED
  BY <1>1, <1>2

-----------------------------------------------------------------------------
(* Records of attachments *)

\* ClientsOf, for a record that is not the current one.
Hears(a, p) == {c \in Clients : a.player[c] = p}

\* The part of the invariant that is about one record of attachments.
Sound(a) ==
  /\ a \in Attachments
  /\ \A p \in Players :
       /\ RingOf(a.links, a.clients[p], Hears(a, p))
       /\ a.num_clients[p] = Cardinality(Hears(a, p))
  /\ \A c \in Clients : a.player[c] = NULL => a.links.next[c] = NULL /\ a.links.prev[c] = NULL
  /\ \A p \in Players :
       a.bot_output_client[p] # NULL => a.player[a.bot_output_client[p]] = p

\* From a to b: client c has become a client of p, and of p only.
Moved(a, b, c, p) ==
  \A q \in Players :
    /\ Hears(b, q) = IF q = p THEN Hears(a, q) \cup {c} ELSE Hears(a, q) \ {c}
    /\ q # p => b.disconnected_for[q] =
                  IF Hears(a, q) = {c} THEN 0 ELSE a.disconnected_for[q]

\* NULL is neither a client nor a player.
LEMMA NullIsNobody == NULL \notin Clients /\ NULL \notin Players
  BY ClientsAssumption, ConnectionsAssumption DEF Clients, Players, NULL

\* The clients are finitely many.
LEMMA ClientsFinite ==
  ASSUME NEW S \in SUBSET Clients
  PROVE  /\ IsFiniteSet(S) /\ Cardinality(S) \in Nat
         /\ Cardinality(S) = 0 <=> S = {}
<1>1. IsFiniteSet(Clients)
  BY ClientsAssumption, FS_Interval DEF Clients
<1> QED
  BY <1>1, FS_Subset, FS_CardinalityType, FS_EmptySet

\* One client more, one client less.
LEMMA CountOne ==
  ASSUME NEW S \in SUBSET Clients, NEW c \in Clients
  PROVE  /\ c \notin S => Cardinality(S \cup {c}) = Cardinality(S) + 1
         /\ c \in S => Cardinality(S \ {c}) = Cardinality(S) - 1
         /\ c \in S => (Cardinality(S) = 1 <=> S = {c})
<1>1. IsFiniteSet(S) /\ IsFiniteSet(S \ {c}) /\ Cardinality(S \ {c}) \in Nat
  BY ClientsFinite
<1>2. c \in S => Cardinality(S \ {c}) = Cardinality(S) - 1
  BY <1>1, FS_RemoveElement
<1>3. c \in S => (Cardinality(S) = 1 <=> Cardinality(S \ {c}) = 0)
  BY <1>1, <1>2, ClientsFinite
<1>4. Cardinality(S \ {c}) = 0 <=> S \ {c} = {}
  BY ClientsFinite
<1>5. c \in S => (Cardinality(S) = 1 <=> S = {c})
  BY <1>3, <1>4
<1>6. c \notin S => Cardinality(S \cup {c}) = Cardinality(S) + 1
  BY <1>1, FS_AddElement
<1> QED
  BY <1>2, <1>5, <1>6

\* The seconds are kept in their range.
LEMMA LaterType ==
  ASSUME NEW age \in Seconds, NEW s \in Nat
  PROVE  Later(age, s) \in Seconds
BY ConnectionsAssumption DEF Later, Seconds

--------------------------------------------------------------------------------
(***************************************************************************)
(* player_detach_client                                                    *)
(***************************************************************************)

\* The lists of the other players are not touched, and neither are the links
\* of clients without a player.
LEMMA DetachKeepsSound ==
  ASSUME NEW a, Sound(a), NEW c \in Clients, a.player[c] # NULL
  PROVE  Sound(Detach(a, c))
<1> DEFINE p == a.player[c]
           M == Hears(a, p)
           last == a.num_clients[p] = 1
           d == Detach(a, c)
<1>1. /\ a.player \in [Clients -> Players \cup {NULL}]
      /\ a.links \in LinksSet
      /\ a.clients \in [Players -> Pointers]
      /\ a.num_clients \in [Players -> Nat]
      /\ a.bot_output_client \in [Players -> Pointers]
      /\ a.disconnected_for \in [Players -> Seconds]
  BY DEF Sound, Attachments
<1>2. p \in Players /\ c \in M /\ M \in SUBSET Clients
  BY <1>1 DEF Hears
<1>3. OneRing(a.links, M) /\ a.num_clients[p] = Cardinality(M) /\ Cardinality(M) \in Nat
  BY <1>2, ClientsFinite DEF Sound, RingOf
<1>4. last <=> M = {c}
  BY <1>2, <1>3, CountOne
<1>5. /\ d.player = [a.player EXCEPT ![c] = NULL]
      /\ d.links = ClearLinks(IF last THEN a.links ELSE Unlink(a.links, c), c)
      /\ d.clients = [a.clients EXCEPT ![p] = IF last THEN NULL ELSE a.links.next[c]]
      /\ d.num_clients = [a.num_clients EXCEPT ![p] = @ - 1]
      /\ d.bot_output_client = [a.bot_output_client EXCEPT ![p] = IF @ = c THEN NULL ELSE @]
      /\ d.disconnected_for = [a.disconnected_for EXCEPT ![p] = IF last THEN 0 ELSE @]
      /\ d = [player |-> d.player, links |-> d.links, clients |-> d.clients,
              num_clients |-> d.num_clients, bot_output_client |-> d.bot_output_client,
              disconnected_for |-> d.disconnected_for]
  BY DEF Detach
<1> HIDE DEF d, last
<1>6. /\ Hears(d, p) = M \ {c}
      /\ \A q \in Players \ {p} : Hears(d, q) = Hears(a, q)
  BY <1>1, <1>5, NullIsNobody DEF Hears
<1>7. d.links \in LinksSet
  BY <1>1, <1>5, LinksType
<1>8. d \in Attachments
  <2>1. a.num_clients[p] - 1 \in Nat
    BY <1>2, <1>3, CountOne, ClientsFinite
  <2>2. a.links.next[c] \in Pointers /\ NULL \in Pointers /\ NULL \in Players \cup {NULL}
    BY <1>1 DEF LinksSet, Pointers
  <2>3. 0 \in Seconds
    BY ConnectionsAssumption DEF Seconds
  <2>4. /\ d.player \in [Clients -> Players \cup {NULL}]
        /\ d.clients \in [Players -> Pointers]
        /\ d.num_clients \in [Players -> Nat]
        /\ d.bot_output_client \in [Players -> Pointers]
        /\ d.disconnected_for \in [Players -> Seconds]
    BY <1>1, <1>5, <2>1, <2>2, <2>3
  <2> QED
    BY <1>5, <1>7, <2>4 DEF Attachments
<1>9. /\ \A x \in Clients : x \notin M => d.links.next[x] = a.links.next[x] /\ d.links.prev[x] = a.links.prev[x]
      /\ d.links.next[c] = NULL /\ d.links.prev[c] = NULL
  <2>1. a.links.next[c] \in M /\ a.links.prev[c] \in M
    BY <1>2, <1>3 DEF OneRing
  <2> QED
    BY <1>1, <1>2, <1>5, <2>1 DEF ClearLinks, Unlink, LinksSet
<1>10. ASSUME NEW q \in Players
       PROVE  /\ RingOf(d.links, d.clients[q], Hears(d, q))
              /\ d.num_clients[q] = Cardinality(Hears(d, q))
  <2>1. CASE q # p
    <3>1. Hears(d, q) = Hears(a, q) /\ d.clients[q] = a.clients[q] /\ d.num_clients[q] = a.num_clients[q]
      BY <2>1, <1>1, <1>5, <1>6
    <3>2. RingOf(a.links, a.clients[q], Hears(a, q)) /\ a.num_clients[q] = Cardinality(Hears(a, q))
      BY DEF Sound
    <3>3. Hears(a, q) \in SUBSET Clients /\ Hears(a, q) \cap M = {}
      BY <2>1 DEF Hears
    <3>4. OneRing(d.links, Hears(a, q))
      BY <3>2, <3>3, <1>9, SameRing DEF RingOf
    <3> QED
      BY <3>1, <3>2, <3>4 DEF RingOf
  <2>2. CASE q = p /\ last
    <3>1. Hears(d, q) = {} /\ d.clients[q] = NULL /\ d.num_clients[q] = 0
      BY <2>2, <1>1, <1>2, <1>4, <1>5, <1>6 DEF last
    <3>2. Cardinality({}) = 0
      BY FS_EmptySet
    <3>3. OneRing(d.links, {})
      BY DEF OneRing
    <3> QED
      BY <3>1, <3>2, <3>3 DEF RingOf
  <2>3. CASE q = p /\ ~ last
    <3>1. OneRing(Unlink(a.links, c), M \ {c}) /\ a.links.next[c] \in M \ {c}
      <4>1. M # {c}
        BY <2>3, <1>4
      <4>2. a.links \in LinksSet /\ M \in SUBSET Clients /\ OneRing(a.links, M) /\ c \in M
        BY <1>1, <1>2, <1>3
      <4> HIDE DEF M
      <4> QED
        BY <4>1, <4>2, UnlinkIsRing
    <3>2. \A x \in M \ {c} : /\ d.links.next[x] = Unlink(a.links, c).next[x]
                             /\ d.links.prev[x] = Unlink(a.links, c).prev[x]
      <4>1. d.links = ClearLinks(Unlink(a.links, c), c)
        BY <2>3, <1>5
      <4>2. Unlink(a.links, c) \in LinksSet
        BY <1>1, LinksType
      <4> QED
        BY <4>1, <4>2, <1>2 DEF ClearLinks, LinksSet
    <3>3. OneRing(d.links, M \ {c})
      BY <3>1, <3>2, <1>2, SameRing
    <3>4. d.clients[q] = a.links.next[c] /\ d.num_clients[q] = Cardinality(M) - 1
      BY <2>3, <1>1, <1>2, <1>3, <1>5
    <3>5. Cardinality(M \ {c}) = Cardinality(M) - 1
      BY <1>2, CountOne
    <3> QED
      BY <2>3, <1>6, <3>1, <3>3, <3>4, <3>5 DEF RingOf
  <2> QED
    BY <2>1, <2>2, <2>3
<1>11. ASSUME NEW x \in Clients, d.player[x] = NULL
       PROVE  d.links.next[x] = NULL /\ d.links.prev[x] = NULL
  <2>1. CASE x = c
    BY <2>1, <1>9
  <2>2. CASE x # c
    BY <2>2, <1>1, <1>2, <1>5, <1>9, <1>11, NullIsNobody DEF Sound, Hears
  <2> QED
    BY <2>1, <2>2
<1>12. ASSUME NEW q \in Players, d.bot_output_client[q] # NULL
       PROVE  d.player[d.bot_output_client[q]] = q
  <2>1. d.bot_output_client[q] = a.bot_output_client[q] /\ (q = p => a.bot_output_client[q] # c)
    BY <1>1, <1>2, <1>5, <1>12
  <2>2. a.player[a.bot_output_client[q]] = q /\ a.bot_output_client[q] \in Clients
    BY <2>1, <1>1, <1>12 DEF Sound, Pointers
  <2> QED
    BY <2>1, <2>2, <1>1, <1>5
<1> QED
  BY <1>8, <1>10, <1>11, <1>12 DEF Sound, d

\* What a detached client leaves: it hears nobody, and the time of the player
\* starts when it was the last one.
LEMMA DetachEffect ==
  ASSUME NEW a, Sound(a), NEW c \in Clients, a.player[c] # NULL
  PROVE  /\ Detach(a, c).player = [a.player EXCEPT ![c] = NULL]
         /\ \A q \in Players :
              /\ Hears(Detach(a, c), q) = Hears(a, q) \ {c}
              /\ Detach(a, c).disconnected_for[q] =
                   IF Hears(a, q) = {c} THEN 0 ELSE a.disconnected_for[q]
<1> DEFINE p == a.player[c]
<1>1. /\ a.player \in [Clients -> Players \cup {NULL}]
      /\ a.disconnected_for \in [Players -> Seconds]
  BY DEF Sound, Attachments
<1>2. p \in Players /\ c \in Hears(a, p) /\ \A q \in Players \ {p} : c \notin Hears(a, q)
  BY <1>1 DEF Hears
<1>3. Detach(a, c).player = [a.player EXCEPT ![c] = NULL]
  BY DEF Detach
<1>4. ASSUME NEW q \in Players
      PROVE  Hears(Detach(a, c), q) = Hears(a, q) \ {c}
  BY <1>1, <1>3, NullIsNobody DEF Hears
<1>5. a.num_clients[p] = 1 <=> Hears(a, p) = {c}
  <2>1. a.num_clients[p] = Cardinality(Hears(a, p)) /\ Hears(a, p) \in SUBSET Clients
    BY <1>2 DEF Sound, Hears
  <2> QED
    BY <2>1, <1>2, CountOne
<1>6. Detach(a, c).disconnected_for =
        [a.disconnected_for EXCEPT ![p] = IF a.num_clients[p] = 1 THEN 0 ELSE @]
  BY DEF Detach
<1>7. ASSUME NEW q \in Players
      PROVE  Detach(a, c).disconnected_for[q] =
               IF Hears(a, q) = {c} THEN 0 ELSE a.disconnected_for[q]
  BY <1>1, <1>2, <1>5, <1>6
<1> QED
  BY <1>3, <1>4, <1>7

LEMMA DetachFromAnyKeepsSound ==
  ASSUME NEW a, Sound(a), NEW c \in Clients
  PROVE  /\ Sound(DetachFromAny(a, c))
         /\ DetachFromAny(a, c).player = [a.player EXCEPT ![c] = NULL]
         /\ \A q \in Players :
              /\ Hears(DetachFromAny(a, c), q) = Hears(a, q) \ {c}
              /\ DetachFromAny(a, c).disconnected_for[q] =
                   IF Hears(a, q) = {c} THEN 0 ELSE a.disconnected_for[q]
<1>1. CASE a.player[c] = NULL
  <2>1. a.player \in [Clients -> Players \cup {NULL}]
    BY DEF Sound, Attachments
  <2>2. \A q \in Players : c \notin Hears(a, q)
    BY <1>1, NullIsNobody DEF Hears
  <2> QED
    BY <1>1, <2>1, <2>2 DEF DetachFromAny
<1>2. CASE a.player[c] # NULL
  BY <1>2, DetachKeepsSound, DetachEffect DEF DetachFromAny
<1> QED
  BY <1>1, <1>2

--------------------------------------------------------------------------------
(***************************************************************************)
(* player_attach_client                                                    *)
(***************************************************************************)

\* The client without a player becomes a member of the list of p.
LEMMA LinkKeepsSound ==
  ASSUME NEW a, Sound(a), NEW c \in Clients, a.player[c] = NULL, NEW p \in Players
  PROVE  /\ Sound(Link(a, c, p))
         /\ Link(a, c, p).player = [a.player EXCEPT ![c] = p]
         /\ Link(a, c, p).disconnected_for = a.disconnected_for
         /\ \A q \in Players :
              Hears(Link(a, c, p), q) = IF q = p THEN Hears(a, q) \cup {c} ELSE Hears(a, q)
<1> DEFINE M == Hears(a, p)
           h == a.clients[p]
           d == Link(a, c, p)
<1>1. /\ a.player \in [Clients -> Players \cup {NULL}]
      /\ a.links \in LinksSet
      /\ a.clients \in [Players -> Pointers]
      /\ a.num_clients \in [Players -> Nat]
      /\ a.bot_output_client \in [Players -> Pointers]
      /\ a.disconnected_for \in [Players -> Seconds]
  BY DEF Sound, Attachments
<1>2. /\ d.player = [a.player EXCEPT ![c] = p]
      /\ d.links = IF h = NULL THEN LinkAlone(a.links, c) ELSE LinkAfter(a.links, h, c)
      /\ d.clients = [a.clients EXCEPT ![p] = IF h = NULL THEN c ELSE h]
      /\ d.num_clients = [a.num_clients EXCEPT ![p] = @ + 1]
      /\ d.bot_output_client = a.bot_output_client
      /\ d.disconnected_for = a.disconnected_for
      /\ d = [player |-> d.player, links |-> d.links, clients |-> d.clients,
              num_clients |-> d.num_clients, bot_output_client |-> d.bot_output_client,
              disconnected_for |-> d.disconnected_for]
  BY DEF Link
<1> HIDE DEF d
<1>3. /\ RingOf(a.links, h, M) /\ M \in SUBSET Clients
      /\ a.num_clients[p] = Cardinality(M) /\ c \notin M
  BY NullIsNobody DEF Sound, Hears
<1>4. h = NULL <=> M = {}
  BY <1>3, NullIsNobody DEF RingOf
<1>5. \A q \in Players : Hears(d, q) = IF q = p THEN Hears(a, q) \cup {c} ELSE Hears(a, q)
  BY <1>1, <1>2, NullIsNobody DEF Hears
<1>6. d.links \in LinksSet
  BY <1>1, <1>2, LinksType DEF Pointers
<1>7. d \in Attachments
  <2>1. a.num_clients[p] + 1 \in Nat
    BY <1>1
  <2>2. /\ d.player \in [Clients -> Players \cup {NULL}]
        /\ d.clients \in [Players -> Pointers]
        /\ d.num_clients \in [Players -> Nat]
        /\ d.bot_output_client \in [Players -> Pointers]
        /\ d.disconnected_for \in [Players -> Seconds]
    BY <1>1, <1>2, <2>1 DEF Pointers
  <2> QED
    BY <1>2, <1>6, <2>2 DEF Attachments
<1>8. OneRing(d.links, M \cup {c})
  <2>1. CASE M = {}
    <3>1. d.links = LinkAlone(a.links, c) /\ M \cup {c} = {c}
      BY <2>1, <1>2, <1>4
    <3>2. OneRing(LinkAlone(a.links, c), {c})
      BY <1>1, AloneIsRing
    <3> QED
      BY <3>1, <3>2
  <2>2. CASE M # {}
    <3>1. d.links = LinkAfter(a.links, h, c) /\ h \in M /\ OneRing(a.links, M)
      BY <2>2, <1>2, <1>3, <1>4 DEF RingOf
    <3>2. c \in Clients \ M
      BY <1>3
    <3> HIDE DEF M, h
    <3>3. OneRing(LinkAfter(a.links, h, c), M \cup {c})
      BY <1>1, <1>3, <3>1, <3>2, InsertIsRing
    <3> QED
      BY <3>1, <3>3
  <2> QED
    BY <2>1, <2>2
<1>9. \A x \in Clients : x \notin M \cup {c} =>
        d.links.next[x] = a.links.next[x] /\ d.links.prev[x] = a.links.prev[x]
  <2>1. CASE h = NULL
    BY <2>1, <1>1, <1>2 DEF LinkAlone, LinksSet
  <2>2. CASE h # NULL
    <3>1. h \in M /\ a.links.next[h] \in M
      BY <2>2, <1>3, <1>4 DEF RingOf, OneRing
    <3> QED
      BY <2>2, <3>1, <1>1, <1>2, <1>3 DEF LinkAfter, LinksSet
  <2> QED
    BY <2>1, <2>2
<1>10. ASSUME NEW q \in Players
       PROVE  /\ RingOf(d.links, d.clients[q], Hears(d, q))
              /\ d.num_clients[q] = Cardinality(Hears(d, q))
  <2>1. CASE q # p
    <3>1. Hears(d, q) = Hears(a, q) /\ d.clients[q] = a.clients[q] /\ d.num_clients[q] = a.num_clients[q]
      BY <2>1, <1>1, <1>2, <1>5
    <3>2. RingOf(a.links, a.clients[q], Hears(a, q)) /\ a.num_clients[q] = Cardinality(Hears(a, q))
      BY DEF Sound
    <3>3. Hears(a, q) \in SUBSET Clients /\ Hears(a, q) \cap (M \cup {c}) = {}
      BY <2>1, NullIsNobody DEF Hears
    <3>4. OneRing(d.links, Hears(a, q))
      BY <3>2, <3>3, <1>9, SameRing DEF RingOf
    <3> QED
      BY <3>1, <3>2, <3>4 DEF RingOf
  <2>2. CASE q = p
    <3>1. Hears(d, q) = M \cup {c} /\ d.num_clients[q] = Cardinality(M) + 1
      BY <2>2, <1>1, <1>2, <1>3, <1>5
    <3>2. Cardinality(M \cup {c}) = Cardinality(M) + 1
      BY <1>3, CountOne
    <3>3. d.clients[q] \in M \cup {c}
      BY <2>2, <1>1, <1>2, <1>3, <1>4 DEF RingOf
    <3> QED
      BY <3>1, <3>2, <3>3, <1>8 DEF RingOf
  <2> QED
    BY <2>1, <2>2
<1>11. ASSUME NEW x \in Clients, d.player[x] = NULL
       PROVE  d.links.next[x] = NULL /\ d.links.prev[x] = NULL
  <2>1. x # c /\ a.player[x] = NULL
    BY <1>1, <1>2, <1>11, NullIsNobody
  <2>2. x \notin M \cup {c}
    BY <2>1, NullIsNobody DEF Hears
  <2> QED
    BY <2>1, <2>2, <1>9 DEF Sound
<1>12. ASSUME NEW q \in Players, d.bot_output_client[q] # NULL
       PROVE  d.player[d.bot_output_client[q]] = q
  <2>1. a.player[a.bot_output_client[q]] = q /\ a.bot_output_client[q] \in Clients
    BY <1>1, <1>2, <1>12 DEF Sound, Pointers
  <2>2. a.bot_output_client[q] # c
    BY <2>1, NullIsNobody
  <2> QED
    BY <2>1, <2>2, <1>1, <1>2
<1>13. Sound(d)
  BY <1>7, <1>10, <1>11, <1>12 DEF Sound
<1> QED
  BY <1>2, <1>5, <1>13 DEF d

LEMMA AttachKeepsSound ==
  ASSUME NEW a, Sound(a), NEW c \in Clients, NEW p \in Players
  PROVE  /\ Sound(Attach(a, c, p))
         /\ Attach(a, c, p).player = [a.player EXCEPT ![c] = p]
<1>1. a.player \in [Clients -> Players \cup {NULL}]
  BY DEF Sound, Attachments
<1>2. CASE a.player[c] = p
  <2>1. \A q \in Players : c \in Hears(a, q) <=> q = p
    BY <1>2, <1>1 DEF Hears
  <2> QED
    BY <1>1, <1>2, <2>1 DEF Attach
<1>3. CASE a.player[c] # p
  <2> DEFINE b == DetachFromAny(a, c)
  <2>1. /\ Sound(b) /\ b.player = [a.player EXCEPT ![c] = NULL]
        /\ \A q \in Players :
             /\ Hears(b, q) = Hears(a, q) \ {c}
             /\ b.disconnected_for[q] = IF Hears(a, q) = {c} THEN 0 ELSE a.disconnected_for[q]
    BY DetachFromAnyKeepsSound
  <2>2. Attach(a, c, p) = Link(b, c, p)
    BY <1>3 DEF Attach
  <2> HIDE DEF b
  <2>3. b.player[c] = NULL
    BY <1>1, <2>1
  <2>4. \A x : Sound(x) /\ x.player[c] = NULL =>
          /\ Sound(Link(x, c, p))
          /\ Link(x, c, p).player = [x.player EXCEPT ![c] = p]
          /\ Link(x, c, p).disconnected_for = x.disconnected_for
          /\ \A q \in Players :
               Hears(Link(x, c, p), q) = IF q = p THEN Hears(x, q) \cup {c} ELSE Hears(x, q)
    BY LinkKeepsSound
  <2>5. /\ Sound(Link(b, c, p))
        /\ Link(b, c, p).player = [b.player EXCEPT ![c] = p]
        /\ Link(b, c, p).disconnected_for = b.disconnected_for
        /\ \A q \in Players :
             Hears(Link(b, c, p), q) = IF q = p THEN Hears(b, q) \cup {c} ELSE Hears(b, q)
    BY <2>1, <2>3, <2>4
  <2>6. c \notin Hears(a, p)
    BY <1>3 DEF Hears
  <2> QED
    BY <1>1, <2>1, <2>2, <2>5, <2>6
<1> QED
  BY <1>2, <1>3

\* The client that changes to p is heard nowhere else; the others do not notice.
LEMMA AttachEffect ==
  ASSUME NEW a, Sound(a), NEW c \in Clients, NEW p \in Players, a.player[c] # p
  PROVE  Moved(a, Attach(a, c, p), c, p)
<1> SUFFICES ASSUME NEW q \in Players
             PROVE  /\ Hears(Attach(a, c, p), q) =
                         IF q = p THEN Hears(a, q) \cup {c} ELSE Hears(a, q) \ {c}
                    /\ q # p => Attach(a, c, p).disconnected_for[q] =
                                  IF Hears(a, q) = {c} THEN 0 ELSE a.disconnected_for[q]
  BY DEF Moved
<1>1. a.player \in [Clients -> Players \cup {NULL}]
  BY DEF Sound, Attachments
<1>2. Attach(a, c, p).player = [a.player EXCEPT ![c] = p]
  BY AttachKeepsSound
<1>3. Attach(a, c, p).disconnected_for = DetachFromAny(a, c).disconnected_for
  BY DEF Attach, Link
<1>4. DetachFromAny(a, c).disconnected_for[q] =
        IF Hears(a, q) = {c} THEN 0 ELSE a.disconnected_for[q]
  <2>1. \A x : Sound(x) => \A r \in Players :
          /\ Hears(DetachFromAny(x, c), r) = Hears(x, r) \ {c}
          /\ DetachFromAny(x, c).disconnected_for[r] =
               IF Hears(x, r) = {c} THEN 0 ELSE x.disconnected_for[r]
    BY DetachFromAnyKeepsSound
  <2> QED
    BY <2>1
<1> QED
  BY <1>1, <1>2, <1>3, <1>4 DEF Hears

--------------------------------------------------------------------------------
(***************************************************************************)
(* player_create                                                           *)
(***************************************************************************)

\* The memset of a player record loses nothing if nobody hears the player.
LEMMA ZeroedKeepsSound ==
  ASSUME NEW a, Sound(a), NEW p \in Players, Hears(a, p) = {}
  PROVE  /\ Sound(Zeroed(a, p))
         /\ Zeroed(a, p).player = a.player
         /\ \A q \in Players : Hears(Zeroed(a, p), q) = Hears(a, q)
         /\ Zeroed(a, p).disconnected_for = [a.disconnected_for EXCEPT ![p] = 0]
<1> DEFINE d == Zeroed(a, p)
<1>1. /\ a.player \in [Clients -> Players \cup {NULL}]
      /\ a.links \in LinksSet
      /\ a.clients \in [Players -> Pointers]
      /\ a.num_clients \in [Players -> Nat]
      /\ a.bot_output_client \in [Players -> Pointers]
      /\ a.disconnected_for \in [Players -> Seconds]
  BY DEF Sound, Attachments
<1>2. /\ d.player = a.player
      /\ d.links = a.links
      /\ d.clients = [a.clients EXCEPT ![p] = NULL]
      /\ d.num_clients = [a.num_clients EXCEPT ![p] = 0]
      /\ d.bot_output_client = [a.bot_output_client EXCEPT ![p] = NULL]
      /\ d.disconnected_for = [a.disconnected_for EXCEPT ![p] = 0]
      /\ d = [player |-> d.player, links |-> d.links, clients |-> d.clients,
              num_clients |-> d.num_clients, bot_output_client |-> d.bot_output_client,
              disconnected_for |-> d.disconnected_for]
  BY DEF Zeroed
<1> HIDE DEF d
<1>3. d \in Attachments
  <2>1. 0 \in Seconds /\ NULL \in Pointers
    BY ConnectionsAssumption DEF Seconds, Pointers
  <2>2. /\ d.clients \in [Players -> Pointers]
        /\ d.num_clients \in [Players -> Nat]
        /\ d.bot_output_client \in [Players -> Pointers]
        /\ d.disconnected_for \in [Players -> Seconds]
    BY <1>1, <1>2, <2>1
  <2> QED
    BY <1>1, <1>2, <2>2 DEF Attachments
<1>4. \A q \in Players : Hears(d, q) = Hears(a, q)
  BY <1>2 DEF Hears
<1>5. a.clients[p] = NULL /\ a.num_clients[p] = 0
  BY FS_EmptySet DEF Sound, RingOf
<1>6. d.clients = a.clients /\ d.num_clients = a.num_clients
  BY <1>1, <1>2, <1>5
<1>7. \A q \in Players :
        d.bot_output_client[q] # NULL => d.player[d.bot_output_client[q]] = q
  BY <1>1, <1>2 DEF Sound
<1>8. Sound(d)
  BY <1>2, <1>3, <1>4, <1>6, <1>7 DEF Sound
<1> QED
  BY <1>2, <1>4, <1>8 DEF d

--------------------------------------------------------------------------------
(***************************************************************************)
(* The list of GUI clients; u is the set of records in use.                *)
(***************************************************************************)
GuiSound(g, u) ==
  /\ g \in GuiClients
  /\ RingOf(g.links, g.guiclients, u \cap g.is_gui_client)

\* client_turn_into_gui_client, for a client that is in use from now on.
LEMMA JoinGuiKeepsSound ==
  ASSUME NEW g, NEW u \in SUBSET Clients, GuiSound(g, u),
         NEW c \in Clients, c \notin g.is_gui_client
  PROVE  GuiSound(JoinGui(g, c), u \cup {c})
<1> DEFINE M == u \cap g.is_gui_client
           h == g.guiclients
           d == JoinGui(g, c)
<1>1. /\ g.is_gui_client \in SUBSET Clients /\ g.links \in LinksSet /\ h \in Pointers
      /\ M \in SUBSET Clients /\ c \notin M /\ RingOf(g.links, h, M)
  BY DEF GuiSound, GuiClients
<1>2. /\ d = [is_gui_client |-> g.is_gui_client \cup {c}, links |-> d.links, guiclients |-> d.guiclients]
      /\ d.links = IF h = NULL THEN LinkAlone(g.links, c) ELSE LinkAfter(g.links, h, c)
      /\ d.guiclients = IF h = NULL THEN c ELSE h
  BY DEF JoinGui
<1>3. (u \cup {c}) \cap d.is_gui_client = M \cup {c}
  BY <1>1, <1>2
<1> HIDE DEF d, M
<1>4. h = NULL <=> M = {}
  BY <1>1, NullIsNobody DEF RingOf
<1>5. d \in GuiClients
  <2>1. d.links \in LinksSet /\ d.guiclients \in Pointers
    BY <1>1, <1>2, LinksType DEF Pointers
  <2> QED
    BY <1>1, <1>2, <2>1 DEF GuiClients
<1>6. OneRing(d.links, M \cup {c})
  <2>1. CASE M = {}
    <3>1. d.links = LinkAlone(g.links, c) /\ M \cup {c} = {c}
      BY <2>1, <1>2, <1>4
    <3>2. OneRing(LinkAlone(g.links, c), {c})
      BY <1>1, AloneIsRing
    <3> QED
      BY <3>1, <3>2
  <2>2. CASE M # {}
    <3>1. d.links = LinkAfter(g.links, h, c) /\ h \in M /\ OneRing(g.links, M)
      BY <2>2, <1>1, <1>2, <1>4 DEF RingOf
    <3>2. c \in Clients \ M
      BY <1>1
    <3> HIDE DEF h
    <3>3. OneRing(LinkAfter(g.links, h, c), M \cup {c})
      BY <1>1, <3>1, <3>2, InsertIsRing
    <3> QED
      BY <3>1, <3>3
  <2> QED
    BY <2>1, <2>2
<1>7. d.guiclients \in M \cup {c}
  BY <1>1, <1>2, <1>4 DEF RingOf
<1> QED
  BY <1>3, <1>5, <1>6, <1>7 DEF GuiSound, RingOf, d

\* server_destroy, for a record in use.
LEMMA LeaveGuiKeepsSound ==
  ASSUME NEW g, NEW u \in SUBSET Clients, GuiSound(g, u), NEW c \in u
  PROVE  GuiSound(LeaveGui(g, c), u \ {c})
<1> DEFINE M == u \cap g.is_gui_client
           h == g.guiclients
           d == LeaveGui(g, c)
<1>1. /\ g.is_gui_client \in SUBSET Clients /\ g.links \in LinksSet /\ h \in Pointers
      /\ M \in SUBSET Clients /\ RingOf(g.links, h, M) /\ OneRing(g.links, M)
  BY DEF GuiSound, GuiClients, RingOf
<1>2. (u \ {c}) \cap g.is_gui_client = M \ {c}
  OBVIOUS
<1>3. CASE c \notin g.is_gui_client
  <2>1. d = g /\ M \ {c} = M
    BY <1>3 DEF LeaveGui
  <2> QED
    BY <1>2, <2>1 DEF GuiSound
<1>4. CASE c \in g.is_gui_client /\ g.links.next[c] = c
  <2>1. d = [g EXCEPT !.guiclients = NULL]
    BY <1>4 DEF LeaveGui
  <2>2. c \in M
    BY <1>4
  <2>3. M \ {c} = {}
    <3> HIDE DEF M
    <3>1. M = {c}
      BY <1>1, <1>4, <2>2, LonelyMember
    <3> QED
      BY <3>1
  <2>4. d \in GuiClients /\ d.is_gui_client = g.is_gui_client /\ d.guiclients = NULL
    BY <2>1 DEF GuiSound, GuiClients, Pointers
  <2>5. RingOf(d.links, NULL, {})
    BY DEF RingOf, OneRing
  <2> QED
    BY <1>2, <2>3, <2>4, <2>5 DEF GuiSound
<1>5. CASE c \in g.is_gui_client /\ g.links.next[c] # c
  <2>1. d = [g EXCEPT !.links = Unlink(g.links, c), !.guiclients = g.links.next[c]]
    BY <1>5 DEF LeaveGui
  <2>2. c \in M
    BY <1>5
  <2>3. OneRing(Unlink(g.links, c), M \ {c}) /\ g.links.next[c] \in M \ {c}
    <3> HIDE DEF M
    <3>1. M # {c}
      BY <1>1, <1>5, <2>2, LonelyMember
    <3> QED
      BY <1>1, <2>2, <3>1, UnlinkIsRing
  <2>4. Unlink(g.links, c) \in LinksSet /\ g.links.next[c] \in Pointers
    BY <1>1, <2>3, LinksType DEF Pointers
  <2>5. /\ d \in GuiClients /\ d.is_gui_client = g.is_gui_client
        /\ d.links = Unlink(g.links, c) /\ d.guiclients = g.links.next[c]
    BY <2>1, <2>4 DEF GuiSound, GuiClients
  <2> QED
    BY <1>2, <2>3, <2>5 DEF GuiSound, RingOf
<1> QED
  BY <1>3, <1>4, <1>5

\* server_accept, for a free record.
LEMMA ZeroGuiKeepsSound ==
  ASSUME NEW g, NEW u \in SUBSET Clients, GuiSound(g, u), NEW c \in Clients \ u
  PROVE  /\ GuiSound(ZeroGui(g, c), u)
         /\ GuiSound(ZeroGui(g, c), u \cup {c})
         /\ c \notin ZeroGui(g, c).is_gui_client
<1> DEFINE M == u \cap g.is_gui_client
           d == ZeroGui(g, c)
<1>1. /\ g.is_gui_client \in SUBSET Clients /\ g.links \in LinksSet /\ g.guiclients \in Pointers
      /\ M \in SUBSET Clients /\ c \notin M /\ RingOf(g.links, g.guiclients, M) /\ OneRing(g.links, M)
  BY DEF GuiSound, GuiClients, RingOf
<1>2. ClearLinks(g.links, c) \in LinksSet
  BY <1>1, LinksType
<1>3. /\ d \in GuiClients /\ d.is_gui_client = g.is_gui_client \ {c}
      /\ d.links = ClearLinks(g.links, c) /\ d.guiclients = g.guiclients
  BY <1>2 DEF ZeroGui, GuiSound, GuiClients
<1>4. u \cap d.is_gui_client = M /\ (u \cup {c}) \cap d.is_gui_client = M
  BY <1>3
<1>5. \A x \in M : d.links.next[x] = g.links.next[x] /\ d.links.prev[x] = g.links.prev[x]
  BY <1>1, <1>3 DEF ClearLinks, LinksSet
<1>6. OneRing(d.links, M)
  <2> HIDE DEF M, d
  <2> QED
    BY <1>1, <1>5, SameRing
<1> QED
  BY <1>1, <1>3, <1>4, <1>6 DEF GuiSound, RingOf

--------------------------------------------------------------------------------
(***************************************************************************)
(* The inductive invariant                                                 *)
(***************************************************************************)

\* Who hears a player is in use, and so is the player.
Held(a, u, ps) == \A c \in Clients : a.player[c] # NULL => c \in u /\ a.player[c] \in ps

\* A player that is being destroyed has a reason to go.
Going ==
  dying # NULL => dying \in present /\ (phase = "shutdown" \/ (phase = "round" /\ HasToGo(dying)))

Ind ==
  /\ TypeOK
  /\ Sound(att)
  /\ GuiSound(gui, used)
  /\ num_clients = Cardinality(used)
  /\ Held(att, used, present)
  /\ Going

LEMMA InitInd == Init => Ind
<1> SUFFICES ASSUME Init PROVE Ind
  OBVIOUS
<1>1. 0 \in Clients /\ NULL \in Pointers /\ 0 \in Seconds /\ 0 \in 0 .. KICK_TICKS - 1
  BY ClientsAssumption, ConnectionsAssumption DEF Clients, Pointers, Seconds
<1>2. NoLinks \in LinksSet
  BY DEF NoLinks, LinksSet, Pointers
<1>3. att \in Attachments
  BY <1>1, <1>2 DEF Init, Attachments
<1>4. gui \in GuiClients
  BY <1>1, <1>2 DEF Init, GuiClients
<1>5. TypeOK
  BY <1>1, <1>3, <1>4 DEF Init, TypeOK, Kinds, Phases
<1>6. \A p \in Players : Hears(att, p) = {}
  BY NullIsNobody DEF Init, Hears
<1>7. \A l : RingOf(l, NULL, {})
  BY DEF RingOf, OneRing
<1>8. Sound(att)
  BY <1>3, <1>6, <1>7, FS_EmptySet DEF Init, Sound, NoLinks
<1>9. GuiSound(gui, used)
  BY <1>4, <1>7 DEF Init, GuiSound
<1>10. Cardinality({0}) = 1
  BY FS_Singleton
<1> QED
  BY <1>5, <1>8, <1>9, <1>10 DEF Init, Ind, Held, Going

\* A free record taken by server_accept.
LEMMA AcceptKeeps ==
  ASSUME Ind, NEW c \in Clients, NEW k \in Kinds, Accept(c, k)
  PROVE  /\ c \notin used
         /\ used' = used \cup {c} /\ used' \in SUBSET Clients
         /\ kind' \in [Clients -> Kinds] /\ kill_me' \in SUBSET Clients
         /\ num_clients' \in Nat /\ num_clients' = Cardinality(used')
         /\ GuiSound(ZeroGui(gui, c), used')
         /\ GuiSound(JoinGui(ZeroGui(gui, c), c), used')
<1>1. c \notin used /\ used \in SUBSET Clients /\ GuiSound(gui, used)
  BY DEF Ind, TypeOK, Accept, IsFreeRecord
<1>2. used' = used \cup {c} /\ kind' \in [Clients -> Kinds] /\ kill_me' \in SUBSET Clients
  BY DEF Ind, TypeOK, Accept
<1>3. num_clients' \in Nat /\ num_clients' = Cardinality(used')
  BY <1>1, <1>2, CountOne DEF Ind, TypeOK, Accept
<1>4. /\ GuiSound(ZeroGui(gui, c), used) /\ GuiSound(ZeroGui(gui, c), used \cup {c})
      /\ c \notin ZeroGui(gui, c).is_gui_client
  BY <1>1, ZeroGuiKeepsSound
<1>5. GuiSound(JoinGui(ZeroGui(gui, c), c), used \cup {c})
  BY <1>1, <1>4, JoinGuiKeepsSound
<1> QED
  BY <1>1, <1>2, <1>3, <1>4, <1>5

\* A record given up by server_destroy.
LEMMA DestroyKeeps ==
  ASSUME Ind, NEW c \in used, Destroy(c)
  PROVE  /\ used' = used \ {c} /\ used' \in SUBSET Clients
         /\ kind' \in [Clients -> Kinds] /\ kill_me' \in SUBSET Clients
         /\ num_clients' \in Nat /\ num_clients' = Cardinality(used')
         /\ Sound(att') /\ GuiSound(gui', used') /\ Held(att', used', present)
<1>1. c \in Clients /\ used \in SUBSET Clients /\ Sound(att) /\ GuiSound(gui, used)
  BY DEF Ind, TypeOK
<1>2. used' = used \ {c} /\ kind' \in [Clients -> Kinds] /\ kill_me' \in SUBSET Clients
  BY DEF Ind, TypeOK, Destroy
<1>3. num_clients' \in Nat /\ num_clients' = Cardinality(used')
  <2>1. num_clients' = Cardinality(used) - 1 /\ used' \in SUBSET Clients
    BY <1>1, <1>2 DEF Ind, Destroy
  <2> QED
    BY <1>1, <1>2, <2>1, CountOne, ClientsFinite
<1>4. Sound(att') /\ att'.player = [att.player EXCEPT ![c] = NULL]
  BY <1>1, DetachFromAnyKeepsSound DEF Destroy
<1>5. GuiSound(gui', used')
  BY <1>1, <1>2, LeaveGuiKeepsSound DEF Destroy
<1>6. Held(att', used', present)
  <2>1. att.player \in [Clients -> Players \cup {NULL}]
    BY <1>1 DEF Sound, Attachments
  <2> QED
    BY <1>2, <1>4, <2>1 DEF Ind, Held
<1> QED
  BY <1>1, <1>2, <1>3, <1>4, <1>5, <1>6

\* A record taken by player_create; a client may join it at once.
LEMMA CreateKeeps ==
  ASSUME Ind, NEW p \in Players, NEW k \in {0, NO_CLIENT_KICK_TIME}, Create(p, k)
  PROVE  /\ p \notin present
         /\ present' \in SUBSET Players /\ doomed' \in SUBSET Players /\ low' \in SUBSET Players
         /\ no_client_kick_time' \in [Players -> {0, NO_CLIENT_KICK_TIME}]
         /\ Sound(Zeroed(att, p)) /\ Zeroed(att, p).player = att.player
         /\ Hears(att, p) = {}
         /\ \A c \in Clients : /\ Sound(Attach(Zeroed(att, p), c, p))
                               /\ Attach(Zeroed(att, p), c, p).player = [att.player EXCEPT ![c] = p]
<1>1. p \notin present
  BY DEF Create, IsUnusedPlayer
<1>2. /\ present' \in SUBSET Players /\ doomed' \in SUBSET Players /\ low' \in SUBSET Players
      /\ no_client_kick_time' \in [Players -> {0, NO_CLIENT_KICK_TIME}]
  BY DEF Create, Ind, TypeOK
<1>3. Hears(att, p) = {}
  BY <1>1, NullIsNobody DEF Ind, Held, Hears
<1>4. Sound(att)
  BY DEF Ind
<1>5. Sound(Zeroed(att, p)) /\ Zeroed(att, p).player = att.player
  BY <1>3, <1>4, ZeroedKeepsSound
<1>6. \A c \in Clients : /\ Sound(Attach(Zeroed(att, p), c, p))
                          /\ Attach(Zeroed(att, p), c, p).player = [att.player EXCEPT ![c] = p]
  BY <1>5, AttachKeepsSound
<1> QED
  BY <1>1, <1>2, <1>3, <1>5, <1>6

\* The rest of the invariant: what is left when the lists are dealt with.
Rest ==
  /\ used \in SUBSET Clients
  /\ kind \in [Clients -> Kinds]
  /\ kill_me \in SUBSET Clients
  /\ num_clients \in Nat
  /\ num_clients = Cardinality(used)
  /\ present \in SUBSET Players
  /\ doomed \in SUBSET Players
  /\ low \in SUBSET Players
  /\ no_client_kick_time \in [Players -> {0, NO_CLIENT_KICK_TIME}]
  /\ phase \in Phases
  /\ dying \in Players \cup {NULL}
  /\ kicktick \in 0 .. KICK_TICKS - 1

LEMMA IndParts ==
  Ind <=> Rest /\ Sound(att) /\ GuiSound(gui, used) /\ Held(att, used, present) /\ Going
  BY DEF Ind, Rest, TypeOK, Sound, GuiSound

LEMMA IndPartsNext ==
  Rest' /\ Sound(att') /\ GuiSound(gui', used') /\ Held(att', used', present') /\ Going' => Ind'
  BY DEF Ind, Rest, TypeOK, Sound, GuiSound

\* Nobody is being destroyed outside of player_round and player_shutdown.
LEMMA NobodyDying ==
  ASSUME Ind, phase \notin {"round", "shutdown"}
  PROVE  dying = NULL
  BY DEF Ind, Going

\* What happens on a connection.
LEMMA ClientEventInd ==
  ASSUME Ind, NEW c \in Clients, ClientEvent(c)
  PROVE  Ind'
<1> USE DEF clientVars, playerVars, loopVars
<1>1. Rest /\ Sound(att) /\ GuiSound(gui, used) /\ Held(att, used, present) /\ Going
  BY IndParts
<1>2. att.player \in [Clients -> Players \cup {NULL}]
  BY <1>1 DEF Sound, Attachments
<1>3. CASE Connect(c)
  <2>1. "socket" \in Kinds /\ Accept(c, "socket")
    BY <1>3 DEF Connect, Kinds
  <2>2. /\ used' = used \cup {c} /\ used' \in SUBSET Clients
        /\ kind' \in [Clients -> Kinds] /\ kill_me' \in SUBSET Clients
        /\ num_clients' \in Nat /\ num_clients' = Cardinality(used')
        /\ GuiSound(ZeroGui(gui, c), used')
    BY <2>1, AcceptKeeps
  <2>3. Going'
    BY <1>1, <1>3, NobodyDying DEF Connect, Going
  <2> QED
    BY <1>1, <1>3, <2>2, <2>3, IndPartsNext DEF Connect, Rest, Held
<1>4. CASE Refuse(c)
  <2>1. c \in Clients \ used /\ GuiSound(ZeroGui(gui, c), used)
    BY <1>1, <1>4, ZeroGuiKeepsSound DEF Refuse, IsFreeRecord, Rest
  <2>2. Going'
    BY <1>1, <1>4, NobodyDying DEF Refuse, Going
  <2> QED
    BY <1>1, <1>4, <2>1, <2>2, IndPartsNext DEF Refuse, Rest, Held
<1>5. CASE Close(c)
  <2>1. /\ used' = used \ {c} /\ used' \in SUBSET Clients
        /\ kind' \in [Clients -> Kinds] /\ kill_me' \in SUBSET Clients
        /\ num_clients' \in Nat /\ num_clients' = Cardinality(used')
        /\ Sound(att') /\ GuiSound(gui', used') /\ Held(att', used', present)
    BY <1>5, DestroyKeeps DEF Close
  <2>2. Going'
    BY <1>1, <1>5, NobodyDying DEF Close, Going
  <2> QED
    BY <1>1, <1>5, <2>1, <2>2, IndPartsNext DEF Close, Rest
<1>6. CASE Disconnect(c)
  <2>1. Going'
    BY <1>1, <1>6, NobodyDying DEF Disconnect, Going
  <2> QED
    BY <1>1, <1>6, <2>1, IndPartsNext DEF Disconnect, Rest
<1>7. CASE MakeGui(c)
  <2>1. c \in used /\ used \cup {c} = used /\ c \notin gui.is_gui_client
    BY <1>7 DEF MakeGui, Typing, Heard
  <2>2. GuiSound(JoinGui(gui, c), used)
    <3>1. GuiSound(JoinGui(gui, c), used \cup {c})
      BY <1>1, <2>1, JoinGuiKeepsSound DEF Rest
    <3> QED
      BY <2>1, <3>1
  <2>3. Going'
    BY <1>1, <1>7, NobodyDying DEF MakeGui, Typing, Heard, Going
  <2> QED
    BY <1>1, <1>7, <2>2, <2>3, IndPartsNext DEF MakeGui, Rest
<1>8. CASE Part(c)
  <2>1. Sound(att') /\ att'.player = [att.player EXCEPT ![c] = NULL]
    BY <1>1, <1>8, DetachKeepsSound, DetachEffect DEF Part
  <2>2. Held(att', used, present)
    BY <1>1, <1>2, <2>1 DEF Held
  <2>3. Going'
    BY <1>1, <1>8, NobodyDying DEF Part, Typing, Heard, Going
  <2> QED
    BY <1>1, <1>8, <2>1, <2>2, <2>3, IndPartsNext DEF Part, Rest
<1>9. CASE SetOutputClient(c)
  <2> DEFINE p == att.player[c]
  <2>1. PICK output \in {c, NULL} : att' = [att EXCEPT !.bot_output_client[p] = output]
    BY <1>9 DEF SetOutputClient
  <2>2. p \in Players /\ output \in Pointers
    BY <1>2, <1>9 DEF SetOutputClient, Pointers
  <2>3. /\ att' \in Attachments /\ att'.player = att.player /\ att'.links = att.links
        /\ att'.clients = att.clients /\ att'.num_clients = att.num_clients
        /\ att'.bot_output_client = [att.bot_output_client EXCEPT ![p] = output]
    BY <1>1, <2>1, <2>2 DEF Sound, Attachments
  <2>4. \A q : Hears(att', q) = Hears(att, q)
    BY <2>3 DEF Hears
  <2>5. \A q \in Players : att'.bot_output_client[q] # NULL => att'.player[att'.bot_output_client[q]] = q
    BY <1>1, <2>2, <2>3 DEF Sound, Attachments
  <2>6. Sound(att')
    BY <1>1, <2>3, <2>4, <2>5 DEF Sound
  <2>7. Going'
    BY <1>1, <1>9, NobodyDying DEF SetOutputClient, Typing, Heard, Going
  <2>8. Held(att', used, present)
    BY <1>1, <2>3 DEF Held
  <2> QED
    BY <1>1, <1>9, <2>6, <2>7, <2>8, IndPartsNext DEF SetOutputClient, Rest
<1>10. CASE NoKick(c)
  <2>1. Going'
    BY <1>1, <1>10, NobodyDying DEF NoKick, Typing, Heard, Going
  <2> QED
    BY <1>1, <1>10, <2>1, IndPartsNext DEF NoKick, Rest
<1>11. ASSUME NEW p \in Players, Join(c, p)
       PROVE  Ind'
  <2>1. Sound(att') /\ att'.player = [att.player EXCEPT ![c] = p]
    BY <1>1, <1>11, AttachKeepsSound DEF Join
  <2>2. Held(att', used, present)
    BY <1>1, <1>2, <1>11, <2>1 DEF Held, Join, Typing, Heard
  <2>3. Going'
    BY <1>1, <1>11, NobodyDying DEF Join, Typing, Heard, Going
  <2> QED
    BY <1>1, <1>11, <2>1, <2>2, <2>3, IndPartsNext DEF Join, Rest
<1>12. ASSUME NEW p \in Players, JoinNew(c, p)
       PROVE  Ind'
  <2>1. /\ present' \in SUBSET Players /\ doomed' \in SUBSET Players /\ low' \in SUBSET Players
        /\ no_client_kick_time' \in [Players -> {0, NO_CLIENT_KICK_TIME}]
        /\ Sound(att') /\ att'.player = [att.player EXCEPT ![c] = p]
    BY <1>12, CreateKeeps DEF JoinNew
  <2>2. Held(att', used, present')
    BY <1>1, <1>2, <1>12, <2>1 DEF Held, JoinNew, Typing, Heard, Create
  <2>3. Going'
    BY <1>1, <1>12, NobodyDying DEF JoinNew, Typing, Heard, Going
  <2> QED
    BY <1>1, <1>12, <2>1, <2>2, <2>3, IndPartsNext DEF JoinNew, Rest
<1>13. ASSUME NEW p \in Players, StartLoggedBot(p, c)
       PROVE  Ind'
  <2>1. /\ present' \in SUBSET Players /\ doomed' \in SUBSET Players /\ low' \in SUBSET Players
        /\ no_client_kick_time' \in [Players -> {0, NO_CLIENT_KICK_TIME}]
        /\ Sound(att') /\ att'.player = [att.player EXCEPT ![c] = p]
    BY <1>13, CreateKeeps DEF StartLoggedBot
  <2>2. "log" \in Kinds /\ Accept(c, "log")
    BY <1>13 DEF StartLoggedBot, Kinds
  <2>3. /\ used' = used \cup {c} /\ used' \in SUBSET Clients
        /\ kind' \in [Clients -> Kinds] /\ kill_me' \in SUBSET Clients
        /\ num_clients' \in Nat /\ num_clients' = Cardinality(used')
        /\ GuiSound(gui', used')
    BY <1>13, <2>2, AcceptKeeps DEF StartLoggedBot
  <2>4. Held(att', used', present')
    BY <1>1, <1>2, <1>13, <2>1, <2>3 DEF Held, StartLoggedBot, Create
  <2>5. Going'
    BY <1>1, <1>13, NobodyDying DEF StartLoggedBot, Going
  <2> QED
    BY <1>1, <1>13, <2>1, <2>3, <2>4, <2>5, IndPartsNext DEF StartLoggedBot, Rest
<1> QED
  BY <1>3, <1>4, <1>5, <1>6, <1>7, <1>8, <1>9, <1>10, <1>11, <1>12, <1>13 DEF ClientEvent

\* Commands about players.
LEMMA PlayerEventInd ==
  ASSUME Ind, NEW p \in Players, PlayerEvent(p)
  PROVE  Ind'
<1> USE DEF clientVars, playerVars, loopVars
<1>1. Rest /\ Sound(att) /\ GuiSound(gui, used) /\ Held(att, used, present) /\ Going
  BY IndParts
<1>2. CASE KillPlayer(p)
  <2>1. Going'
    BY <1>1, <1>2, NobodyDying DEF KillPlayer, Going
  <2> QED
    BY <1>1, <1>2, <2>1, IndPartsNext DEF KillPlayer, Rest
<1>3. CASE ScoreChanges(p)
  <2>1. Going'
    BY <1>1, <1>3, NobodyDying DEF ScoreChanges, Going
  <2> QED
    BY <1>1, <1>3, <2>1, IndPartsNext DEF ScoreChanges, Rest
<1>4. CASE StartBot(p)
  <2>1. /\ present' \in SUBSET Players /\ doomed' \in SUBSET Players /\ low' \in SUBSET Players
        /\ no_client_kick_time' \in [Players -> {0, NO_CLIENT_KICK_TIME}]
        /\ Sound(att') /\ att'.player = att.player
    BY <1>4, CreateKeeps DEF StartBot
  <2>2. Held(att', used, present')
    BY <1>1, <1>4, <2>1 DEF Held, StartBot, Create
  <2>3. Going'
    BY <1>1, <1>4, NobodyDying DEF StartBot, Going
  <2> QED
    BY <1>1, <1>4, <2>1, <2>2, <2>3, IndPartsNext DEF StartBot, Rest
<1> QED
  BY <1>2, <1>3, <1>4 DEF PlayerEvent

\* The demo file of a new game.
LEMMA StartDemoInd ==
  ASSUME Ind, NEW c \in Clients, StartDemo(c)
  PROVE  Ind'
<1> USE DEF clientVars, playerVars, loopVars
<1>1. Rest /\ Sound(att) /\ GuiSound(gui, used) /\ Held(att, used, present) /\ Going
  BY IndParts
<1>2. "demo" \in Kinds /\ Accept(c, "demo")
  BY DEF StartDemo, Kinds
<1>3. /\ used' = used \cup {c} /\ used' \in SUBSET Clients
      /\ kind' \in [Clients -> Kinds] /\ kill_me' \in SUBSET Clients
      /\ num_clients' \in Nat /\ num_clients' = Cardinality(used')
      /\ GuiSound(gui', used')
  BY <1>2, AcceptKeeps DEF StartDemo
<1>4. Going'
  BY <1>1, NobodyDying DEF StartDemo, Going
<1> QED
  BY <1>1, <1>3, <1>4, IndPartsNext DEF StartDemo, Rest, Held

\* A loop that destroys client records, where no player is being destroyed.
LEMMA DestroyNextInd ==
  ASSUME Ind, NEW S \in SUBSET used, DestroyNext(S), dying = NULL
  PROVE  Ind'
<1> USE DEF clientVars, playerVars, loopVars
<1>1. Rest /\ Sound(att) /\ GuiSound(gui, used) /\ Held(att, used, present) /\ Going
  BY IndParts
<1>2. PICK c \in used : Destroy(c)
  BY DEF DestroyNext
<1>3. /\ used' \in SUBSET Clients
      /\ kind' \in [Clients -> Kinds] /\ kill_me' \in SUBSET Clients
      /\ num_clients' \in Nat /\ num_clients' = Cardinality(used')
      /\ Sound(att') /\ GuiSound(gui', used') /\ Held(att', used', present)
  BY <1>2, DestroyKeeps
<1> QED
  BY <1>1, <1>3, IndPartsNext DEF DestroyNext, Rest, Going

\* The steps of the main loop.
LEMMA LoopInd ==
  ASSUME Ind, Loop
  PROVE  Ind'
<1> USE DEF clientVars, playerVars, loopVars
<1>1. Rest /\ Sound(att) /\ GuiSound(gui, used) /\ Held(att, used, present) /\ Going
  BY IndParts
<1>2. CASE EndIO
  <2>1. (kicktick + 1) % KICK_TICKS \in 0 .. KICK_TICKS - 1
    BY <1>1, ConnectionsAssumption DEF Rest
  <2>2. Going'
    BY <1>1, <1>2, NobodyDying DEF EndIO, Going
  <2> QED
    BY <1>1, <1>2, <2>1, <2>2, IndPartsNext DEF EndIO, Rest, Phases
<1>3. CASE KickMarked
  <2>1. ToKick \in SUBSET used /\ dying = NULL
    BY <1>3, NobodyDying DEF KickMarked, ToKick
  <2> QED
    BY <1>3, <2>1, DestroyNextInd DEF KickMarked
<1>4. ASSUME NEW s \in 0 .. MaxElapsed, NextPass(s)
      PROVE  Ind'
  <2> DEFINE ages == [p \in Players |-> Later(att.disconnected_for[p], s)]
  <2>1. ages \in [Players -> Seconds]
    <3>1. \A p \in Players : att.disconnected_for[p] \in Seconds
      BY <1>1 DEF Sound, Attachments
    <3>2. s \in Nat
      BY ConnectionsAssumption
    <3> QED
      BY <3>1, <3>2, LaterType
  <2>2. att' = [att EXCEPT !.disconnected_for = ages]
    BY <1>4 DEF NextPass
  <2> HIDE DEF ages
  <2>3. /\ att' \in Attachments /\ att'.player = att.player /\ att'.links = att.links
        /\ att'.clients = att.clients /\ att'.num_clients = att.num_clients
        /\ att'.bot_output_client = att.bot_output_client
    BY <1>1, <2>1, <2>2 DEF Sound, Attachments
  <2>4. \A q : Hears(att', q) = Hears(att, q)
    BY <2>3 DEF Hears
  <2>5. Sound(att')
    BY <1>1, <2>3, <2>4 DEF Sound
  <2>6. dying = NULL
    BY <1>4, NobodyDying DEF NextPass
  <2>7. Going' /\ Held(att', used, present)
    BY <1>1, <1>4, <2>3, <2>6 DEF NextPass, Going, Held
  <2> QED
    BY <1>1, <1>4, <2>5, <2>7, IndPartsNext DEF NextPass, Rest, Phases
<1>5. ASSUME NEW p \in Players, BeginRemove(p)
      PROVE  Ind'
  <2>1. p \in present /\ (phase = "shutdown" \/ (phase = "round" /\ HasToGo(p)))
    BY <1>1, <1>5 DEF BeginRemove, ToRemove
  <2>2. Going'
    BY <1>5, <2>1 DEF BeginRemove, Going, HasToGo, Abandoned
  <2> QED
    BY <1>1, <1>5, <2>2, IndPartsNext DEF BeginRemove, Rest
<1>6. CASE DetachHead
  <2> DEFINE h == att.clients[dying]
  <2>1. dying \in Players /\ h # NULL
    BY <1>1, <1>6 DEF DetachHead, Rest
  <2>2. /\ RingOf(att.links, h, Hears(att, dying))
        /\ att.num_clients[dying] = Cardinality(Hears(att, dying))
    BY <1>1, <2>1 DEF Sound
  <2>3. h \in Hears(att, dying)
    BY <2>1, <2>2 DEF RingOf
  <2>4. h \in Clients /\ att.player[h] = dying
    BY <2>3 DEF Hears
  <2>5. Sound(att') /\ att'.player = [att.player EXCEPT ![h] = NULL]
    BY <1>1, <1>6, <2>1, <2>4, DetachKeepsSound, DetachEffect, NullIsNobody DEF DetachHead
  <2>6. Held(att', used, present)
    BY <1>1, <2>4, <2>5 DEF Held, Sound, Attachments
  <2>7. att.num_clients[dying] # 0
    BY <2>2, <2>3, ClientsFinite DEF Hears
  <2>8. Going'
    BY <1>1, <1>6, <2>7 DEF DetachHead, Going, HasToGo, Abandoned
  <2> QED
    BY <1>1, <1>6, <2>5, <2>6, <2>8, IndPartsNext DEF DetachHead, Rest
<1>7. CASE EndRemove
  <2>1. dying \in Players /\ att.clients[dying] = NULL
    BY <1>1, <1>7 DEF EndRemove, Rest
  <2>2. Hears(att, dying) = {}
    BY <1>1, <2>1, NullIsNobody DEF Sound, RingOf, Hears
  <2>3. Held(att, used, present')
    BY <1>1, <1>7, <2>2 DEF EndRemove, Held, Hears
  <2> QED
    BY <1>1, <1>7, <2>3, IndPartsNext DEF EndRemove, Rest, Going
<1>8. CASE EndRound
  BY <1>1, <1>8, IndPartsNext DEF EndRound, Rest, Going, Phases
<1>9. CASE EndGame
  <2>1. Going'
    BY <1>1, <1>9, NobodyDying DEF EndGame, Going
  <2> QED
    BY <1>1, <1>9, <2>1, IndPartsNext DEF EndGame, Rest, Phases
<1>10. CASE CloseDemo
  <2>1. Demos \in SUBSET used /\ dying = NULL
    BY <1>10, NobodyDying DEF CloseDemo, Demos
  <2> QED
    BY <1>10, <2>1, DestroyNextInd DEF CloseDemo
<1>11. CASE AfterGame
  <2>1. Going'
    BY <1>1, <1>11, NobodyDying DEF AfterGame, Going
  <2> QED
    BY <1>1, <1>11, <2>1, IndPartsNext DEF AfterGame, Rest, Phases
<1>12. CASE CloseAll
  <2>1. dying = NULL
    BY <1>1, <1>12 DEF CloseAll, Going
  <2> QED
    BY <1>12, <2>1, DestroyNextInd DEF CloseAll
<1> QED
  BY <1>2, <1>3, <1>4, <1>5, <1>6, <1>7, <1>8, <1>9, <1>10, <1>11, <1>12 DEF Loop

LEMMA StepInd == Ind /\ [Next]_vars => Ind'
<1> SUFFICES ASSUME Ind, [Next]_vars PROVE Ind'
  OBVIOUS
<1>1. CASE UNCHANGED vars
  <2>1. /\ Rest' /\ att' = att /\ gui' = gui /\ used' = used /\ present' = present
        /\ Going' /\ Sound(att) /\ GuiSound(gui, used) /\ Held(att, used, present)
    BY <1>1, IndParts DEF vars, clientVars, playerVars, loopVars, Rest, Going, HasToGo, Abandoned
  <2> QED
    BY <2>1, IndPartsNext
<1>2. CASE Stopped
  BY <1>1, <1>2 DEF Stopped
<1>3. CASE Loop
  BY <1>3, LoopInd
<1>4. ASSUME NEW c \in Clients, ClientEvent(c) \/ StartDemo(c)
      PROVE  Ind'
  BY <1>4, ClientEventInd, StartDemoInd
<1>5. ASSUME NEW p \in Players, PlayerEvent(p)
      PROVE  Ind'
  BY <1>5, PlayerEventInd
<1> QED
  BY <1>1, <1>2, <1>3, <1>4, <1>5 DEF Next

--------------------------------------------------------------------------------
(***************************************************************************)
(* The implementation of Audience                                          *)
(***************************************************************************)
Au(a) == [p \in Players |-> Hears(a, p)]

Wa(a, ps) ==
  [p \in Players |-> IF p \in ps /\ Hears(a, p) = {} THEN a.disconnected_for[p] ELSE 0]

\* The walk along the list of a player reaches whoever points to the player.
LEMMA WalkHears ==
  ASSUME NEW a, Sound(a), NEW p \in Players
  PROVE  /\ Walk(a.links.next, a.clients[p]) = Hears(a, p)
         /\ a.clients[p] = NULL <=> Hears(a, p) = {}
<1>1. /\ a.links \in LinksSet /\ Hears(a, p) \in SUBSET Clients
      /\ RingOf(a.links, a.clients[p], Hears(a, p))
  BY DEF Sound, Attachments, Hears
<1>2. Walk(a.links.next, a.clients[p]) = Hears(a, p)
  BY <1>1, WalkIsRing
<1>3. a.clients[p] = NULL <=> Hears(a, p) = {}
  BY <1>1, NullIsNobody DEF RingOf
<1> QED
  BY <1>2, <1>3

\* The abstract audience, now and after a step.
LEMMA Mapping ==
  ASSUME Ind, Ind'
  PROVE  /\ AudienceOf = Au(att) /\ Waited = Wa(att, present)
         /\ AudienceOf' = Au(att') /\ Waited' = Wa(att', present')
<1>1. Sound(att) /\ Sound(att')
  BY DEF Ind
<1>2. AudienceOf = Au(att) /\ Waited = Wa(att, present)
  BY <1>1, WalkHears DEF AudienceOf, Waited, Au, Wa
<1>3. AudienceOf' = Au(att') /\ Waited' = Wa(att', present')
  BY <1>1, WalkHears DEF AudienceOf, Waited, Au, Wa
<1> QED
  BY <1>2, <1>3

\* A client hears one player.
LEMMA OnePlayer ==
  ASSUME NEW a, NEW p, NEW q, p # q
  PROVE  Hears(a, p) \cap Hears(a, q) = {}
  BY DEF Hears

\* A client that begins to hear p.
LEMMA AttachGathers ==
  ASSUME Ind, Ind', NEW c \in Clients, NEW p \in Players, c \notin Hears(att, p),
         Moved(att, att', c, p), present' \ {p} = present \ {p}
  PROVE  A!Gather(p, Hears(att, p) \cup {c})
<1> DEFINE S == Hears(att, p) \cup {c}
<1>1. /\ AudienceOf = Au(att) /\ Waited = Wa(att, present)
      /\ AudienceOf' = Au(att') /\ Waited' = Wa(att', present')
  BY Mapping
<1>2. Au(att') = [q \in Players |-> IF q = p THEN S ELSE Au(att)[q] \ S]
  <2>1. ASSUME NEW q \in Players
        PROVE  Hears(att', q) = IF q = p THEN S ELSE Hears(att, q) \ S
    BY OnePlayer DEF Moved
  <2> QED
    BY <2>1 DEF Au
<1>3. Wa(att', present') =
        [q \in Players |-> IF Au(att')[q] = Au(att)[q] THEN Wa(att, present)[q] ELSE 0]
  <2>1. ASSUME NEW q \in Players
        PROVE  Wa(att', present')[q] = IF Hears(att', q) = Hears(att, q) THEN Wa(att, present)[q] ELSE 0
    <3>1. CASE q = p
      <4>1. Hears(att', q) # {} /\ Hears(att', q) # Hears(att, q)
        BY <3>1 DEF Moved
      <4> QED
        BY <4>1 DEF Wa
    <3>2. CASE q # p /\ c \in Hears(att, q)
      <4>1. Hears(att', q) # Hears(att, q) /\ (Hears(att', q) = {} <=> Hears(att, q) = {c})
        BY <3>2 DEF Moved
      <4> QED
        BY <3>2, <4>1 DEF Wa, Moved
    <3>3. CASE q # p /\ c \notin Hears(att, q)
      <4>1. Hears(att', q) = Hears(att, q) /\ Hears(att, q) # {c}
        BY <3>3 DEF Moved
      <4> QED
        BY <3>3, <4>1 DEF Wa, Moved
    <3> QED
      BY <3>1, <3>2, <3>3
  <2> QED
    BY <2>1 DEF Wa, Au
<1> QED
  BY <1>1, <1>2, <1>3 DEF A!Gather

\* A client that does not hear p any more, nor anybody else.
LEMMA DetachGathers ==
  ASSUME Ind, Ind', NEW p \in Players, NEW c \in Hears(att, p), present' = present,
         \A q \in Players :
           /\ Hears(att', q) = Hears(att, q) \ {c}
           /\ att'.disconnected_for[q] = IF Hears(att, q) = {c} THEN 0 ELSE att.disconnected_for[q]
  PROVE  A!Gather(p, Hears(att, p) \ {c})
<1> DEFINE S == Hears(att, p) \ {c}
<1>1. /\ AudienceOf = Au(att) /\ Waited = Wa(att, present)
      /\ AudienceOf' = Au(att') /\ Waited' = Wa(att', present')
  BY Mapping
<1>2. \A q \in Players \ {p} : c \notin Hears(att, q) /\ Hears(att, q) \cap Hears(att, p) = {}
  BY OnePlayer
<1>3. Au(att') = [q \in Players |-> IF q = p THEN S ELSE Au(att)[q] \ S]
  <2>1. ASSUME NEW q \in Players
        PROVE  Hears(att', q) = IF q = p THEN S ELSE Hears(att, q) \ S
    BY <1>2
  <2> QED
    BY <2>1 DEF Au
<1>4. Wa(att', present') =
        [q \in Players |-> IF Au(att')[q] = Au(att)[q] THEN Wa(att, present)[q] ELSE 0]
  <2>1. ASSUME NEW q \in Players
        PROVE  Wa(att', present')[q] = IF Hears(att', q) = Hears(att, q) THEN Wa(att, present)[q] ELSE 0
    <3>1. CASE q = p
      <4>1. Hears(att', q) # Hears(att, q) /\ (Hears(att', q) = {} <=> Hears(att, q) = {c})
        BY <3>1
      <4> QED
        BY <4>1 DEF Wa
    <3>2. CASE q # p
      <4>1. Hears(att', q) = Hears(att, q) /\ Hears(att, q) # {c}
        BY <1>2, <3>2
      <4> QED
        BY <4>1 DEF Wa
    <3> QED
      BY <3>1, <3>2
  <2> QED
    BY <2>1 DEF Wa, Au
<1> QED
  BY <1>1, <1>3, <1>4 DEF A!Gather

\* Who is heard, for how long not, and who is in the game: nothing else counts.
LEMMA SameAudience ==
  ASSUME Ind, Ind', att'.player = att.player, att'.disconnected_for = att.disconnected_for,
         present' = present
  PROVE  AudienceOf' = AudienceOf /\ Waited' = Waited
<1>1. \A p : Hears(att', p) = Hears(att, p)
  BY DEF Hears
<1> QED
  BY <1>1, Mapping DEF Au, Wa

\* One client detached, by whatever function: a departure, or nothing at all.
LEMMA DetachDeparts ==
  ASSUME Ind, Ind', NEW c \in Clients, att' = DetachFromAny(att, c),
         present' = present, Condemned' = Condemned, Exempted' = Exempted
  PROVE  A!AudienceNext \/ UNCHANGED A!audienceVars
<1>1. Sound(att)
  BY DEF Ind
<1>2. CASE att.player[c] = NULL
  <2>1. AudienceOf' = AudienceOf /\ Waited' = Waited
    BY <1>2, SameAudience DEF DetachFromAny
  <2> QED
    BY <2>1 DEF A!audienceVars
<1>3. CASE att.player[c] # NULL
  <2> DEFINE p == att.player[c]
  <2>1. p \in Players /\ c \in Hears(att, p)
    BY <1>1, <1>3 DEF Sound, Attachments, Hears
  <2>2. \A q \in Players :
          /\ Hears(att', q) = Hears(att, q) \ {c}
          /\ att'.disconnected_for[q] = IF Hears(att, q) = {c} THEN 0 ELSE att.disconnected_for[q]
    <3>1. \A x : Sound(x) =>
            \A q \in Players :
              /\ Hears(DetachFromAny(x, c), q) = Hears(x, q) \ {c}
              /\ DetachFromAny(x, c).disconnected_for[q] =
                   IF Hears(x, q) = {c} THEN 0 ELSE x.disconnected_for[q]
      BY DetachFromAnyKeepsSound
    <3> QED
      BY <1>1, <3>1
  <2> HIDE DEF p
  <2>3. A!Gather(p, Hears(att, p) \ {c})
    BY <2>1, <2>2, DetachGathers
  <2>4. AudienceOf[p] = Hears(att, p)
    BY <2>1, Mapping DEF Au
  <2>5. A!Depart(c, p)
    BY <2>1, <2>3, <2>4 DEF A!Depart
  <2> QED
    BY <2>1, <2>5 DEF A!AudienceNext
<1> QED
  BY <1>2, <1>3

\* A step that leaves alone who is heard and who is in the game can only
\* change who has to leave it.
LEMMA QuietStep ==
  ASSUME Ind, Ind', att'.player = att.player, att'.disconnected_for = att.disconnected_for,
         present' = present, no_client_kick_time' = no_client_kick_time
  PROVE  A!Condemn
<1>1. AudienceOf' = AudienceOf /\ Waited' = Waited
  BY SameAudience
<1>2. Exempted' = Exempted /\ Condemned' \in SUBSET present
  BY DEF Exempted, Condemned
<1> QED
  BY <1>1, <1>2 DEF A!Condemn

\* A loop that destroys client records.
LEMMA DestroyDeparts ==
  ASSUME Ind, Ind', NEW c \in Clients, Destroy(c), UNCHANGED <<playerVars, loopVars>>
  PROVE  A!AudienceNext \/ UNCHANGED A!audienceVars
<1>1. /\ att' = DetachFromAny(att, c) /\ present' = present
      /\ Condemned' = Condemned /\ Exempted' = Exempted
  BY DEF Destroy, playerVars, loopVars, Condemned, Exempted
<1> QED
  BY <1>1, DetachDeparts

\* A new player enters the game.
LEMMA CreateEnters ==
  ASSUME Ind, NEW p \in Players, NEW k \in {0, NO_CLIENT_KICK_TIME}, Create(p, k),
         phase \in {"starting", "io"}, phase' = phase,
         NEW S \in {{}} \cup {{c} : c \in Clients}, A!Gather(p, S)
  PROVE  A!AudienceNext
<1>1. p \notin present /\ present' = present \cup {p}
  BY DEF Create, IsUnusedPlayer
<1>2. Condemned' = Condemned \ {p}
  BY <1>1 DEF Create, Condemned
<1>3. Exempted' \in {Exempted \cup {p}, Exempted \ {p}}
  <2>1. no_client_kick_time \in [Players -> {0, NO_CLIENT_KICK_TIME}] /\ present \in SUBSET Players
    BY DEF Ind, TypeOK
  <2>2. \A q \in Players : no_client_kick_time'[q] = IF q = p THEN k ELSE no_client_kick_time[q]
    BY <2>1 DEF Create
  <2>3. CASE k = 0
    BY <1>1, <2>1, <2>2, <2>3 DEF Exempted
  <2>4. CASE k # 0
    BY <1>1, <2>1, <2>2, <2>4 DEF Exempted
  <2> QED
    BY <2>3, <2>4
<1>4. A!Enter(p)
  BY <1>1, <1>2, <1>3 DEF A!Enter
<1> QED
  BY <1>4 DEF A!AudienceNext

\* The player enters alone.
LEMMA AloneGathers ==
  ASSUME Ind, Ind', NEW p \in Players, p \notin present, Hears(att, p) = {},
         present' = present \cup {p}, att' = Zeroed(att, p)
  PROVE  A!Gather(p, {})
<1>1. /\ AudienceOf = Au(att) /\ Waited = Wa(att, present)
      /\ AudienceOf' = Au(att') /\ Waited' = Wa(att', present')
  BY Mapping
<1>2. /\ \A q \in Players : Hears(att', q) = Hears(att, q)
      /\ att'.disconnected_for = [att.disconnected_for EXCEPT ![p] = 0]
  BY DEF Zeroed, Hears
<1>3. att.disconnected_for \in [Players -> Seconds]
  BY DEF Ind, Sound, Attachments
<1>4. Au(att') = [q \in Players |-> IF q = p THEN {} ELSE Au(att)[q] \ {}]
  BY <1>2 DEF Au
<1>5. Wa(att', present') =
        [q \in Players |-> IF Au(att')[q] = Au(att)[q] THEN Wa(att, present)[q] ELSE 0]
  <2>1. ASSUME NEW q \in Players
        PROVE  Wa(att', present')[q] = Wa(att, present)[q] /\ Au(att')[q] = Au(att)[q]
    BY <1>2, <1>3 DEF Wa, Au
  <2> QED
    BY <2>1 DEF Wa
<1> QED
  BY <1>1, <1>4, <1>5 DEF A!Gather

\* A new player that its first client joins at once.
LEMMA FirstClientEffect ==
  ASSUME NEW a, Sound(a), NEW p \in Players, NEW c \in Clients, Hears(a, p) = {}
  PROVE  Moved(a, Attach(Zeroed(a, p), c, p), c, p)
<1> DEFINE z == Zeroed(a, p)
<1>1. /\ Sound(z) /\ \A q \in Players : Hears(z, q) = Hears(a, q)
      /\ z.disconnected_for = [a.disconnected_for EXCEPT ![p] = 0]
  BY ZeroedKeepsSound
<1>2. z.player[c] # p
  <2>1. c \notin Hears(z, p)
    BY <1>1
  <2> QED
    BY <2>1 DEF Hears
<1>3. a.disconnected_for \in [Players -> Seconds]
  BY DEF Sound, Attachments
<1> HIDE DEF z
<1>4. Moved(z, Attach(z, c, p), c, p)
  BY <1>1, <1>2, AttachEffect
<1>5. \A b : Moved(z, b, c, p) => Moved(a, b, c, p)
  BY <1>1, <1>3 DEF Moved
<1> QED
  BY <1>4, <1>5 DEF z

\* The player enters together with its first client.
LEMMA FirstClientGathers ==
  ASSUME Ind, Ind', NEW p \in Players, NEW c \in Clients, Hears(att, p) = {},
         present' = present \cup {p}, att' = Attach(Zeroed(att, p), c, p)
  PROVE  A!Gather(p, {c})
<1>1. Sound(att)
  BY DEF Ind
<1>2. Moved(att, att', c, p)
  BY <1>1, FirstClientEffect
<1>3. A!Gather(p, Hears(att, p) \cup {c})
  BY <1>2, AttachGathers
<1> QED
  BY <1>3

\* A pass of the loop: the ages grow together, up to the first that is too much.
LEMMA PassElapses ==
  ASSUME Ind, Ind', NEW s \in 0 .. MaxElapsed, NextPass(s)
  PROVE  A!Elapse
<1> USE DEF clientVars, playerVars, loopVars
<1> DEFINE Grace == NO_CLIENT_KICK_TIME
           seconds == IF s > Grace THEN Grace + 1 ELSE s
<1>1. /\ AudienceOf = Au(att) /\ Waited = Wa(att, present)
      /\ AudienceOf' = Au(att') /\ Waited' = Wa(att', present')
  BY Mapping
<1>2. Grace \in Nat /\ s \in Nat /\ seconds \in 0 .. Grace + 1
  BY ConnectionsAssumption
<1>3. att \in Attachments
  BY DEF Ind, Sound
<1>4. /\ present' = present /\ att'.player = att.player
      /\ att'.disconnected_for = [p \in Players |-> Later(att.disconnected_for[p], s)]
  BY <1>3 DEF NextPass, Attachments
<1>5. \A p : Hears(att', p) = Hears(att, p)
  BY <1>4 DEF Hears
<1>6. ASSUME NEW p \in Players
      PROVE  Later(att.disconnected_for[p], s) =
               IF att.disconnected_for[p] + seconds > Grace
                 THEN Grace + 1 ELSE att.disconnected_for[p] + seconds
  <2>1. att.disconnected_for[p] \in 0 .. Grace + 1
    BY <1>3 DEF Attachments, Seconds
  <2> QED
    BY <1>2, <2>1 DEF Later
<1>7. Wa(att', present') =
        [p \in Players |->
          IF p \in present /\ Au(att)[p] = {}
            THEN IF Wa(att, present)[p] + seconds > Grace THEN Grace + 1
                 ELSE Wa(att, present)[p] + seconds
            ELSE Wa(att, present)[p]]
  <2> HIDE DEF seconds, Grace
  <2>1. ASSUME NEW p \in Players
        PROVE  Wa(att', present')[p] =
                 IF p \in present /\ Au(att)[p] = {}
                   THEN IF Wa(att, present)[p] + seconds > Grace THEN Grace + 1
                        ELSE Wa(att, present)[p] + seconds
                   ELSE Wa(att, present)[p]
    BY <1>4, <1>5, <1>6 DEF Wa, Au
  <2> QED
    BY <2>1 DEF Wa
<1>8. AudienceOf' = AudienceOf
  BY <1>1, <1>5 DEF Au
<1>9. Condemned' = Condemned /\ Exempted' = Exempted
  <2>1. phase # "shutdown" /\ phase' # "shutdown"
    BY DEF NextPass
  <2> QED
    BY <2>1 DEF NextPass, Condemned, Exempted
<1> QED
  BY <1>1, <1>2, <1>4, <1>7, <1>8, <1>9 DEF A!Elapse

\* Only who was condemned, or not heard for too long, leaves the game.
LEMMA RemoveLeaves ==
  ASSUME Ind, Ind', EndRemove
  PROVE  \E p \in Players : A!Leave(p)
<1> USE DEF clientVars, playerVars, loopVars
<1>1. /\ AudienceOf = Au(att) /\ Waited = Wa(att, present)
      /\ AudienceOf' = Au(att') /\ Waited' = Wa(att', present')
  BY Mapping
<1>2. dying \in Players /\ dying \in present /\ dying # NULL
  BY DEF EndRemove, Ind, TypeOK, Going
<1>3. Hears(att, dying) = {}
  BY <1>2, WalkHears DEF Ind, EndRemove
<1>4. att' = att /\ present' = present \ {dying} /\ doomed' = doomed \ {dying}
      /\ low' = low /\ phase' = phase /\ no_client_kick_time' = no_client_kick_time
  BY DEF EndRemove
<1>5. AudienceOf' = AudienceOf
  BY <1>1, <1>4
<1>6. Waited' = [Waited EXCEPT ![dying] = 0]
  <2>1. Wa(att, present') = [Wa(att, present) EXCEPT ![dying] = 0]
    BY <1>2, <1>4 DEF Wa
  <2> QED
    BY <1>1, <1>4, <2>1
<1>7. Condemned' = Condemned \ {dying} /\ Exempted' = Exempted \ {dying}
  BY <1>4 DEF Condemned, Exempted
<1>8. dying \in Condemned \/ (dying \notin Exempted /\ Waited[dying] > NO_CLIENT_KICK_TIME)
  <2>1. CASE phase = "shutdown" \/ dying \in doomed \/ dying \in low
    BY <1>2, <2>1 DEF Condemned
  <2>2. CASE Abandoned(dying)
    <3>1. dying \notin Exempted
      BY <2>2 DEF Abandoned, Exempted
    <3>2. no_client_kick_time[dying] = NO_CLIENT_KICK_TIME
      BY <1>2, <2>2 DEF Abandoned, Ind, TypeOK
    <3>3. Waited[dying] = att.disconnected_for[dying]
      BY <1>1, <1>2, <1>3 DEF Wa
    <3> QED
      BY <2>2, <3>1, <3>2, <3>3 DEF Abandoned
  <2> QED
    BY <1>2, <2>1, <2>2 DEF Ind, Going, HasToGo
<1>9. A!Leave(dying)
  BY <1>1, <1>2, <1>3, <1>4, <1>5, <1>6, <1>7, <1>8 DEF A!Leave, Au
<1> QED
  BY <1>2, <1>9

LEMMA RefinesStep == Ind /\ Ind' /\ [Next]_vars => [A!AudienceNext]_(A!audienceVars)
<1> USE DEF clientVars, playerVars, loopVars
<1> SUFFICES ASSUME Ind, Ind', [Next]_vars
             PROVE  A!AudienceNext \/ UNCHANGED A!audienceVars
  OBVIOUS
<1>1. Sound(att) /\ present \in SUBSET Players /\ Held(att, used, present)
  BY DEF Ind, TypeOK
<1>2. att.player \in [Clients -> Players \cup {NULL}] /\ att.disconnected_for \in [Players -> Seconds]
  BY <1>1 DEF Sound, Attachments
<1>3. \A p \in Players : AudienceOf[p] = Hears(att, p)
  BY Mapping DEF Au
<1>4. CASE UNCHANGED vars \/ Stopped
  <2>1. A!Condemn
    BY <1>4, QuietStep DEF vars, Stopped
  <2> QED
    BY <2>1 DEF A!AudienceNext
<1>5. ASSUME NEW c \in Clients, ClientEvent(c) \/ StartDemo(c)
      PROVE  A!AudienceNext \/ UNCHANGED A!audienceVars
  <2>1. CASE Connect(c) \/ Refuse(c) \/ Disconnect(c) \/ MakeGui(c) \/ StartDemo(c)
    <3>1. A!Condemn
      BY <2>1, QuietStep DEF Connect, Refuse, Disconnect, MakeGui, StartDemo
    <3> QED
      BY <3>1 DEF A!AudienceNext
  <2>2. CASE SetOutputClient(c)
    <3>1. att'.player = att.player /\ att'.disconnected_for = att.disconnected_for
      BY <2>2, <1>1 DEF SetOutputClient, Sound, Attachments
    <3>2. A!Condemn
      BY <2>2, <3>1, QuietStep DEF SetOutputClient
    <3> QED
      BY <3>2 DEF A!AudienceNext
  <2>3. CASE Close(c)
    BY <2>3, DestroyDeparts DEF Close
  <2>4. CASE Part(c)
    <3>1. att' = DetachFromAny(att, c) /\ present' = present
      BY <2>4 DEF Part, DetachFromAny
    <3>2. Condemned' = Condemned /\ Exempted' = Exempted
      BY <2>4 DEF Part, Condemned, Exempted
    <3> QED
      BY <3>1, <3>2, DetachDeparts
  <2>5. CASE NoKick(c)
    <3> DEFINE p == att.player[c]
    <3>1. p \in Players /\ p \in present
      BY <2>5, <1>1, <1>2 DEF NoKick, Held
    <3>2. AudienceOf' = AudienceOf /\ Waited' = Waited
      BY <2>5, SameAudience DEF NoKick
    <3>3. present' = present /\ Condemned' = Condemned
      BY <2>5 DEF NoKick, Condemned
    <3>4. no_client_kick_time' = [no_client_kick_time EXCEPT ![p] = 0]
      BY <2>5 DEF NoKick
    <3>5. no_client_kick_time \in [Players -> {0, NO_CLIENT_KICK_TIME}]
      BY DEF Ind, TypeOK
    <3>6. Exempted' = Exempted \cup {p}
      BY <1>1, <3>1, <3>3, <3>4, <3>5 DEF Exempted
    <3>7. A!Exempt(p)
      BY <3>1, <3>2, <3>3, <3>6 DEF A!Exempt
    <3> QED
      BY <3>1, <3>7 DEF A!AudienceNext
  <2>6. ASSUME NEW p \in Players, Join(c, p)
        PROVE  A!AudienceNext \/ UNCHANGED A!audienceVars
    <3>1. /\ p \in present /\ present' = present /\ att' = Attach(att, c, p)
          /\ Condemned' = Condemned /\ Exempted' = Exempted
      BY <2>6 DEF Join, Condemned, Exempted
    <3>2. CASE att.player[c] = p
      <4>1. AudienceOf' = AudienceOf /\ Waited' = Waited
        BY <3>1, <3>2, SameAudience DEF Attach
      <4> QED
        BY <3>1, <4>1 DEF A!audienceVars
    <3>3. CASE att.player[c] # p
      <4>1. c \notin Hears(att, p)
        BY <3>3 DEF Hears
      <4>2. Moved(att, att', c, p)
        BY <1>1, <3>1, <3>3, AttachEffect
      <4>3. A!Gather(p, Hears(att, p) \cup {c})
        BY <3>1, <4>1, <4>2, AttachGathers
      <4>4. A!Attend(c, p)
        BY <1>3, <3>1, <4>1, <4>3 DEF A!Attend
      <4> QED
        BY <4>4 DEF A!AudienceNext
    <3> QED
      BY <3>2, <3>3
  <2>7. ASSUME NEW p \in Players, JoinNew(c, p)
        PROVE  A!AudienceNext
    <3>1. Create(p, NO_CLIENT_KICK_TIME) /\ phase = "io" /\ phase' = phase
      BY <2>7 DEF JoinNew, Typing, Heard
    <3>2. Hears(att, p) = {}
      BY <3>1, CreateKeeps
    <3>3. A!Gather(p, {c})
      BY <2>7, <3>2, FirstClientGathers DEF JoinNew, Create
    <3> QED
      BY <3>1, <3>3, CreateEnters
  <2>8. ASSUME NEW p \in Players, StartLoggedBot(p, c)
        PROVE  A!AudienceNext
    <3>1. Create(p, 0) /\ phase \in {"starting", "io"} /\ phase' = phase
      BY <2>8 DEF StartLoggedBot
    <3>2. Hears(att, p) = {}
      BY <3>1, CreateKeeps
    <3>3. A!Gather(p, {c})
      BY <2>8, <3>2, FirstClientGathers DEF StartLoggedBot, Create
    <3> QED
      BY <3>1, <3>3, CreateEnters
  <2> QED
    BY <1>5, <2>1, <2>2, <2>3, <2>4, <2>5, <2>6, <2>7, <2>8 DEF ClientEvent
<1>6. ASSUME NEW p \in Players, PlayerEvent(p)
      PROVE  A!AudienceNext
  <2>1. CASE KillPlayer(p) \/ ScoreChanges(p)
    <3>1. A!Condemn
      BY <2>1, QuietStep DEF KillPlayer, ScoreChanges
    <3> QED
      BY <3>1 DEF A!AudienceNext
  <2>2. CASE StartBot(p)
    <3>1. Create(p, 0) /\ phase \in {"starting", "io"} /\ phase' = phase
      BY <2>2 DEF StartBot
    <3>2. p \notin present /\ Hears(att, p) = {}
      BY <3>1, CreateKeeps
    <3>3. A!Gather(p, {})
      BY <2>2, <3>2, AloneGathers DEF StartBot, Create
    <3> QED
      BY <3>1, <3>3, CreateEnters
  <2> QED
    BY <1>6, <2>1, <2>2 DEF PlayerEvent
<1>7. CASE Loop
  <2>1. CASE EndIO \/ EndRound \/ EndGame \/ AfterGame \/ \E p \in Players : BeginRemove(p)
    <3>1. A!Condemn
      BY <2>1, QuietStep DEF EndIO, EndRound, EndGame, AfterGame, BeginRemove
    <3> QED
      BY <3>1 DEF A!AudienceNext
  <2>2. CASE KickMarked \/ CloseDemo \/ CloseAll
    <3>1. PICK c \in Clients : Destroy(c) /\ UNCHANGED <<playerVars, loopVars>>
      BY <2>2 DEF KickMarked, CloseDemo, CloseAll, DestroyNext, ToKick, Demos, Ind, TypeOK
    <3> QED
      BY <3>1, DestroyDeparts
  <2>3. CASE DetachHead
    <3> DEFINE h == att.clients[dying]
    <3>1. dying \in Players /\ h # NULL
      BY <2>3 DEF DetachHead, Ind, TypeOK
    <3>2. h \in Hears(att, dying)
      BY <1>1, <3>1 DEF Sound, RingOf
    <3>3. att' = DetachFromAny(att, h) /\ h \in Clients
      BY <2>3, <3>1, <3>2, NullIsNobody DEF DetachHead, DetachFromAny, Hears
    <3>4. present' = present /\ Condemned' = Condemned /\ Exempted' = Exempted
      BY <2>3 DEF DetachHead, Condemned, Exempted
    <3> QED
      BY <3>3, <3>4, DetachDeparts
  <2>4. ASSUME NEW s \in 0 .. MaxElapsed, NextPass(s)
        PROVE  A!Elapse
    BY <2>4, PassElapses
  <2>5. CASE EndRemove
    BY <2>5, RemoveLeaves DEF A!AudienceNext
  <2> QED
    BY <1>7, <2>1, <2>2, <2>3, <2>4, <2>5 DEF Loop, A!AudienceNext
<1> QED
  BY <1>4, <1>5, <1>6, <1>7 DEF Next

LEMMA RefinesInit == Init => A!AudienceInit
<1> SUFFICES ASSUME Init PROVE A!AudienceInit
  OBVIOUS
<1>1. Ind
  BY InitInd
<1>2. \A p \in Players : Walk(att.links.next, att.clients[p]) = {}
  BY DEF Init, Walk
<1> QED
  BY <1>2 DEF Init, A!AudienceInit, AudienceOf, Waited, Condemned, Exempted

--------------------------------------------------------------------------------
(***************************************************************************)
(* Theorems                                                                *)
(***************************************************************************)

\* Every list holds exactly its clients, each once, and is counted right.
THEOREM ListsAreExact == Spec => []ListsExact
<1>1. Ind => ListsExact
  <2> SUFFICES ASSUME Ind PROVE ListsExact
    OBVIOUS
  <2>1. Sound(att) /\ GuiSound(gui, used) /\ used \in SUBSET Clients
    BY DEF Ind, TypeOK
  <2>2. att.links \in LinksSet /\ gui.links \in LinksSet
    BY <2>1 DEF Sound, GuiSound, Attachments, GuiClients
  <2>3. ASSUME NEW p \in Players
        PROVE  /\ RingOf(att.links, att.clients[p], ClientsOf(p))
               /\ Walk(att.links.next, att.clients[p]) = ClientsOf(p)
               /\ att.num_clients[p] = Cardinality(ClientsOf(p))
    <3>1. ClientsOf(p) = Hears(att, p) /\ Hears(att, p) \in SUBSET Clients
      BY DEF ClientsOf, Hears
    <3>2. RingOf(att.links, att.clients[p], Hears(att, p)) /\ att.num_clients[p] = Cardinality(Hears(att, p))
      BY <2>1 DEF Sound
    <3>3. Walk(att.links.next, att.clients[p]) = Hears(att, p)
      BY <2>2, <3>1, <3>2, WalkIsRing
    <3> QED
      BY <3>1, <3>2, <3>3
  <2>4. RingOf(gui.links, gui.guiclients, GuiRing) /\ GuiRing \in SUBSET Clients
    BY <2>1 DEF GuiSound, GuiRing
  <2>5. Walk(gui.links.next, gui.guiclients) = GuiRing
    BY <2>2, <2>4, WalkIsRing
  <2> QED
    BY <2>3, <2>4, <2>5 DEF ListsExact
<1> QED
  BY <1>1, InitInd, StepInd, PTL DEF Spec

\* No pointer between clients and players outlives what it points to.
THEOREM PointersAreValid == Spec => []PointersValid
<1>1. Ind => PointersValid
  BY DEF Ind, Sound, Held, PointersValid
<1> QED
  BY <1>1, InitInd, StepInd, PTL DEF Spec

\* The types hold; the counts of clients never fall below zero (player.c:852).
THEOREM ConnectionsTypeCorrect == Spec => []TypeOK
<1>1. Ind => TypeOK
  BY DEF Ind
<1> QED
  BY <1>1, InitInd, StepInd, PTL DEF Spec

\* player_attach_client, player_detach_client, player_destroy and player_round
\* keep what Audience promises: a client hears one player, and a player leaves
\* only when it was condemned or nobody heard it for longer than its kick time.
THEOREM ImplementsAudience == Spec => AudienceKept
BY InitInd, StepInd, RefinesInit, RefinesStep, PTL DEF Spec, AudienceKept, A!AudienceSpec
================================================================================
