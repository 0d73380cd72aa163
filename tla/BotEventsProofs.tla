---------------------------- MODULE BotEventsProofs ----------------------------
(***************************************************************************)
(* Proofs about BotEvents, for every number of ids, any apis and actions,  *)
(* and programs that may be cut off at any instruction: a program that     *)
(* missed no event knows exactly its living creatures once it has heard    *)
(* what is pending, its handlers meet known creatures only, and each of    *)
(* its creatures has got a coroutine.                                      *)
(***************************************************************************)
EXTENDS BotEvents, TLAPS

\* What the places of the loop imply about the iterations of player_think.
Between ==
  /\ turn # "events" => todo = <<>>
  /\ turn # "threads" => waiting = {}
  /\ turn \in {"events", "threads"} => used

\* Without a VM there is nothing to hear of.
Unused ==
  ~used => /\ alive = {} /\ events = <<>> /\ todo = <<>>
           /\ DOMAIN creatures = {} /\ missed = FALSE

\* New ids are larger than those in use.
IdsGiven == \A c \in alive : c < next_id

Ind == TypeOK /\ Between /\ Unused /\ IdsGiven /\ CreaturesExact /\ EventsFit /\ Manned

-----------------------------------------------------------------------------
(* Lists of events *)

Speaks(e, c) == e.type \in {CREATURE_SPAWNED, CREATURE_KILLED} /\ e.id = c

\* What comes later does not change what earlier events tell.
LEMMA LivesBefore ==
  ASSUME NEW s \in Seq(Events), NEW e \in Events, NEW known, NEW c, NEW i \in 1 .. Len(s) + 1
  PROVE  Lives(Append(s, e), known, c, i) <=> Lives(s, known, c, i)
<1>1. Len(Append(s, e)) = Len(s) + 1
  OBVIOUS
<1>2. \A j \in 1 .. Len(s) : Append(s, e)[j] = s[j]
  OBVIOUS
<1>3. Before(Append(s, e), c, i) = Before(s, c, i)
  BY <1>1, <1>2 DEF Before
<1>4. \A j \in Before(s, c, i) : Append(s, e)[j] = s[j]
  BY <1>2 DEF Before
<1>5. QED
  BY <1>3, <1>4 DEF Lives

\* An event about something else tells nothing about c.
LEMMA LivesAfterOther ==
  ASSUME NEW s \in Seq(Events), NEW e \in Events, NEW known, NEW c, ~Speaks(e, c)
  PROVE  Lives(Append(s, e), known, c, Len(s) + 2) <=> Lives(s, known, c, Len(s) + 1)
<1>1. Len(Append(s, e)) = Len(s) + 1 /\ Append(s, e)[Len(s) + 1] = e
  OBVIOUS
<1>2. \A j \in 1 .. Len(s) : Append(s, e)[j] = s[j]
  OBVIOUS
<1>3. Before(Append(s, e), c, Len(s) + 2) = Before(s, c, Len(s) + 1)
  BY <1>1, <1>2 DEF Before, Speaks
<1>4. \A j \in Before(s, c, Len(s) + 1) : Append(s, e)[j] = s[j]
  BY <1>2 DEF Before
<1>5. QED
  BY <1>3, <1>4 DEF Lives

\* The last event about c decides.
LEMMA LivesAfter ==
  ASSUME NEW s \in Seq(Events), NEW e \in Events, NEW known, NEW c, Speaks(e, c)
  PROVE  Lives(Append(s, e), known, c, Len(s) + 2) <=> e.type = CREATURE_SPAWNED
<1> DEFINE n == Len(s) + 1
<1>1. n \in Nat /\ Len(Append(s, e)) = n /\ Append(s, e)[n] = e
  OBVIOUS
<1>2. n \in Before(Append(s, e), c, Len(s) + 2)
  BY <1>1 DEF Before, Speaks
<1>3. \A j \in Before(Append(s, e), c, Len(s) + 2) : j \in Nat /\ j <= n
  BY <1>1 DEF Before
<1>4. Lives(Append(s, e), known, c, Len(s) + 2)
        <=> \E j \in Before(Append(s, e), c, Len(s) + 2) :
              Append(s, e)[j].type = CREATURE_SPAWNED
              /\ \A k \in Before(Append(s, e), c, Len(s) + 2) : k <= j
  BY <1>2 DEF Lives
<1> HIDE DEF n
<1>5. QED
  BY <1>1, <1>2, <1>3, <1>4

\* To hear of the first event and to know its consequence are the same for what follows.
LEMMA LivesTail ==
  ASSUME NEW s \in Seq(Events), s # <<>>, NEW known, NEW heard, NEW c,
         NEW i \in 1 .. Len(s),
         c \in heard <=> IF Speaks(Head(s), c) THEN Head(s).type = CREATURE_SPAWNED
                         ELSE c \in known
  PROVE  Lives(Tail(s), heard, c, i) <=> Lives(s, known, c, i + 1)
<1> DEFINE T == Before(Tail(s), c, i)
           B == Before(s, c, i + 1)
<1>1. Len(s) \in Nat \ {0} /\ Len(Tail(s)) = Len(s) - 1 /\ Head(s) = s[1]
  OBVIOUS
<1>2. \A j \in 1 .. Len(s) - 1 : Tail(s)[j] = s[j + 1]
  OBVIOUS
<1>3. T \subseteq Nat \ {0} /\ B \subseteq Nat \ {0}
  BY <1>1 DEF Before
<1>4. \A j \in T : j + 1 \in B /\ Tail(s)[j] = s[j + 1]
  BY <1>1, <1>2 DEF Before
<1>5. \A j \in B : j # 1 => j - 1 \in T /\ s[j] = Tail(s)[j - 1]
  <2> SUFFICES ASSUME NEW j \in B, j # 1
               PROVE  j - 1 \in T /\ s[j] = Tail(s)[j - 1]
    OBVIOUS
  <2>1. j - 1 \in 1 .. Len(s) - 1 /\ j - 1 < i /\ j \in Nat
    BY <1>1 DEF Before
  <2>2. Tail(s)[j - 1] = s[j]
    BY <1>2, <2>1
  <2>3. DOMAIN Tail(s) = 1 .. Len(s) - 1
    BY <1>1
  <2>4. QED
    BY <2>1, <2>2, <2>3 DEF Before
<1>6. 1 \in B <=> Speaks(Head(s), c)
  BY <1>1 DEF Before, Speaks
<1>7. CASE T # {}
  <2>1. B # {}
    BY <1>4, <1>7
  <2>2. ASSUME NEW j \in T, Tail(s)[j].type = CREATURE_SPAWNED, \A k \in T : k <= j
        PROVE  Lives(s, known, c, i + 1)
    <3>1. j + 1 \in B /\ s[j + 1].type = CREATURE_SPAWNED
      BY <1>4, <2>2
    <3>2. \A k \in B : k <= j + 1
      BY <1>3, <1>5, <2>2
    <3>3. QED
      BY <2>1, <3>1, <3>2 DEF Lives
  <2>3. ASSUME NEW j \in B, s[j].type = CREATURE_SPAWNED, \A k \in B : k <= j
        PROVE  Lives(Tail(s), heard, c, i)
    <3>1. j # 1
      BY <1>3, <1>4, <1>7, <2>3
    <3>2. j - 1 \in T /\ Tail(s)[j - 1].type = CREATURE_SPAWNED
      BY <1>5, <2>3, <3>1
    <3>3. \A k \in T : k <= j - 1
      BY <1>3, <1>4, <2>3
    <3>4. QED
      BY <1>7, <3>2, <3>3 DEF Lives
  <2>4. QED
    BY <1>7, <2>1, <2>2, <2>3 DEF Lives
<1>8. CASE T = {} /\ Speaks(Head(s), c)
  <2>1. B = {1}
    BY <1>3, <1>5, <1>6, <1>8
  <2>2. Lives(s, known, c, i + 1) <=> s[1].type = CREATURE_SPAWNED
    BY <2>1 DEF Lives
  <2>3. Lives(Tail(s), heard, c, i) <=> c \in heard
    BY <1>8 DEF Lives
  <2>4. QED
    BY <1>1, <1>8, <2>2, <2>3
<1>9. CASE T = {} /\ ~Speaks(Head(s), c)
  <2>1. B = {}
    BY <1>3, <1>5, <1>6, <1>9
  <2>2. QED
    BY <1>9, <2>1 DEF Lives
<1>10. QED
  BY <1>7, <1>8, <1>9

\* The living are those of whom the events tell that they live at the end.
Exact(s, known, living) == \A c \in Ids : c \in living <=> Lives(s, known, c, Len(s) + 1)

\* A birth is news, everything else is about somebody who lives by then.
Fit(s, known) ==
  \A i \in DOMAIN s :
    s[i].type # PLAYER_CREATED => (Lives(s, known, s[i].id, i) <=> s[i].type # CREATURE_SPAWNED)

Known == ~missed => Exact(Pending, DOMAIN creatures, alive) /\ Fit(Pending, DOMAIN creatures)

LEMMA KnownIsBoth == Known <=> CreaturesExact /\ EventsFit
BY DEF Known, Exact, Fit, CreaturesExact, EventsFit

LEMMA EventIds ==
  ASSUME NEW e \in Events, e.type # PLAYER_CREATED
  PROVE  e.id \in Ids
<1>1. PICK t \in {CREATURE_SPAWNED, CREATURE_KILLED, CREATURE_ATTACKED} : e \in About(t)
  BY DEF Events
<1>2. PICK i \in Ids : e = [type |-> t, id |-> i]
  BY <1>1 DEF About
<1>3. QED
  BY <1>2

LEMMA SomeEvents ==
  /\ [type |-> PLAYER_CREATED] \in Events
  /\ \A c \in Ids : \A t \in {CREATURE_SPAWNED, CREATURE_KILLED, CREATURE_ATTACKED} :
       [type |-> t, id |-> c] \in Events
<1>1. \A c \in Ids : \A t : [type |-> t, id |-> c] \in About(t)
  BY DEF About
<1>2. QED
  BY <1>1 DEF Events

LEMMA NoEvents ==
  ASSUME NEW living
  PROVE  /\ Exact(<<>>, living, living)
         /\ \A known : Fit(<<>>, known)
BY DEF Exact, Fit, Lives, Before

\* An event that tells the truth keeps both.
LEMMA Heard ==
  ASSUME NEW s \in Seq(Events), NEW e \in Events, NEW known, NEW living, NEW living2,
         Exact(s, known, living), Fit(s, known),
         \A c \in Ids : c \in living2 <=> IF Speaks(e, c) THEN e.type = CREATURE_SPAWNED
                                          ELSE c \in living,
         e.type # PLAYER_CREATED => (e.id \in living <=> e.type # CREATURE_SPAWNED)
  PROVE  Exact(Append(s, e), known, living2) /\ Fit(Append(s, e), known)
<1>1. Len(Append(s, e)) = Len(s) + 1 /\ Append(s, e)[Len(s) + 1] = e
      /\ DOMAIN Append(s, e) = 1 .. Len(s) + 1 /\ DOMAIN s = 1 .. Len(s) /\ Len(s) \in Nat
  OBVIOUS
<1>2. \A j \in 1 .. Len(s) : Append(s, e)[j] = s[j]
  OBVIOUS
<1>3. Exact(Append(s, e), known, living2)
  <2> SUFFICES ASSUME NEW c \in Ids
               PROVE  c \in living2 <=> Lives(Append(s, e), known, c, Len(s) + 2)
    <3>1. Len(Append(s, e)) + 1 = Len(s) + 2
      BY <1>1
    <3>2. QED
      BY <3>1 DEF Exact
  <2>1. CASE Speaks(e, c)
    BY <2>1, LivesAfter
  <2>2. CASE ~Speaks(e, c)
    BY <2>2, LivesAfterOther DEF Exact
  <2>3. QED
    BY <2>1, <2>2
<1>4. Fit(Append(s, e), known)
  <2> SUFFICES ASSUME NEW i \in 1 .. Len(s) + 1, Append(s, e)[i].type # PLAYER_CREATED
               PROVE  Lives(Append(s, e), known, Append(s, e)[i].id, i)
                        <=> Append(s, e)[i].type # CREATURE_SPAWNED
    BY <1>1 DEF Fit
  <2>1. Lives(Append(s, e), known, Append(s, e)[i].id, i)
          <=> Lives(s, known, Append(s, e)[i].id, i)
    BY LivesBefore
  <2>2. CASE i \in 1 .. Len(s)
    BY <1>1, <1>2, <2>1, <2>2 DEF Fit
  <2>3. CASE i = Len(s) + 1
    <3>1. Append(s, e)[i] = e /\ e.id \in Ids
      BY <1>1, <2>3, EventIds
    <3>2. e.id \in living <=> Lives(s, known, e.id, Len(s) + 1)
      BY <3>1 DEF Exact
    <3>3. QED
      BY <2>1, <2>3, <3>1, <3>2
  <2>4. QED
    BY <1>1, <2>2, <2>3
<1>5. QED
  BY <1>3, <1>4

\* So does a program that does what the first event tells it.
LEMMA Followed ==
  ASSUME NEW s \in Seq(Events), s # <<>>, NEW known, NEW heard, NEW living,
         Exact(s, known, living), Fit(s, known),
         \A c \in Ids : c \in heard <=> IF Speaks(Head(s), c) THEN Head(s).type = CREATURE_SPAWNED
                                        ELSE c \in known
  PROVE  Exact(Tail(s), heard, living) /\ Fit(Tail(s), heard)
<1>1. /\ Len(s) \in Nat \ {0} /\ Len(Tail(s)) = Len(s) - 1
      /\ DOMAIN Tail(s) = 1 .. Len(s) - 1 /\ DOMAIN s = 1 .. Len(s)
  OBVIOUS
<1>2. \A j \in 1 .. Len(s) - 1 : Tail(s)[j] = s[j + 1] /\ s[j + 1] \in Events
  OBVIOUS
<1>3. \A c \in Ids, i \in 1 .. Len(s) :
        Lives(Tail(s), heard, c, i) <=> Lives(s, known, c, i + 1)
  BY LivesTail
<1>4. Exact(Tail(s), heard, living)
  <2>1. Len(Tail(s)) + 1 = Len(s) /\ Len(s) \in 1 .. Len(s)
    BY <1>1
  <2>2. QED
    BY <1>3, <2>1 DEF Exact
<1>5. Fit(Tail(s), heard)
  <2> SUFFICES ASSUME NEW i \in 1 .. Len(s) - 1, Tail(s)[i].type # PLAYER_CREATED
               PROVE  Lives(Tail(s), heard, Tail(s)[i].id, i)
                        <=> Tail(s)[i].type # CREATURE_SPAWNED
    BY <1>1 DEF Fit
  <2>1. Tail(s)[i] = s[i + 1] /\ s[i + 1].id \in Ids
    BY <1>2, EventIds
  <2>2. i \in 1 .. Len(s) /\ i + 1 \in 1 .. Len(s)
    BY <1>1
  <2>3. Lives(s, known, s[i + 1].id, i + 1) <=> s[i + 1].type # CREATURE_SPAWNED
    BY <1>1, <2>1, <2>2 DEF Fit
  <2>4. QED
    BY <1>3, <2>1, <2>2, <2>3
<1>6. QED
  BY <1>4, <1>5

-----------------------------------------------------------------------------
(* Types *)

LEMMA ChangedDomains ==
  ASSUME NEW f, NEW c, NEW t
  PROVE  DOMAIN With(f, c, t) = DOMAIN f \cup {c} /\ DOMAIN Without(f, c) = DOMAIN f \ {c}
BY DEF With, Without

LEMMA ChangedTables ==
  ASSUME NEW f, DOMAIN f \subseteq Ids, \A d \in DOMAIN f : f[d] \in Threads,
         NEW c \in Ids, NEW t \in Threads
  PROVE  /\ DOMAIN With(f, c, t) = DOMAIN f \cup {c}
         /\ \A d \in DOMAIN With(f, c, t) : With(f, c, t)[d] = IF d = c THEN t ELSE f[d]
         /\ DOMAIN With(f, c, t) \subseteq Ids
         /\ \A d \in DOMAIN With(f, c, t) : With(f, c, t)[d] \in Threads
         /\ DOMAIN Without(f, c) = DOMAIN f \ {c}
         /\ \A d \in DOMAIN Without(f, c) : Without(f, c)[d] = f[d]
         /\ DOMAIN Without(f, c) \subseteq Ids
         /\ \A d \in DOMAIN Without(f, c) : Without(f, c)[d] \in Threads
BY DEF With, Without

LEMMA CommandedType ==
  ASSUME TypeOK, NEW d \in Commanded
  PROVE  d \in [Ids -> Doings]
BY DEF TypeOK, Commanded

\* How an event is handled.
LEMMA HandledCases ==
  ASSUME NEW e
  PROVE  /\ e.type = CREATURE_SPAWNED => Handled(e) = {With(creatures, e.id, "ready")}
         /\ e.type = CREATURE_KILLED => Handled(e) = {Without(creatures, e.id)}
         /\ e.type = CREATURE_ATTACKED => Handled(e) = {creatures, With(creatures, e.id, "ready")}
         /\ e.type \notin {CREATURE_SPAWNED, CREATURE_KILLED, CREATURE_ATTACKED}
              => Handled(e) = {creatures}
<1>1. CREATURE_SPAWNED # CREATURE_KILLED /\ CREATURE_SPAWNED # CREATURE_ATTACKED
      /\ CREATURE_KILLED # CREATURE_ATTACKED
  BY DEF CREATURE_SPAWNED, CREATURE_KILLED, CREATURE_ATTACKED
<1>2. QED
  BY <1>1 DEF Handled, Reactions

\* The table of creatures keeps its type, whatever is done about an event.
LEMMA HandledType ==
  ASSUME TypeOK, NEW e \in Events,
         NEW f \in PartlyHandled(e)
  PROVE  DOMAIN f \subseteq Ids /\ \A c \in DOMAIN f : f[c] \in Threads
<1>1. {"none", "ready"} \subseteq Threads
  BY DEF Threads
<1>2. DOMAIN creatures \subseteq Ids /\ \A c \in DOMAIN creatures : creatures[c] \in Threads
  BY DEF TypeOK
<1>3. CASE e.type = PLAYER_CREATED
  <2>1. f = creatures
    BY <1>3 DEF PartlyHandled, Handled, Reactions, PLAYER_CREATED, CREATURE_SPAWNED, CREATURE_KILLED,
                CREATURE_ATTACKED
  <2>2. QED
    BY <1>2, <2>1
<1>4. CASE e.type # PLAYER_CREATED
  <2>1. e.id \in Ids
    BY <1>4, EventIds
  <2>2. f \in {creatures, With(creatures, e.id, "none"), With(creatures, e.id, "ready"),
               Without(creatures, e.id)}
    BY DEF PartlyHandled, Handled, Reactions
  <2>3. \A t \in {"none", "ready"} :
          /\ DOMAIN With(creatures, e.id, t) \subseteq Ids
          /\ \A d \in DOMAIN With(creatures, e.id, t) : With(creatures, e.id, t)[d] \in Threads
    BY <1>1, <1>2, <2>1, ChangedTables
  <2>4. /\ DOMAIN Without(creatures, e.id) \subseteq Ids
        /\ \A d \in DOMAIN Without(creatures, e.id) : Without(creatures, e.id)[d] \in Threads
    BY <1>1, <1>2, <2>1, ChangedTables
  <2>5. QED
    BY <1>2, <2>2, <2>3, <2>4
<1>5. QED
  BY <1>3, <1>4

LEMMA TypeInit == Init => TypeOK
<1> SUFFICES ASSUME Init PROVE TypeOK
  OBVIOUS
<1>1. DOMAIN creatures = {} /\ waiting = {}
  BY DEF Init, Nothing
<1>2. doing \in [Ids -> Doings]
  BY DEF Init, Doings
<1>3. events \in Seq(Events) /\ todo \in Seq(Events)
  BY DEF Init
<1>4. next_id \in 0 .. MaxVmId /\ alive \subseteq Ids /\ api \in Apis
  BY EventsAssumption DEF Init
<1>5. used \in BOOLEAN /\ missed \in BOOLEAN /\ turn = "starting"
  BY DEF Init
<1>6. QED
  BY <1>1, <1>2, <1>3, <1>4, <1>5 DEF TypeOK

\* What is collected stays a sequence of events.
LEMMA EventsType ==
  ASSUME TypeOK, [Next]_vars
  PROVE  events' \in Seq(Events) /\ todo' \in Seq(Events)
<1>1. events \in Seq(Events) /\ todo \in Seq(Events) /\ <<>> \in Seq(Events)
  BY DEF TypeOK
<1>2. \A e \in Events : Append(events, e) \in Seq(Events) /\ <<e>> \in Seq(Events)
  BY <1>1
<1>3. todo # <<>> => Tail(todo) \in Seq(Events)
  BY <1>1
<1>4. next_id < MaxVmId => next_id \in Ids
  BY EventsAssumption DEF TypeOK, Ids
<1>5. \A c \in Ids, t \in {CREATURE_SPAWNED, CREATURE_KILLED, CREATURE_ATTACKED} :
        Told(t, c) => events' \in Seq(Events)
  BY <1>2, SomeEvents DEF Told
<1>6. QED
  <2>1. CASE Loop
    <3>1. CASE \E c \in Ids : Die(c)
      BY <1>1, <1>5, <3>1 DEF Die, vm
    <3>2. CASE StartGame
      BY <1>1, <1>2, <3>2, SomeEvents DEF StartGame, vm
    <3>3. CASE HandleEvent
      BY <1>1, <1>3, <3>3 DEF HandleEvent
    <3>4. CASE \E c \in Ids : Resume(c)
      BY <1>1, <3>4 DEF Resume
    <3>5. CASE \E c \in Ids : FailResume(c)
      BY <1>1, <3>5 DEF FailResume, Abort
    <3>6. CASE Think \/ FailEvent \/ GiveTurns \/ Thought \/ EndMoves \/ EndIO \/ Started
               \/ AllKilled
      BY <1>1, <3>6 DEF Think, FailEvent, GiveTurns, Thought, EndMoves, EndIO, Started,
         AllKilled, Pass, Abort, vm
    <3>7. QED
      BY <2>1, <3>1, <3>2, <3>3, <3>4, <3>5, <3>6 DEF Loop
  <2>2. CASE Born
    BY <1>1, <1>4, <1>5, <2>2 DEF Born, vm
  <2>3. CASE \E c \in Ids : Die(c) \/ Hit(c) \/ Finish(c)
    BY <1>1, <1>5, <2>3 DEF Die, Hit, Finish, vm
  <2>4. CASE \E a \in Apis : Create(a)
    BY <1>1, <1>2, <2>4, SomeEvents DEF Create
  <2>5. CASE \E c \in Ids : CutResume(c)
    BY <1>1, <2>5 DEF CutResume, Abort
  <2>6. CASE \E some \in SUBSET Ids : Restart(some)
    BY <1>1, <2>6 DEF Restart
  <2>7. CASE CutEvent \/ CutRoundStart \/ Paused \/ GameOver \/ KillAll \/ Destroy \/ Execute
             \/ UNCHANGED vars
    BY <1>1, <2>7 DEF CutEvent, CutRoundStart, Paused, GameOver, KillAll, Destroy, Execute,
       Pass, Abort, vm, vars
  <2>8. QED
    BY <2>1, <2>2, <2>3, <2>4, <2>5, <2>6, <2>7 DEF Next

\* The table of creatures and the creatures that wait for their turn.
LEMMA TablesType ==
  ASSUME TypeOK, Between, [Next]_vars
  PROVE  /\ DOMAIN creatures' \subseteq Ids
         /\ \A c \in DOMAIN creatures' : creatures'[c] \in Threads
         /\ waiting' \subseteq DOMAIN creatures'
<1>1. /\ DOMAIN creatures \subseteq Ids
      /\ \A c \in DOMAIN creatures : creatures[c] \in Threads
      /\ waiting \subseteq DOMAIN creatures
  BY DEF TypeOK
<1>2. turn # "threads" => waiting = {}
  BY DEF Between
<1>3. {"none", "ready", "dead"} \subseteq Threads /\ Actions \subseteq Threads
  BY DEF Threads
<1>4. todo # <<>> => Head(todo) \in Events
  BY DEF TypeOK
<1>5. CASE UNCHANGED <<creatures, waiting>>
  BY <1>1, <1>5
<1>6. CASE UNCHANGED creatures /\ Abort
  BY <1>1, <1>6 DEF Abort
<1>7. CASE HandleEvent
  <2>1. creatures' \in PartlyHandled(Head(todo)) /\ waiting' = {}
    BY <1>2, <1>7 DEF HandleEvent, PartlyHandled
  <2>2. QED
    BY <1>4, <1>7, <2>1, HandledType DEF HandleEvent
<1>8. CASE FailEvent
  <2>1. creatures' \in PartlyHandled(Head(todo)) /\ waiting' = {}
    BY <1>8 DEF FailEvent, PartlyHandled, Stillborn, Abort
  <2>2. QED
    BY <1>4, <1>8, <2>1, HandledType DEF FailEvent
<1>9. CASE CutEvent
  <2>1. creatures' \in PartlyHandled(Head(todo)) /\ waiting' = {}
    BY <1>9 DEF CutEvent, Abort
  <2>2. QED
    BY <1>4, <1>9, <2>1, HandledType DEF CutEvent
<1>10. ASSUME NEW c \in Ids, Resume(c)
       PROVE  /\ DOMAIN creatures' = DOMAIN creatures
              /\ \A d \in DOMAIN creatures' : creatures'[d] \in Threads
              /\ waiting' \subseteq DOMAIN creatures'
  <2>1. waiting' \subseteq DOMAIN creatures
    BY <1>1, <1>10 DEF Resume
  <2>2. CASE UNCHANGED creatures
    BY <1>1, <2>1, <2>2
  <2>3. CASE \E after \in AfterTurn(c) : creatures' = [creatures EXCEPT ![c] = after[1]]
    <3>1. PICK after \in AfterTurn(c) : creatures' = [creatures EXCEPT ![c] = after[1]]
      BY <2>3
    <3>2. c \in DOMAIN creatures
      BY <1>1, <1>10 DEF Resume
    <3>3. after[1] \in Threads
      BY <1>1, <1>3, <3>2 DEF AfterTurn
    <3>4. QED
      BY <1>1, <2>1, <3>1, <3>3
  <2>4. QED
    BY <1>10, <2>2, <2>3 DEF Resume
<1>11. ASSUME NEW c \in Ids, CutResume(c)
       PROVE  /\ DOMAIN creatures' = DOMAIN creatures
              /\ \A d \in DOMAIN creatures' : creatures'[d] \in Threads
              /\ waiting' \subseteq DOMAIN creatures'
  <2>1. waiting' = {}
    BY <1>11 DEF CutResume, Abort
  <2>2. creatures' = [creatures EXCEPT ![c] = "dead"] \/ creatures' = creatures
    BY <1>11 DEF CutResume
  <2>3. QED
    BY <1>1, <1>3, <2>1, <2>2
<1>12. ASSUME NEW some \in SUBSET Ids, Restart(some)
       PROVE  /\ DOMAIN creatures' = DOMAIN creatures
              /\ \A d \in DOMAIN creatures' : creatures'[d] \in Threads
              /\ waiting' = waiting
  BY <1>1, <1>3, <1>12 DEF Restart
<1>13. CASE Destroy
  <2>1. DOMAIN creatures' = {} /\ waiting' = waiting /\ waiting = {}
    BY <1>2, <1>13 DEF Destroy, Nothing
  <2>2. QED
    BY <2>1
<1>14. CASE GiveTurns
  BY <1>1, <1>14 DEF GiveTurns
<1>15. CASE Loop
  <2>1. CASE \E c \in Ids : Die(c)
    BY <1>5, <2>1 DEF Die, vm
  <2>2. CASE Think \/ StartGame \/ Thought \/ EndMoves \/ EndIO \/ Started \/ AllKilled
    BY <1>5, <2>2 DEF Think, StartGame, Thought, EndMoves, EndIO, Started, AllKilled, Pass, vm
  <2>3. CASE \E c \in Ids : FailResume(c)
    BY <1>6, <2>3 DEF FailResume
  <2>4. QED
    BY <1>1, <1>7, <1>8, <1>10, <1>14, <1>15, <2>1, <2>2, <2>3 DEF Loop
<1>16. CASE CutRoundStart
  BY <1>6, <1>16 DEF CutRoundStart
<1>17. CASE Born \/ \E c \in Ids : Die(c) \/ Hit(c) \/ Finish(c)
  BY <1>5, <1>17 DEF Born, Die, Hit, Finish, vm
<1>18. CASE Paused \/ GameOver \/ KillAll \/ (\E a \in Apis : Create(a)) \/ Execute
            \/ UNCHANGED vars
  BY <1>5, <1>18 DEF Paused, GameOver, KillAll, Create, Execute, Pass, vm, vars
<1>19. QED
  BY <1>1, <1>9, <1>11, <1>12, <1>13, <1>15, <1>16, <1>17, <1>18 DEF Next

\* What the creatures do.
LEMMA DoingType ==
  ASSUME TypeOK, [Next]_vars
  PROVE  doing' \in [Ids -> Doings]
<1>1. doing \in [Ids -> Doings] /\ "idle" \in Doings
  BY DEF TypeOK, Doings
<1>2. \A d \in Commanded : d \in [Ids -> Doings]
  BY CommandedType
<1>3. \A d \in Commanded, c \in Ids : [d EXCEPT ![c] = "idle"] \in [Ids -> Doings]
  BY <1>1, <1>2
<1>4. CASE HandleEvent
  <2>1. PICK d \in Commanded :
          doing' = IF Head(todo).type = CREATURE_SPAWNED THEN Restarted(d, Head(todo).id) ELSE d
    BY <1>4 DEF HandleEvent
  <2>2. d \in [Ids -> Doings]
    BY <1>2
  <2>3. \A c : [d EXCEPT ![c] = "idle"] \in [Ids -> Doings]
    BY <1>1, <2>2
  <2>4. QED
    BY <2>1, <2>2, <2>3 DEF Restarted
<1>5. ASSUME NEW c \in Ids, Resume(c)
      PROVE  doing' \in [Ids -> Doings]
  <2>1. CASE UNCHANGED doing
    BY <1>1, <2>1
  <2>2. CASE \E after \in AfterTurn(c) : doing' = after[2]
    <3>1. PICK after \in AfterTurn(c) : doing' = after[2]
      BY <2>2
    <3>2. after[2] = doing \/ after[2] \in Commanded
      BY DEF AfterTurn
    <3>3. QED
      BY <1>1, <1>2, <3>1, <3>2
  <2>3. QED
    BY <1>5, <2>1, <2>2 DEF Resume
<1>6. CASE Loop
  <2>1. CASE \E c \in Ids : Die(c)
    BY <1>1, <2>1 DEF Die
  <2>2. CASE Think \/ GiveTurns \/ Thought \/ EndMoves \/ EndIO \/ StartGame \/ Started \/ AllKilled
    BY <1>1, <2>2 DEF Think, StartGame, GiveTurns, Thought, EndMoves, EndIO, Started, AllKilled, Pass
  <2>3. CASE FailEvent \/ \E c \in Ids : FailResume(c)
    BY <1>1, <1>2, <2>3 DEF FailEvent, FailResume
  <2>4. QED
    BY <1>4, <1>5, <1>6, <2>1, <2>2, <2>3 DEF Loop
<1>7. CASE CutEvent \/ CutRoundStart \/ Execute \/ \E c \in Ids : CutResume(c)
  BY <1>2, <1>7 DEF CutEvent, CutRoundStart, Execute, CutResume
<1>8. CASE Born \/ \E c \in Ids : Die(c) \/ Hit(c) \/ Finish(c)
  BY <1>1, <1>8 DEF Born, Die, Hit, Finish
<1>9. CASE Paused \/ GameOver \/ KillAll \/ Destroy \/ (\E a \in Apis : Create(a)) \/ UNCHANGED vars
  BY <1>1, <1>9 DEF Paused, GameOver, KillAll, Destroy, Create, Pass, vars
<1>10. CASE \E some \in SUBSET Ids : Restart(some)
  BY <1>1, <1>10 DEF Restart
<1>11. QED
  BY <1>6, <1>7, <1>8, <1>9, <1>10 DEF Next

\* What the server knows of the player, and the place of the loop.
LEMMA GameType ==
  ASSUME TypeOK, [Next]_vars
  PROVE  /\ used' \in BOOLEAN /\ missed' \in BOOLEAN /\ api' \in Apis
         /\ alive' \subseteq Ids /\ next_id' \in 0 .. MaxVmId
         /\ turn' \in {"round", "events", "threads", "moves", "io", "killall", "ending", "starting"}
<1>1. /\ used \in BOOLEAN /\ missed \in BOOLEAN /\ api \in Apis
      /\ alive \subseteq Ids /\ next_id \in 0 .. MaxVmId
      /\ turn \in {"round", "events", "threads", "moves", "io", "killall", "ending", "starting"}
  BY DEF TypeOK
<1>2. CASE Born
  <2>1. next_id \in Ids /\ next_id + 1 \in 0 .. MaxVmId
    BY <1>1, <1>2, EventsAssumption DEF Born, Ids
  <2>2. QED
    BY <1>1, <1>2, <2>1 DEF Born, vm
<1>3. CASE StartGame
  <2>1. 0 \in 0 .. MaxVmId
    BY EventsAssumption
  <2>2. QED
    BY <1>1, <1>3, <2>1 DEF StartGame, vm
<1>4. CASE Destroy
  BY <1>1, <1>4 DEF Destroy
<1>5. CASE \E a \in Apis : Create(a)
  BY <1>1, <1>5 DEF Create
<1>6. CASE \E c \in Ids : Die(c)
  BY <1>1, <1>6 DEF Die, vm
<1>7. CASE Paused \/ EndMoves \/ EndIO \/ GameOver \/ KillAll \/ AllKilled \/ Started
  BY <1>1, <1>7 DEF Paused, EndMoves, EndIO, GameOver, KillAll, AllKilled, Started, Pass, game, vm
<1>8. CASE \/ Think \/ HandleEvent \/ FailEvent \/ CutEvent \/ CutRoundStart \/ GiveTurns \/ Thought
           \/ Execute \/ UNCHANGED vars
  BY <1>1, <1>8 DEF Think, HandleEvent, FailEvent, CutEvent, CutRoundStart, GiveTurns, Thought,
     Execute, Abort, game, vm, vars
<1>9. CASE \E c \in Ids : Resume(c) \/ FailResume(c) \/ CutResume(c) \/ Hit(c) \/ Finish(c)
  BY <1>1, <1>9 DEF Resume, FailResume, CutResume, Hit, Finish, Abort, game, vm
<1>10. CASE \E some \in SUBSET Ids : Restart(some)
  BY <1>1, <1>10 DEF Restart, game
<1>11. QED
  BY <1>2, <1>3, <1>4, <1>5, <1>6, <1>7, <1>8, <1>9, <1>10 DEF Next, Loop

LEMMA TypeStep ==
  ASSUME TypeOK, Between, [Next]_vars
  PROVE  TypeOK'
<1>1. DOMAIN creatures' \subseteq Ids /\ (\A c \in DOMAIN creatures' : creatures'[c] \in Threads)
      /\ waiting' \subseteq DOMAIN creatures'
  BY TablesType
<1>2. doing' \in [Ids -> Doings]
  BY DoingType
<1>3. events' \in Seq(Events) /\ todo' \in Seq(Events)
  BY EventsType
<1>4. QED
  BY <1>1, <1>2, <1>3, GameType DEF TypeOK

-----------------------------------------------------------------------------
(* The steps of the invariant *)

LEMMA BetweenStep ==
  ASSUME Between, Unused, [Next]_vars
  PROVE  Between'
<1>1. turn # "events" => todo = <<>>
  BY DEF Between
<1>2. turn # "threads" => waiting = {}
  BY DEF Between
<1>3. turn \in {"events", "threads"} => used
  BY DEF Between
<1>4. CASE Think
  <2>1. turn' # "events" => todo' = <<>>
    BY <1>4 DEF Think, Unused
  <2>2. QED
    BY <1>2, <1>4, <2>1 DEF Think, game, Between
<1>5. CASE HandleEvent
  BY <1>2, <1>3, <1>5 DEF HandleEvent, game, Between
<1>6. CASE GiveTurns
  BY <1>3, <1>6 DEF GiveTurns, game, Between
<1>7. ASSUME NEW c \in Ids, Resume(c)
      PROVE  Between'
  BY <1>1, <1>3, <1>7 DEF Resume, game, Between
<1>8. CASE FailEvent \/ CutEvent \/ CutRoundStart \/ \E c \in Ids : FailResume(c) \/ CutResume(c)
  BY <1>8 DEF FailEvent, CutEvent, CutRoundStart, FailResume, CutResume, Abort, Between
<1>9. CASE Thought
  BY <1>1, <1>9 DEF Thought, vm, Between
<1>10. CASE Destroy
  BY <1>1, <1>2, <1>10 DEF Destroy, Between
<1>11. CASE \E a \in Apis : Create(a)
  BY <1>1, <1>2, <1>11 DEF Create, Between
<1>12. CASE StartGame
  BY <1>1, <1>2, <1>12 DEF StartGame, vm, Between
<1>13. CASE Paused \/ EndMoves \/ EndIO \/ GameOver \/ KillAll \/ AllKilled \/ Started
  BY <1>1, <1>2, <1>13 DEF Paused, EndMoves, EndIO, GameOver, KillAll, AllKilled, Started, Pass, vm,
     Between
<1>14. CASE Born \/ \E c \in Ids : Die(c) \/ Hit(c) \/ Finish(c)
  BY <1>1, <1>2, <1>14 DEF Born, Die, Hit, Finish, vm, Between
<1>15. CASE Execute \/ \E some \in SUBSET Ids : Restart(some)
  BY <1>1, <1>2, <1>15 DEF Execute, Restart, vm, Between
<1>16. CASE UNCHANGED vars
  BY <1>1, <1>2, <1>3, <1>16 DEF vars, Between
<1>17. QED
  BY <1>4, <1>5, <1>6, <1>7, <1>8, <1>9, <1>10, <1>11, <1>12, <1>13, <1>14, <1>15, <1>16
     DEF Next, Loop

LEMMA UnusedStep ==
  ASSUME TypeOK, Between, Unused, [Next]_vars
  PROVE  Unused'
<1>1. CASE used'
  BY <1>1 DEF Unused
<1>2. CASE ~used' /\ used
  <2>1. Destroy
    BY <1>2 DEF Next, Loop, Think, HandleEvent, FailEvent, CutEvent, CutRoundStart, GiveTurns, Resume,
       FailResume, CutResume, Thought, EndMoves, EndIO, StartGame, Started, AllKilled, Pass, Die, Born,
       Hit, Finish, Paused, GameOver, KillAll, Create, Execute, Restart, game, vars
  <2>2. todo = <<>>
    BY <2>1 DEF Destroy, Between
  <2>3. QED
    BY <2>1, <2>2 DEF Destroy, Nothing, Unused
<1>3. CASE ~used' /\ ~used
  <2>1. alive = {} /\ events = <<>> /\ todo = <<>> /\ DOMAIN creatures = {} /\ missed = FALSE
    BY <1>3 DEF Unused
  <2>2. turn \notin {"events", "threads"}
    BY <1>3 DEF Between
  <2>3. CASE \/ Think \/ EndMoves \/ EndIO \/ StartGame \/ Started \/ AllKilled \/ Paused \/ GameOver
             \/ KillAll \/ Execute \/ UNCHANGED vars
    BY <1>3, <2>1, <2>3 DEF Think, EndMoves, EndIO, StartGame, Started, AllKilled, Paused, GameOver,
       KillAll, Execute, Pass, game, vm, vars, Unused
  <2>4. ASSUME NEW some \in SUBSET Ids, Restart(some)
        PROVE  Unused'
    BY <1>3, <2>1, <2>4 DEF Restart, game, Unused
  <2>5. QED
    BY <1>3, <2>1, <2>2, <2>3, <2>4 DEF Next, Loop, HandleEvent, FailEvent, CutEvent, CutRoundStart,
       GiveTurns, Resume, FailResume, CutResume, Thought, Die, Born, Hit, Finish, Destroy, Create
<1>4. QED
  BY <1>1, <1>2, <1>3

LEMMA IdsStep ==
  ASSUME TypeOK, IdsGiven, [Next]_vars
  PROVE  IdsGiven'
<1>1. CASE UNCHANGED <<alive, next_id>>
  BY <1>1 DEF IdsGiven
<1>2. CASE alive' = {}
  BY <1>2 DEF IdsGiven
<1>3. CASE Born
  <2>1. next_id \in Nat /\ alive \subseteq Nat
    BY DEF TypeOK, Ids
  <2>2. QED
    BY <1>3, <2>1 DEF Born, IdsGiven
<1>4. CASE \E c \in Ids : Die(c)
  BY <1>4 DEF Die, IdsGiven
<1>5. CASE StartGame \/ Destroy
  BY <1>2, <1>5 DEF StartGame, Destroy
<1>6. QED
  BY <1>1, <1>3, <1>4, <1>5 DEF Next, Loop, Think, HandleEvent, FailEvent, CutEvent, CutRoundStart,
     GiveTurns, Resume, FailResume, CutResume, Thought, EndMoves, EndIO, Started, AllKilled, Pass, Hit,
     Finish, Paused, GameOver, KillAll, Create, Execute, Restart, game, vars

\* Births, deaths, hits and new games are told as they are.
LEMMA ToldStep ==
  ASSUME TypeOK, Known, ~missed, turn \notin {"events", "threads"}, turn' \notin {"events", "threads"},
         UNCHANGED <<missed, creatures>>,
         NEW e \in Events, events' = Append(events, e),
         \A c \in Ids : c \in alive' <=> IF Speaks(e, c) THEN e.type = CREATURE_SPAWNED ELSE c \in alive,
         e.type # PLAYER_CREATED => (e.id \in alive <=> e.type # CREATURE_SPAWNED)
  PROVE  Known'
<1>1. Pending = events /\ Pending' = Append(events, e) /\ events \in Seq(Events)
  BY DEF Pending, TypeOK
<1>2. Exact(events, DOMAIN creatures, alive) /\ Fit(events, DOMAIN creatures)
  BY <1>1 DEF Known
<1>3. Exact(Append(events, e), DOMAIN creatures, alive') /\ Fit(Append(events, e), DOMAIN creatures)
  BY <1>1, <1>2, Heard
<1>4. QED
  BY <1>1, <1>3 DEF Known

\* Every step of a program that misses nothing leaves it with what the pending events need.
LEMMA KnownStep ==
  ASSUME TypeOK, Between, Unused, IdsGiven, Known, [Next]_vars
  PROVE  Known'
<1>1. CASE missed'
  BY <1>1 DEF Known
<1>2. CASE Destroy
  <2>1. todo = <<>> /\ turn' = "round"
    BY <1>2 DEF Destroy, Between
  <2>2. Pending' = <<>> /\ DOMAIN creatures' = {} /\ alive' = {}
    BY <1>2, <2>1 DEF Destroy, Pending, Nothing
  <2>3. QED
    BY <2>2, NoEvents DEF Known
<1>3. CASE UNCHANGED <<Pending, DOMAIN creatures, alive, missed>>
  BY <1>3 DEF Known
<1>4. CASE ~missed /\ HandleEvent
  <2> DEFINE e == Head(todo)
  <2>1. todo \in Seq(Events) /\ todo # <<>> /\ e \in Events
    BY <1>4 DEF HandleEvent, TypeOK
  <2>2. Pending = todo /\ Pending' = Tail(todo)
    BY <1>4 DEF HandleEvent, Pending
  <2>3. \A c \in Ids : c \in DOMAIN creatures' <=> IF Speaks(e, c) THEN e.type = CREATURE_SPAWNED
                                                   ELSE c \in DOMAIN creatures
    <3>1. creatures' \in Handled(e)
      BY <1>4 DEF HandleEvent
    <3>2. ~Unknown(e)
      BY <1>4 DEF HandleEvent
    <3> HIDE DEF e
    <3>3. CASE e.type = CREATURE_SPAWNED
      <4>1. creatures' = With(creatures, e.id, "ready")
        BY <3>1, <3>3, HandledCases
      <4>2. DOMAIN creatures' = DOMAIN creatures \cup {e.id}
        BY <4>1, ChangedDomains
      <4>3. QED
        BY <3>3, <4>2 DEF Speaks
    <3>4. CASE e.type = CREATURE_KILLED
      <4>1. creatures' = Without(creatures, e.id)
        BY <3>1, <3>4, HandledCases
      <4>2. e.type # CREATURE_SPAWNED
        BY <3>4 DEF CREATURE_SPAWNED, CREATURE_KILLED
      <4>3. DOMAIN creatures' = DOMAIN creatures \ {e.id}
        BY <4>1, ChangedDomains
      <4>4. QED
        BY <3>4, <4>2, <4>3 DEF Speaks
    <3>5. CASE e.type = CREATURE_ATTACKED
      <4>1. creatures' \in {creatures, With(creatures, e.id, "ready")}
        BY <3>1, <3>5, HandledCases
      <4>2. e.id \in DOMAIN creatures
        BY <3>2, <3>5 DEF Unknown
      <4>3. \A c : ~Speaks(e, c)
        BY <3>5 DEF Speaks, CREATURE_SPAWNED, CREATURE_KILLED, CREATURE_ATTACKED
      <4>4. DOMAIN creatures' = DOMAIN creatures
        <5>1. DOMAIN creatures \cup {e.id} = DOMAIN creatures
          BY <4>2, Zenon
        <5>2. DOMAIN With(creatures, e.id, "ready") = DOMAIN creatures
          BY <5>1, ChangedDomains
        <5>3. QED
          BY <4>1, <5>2
      <4>5. QED
        BY <4>3, <4>4
    <3>6. CASE e.type \notin {CREATURE_SPAWNED, CREATURE_KILLED, CREATURE_ATTACKED}
      BY <3>1, <3>6 DEF Handled, Reactions, Speaks
    <3>7. QED
      BY <3>3, <3>4, <3>5, <3>6
  <2>4. Exact(todo, DOMAIN creatures, alive) /\ Fit(todo, DOMAIN creatures)
    BY <1>4, <2>2 DEF Known
  <2>5. Exact(Tail(todo), DOMAIN creatures', alive) /\ Fit(Tail(todo), DOMAIN creatures')
    BY <2>1, <2>3, <2>4, Followed
  <2>6. QED
    BY <1>4, <2>2, <2>5 DEF Known, HandleEvent, game
<1>5. CASE ~missed /\ Born
  <2> DEFINE e == [type |-> CREATURE_SPAWNED, id |-> next_id]
  <2>1. next_id \in Ids /\ next_id \notin alive
    BY <1>5, EventsAssumption DEF Born, TypeOK, Ids, IdsGiven
  <2>2. e \in Events /\ events' = Append(events, e)
    BY <1>5, <2>1, SomeEvents DEF Born, Told
  <2>3. e.type = CREATURE_SPAWNED /\ e.id = next_id
    OBVIOUS
  <2>4. UNCHANGED <<missed, creatures, turn>> /\ turn \in {"round", "moves", "io", "starting"}
    BY <1>5 DEF Born, vm
  <2>5. \A c \in Ids : c \in alive' <=> IF Speaks(e, c) THEN e.type = CREATURE_SPAWNED ELSE c \in alive
    BY <1>5, <2>3 DEF Born, Speaks
  <2> HIDE DEF e
  <2>6. QED
    BY <1>5, <2>1, <2>2, <2>3, <2>4, <2>5, ToldStep
<1>6. ASSUME NEW c \in Ids, ~missed, Die(c)
      PROVE  Known'
  <2> DEFINE e == [type |-> CREATURE_KILLED, id |-> c]
  <2>1. e \in Events /\ events' = Append(events, e)
    BY <1>6, SomeEvents DEF Die, Told
  <2>2. e.type = CREATURE_KILLED /\ e.id = c /\ c \in alive
    BY <1>6 DEF Die
  <2>3. UNCHANGED <<missed, creatures, turn>> /\ turn \in {"moves", "killall", "ending"}
    BY <1>6 DEF Die, vm
  <2>4. \A d \in Ids : d \in alive' <=> IF Speaks(e, d) THEN e.type = CREATURE_SPAWNED ELSE d \in alive
    BY <1>6, <2>2 DEF Die, Speaks, CREATURE_SPAWNED, CREATURE_KILLED
  <2> HIDE DEF e
  <2>5. e.type # CREATURE_SPAWNED
    BY <2>2 DEF CREATURE_SPAWNED, CREATURE_KILLED
  <2>6. QED
    BY <1>6, <2>1, <2>2, <2>3, <2>4, <2>5, ToldStep
<1>7. ASSUME NEW c \in Ids, ~missed, Hit(c)
      PROVE  Known'
  <2> DEFINE e == [type |-> CREATURE_ATTACKED, id |-> c]
  <2>1. e \in Events /\ events' = Append(events, e)
    BY <1>7, SomeEvents DEF Hit, Told
  <2>2. e.type = CREATURE_ATTACKED /\ e.id = c /\ c \in alive
    BY <1>7 DEF Hit
  <2>3. UNCHANGED <<missed, creatures, turn, alive>> /\ turn = "moves"
    BY <1>7 DEF Hit, vm, game
  <2> HIDE DEF e
  <2>4. e.type # CREATURE_SPAWNED /\ \A d \in Ids : ~Speaks(e, d)
    BY <2>2 DEF Speaks, CREATURE_SPAWNED, CREATURE_KILLED, CREATURE_ATTACKED
  <2>5. QED
    BY <1>7, <2>1, <2>2, <2>3, <2>4, ToldStep
<1>8. ASSUME NEW e, e = [type |-> PLAYER_CREATED], ~missed, events' = Append(events, e),
             UNCHANGED <<missed, creatures, alive>>,
             turn \notin {"events", "threads"}, turn' \notin {"events", "threads"}
      PROVE  Known'
  <2>1. e \in Events /\ e.type = PLAYER_CREATED
    BY <1>8, SomeEvents
  <2>2. \A c : ~Speaks(e, c)
    BY <2>1 DEF Speaks, PLAYER_CREATED, CREATURE_SPAWNED, CREATURE_KILLED
  <2>3. QED
    BY <1>8, <2>1, <2>2, ToldStep
<1>9. CASE ~missed /\ \E a \in Apis : Create(a)
  <2>1. events = <<>> /\ turn = "io" /\ turn' = "io" /\ events' = <<[type |-> PLAYER_CREATED]>>
    BY <1>9 DEF Create, Unused
  <2>2. events' = Append(events, [type |-> PLAYER_CREATED])
    BY <2>1
  <2>3. QED
    BY <1>8, <1>9, <2>1, <2>2 DEF Create
<1>10. CASE ~missed /\ StartGame
  <2>1. turn = "ending" /\ turn' = "starting" /\ UNCHANGED <<missed, creatures, alive>>
    BY <1>10 DEF StartGame, vm
  <2>2. CASE used
    BY <1>8, <1>10, <2>1, <2>2 DEF StartGame
  <2>3. CASE ~used
    BY <1>3, <1>10, <2>1, <2>3 DEF StartGame, Pending
  <2>4. QED
    BY <2>2, <2>3
<1>11. CASE ~missed /\ Think
  <2>1. todo' = events /\ events' = events /\ turn = "round" /\ turn' \in {"events", "moves"}
        /\ UNCHANGED <<creatures, missed, alive>>
    BY <1>11 DEF Think, game
  <2>2. UNCHANGED Pending
    BY <2>1 DEF Pending
  <2>3. QED
    BY <1>3, <2>1, <2>2
<1>12. CASE GiveTurns \/ Thought \/ CutRoundStart
  BY <1>3, <1>12 DEF GiveTurns, Thought, CutRoundStart, Abort, Pending, game, vm
<1>13. ASSUME NEW c \in Ids, Resume(c) \/ FailResume(c) \/ CutResume(c)
       PROVE  Known'
  <2>1. UNCHANGED <<DOMAIN creatures, alive, missed>>
    <3>1. creatures' = creatures \/ \E t : creatures' = [creatures EXCEPT ![c] = t]
      BY <1>13 DEF Resume, FailResume, CutResume
    <3>2. UNCHANGED <<alive, missed>>
      BY <1>13 DEF Resume, FailResume, CutResume, game
    <3>3. QED
      BY <3>1, <3>2
  <2>2. UNCHANGED Pending
    BY <1>13 DEF Resume, FailResume, CutResume, Abort, Pending
  <2>3. QED
    BY <1>3, <2>1, <2>2
<1>14. CASE Paused \/ EndMoves \/ EndIO \/ GameOver \/ KillAll \/ AllKilled \/ Started
  BY <1>3, <1>14 DEF Paused, EndMoves, EndIO, GameOver, KillAll, AllKilled, Started, Pass, Pending,
     game, vm
<1>15. CASE Execute \/ \E c \in Ids : Finish(c)
  BY <1>3, <1>15 DEF Execute, Finish, Pending, game, vm
<1>16. ASSUME NEW some \in SUBSET Ids, Restart(some)
       PROVE  Known'
  <2>1. UNCHANGED <<DOMAIN creatures, alive, missed, events, todo, turn>>
    BY <1>16 DEF Restart, game
  <2>2. QED
    BY <1>3, <2>1 DEF Pending
<1>17. CASE UNCHANGED vars
  BY <1>3, <1>17 DEF vars, Pending
<1>18. CASE FailEvent \/ CutEvent
  BY <1>1, <1>18 DEF FailEvent, CutEvent
<1>19. (missed /\ ~missed') => Destroy
  BY DEF Next, Loop, Think, HandleEvent, FailEvent, CutEvent, CutRoundStart, GiveTurns, Resume,
     FailResume, CutResume, Thought, EndMoves, EndIO, StartGame, Started, AllKilled, Pass, Die, Born,
     Hit, Finish, Paused, GameOver, KillAll, Create, Execute, Restart, vm, vars
<1>20. QED
  BY <1>1, <1>2, <1>4, <1>5, <1>6, <1>7, <1>9, <1>10, <1>11, <1>12, <1>13, <1>14, <1>15, <1>16,
     <1>17, <1>18, <1>19 DEF Next, Loop

\* A coroutine is made with the creature, or the program misses the rest of the events.
LEMMA MannedStep ==
  ASSUME TypeOK, Manned, [Next]_vars
  PROVE  Manned'
<1>1. CASE missed'
  BY <1>1 DEF Manned
<1>2. CASE UNCHANGED <<creatures, missed>>
  BY <1>2 DEF Manned
<1>3. CASE Destroy
  BY <1>3 DEF Destroy, Nothing, Manned
<1>4. CASE ~missed /\ HandleEvent
  <2>1. creatures' \in {With(creatures, Head(todo).id, "ready"), Without(creatures, Head(todo).id),
                        creatures}
    BY <1>4 DEF HandleEvent, Handled, Reactions
  <2>2. \A c \in DOMAIN creatures : creatures[c] # "none"
    BY <1>4 DEF Manned
  <2>3. \A c \in DOMAIN creatures' : creatures'[c] # "none"
    BY <2>1, <2>2 DEF With, Without
  <2>4. QED
    BY <2>3 DEF Manned
<1>5. ASSUME NEW c \in Ids, ~missed, Resume(c)
      PROVE  Manned'
  <2>1. CASE creatures[c] \in {"none", "dead"}
    BY <1>2, <1>5, <2>1 DEF Resume
  <2>2. CASE creatures[c] \notin {"none", "dead"}
    <3>1. PICK after \in AfterTurn(c) : creatures' = [creatures EXCEPT ![c] = after[1]]
      BY <1>5, <2>2 DEF Resume
    <3>2. after[1] # "none"
      BY <2>2 DEF AfterTurn
    <3>3. QED
      BY <1>5, <3>1, <3>2 DEF Manned
  <2>3. QED
    BY <2>1, <2>2
<1>6. ASSUME NEW c \in Ids, ~missed, CutResume(c)
      PROVE  Manned'
  BY <1>5, <1>6 DEF CutResume, Manned
<1>7. ASSUME NEW some \in SUBSET Ids, Restart(some)
      PROVE  Manned'
  BY <1>7 DEF Restart, Manned
<1>8. UNCHANGED <<creatures, missed>> \/ missed' \/ Destroy \/ (~missed /\ HandleEvent)
      \/ (\E c \in Ids : Resume(c) \/ CutResume(c)) \/ \E some \in SUBSET Ids : Restart(some)
  BY DEF Next, Loop, Think, HandleEvent, FailEvent, CutEvent, CutRoundStart, GiveTurns,
     FailResume, Thought, EndMoves, EndIO, StartGame, Started, AllKilled, Pass, Die, Born,
     Hit, Finish, Paused, GameOver, KillAll, Create, Execute, vm, vars
<1>9. (\E c \in Ids : Resume(c) \/ CutResume(c)) => UNCHANGED missed
  BY DEF Resume, CutResume
<1>10. QED
  BY <1>1, <1>2, <1>3, <1>4, <1>5, <1>6, <1>7, <1>8, <1>9

-----------------------------------------------------------------------------
(* Theorems *)

LEMMA IndInit == Init => Ind
<1> SUFFICES ASSUME Init PROVE Ind
  OBVIOUS
<1>1. TypeOK
  BY TypeInit
<1>2. Between /\ Unused /\ IdsGiven /\ Manned
  BY DEF Init, Between, Unused, IdsGiven, Manned, Nothing
<1>3. Pending = <<>> /\ DOMAIN creatures = {} /\ alive = {}
  BY DEF Init, Pending, Nothing
<1>4. Known
  BY <1>3, NoEvents DEF Known
<1>5. QED
  BY <1>1, <1>2, <1>4, KnownIsBoth DEF Ind

LEMMA IndStep == Ind /\ [Next]_vars => Ind'
<1> SUFFICES ASSUME Ind, [Next]_vars PROVE Ind'
  OBVIOUS
<1>1. TypeOK /\ Between /\ Unused /\ IdsGiven /\ Manned /\ Known
  BY KnownIsBoth DEF Ind
<1>2. Known' <=> CreaturesExact' /\ EventsFit'
  BY DEF Known, Exact, Fit, CreaturesExact, EventsFit
<1>3. QED
  BY <1>1, <1>2, TypeStep, BetweenStep, UnusedStep, IdsStep, KnownStep, MannedStep DEF Ind

LEMMA Inductive == Spec => []Ind
BY IndInit, IndStep, PTL DEF Spec

\* The tables, events and coroutines keep their types; a creature that waits for its turn is in
\* the table that player_think walks over.
THEOREM TypeCorrect == Spec => []TypeOK
BY Inductive, PTL DEF Ind

\* Whatever happens in a round, over all games of a player's VM: once a program that missed no
\* event has heard of the rest, its table holds exactly its living creatures.
THEOREM CreaturesAreExact == Spec => []CreaturesExact
BY Inductive, PTL DEF Ind

\* The assertions and indices of player_think never meet a creature that is not in the table,
\* unless the program was cut off before.
THEOREM EventsAlwaysFit == Spec => []EventsFit
BY Inductive, PTL DEF Ind

\* No creature of such a program is without a coroutine.
THEOREM CreaturesAreManned == Spec => []Manned
BY Inductive, PTL DEF Ind
================================================================================
