------------------------------- MODULE StreamProofs ----------------------------
(***************************************************************************)
(* Proofs about Stream for every limit, window and number of packets.      *)
(***************************************************************************)
EXTENDS Stream, TLAPS

-----------------------------------------------------------------------------
(* The inductive invariant *)

\* How far the handshake is, on both sides.
Handshake ==
  /\ compress <=> request = "served"
  /\ request # "served" => accepted = WELCOME /\ flushed = 2 * WELCOME /\ server = "open"
  /\ compress => accepted >= START /\ flushed >= 2 * START
  /\ request = "none" <=> handled = 0
  /\ compression <=> handled >= START

\* server_writable waits only if there is something that it would write.
Awake ==
  /\ wr_event => sent < 2 * accepted
  /\ server = "open" => accepted < MaxPackets
  /\ server # "failed"
  /\ server = "open" => 2 * accepted - flushed <= Hold

\* Bytes that were not inflated are plain ones, or will be put back before they are parsed.
Sorted ==
  /\ client \in {"wait", "parse"} => buf_end = in_end
  /\ compression => raw_end <= 2 * START /\ buf_end >= 2 * START
  /\ ~compression => raw_end = buf_end
  /\ client # "garbled"

\* The parts of TypeOK: positions in the stream, and the states of the two programs.
Positions ==
  /\ accepted \in Nat /\ 1 <= accepted /\ accepted <= MaxPackets
  /\ handled \in Nat /\ handled <= accepted
  /\ 2 * handled <= buf_end /\ buf_end <= in_end /\ in_end <= sent
  /\ sent <= flushed /\ flushed <= 2 * accepted
  /\ flushed \in Nat /\ sent \in Nat /\ in_end \in Nat /\ buf_end \in Nat
  /\ raw_end \in Nat /\ raw_end <= buf_end
  /\ quit \in Nat /\ quit <= MaxPackets

Flags == wr_event \in BOOLEAN /\ compress \in BOOLEAN /\ compression \in BOOLEAN

Programs ==
  /\ server \in {"open", "failed", "closed"}
  /\ request \in {"none", "asked", "served"}
  /\ client \in {"wait", "fill", "parse", "gone", "garbled"}

Ind == Positions /\ Flags /\ Programs /\ Handshake /\ Awake /\ Sorted /\ BacklogBounded

USE DEF WELCOME, HANDSHAKE, START

LEMMA PartsOfTypeOK == TypeOK <=> Positions /\ Flags /\ Programs
<1>1. TypeOK => Positions
  BY StreamAssumption DEF TypeOK, Positions
<1>2. TypeOK => Flags /\ Programs
  BY Zenon DEF TypeOK, Flags, Programs
<1>3. Positions => /\ accepted \in 1 .. MaxPackets /\ handled \in 0 .. accepted
                   /\ raw_end \in 0 .. buf_end /\ quit \in 0 .. MaxPackets
  BY StreamAssumption DEF Positions
<1> QED BY <1>1, <1>2, <1>3, Zenon DEF TypeOK, Positions, Flags, Programs

LEMMA IndInit == Init => Ind
<1> SUFFICES ASSUME Init PROVE Ind
  OBVIOUS
<1>1. Positions
  BY StreamAssumption DEF Init, Positions
<1>2. Flags
  BY StreamAssumption DEF Init, Flags
<1>3. Programs
  BY StreamAssumption DEF Init, Programs
<1>4. Handshake
  BY StreamAssumption DEF Init, Handshake
<1>5. Awake
  BY StreamAssumption DEF Init, Awake
<1>6. Sorted
  BY StreamAssumption DEF Init, Sorted
<1>7. BacklogBounded
  BY StreamAssumption DEF Init, BacklogBounded
<1> QED BY <1>1, <1>2, <1>3, <1>4, <1>5, <1>6, <1>7 DEF Ind

-----------------------------------------------------------------------------
(* The server's steps *)

LEMMA SendPacketStep == ASSUME Ind, SendPacket PROVE Ind'
<1>1. /\ server = "open" /\ request = "served" /\ accepted < MaxPackets - 1
      /\ UNCHANGED <<sent, compress, server, quit, request>>
  BY DEF SendPacket
<1>2. UNCHANGED <<in_end, buf_end, raw_end, handled, compression, client>>
  BY DEF SendPacket, clientVars
<1>3. \/ UNCHANGED <<accepted, flushed, wr_event>>
      \/ /\ accepted' = accepted + 1 /\ wr_event' = TRUE
         /\ flushed' \in Nat /\ flushed' >= flushed /\ flushed' <= 2 * accepted'
         /\ flushed' >= 2 * accepted' - Hold
         /\ flushed - sent <= Limit
  <2>1. CASE Drops
    BY <2>1 DEF SendPacket
  <2>2. CASE ~Drops
    <3>1. accepted \in Nat /\ flushed \in Nat /\ sent \in Nat /\ compress /\ flushed <= 2 * accepted
      BY <1>1 DEF Ind, Positions, Handshake
    <3>2. Append(accepted + 1) /\ wr_event' = TRUE
      BY <2>2 DEF SendPacket
    <3>3. flushed - sent <= Limit
      BY <2>2, <3>1, StreamAssumption DEF Drops, Backlog
    <3>4. accepted' = accepted + 1 /\ flushed' \in Emitted(accepted + 1)
      BY <3>1, <3>2 DEF Append
    <3>5. /\ flushed' \in Nat /\ flushed' >= flushed /\ flushed' <= 2 * (accepted + 1)
          /\ flushed' >= 2 * (accepted + 1) - Hold
      BY <3>1, <3>4 DEF Emitted
    <3> QED BY <3>2, <3>3, <3>4, <3>5
  <2> QED BY <2>1, <2>2
<1>4. Positions'
  BY <1>1, <1>2, <1>3, StreamAssumption DEF Ind, Positions
<1>5. Flags'
  BY <1>1, <1>2, <1>3, StreamAssumption DEF Ind, Flags
<1>6. Programs'
  BY <1>1, <1>2, <1>3, StreamAssumption DEF Ind, Programs
<1>7. Handshake'
  BY <1>1, <1>2, <1>3, StreamAssumption DEF Ind, Positions, Flags, Programs, Handshake
<1>8. Awake'
  BY <1>1, <1>2, <1>3, StreamAssumption DEF Ind, Positions, Flags, Handshake, Awake
<1>9. Sorted'
  BY <1>1, <1>2, <1>3, StreamAssumption DEF Ind, Positions, Flags, Handshake, Sorted
<1>10. BacklogBounded'
  BY <1>1, <1>2, <1>3, StreamAssumption DEF Ind, Positions, Awake, BacklogBounded
<1> QED BY <1>4, <1>5, <1>6, <1>7, <1>8, <1>9, <1>10 DEF Ind

LEMMA TurnStep == ASSUME Ind, TurnIntoGuiClient PROVE Ind'
<1>1. /\ server = "open" /\ request = "asked" /\ request' = "served"
      /\ accepted' = START /\ flushed' = 2 * START /\ compress' = TRUE /\ wr_event' = TRUE
      /\ UNCHANGED <<sent, server, quit>>
  BY DEF TurnIntoGuiClient
<1>2. UNCHANGED <<in_end, buf_end, raw_end, handled, compression, client>>
  BY DEF TurnIntoGuiClient, clientVars
<1>3. accepted = 1 /\ flushed = 2 /\ handled <= 1 /\ ~compress
  BY <1>1 DEF Ind, Positions, Handshake
<1>4. Positions'
  BY <1>1, <1>2, <1>3, StreamAssumption DEF Ind, Positions
<1>5. Flags'
  BY <1>1, <1>2, <1>3, StreamAssumption DEF Ind, Flags
<1>6. Programs'
  BY <1>1, <1>2, <1>3, StreamAssumption DEF Ind, Programs
<1>7. Handshake'
  BY <1>1, <1>2, <1>3, StreamAssumption DEF Ind, Positions, Flags, Programs, Handshake
<1>8. Awake'
  BY <1>1, <1>2, <1>3, StreamAssumption DEF Ind, Positions, Flags, Handshake, Awake
<1>9. Sorted'
  BY <1>1, <1>2, <1>3, StreamAssumption DEF Ind, Positions, Flags, Handshake, Sorted
<1>10. BacklogBounded'
  BY <1>1, <1>2, <1>3, StreamAssumption DEF Ind, Positions, Awake, BacklogBounded
<1> QED BY <1>4, <1>5, <1>6, <1>7, <1>8, <1>9, <1>10 DEF Ind

\* What is written makes the backlog smaller, ...
LEMMA BacklogSent == ASSUME NEW a \in Nat, NEW s \in Nat, NEW t \in Nat, t >= s,
                            2 * a - s <= Limit + 2 + Hold
                     PROVE  2 * a - t <= Limit + 2 + Hold
  BY StreamAssumption

\* ... and a packet that is taken was taken within the limit.
LEMMA BacklogGrown == ASSUME NEW a \in Nat, NEW f \in Nat, NEW s \in Nat, NEW t \in Nat, t >= s,
                             2 * a - f <= Hold, f - s <= Limit
                      PROVE  2 * (a + 1) - t <= Limit + 2 + Hold
  BY StreamAssumption

LEMMA WritableStep == ASSUME Ind, Writable PROVE Ind'
<1>1. /\ server = "open" /\ wr_event /\ sent < in_end + Window
      /\ UNCHANGED <<accepted, compress, quit, request>>
  BY DEF Writable
<1>2. UNCHANGED <<in_end, buf_end, raw_end, handled, compression, client>>
  BY DEF Writable, clientVars
<1>3. sent < 2 * accepted
  BY <1>1 DEF Ind, Awake
<1>4. 2 * accepted # sent
  BY <1>3 DEF Ind, Positions
<1>5. /\ flushed' = 2 * accepted /\ UNCHANGED server
      /\ sent' \in Writes(2 * accepted) /\ wr_event' = MoreToWrite(2 * accepted, sent')
  BY <1>4 DEF Writable, Flushed
<1>6. wr_event' \in BOOLEAN /\ (wr_event' <=> 2 * accepted > sent')
  <2>1. wr_event' = (2 * accepted > sent')
    BY <1>5, Zenon DEF MoreToWrite
  <2>2. CASE 2 * accepted > sent'
    BY <2>1, <2>2, Zenon
  <2>3. CASE ~(2 * accepted > sent')
    <3>1. (2 * accepted > sent') = FALSE
      BY <2>3
    <3> QED BY <2>1, <2>3, <3>1, Zenon
  <2> QED BY <2>2, <2>3, Zenon
<1>7. sent' \in Nat /\ sent' > sent /\ sent' <= 2 * accepted
  <2>1. Smaller(2 * accepted, in_end + Window) <= 2 * accepted
        /\ Smaller(2 * accepted, in_end + Window) \in Nat
    BY StreamAssumption DEF Smaller, Ind, Positions
  <2>2. sent' \in sent + 1 .. Smaller(2 * accepted, in_end + Window)
    BY <1>5 DEF Writes
  <2> QED BY <2>1, <2>2 DEF Ind, Positions
<1>8. Positions'
  BY <1>1, <1>2, <1>3, <1>4, <1>5, <1>6, <1>7, StreamAssumption DEF Ind, Positions
<1>9. Flags'
  BY <1>1, <1>2, <1>3, <1>4, <1>5, <1>6, <1>7, StreamAssumption DEF Ind, Flags
<1>10. Programs'
  BY <1>1, <1>2, <1>3, <1>4, <1>5, <1>6, <1>7, StreamAssumption DEF Ind, Programs
<1>11. Handshake'
  BY <1>1, <1>2, <1>3, <1>4, <1>5, <1>6, <1>7, StreamAssumption DEF Ind, Positions, Flags, Programs, Handshake
<1>12. Awake'
  BY <1>1, <1>2, <1>3, <1>4, <1>5, <1>6, <1>7, StreamAssumption DEF Ind, Positions, Flags, Handshake, Awake
<1>13. Sorted'
  BY <1>1, <1>2, <1>3, <1>4, <1>5, <1>6, <1>7, StreamAssumption DEF Ind, Positions, Flags, Handshake, Sorted
<1>14. BacklogBounded'
  <2>1. accepted \in Nat /\ sent \in Nat /\ 2 * accepted - sent <= Limit + 2 + Hold
    BY DEF Ind, Positions, BacklogBounded
  <2>2. 2 * accepted - sent' <= Limit + 2 + Hold
    <3>1. sent' >= sent
      BY <1>7, <2>1
    <3> QED BY <1>7, <2>1, <3>1, BacklogSent
  <2> QED BY <1>1, <2>2, Zenon DEF BacklogBounded
<1> QED BY <1>8, <1>9, <1>10, <1>11, <1>12, <1>13, <1>14 DEF Ind

LEMMA DestroyStep == ASSUME Ind, Destroy PROVE Ind'
<1>1. /\ server = "open" /\ request = "served" /\ server' = "closed" /\ wr_event' = FALSE
      /\ UNCHANGED <<compress, request>>
  BY DEF Destroy
<1>2. UNCHANGED <<in_end, buf_end, raw_end, handled, compression, client>>
  BY DEF Destroy, clientVars
<1>3. /\ accepted' \in Nat /\ accepted' >= accepted /\ accepted' <= MaxPackets
      /\ quit' \in Nat /\ quit' <= MaxPackets
      /\ accepted' # accepted => accepted' = accepted + 1 /\ flushed - sent <= Limit
  <2>1. accepted + 1 <= MaxPackets
    BY <1>1, StreamAssumption DEF Ind, Positions, Awake
  <2>2. CASE Drops
    <3>1. UNCHANGED <<accepted, quit>>
      BY <2>2 DEF Destroy
    <3> QED BY <3>1 DEF Ind, Positions
  <2>3. CASE ~Drops
    <3>1. accepted' = accepted + 1 /\ quit' = accepted + 1
      BY <2>3 DEF Destroy
    <3>2. flushed - sent <= Limit
      BY <2>3, StreamAssumption DEF Drops, Backlog, Ind, Positions
    <3> QED BY <2>1, <3>1, <3>2 DEF Ind, Positions
  <2> QED BY <2>2, <2>3
<1>4. 2 * accepted' = flushed'
  BY Zenon DEF Destroy
<1>5. sent' \in Nat /\ sent' >= sent /\ sent' <= flushed'
  <2>1. sent <= flushed'
    BY <1>3, <1>4 DEF Ind, Positions, Awake
  <2>2. Smaller(flushed', in_end + Window) <= flushed'
        /\ Smaller(flushed', in_end + Window) \in Nat
    BY <1>3, <1>4, StreamAssumption DEF Smaller, Ind, Positions
  <2>3. sent' = sent \/ sent' \in sent + 1 .. Smaller(flushed', in_end + Window)
    BY DEF Destroy
  <2> QED BY <1>3, <1>4, <2>1, <2>2, <2>3 DEF Ind, Positions
<1>6. Positions'
  BY <1>2, <1>3, <1>4, <1>5, StreamAssumption DEF Ind, Positions
<1>7. Flags'
  BY <1>1, <1>2, <1>3, <1>4, <1>5, StreamAssumption DEF Ind, Flags
<1>8. Programs'
  BY <1>1, <1>2, <1>3, <1>4, <1>5, StreamAssumption DEF Ind, Programs
<1>9. Handshake'
  BY <1>1, <1>2, <1>3, <1>4 DEF Ind, Positions, Handshake
<1>10. Awake'
  BY <1>1, <1>2, <1>3, <1>4, <1>5, StreamAssumption DEF Ind, Positions, Flags, Handshake, Awake
<1>11. Sorted'
  BY <1>1, <1>2, <1>3, <1>4, <1>5, StreamAssumption DEF Ind, Positions, Flags, Handshake, Sorted
<1>12. BacklogBounded'
  <2>1. accepted \in Nat /\ sent \in Nat /\ flushed \in Nat /\ sent <= flushed
    BY DEF Ind, Positions
  <2>2. 2 * accepted - sent <= Limit + 2 + Hold /\ 2 * accepted - flushed <= Hold
    BY <1>1 DEF Ind, BacklogBounded, Awake
  <2>3. CASE accepted' = accepted
    <3>1. 2 * accepted - sent' <= Limit + 2 + Hold
      BY <1>5, <2>1, <2>2, BacklogSent
    <3> QED BY <2>3, <3>1, Zenon DEF BacklogBounded
  <2>4. CASE accepted' = accepted + 1 /\ flushed - sent <= Limit
    <3>1. 2 * (accepted + 1) - sent' <= Limit + 2 + Hold
      BY <1>5, <2>1, <2>2, <2>4, BacklogGrown
    <3> QED BY <2>4, <3>1, Zenon DEF BacklogBounded
  <2> QED BY <1>3, <2>3, <2>4
<1> QED BY <1>6, <1>7, <1>8, <1>9, <1>10, <1>11, <1>12 DEF Ind

-----------------------------------------------------------------------------
(* The client's steps *)

LEMMA ReadableStep == ASSUME Ind, Readable PROVE Ind'
<1>1. /\ client = "wait" /\ client' = "fill" /\ in_end' \in in_end + 1 .. sent
      /\ UNCHANGED <<request, buf_end, raw_end, handled, compression>>
  BY DEF Readable
<1>2. UNCHANGED <<accepted, flushed, sent, wr_event, compress, server, quit>>
  BY DEF Readable, serverVars
<1>3. in_end' \in Nat /\ in_end' > in_end /\ in_end' <= sent
  BY <1>1 DEF Ind, Positions
<1>4. Positions'
  BY <1>1, <1>2, <1>3, StreamAssumption DEF Ind, Positions
<1>5. Flags'
  BY <1>1, <1>2, <1>3, StreamAssumption DEF Ind, Flags
<1>6. Programs'
  BY <1>1, <1>2, <1>3, StreamAssumption DEF Ind, Programs
<1>7. Handshake'
  BY <1>1, <1>2, <1>3, StreamAssumption DEF Ind, Positions, Flags, Programs, Handshake
<1>8. Awake'
  BY <1>1, <1>2, <1>3, StreamAssumption DEF Ind, Positions, Flags, Handshake, Awake
<1>9. Sorted'
  BY <1>1, <1>2, <1>3, StreamAssumption DEF Ind, Positions, Flags, Handshake, Sorted
<1>10. BacklogBounded'
  BY <1>1, <1>2, <1>3, StreamAssumption DEF Ind, Positions, Awake, BacklogBounded
<1> QED BY <1>4, <1>5, <1>6, <1>7, <1>8, <1>9, <1>10 DEF Ind

LEMMA EndOfFileStep == ASSUME Ind, EndOfFile PROVE Ind'
<1>1. /\ client = "wait" /\ client' = "gone"
      /\ UNCHANGED <<request, in_end, buf_end, raw_end, handled, compression>>
  BY DEF EndOfFile
<1>2. UNCHANGED <<accepted, flushed, sent, wr_event, compress, server, quit>>
  BY DEF EndOfFile, serverVars
<1>3. Positions'
  BY <1>1, <1>2, StreamAssumption DEF Ind, Positions
<1>4. Flags'
  BY <1>1, <1>2, StreamAssumption DEF Ind, Flags
<1>5. Programs'
  BY <1>1, <1>2, StreamAssumption DEF Ind, Programs
<1>6. Handshake'
  BY <1>1, <1>2, StreamAssumption DEF Ind, Positions, Flags, Programs, Handshake
<1>7. Awake'
  BY <1>1, <1>2, StreamAssumption DEF Ind, Positions, Flags, Handshake, Awake
<1>8. Sorted'
  BY <1>1, <1>2, StreamAssumption DEF Ind, Positions, Flags, Handshake, Sorted
<1>9. BacklogBounded'
  BY <1>1, <1>2, StreamAssumption DEF Ind, Positions, Awake, BacklogBounded
<1> QED BY <1>3, <1>4, <1>5, <1>6, <1>7, <1>8, <1>9 DEF Ind

\* inflate is only given what the server compressed.
LEMMA FillStep == ASSUME Ind, Fill PROVE Ind'
<1>1. compression => Inflatable
  BY DEF Inflatable, LastPlain, Ind, Positions, Handshake, Sorted
<1>2. /\ client = "fill" /\ client' = "parse" /\ buf_end' = in_end
      /\ raw_end' = IF compression THEN raw_end ELSE in_end
      /\ UNCHANGED <<request, in_end, handled, compression>>
  BY <1>1 DEF Fill
<1>3. UNCHANGED <<accepted, flushed, sent, wr_event, compress, server, quit>>
  BY DEF Fill, serverVars
<1>4. raw_end' \in Nat /\ raw_end' <= buf_end'
  BY <1>2 DEF Ind, Positions
<1>5. Positions'
  BY <1>1, <1>2, <1>3, <1>4, StreamAssumption DEF Ind, Positions
<1>6. Flags'
  BY <1>1, <1>2, <1>3, <1>4, StreamAssumption DEF Ind, Flags
<1>7. Programs'
  BY <1>1, <1>2, <1>3, <1>4, StreamAssumption DEF Ind, Programs
<1>8. Handshake'
  BY <1>1, <1>2, <1>3, <1>4, StreamAssumption DEF Ind, Positions, Flags, Programs, Handshake
<1>9. Awake'
  BY <1>1, <1>2, <1>3, <1>4, StreamAssumption DEF Ind, Positions, Flags, Handshake, Awake
<1>10. Sorted'
  BY <1>1, <1>2, <1>3, <1>4, StreamAssumption DEF Ind, Positions, Flags, Handshake, Sorted
<1>11. BacklogBounded'
  BY <1>1, <1>2, <1>3, <1>4, StreamAssumption DEF Ind, Positions, Awake, BacklogBounded
<1> QED BY <1>5, <1>6, <1>7, <1>8, <1>9, <1>10, <1>11 DEF Ind

\* The parser is only given what was plain or went through inflate.
LEMMA NeverGarbled == ASSUME Ind PROVE ~Garbled
  BY DEF Garbled, LastPlain, Ind, Positions, Handshake, Sorted

LEMMA ParsePacketStep == ASSUME Ind, ParsePacket PROVE Ind'
<1>1. /\ client = "parse" /\ 2 * handled + 2 <= buf_end /\ handled' = handled + 1
      /\ request' = IF handled' = 1 THEN "asked" ELSE request
      /\ UNCHANGED <<accepted, flushed, sent, wr_event, compress, server, quit, in_end>>
  BY DEF ParsePacket, serverVars
<1>2. handled' \in Nat /\ handled' <= accepted /\ 2 * handled' <= buf_end
  BY <1>1 DEF Ind, Positions
<1>3. handled' = 3 => ~compression /\ compress /\ buf_end = in_end
  BY <1>1, <1>2 DEF Ind, Positions, Handshake, Sorted, Programs
<1>4. handled' = 3 => /\ compression' = TRUE /\ buf_end' = 6 /\ client' = "fill"
                      /\ raw_end' = Smaller(raw_end, 6)
  BY <1>3 DEF ParsePacket, RestPutBack, Ind, Positions
<1>5. handled' # 3 => /\ client' \in {"gone", "parse"}
                      /\ UNCHANGED <<compression, buf_end, raw_end>>
  BY DEF ParsePacket
<1>6. raw_end' \in Nat /\ raw_end' <= buf_end' /\ (handled' = 3 => raw_end' <= 6)
  BY <1>4, <1>5 DEF Smaller, Ind, Positions
<1>7. compression' <=> handled' >= 3
  BY <1>1, <1>2, <1>4, <1>5 DEF Ind, Positions, Flags, Handshake
<1>8. Positions'
  BY <1>1, <1>2, <1>3, <1>4, <1>5, <1>6, <1>7, StreamAssumption DEF Ind, Positions
<1>9. Flags'
  BY <1>1, <1>2, <1>3, <1>4, <1>5, <1>6, <1>7, StreamAssumption DEF Ind, Flags
<1>10. Programs'
  BY <1>1, <1>2, <1>3, <1>4, <1>5, <1>6, <1>7, StreamAssumption DEF Ind, Programs
<1>11. Handshake'
  BY <1>1, <1>2, <1>3, <1>4, <1>5, <1>6, <1>7, StreamAssumption DEF Ind, Positions, Flags, Programs, Handshake
<1>12. Awake'
  BY <1>1, <1>2, <1>3, <1>4, <1>5, <1>6, <1>7, StreamAssumption DEF Ind, Positions, Flags, Handshake, Awake
<1>13. Sorted'
  BY <1>1, <1>2, <1>3, <1>4, <1>5, <1>6, <1>7, StreamAssumption DEF Ind, Positions, Flags, Handshake, Sorted
<1>14. BacklogBounded'
  BY <1>1, <1>2, <1>3, <1>4, <1>5, <1>6, <1>7, StreamAssumption DEF Ind, Positions, Awake, BacklogBounded
<1> QED BY <1>8, <1>9, <1>10, <1>11, <1>12, <1>13, <1>14 DEF Ind

LEMMA ParseMoreStep == ASSUME Ind, ParseMore PROVE Ind'
<1>1. /\ client = "parse" /\ client' = "wait" /\ 2 * handled + 2 > buf_end
      /\ UNCHANGED <<request, in_end, buf_end, raw_end, handled, compression>>
  BY NeverGarbled DEF ParseMore
<1>2. UNCHANGED <<accepted, flushed, sent, wr_event, compress, server, quit>>
  BY DEF ParseMore, serverVars
<1>3. buf_end = in_end
  BY <1>1 DEF Ind, Positions, Handshake, Sorted
<1>4. Positions'
  BY <1>1, <1>2, <1>3, StreamAssumption DEF Ind, Positions
<1>5. Flags'
  BY <1>1, <1>2, <1>3, StreamAssumption DEF Ind, Flags
<1>6. Programs'
  BY <1>1, <1>2, <1>3, StreamAssumption DEF Ind, Programs
<1>7. Handshake'
  BY <1>1, <1>2, <1>3, StreamAssumption DEF Ind, Positions, Flags, Programs, Handshake
<1>8. Awake'
  BY <1>1, <1>2, <1>3, StreamAssumption DEF Ind, Positions, Flags, Handshake, Awake
<1>9. Sorted'
  BY <1>1, <1>2, <1>3, StreamAssumption DEF Ind, Positions, Flags, Handshake, Sorted
<1>10. BacklogBounded'
  BY <1>1, <1>2, <1>3, StreamAssumption DEF Ind, Positions, Awake, BacklogBounded
<1> QED BY <1>4, <1>5, <1>6, <1>7, <1>8, <1>9, <1>10 DEF Ind

LEMMA IndNext == Ind /\ [Next]_vars => Ind'
<1> SUFFICES ASSUME Ind, [Next]_vars PROVE Ind'
  OBVIOUS
<1>1. CASE Next
  BY <1>1, SendPacketStep, TurnStep, WritableStep, DestroyStep, ReadableStep, EndOfFileStep,
     FillStep, ParsePacketStep, ParseMoreStep DEF Next, Parse
<1>2. CASE UNCHANGED vars
  BY <1>2, Zenon DEF vars, serverVars, clientVars, Ind, Positions, Flags, Programs, Handshake,
     Awake, Sorted, BacklogBounded
<1> QED BY <1>1, <1>2

LEMMA IndAlways == Spec => []Ind
  BY IndInit, IndNext, PTL DEF Spec

-----------------------------------------------------------------------------
(* The theorems *)

\* Every byte that the client holds was written, every byte written was taken, and the
\* buffers follow each other in that order.
THEOREM TypeCorrect == Spec => []TypeOK
<1>1. Ind => TypeOK
  BY PartsOfTypeOK DEF Ind
<1> QED BY <1>1, IndAlways, PTL

\* Compression can start at any byte of any read: nothing compressed is parsed, nothing
\* plain is inflated (client.c:227).
THEOREM AlwaysReadable == Spec => []Readability
<1>1. Ind => Readability
  BY DEF Ind, Sorted, Readability
<1> QED BY <1>1, IndAlways, PTL

\* No client is thrown out for a null write (server.c:243).
THEOREM NeverNullWrite == Spec => []NoNullWrite
<1>1. Ind => NoNullWrite
  BY DEF Ind, Awake, NoNullWrite
<1> QED BY <1>1, IndAlways, PTL

\* The limit of server_writeto, which looks at one of two buffers, bounds both.
THEOREM BacklogIsBounded == Spec => []BacklogBounded
<1>1. Ind => BacklogBounded
  BY DEF Ind
<1> QED BY <1>1, IndAlways, PTL

\* Each step of the stream is a step of the mailbox or leaves it alone: packets are handled
\* one by one in the order they were taken.
THEOREM StreamIsMailbox == Spec => Box!MailboxInit /\ [][Box!MailboxNext]_(Box!mailboxVars)
<1>1. Init => Box!MailboxInit
  BY StreamAssumption DEF Init, Box!MailboxInit
<1>2. ASSUME Ind, Ind', [Next]_vars PROVE [Box!MailboxNext]_(Box!mailboxVars)
  <2> USE DEF Box!MailboxNext, Box!mailboxVars
  <2>1. CASE SendPacket
    <3>1. accepted' \in accepted + 1 .. MaxPackets \/ accepted' = accepted
      BY <1>2, <2>1, StreamAssumption DEF SendPacket, Append, Ind, Positions
    <3> QED BY <2>1, <3>1 DEF SendPacket, clientVars, Box!Post
  <2>2. CASE TurnIntoGuiClient
    <3>1. accepted' \in accepted + 1 .. MaxPackets
      BY <1>2, <2>2, StreamAssumption DEF TurnIntoGuiClient, Ind, Positions, Handshake
    <3> QED BY <2>2, <3>1 DEF TurnIntoGuiClient, clientVars, Box!Post
  <2>3. CASE Writable
    BY <1>2, <2>3 DEF Writable, clientVars, Ind, Awake
  <2>4. CASE Destroy
    <3>1. accepted' \in accepted .. MaxPackets
      BY <1>2, <2>4, StreamAssumption DEF Destroy, Ind, Positions, Awake
    <3> QED BY <2>4, <3>1 DEF Destroy, clientVars, Box!Close
  <2>5. CASE ParsePacket
    <3>1. handled < accepted
      BY <1>2, <2>5 DEF ParsePacket, Ind, Positions
    <3> QED BY <2>5, <3>1 DEF ParsePacket, serverVars, Box!Take
  <2>6. CASE Readable \/ EndOfFile \/ Fill \/ ParseMore
    BY <2>6 DEF Readable, EndOfFile, Fill, ParseMore, serverVars
  <2>7. CASE UNCHANGED vars
    BY <2>7 DEF vars, serverVars, clientVars
  <2> QED BY <1>2, <2>1, <2>2, <2>3, <2>4, <2>5, <2>6, <2>7 DEF Next, Parse
<1> QED BY <1>1, <1>2, IndAlways, PTL DEF Spec
================================================================================
