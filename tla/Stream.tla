---------------------------------- MODULE Stream -------------------------------
(***************************************************************************)
(* The byte stream from the server to one GUI client: the output buffer    *)
(* and the compressor of server.c, the socket, and the input buffer, the   *)
(* decompressor and the packet buffer of client.c.                         *)
(*                                                                         *)
(* A packet has two units, a header and a body; packet p has the units     *)
(* 2p - 1 and 2p of the stream.  The buffers hold the units between two    *)
(* numbers: deflate (flushed, 2 * accepted], out_buf (sent, flushed], the  *)
(* socket (in_end, sent], in_buf (buf_end, in_end] and packet_buf          *)
(* (2 * handled, buf_end].  Wherever bytes would leave their order, as     *)
(* when a rest is put back behind others, the stream is garbled.           *)
(***************************************************************************)
EXTENDS Integers

CONSTANTS
  Limit,       \* backlog over which server_writeto drops a packet
  Hold,        \* units that deflate may keep back until it is flushed
  Window,      \* units the socket takes before the client reads
  MaxPackets   \* bound: packets of the connection

\* The first three packets of every connection.
WELCOME == 1
HANDSHAKE == 2
START == 3

\* A limit of a megabyte does not drop the packets of the greeting.
ASSUME StreamAssumption ==
  /\ Limit \in Nat /\ Limit >= 2 * START
  /\ Hold \in Nat
  /\ Window \in Nat \ {0}
  /\ MaxPackets \in Nat /\ MaxPackets > START

VARIABLES
  accepted,     \* packets that server_writeto took
  flushed,      \* last unit that is in out_buf or left it
  sent,         \* last unit written to the socket
  wr_event,     \* server_writable waits for the socket
  compress,     \* of the server
  server,       \* "open", "failed" or "closed"
  quit,         \* number of the packet that says good bye, or 0
  request,      \* the line "guiclient": not yet written, under way, read
  in_end,       \* last unit read from the socket
  buf_end,      \* last unit moved to packet_buf
  raw_end,      \* last unit moved there as it came, not through inflate
  handled,      \* packets handled
  compression,  \* of the client
  client        \* what client_parse_in_buf does: "wait", "fill", "parse", or "gone", "garbled"

serverVars == <<accepted, flushed, sent, wr_event, compress, server, quit>>
clientVars == <<in_end, buf_end, raw_end, handled, compression, client>>
vars == <<serverVars, request, clientVars>>

TypeOK ==
  /\ accepted \in 1 .. MaxPackets
  /\ handled \in 0 .. accepted
  /\ 2 * handled <= buf_end /\ buf_end <= in_end /\ in_end <= sent
  /\ sent <= flushed /\ flushed <= 2 * accepted
  /\ flushed \in Nat /\ sent \in Nat /\ in_end \in Nat /\ buf_end \in Nat
  /\ raw_end \in 0 .. buf_end
  /\ wr_event \in BOOLEAN /\ compress \in BOOLEAN /\ compression \in BOOLEAN
  /\ server \in {"open", "failed", "closed"}
  /\ quit \in 0 .. MaxPackets
  /\ request \in {"none", "asked", "served"}
  /\ client \in {"wait", "fill", "parse", "gone", "garbled"}

Smaller(a, b) == IF a < b THEN a ELSE b

\* Units up to this one were written as they are.
LastPlainWithoutStart == IF compress THEN 2 * HANDSHAKE ELSE 2 * accepted
LastPlain == IF compress THEN 2 * START ELSE 2 * accepted

-----------------------------------------------------------------------------
(* Server *)

\* server_writeto looks at out_buf only.
HeldBack == 2 * accepted - flushed
Backlog == flushed - sent
Drops == Backlog > Limit

\* deflate keeps back what it likes, but not more than it has room for.
Emitted(n) == {u \in flushed .. 2 * n : compress => u >= 2 * n - Hold}
Append(n) ==
  /\ accepted' = n
  /\ flushed' \in (IF compress THEN Emitted(n) ELSE {2 * n})

\* server_send_packet to a client with too much backlog is lost on it.
SendPacket ==
  /\ server = "open" /\ request = "served"
  /\ accepted < MaxPackets - 1
  /\ IF Drops THEN UNCHANGED <<accepted, flushed, wr_event>>
     ELSE Append(accepted + 1) /\ wr_event' = TRUE
  /\ UNCHANGED <<sent, compress, server, quit, request, clientVars>>

\* server_readable hands the line to Client:handler, which makes a GUI client of it:
\* the version, the start of the compression, and from there on deflate.
TurnIntoGuiClient ==
  /\ server = "open" /\ request = "asked"
  /\ request' = "served"
  /\ accepted' = START /\ flushed' = 2 * START
  /\ compress' = TRUE /\ wr_event' = TRUE
  /\ UNCHANGED <<sent, server, quit, clientVars>>

\* server_flush_compression.
NotFlushed == flushed
Flushed == 2 * accepted

WritesAll(limit) == sent + 1 .. in_end + Window
Writes(limit) == sent + 1 .. Smaller(limit, in_end + Window)

MoreAnyway(limit, now) == TRUE
MoreToWrite(limit, now) == limit > now

\* server_writable: flush, write what the socket takes, wait again for the rest.
Writable ==
  /\ server = "open" /\ wr_event
  /\ sent < in_end + Window
  /\ flushed' = Flushed
  /\ IF Flushed = sent
       THEN server' = "failed" /\ wr_event' = FALSE /\ UNCHANGED sent
       ELSE /\ sent' \in Writes(Flushed)
            /\ wr_event' = MoreToWrite(Flushed, sent')
            /\ UNCHANGED server
  /\ UNCHANGED <<accepted, compress, quit, request, clientVars>>

\* server_destroy: good bye, flush, one write, close.
Destroy ==
  /\ server = "open" /\ request = "served"
  /\ server' = "closed" /\ wr_event' = FALSE
  /\ IF Drops THEN UNCHANGED <<accepted, quit>>
     ELSE accepted' = accepted + 1 /\ quit' = accepted + 1
  /\ flushed' = 2 * accepted'
  /\ sent' \in {sent} \cup (sent + 1 .. Smaller(flushed', in_end + Window))
  /\ UNCHANGED <<compress, request, clientVars>>

-----------------------------------------------------------------------------
(* Client *)

\* client_readable: a read of some bytes, or the end.
Readable ==
  /\ client = "wait" /\ in_end < sent
  /\ in_end' \in in_end + 1 .. sent
  /\ client' = "fill"
  /\ UNCHANGED <<serverVars, request, buf_end, raw_end, handled, compression>>

EndOfFile ==
  /\ client = "wait" /\ in_end = sent /\ server # "open"
  /\ client' = "gone"
  /\ UNCHANGED <<serverVars, request, in_end, buf_end, raw_end, handled, compression>>

\* client_parse_in_buf, first half: in_buf goes to packet_buf, through inflate if the
\* client compresses.  inflate fails on units that were not compressed.
Inflatable == in_end = buf_end \/ buf_end >= LastPlain

Fill ==
  /\ client = "fill"
  /\ IF compression /\ ~Inflatable
       THEN client' = "garbled" /\ UNCHANGED <<buf_end, raw_end>>
       ELSE /\ client' = "parse" /\ buf_end' = in_end
            /\ raw_end' = IF compression THEN raw_end ELSE in_end
  /\ UNCHANGED <<serverVars, request, in_end, handled, compression>>

\* The next header is one of compressed units that did not go through inflate.
Garbled == raw_end > 2 * handled /\ 2 * handled >= LastPlain

RestKept(p) == buf_end
RestPutBack(p) == 2 * p

\* Second half: one packet of packet_buf after the other; a start of the compression puts
\* the rest back behind what is in in_buf and starts again.
ParsePacket ==
  /\ client = "parse" /\ 2 * handled + 2 <= buf_end /\ ~Garbled
  /\ handled' = handled + 1
  /\ request' = IF handled' = WELCOME THEN "asked" ELSE request
  /\ IF handled' = START
       THEN /\ compression' = TRUE
            /\ buf_end' = RestPutBack(START)
            /\ raw_end' = Smaller(raw_end, buf_end')
            /\ client' = IF buf_end < in_end THEN "garbled" ELSE "fill"
       ELSE /\ client' = IF handled' = quit THEN "gone" ELSE "parse"
            /\ UNCHANGED <<compression, buf_end, raw_end>>
  /\ UNCHANGED <<serverVars, in_end>>

\* What is left is no packet yet, or none that makes sense.
ParseMore ==
  /\ client = "parse" /\ (2 * handled + 2 > buf_end \/ Garbled)
  /\ client' = IF Garbled THEN "garbled" ELSE "wait"
  /\ UNCHANGED <<serverVars, request, in_end, buf_end, raw_end, handled, compression>>

-----------------------------------------------------------------------------
\* server_accept wrote the welcome.
Init ==
  /\ accepted = WELCOME /\ flushed = 2 * WELCOME /\ sent = 0 /\ wr_event = TRUE
  /\ compress = FALSE /\ server = "open" /\ quit = 0
  /\ request = "none"
  /\ in_end = 0 /\ buf_end = 0 /\ raw_end = 0 /\ handled = 0
  /\ compression = FALSE /\ client = "wait"

Parse == ParsePacket \/ ParseMore

Next ==
  \/ SendPacket \/ TurnIntoGuiClient \/ Writable \/ Destroy
  \/ Readable \/ EndOfFile \/ Fill \/ Parse

\* Both event loops run, the network delivers, and the client reads what there is.
Fairness ==
  /\ WF_vars(Writable) /\ WF_vars(TurnIntoGuiClient)
  /\ WF_vars(Readable) /\ WF_vars(Fill) /\ WF_vars(Parse)

Spec == Init /\ [][Next]_vars /\ Fairness

-----------------------------------------------------------------------------
(* Properties *)

\* However reads and writes cut the stream, no compressed byte is ever parsed as a packet
\* and no plain one inflated: the start of the compression is announced within the
\* stream it changes, and what was read with it is put back (client.c:227).
Readability == client # "garbled"

\* The server never wakes up to write nothing, which it would take for an error and
\* throw the client out (server.c:243).
NoNullWrite == server # "failed"

\* What a client that does not read can make the server keep, compressor included.
BacklogBounded == 2 * accepted - sent <= Limit + 2 + Hold

\* Packets arrive one by one in order, none is left out but those dropped before they
\* entered the stream, and all arrive while the connection is open.
Box == INSTANCE Mailbox WITH Most <- MaxPackets, posted <- accepted, taken <- handled,
                             open <- server = "open"
MailboxImplemented == Box!MailboxSpec
================================================================================
