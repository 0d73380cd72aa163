--------------------------------- MODULE Mailbox -------------------------------
(***************************************************************************)
(* What the code on both sides of a connection to a GUI client relies on:  *)
(* packets are taken one at a time in the order they were posted, none     *)
(* twice and none left out, and all of them while the connection is open.  *)
(* Packets are numbered in the order they are posted.                      *)
(***************************************************************************)
EXTENDS Naturals

CONSTANT Most       \* packets of one connection, a natural number

VARIABLES
  posted,   \* number of the last packet posted
  taken,    \* number of the last packet taken
  open      \* the sender still holds the connection

mailboxVars == <<posted, taken, open>>

MailboxTypeOK == posted \in 0 .. Most /\ taken \in 0 .. posted /\ open \in BOOLEAN

MailboxInit == posted \in 0 .. Most /\ taken = 0 /\ open = TRUE

\* One packet or several in a row.
Post ==
  /\ open
  /\ posted' \in posted + 1 .. Most
  /\ UNCHANGED <<taken, open>>

Take ==
  /\ taken < posted
  /\ taken' = taken + 1
  /\ UNCHANGED <<posted, open>>

\* The sender gives up, perhaps with a last packet; what is under way may be lost.
Close ==
  /\ open
  /\ open' = FALSE
  /\ posted' \in posted .. Most
  /\ UNCHANGED taken

MailboxNext == Post \/ Take \/ Close

\* What was posted is taken, unless the connection is closed.
MailboxSpec ==
  /\ MailboxInit /\ [][MailboxNext]_mailboxVars
  /\ WF_mailboxVars(open /\ Take)
================================================================================
