\* Enough packets to go over the limit after the start of the compression.
SPECIFICATION Spec
CHECK_DEADLOCK FALSE
CONSTANTS
  Limit = 8
  Hold = 3
  Window = 5
  MaxPackets = 14
INVARIANTS
  TypeOK
  Readability
  NoNullWrite
  BacklogBounded
PROPERTIES
  MailboxImplemented
