SPECIFICATION FairSpec
CONSTANTS
  Patterns = {p, q}
  Round = 2
  RekeyMax = 10
  CaseSensitive = FALSE
  Others = TRUE
  Faults = TRUE
INVARIANTS MailboxKept BuffersQuiet ResultRight
PROPERTY HaltEnds
