SPECIFICATION FairSpec
CONSTANTS
  s1 = s1
  s2 = s2
  Senders <- TwoSenders
  Capacity = 2
  MaxSends = 3
INVARIANTS
  TypeOK
  NoPanic
PROPERTIES
  ImplementsMailbox
  SendReturns
  AcceptedIsWritten
  CloseCompletes
\* All senders, the pump and Close may be done.
CHECK_DEADLOCK FALSE
