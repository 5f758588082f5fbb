CONSTANTS
  Window = 2
  FrameLimit = 2
  MaxFrame = 2
  Budget <- OneWay
SPECIFICATION Spec
INVARIANT ReceiverNeverOverrun
INVARIANT CreditNeverInflated
INVARIANT CreditConserved
INVARIANT OrderlyEof
CHECK_DEADLOCK FALSE
