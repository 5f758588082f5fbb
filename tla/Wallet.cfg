CONSTANTS
  Workers = {w1, w2}
  None = None
  Methods = {"nwc", "clink"}
  MaxAttempts = 2
  RetryBase = 1
  LookupEvery = 1
  LeaseTime = 1
  InvoiceTime = 1
  MaxTime = 1
SPECIFICATION Spec
SYMMETRY Symmetry
 
INVARIANT PaidWasReceived
 
