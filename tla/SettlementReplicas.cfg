CONSTANTS
  Subs = {s1, s2}
  Accounts = {u1}
  Owner <- OneAccount
  Product <- PortOnly
  Payments = {p1, p2}
  Addrs = {a1, a2}
  Inventory <- SharedInventory
  PortCapacity = 1
  Legacy = {s2}
  Workers = {w1, w2}
  None = None
  MaxOpen = 2
  MaxTime = 3
  Period = 2
  Window = 2
  Quarantine = 1
  ResTTL = 2
  InvoiceTTL = 2
  Safety = 1
  MinPayable = 1
SPECIFICATION Spec
SYMMETRY Symmetry
 
INVARIANT PaidWasSettled
PROPERTY OnePeriodPerPayment
PROPERTY ImplementsLedger
