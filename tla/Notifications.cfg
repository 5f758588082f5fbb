SPECIFICATION MCSpec
CONSTANTS
    Users = {1, 2}
    Owner = 1
    w1 = w1
    w2 = w2
    Workers = {w1, w2}
    None = None
    QuitRefused = FALSE
    MaxPeriod = 2
    MaxGen = 2
    MaxAttempts = 2
    MaxFaults = 1
    MaxEvents = 3
CHECK_DEADLOCK FALSE
 
 
INVARIANT CompletedAccountsForAll
PROPERTY MailGoesToCurrentAddress
PROPERTY NoWarningAfterConfirmation
PROPERTY OutboxDrains
