SPECIFICATION FairSpec
CONSTANTS
    a1 = a1
    a2 = a2
    NoAccount = NoAccount
    Accounts <- TwoAccounts
    Existing <- FirstAccount
    MaxSessions = 2
    MaxTries = 2
    MaxEvents = 1
INVARIANTS
    TypeOK
    NothingIsLeftOpen
    OneSidedIsExplained
PROPERTIES
    WholeAccountsStayWhole
    FlowsEnd
CHECK_DEADLOCK FALSE
