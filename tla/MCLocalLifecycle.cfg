CONSTANTS
    a1 = a1
    sample = sample
    d1 = d1
    x1 = x1
    NoOp = NoOp
    Accounts = {a1, sample}
    SampleAccounts = {sample}
    DisconnectOps = {d1}
    DeletionOps = {x1}
    AccountOf <- OneDisconnect
SPECIFICATION LiveSpec
INVARIANTS
    JournalNeverAhead
    KeyErasedLastAndForGood
    PendingDeletionKeepsReceipt
PROPERTIES
    ImplementsContract
    DeletionEventuallyCompletes
