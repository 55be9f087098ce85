CONSTANTS
    t1 = t1
    t2 = t2
    Absent = Absent
    Messages = {1, 2, 3}
    Threads = {t1, t2}
    ThreadOf <- TwoThreads
    Contents <- MailContents
    Cursors <- AdapterCursors
    NoCursor <- NowhereCursor
    NumMessages = 3
    InitialMail = 2
    MaxEvents = 3
    ListPage = 1
    HistoryPage = 2
    BatchSize = 2
    MaxBatches = 3
    MaxCutoff = 0
SPECIFICATION Spec
INVARIANT
    BatchesAreAccepted
