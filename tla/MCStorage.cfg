SPECIFICATION FairSpec
CONSTANTS
    home = home work = work
    ann = ann bob = bob
    m1 = m1 m2 = m2 m3 = m3
    t1 = t1 t2 = t2 b1 = b1 b2 = b2
    SampleAccounts = {home, work}
    People = {ann, bob}
    Messages <- SampleMessages
    Topics <- SampleTopics
    BriefItems <- SampleBriefItems
    ProviderMail <- Received
    Window = 1
    MaxTime = 3
    MaxFaults = 3
INVARIANTS
    ResidueIsOwed
    SampleMailIsGone
    RestsAreLargest
PROPERTIES
    ExpiredMailLeaves
CHECK_DEADLOCK FALSE
