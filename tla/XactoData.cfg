SPECIFICATION AfterFirstSpec
CONSTANTS
    Clients = {1, 2, 3}
    KeyContents <- Distinct
    Access <- OneBeforeTwo
    Values = {v}
    Null = Null
    NUM_BUCKETS = 8
    IntSize = 65536
INVARIANTS
    ReferencesAreExact
    MutexesAreUnderMapLock
    ReplyIsAlive
    OneEntryPerKey
    GetReturnsValueOfKey
