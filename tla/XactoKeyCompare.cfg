SPECIFICATION Spec
CONSTANTS
    Clients = {1, 2}
    KeyContents <- Cancelling
    Access <- AnyOnce
    Values = {v}
    Null = Null
    NUM_BUCKETS = 8
    IntSize = 65536
INVARIANT
    KeyFindsItsEntry
