SPECIFICATION Spec
CONSTANTS
    PAGE_SZ = 96
    MaxPages = 3
    IntSize = 65536
    Requests <- SomeRequests
    Handles <- ThreeHandles
    NoHandle = NoHandle
    p = p
    q = q
    r = r
SYMMETRY HandleSymmetry
CONSTRAINT ListsUndamaged
INVARIANTS
    TypeOK
    BlocksTileHeap
    BoundaryTags
    FreeListsAreExact
    PayloadHoldsRequest
    OwnPointersAreAccepted
    GrowsOnlyWithoutFit
