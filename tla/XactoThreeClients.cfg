SPECIFICATION ConnectedSpec
CONSTANTS
    a = a
    b = b
    c1 = c1
    c2 = c2
    c3 = c3
    Clients <- ThreeClients
    Keys <- OneKey
    Access <- EveryKey
    Main = Main
    ListHead = ListHead
    Null = Null
    MaxOps = 1
    Quitters <- TwoClients
    Hangup = FALSE
    MAX_CLIENTS = 3
INVARIANTS
    CommitInvariant
    SemaphoreIsMutexWhilePending
PROPERTY NeverPendingAgain
