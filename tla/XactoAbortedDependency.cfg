SPECIFICATION Spec
CONSTANTS
    a = a
    b = b
    c1 = c1
    c2 = c2
    c3 = c3
    Clients <- TwoClients
    Keys <- OneKey
    Access <- EveryKey
    Main = Main
    ListHead = ListHead
    Null = Null
    MaxOps = 1
    Quitters <- TwoClients
    Hangup = FALSE
    MAX_CLIENTS = 3
INVARIANT AbortedDependencyAborts
