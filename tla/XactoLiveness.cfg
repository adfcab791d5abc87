SPECIFICATION ArrivingFairSpec
CONSTANTS
    a = a
    b = b
    c1 = c1
    c2 = c2
    c3 = c3
    Clients <- TwoClients
    Keys <- OneKey
    Access <- EveryKey
    Main = Main
    ListHead = ListHead
    Null = Null
    MaxOps = 1
    Quitters <- First
    Hangup = TRUE
    MAX_CLIENTS = 3
PROPERTIES
    CommitAnswered
    ShutdownEnds
