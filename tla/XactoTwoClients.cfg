SPECIFICATION Spec
CONSTANTS
    a = a
    b = b
    c1 = c1
    c2 = c2
    c3 = c3
    Clients <- TwoClients
    Keys <- OneKey
    Access <- EveryKey
    Main = Main
    ListHead = ListHead
    Null = Null
    MaxOps = 2
    Quitters <- Nobody
    Hangup = TRUE
    MAX_CLIENTS = 1
SYMMETRY ClientSymmetry
INVARIANTS
    TypeOK
    CommittedAfterDependencies
    DependenciesPointToOlder
    ReferencesCoverVersions
PROPERTY ImplementsContract
