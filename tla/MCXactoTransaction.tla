------------------------- MODULE MCXactoTransaction -------------------------
(* Values for the constants of XactoTransaction.                           *)
EXTENDS XactoTransaction, TLC

CONSTANTS a, b, c1, c2, c3

TwoClients == {c1, c2}
ThreeClients == {c1, c2, c3}
First == {c1}
Nobody == {}
OneKey == {a}
TwoKeys == {a, b}
EveryKey == [c \in Clients |-> Keys]
ClientSymmetry == Permutations(Clients)

\* The state reached when the clients have connected one after the other and
\* none has sent a request yet.  The first MAX_CLIENTS of them are registered.
Order == SubSeq(<<c1, c2, c3>>, 1, Cardinality(Clients))
PlaceOf(c) == CHOOSE i \in DOMAIN Order : Order[i] = c

Connected ==
    /\ tid = [c \in Clients |-> PlaceOf(c) - 1]
    /\ status = [c \in Clients |-> "PENDING"]
    /\ refcnt = [c \in Clients |-> 1]
    /\ waitcnt = [c \in Clients |-> 0]
    /\ sem = [c \in Clients |-> 1]
    /\ depends = [c \in Clients |-> <<>>]
    /\ nextId = Len(Order)
    /\ next = [n \in Nodes |-> IF n = ListHead THEN Order[1]
                               ELSE IF PlaceOf(n) = Len(Order) THEN ListHead
                               ELSE Order[PlaceOf(n) + 1]]
    /\ tail = Order[Len(Order)]
    /\ versions = [k \in Keys |-> <<>>]
    /\ mapLock = Null
    /\ conn = [c \in Clients |-> "up"]
    /\ registered = {c \in Clients : PlaceOf(c) <= MAX_CLIENTS}
    /\ exited = "running"
    /\ pc = [t \in Threads |-> IF t = Main THEN "accept" ELSE "recv"]
    /\ stack = [t \in Threads |-> <<>>]
    /\ idReg = [c \in Clients |-> 0]
    /\ walk = [c \in Clients |-> <<>>]
    /\ local = [c \in Clients |-> "PENDING"]
    /\ ops = [c \in Clients |-> 0]
    /\ key = [c \in Clients |-> Null]
    /\ pos = [c \in Clients |-> 1]
    /\ cursor = ListHead

ConnectedSpec == Connected /\ [][Next]_vars

\* The state reached when c1 has connected and main has accepted c2, whose
\* thread has not run yet: it may register before or after creg_shutdown_all.
Arriving ==
    /\ tid = [c \in Clients |-> 0]
    /\ status = [c \in Clients |-> "PENDING"]
    /\ refcnt = (c1 :> 1 @@ c2 :> 0)
    /\ waitcnt = [c \in Clients |-> 0]
    /\ sem = [c \in Clients |-> 1]
    /\ depends = [c \in Clients |-> <<>>]
    /\ nextId = 1
    /\ next = (ListHead :> c1 @@ c1 :> ListHead @@ c2 :> ListHead)
    /\ tail = c1
    /\ versions = [k \in Keys |-> <<>>]
    /\ mapLock = Null
    /\ conn = [c \in Clients |-> "up"]
    /\ registered = {c1}
    /\ exited = "running"
    /\ pc = (Main :> "accept" @@ c1 :> "recv" @@ c2 :> "register")
    /\ stack = [t \in Threads |-> <<>>]
    /\ idReg = [c \in Clients |-> 0]
    /\ walk = [c \in Clients |-> <<>>]
    /\ local = [c \in Clients |-> "PENDING"]
    /\ ops = [c \in Clients |-> 0]
    /\ key = [c \in Clients |-> Null]
    /\ pos = [c \in Clients |-> 1]
    /\ cursor = ListHead

ArrivingFairSpec == Arriving /\ [][Next]_vars /\ ThreadFairness

\* The state reached from Connected when c1 has accessed a, then c3 has
\* accessed a, c2 b and c3 b, so that c3 depends on c1 and on c2, c2 has sent a
\* packet of another type, and the handler of SIGHUP has shut down the
\* connections.  Requests sent before that are still read.
Entangled ==
    /\ tid = (c1 :> 0 @@ c2 :> 1 @@ c3 :> 2)
    /\ status = [c \in Clients |-> "PENDING"]
    /\ refcnt = [c \in Clients |-> 3]
    /\ waitcnt = [c \in Clients |-> 0]
    /\ sem = [c \in Clients |-> 1]
    /\ depends = (c1 :> <<>> @@ c2 :> <<>> @@ c3 :> <<c2, c1>>)
    /\ nextId = 3
    /\ next = (ListHead :> c1 @@ c1 :> c2 @@ c2 :> c3 @@ c3 :> ListHead)
    /\ tail = c3
    /\ versions = (a :> <<c1, c3>> @@ b :> <<c2, c3>>)
    /\ mapLock = Null
    /\ conn = [c \in Clients |-> "local"]
    /\ registered = Clients
    /\ exited = "running"
    /\ pc = [t \in Threads |-> IF t = Main THEN "empty" ELSE "recv"]
    /\ stack = [t \in Threads |-> <<>>]
    /\ idReg = [c \in Clients |-> 0]
    /\ walk = [c \in Clients |-> <<>>]
    /\ local = [c \in Clients |-> "PENDING"]
    /\ ops = (c1 :> 1 @@ c2 :> 2 @@ c3 :> 2)
    /\ key = [c \in Clients |-> Null]
    /\ pos = [c \in Clients |-> 1]
    /\ cursor = ListHead

EntangledFairSpec == Entangled /\ [][Next]_vars /\ ThreadFairness
=============================================================================
