--------------------------- MODULE XactoTransaction ---------------------------
(***************************************************************************)
(* The transaction manager of the Xacto server (transaction.c), driven by  *)
(* the service threads (server.c), the object store linked from xacto.a    *)
(* and the SIGHUP handler (main.c).                                        *)
(*                                                                         *)
(* One service thread runs per client and owns exactly one transaction, so *)
(* a client also names its thread and its TRANSACTION object.  Thread Main *)
(* runs main() and terminate().  A step is one access to shared state: a   *)
(* mutex-protected read or update, a P, an unprotected read or write, or a *)
(* block that ends in V and touches nothing another thread can observe     *)
(* before that V.  A local that has gone out of scope gets its initial     *)
(* value back.                                                             *)
(***************************************************************************)
EXTENDS Integers, Sequences, FiniteSets, Functions

CONSTANTS
    Clients,    \* service threads, each with the transaction it creates
    Main,       \* the thread that runs main() and the SIGHUP handler
    ListHead,   \* the sentinel trans_list
    Null,       \* no client (an unlocked mutex), no key
    Keys,       \* the keys requests may name
    Access,     \* Access[c]: the keys client c names in its requests
    MaxOps,     \* bound on the requests other than COMMIT of one client
    Quitters,   \* the clients that may hang up before they commit
    Hangup,     \* whether the operator sends SIGHUP
    MAX_CLIENTS \* the size of the registry's table

ASSUME ClientsAssumption ==
    /\ Main \notin Clients
    /\ ListHead \notin Clients
    /\ Null \notin Clients \cup Keys

ASSUME RequestsAssumption ==
    /\ Access \in [Clients -> SUBSET Keys]
    /\ MaxOps \in Nat
    /\ Quitters \subseteq Clients
    /\ Hangup \in BOOLEAN
    /\ MAX_CLIENTS \in Nat

Threads == Clients \cup {Main}
Nodes == Clients \cup {ListHead}

VARIABLES
    \* fields of the TRANSACTION objects
    tid, status, refcnt, waitcnt, sem, depends,
    \* the static counter of trans_create and the list of all transactions
    nextId, next, tail,
    \* the object store: creators of the versions of each key, and its lock
    versions, mapLock,
    \* connections, the set of registered clients, how the process ended
    conn, registered, exited,
    \* control and locals of the threads
    pc, stack, idReg, walk, local, ops, key, pos, cursor

transVars == <<tid, status, refcnt, waitcnt, sem, depends>>
listVars == <<nextId, next, tail>>
storeVars == <<versions, mapLock>>
serverVars == <<conn, registered, exited>>
localVars == <<idReg, walk, local, ops, key, pos, cursor>>
vars == <<transVars, listVars, storeVars, serverVars, pc, stack, localVars>>

Status == {"PENDING", "COMMITTED", "ABORTED"}
Conns == {"none", "up", "peer", "local"}
Exits == {"running", "FATAL", "SIGPIPE", "SUCCESS", "UNDEFINED"}

CreateLabels == {"link", "linkTail", "loadId", "storeId"}
StoreLabels == {"lock", "examine", "depend", "doomed", "dispose", "place", "unlock", "result"}
CommitLabels == {"commit", "check", "recheck", "enlist", "wait", "waitP", "waitV",
                 "outcome", "decide", "finish", "return"}
ServiceLabels == {"start", "register", "create", "recv", "reply", "unregister", "hungUp", "done"}
MainLabels == {"accept", "empty", "emptyHeld", "fini", "finiNext", "finiStore"}
Labels == CreateLabels \cup StoreLabels \cup CommitLabels \cup ServiceLabels \cup MainLabels

\* One activation of trans_abort: its argument, the line it has reached and
\* the part of the dependency list it still has to visit.
Frame == [tp : Clients, at : {"fatal", "pending", "acquire", "loop"}, rest : Seq(Clients)]

Init ==
    /\ tid = [c \in Clients |-> 0]
    /\ status = [c \in Clients |-> "PENDING"]
    /\ refcnt = [c \in Clients |-> 0]
    /\ waitcnt = [c \in Clients |-> 0]
    /\ sem = [c \in Clients |-> 1]
    /\ depends = [c \in Clients |-> <<>>]
    /\ nextId = 0
    /\ next = [n \in Nodes |-> ListHead]
    /\ tail = ListHead
    /\ versions = [k \in Keys |-> <<>>]
    /\ mapLock = Null
    /\ conn = [c \in Clients |-> "none"]
    /\ registered = {}
    /\ exited = "running"
    /\ pc = [t \in Threads |-> IF t = Main THEN "accept" ELSE "start"]
    /\ stack = [t \in Threads |-> <<>>]
    /\ idReg = [c \in Clients |-> 0]
    /\ walk = [c \in Clients |-> <<>>]
    /\ local = [c \in Clients |-> "PENDING"]
    /\ ops = [c \in Clients |-> 0]
    /\ key = [c \in Clients |-> Null]
    /\ pos = [c \in Clients |-> 1]
    /\ cursor = ListHead

-------------------------------------------------------------------------------
\* Thread t, not inside trans_abort, has reached label l of a running process.
At(t, l) == exited = "running" /\ stack[t] = <<>> /\ pc[t] = l

Goto(t, l) == pc' = [pc EXCEPT ![t] = l]

\* Call trans_abort(tp) and continue at l when it returns.
CallAbort(t, tp, l) ==
    /\ stack' = [stack EXCEPT ![t] = <<[tp |-> tp, at |-> "fatal", rest |-> <<>>]>>]
    /\ Goto(t, l)

-------------------------------------------------------------------------------
(* main(), xacto_client_service() up to its loop, and the connections.     *)

\* main accepts a connection and starts a service thread for it.
Accept(c) ==
    /\ exited = "running" /\ pc[Main] = "accept"
    /\ pc[c] = "start"
    /\ conn' = [conn EXCEPT ![c] = "up"]
    /\ Goto(c, "register")
    /\ UNCHANGED <<transVars, listVars, storeVars, registered, exited, stack, localVars>>

\* A connection that finds the table full is served without being in it.
creg_register(c) ==
    registered' = IF Cardinality(registered) < MAX_CLIENTS THEN registered \cup {c} ELSE registered

creg_unregister(c) == registered' = registered \ {c}

\* P(&cr->sem) is possible: main is not between the P and the V of its wait.
RegistryFree == pc[Main] # "emptyHeld"

\* Main has called creg_fini.
RegistryFreed == pc[Main] \in {"fini", "finiNext", "finiStore"}

Register(c) ==
    /\ At(c, "register")
    /\ RegistryFree
    /\ creg_register(c)
    /\ Goto(c, "create")
    /\ UNCHANGED <<transVars, listVars, storeVars, conn, exited, stack, localVars>>

\* P(&cr->sem), the table and V(&cr->sem) in freed memory.  As long as nobody
\* has written to the block they work as before (Register, Unregister,
\* UnregisterHungUp), or the P blocks for ever (see ThreadStep), or the
\* process dies.
UseFreedRegistry(c) ==
    /\ \E l \in {"register", "unregister", "hungUp"} : At(c, l)
    /\ RegistryFreed
    /\ exited' = "UNDEFINED"
    /\ UNCHANGED <<transVars, listVars, storeVars, conn, registered, pc, stack, localVars>>

\* A transaction is not freed when its last reference goes.
trans_ref(tp) == refcnt' = [refcnt EXCEPT ![tp] = @ + 1]

trans_unref(tp) == refcnt' = [refcnt EXCEPT ![tp] = @ - 1]

\* trans_create up to the first write to the list: the id is read from the
\* static counter here and the counter is only incremented by StoreId.
Create(c) ==
    /\ At(c, "create")
    /\ tid' = [tid EXCEPT ![c] = nextId]
    /\ status' = [status EXCEPT ![c] = "PENDING"]
    /\ refcnt' = [refcnt EXCEPT ![c] = 0]
    /\ depends' = [depends EXCEPT ![c] = <<>>]
    /\ waitcnt' = [waitcnt EXCEPT ![c] = 0]
    /\ sem' = [sem EXCEPT ![c] = 1]
    /\ next' = [next EXCEPT ![c] = ListHead]
    /\ Goto(c, "link")
    /\ UNCHANGED <<nextId, tail, storeVars, serverVars, stack, localVars>>

\* add_trans_list, without a lock: first the successor of the old tail ...
Link(c) ==
    /\ At(c, "link")
    /\ next' = [next EXCEPT ![tail] = c]
    /\ Goto(c, "linkTail")
    /\ UNCHANGED <<transVars, nextId, tail, storeVars, serverVars, stack, localVars>>

\* ... then the tail.  The creator's reference follows.
LinkTail(c) ==
    /\ At(c, "linkTail")
    /\ tail' = c
    /\ trans_ref(c)
    /\ Goto(c, "loadId")
    /\ UNCHANGED <<tid, status, waitcnt, sem, depends, nextId, next, storeVars, serverVars,
                   stack, localVars>>

\* id++ is a load ...
LoadId(c) ==
    /\ At(c, "loadId")
    /\ idReg' = [idReg EXCEPT ![c] = nextId]
    /\ Goto(c, "storeId")
    /\ UNCHANGED <<transVars, listVars, storeVars, serverVars, stack,
                   walk, local, ops, key, pos, cursor>>

\* ... and a store.
StoreId(c) ==
    /\ At(c, "storeId")
    /\ nextId' = idReg[c] + 1
    /\ idReg' = [idReg EXCEPT ![c] = 0]
    /\ Goto(c, "recv")
    /\ UNCHANGED <<transVars, next, tail, storeVars, serverVars, stack,
                   walk, local, ops, key, pos, cursor>>

\* The client closes its connection.
HangUp(c) ==
    /\ exited = "running"
    /\ c \in Quitters
    /\ conn[c] = "up"
    /\ conn' = [conn EXCEPT ![c] = "peer"]
    /\ UNCHANGED <<transVars, listVars, storeVars, registered, exited, pc, stack, localVars>>

-------------------------------------------------------------------------------
(* The request loop of xacto_client_service().                             *)

\* A GET or PUT packet and its key and value packets arrive.
RecvRequest(c) ==
    /\ At(c, "recv")
    /\ ops[c] < MaxOps
    /\ \E k \in Access[c] : key' = [key EXCEPT ![c] = k]
    /\ ops' = [ops EXCEPT ![c] = @ + 1]
    /\ Goto(c, "lock")
    /\ UNCHANGED <<transVars, listVars, storeVars, serverVars, stack,
                   idReg, walk, local, pos, cursor>>

\* A GET or PUT packet arrives but the connection goes down before its key
\* or value packet: xacto_get and xacto_put report TRANS_ABORTED.
RecvPartialRequest(c) ==
    /\ At(c, "recv")
    /\ ops[c] < MaxOps
    /\ conn[c] \in {"peer", "local"}
    /\ ops' = [ops EXCEPT ![c] = @ + 1]
    /\ local' = [local EXCEPT ![c] = "ABORTED"]
    /\ Goto(c, "reply")
    /\ UNCHANGED <<transVars, listVars, storeVars, serverVars, stack,
                   idReg, walk, key, pos, cursor>>

\* A packet of any other type, or a read error that proto_recv_packet takes
\* for a packet: nothing is dispatched, the current status is the reply.
RecvOther(c) ==
    /\ At(c, "recv")
    /\ ops[c] < MaxOps
    /\ ops' = [ops EXCEPT ![c] = @ + 1]
    /\ Goto(c, "reply")
    /\ UNCHANGED <<transVars, listVars, storeVars, serverVars, stack,
                   idReg, walk, local, key, pos, cursor>>

RecvCommit(c) ==
    /\ At(c, "recv")
    /\ Goto(c, "commit")
    /\ UNCHANGED <<transVars, listVars, storeVars, serverVars, stack, localVars>>

\* End of file on the connection: abort, then unregister.
RecvFails(c) ==
    /\ At(c, "recv")
    /\ conn[c] \in {"peer", "local"}
    /\ CallAbort(c, c, "hungUp")
    /\ UNCHANGED <<transVars, listVars, storeVars, serverVars, localVars>>

\* xacto_reply.  The process does not handle SIGPIPE, so a write to a socket
\* it has shut down kills it; a write to a socket closed by the peer may.
\* After a COMMIT or an ABORTED status the thread leaves its loop.
Reply(c) ==
    /\ At(c, "reply")
    /\ \/ /\ conn[c] # "local"
          /\ Goto(c, IF local[c] = "PENDING" THEN "recv" ELSE "unregister")
          /\ UNCHANGED exited
       \/ /\ conn[c] # "up"
          /\ exited' = "SIGPIPE"
          /\ UNCHANGED pc
    /\ UNCHANGED <<transVars, listVars, storeVars, conn, registered, stack, localVars>>

\* Mutant: the thread returns without creg_unregister.
UnregisterForgotten(c) ==
    /\ At(c, "unregister")
    /\ Goto(c, "done")
    /\ UNCHANGED <<transVars, listVars, storeVars, serverVars, stack, localVars>>

\* Unregister, and only then abort a transaction whose status is ABORTED.
Unregister(c) ==
    /\ At(c, "unregister")
    /\ RegistryFree
    /\ creg_unregister(c)
    /\ IF local[c] = "ABORTED"
       THEN CallAbort(c, c, "done")
       ELSE Goto(c, "done") /\ UNCHANGED stack
    /\ UNCHANGED <<transVars, listVars, storeVars, conn, exited, localVars>>

UnregisterHungUp(c) ==
    /\ At(c, "hungUp")
    /\ RegistryFree
    /\ creg_unregister(c)
    /\ Goto(c, "done")
    /\ UNCHANGED <<transVars, listVars, storeVars, conn, exited, stack, localVars>>

-------------------------------------------------------------------------------
(* store_get() and store_put(), which hold the_map.mutex throughout.       *)

\* Mutant: the store enters without waiting for the_map.mutex.
LockMapUnguarded(c) ==
    /\ At(c, "lock")
    /\ mapLock' = c
    /\ Goto(c, "examine")
    /\ UNCHANGED <<transVars, listVars, versions, serverVars, stack, localVars>>

LockMap(c) ==
    /\ At(c, "lock")
    /\ mapLock = Null
    /\ mapLock' = c
    /\ Goto(c, "examine")
    /\ UNCHANGED <<transVars, listVars, versions, serverVars, stack, localVars>>

\* Garbage collection examines the next version of the key.
\* An aborted creator dooms its version and all later ones.
ExamineAborted(c) ==
    LET vs == versions[key[c]] IN
    /\ At(c, "examine")
    /\ pos[c] <= Len(vs)
    /\ status[vs[pos[c]]] = "ABORTED"
    /\ walk' = [walk EXCEPT ![c] = SubSeq(vs, pos[c], Len(vs))]
    /\ versions' = [versions EXCEPT ![key[c]] = SubSeq(vs, 1, pos[c] - 1)]
    /\ Goto(c, "doomed")
    /\ UNCHANGED <<transVars, listVars, mapLock, serverVars, stack,
                   idReg, local, ops, key, pos, cursor>>

\* A committed version supersedes a committed one in front of it.
ExamineCommitted(c) ==
    LET vs == versions[key[c]]
        p == pos[c]
    IN
    /\ At(c, "examine")
    /\ p <= Len(vs)
    /\ status[vs[p]] = "COMMITTED"
    /\ IF p > 1 /\ status[vs[p - 1]] = "COMMITTED"
       THEN /\ trans_unref(vs[p - 1])
            /\ versions' = [versions EXCEPT ![key[c]] = SubSeq(vs, p, Len(vs))]
            /\ pos' = [pos EXCEPT ![c] = 2]
       ELSE /\ pos' = [pos EXCEPT ![c] = @ + 1]
            /\ UNCHANGED <<refcnt, versions>>
    /\ UNCHANGED <<tid, status, waitcnt, sem, depends, listVars, mapLock, serverVars, pc, stack,
                   idReg, walk, local, ops, key, cursor>>

\* Mutant: <= for <.
ExaminePendingNotNewer(c) ==
    LET vs == versions[key[c]] IN
    /\ At(c, "examine")
    /\ pos[c] <= Len(vs)
    /\ status[vs[pos[c]]] = "PENDING"
    /\ IF tid[vs[pos[c]]] <= tid[c]
       THEN Goto(c, "depend") /\ UNCHANGED pos
       ELSE pos' = [pos EXCEPT ![c] = @ + 1] /\ UNCHANGED pc
    /\ UNCHANGED <<transVars, listVars, storeVars, serverVars, stack,
                   idReg, walk, local, ops, key, cursor>>

\* A pending version of an older transaction becomes a dependency.
ExaminePending(c) ==
    LET vs == versions[key[c]] IN
    /\ At(c, "examine")
    /\ pos[c] <= Len(vs)
    /\ status[vs[pos[c]]] = "PENDING"
    /\ IF tid[vs[pos[c]]] < tid[c]
       THEN Goto(c, "depend") /\ UNCHANGED pos
       ELSE pos' = [pos EXCEPT ![c] = @ + 1] /\ UNCHANGED pc
    /\ UNCHANGED <<transVars, listVars, storeVars, serverVars, stack,
                   idReg, walk, local, ops, key, cursor>>

\* trans_add_dependency(c, dtp): P, prepend, reference dtp, V.
AddDependency(c) ==
    LET dtp == versions[key[c]][pos[c]] IN
    /\ At(c, "depend")
    /\ sem[c] > 0
    /\ depends' = [depends EXCEPT ![c] = <<dtp>> \o @]
    /\ trans_ref(dtp)
    /\ pos' = [pos EXCEPT ![c] = @ + 1]
    /\ Goto(c, "examine")
    /\ UNCHANGED <<tid, status, waitcnt, sem, listVars, storeVars, serverVars, stack,
                   idReg, walk, local, ops, key, cursor>>

ExamineEnd(c) ==
    /\ At(c, "examine")
    /\ pos[c] > Len(versions[key[c]])
    /\ Goto(c, "place")
    /\ UNCHANGED <<transVars, listVars, storeVars, serverVars, stack, localVars>>

\* Each doomed version: reference its creator, abort it, dispose of the
\* version (which drops the version's own reference).
AbortDoomed(c) ==
    /\ At(c, "doomed")
    /\ walk[c] # <<>>
    /\ trans_ref(Head(walk[c]))
    /\ CallAbort(c, Head(walk[c]), "dispose")
    /\ UNCHANGED <<tid, status, waitcnt, sem, depends, listVars, storeVars, serverVars, localVars>>

DisposeDoomed(c) ==
    /\ At(c, "dispose")
    /\ trans_unref(Head(walk[c]))
    /\ walk' = [walk EXCEPT ![c] = Tail(@)]
    /\ Goto(c, "doomed")
    /\ UNCHANGED <<tid, status, waitcnt, sem, depends, listVars, storeVars, serverVars, stack,
                   idReg, local, ops, key, pos, cursor>>

DoomedEnd(c) ==
    /\ At(c, "doomed")
    /\ walk[c] = <<>>
    /\ Goto(c, "place")
    /\ UNCHANGED <<transVars, listVars, storeVars, serverVars, stack, localVars>>

\* The last version is the work of a transaction newer than c.
Outdated(c) ==
    LET vs == versions[key[c]] IN vs # <<>> /\ tid[c] < tid[vs[Len(vs)]]

\* The performing transaction of an outdated request is aborted.
PlaceConflict(c) ==
    /\ At(c, "place")
    /\ Outdated(c)
    /\ trans_ref(c)
    /\ CallAbort(c, c, "unlock")
    /\ UNCHANGED <<tid, status, waitcnt, sem, depends, listVars, storeVars, serverVars, localVars>>

\* Mutant: version_create takes no reference to its creator.
PlaceVersionUnreferenced(c) ==
    LET vs == versions[key[c]] IN
    /\ At(c, "place")
    /\ ~Outdated(c)
    /\ versions' = IF vs # <<>> /\ vs[Len(vs)] = c THEN versions
                   ELSE [versions EXCEPT ![key[c]] = Append(@, c)]
    /\ Goto(c, "unlock")
    /\ UNCHANGED <<transVars, listVars, mapLock, serverVars, stack, localVars>>

\* Otherwise the new version replaces the last one if c created that, and is
\* appended if not.
PlaceVersion(c) ==
    LET vs == versions[key[c]] IN
    /\ At(c, "place")
    /\ ~Outdated(c)
    /\ IF vs # <<>> /\ vs[Len(vs)] = c
       THEN UNCHANGED <<refcnt, versions>>
       ELSE /\ trans_ref(c)
            /\ versions' = [versions EXCEPT ![key[c]] = Append(@, c)]
    /\ Goto(c, "unlock")
    /\ UNCHANGED <<tid, status, waitcnt, sem, depends, listVars, mapLock, serverVars, stack,
                   localVars>>

UnlockMap(c) ==
    /\ At(c, "unlock")
    /\ mapLock' = Null
    /\ key' = [key EXCEPT ![c] = Null]
    /\ pos' = [pos EXCEPT ![c] = 1]
    /\ Goto(c, "result")
    /\ UNCHANGED <<transVars, listVars, versions, serverVars, stack,
                   idReg, walk, local, ops, cursor>>

\* The store reports the status its caller's transaction has now.
StoreResult(c) ==
    /\ At(c, "result")
    /\ local' = [local EXCEPT ![c] = status[c]]
    /\ Goto(c, "reply")
    /\ UNCHANGED <<transVars, listVars, storeVars, serverVars, stack,
                   idReg, walk, ops, key, pos, cursor>>

-------------------------------------------------------------------------------
(* trans_commit(c).  walk[c] is what is left of the dependency list.       *)

\* Mutant: status starts as the transaction's own status was created.
CommitAcquireUndecided(c) ==
    /\ At(c, "commit")
    /\ sem[c] > 0
    /\ sem' = [sem EXCEPT ![c] = @ - 1]
    /\ local' = [local EXCEPT ![c] = "PENDING"]
    /\ walk' = [walk EXCEPT ![c] = depends[c]]
    /\ Goto(c, "check")
    /\ UNCHANGED <<tid, status, refcnt, waitcnt, depends, listVars, storeVars, serverVars, stack,
                   idReg, ops, key, pos, cursor>>

CommitAcquire(c) ==
    /\ At(c, "commit")
    /\ sem[c] > 0
    /\ sem' = [sem EXCEPT ![c] = @ - 1]
    /\ local' = [local EXCEPT ![c] = "COMMITTED"]
    /\ walk' = [walk EXCEPT ![c] = depends[c]]
    /\ Goto(c, "check")
    /\ UNCHANGED <<tid, status, refcnt, waitcnt, depends, listVars, storeVars, serverVars, stack,
                   idReg, ops, key, pos, cursor>>

CommitWalkEnd(c) ==
    /\ At(c, "check")
    /\ walk[c] = <<>>
    /\ Goto(c, "decide")
    /\ UNCHANGED <<transVars, listVars, storeVars, serverVars, stack, localVars>>

\* First look at the dependency: is it ABORTED?
CommitCheck(c) ==
    /\ At(c, "check")
    /\ walk[c] # <<>>
    /\ IF status[Head(walk[c])] = "ABORTED"
       THEN /\ local' = [local EXCEPT ![c] = "ABORTED"]
            /\ Goto(c, "decide")
       ELSE /\ Goto(c, "recheck")
            /\ UNCHANGED local
    /\ UNCHANGED <<transVars, listVars, storeVars, serverVars, stack,
                   idReg, walk, ops, key, pos, cursor>>

\* Second look, after the mutex was released: is it PENDING?
CommitRecheck(c) ==
    /\ At(c, "recheck")
    /\ IF status[Head(walk[c])] = "PENDING"
       THEN /\ Goto(c, "enlist")
            /\ UNCHANGED walk
       ELSE /\ walk' = [walk EXCEPT ![c] = Tail(@)]
            /\ Goto(c, "check")
    /\ UNCHANGED <<transVars, listVars, storeVars, serverVars, stack,
                   idReg, local, ops, key, pos, cursor>>

CommitEnlist(c) ==
    /\ At(c, "enlist")
    /\ waitcnt' = [waitcnt EXCEPT ![Head(walk[c])] = @ + 1]
    /\ Goto(c, "wait")
    /\ UNCHANGED <<tid, status, refcnt, sem, depends, listVars, storeVars, serverVars, stack,
                   localVars>>

CommitWait(c) ==
    /\ At(c, "wait")
    /\ Goto(c, IF status[Head(walk[c])] = "PENDING" THEN "waitP" ELSE "outcome")
    /\ UNCHANGED <<transVars, listVars, storeVars, serverVars, stack, localVars>>

\* Mutant: the waiter does not block.
CommitWaitPUnguarded(c) ==
    /\ At(c, "waitP")
    /\ sem' = [sem EXCEPT ![Head(walk[c])] = @ - 1]
    /\ Goto(c, "waitV")
    /\ UNCHANGED <<tid, status, refcnt, waitcnt, depends, listVars, storeVars, serverVars, stack,
                   localVars>>

CommitWaitP(c) ==
    /\ At(c, "waitP")
    /\ sem[Head(walk[c])] > 0
    /\ sem' = [sem EXCEPT ![Head(walk[c])] = @ - 1]
    /\ Goto(c, "waitV")
    /\ UNCHANGED <<tid, status, refcnt, waitcnt, depends, listVars, storeVars, serverVars, stack,
                   localVars>>

\* Mutant: the waiter keeps the semaphore.
CommitWaitVForgotten(c) ==
    /\ At(c, "waitV")
    /\ Goto(c, "wait")
    /\ UNCHANGED <<transVars, listVars, storeVars, serverVars, stack, localVars>>

\* Mutant: if for while, one wait and no second look.
CommitWaitVOnce(c) ==
    /\ At(c, "waitV")
    /\ sem' = [sem EXCEPT ![Head(walk[c])] = @ + 1]
    /\ Goto(c, "outcome")
    /\ UNCHANGED <<tid, status, refcnt, waitcnt, depends, listVars, storeVars, serverVars, stack,
                   localVars>>

CommitWaitV(c) ==
    /\ At(c, "waitV")
    /\ sem' = [sem EXCEPT ![Head(walk[c])] = @ + 1]
    /\ Goto(c, "wait")
    /\ UNCHANGED <<tid, status, refcnt, waitcnt, depends, listVars, storeVars, serverVars, stack,
                   localVars>>

CommitOutcome(c) ==
    /\ At(c, "outcome")
    /\ local' = [local EXCEPT ![c] = IF status[Head(walk[c])] = "ABORTED" THEN "ABORTED" ELSE @]
    /\ walk' = [walk EXCEPT ![c] = Tail(@)]
    /\ Goto(c, "check")
    /\ UNCHANGED <<transVars, listVars, storeVars, serverVars, stack,
                   idReg, ops, key, pos, cursor>>

\* tp->status = status: the transaction's own status is not looked at.
CommitDecide(c) ==
    /\ At(c, "decide")
    /\ status' = [status EXCEPT ![c] = local[c]]
    /\ walk' = [walk EXCEPT ![c] = <<>>]
    /\ Goto(c, "finish")
    /\ UNCHANGED <<tid, refcnt, waitcnt, sem, depends, listVars, storeVars, serverVars, stack,
                   idReg, local, ops, key, pos, cursor>>

\* Mutant: the semaphore is not posted at the end.
ReleaseWithoutPost(tp) ==
    /\ waitcnt' = [waitcnt EXCEPT ![tp] = 0]
    /\ trans_unref(tp)
    /\ UNCHANGED sem

\* releaseDependents posts sem once per waiter; the final V posts once more.
ReleaseAndPost(tp) ==
    /\ sem' = [sem EXCEPT ![tp] = @ + waitcnt[tp] + 1]
    /\ waitcnt' = [waitcnt EXCEPT ![tp] = 0]
    /\ trans_unref(tp)

CommitFinish(c) ==
    /\ At(c, "finish")
    /\ ReleaseAndPost(c)
    /\ Goto(c, "return")
    /\ UNCHANGED <<tid, status, depends, listVars, storeVars, serverVars, stack, localVars>>

\* The status is read again for the return value.
CommitReturn(c) ==
    /\ At(c, "return")
    /\ local' = [local EXCEPT ![c] = status[c]]
    /\ Goto(c, "reply")
    /\ UNCHANGED <<transVars, listVars, storeVars, serverVars, stack,
                   idReg, walk, ops, key, pos, cursor>>

-------------------------------------------------------------------------------
(* trans_abort(), on any thread.  The head of stack[t] is the activation   *)
(* that runs.                                                              *)

Aborting(t, l) == exited = "running" /\ stack[t] # <<>> /\ Head(stack[t]).at = l

Top(t) == Head(stack[t])

SetTop(t, f) == stack' = [stack EXCEPT ![t] = <<f>> \o Tail(@)]

Return(t) == stack' = [stack EXCEPT ![t] = Tail(@)]

\* Aborting a committed transaction ends the process.
AbortFatal(t) ==
    /\ Aborting(t, "fatal")
    /\ IF status[Top(t).tp] = "COMMITTED"
       THEN exited' = "FATAL" /\ UNCHANGED stack
       ELSE SetTop(t, [Top(t) EXCEPT !.at = "pending"]) /\ UNCHANGED exited
    /\ UNCHANGED <<transVars, listVars, storeVars, conn, registered, pc, localVars>>

\* The status is read again; only a pending transaction is worked on.
AbortPending(t) ==
    /\ Aborting(t, "pending")
    /\ IF status[Top(t).tp] = "PENDING"
       THEN SetTop(t, [Top(t) EXCEPT !.at = "acquire"])
       ELSE Return(t)
    /\ UNCHANGED <<transVars, listVars, storeVars, serverVars, pc, localVars>>

\* P(&tp->sem) and the write that follows it.
AbortAcquire(t) ==
    LET tp == Top(t).tp IN
    /\ Aborting(t, "acquire")
    /\ sem[tp] > 0
    /\ sem' = [sem EXCEPT ![tp] = @ - 1]
    /\ status' = [status EXCEPT ![tp] = "ABORTED"]
    /\ SetTop(t, [tp |-> tp, at |-> "loop", rest |-> depends[tp]])
    /\ UNCHANGED <<tid, refcnt, waitcnt, depends, listVars, storeVars, serverVars, pc, localVars>>

\* Abort the transactions this one depends on, one after the other.
AbortDependency(t) ==
    LET f == Top(t) IN
    /\ Aborting(t, "loop")
    /\ f.rest # <<>>
    /\ stack' = [stack EXCEPT ![t] =
                    <<[tp |-> Head(f.rest), at |-> "fatal", rest |-> <<>>],
                      [f EXCEPT !.rest = Tail(@)]>> \o Tail(@)]
    /\ UNCHANGED <<transVars, listVars, storeVars, serverVars, pc, localVars>>

AbortFinish(t) ==
    /\ Aborting(t, "loop")
    /\ Top(t).rest = <<>>
    /\ ReleaseAndPost(Top(t).tp)
    /\ Return(t)
    /\ UNCHANGED <<tid, status, depends, listVars, storeVars, serverVars, pc, localVars>>

-------------------------------------------------------------------------------
(* terminate(), the SIGHUP handler.                                        *)

\* creg_shutdown_all shuts down the registered connections.
Sighup ==
    /\ Hangup
    /\ At(Main, "accept")
    /\ conn' = [c \in Clients |-> IF c \in registered THEN "local" ELSE conn[c]]
    /\ Goto(Main, "empty")
    /\ UNCHANGED <<transVars, listVars, storeVars, registered, exited, stack, localVars>>

\* creg_wait_for_empty takes the registry's semaphore ...
WaitForEmpty ==
    /\ At(Main, "empty")
    /\ Goto(Main, "emptyHeld")
    /\ UNCHANGED <<transVars, listVars, storeVars, serverVars, stack, localVars>>

\* ... gives it back and tries again while somebody is registered ...
WaitAgain ==
    /\ At(Main, "emptyHeld")
    /\ registered # {}
    /\ Goto(Main, "empty")
    /\ UNCHANGED <<transVars, listVars, storeVars, serverVars, stack, localVars>>

\* ... and returns when nobody is.  creg_fini follows, and trans_fini starts at
\* the head of the list.
WaitEnds ==
    /\ At(Main, "emptyHeld")
    /\ registered = {}
    /\ cursor' = next[ListHead]
    /\ Goto(Main, "fini")
    /\ UNCHANGED <<transVars, listVars, storeVars, serverVars, stack,
                   idReg, walk, local, ops, key, pos>>

FiniAbort ==
    /\ At(Main, "fini")
    /\ cursor # ListHead
    /\ CallAbort(Main, cursor, "finiNext")
    /\ UNCHANGED <<transVars, listVars, storeVars, serverVars, localVars>>

FiniNext ==
    /\ At(Main, "finiNext")
    /\ cursor' = next[cursor]
    /\ Goto(Main, "fini")
    /\ UNCHANGED <<transVars, listVars, storeVars, serverVars, stack,
                   idReg, walk, local, ops, key, pos>>

FiniEnd ==
    /\ At(Main, "fini")
    /\ cursor = ListHead
    /\ Goto(Main, "finiStore")
    /\ UNCHANGED <<transVars, listVars, storeVars, serverVars, stack, localVars>>

\* store_fini takes the_map.mutex, then the process exits.
FiniStore ==
    /\ At(Main, "finiStore")
    /\ mapLock = Null
    /\ exited' = "SUCCESS"
    /\ UNCHANGED <<transVars, listVars, storeVars, conn, registered, pc, stack, localVars>>

\* A process that has exited takes no further step.
Halted == exited # "running" /\ UNCHANGED vars

\* main blocks in accept() when every service thread has returned.
AcceptBlocks ==
    /\ At(Main, "accept")
    /\ \A c \in Clients : At(c, "done")
    /\ UNCHANGED vars

-------------------------------------------------------------------------------
CreateStep(c) == Accept(c) \/ Register(c) \/ Create(c) \/ Link(c) \/ LinkTail(c)
                 \/ LoadId(c) \/ StoreId(c)

LoopStep(c) == RecvRequest(c) \/ RecvPartialRequest(c) \/ RecvOther(c) \/ RecvCommit(c)
               \/ RecvFails(c) \/ Reply(c) \/ Unregister(c) \/ UnregisterHungUp(c)

StoreStep(c) == LockMap(c) \/ ExamineAborted(c) \/ ExamineCommitted(c) \/ ExaminePending(c)
                \/ AddDependency(c) \/ ExamineEnd(c) \/ AbortDoomed(c) \/ DisposeDoomed(c)
                \/ DoomedEnd(c) \/ PlaceConflict(c) \/ PlaceVersion(c) \/ UnlockMap(c)
                \/ StoreResult(c)

CommitStep(c) == CommitAcquire(c) \/ CommitWalkEnd(c) \/ CommitCheck(c) \/ CommitRecheck(c)
                 \/ CommitEnlist(c) \/ CommitWait(c) \/ CommitWaitP(c) \/ CommitWaitV(c)
                 \/ CommitOutcome(c) \/ CommitDecide(c) \/ CommitFinish(c) \/ CommitReturn(c)

AbortStep(t) == AbortFatal(t) \/ AbortPending(t) \/ AbortAcquire(t) \/ AbortDependency(t)
                \/ AbortFinish(t)

\* terminate(), and what a service thread does with the registry it has freed.
TerminateStep == Sighup \/ WaitForEmpty \/ WaitAgain \/ WaitEnds \/ FiniAbort \/ FiniNext
                 \/ FiniEnd \/ FiniStore \/ \E c \in Clients : UseFreedRegistry(c)

Next ==
    \/ \E c \in Clients : CreateStep(c) \/ HangUp(c) \/ LoopStep(c) \/ StoreStep(c) \/ CommitStep(c)
    \/ \E t \in Threads : AbortStep(t)
    \/ TerminateStep
    \/ Halted \/ AcceptBlocks

Spec == Init /\ [][Next]_vars

\* The steps a service thread takes by itself.  Nothing makes it get past a P
\* on a registry that has been freed.
ThreadStep(c) ==
    \/ Create(c) \/ Link(c) \/ LinkTail(c) \/ LoadId(c) \/ StoreId(c)
    \/ RecvFails(c) \/ Reply(c) \/ StoreStep(c) \/ CommitStep(c) \/ AbortStep(c)
    \/ ~RegistryFreed /\ (Register(c) \/ Unregister(c) \/ UnregisterHungUp(c))

MainStep == WaitForEmpty \/ WaitAgain \/ WaitEnds \/ FiniAbort \/ FiniNext \/ FiniEnd
            \/ FiniStore \/ AbortStep(Main)

\* The scheduler runs every thread: one that can go on and stays able to go on
\* does so in the end.  A P that is possible only now and then may never happen.
ThreadFairness == WF_vars(MainStep) /\ \A c \in Clients : WF_vars(ThreadStep(c))

FairSpec == Spec /\ ThreadFairness

-------------------------------------------------------------------------------
(* Properties.                                                             *)

\* Every field, list and local keeps its type; semaphores and wait counts never
\* fall below zero, however P, V and the posts of releaseDependents interleave.
TypeOK ==
    /\ tid \in [Clients -> Nat]
    /\ status \in [Clients -> Status]
    /\ refcnt \in [Clients -> Int]
    /\ waitcnt \in [Clients -> Nat]
    /\ sem \in [Clients -> Nat]
    /\ depends \in [Clients -> Seq(Clients)]
    /\ nextId \in Nat
    /\ next \in [Nodes -> Nodes]
    /\ tail \in Nodes
    /\ versions \in [Keys -> Seq(Clients)]
    /\ mapLock \in Clients \cup {Null}
    /\ conn \in [Clients -> Conns]
    /\ registered \in SUBSET Clients
    /\ exited \in Exits
    /\ pc \in [Threads -> Labels]
    /\ stack \in [Threads -> Seq(Frame)]
    /\ idReg \in [Clients -> Nat]
    /\ walk \in [Clients -> Seq(Clients)]
    /\ local \in [Clients -> Status]
    /\ ops \in [Clients -> 0..MaxOps]
    /\ key \in [Clients -> Keys \cup {Null}]
    /\ pos \in [Clients -> Nat \ {0}]
    /\ cursor \in Nodes

\* trans_commit waits for every dependency to be decided, so no committed
\* transaction has a dependency that is still pending.
CommittedAfterDependencies ==
    \A c \in Clients : status[c] = "COMMITTED" =>
        \A d \in Range(depends[c]) : status[d] # "PENDING"

\* The threads between a P on c's semaphore and the matching V.
Holders(c) ==
    {t \in Threads : \E i \in DOMAIN stack[t] : stack[t][i].tp = c /\ stack[t][i].at = "loop"}
    \cup {t \in Clients : stack[t] = <<>> /\ pc[t] = "waitV" /\ Head(walk[t]) = c}
    \cup (IF pc[c] \in {"check", "recheck", "enlist", "wait", "waitP", "waitV", "outcome",
                        "decide", "finish"} THEN {c} ELSE {})

\* The extra posts of releaseDependents come only after a decision: while a
\* transaction is pending its semaphore is a mutex, held by at most one
\* thread, and it is free exactly when nobody holds it.
SemaphoreIsMutexWhilePending ==
    \A c \in Clients : status[c] = "PENDING" => sem[c] = 1 - Cardinality(Holders(c))

\* Dependencies point from a larger to a smaller transaction ID, so waiting
\* in trans_commit can never go round in a circle, even when the race in
\* trans_create hands the same ID out twice.
DependenciesPointToOlder ==
    \A c \in Clients : \A d \in Range(depends[c]) : tid[d] < tid[c]

\* No transaction that has dependencies has had a post for a waiter, so its
\* semaphore lets one trans_abort at a time walk over them.
OneWalkAtATime ==
    \A c \in Clients : depends[c] # <<>> => sem[c] + Cardinality(Holders(c)) <= 1

\* Every version held by the store is covered by a reference to its creator,
\* so the count does not reach zero while the store can still reach the
\* transaction.  Two trans_abort calls that walk over the same dependencies at
\* once both drop the one reference to a dependency that is still pending.
ReferencesCoverVersions ==
    pc[Main] \in {"accept", "empty", "emptyHeld"} /\ OneWalkAtATime => \A c \in Clients :
        refcnt[c] >= Cardinality({k \in Keys : c \in Range(versions[k])})

\* Thread t is at a P: on the semaphore of a transaction, or on the registry's.
WaitsForSem(t, tp) ==
    \/ stack[t] # <<>> /\ Top(t).at = "acquire" /\ Top(t).tp = tp
    \/ stack[t] = <<>> /\ pc[t] \in {"commit", "depend"} /\ t = tp
    \/ stack[t] = <<>> /\ pc[t] = "waitP" /\ Head(walk[t]) = tp

WaitsForRegistry(t) ==
    stack[t] = <<>> /\ pc[t] \in {"register", "unregister", "hungUp"} /\ ~RegistryFreed

Waits(t) == WaitsForRegistry(t) \/ \E tp \in Clients : WaitsForSem(t, tp)

CanPass(t) == \/ WaitsForRegistry(t) /\ RegistryFree
              \/ \E tp \in Clients : WaitsForSem(t, tp) /\ sem[tp] > 0

\* No thread is overtaken for ever at a P that is possible again and again.
\* sem_wait does not promise this, and trans_commit (120-123) and
\* creg_wait_for_empty take and give back a semaphore in a busy loop.
NobodyIsOvertaken ==
    \A t \in Threads : []<>CanPass(t) => []<>~Waits(t)

\* A client that stays connected sends its COMMIT in the end.
ClientFairness == \A c \in Clients : WF_vars(RecvCommit(c))

\* If nobody is overtaken for ever at a P and every client that stays connected
\* commits in the end, a COMMIT request is answered and its thread returns, or
\* the process ends.
CommitAnswered ==
    NobodyIsOvertaken /\ ClientFairness =>
        \A c \in Clients : pc[c] = "commit" ~> (pc[c] = "done" \/ exited # "running")

\* No registered connection stays up for ever once main waits: a client whose
\* thread called creg_register after creg_shutdown_all leaves by itself.
LateClientsLeave ==
    \A c \in Clients : []<>(pc[Main] = "accept" \/ c \notin registered \/ conn[c] # "up")

\* main.c, terminate: shutting the connections down "will trigger the eventual
\* termination of service threads".  If nobody is overtaken for ever at a P and
\* late clients leave, the process ends after SIGHUP: with SUCCESS, by the FATAL
\* that trans_fini runs into at a committed transaction, by a SIGPIPE, or on the
\* freed registry.  Two clients cannot break this; three can (one thread blocks
\* in a trans_abort that the store calls with the_map.mutex held, and the thread
\* that has the semaphore waits in trans_commit for the transaction of the first).
ShutdownEnds ==
    NobodyIsOvertaken /\ LateClientsLeave =>
        (pc[Main] = "empty" ~> exited # "running")

\* A decided transaction never becomes pending again.
NeverPendingAgain ==
    [][\A c \in Clients : status[c] # "PENDING" => status'[c] # "PENDING"]_vars

-------------------------------------------------------------------------------
(* The inductive invariant behind CommittedAfterDependencies,              *)
(* DependenciesPointToOlder and NeverPendingAgain.                         *)

\* The transactions trans_create has initialised.
Known == {c \in Clients : pc[c] \notin {"start", "register", "create"}}

DependsKnown == \A c \in Clients : Range(depends[c]) \subseteq Known
WalkKnown == \A c \in Clients : Range(walk[c]) \subseteq Known
VersionsKnown == \A k \in Keys : Range(versions[k]) \subseteq Known
FrameKnown(f) == f.tp \in Known /\ Range(f.rest) \subseteq Known
StackKnown == \A t \in Threads : \A f \in Range(stack[t]) : FrameKnown(f)
ListKnown == \A n \in Range(next) \cup {tail, cursor} : n \in Known \cup {ListHead}
UnknownPending == \A c \in Clients \ Known : status[c] = "PENDING"

\* No pointer leads to a transaction that does not exist yet, and such a
\* transaction is in its initial state.
PointersAreKnown ==
    DependsKnown /\ WalkKnown /\ VersionsKnown /\ StackKnown /\ ListKnown /\ UnknownPending

\* The labels between the lock and the unlock of the_map.mutex.
HoldLabels == {"examine", "depend", "doomed", "dispose", "place", "unlock"}

\* The store works on a key under the mutex, and the version that is about to
\* become a dependency belongs to an older transaction.
StoreIsLocked ==
    \A c \in Clients :
        /\ pc[c] \in HoldLabels => mapLock = c
        /\ pc[c] \in HoldLabels \cup {"lock"} => key[c] \in Keys
        /\ pc[c] = "depend" =>
              /\ pos[c] <= Len(versions[key[c]])
              /\ tid[versions[key[c]][pos[c]]] < tid[c]

\* The loops of trans_commit and of the store look at an element of their list.
WalkIsAtElement ==
    \A c \in Clients :
        pc[c] \in {"recheck", "enlist", "wait", "waitP", "waitV", "outcome", "dispose"}
            => walk[c] # <<>>

\* trans_commit has seen every dependency it has walked past decided.
CommitProgress ==
    \A c \in Clients :
        /\ pc[c] \in {"check", "recheck", "enlist", "wait", "waitP", "waitV", "outcome"} =>
              \A d \in Range(depends[c]) : d \in Range(walk[c]) \/ status[d] # "PENDING"
        /\ pc[c] = "outcome" => status[Head(walk[c])] # "PENDING"
        /\ pc[c] = "decide" =>
              /\ local[c] # "PENDING"
              /\ local[c] = "COMMITTED" =>
                    \A d \in Range(depends[c]) : status[d] # "PENDING"
        /\ pc[c] \in {"check", "recheck", "enlist", "wait", "waitP", "waitV", "outcome"} =>
              local[c] # "PENDING"

\* Only a thread that has finished trans_commit has a committed transaction.
CommittedAtEnd ==
    \A c \in Clients : status[c] = "COMMITTED" =>
        \/ pc[c] \in {"finish", "return", "unregister", "done"}
        \/ pc[c] = "reply" /\ local[c] # "PENDING"

\* The conjunction that every step of the server preserves.
CommitInvariant ==
    /\ TypeOK
    /\ PointersAreKnown
    /\ StoreIsLocked
    /\ WalkIsAtElement
    /\ CommitProgress
    /\ CommittedAtEnd
    /\ CommittedAfterDependencies
    /\ DependenciesPointToOlder

-------------------------------------------------------------------------------
(* The server implements the contract of its transaction manager.          *)

Contract ==
    INSTANCE XactoContract WITH
        Transactions <- Clients,
        state <- [c \in Clients |-> IF c \in Known THEN status[c] ELSE "none"],
        number <- tid,
        dependsOn <- [c \in Clients |-> Range(depends[c])]

\* Whatever the threads interleave (racing trans_create calls, commits that
\* wait, cascading aborts from three kinds of callers, trans_fini), each step
\* begins a transaction, adds an older dependency, commits a transaction whose
\* dependencies are all decided, aborts one that exists, or changes nothing the
\* contract can see.
ImplementsContract == Contract!Spec

-------------------------------------------------------------------------------
(* What the headers and tests of the server say and its code does not do.  *)

\* transaction.h, trans_commit: "If any transaction in the dependency set
\* abort, then the dependent transaction must also abort."  trans_commit asks
\* for ABORTED and for PENDING in two separate reads.
AbortedDependencyAborts ==
    \A c \in Clients : status[c] = "COMMITTED" =>
        \A d \in Range(depends[c]) : status[d] # "ABORTED"
===============================================================================
