---------------------------- MODULE XactoContract ----------------------------
(***************************************************************************)
(* What the transaction manager promises the rest of the server, as        *)
(* transaction.h describes it: transactions with a number, a dependency    *)
(* set that only grows and a status.  Semaphores, wait counts, the list of *)
(* transactions, the store and the threads are gone; what trans_commit     *)
(* does in a dozen steps beside the commits and aborts of other threads is *)
(* one step here.                                                          *)
(*                                                                         *)
(* The header also calls a decision final and says that a transaction      *)
(* aborts if one of its dependencies does.  The code keeps neither promise *)
(* (transaction.c:138, 157 and 114), so they are not part of what is       *)
(* refined.                                                                *)
(***************************************************************************)
EXTENDS Naturals

CONSTANT Transactions

VARIABLES
    state,      \* status, or "none" before trans_create
    number,     \* the transaction's ID
    dependsOn   \* dependency set

vars == <<state, number, dependsOn>>

Init ==
    /\ state = [t \in Transactions |-> "none"]
    /\ number \in [Transactions -> Nat]
    /\ dependsOn = [t \in Transactions |-> {}]

Begun == {t \in Transactions : state[t] # "none"}
Decided == {t \in Transactions : state[t] \in {"COMMITTED", "ABORTED"}}

\* trans_create: pending and without dependencies, under some number, which
\* may not be a new one.
Begin(t) ==
    /\ t \notin Begun
    /\ state' = [state EXCEPT ![t] = "PENDING"]
    /\ number'[t] \in Nat
    /\ number' = [number EXCEPT ![t] = number'[t]]
    /\ dependsOn' = [dependsOn EXCEPT ![t] = {}]

\* trans_add_dependency: on an older transaction, and never once t has
\* committed.
Depend(t, u) ==
    /\ t \in Begun /\ u \in Begun
    /\ state[t] # "COMMITTED"
    /\ number[u] < number[t]
    /\ dependsOn' = [dependsOn EXCEPT ![t] = @ \cup {u}]
    /\ UNCHANGED <<state, number>>

\* trans_commit: not before every dependency is decided.
Commit(t) ==
    /\ t \in Begun
    /\ dependsOn[t] \subseteq Decided
    /\ state' = [state EXCEPT ![t] = "COMMITTED"]
    /\ UNCHANGED <<number, dependsOn>>

\* trans_abort, on behalf of any thread.
Abort(t) ==
    /\ t \in Begun
    /\ state' = [state EXCEPT ![t] = "ABORTED"]
    /\ UNCHANGED <<number, dependsOn>>

Next ==
    \E t \in Transactions :
        Begin(t) \/ Commit(t) \/ Abort(t) \/ \E u \in Transactions : Depend(t, u)

Spec == Init /\ [][Next]_vars
=============================================================================
