----------------------- MODULE XactoRefinementProofs -----------------------
(* The server implements the contract of its transaction manager, for      *)
(* every number of clients, keys and requests.                             *)
EXTENDS XactoTransactionProofs

\* Only trans_create makes a transaction known.
LEMMA WhoBegins ==
    ASSUME TypeOK, [Next]_vars, NEW d \in Clients, d \notin Known, d \in Known'
    PROVE  Create(d)
<1>pc. pc \in [Threads -> Labels] /\ Clients \subseteq Threads
  BY DEF TypeOK, Threads
<1>before. pc[d] \in {"start", "register", "create"}
  BY DEF Known
<1>moved. pc'[d] # pc[d]
  BY <1>before DEF Known
<1>1. CASE \E c \in Clients : CreateStep(c) \/ LoopStep(c) \/ StoreStep(c) \/ CommitStep(c)
  <2>1. CreateStep(d) \/ LoopStep(d) \/ StoreStep(d) \/ CommitStep(d)
    BY <1>1, <1>moved, OthersUnmoved
  <2>2. ~LoopStep(d)
    BY <1>before DEF LoopStep, RecvRequest, RecvPartialRequest, RecvOther, RecvCommit, RecvFails,
       Reply, Unregister, UnregisterHungUp, At
  <2>3. ~StoreStep(d)
    BY <1>before DEF StoreStep, LockMap, ExamineAborted, ExamineCommitted, ExaminePending,
       AddDependency, ExamineEnd, AbortDoomed, DisposeDoomed, DoomedEnd, PlaceConflict,
       PlaceVersion, UnlockMap, StoreResult, At
  <2>4. ~CommitStep(d)
    BY <1>before DEF CommitStep, CommitAcquire, CommitWalkEnd, CommitCheck, CommitRecheck,
       CommitEnlist, CommitWait, CommitWaitP, CommitWaitV, CommitOutcome, CommitDecide,
       CommitFinish, CommitReturn, At
  <2>5. ~(Link(d) \/ LinkTail(d) \/ LoadId(d) \/ StoreId(d))
    BY <1>before DEF Link, LinkTail, LoadId, StoreId, At
  <2>6. ~(Accept(d) \/ Register(d))
    BY <1>pc DEF Accept, Register, Goto, Known
  <2> QED
    BY <2>1, <2>2, <2>3, <2>4, <2>5, <2>6 DEF CreateStep
<1>2. CASE TerminateStep \/ \E t \in Threads : AbortStep(t)
  BY <1>2, <1>pc, <1>moved, AbortFrame, TerminateFrame
<1>3. CASE UNCHANGED <<transVars, listVars, storeVars, pc, stack, localVars>>
  BY <1>3, <1>moved
<1> QED
  BY <1>1, <1>2, <1>3, NextCases

\* Creation, in the contract, is Begin.
LEMMA CreateBegins ==
    ASSUME TypeOK, NEW c \in Clients, Create(c)
    PROVE  Contract!Begin(c)
<1>types. /\ tid \in [Clients -> Nat] /\ status \in [Clients -> Status] /\ nextId \in Nat
          /\ depends \in [Clients -> Seq(Clients)] /\ pc \in [Threads -> Labels]
          /\ Clients \subseteq Threads
  BY DEF TypeOK, Threads
<1>1. c \notin Known /\ Known' = Known \cup {c}
  BY <1>types DEF Create, At, Goto, Known
<1>2. status' = [status EXCEPT ![c] = "PENDING"] /\ tid' = [tid EXCEPT ![c] = nextId]
      /\ depends' = [depends EXCEPT ![c] = <<>>]
  BY DEF Create
<1>3. Range(<<>>) = {}
  BY DEF Range
<1>4. tid'[c] \in Nat /\ tid' = [tid EXCEPT ![c] = tid'[c]]
  BY <1>2, <1>types
<1>5. [d \in Clients |-> IF d \in Known THEN status[d] ELSE "none"]' =
      [[d \in Clients |-> IF d \in Known THEN status[d] ELSE "none"] EXCEPT ![c] = "PENDING"]
  BY <1>1, <1>2, <1>types
<1>6. [d \in Clients |-> Range(depends[d])]' =
      [[d \in Clients |-> Range(depends[d])] EXCEPT ![c] = {}]
  BY <1>2, <1>3, <1>types
<1>7. c \notin Contract!Begun
  BY <1>1 DEF Contract!Begun
<1> QED
  BY <1>4, <1>5, <1>6, <1>7 DEF Contract!Begin

\* trans_add_dependency, in the contract, is Depend: both transactions exist,
\* the dependency is older and c has not committed.
LEMMA DependencyDepends ==
    ASSUME CommitInvariant, NEW c \in Clients, AddDependency(c)
    PROVE  \E u \in Clients : Contract!Depend(c, u)
<1> DEFINE dtp == versions[key[c]][pos[c]]
<1>types. /\ tid \in [Clients -> Nat] /\ depends \in [Clients -> Seq(Clients)]
          /\ versions \in [Keys -> Seq(Clients)] /\ pos \in [Clients -> Nat \ {0}]
          /\ pc \in [Threads -> Labels] /\ Clients \subseteq Threads
          /\ status \in [Clients -> Status]
  BY DEF CommitInvariant, TypeOK, Threads
<1>1. pc[c] = "depend"
  BY DEF AddDependency, At
<1>2. key[c] \in Keys /\ pos[c] <= Len(versions[key[c]]) /\ tid[dtp] < tid[c]
  BY <1>1 DEF CommitInvariant, StoreIsLocked, HoldLabels
<1>3. dtp \in Clients /\ dtp \in Range(versions[key[c]])
  <2>1. versions[key[c]] \in Seq(Clients) /\ pos[c] \in Nat \ {0}
    BY <1>types, <1>2
  <2>2. pos[c] \in DOMAIN versions[key[c]]
    BY <1>2, <2>1
  <2>3. dtp \in Clients
    BY <2>1, <2>2
  <2> QED
    BY <2>2, <2>3 DEF Range
<1>4. c \in Known /\ dtp \in Known
  BY <1>1, <1>2, <1>3 DEF CommitInvariant, PointersAreKnown, VersionsKnown, Known
<1>5. status[c] # "COMMITTED"
  BY <1>1 DEF CommitInvariant, CommittedAtEnd
<1>6. Known' = Known
  BY <1>1, <1>types DEF AddDependency, Goto, Known
<1>7. depends' = [depends EXCEPT ![c] = <<dtp>> \o @] /\ UNCHANGED <<tid, status>>
  BY DEF AddDependency
<1>8. Range(<<dtp>> \o depends[c]) = Range(depends[c]) \cup {dtp}
  BY <1>types, <1>3, Prepending
<1> HIDE DEF dtp
<1>9. [d \in Clients |-> Range(depends[d])]' =
      [[d \in Clients |-> Range(depends[d])] EXCEPT ![c] = @ \cup {dtp}]
  BY <1>7, <1>8, <1>types
<1>10. dtp \in Contract!Begun /\ c \in Contract!Begun
  BY <1>3, <1>4, <1>types DEF Contract!Begun, Status
<1>11. Contract!Depend(c, dtp)
  BY <1>2, <1>4, <1>5, <1>6, <1>7, <1>9, <1>10 DEF Contract!Depend
<1> QED
  BY <1>3, <1>11

\* A transaction changes its status from outside trans_create: in the contract
\* it commits, if its dependencies are decided, or aborts.
LEMMA DecisionDecides ==
    ASSUME TypeOK, NEW c \in Known, NEW s \in {"COMMITTED", "ABORTED"},
           status' = [status EXCEPT ![c] = s], UNCHANGED <<tid, depends>>, Known' = Known,
           s = "COMMITTED" => \A d \in Range(depends[c]) : status[d] # "PENDING",
           Range(depends[c]) \subseteq Known
    PROVE  Contract!Commit(c) \/ Contract!Abort(c)
<1>types. c \in Clients /\ Known \subseteq Clients /\ status \in [Clients -> Status]
  BY DEF TypeOK, Known
<1>1. [d \in Clients |-> IF d \in Known THEN status[d] ELSE "none"]' =
      [[d \in Clients |-> IF d \in Known THEN status[d] ELSE "none"] EXCEPT ![c] = s]
  BY <1>types
<1>2. c \in Contract!Begun
  BY <1>types DEF Contract!Begun, Status
<1>3. UNCHANGED <<tid, [d \in Clients |-> Range(depends[d])]>>
  OBVIOUS
<1>4. CASE s = "COMMITTED"
  <2>1. \A d \in Range(depends[c]) : d \in Contract!Decided
    BY <1>4, <1>types DEF Contract!Decided, Status
  <2> QED
    BY <1>1, <1>2, <1>3, <1>4, <1>types, <2>1 DEF Contract!Commit
<1>5. CASE s = "ABORTED"
  BY <1>1, <1>2, <1>3, <1>5 DEF Contract!Abort
<1> QED
  BY <1>4, <1>5

\* Every step of the server is a step of the contract or invisible to it.
LEMMA StepSimulation ==
    ASSUME CommitInvariant, [Next]_vars
    PROVE  [Contract!Next]_(Contract!vars)
<1>types. TypeOK /\ stack \in [Threads -> Seq(Frame)] /\ local \in [Clients -> Status]
          /\ pc \in [Threads -> Labels] /\ Clients \subseteq Threads
  BY DEF CommitInvariant, TypeOK, Threads
<1>known. \A c \in Clients : Range(depends[c]) \subseteq Known
  BY DEF CommitInvariant, PointersAreKnown, DependsKnown
<1>1. ASSUME NEW c \in Clients, Create(c) PROVE Contract!Next
  BY <1>1, <1>types, CreateBegins DEF Contract!Next
<1>2. ASSUME NEW c \in Clients, AddDependency(c) PROVE Contract!Next
  BY <1>2, DependencyDepends DEF Contract!Next
<1>3. ASSUME NEW c \in Clients, CommitDecide(c) PROVE Contract!Next
  <2>1. pc[c] = "decide" /\ status' = [status EXCEPT ![c] = local[c]]
        /\ UNCHANGED <<tid, depends>>
    BY <1>3 DEF CommitDecide, At
  <2>2. c \in Known /\ Known' = Known
    BY <1>3, <1>types, <2>1 DEF CommitDecide, Goto, Known
  <2>3. /\ local[c] \in {"COMMITTED", "ABORTED"}
        /\ local[c] = "COMMITTED" => \A d \in Range(depends[c]) : status[d] # "PENDING"
    BY <1>types, <2>1 DEF CommitInvariant, CommitProgress, Status
  <2>4. Contract!Commit(c) \/ Contract!Abort(c)
    BY <1>types, <1>known, <2>1, <2>2, <2>3, DecisionDecides
  <2> QED
    BY <2>4 DEF Contract!Next
<1>4. ASSUME NEW t \in Threads, AbortAcquire(t) PROVE Contract!Next
  <2>0. stack[t] # <<>>
    BY <1>4 DEF AbortAcquire, Aborting
  <2>1. PICK tp \in Clients : tp = Top(t).tp
    BY <1>types, <2>0, TopType
  <2>2. status' = [status EXCEPT ![tp] = "ABORTED"] /\ UNCHANGED <<tid, depends, pc>>
    BY <1>4, <2>1 DEF AbortAcquire
  <2>3. Top(t) \in Range(stack[t])
    BY <1>types, <2>0, TakingHead DEF Top
  <2>4. tp \in Known /\ Known' = Known
    BY <2>1, <2>2, <2>3 DEF CommitInvariant, PointersAreKnown, StackKnown, FrameKnown, Known
  <2>5. Contract!Commit(tp) \/ Contract!Abort(tp)
    BY <1>types, <1>known, <2>2, <2>4, DecisionDecides
  <2> QED
    BY <2>5 DEF Contract!Next
<1>5. ASSUME UNCHANGED <<tid, status, depends>>, \A c \in Clients : ~Create(c)
      PROVE  UNCHANGED Contract!vars
  <2>1. Known' = Known
    <3>1. Known' \subseteq Clients
      BY DEF Known
    <3> QED
      BY <1>5, <1>types, <3>1, KnownGrows, WhoBegins
  <2> QED
    BY <1>5, <2>1 DEF Contract!vars
<1>6. \/ \E c \in Clients : Create(c) \/ AddDependency(c) \/ CommitDecide(c)
      \/ \E t \in Threads : AbortAcquire(t)
      \/ UNCHANGED <<tid, status, depends>>
  BY <1>types, NextCases, CreateFrame, LoopFrame, StoreFrame, CommitFrame, AbortFrame,
     TerminateFrame DEF transVars
<1> QED
  BY <1>1, <1>2, <1>3, <1>4, <1>5, <1>6

\* The server starts where the contract does: no transaction has begun.
LEMMA InitSimulation == Init => Contract!Init
<1> SUFFICES ASSUME Init PROVE Contract!Init
  OBVIOUS
<1>1. Known = {}
  BY ClientsAssumption DEF Init, Known, Threads
<1>2. Range(<<>>) = {}
  BY DEF Range
<1>3. tid \in [Clients -> Nat] /\ \A c \in Clients : depends[c] = <<>>
  BY DEF Init
<1> QED
  BY <1>1, <1>2, <1>3 DEF Contract!Init

\* The threads of the server, whatever their number and however they
\* interleave, implement the contract of the transaction manager.
THEOREM ServerImplementsContract == Spec => ImplementsContract
  BY InitSimulation, StepSimulation, InvariantHolds, PTL
     DEF Spec, ImplementsContract, Contract!Spec
=============================================================================
