----------------------- MODULE XactoTransactionProofs -----------------------
(* Proofs about the transaction manager, for every number of clients, keys *)
(* and requests.                                                           *)
EXTENDS XactoTransaction, SequenceTheorems, FiniteSetTheorems, TLAPS

(* Abbreviations for updates of one variable are expanded everywhere.      *)
USE DEF trans_ref, trans_unref, creg_register, creg_unregister

(* Facts about the sequences the manager walks.                            *)

\* Prepending, as trans_add_dependency and the calls of trans_abort do.
LEMMA Prepending ==
    ASSUME NEW S, NEW s \in Seq(S), NEW e \in S
    PROVE  /\ <<e>> \o s \in Seq(S)
           /\ Range(<<e>> \o s) = {e} \cup Range(s)
<1>1. <<e>> \in Seq(S)
  OBVIOUS
<1>2. Range(<<e>>) = {e}
  BY DEF Range
<1>3. Range(<<e>> \o s) = Range(<<e>>) \cup Range(s)
  BY <1>1, RangeConcatenation, ZenonT(40)
<1>4. <<e>> \o s \in Seq(S)
  BY <1>1, ConcatProperties
<1> QED
  BY <1>2, <1>3, <1>4

\* Taking the head off a list.
LEMMA TakingHead ==
    ASSUME NEW S, NEW s \in Seq(S), s # <<>>
    PROVE  /\ Head(s) \in S
           /\ Head(s) \in Range(s)
           /\ Tail(s) \in Seq(S)
           /\ Range(s) = {Head(s)} \cup Range(Tail(s))
<1>1. Head(s) \in S /\ Tail(s) \in Seq(S)
  BY HeadTailProperties
<1>2. s = <<Head(s)>> \o Tail(s)
  BY <1>1
<1>3. Range(s) = {Head(s)} \cup Range(Tail(s))
  BY <1>1, <1>2, Prepending, Zenon
<1> QED
  BY <1>1, <1>3

\* Cutting a version list.
LEMMA Cutting ==
    ASSUME NEW S, NEW s \in Seq(S), NEW i \in Nat \ {0}, NEW j \in Int, j <= Len(s)
    PROVE  /\ SubSeq(s, i, j) \in Seq(S)
           /\ Range(SubSeq(s, i, j)) \subseteq Range(s)
<1>1. \A x \in i..j : s[x] \in S /\ x \in DOMAIN s
  OBVIOUS
<1>2. /\ SubSeq(s, i, j) \in Seq(S)
      /\ Len(SubSeq(s, i, j)) = IF i <= j THEN j - i + 1 ELSE 0
      /\ \A x \in 1..(j - i + 1) : SubSeq(s, i, j)[x] = s[i + x - 1]
  BY <1>1, SubSeqProperties
<1>3. ASSUME NEW x \in DOMAIN SubSeq(s, i, j)
      PROVE  SubSeq(s, i, j)[x] = s[i + x - 1] /\ i + x - 1 \in DOMAIN s
  BY <1>2
<1> QED
  BY <1>2, <1>3 DEF Range

\* Adding a version at the end.
LEMMA Appending ==
    ASSUME NEW S, NEW s \in Seq(S), NEW e \in S
    PROVE  /\ Append(s, e) \in Seq(S)
           /\ Range(Append(s, e)) = Range(s) \cup {e}
<1>1. <<e>> \in Seq(S) /\ Range(<<e>>) = {e}
  BY DEF Range
<1>2. Append(s, e) = s \o <<e>>
  BY AppendIsConcat
<1>3. Range(s \o <<e>>) = Range(s) \cup Range(<<e>>)
  BY <1>1, RangeConcatenation, ZenonT(40)
<1> QED
  BY <1>1, <1>2, <1>3, AppendProperties

-------------------------------------------------------------------------------
(* Type correctness.                                                       *)

\* A call of trans_abort pushes a well-formed activation.
LEMMA CallType ==
    ASSUME NEW t \in Threads, NEW tp \in Clients, NEW l \in Labels,
           pc \in [Threads -> Labels], stack \in [Threads -> Seq(Frame)],
           CallAbort(t, tp, l)
    PROVE  pc' \in [Threads -> Labels] /\ stack' \in [Threads -> Seq(Frame)]
<1>1. [tp |-> tp, at |-> "fatal", rest |-> <<>>] \in Frame
  BY DEF Frame
<1>2. <<[tp |-> tp, at |-> "fatal", rest |-> <<>>]>> \in Seq(Frame)
  BY <1>1
<1> QED
  BY <1>2 DEF CallAbort, Goto

\* The running activation is well formed.
LEMMA TopType ==
    ASSUME NEW t \in Threads, stack \in [Threads -> Seq(Frame)], stack[t] # <<>>
    PROVE  /\ Top(t) \in Frame /\ Tail(stack[t]) \in Seq(Frame)
           /\ Top(t).tp \in Clients /\ Top(t).rest \in Seq(Clients)
<1>1. Top(t) \in Frame /\ Tail(stack[t]) \in Seq(Frame)
  BY TakingHead DEF Top
<1>2. Top(t).tp \in Clients /\ Top(t).rest \in Seq(Clients)
  BY <1>1 DEF Frame
<1> QED
  BY <1>1, <1>2

\* Every step keeps the variables in their types.  The lock and the loop
\* invariants are needed for the steps that follow a pointer.
LEMMA TypeStep ==
    ASSUME TypeOK, StoreIsLocked, WalkIsAtElement, [Next]_vars
    PROVE  TypeOK'
<1> USE DEF vars, transVars, listVars, storeVars, serverVars, localVars, At, Goto
<1>tid. tid \in [Clients -> Nat]
  BY DEF TypeOK
<1>status. status \in [Clients -> Status]
  BY DEF TypeOK
<1>refcnt. refcnt \in [Clients -> Int]
  BY DEF TypeOK
<1>waitcnt. waitcnt \in [Clients -> Nat]
  BY DEF TypeOK
<1>sem. sem \in [Clients -> Nat]
  BY DEF TypeOK
<1>depends. depends \in [Clients -> Seq(Clients)]
  BY DEF TypeOK
<1>nextId. nextId \in Nat
  BY DEF TypeOK
<1>next. next \in [Nodes -> Nodes]
  BY DEF TypeOK
<1>tail. tail \in Nodes
  BY DEF TypeOK
<1>versions. versions \in [Keys -> Seq(Clients)]
  BY DEF TypeOK
<1>mapLock. mapLock \in Clients \cup {Null}
  BY DEF TypeOK
<1>conn. conn \in [Clients -> Conns]
  BY DEF TypeOK
<1>registered. registered \in SUBSET Clients
  BY DEF TypeOK
<1>exited. exited \in Exits
  BY DEF TypeOK
<1>pc. pc \in [Threads -> Labels]
  BY DEF TypeOK
<1>stack. stack \in [Threads -> Seq(Frame)]
  BY DEF TypeOK
<1>idReg. idReg \in [Clients -> Nat]
  BY DEF TypeOK
<1>walk. walk \in [Clients -> Seq(Clients)]
  BY DEF TypeOK
<1>local. local \in [Clients -> Status]
  BY DEF TypeOK
<1>ops. ops \in [Clients -> 0..MaxOps]
  BY DEF TypeOK
<1>key. key \in [Clients -> Keys \cup {Null}]
  BY DEF TypeOK
<1>pos. pos \in [Clients -> Nat \ {0}]
  BY DEF TypeOK
<1>cursor. cursor \in Nodes
  BY DEF TypeOK
<1>1. ASSUME NEW c \in Clients, CreateStep(c) \/ HangUp(c) PROVE TypeOK'
  <2>0. c \in Threads
    BY DEF Threads
  <2>1. CASE Accept(c)
    <3>pc. pc' \in [Threads -> Labels]
      BY <2>1, <2>0, <1>pc DEF Accept, Labels, ServiceLabels
    <3>conn. conn' \in [Clients -> Conns]
      BY <2>1, <1>conn DEF Accept, Conns
    <3> QED
      BY <2>1, <3>pc, <3>conn DEF TypeOK, Accept
  <2>2. CASE Register(c)
    <3>pc. pc' \in [Threads -> Labels]
      BY <2>2, <2>0, <1>pc DEF Register, Labels, ServiceLabels
    <3>registered. registered' \in SUBSET Clients
      BY <2>2, <1>registered DEF Register
    <3> QED
      BY <2>2, <3>pc, <3>registered DEF TypeOK, Register
  <2>3. CASE Create(c)
    <3>pc. pc' \in [Threads -> Labels]
      BY <2>3, <2>0, <1>pc DEF Create, Labels, CreateLabels
    <3>tid. tid' \in [Clients -> Nat]
      BY <2>3, <1>tid, <1>nextId DEF Create
    <3>status. status' \in [Clients -> Status]
      BY <2>3, <1>status DEF Create, Status
    <3>refcnt. refcnt' \in [Clients -> Int]
      BY <2>3, <1>refcnt DEF Create
    <3>depends. depends' \in [Clients -> Seq(Clients)]
      BY <2>3, <1>depends DEF Create
    <3>waitcnt. waitcnt' \in [Clients -> Nat]
      BY <2>3, <1>waitcnt DEF Create
    <3>sem. sem' \in [Clients -> Nat]
      BY <2>3, <1>sem DEF Create
    <3>next. next' \in [Nodes -> Nodes]
      BY <2>3, <1>next DEF Create, Nodes
    <3> QED
      BY <2>3, <3>pc, <3>tid, <3>status, <3>refcnt, <3>depends, <3>waitcnt, <3>sem, <3>next
         DEF TypeOK, Create
  <2>4. CASE Link(c)
    <3>pc. pc' \in [Threads -> Labels]
      BY <2>4, <2>0, <1>pc DEF Link, Labels, CreateLabels
    <3>next. next' \in [Nodes -> Nodes]
      BY <2>4, <1>next, <1>tail DEF Link, Nodes
    <3> QED
      BY <2>4, <3>pc, <3>next DEF TypeOK, Link
  <2>5. CASE LinkTail(c)
    <3>pc. pc' \in [Threads -> Labels]
      BY <2>5, <2>0, <1>pc DEF LinkTail, Labels, CreateLabels
    <3>tail. tail' \in Nodes
      BY <2>5 DEF LinkTail, Nodes
    <3>refcnt. refcnt' \in [Clients -> Int]
      BY <2>5, <1>refcnt DEF LinkTail
    <3> QED
      BY <2>5, <3>pc, <3>tail, <3>refcnt DEF TypeOK, LinkTail
  <2>6. CASE LoadId(c)
    <3>pc. pc' \in [Threads -> Labels]
      BY <2>6, <2>0, <1>pc DEF LoadId, Labels, CreateLabels
    <3>idReg. idReg' \in [Clients -> Nat]
      BY <2>6, <1>idReg, <1>nextId DEF LoadId
    <3> QED
      BY <2>6, <3>pc, <3>idReg DEF TypeOK, LoadId
  <2>7. CASE StoreId(c)
    <3>pc. pc' \in [Threads -> Labels]
      BY <2>7, <2>0, <1>pc DEF StoreId, Labels, ServiceLabels
    <3>nextId. nextId' \in Nat
      BY <2>7, <1>idReg DEF StoreId
    <3>idReg. idReg' \in [Clients -> Nat]
      BY <2>7, <1>idReg DEF StoreId
    <3> QED
      BY <2>7, <3>pc, <3>nextId, <3>idReg DEF TypeOK, StoreId
  <2>8. CASE HangUp(c)
    <3>conn. conn' \in [Clients -> Conns]
      BY <2>8, <1>conn DEF HangUp, Conns
    <3> QED
      BY <2>8, <3>conn DEF TypeOK, HangUp
  <2> QED
    BY <1>1, <2>1, <2>2, <2>3, <2>4, <2>5, <2>6, <2>7, <2>8 DEF CreateStep
<1>2. ASSUME NEW c \in Clients, LoopStep(c) PROVE TypeOK'
  <2>0. c \in Threads
    BY DEF Threads
  <2>1. CASE RecvRequest(c)
    <3>pc. pc' \in [Threads -> Labels]
      BY <2>1, <2>0, <1>pc DEF RecvRequest, Labels, StoreLabels
    <3>key. key' \in [Clients -> Keys \cup {Null}]
      BY <2>1, <1>key, RequestsAssumption DEF RecvRequest
    <3>ops. ops' \in [Clients -> 0..MaxOps]
      BY <2>1, <1>ops, RequestsAssumption DEF RecvRequest
    <3> QED
      BY <2>1, <3>pc, <3>key, <3>ops DEF TypeOK, RecvRequest
  <2>2. CASE RecvPartialRequest(c)
    <3>pc. pc' \in [Threads -> Labels]
      BY <2>2, <2>0, <1>pc DEF RecvPartialRequest, Labels, ServiceLabels
    <3>ops. ops' \in [Clients -> 0..MaxOps]
      BY <2>2, <1>ops, RequestsAssumption DEF RecvPartialRequest
    <3>local. local' \in [Clients -> Status]
      BY <2>2, <1>local DEF RecvPartialRequest, Status
    <3> QED
      BY <2>2, <3>pc, <3>ops, <3>local DEF TypeOK, RecvPartialRequest
  <2>3. CASE RecvCommit(c)
    <3>pc. pc' \in [Threads -> Labels]
      BY <2>3, <2>0, <1>pc DEF RecvCommit, Labels, CommitLabels
    <3> QED
      BY <2>3, <3>pc DEF TypeOK, RecvCommit
  <2>4. CASE RecvFails(c)
    <3>call. pc' \in [Threads -> Labels] /\ stack' \in [Threads -> Seq(Frame)]
      <4>1. "hungUp" \in Labels
        BY DEF Labels, ServiceLabels
      <4>2. c \in Clients
        BY <2>4, <1>2 DEF RecvFails, Nodes
      <4> QED
        BY <2>4, <2>0, <4>1, <4>2, <1>pc, <1>stack, CallType DEF RecvFails
    <3> QED
      BY <2>4, <3>call DEF TypeOK, RecvFails
  <2>5. CASE Reply(c)
    <3>pc. pc' \in [Threads -> Labels]
      BY <2>5, <2>0, <1>pc DEF Reply, Labels, ServiceLabels
    <3>exited. exited' \in Exits
      BY <2>5, <1>exited DEF Reply, Exits
    <3> QED
      BY <2>5, <3>pc, <3>exited DEF TypeOK, Reply
  <2>6. CASE Unregister(c)
    <3>stack. stack' \in [Threads -> Seq(Frame)]
      <4>1. CASE local[c] = "ABORTED"
        <5>1. "done" \in Labels
          BY DEF Labels, ServiceLabels
        <5> QED
          BY <2>6, <4>1, <5>1, <2>0, <1>pc, <1>stack, CallType DEF Unregister
      <4>2. CASE local[c] # "ABORTED"
        BY <2>6, <4>2, <1>stack DEF Unregister
      <4> QED
        BY <4>1, <4>2
    <3>pc. pc' \in [Threads -> Labels]
      BY <2>6, <2>0, <1>pc DEF Unregister, Labels, ServiceLabels, CallAbort
    <3>registered. registered' \in SUBSET Clients
      BY <2>6, <1>registered DEF Unregister
    <3> QED
      BY <2>6, <3>stack, <3>pc, <3>registered DEF TypeOK, Unregister
  <2>7. CASE UnregisterHungUp(c)
    <3>pc. pc' \in [Threads -> Labels]
      BY <2>7, <2>0, <1>pc DEF UnregisterHungUp, Labels, ServiceLabels
    <3>registered. registered' \in SUBSET Clients
      BY <2>7, <1>registered DEF UnregisterHungUp
    <3> QED
      BY <2>7, <3>pc, <3>registered DEF TypeOK, UnregisterHungUp
  <2>8. CASE RecvOther(c)
    <3>pc. pc' \in [Threads -> Labels]
      BY <2>8, <2>0, <1>pc DEF RecvOther, Labels, ServiceLabels
    <3>ops. ops' \in [Clients -> 0..MaxOps]
      BY <2>8, <1>ops, RequestsAssumption DEF RecvOther
    <3> QED
      BY <2>8, <3>pc, <3>ops DEF TypeOK, RecvOther
  <2> QED
    BY <1>2, <2>1, <2>2, <2>3, <2>4, <2>5, <2>6, <2>7, <2>8 DEF LoopStep
<1>3. ASSUME NEW c \in Clients, StoreStep(c) PROVE TypeOK'
  <2>0. c \in Threads
    BY DEF Threads
  <2>1. CASE LockMap(c)
    <3>pc. pc' \in [Threads -> Labels]
      BY <2>1, <2>0, <1>pc DEF LockMap, Labels, StoreLabels
    <3>mapLock. mapLock' \in Clients \cup {Null}
      BY <2>1 DEF LockMap
    <3> QED
      BY <2>1, <3>pc, <3>mapLock DEF TypeOK, LockMap
  <2>2. CASE ExamineAborted(c)
    <3>key. key[c] \in Keys /\ versions[key[c]] \in Seq(Clients) /\ pos[c] \in Nat \ {0}
      BY <2>2, StoreIsLocked, <1>versions, <1>pos DEF ExamineAborted, StoreIsLocked, HoldLabels
    <3>pc. pc' \in [Threads -> Labels]
      BY <2>2, <2>0, <1>pc DEF ExamineAborted, Labels, StoreLabels
    <3>walk. walk' \in [Clients -> Seq(Clients)]
      BY <2>2, <1>walk, <3>key, Cutting DEF ExamineAborted
    <3>versions. versions' \in [Keys -> Seq(Clients)]
      BY <2>2, <1>versions, <3>key, Cutting DEF ExamineAborted
    <3> QED
      BY <2>2, <3>pc, <3>walk, <3>versions DEF TypeOK, ExamineAborted
  <2>3. CASE ExamineCommitted(c)
    <3>key. key[c] \in Keys /\ versions[key[c]] \in Seq(Clients) /\ pos[c] \in Nat \ {0}
      BY <2>3, StoreIsLocked, <1>versions, <1>pos DEF ExamineCommitted, StoreIsLocked, HoldLabels
    <3>cut. SubSeq(versions[key[c]], pos[c], Len(versions[key[c]])) \in Seq(Clients)
      BY <3>key, Cutting
    <3>refcnt. refcnt' \in [Clients -> Int]
      BY <2>3, <1>refcnt DEF ExamineCommitted
    <3>versions. versions' \in [Keys -> Seq(Clients)]
      BY <2>3, <1>versions, <3>key, <3>cut DEF ExamineCommitted
    <3>pos. pos' \in [Clients -> Nat \ {0}]
      BY <2>3, <1>pos DEF ExamineCommitted
    <3> QED
      BY <2>3, <3>refcnt, <3>versions, <3>pos DEF TypeOK, ExamineCommitted
  <2>4. CASE ExaminePending(c)
    <3>pc. pc' \in [Threads -> Labels]
      BY <2>4, <2>0, <1>pc DEF ExaminePending, Labels, StoreLabels
    <3>pos. pos' \in [Clients -> Nat \ {0}]
      BY <2>4, <1>pos DEF ExaminePending
    <3> QED
      BY <2>4, <3>pc, <3>pos DEF TypeOK, ExaminePending
  <2>5. CASE AddDependency(c)
    <3>key. key[c] \in Keys /\ versions[key[c]] \in Seq(Clients) /\ pos[c] \in Nat \ {0}
      BY <2>5, StoreIsLocked, <1>versions, <1>pos DEF AddDependency, StoreIsLocked, HoldLabels
    <3>dtp. versions[key[c]][pos[c]] \in Clients
      BY <2>5, <3>key, StoreIsLocked DEF AddDependency, StoreIsLocked
    <3>pc. pc' \in [Threads -> Labels]
      BY <2>5, <2>0, <1>pc DEF AddDependency, Labels, StoreLabels
    <3>depends. depends' \in [Clients -> Seq(Clients)]
      BY <2>5, <1>depends, <3>dtp, Prepending DEF AddDependency
    <3>refcnt. refcnt' \in [Clients -> Int]
      BY <2>5, <3>dtp, <1>refcnt DEF AddDependency
    <3>pos. pos' \in [Clients -> Nat \ {0}]
      BY <2>5, <1>pos DEF AddDependency
    <3> QED
      BY <2>5, <3>pc, <3>depends, <3>refcnt, <3>pos DEF TypeOK, AddDependency
  <2>6. CASE ExamineEnd(c)
    <3>pc. pc' \in [Threads -> Labels]
      BY <2>6, <2>0, <1>pc DEF ExamineEnd, Labels, StoreLabels
    <3> QED
      BY <2>6, <3>pc DEF TypeOK, ExamineEnd
  <2>7. CASE AbortDoomed(c)
    <3>hd. Head(walk[c]) \in Clients
      BY <2>7, <1>walk, TakingHead DEF AbortDoomed
    <3>call. pc' \in [Threads -> Labels] /\ stack' \in [Threads -> Seq(Frame)]
      <4>1. "dispose" \in Labels
        BY DEF Labels, StoreLabels
      <4>2. Head(walk[c]) \in Clients
        BY <2>7, <1>walk, TakingHead DEF AbortDoomed, Nodes
      <4> QED
        BY <2>7, <2>0, <4>1, <4>2, <1>pc, <1>stack, CallType DEF AbortDoomed
    <3>refcnt. refcnt' \in [Clients -> Int]
      BY <2>7, <3>hd, <1>refcnt DEF AbortDoomed
    <3> QED
      BY <2>7, <3>call, <3>refcnt DEF TypeOK, AbortDoomed
  <2>8. CASE DisposeDoomed(c)
    <3>tl. Head(walk[c]) \in Clients /\ Tail(walk[c]) \in Seq(Clients)
      BY <2>8, WalkIsAtElement, <1>walk, TakingHead DEF DisposeDoomed, WalkIsAtElement
    <3>pc. pc' \in [Threads -> Labels]
      BY <2>8, <2>0, <1>pc DEF DisposeDoomed, Labels, StoreLabels
    <3>refcnt. refcnt' \in [Clients -> Int]
      BY <2>8, <3>tl, <1>refcnt DEF DisposeDoomed
    <3>walk. walk' \in [Clients -> Seq(Clients)]
      BY <2>8, <1>walk, <3>tl DEF DisposeDoomed
    <3> QED
      BY <2>8, <3>pc, <3>refcnt, <3>walk DEF TypeOK, DisposeDoomed
  <2>9. CASE DoomedEnd(c)
    <3>pc. pc' \in [Threads -> Labels]
      BY <2>9, <2>0, <1>pc DEF DoomedEnd, Labels, StoreLabels
    <3> QED
      BY <2>9, <3>pc DEF TypeOK, DoomedEnd
  <2>10. CASE PlaceConflict(c)
    <3>call. pc' \in [Threads -> Labels] /\ stack' \in [Threads -> Seq(Frame)]
      <4>1. "unlock" \in Labels
        BY DEF Labels, StoreLabels
      <4>2. c \in Clients
        BY <2>10, <1>3 DEF PlaceConflict, Nodes
      <4> QED
        BY <2>10, <2>0, <4>1, <4>2, <1>pc, <1>stack, CallType DEF PlaceConflict
    <3>refcnt. refcnt' \in [Clients -> Int]
      BY <2>10, <1>refcnt DEF PlaceConflict
    <3> QED
      BY <2>10, <3>call, <3>refcnt DEF TypeOK, PlaceConflict
  <2>11. CASE PlaceVersion(c)
    <3>key. key[c] \in Keys /\ versions[key[c]] \in Seq(Clients) /\ pos[c] \in Nat \ {0}
      BY <2>11, StoreIsLocked, <1>versions, <1>pos DEF PlaceVersion, StoreIsLocked, HoldLabels
    <3>app. Append(versions[key[c]], c) \in Seq(Clients)
      BY <3>key
    <3>pc. pc' \in [Threads -> Labels]
      BY <2>11, <2>0, <1>pc DEF PlaceVersion, Labels, StoreLabels
    <3>refcnt. refcnt' \in [Clients -> Int]
      BY <2>11, <1>refcnt DEF PlaceVersion
    <3>versions. versions' \in [Keys -> Seq(Clients)]
      BY <2>11, <1>versions, <3>key, <3>app DEF PlaceVersion
    <3> QED
      BY <2>11, <3>pc, <3>refcnt, <3>versions DEF TypeOK, PlaceVersion
  <2>12. CASE UnlockMap(c)
    <3>pc. pc' \in [Threads -> Labels]
      BY <2>12, <2>0, <1>pc DEF UnlockMap, Labels, StoreLabels
    <3>mapLock. mapLock' \in Clients \cup {Null}
      BY <2>12 DEF UnlockMap
    <3>key. key' \in [Clients -> Keys \cup {Null}]
      BY <2>12, <1>key DEF UnlockMap
    <3>pos. pos' \in [Clients -> Nat \ {0}]
      BY <2>12, <1>pos DEF UnlockMap
    <3> QED
      BY <2>12, <3>pc, <3>mapLock, <3>key, <3>pos DEF TypeOK, UnlockMap
  <2>13. CASE StoreResult(c)
    <3>pc. pc' \in [Threads -> Labels]
      BY <2>13, <2>0, <1>pc DEF StoreResult, Labels, ServiceLabels
    <3>local. local' \in [Clients -> Status]
      BY <2>13, <1>local, <1>status DEF StoreResult
    <3> QED
      BY <2>13, <3>pc, <3>local DEF TypeOK, StoreResult
  <2> QED
    BY <1>3, <2>1, <2>2, <2>3, <2>4, <2>5, <2>6, <2>7, <2>8, <2>9, <2>10, <2>11, <2>12,
       <2>13 DEF StoreStep
<1>4. ASSUME NEW c \in Clients, CommitStep(c) PROVE TypeOK'
  <2>0. c \in Threads
    BY DEF Threads
  <2>1. CASE CommitAcquire(c)
    <3>pc. pc' \in [Threads -> Labels]
      BY <2>1, <2>0, <1>pc DEF CommitAcquire, Labels, CommitLabels
    <3>sem. sem' \in [Clients -> Nat]
      BY <2>1, <1>sem DEF CommitAcquire
    <3>local. local' \in [Clients -> Status]
      BY <2>1, <1>local DEF CommitAcquire, Status
    <3>walk. walk' \in [Clients -> Seq(Clients)]
      BY <2>1, <1>walk, <1>depends DEF CommitAcquire
    <3> QED
      BY <2>1, <3>pc, <3>sem, <3>local, <3>walk DEF TypeOK, CommitAcquire
  <2>2. CASE CommitWalkEnd(c)
    <3>pc. pc' \in [Threads -> Labels]
      BY <2>2, <2>0, <1>pc DEF CommitWalkEnd, Labels, CommitLabels
    <3> QED
      BY <2>2, <3>pc DEF TypeOK, CommitWalkEnd
  <2>3. CASE CommitCheck(c)
    <3>pc. pc' \in [Threads -> Labels]
      BY <2>3, <2>0, <1>pc DEF CommitCheck, Labels, CommitLabels
    <3>local. local' \in [Clients -> Status]
      BY <2>3, <1>local DEF CommitCheck, Status
    <3> QED
      BY <2>3, <3>pc, <3>local DEF TypeOK, CommitCheck
  <2>4. CASE CommitRecheck(c)
    <3>tl. Head(walk[c]) \in Clients /\ Tail(walk[c]) \in Seq(Clients)
      BY <2>4, WalkIsAtElement, <1>walk, TakingHead DEF CommitRecheck, WalkIsAtElement
    <3>pc. pc' \in [Threads -> Labels]
      BY <2>4, <2>0, <1>pc DEF CommitRecheck, Labels, CommitLabels
    <3>walk. walk' \in [Clients -> Seq(Clients)]
      BY <2>4, <1>walk, <3>tl DEF CommitRecheck
    <3> QED
      BY <2>4, <3>pc, <3>walk DEF TypeOK, CommitRecheck
  <2>5. CASE CommitEnlist(c)
    <3>tl. Head(walk[c]) \in Clients /\ Tail(walk[c]) \in Seq(Clients)
      BY <2>5, WalkIsAtElement, <1>walk, TakingHead DEF CommitEnlist, WalkIsAtElement
    <3>pc. pc' \in [Threads -> Labels]
      BY <2>5, <2>0, <1>pc DEF CommitEnlist, Labels, CommitLabels
    <3>waitcnt. waitcnt' \in [Clients -> Nat]
      BY <2>5, <3>tl, <1>waitcnt DEF CommitEnlist
    <3> QED
      BY <2>5, <3>pc, <3>waitcnt DEF TypeOK, CommitEnlist
  <2>6. CASE CommitWait(c)
    <3>pc. pc' \in [Threads -> Labels]
      BY <2>6, <2>0, <1>pc DEF CommitWait, Labels, CommitLabels
    <3> QED
      BY <2>6, <3>pc DEF TypeOK, CommitWait
  <2>7. CASE CommitWaitP(c)
    <3>tl. Head(walk[c]) \in Clients /\ Tail(walk[c]) \in Seq(Clients)
      BY <2>7, WalkIsAtElement, <1>walk, TakingHead DEF CommitWaitP, WalkIsAtElement
    <3>pc. pc' \in [Threads -> Labels]
      BY <2>7, <2>0, <1>pc DEF CommitWaitP, Labels, CommitLabels
    <3>sem. sem' \in [Clients -> Nat]
      BY <2>7, <3>tl, <1>sem DEF CommitWaitP
    <3> QED
      BY <2>7, <3>pc, <3>sem DEF TypeOK, CommitWaitP
  <2>8. CASE CommitWaitV(c)
    <3>tl. Head(walk[c]) \in Clients /\ Tail(walk[c]) \in Seq(Clients)
      BY <2>8, WalkIsAtElement, <1>walk, TakingHead DEF CommitWaitV, WalkIsAtElement
    <3>pc. pc' \in [Threads -> Labels]
      BY <2>8, <2>0, <1>pc DEF CommitWaitV, Labels, CommitLabels
    <3>sem. sem' \in [Clients -> Nat]
      BY <2>8, <3>tl, <1>sem DEF CommitWaitV
    <3> QED
      BY <2>8, <3>pc, <3>sem DEF TypeOK, CommitWaitV
  <2>9. CASE CommitOutcome(c)
    <3>tl. Head(walk[c]) \in Clients /\ Tail(walk[c]) \in Seq(Clients)
      BY <2>9, WalkIsAtElement, <1>walk, TakingHead DEF CommitOutcome, WalkIsAtElement
    <3>pc. pc' \in [Threads -> Labels]
      BY <2>9, <2>0, <1>pc DEF CommitOutcome, Labels, CommitLabels
    <3>local. local' \in [Clients -> Status]
      BY <2>9, <1>local DEF CommitOutcome, Status
    <3>walk. walk' \in [Clients -> Seq(Clients)]
      BY <2>9, <1>walk, <3>tl DEF CommitOutcome
    <3> QED
      BY <2>9, <3>pc, <3>local, <3>walk DEF TypeOK, CommitOutcome
  <2>10. CASE CommitDecide(c)
    <3>pc. pc' \in [Threads -> Labels]
      BY <2>10, <2>0, <1>pc DEF CommitDecide, Labels, CommitLabels
    <3>status. status' \in [Clients -> Status]
      BY <2>10, <1>status, <1>local DEF CommitDecide
    <3>walk. walk' \in [Clients -> Seq(Clients)]
      BY <2>10, <1>walk DEF CommitDecide
    <3> QED
      BY <2>10, <3>pc, <3>status, <3>walk DEF TypeOK, CommitDecide
  <2>11. CASE CommitFinish(c)
    <3>pc. pc' \in [Threads -> Labels]
      BY <2>11, <2>0, <1>pc DEF CommitFinish, Labels, CommitLabels
    <3>sem. sem' \in [Clients -> Nat]
      BY <2>11, <1>sem, <1>waitcnt DEF CommitFinish, ReleaseAndPost
    <3>waitcnt. waitcnt' \in [Clients -> Nat]
      BY <2>11, <1>waitcnt DEF CommitFinish, ReleaseAndPost
    <3>refcnt. refcnt' \in [Clients -> Int]
      BY <2>11, <1>refcnt DEF CommitFinish, ReleaseAndPost
    <3> QED
      BY <2>11, <3>pc, <3>sem, <3>waitcnt, <3>refcnt DEF TypeOK, CommitFinish
  <2>12. CASE CommitReturn(c)
    <3>pc. pc' \in [Threads -> Labels]
      BY <2>12, <2>0, <1>pc DEF CommitReturn, Labels, ServiceLabels
    <3>local. local' \in [Clients -> Status]
      BY <2>12, <1>local, <1>status DEF CommitReturn
    <3> QED
      BY <2>12, <3>pc, <3>local DEF TypeOK, CommitReturn
  <2> QED
    BY <1>4, <2>1, <2>2, <2>3, <2>4, <2>5, <2>6, <2>7, <2>8, <2>9, <2>10, <2>11,
       <2>12 DEF CommitStep
<1>5. ASSUME NEW t \in Threads, AbortStep(t) PROVE TypeOK'
  <2>1. CASE AbortFatal(t)
    <3>top. /\ Top(t) \in Frame /\ Tail(stack[t]) \in Seq(Frame)
            /\ Top(t).tp \in Clients /\ Top(t).rest \in Seq(Clients)
      BY <2>1, <1>stack, TopType DEF AbortFatal, Aborting
    <3>set. <<[Top(t) EXCEPT !.at = "pending"]>> \o Tail(stack[t]) \in Seq(Frame)
      <4>1. [Top(t) EXCEPT !.at = "pending"] \in Frame
        BY <3>top, <1>depends DEF Frame
      <4> QED
        BY <4>1, <3>top, Prepending
    <3>exited. exited' \in Exits
      BY <2>1, <1>exited DEF AbortFatal, Exits
    <3>stack. stack' \in [Threads -> Seq(Frame)]
      BY <2>1, <1>stack, <3>set DEF AbortFatal, SetTop
    <3> QED
      BY <2>1, <3>exited, <3>stack DEF TypeOK, AbortFatal
  <2>2. CASE AbortPending(t)
    <3>top. /\ Top(t) \in Frame /\ Tail(stack[t]) \in Seq(Frame)
            /\ Top(t).tp \in Clients /\ Top(t).rest \in Seq(Clients)
      BY <2>2, <1>stack, TopType DEF AbortPending, Aborting
    <3>set. <<[Top(t) EXCEPT !.at = "acquire"]>> \o Tail(stack[t]) \in Seq(Frame)
      <4>1. [Top(t) EXCEPT !.at = "acquire"] \in Frame
        BY <3>top, <1>depends DEF Frame
      <4> QED
        BY <4>1, <3>top, Prepending
    <3>stack. stack' \in [Threads -> Seq(Frame)]
      BY <2>2, <1>stack, <3>set, <3>top DEF AbortPending, SetTop, Return
    <3> QED
      BY <2>2, <3>stack DEF TypeOK, AbortPending
  <2>3. CASE AbortAcquire(t)
    <3>top. /\ Top(t) \in Frame /\ Tail(stack[t]) \in Seq(Frame)
            /\ Top(t).tp \in Clients /\ Top(t).rest \in Seq(Clients)
      BY <2>3, <1>stack, TopType DEF AbortAcquire, Aborting
    <3>set. <<[tp |-> Top(t).tp, at |-> "loop", rest |-> depends[Top(t).tp]]>> \o Tail(stack[t])
               \in Seq(Frame)
      <4>1. [tp |-> Top(t).tp, at |-> "loop", rest |-> depends[Top(t).tp]] \in Frame
        BY <3>top, <1>depends DEF Frame
      <4> QED
        BY <4>1, <3>top, Prepending
    <3>sem. sem' \in [Clients -> Nat]
      BY <2>3, <3>top, <1>sem DEF AbortAcquire
    <3>status. status' \in [Clients -> Status]
      BY <2>3, <1>status DEF AbortAcquire, Status
    <3>stack. stack' \in [Threads -> Seq(Frame)]
      BY <2>3, <1>stack, <3>set DEF AbortAcquire, SetTop
    <3> QED
      BY <2>3, <3>sem, <3>status, <3>stack DEF TypeOK, AbortAcquire
  <2>4. CASE AbortDependency(t)
    <3>top. /\ Top(t) \in Frame /\ Tail(stack[t]) \in Seq(Frame)
            /\ Top(t).tp \in Clients /\ Top(t).rest \in Seq(Clients)
      BY <2>4, <1>stack, TopType DEF AbortDependency, Aborting
    <3>hd. Head(Top(t).rest) \in Clients /\ Tail(Top(t).rest) \in Seq(Clients)
      BY <2>4, <3>top, TakingHead DEF AbortDependency
    <3>f. [tp |-> Head(Top(t).rest), at |-> "fatal", rest |-> <<>>] \in Frame
      BY <3>hd DEF Frame
    <3>g. [Top(t) EXCEPT !.rest = Tail(@)] \in Frame
      BY <3>hd, <3>top DEF Frame
    <3>set. <<[tp |-> Head(Top(t).rest), at |-> "fatal", rest |-> <<>>],
              [Top(t) EXCEPT !.rest = Tail(@)]>> \o Tail(stack[t]) \in Seq(Frame)
      BY <3>f, <3>g, <3>top
    <3>stack. stack' \in [Threads -> Seq(Frame)]
      BY <2>4, <1>stack, <3>set DEF AbortDependency
    <3> QED
      BY <2>4, <3>stack DEF TypeOK, AbortDependency
  <2>5. CASE AbortFinish(t)
    <3>top. /\ Top(t) \in Frame /\ Tail(stack[t]) \in Seq(Frame)
            /\ Top(t).tp \in Clients /\ Top(t).rest \in Seq(Clients)
      BY <2>5, <1>stack, TopType DEF AbortFinish, Aborting
    <3>sem. sem' \in [Clients -> Nat]
      BY <2>5, <3>top, <1>sem, <1>waitcnt DEF AbortFinish, ReleaseAndPost
    <3>waitcnt. waitcnt' \in [Clients -> Nat]
      BY <2>5, <1>waitcnt DEF AbortFinish, ReleaseAndPost
    <3>refcnt. refcnt' \in [Clients -> Int]
      BY <2>5, <3>top, <1>refcnt DEF AbortFinish, ReleaseAndPost
    <3>stack. stack' \in [Threads -> Seq(Frame)]
      BY <2>5, <1>stack, <3>top DEF AbortFinish, Return
    <3> QED
      BY <2>5, <3>sem, <3>waitcnt, <3>refcnt, <3>stack DEF TypeOK, AbortFinish
  <2> QED
    BY <1>5, <2>1, <2>2, <2>3, <2>4, <2>5 DEF AbortStep
<1>6. ASSUME TerminateStep PROVE TypeOK'
  <2>0. Main \in Threads
    BY DEF Threads
  <2>1. CASE Sighup
    <3>pc. pc' \in [Threads -> Labels]
      BY <2>1, <2>0, <1>pc DEF Sighup, Labels, MainLabels
    <3>conn. conn' \in [Clients -> Conns]
      BY <2>1, <1>conn DEF Sighup, Conns
    <3> QED
      BY <2>1, <3>pc, <3>conn DEF TypeOK, Sighup
  <2>2. CASE WaitForEmpty \/ WaitAgain
    <3>pc. pc' \in [Threads -> Labels]
      BY <2>2, <2>0, <1>pc DEF WaitForEmpty, WaitAgain, Labels, MainLabels
    <3> QED
      BY <2>2, <3>pc DEF TypeOK, WaitForEmpty, WaitAgain
  <2>7. CASE WaitEnds
    <3>pc. pc' \in [Threads -> Labels]
      BY <2>7, <2>0, <1>pc DEF WaitEnds, Labels, MainLabels
    <3>cursor. cursor' \in Nodes
      BY <2>7, <1>next DEF WaitEnds, Nodes
    <3> QED
      BY <2>7, <3>pc, <3>cursor DEF TypeOK, WaitEnds
  <2>8. CASE \E c \in Clients : UseFreedRegistry(c)
    <3>1. exited' \in Exits
      BY <2>8 DEF UseFreedRegistry, Exits
    <3> QED
      BY <2>8, <3>1 DEF TypeOK, UseFreedRegistry
  <2>3. CASE FiniAbort
    <3>call. pc' \in [Threads -> Labels] /\ stack' \in [Threads -> Seq(Frame)]
      <4>1. "finiNext" \in Labels
        BY DEF Labels, MainLabels
      <4>2. cursor \in Clients
        BY <2>3, <1>cursor DEF FiniAbort, Nodes
      <4> QED
        BY <2>3, <2>0, <4>1, <4>2, <1>pc, <1>stack, CallType DEF FiniAbort
    <3> QED
      BY <2>3, <3>call DEF TypeOK, FiniAbort
  <2>4. CASE FiniNext
    <3>pc. pc' \in [Threads -> Labels]
      BY <2>4, <2>0, <1>pc DEF FiniNext, Labels, MainLabels
    <3>cursor. cursor' \in Nodes
      BY <2>4, <1>next, <1>cursor DEF FiniNext
    <3> QED
      BY <2>4, <3>pc, <3>cursor DEF TypeOK, FiniNext
  <2>5. CASE FiniEnd
    <3>pc. pc' \in [Threads -> Labels]
      BY <2>5, <2>0, <1>pc DEF FiniEnd, Labels, MainLabels
    <3> QED
      BY <2>5, <3>pc DEF TypeOK, FiniEnd
  <2>6. CASE FiniStore
    <3>exited. exited' \in Exits
      BY <2>6 DEF FiniStore, Exits
    <3> QED
      BY <2>6, <3>exited DEF TypeOK, FiniStore
  <2> QED
    BY <1>6, <2>1, <2>2, <2>3, <2>4, <2>5, <2>6, <2>7, <2>8 DEF TerminateStep
<1>7. CASE UNCHANGED vars
  BY <1>7 DEF TypeOK
<1> QED
  BY <1>1, <1>2, <1>3, <1>4, <1>5, <1>6, <1>7 DEF Next, Halted, AcceptBlocks

-------------------------------------------------------------------------------
(* The invariant parts.                                                    *)

\* A transaction that exists stays in existence: no thread returns to a label
\* before the end of trans_create's initialisation.
LEMMA KnownGrows ==
    ASSUME TypeOK, [Next]_vars
    PROVE  Known \subseteq Known'
<1> USE DEF Known, At, Goto, CallAbort
<1>0. pc \in [Threads -> Labels]
  BY DEF TypeOK
<1>1. ASSUME NEW c \in Clients, CreateStep(c) \/ HangUp(c) PROVE Known \subseteq Known'
  BY <1>0, <1>1 DEF Threads, CreateStep, Accept, Register, Create, Link, LinkTail, LoadId,
     StoreId, HangUp
<1>2. ASSUME NEW c \in Clients, LoopStep(c) PROVE Known \subseteq Known'
  BY <1>0, <1>2 DEF Threads, LoopStep, RecvRequest, RecvPartialRequest, RecvOther, RecvCommit,
     RecvFails,
     Reply, Unregister, UnregisterHungUp
<1>3. ASSUME NEW c \in Clients, StoreStep(c) PROVE Known \subseteq Known'
  BY <1>0, <1>3 DEF Threads, StoreStep, LockMap, ExamineAborted, ExamineCommitted,
     ExaminePending, AddDependency, ExamineEnd, AbortDoomed, DisposeDoomed, DoomedEnd,
     PlaceConflict, PlaceVersion, UnlockMap, StoreResult
<1>4. ASSUME NEW c \in Clients, CommitStep(c) PROVE Known \subseteq Known'
  BY <1>0, <1>4 DEF Threads, CommitStep, CommitAcquire, CommitWalkEnd, CommitCheck,
     CommitRecheck, CommitEnlist, CommitWait, CommitWaitP, CommitWaitV, CommitOutcome,
     CommitDecide, CommitFinish, CommitReturn
<1>5. ASSUME NEW t \in Threads, AbortStep(t) PROVE Known \subseteq Known'
  BY <1>0, <1>5 DEF AbortStep, AbortFatal, AbortPending, AbortAcquire, AbortDependency,
     AbortFinish
<1>6. ASSUME TerminateStep PROVE Known \subseteq Known'
  BY <1>0, <1>6, ClientsAssumption DEF Threads, TerminateStep, Sighup, WaitForEmpty, WaitAgain,
     WaitEnds, UseFreedRegistry, FiniAbort, FiniNext, FiniEnd, FiniStore
<1>7. CASE UNCHANGED vars
  BY <1>7 DEF vars
<1> QED
  BY <1>1, <1>2, <1>3, <1>4, <1>5, <1>6, <1>7 DEF Next, Halted, AcceptBlocks

\* trans_create writes the fields of a transaction in one step, and nothing the
\* store or another thread owns.
LEMMA CreateFrame ==
    ASSUME NEW c \in Clients, CreateStep(c)
    PROVE  /\ UNCHANGED <<versions, mapLock, walk, cursor, stack, local, key, pos>>
           /\ Create(c) \/ UNCHANGED <<tid, status, depends>>
  BY DEF CreateStep, Accept, Register, Link, LinkTail, LoadId, StoreId, Create, transVars,
     storeVars, localVars

\* The request loop touches no transaction and no version.
LEMMA LoopFrame ==
    ASSUME NEW c \in Clients, LoopStep(c)
    PROVE  UNCHANGED <<tid, status, depends, versions, mapLock, walk, pos, next, tail, cursor>>
  BY DEF LoopStep, RecvRequest, RecvPartialRequest, RecvOther, RecvCommit, RecvFails, Reply,
     Unregister,
     UnregisterHungUp, transVars, storeVars, listVars, localVars

\* The store writes no ID and no status, and a dependency set in one step only.
LEMMA StoreFrame ==
    ASSUME NEW c \in Clients, StoreStep(c)
    PROVE  /\ UNCHANGED <<tid, status, next, tail, cursor>>
           /\ UNCHANGED depends \/ AddDependency(c)
<1>1. UNCHANGED <<tid, status, next, tail, cursor>>
  BY DEF StoreStep, LockMap, ExamineAborted, ExamineCommitted, ExaminePending, AddDependency,
     ExamineEnd, AbortDoomed, DisposeDoomed, DoomedEnd, PlaceConflict, PlaceVersion, UnlockMap,
     StoreResult, transVars, listVars, localVars
<1>2. UNCHANGED depends \/ AddDependency(c)
  BY DEF StoreStep, LockMap, ExamineAborted, ExamineCommitted, ExaminePending,
     ExamineEnd, AbortDoomed, DisposeDoomed, DoomedEnd, PlaceConflict, PlaceVersion, UnlockMap,
     StoreResult, transVars
<1> QED
  BY <1>1, <1>2

\* trans_commit leaves the store and the dependency sets alone.
LEMMA CommitFrame ==
    ASSUME NEW c \in Clients, CommitStep(c)
    PROVE  /\ UNCHANGED <<tid, depends, next, tail, versions, mapLock, cursor, stack, key, pos>>
           /\ UNCHANGED status \/ CommitDecide(c)
<1>1. UNCHANGED <<tid, depends, next, tail, versions, mapLock, cursor, stack, key, pos>>
  BY DEF CommitStep, CommitAcquire, CommitWalkEnd, CommitCheck, CommitRecheck, CommitEnlist,
     CommitWait, CommitWaitP, CommitWaitV, CommitOutcome, CommitDecide, CommitFinish,
     CommitReturn, transVars, listVars, storeVars, localVars
<1>2. UNCHANGED status \/ CommitDecide(c)
  BY DEF CommitStep, CommitAcquire, CommitWalkEnd, CommitCheck, CommitRecheck, CommitEnlist,
     CommitWait, CommitWaitP, CommitWaitV, CommitOutcome, CommitFinish, CommitReturn, transVars
<1> QED
  BY <1>1, <1>2

\* trans_abort writes statuses, semaphores and reference counts only.
LEMMA AbortFrame ==
    ASSUME NEW t \in Threads, AbortStep(t)
    PROVE  /\ UNCHANGED <<tid, depends, next, tail, versions, mapLock, walk, cursor, local, key,
                          pos, pc>>
           /\ UNCHANGED status \/ AbortAcquire(t)
<1>1. UNCHANGED <<tid, depends, next, tail, versions, mapLock, walk, cursor, local, key, pos, pc>>
  BY DEF AbortStep, AbortFatal, AbortPending, AbortAcquire, AbortDependency, AbortFinish,
     transVars, listVars, storeVars, localVars
<1>2. UNCHANGED status \/ AbortAcquire(t)
  BY DEF AbortStep, AbortFatal, AbortPending, AbortDependency, AbortFinish, transVars
<1> QED
  BY <1>1, <1>2

\* terminate moves no service thread; what it aborts it aborts in trans_abort.
LEMMA TerminateFrame ==
    ASSUME TerminateStep, pc \in [Threads -> Labels]
    PROVE  /\ UNCHANGED <<tid, status, depends, next, tail, versions, mapLock, walk, local, key,
                          pos>>
           /\ \A c \in Clients : pc'[c] = pc[c]
  BY ClientsAssumption DEF TerminateStep, Sighup, WaitForEmpty, WaitAgain, WaitEnds,
     UseFreedRegistry, FiniAbort, FiniNext, FiniEnd, FiniStore, CallAbort, Goto, transVars,
     listVars, storeVars, localVars, Threads

\* HangUp, Halted, AcceptBlocks and stuttering change only the connections.
LEMMA NextCases ==
    ASSUME [Next]_vars
    PROVE  \/ \E c \in Clients :
                 CreateStep(c) \/ LoopStep(c) \/ StoreStep(c) \/ CommitStep(c)
           \/ \E t \in Threads : AbortStep(t)
           \/ TerminateStep
           \/ UNCHANGED <<transVars, listVars, storeVars, pc, stack, localVars>>
  BY DEF Next, HangUp, Halted, AcceptBlocks, vars, transVars, listVars, storeVars, localVars

\* No step makes a decided transaction pending again: trans_create starts with
\* a transaction nobody knows, and trans_commit decides before it writes.
LEMMA StaysDecided ==
    ASSUME TypeOK, UnknownPending, CommitProgress, [Next]_vars
    PROVE  \A d \in Clients : status[d] # "PENDING" => status'[d] # "PENDING"
<1>status. status \in [Clients -> Status] /\ local \in [Clients -> Status]
  BY DEF TypeOK
<1>stack. stack \in [Threads -> Seq(Frame)]
  BY DEF TypeOK
<1>1. ASSUME NEW c \in Clients, Create(c)
      PROVE  \A d \in Clients : status[d] # "PENDING" => status'[d] # "PENDING"
  <2>1. status[c] = "PENDING"
    BY <1>1 DEF UnknownPending, Known, Create, At
  <2> QED
    BY <1>1, <1>status, <2>1 DEF Create
<1>2. ASSUME NEW c \in Clients, CommitDecide(c)
      PROVE  \A d \in Clients : status[d] # "PENDING" => status'[d] # "PENDING"
  <2>1. local[c] # "PENDING"
    BY <1>2 DEF CommitProgress, CommitDecide, At
  <2> QED
    BY <1>2, <1>status, <2>1 DEF CommitDecide
<1>3. ASSUME NEW t \in Threads, AbortAcquire(t)
      PROVE  \A d \in Clients : status[d] # "PENDING" => status'[d] # "PENDING"
  BY <1>3, <1>status DEF AbortAcquire
<1> QED
  BY <1>1, <1>2, <1>3, NextCases, CreateFrame, LoopFrame, StoreFrame, CommitFrame, AbortFrame,
     TerminateFrame DEF transVars, TypeOK

\* A part that speaks of a variable the step does not write is kept, because
\* Known only grows.
LEMMA KnownFrame ==
    ASSUME PointersAreKnown, Known \subseteq Known'
    PROVE  /\ UNCHANGED depends => DependsKnown'
           /\ UNCHANGED walk => WalkKnown'
           /\ UNCHANGED versions => VersionsKnown'
           /\ UNCHANGED stack => StackKnown'
           /\ UNCHANGED <<next, tail, cursor>> => ListKnown'
           /\ UNCHANGED status => UnknownPending'
  BY DEF PointersAreKnown, DependsKnown, WalkKnown, VersionsKnown, StackKnown, FrameKnown,
     ListKnown, UnknownPending

\* trans_add_dependency is given the creator of a version.
LEMMA DependsKnownStep ==
    ASSUME TypeOK, PointersAreKnown, StoreIsLocked, [Next]_vars, Known \subseteq Known'
    PROVE  DependsKnown'
<1>depends. depends \in [Clients -> Seq(Clients)]
  BY DEF TypeOK
<1>1. ASSUME NEW c \in Clients, Create(c) PROVE DependsKnown'
  <2>1. \A d \in Clients : Range(depends'[d]) \subseteq Range(depends[d])
    BY <1>1, <1>depends DEF Create, Range
  <2> QED
    BY <2>1 DEF PointersAreKnown, DependsKnown
<1>2. ASSUME NEW c \in Clients, AddDependency(c) PROVE DependsKnown'
  <2> DEFINE dtp == versions[key[c]][pos[c]]
  <2>1. key[c] \in Keys /\ pos[c] <= Len(versions[key[c]])
    BY <1>2 DEF StoreIsLocked, AddDependency, At, HoldLabels
  <2>2. versions[key[c]] \in Seq(Clients) /\ pos[c] \in Nat \ {0}
    BY <2>1 DEF TypeOK
  <2>3. dtp \in Clients /\ dtp \in Range(versions[key[c]])
    BY <2>1, <2>2 DEF Range
  <2>4. dtp \in Known
    BY <2>1, <2>3 DEF PointersAreKnown, VersionsKnown
  <2>5. Range(<<dtp>> \o depends[c]) = {dtp} \cup Range(depends[c])
    BY <1>depends, <2>3, Prepending
  <2>6. depends' = [depends EXCEPT ![c] = <<dtp>> \o @]
    BY <1>2 DEF AddDependency
  <2> HIDE DEF dtp
  <2> QED
    BY <1>depends, <2>4, <2>5, <2>6 DEF PointersAreKnown, DependsKnown
<1> QED
  BY <1>1, <1>2, NextCases, CreateFrame, LoopFrame, StoreFrame, CommitFrame, AbortFrame,
     TerminateFrame, KnownFrame DEF transVars, TypeOK

\* A loop walks a dependency set or a cut-off part of a version list.
LEMMA WalkKnownStep ==
    ASSUME TypeOK, PointersAreKnown, StoreIsLocked, WalkIsAtElement, [Next]_vars,
           Known \subseteq Known'
    PROVE  WalkKnown'
<1>walk. walk \in [Clients -> Seq(Clients)]
  BY DEF TypeOK
<1>depends. depends \in [Clients -> Seq(Clients)]
  BY DEF TypeOK
<1>0. ASSUME NEW c \in Clients, NEW s, walk' = [walk EXCEPT ![c] = s], Range(s) \subseteq Known
      PROVE  WalkKnown'
  BY <1>0, <1>walk DEF PointersAreKnown, WalkKnown
<1>1. ASSUME NEW c \in Clients, ExamineAborted(c) PROVE WalkKnown'
  <2>1. key[c] \in Keys
    BY <1>1 DEF StoreIsLocked, ExamineAborted, At, HoldLabels
  <2>2. versions[key[c]] \in Seq(Clients) /\ pos[c] \in Nat \ {0}
    BY <2>1 DEF TypeOK
  <2>3. Range(SubSeq(versions[key[c]], pos[c], Len(versions[key[c]])))
           \subseteq Range(versions[key[c]])
    BY <2>2, Cutting
  <2>4. Range(versions[key[c]]) \subseteq Known
    BY <2>1 DEF PointersAreKnown, VersionsKnown
  <2> QED
    BY <1>0, <1>1, <2>3, <2>4 DEF ExamineAborted
<1>2. ASSUME NEW c \in Clients, walk' = [walk EXCEPT ![c] = Tail(@)], walk[c] # <<>>
      PROVE  WalkKnown'
  <2>1. Range(Tail(walk[c])) \subseteq Range(walk[c])
    BY <1>2, <1>walk, TakingHead
  <2>2. walk' = [walk EXCEPT ![c] = Tail(walk[c])]
    BY <1>2, <1>walk
  <2>3. Range(Tail(walk[c])) \subseteq Known
    BY <2>1 DEF PointersAreKnown, WalkKnown
  <2> QED
    BY <1>0, <2>2, <2>3
<1>3. ASSUME NEW c \in Clients, DisposeDoomed(c) \/ CommitRecheck(c) \/ CommitOutcome(c)
      PROVE  WalkKnown'
  <2>1. walk[c] # <<>>
    BY <1>3 DEF WalkIsAtElement, DisposeDoomed, CommitRecheck, CommitOutcome, At
  <2>2. UNCHANGED walk \/ walk' = [walk EXCEPT ![c] = Tail(@)]
    BY <1>3 DEF DisposeDoomed, CommitRecheck, CommitOutcome
  <2> QED
    BY <1>2, <2>1, <2>2, KnownFrame
<1>4. ASSUME NEW c \in Clients, CommitAcquire(c) PROVE WalkKnown'
  <2>1. Range(depends[c]) \subseteq Known
    BY DEF PointersAreKnown, DependsKnown
  <2> QED
    BY <1>0, <1>4, <2>1 DEF CommitAcquire
<1>5. ASSUME NEW c \in Clients, CommitDecide(c) PROVE WalkKnown'
  <2>1. Range(<<>>) \subseteq Known
    BY DEF Range
  <2> QED
    BY <1>0, <1>5, <2>1 DEF CommitDecide
<1>6. ASSUME NEW c \in Clients, StoreStep(c) PROVE WalkKnown'
  <2>1. UNCHANGED walk \/ ExamineAborted(c) \/ DisposeDoomed(c)
    BY <1>6 DEF StoreStep, LockMap, ExamineCommitted, ExaminePending, AddDependency, ExamineEnd,
       AbortDoomed, DoomedEnd, PlaceConflict, PlaceVersion, UnlockMap, StoreResult, localVars
  <2> QED
    BY <1>1, <1>3, <2>1, KnownFrame
<1>7. ASSUME NEW c \in Clients, CommitStep(c) PROVE WalkKnown'
  <2>1. \/ UNCHANGED walk
        \/ CommitAcquire(c) \/ CommitRecheck(c) \/ CommitOutcome(c) \/ CommitDecide(c)
    BY <1>7 DEF CommitStep, CommitWalkEnd, CommitCheck, CommitEnlist, CommitWait, CommitWaitP,
       CommitWaitV, CommitFinish, CommitReturn, localVars
  <2> QED
    BY <1>3, <1>4, <1>5, <2>1, KnownFrame
<1> QED
  BY <1>6, <1>7, NextCases, CreateFrame, LoopFrame, AbortFrame, TerminateFrame, KnownFrame
     DEF localVars, TypeOK

\* The store cuts its version lists and appends its caller.
LEMMA VersionsKnownStep ==
    ASSUME TypeOK, PointersAreKnown, StoreIsLocked, [Next]_vars, Known \subseteq Known'
    PROVE  VersionsKnown'
<1>versions. versions \in [Keys -> Seq(Clients)]
  BY DEF TypeOK
<1>0. ASSUME NEW k \in Keys, NEW s, versions' = [versions EXCEPT ![k] = s], Range(s) \subseteq Known
      PROVE  VersionsKnown'
  BY <1>0, <1>versions DEF PointersAreKnown, VersionsKnown
<1>1. ASSUME NEW c \in Clients, NEW i \in Nat \ {0}, NEW j \in Int, key[c] \in Keys,
             j <= Len(versions[key[c]]),
             versions' = [versions EXCEPT ![key[c]] = SubSeq(versions[key[c]], i, j)]
      PROVE  VersionsKnown'
  <2>1. Range(SubSeq(versions[key[c]], i, j)) \subseteq Range(versions[key[c]])
    BY <1>1, <1>versions, Cutting
  <2>2. Range(SubSeq(versions[key[c]], i, j)) \subseteq Known
    BY <1>1, <2>1 DEF PointersAreKnown, VersionsKnown
  <2> QED
    BY <1>0, <1>1, <2>2
<1>2. ASSUME NEW c \in Clients, ExamineAborted(c) \/ ExamineCommitted(c) PROVE VersionsKnown'
  <2>1. key[c] \in Keys
    BY <1>2 DEF StoreIsLocked, ExamineAborted, ExamineCommitted, At, HoldLabels
  <2>2. versions[key[c]] \in Seq(Clients) /\ pos[c] \in Nat \ {0}
    BY <2>1 DEF TypeOK
  <2>3. Len(versions[key[c]]) \in Int /\ Len(versions[key[c]]) <= Len(versions[key[c]])
    BY <2>2
  <2>4. CASE ExamineAborted(c)
    <3>1. pos[c] - 1 \in Int /\ pos[c] - 1 <= Len(versions[key[c]]) /\ 1 \in Nat \ {0}
      BY <2>2, <2>3, <2>4 DEF ExamineAborted
    <3>2. versions' = [versions EXCEPT ![key[c]] = SubSeq(versions[key[c]], 1, pos[c] - 1)]
      BY <2>4 DEF ExamineAborted
    <3> QED
      BY <1>1, <2>1, <3>1, <3>2
  <2>5. CASE ExamineCommitted(c)
    <3>1. \/ UNCHANGED versions
          \/ versions' = [versions EXCEPT ![key[c]] =
                             SubSeq(versions[key[c]], pos[c], Len(versions[key[c]]))]
      BY <2>5 DEF ExamineCommitted
    <3> QED
      BY <1>1, <2>1, <2>2, <2>3, <3>1, KnownFrame
  <2> QED
    BY <1>2, <2>4, <2>5
<1>3. ASSUME NEW c \in Clients, PlaceVersion(c) PROVE VersionsKnown'
  <2>1. key[c] \in Keys /\ c \in Known
    BY <1>3 DEF StoreIsLocked, PlaceVersion, At, HoldLabels, Known
  <2>2. Range(Append(versions[key[c]], c)) \subseteq Known
    BY <2>1, <1>versions, Appending DEF PointersAreKnown, VersionsKnown
  <2>3. UNCHANGED versions \/ versions' = [versions EXCEPT ![key[c]] = Append(versions[key[c]], c)]
    BY <1>3, <1>versions, <2>1 DEF PlaceVersion
  <2> QED
    BY <1>0, <2>1, <2>2, <2>3, KnownFrame
<1>4. ASSUME NEW c \in Clients, StoreStep(c) PROVE VersionsKnown'
  <2>1. UNCHANGED versions \/ ExamineAborted(c) \/ ExamineCommitted(c) \/ PlaceVersion(c)
    BY <1>4 DEF StoreStep, LockMap, ExaminePending, AddDependency, ExamineEnd, AbortDoomed,
       DisposeDoomed, DoomedEnd, PlaceConflict, UnlockMap, StoreResult, storeVars
  <2> QED
    BY <1>2, <1>3, <2>1, KnownFrame
<1> QED
  BY <1>4, NextCases, CreateFrame, LoopFrame, CommitFrame, AbortFrame, TerminateFrame, KnownFrame
     DEF storeVars, TypeOK

\* trans_abort is called for an existing transaction and calls itself for the
\* dependencies of one.
LEMMA StackKnownStep ==
    ASSUME TypeOK, PointersAreKnown, WalkIsAtElement, [Next]_vars, Known \subseteq Known'
    PROVE  StackKnown'
<1>stack. stack \in [Threads -> Seq(Frame)]
  BY DEF TypeOK
<1>0. ASSUME NEW t \in Threads, NEW s, stack' = [stack EXCEPT ![t] = s],
             \A f \in Range(s) : FrameKnown(f)
      PROVE  StackKnown'
  <2>1. ASSUME NEW f, FrameKnown(f) PROVE FrameKnown(f)'
    BY <2>1 DEF FrameKnown
  <2>2. StackKnown
    BY DEF PointersAreKnown
  <2>3. \A u \in Threads : stack'[u] = IF u = t THEN s ELSE stack[u]
    BY <1>0, <1>stack
  <2> QED
    BY <1>0, <2>1, <2>2, <2>3 DEF StackKnown, FrameKnown
<1>1. ASSUME NEW t \in Threads, NEW tp \in Known, NEW l, CallAbort(t, tp, l)
      PROVE  StackKnown'
  <2> DEFINE f == [tp |-> tp, at |-> "fatal", rest |-> <<>>]
  <2>1. FrameKnown(f)
    BY DEF FrameKnown, Range
  <2>2. stack' = [stack EXCEPT ![t] = <<f>>]
    BY <1>1 DEF CallAbort
  <2> HIDE DEF f
  <2>3. Range(<<f>>) = {f}
    BY DEF Range
  <2> QED
    BY <1>0, <2>1, <2>2, <2>3
<1>2. ASSUME NEW c \in Clients, LoopStep(c) PROVE StackKnown'
  <2>1. UNCHANGED stack \/ (\E l : CallAbort(c, c, l) /\ c \in Known)
    BY <1>2 DEF LoopStep, RecvRequest, RecvPartialRequest, RecvOther, RecvCommit, RecvFails, Reply,
       Unregister, UnregisterHungUp, At, Known
  <2> QED
    BY <1>1, <2>1, KnownFrame DEF Threads
<1>3. ASSUME NEW c \in Clients, StoreStep(c) PROVE StackKnown'
  <2>1. UNCHANGED stack \/ AbortDoomed(c) \/ PlaceConflict(c)
    BY <1>3 DEF StoreStep, LockMap, ExamineAborted, ExamineCommitted, ExaminePending,
       AddDependency, ExamineEnd, DisposeDoomed, DoomedEnd, PlaceVersion, UnlockMap, StoreResult
  <2>2. CASE AbortDoomed(c)
    <3>1. walk[c] # <<>> /\ CallAbort(c, Head(walk[c]), "dispose")
      BY <2>2 DEF AbortDoomed
    <3>2. Head(walk[c]) \in Range(walk[c])
      BY <3>1, TakingHead DEF TypeOK
    <3>3. Head(walk[c]) \in Known
      BY <3>2 DEF PointersAreKnown, WalkKnown
    <3> QED
      BY <1>1, <3>1, <3>3 DEF Threads
  <2>3. CASE PlaceConflict(c)
    <3>1. CallAbort(c, c, "unlock") /\ c \in Known
      BY <2>3 DEF PlaceConflict, At, Known
    <3> QED
      BY <1>1, <3>1 DEF Threads
  <2> QED
    BY <2>1, <2>2, <2>3, KnownFrame
<1>4. ASSUME TerminateStep PROVE StackKnown'
  <2>1. UNCHANGED stack \/ FiniAbort
    BY <1>4 DEF TerminateStep, Sighup, WaitForEmpty, WaitAgain, WaitEnds, UseFreedRegistry,
       FiniNext, FiniEnd, FiniStore
  <2>2. ASSUME FiniAbort PROVE cursor \in Known /\ CallAbort(Main, cursor, "finiNext")
    BY <2>2 DEF FiniAbort, PointersAreKnown, ListKnown
  <2> QED
    BY <1>1, <2>1, <2>2, KnownFrame DEF Threads
<1>5. ASSUME NEW t \in Threads, AbortStep(t) PROVE StackKnown'
  <2>0. stack[t] # <<>>
    BY <1>5 DEF AbortStep, AbortFatal, AbortPending, AbortAcquire, AbortDependency, AbortFinish,
       Aborting
  <2>1. /\ Top(t) \in Frame /\ Tail(stack[t]) \in Seq(Frame)
        /\ Top(t).tp \in Clients /\ Top(t).rest \in Seq(Clients)
    BY <1>stack, <2>0, TopType
  <2>2. Range(stack[t]) = {Top(t)} \cup Range(Tail(stack[t]))
    BY <1>stack, <2>0, TakingHead DEF Top
  <2>3. FrameKnown(Top(t)) /\ \A f \in Range(Tail(stack[t])) : FrameKnown(f)
    BY <2>2 DEF PointersAreKnown, StackKnown
  <2>4. ASSUME NEW f \in Frame, FrameKnown(f), SetTop(t, f) PROVE StackKnown'
    <3>1. Range(<<f>> \o Tail(stack[t])) = {f} \cup Range(Tail(stack[t]))
      BY <2>1, Prepending
    <3>2. stack' = [stack EXCEPT ![t] = <<f>> \o Tail(stack[t])]
      BY <2>4 DEF SetTop
    <3> QED
      BY <1>0, <2>3, <2>4, <3>1, <3>2
  <2>5. ASSUME Return(t) PROVE StackKnown'
    <3>1. stack' = [stack EXCEPT ![t] = Tail(stack[t])]
      BY <2>5 DEF Return
    <3> QED
      BY <1>0, <2>3, <3>1
  <2>6. ASSUME NEW l \in {"pending", "acquire"}, SetTop(t, [Top(t) EXCEPT !.at = l])
        PROVE  StackKnown'
    <3>1. [Top(t) EXCEPT !.at = l] \in Frame /\ FrameKnown([Top(t) EXCEPT !.at = l])
      BY <2>1, <2>3 DEF Frame, FrameKnown
    <3> QED
      BY <2>4, <2>6, <3>1
  <2>7. CASE AbortFatal(t)
    BY <2>6, <2>7, KnownFrame DEF AbortFatal
  <2>8. CASE AbortPending(t)
    BY <2>5, <2>6, <2>8 DEF AbortPending
  <2>9. CASE AbortAcquire(t)
    <3> DEFINE f == [tp |-> Top(t).tp, at |-> "loop", rest |-> depends[Top(t).tp]]
    <3>1. depends[Top(t).tp] \in Seq(Clients)
      BY <2>1 DEF TypeOK
    <3>2. Range(depends[Top(t).tp]) \subseteq Known
      BY <2>1 DEF PointersAreKnown, DependsKnown
    <3>3. f \in Frame /\ FrameKnown(f)
      BY <2>1, <2>3, <3>1, <3>2 DEF Frame, FrameKnown
    <3> QED
      BY <2>4, <2>9, <3>3 DEF AbortAcquire
  <2>10. CASE AbortDependency(t)
    <3> DEFINE g == [tp |-> Head(Top(t).rest), at |-> "fatal", rest |-> <<>>]
               r == [Top(t) EXCEPT !.rest = Tail(@)]
    <3>1. /\ Head(Top(t).rest) \in Clients /\ Head(Top(t).rest) \in Range(Top(t).rest)
          /\ Tail(Top(t).rest) \in Seq(Clients)
          /\ Range(Top(t).rest) = {Head(Top(t).rest)} \cup Range(Tail(Top(t).rest))
      BY <2>1, <2>10, TakingHead DEF AbortDependency
    <3>2. g \in Frame /\ FrameKnown(g)
      BY <2>3, <3>1 DEF Frame, FrameKnown, Range
    <3>3. r \in Frame /\ FrameKnown(r)
      BY <2>1, <2>3, <3>1 DEF Frame, FrameKnown
    <3>4. stack' = [stack EXCEPT ![t] = <<g, r>> \o Tail(stack[t])]
      BY <2>10 DEF AbortDependency
    <3> HIDE DEF g, r
    <3>5. <<g, r>> \in Seq(Frame)
      BY <3>2, <3>3
    <3>6. Range(<<g, r>>) = {g, r}
      BY DEF Range
    <3>7. Range(<<g, r>> \o Tail(stack[t])) = Range(<<g, r>>) \cup Range(Tail(stack[t]))
      BY <2>1, <3>5, RangeConcatenation, ZenonT(40)
    <3> QED
      BY <1>0, <2>3, <3>2, <3>3, <3>4, <3>6, <3>7
  <2>11. CASE AbortFinish(t)
    BY <2>5, <2>11 DEF AbortFinish
  <2> QED
    BY <1>5, <2>7, <2>8, <2>9, <2>10, <2>11 DEF AbortStep
<1> QED
  BY <1>2, <1>3, <1>4, <1>5, NextCases, CreateFrame, CommitFrame, KnownFrame

\* add_trans_list links transactions that trans_create has initialised, and
\* trans_fini follows those links.
LEMMA ListKnownStep ==
    ASSUME TypeOK, PointersAreKnown, [Next]_vars, Known \subseteq Known'
    PROVE  ListKnown'
<1>next. next \in [Nodes -> Nodes] /\ tail \in Nodes /\ cursor \in Nodes
  BY DEF TypeOK
<1>known. \A n \in Range(next) \cup {tail, cursor} : n \in Known' \cup {ListHead}
  BY DEF PointersAreKnown, ListKnown
<1>1. ASSUME NEW c \in Clients, CreateStep(c) PROVE ListKnown'
  <2>1. CASE Create(c)
    <3>1. Range(next') \subseteq Range(next) \cup {ListHead}
      BY <2>1, <1>next DEF Create, Range
    <3> QED
      BY <2>1, <3>1, <1>known DEF Create, ListKnown, localVars
  <2>2. CASE Link(c)
    <3>1. Range(next') \subseteq Range(next) \cup {c}
      BY <2>2, <1>next DEF Link, Range
    <3>2. c \in Known
      BY <2>2 DEF Link, At, Known
    <3> QED
      BY <2>2, <3>1, <3>2, <1>known DEF Link, ListKnown, localVars
  <2>3. CASE LinkTail(c)
    <3>1. c \in Known
      BY <2>3 DEF LinkTail, At, Known
    <3> QED
      BY <2>3, <3>1, <1>known DEF LinkTail, ListKnown, localVars
  <2>4. CASE Accept(c) \/ Register(c) \/ LoadId(c) \/ StoreId(c)
    BY <2>4, KnownFrame DEF Accept, Register, LoadId, StoreId, listVars, localVars
  <2> QED
    BY <1>1, <2>1, <2>2, <2>3, <2>4 DEF CreateStep
<1>2. ASSUME TerminateStep PROVE ListKnown'
  <2>1. UNCHANGED <<next, tail>>
    BY <1>2, TerminateFrame DEF TypeOK
  <2>2. cursor' \in {cursor} \cup Range(next)
    BY <1>2, <1>next DEF TerminateStep, Sighup, WaitForEmpty, WaitAgain, WaitEnds,
       UseFreedRegistry, FiniAbort, FiniNext, FiniEnd, FiniStore, localVars, Range, Nodes
  <2> QED
    BY <2>1, <2>2, <1>known DEF ListKnown
<1> QED
  BY <1>1, <1>2, NextCases, LoopFrame, StoreFrame, CommitFrame, AbortFrame, KnownFrame
     DEF listVars, localVars

\* Only an existing transaction is decided.
LEMMA UnknownPendingStep ==
    ASSUME TypeOK, PointersAreKnown, [Next]_vars, Known \subseteq Known'
    PROVE  UnknownPending'
<1>status. status \in [Clients -> Status]
  BY DEF TypeOK
<1>1. ASSUME NEW c \in Clients, Create(c) PROVE UnknownPending'
  BY <1>1, <1>status DEF Create, PointersAreKnown, UnknownPending
<1>2. ASSUME NEW c \in Clients, CommitDecide(c) PROVE UnknownPending'
  <2>1. c \in Known
    BY <1>2 DEF CommitDecide, At, Known
  <2> QED
    BY <1>2, <2>1, <1>status DEF CommitDecide, PointersAreKnown, UnknownPending
<1>3. ASSUME NEW t \in Threads, AbortAcquire(t) PROVE UnknownPending'
  <2>1. stack[t] # <<>> /\ stack[t] \in Seq(Frame)
    BY <1>3 DEF AbortAcquire, Aborting, TypeOK
  <2>2. Top(t) \in Range(stack[t])
    BY <2>1, TakingHead DEF Top
  <2>3. Top(t).tp \in Known
    BY <2>2 DEF PointersAreKnown, StackKnown, FrameKnown
  <2> QED
    BY <1>3, <2>3, <1>status DEF AbortAcquire, PointersAreKnown, UnknownPending
<1> QED
  BY <1>1, <1>2, <1>3, NextCases, CreateFrame, LoopFrame, StoreFrame, CommitFrame, AbortFrame,
     TerminateFrame, KnownFrame DEF transVars, TypeOK

\* Pointers lead to existing transactions only.
LEMMA PointersStep ==
    ASSUME TypeOK, PointersAreKnown, StoreIsLocked, WalkIsAtElement, [Next]_vars
    PROVE  PointersAreKnown'
  BY KnownGrows, DependsKnownStep, WalkKnownStep, VersionsKnownStep, StackKnownStep,
     ListKnownStep, UnknownPendingStep DEF PointersAreKnown

\* A service thread's step leaves the control and the locals of the other
\* service threads alone.
LEMMA OthersUnmoved ==
    ASSUME TypeOK, NEW c \in Clients, NEW d \in Clients, c # d,
           CreateStep(c) \/ LoopStep(c) \/ StoreStep(c) \/ CommitStep(c)
    PROVE  /\ pc'[d] = pc[d] /\ key'[d] = key[d] /\ pos'[d] = pos[d]
           /\ walk'[d] = walk[d] /\ local'[d] = local[d]
<1>pc. pc \in [Threads -> Labels] /\ d \in Threads
  BY DEF TypeOK, Threads
<1>locals. /\ key \in [Clients -> Keys \cup {Null}] /\ pos \in [Clients -> Nat \ {0}]
           /\ walk \in [Clients -> Seq(Clients)] /\ local \in [Clients -> Status]
  BY DEF TypeOK
<1> USE DEF Goto, CallAbort, localVars
<1>1. CASE CreateStep(c)
  BY <1>1, <1>pc, <1>locals DEF CreateStep, Accept, Register, Create, Link, LinkTail, LoadId,
     StoreId
<1>2. CASE LoopStep(c)
  BY <1>2, <1>pc, <1>locals DEF LoopStep, RecvRequest, RecvPartialRequest, RecvOther,
     RecvCommit, RecvFails,
     Reply, Unregister, UnregisterHungUp
<1>3. CASE StoreStep(c)
  <2>1. pc'[d] = pc[d]
    BY <1>3, <1>pc DEF StoreStep, LockMap, ExamineAborted, ExamineCommitted, ExaminePending,
       AddDependency, ExamineEnd, AbortDoomed, DisposeDoomed, DoomedEnd, PlaceConflict,
       PlaceVersion, UnlockMap, StoreResult
  <2>2. /\ key'[d] = key[d] /\ pos'[d] = pos[d]
        /\ walk'[d] = walk[d] /\ local'[d] = local[d]
    BY <1>3, <1>locals DEF StoreStep, LockMap, ExamineAborted, ExamineCommitted, ExaminePending,
       AddDependency, ExamineEnd, AbortDoomed, DisposeDoomed, DoomedEnd, PlaceConflict,
       PlaceVersion, UnlockMap, StoreResult
  <2> QED
    BY <2>1, <2>2
<1>4. CASE CommitStep(c)
  <2>1. pc'[d] = pc[d]
    BY <1>4, <1>pc DEF CommitStep, CommitAcquire, CommitWalkEnd, CommitCheck, CommitRecheck,
       CommitEnlist, CommitWait, CommitWaitP, CommitWaitV, CommitOutcome, CommitDecide,
       CommitFinish, CommitReturn
  <2>2. /\ key'[d] = key[d] /\ pos'[d] = pos[d]
        /\ walk'[d] = walk[d] /\ local'[d] = local[d]
    BY <1>4, <1>locals DEF CommitStep, CommitAcquire, CommitWalkEnd, CommitCheck, CommitRecheck,
       CommitEnlist, CommitWait, CommitWaitP, CommitWaitV, CommitOutcome, CommitDecide,
       CommitFinish, CommitReturn
  <2> QED
    BY <2>1, <2>2
<1> QED
  BY <1>1, <1>2, <1>3, <1>4

\* The store's lock protects the version lists: another thread that is inside
\* the store sees neither the lock nor a list change.
LEMMA StoreIsLockedStep ==
    ASSUME TypeOK, PointersAreKnown, StoreIsLocked, [Next]_vars
    PROVE  StoreIsLocked'
<1>pc. pc \in [Threads -> Labels] /\ Clients \subseteq Threads
  BY DEF TypeOK, Threads
<1>locals. key \in [Clients -> Keys \cup {Null}] /\ pos \in [Clients -> Nat \ {0}]
  BY DEF TypeOK
<1>versions. versions \in [Keys -> Seq(Clients)]
  BY DEF TypeOK
<1>tid. tid \in [Clients -> Nat]
  BY DEF TypeOK
<1> DEFINE Locked(c) ==
              /\ pc[c] \in HoldLabels => mapLock = c
              /\ pc[c] \in HoldLabels \cup {"lock"} => key[c] \in Keys
              /\ pc[c] = "depend" =>
                    /\ pos[c] <= Len(versions[key[c]])
                    /\ tid[versions[key[c]][pos[c]]] < tid[c]
<1>0. \A c \in Clients : Locked(c)
  BY DEF StoreIsLocked
<1>1. ASSUME NEW d \in Clients,
             pc'[d] = pc[d] /\ key'[d] = key[d] /\ pos'[d] = pos[d],
             UNCHANGED <<mapLock, versions, tid>>
      PROVE  Locked(d)'
  BY <1>0, <1>1
<1>2. ASSUME NEW c \in Clients, CreateStep(c), NEW d \in Clients PROVE Locked(d)'
  <2>1. CASE c = d
    <3>1. pc'[c] \in {"register", "create", "link", "linkTail", "loadId", "storeId", "recv"}
      BY <1>2, <1>pc DEF CreateStep, Accept, Register, Create, Link, LinkTail, LoadId, StoreId,
         Goto
    <3> QED
      BY <2>1, <3>1 DEF HoldLabels
  <2>2. CASE c # d
    <3>1. pc'[d] = pc[d] /\ key'[d] = key[d] /\ pos'[d] = pos[d]
      BY <1>2, <2>2, OthersUnmoved
    <3>2. UNCHANGED <<mapLock, versions>>
      BY <1>2, CreateFrame
    <3>3. CASE pc[d] = "depend"
      <4> DEFINE v == versions[key[d]][pos[d]]
      <4>1. key[d] \in Keys /\ pos[d] <= Len(versions[key[d]]) /\ tid[v] < tid[d]
        BY <1>0, <3>3 DEF HoldLabels
      <4>2. v \in Clients /\ v \in Range(versions[key[d]])
        BY <1>versions, <1>locals, <4>1 DEF Range
      <4>3. v \in Known
        BY <4>1, <4>2 DEF PointersAreKnown, VersionsKnown
      <4> HIDE DEF v
      <4>4. tid'[d] = tid[d] /\ tid'[v] = tid[v]
        BY <1>2, <1>tid, <2>2, <4>2, <4>3, CreateFrame DEF Create, At, Known
      <4> QED
        BY <1>0, <3>1, <3>2, <4>1, <4>4 DEF v
    <3> QED
      BY <1>0, <3>1, <3>2, <3>3
  <2> QED
    BY <2>1, <2>2
<1>3. ASSUME NEW c \in Clients, LoopStep(c), NEW d \in Clients PROVE Locked(d)'
  <2>1. UNCHANGED <<mapLock, versions, tid>>
    BY <1>3, LoopFrame
  <2>2. CASE c = d
    <3>1. \/ pc'[c] = "lock" /\ key'[c] \in Keys
          \/ pc'[c] \in {"reply", "commit", "hungUp", "recv", "unregister", "done"}
          \/ pc'[c] = pc[c] /\ key'[c] = key[c] /\ pos'[c] = pos[c]
      <4>1. CASE RecvRequest(c)
        BY <4>1, <1>pc, <1>locals, RequestsAssumption DEF RecvRequest, Goto
      <4>2. CASE Reply(c)
        BY <4>2, <1>pc DEF Reply, Goto, localVars
      <4>3. CASE RecvPartialRequest(c) \/ RecvOther(c) \/ RecvCommit(c) \/ RecvFails(c)
                 \/ Unregister(c)
                 \/ UnregisterHungUp(c)
        BY <4>3, <1>pc DEF RecvPartialRequest, RecvOther, RecvCommit, RecvFails, Unregister,
           UnregisterHungUp, Goto, CallAbort
      <4> QED
        BY <1>3, <4>1, <4>2, <4>3 DEF LoopStep
    <3> QED
      BY <1>1, <2>1, <2>2, <3>1 DEF HoldLabels
  <2> QED
    BY <1>1, <1>3, <2>1, <2>2, OthersUnmoved
<1>4. ASSUME NEW c \in Clients, StoreStep(c), NEW d \in Clients PROVE Locked(d)'
  <2>tid. UNCHANGED tid
    BY <1>4, StoreFrame
  <2>1. CASE LockMap(c)
    <3>1. /\ mapLock = Null /\ mapLock' = c /\ pc[c] = "lock" /\ pc'[c] = "examine"
          /\ UNCHANGED <<versions, key, pos>>
      BY <2>1, <1>pc DEF LockMap, Goto, At, localVars
    <3>2. pc[d] \notin HoldLabels
      BY <1>0, <3>1, ClientsAssumption
    <3> QED
      BY <1>0, <1>4, <3>1, <3>2, OthersUnmoved DEF HoldLabels
  <2>2. CASE UnlockMap(c)
    <3>1. /\ mapLock = c /\ pc'[c] = "result" /\ UNCHANGED versions
      BY <2>2, <1>0, <1>pc DEF UnlockMap, Goto, At, HoldLabels
    <3>2. c # d => pc[d] \notin HoldLabels
      BY <1>0, <3>1
    <3> QED
      BY <1>0, <1>4, <3>1, <3>2, OthersUnmoved DEF HoldLabels
  <2>3. CASE StoreResult(c)
    <3>1. pc'[c] = "reply" /\ UNCHANGED <<versions, mapLock, key, pos>>
      BY <2>3, <1>pc DEF StoreResult, Goto, storeVars
    <3> QED
      BY <1>1, <1>4, <2>tid, <3>1, OthersUnmoved DEF HoldLabels
  <2>4. CASE /\ ~LockMap(c) /\ ~UnlockMap(c) /\ ~StoreResult(c)
    <3>1. pc[c] \in HoldLabels /\ UNCHANGED <<mapLock, key>>
      BY <1>4, <2>4 DEF StoreStep, ExamineAborted, ExamineCommitted, ExaminePending,
         AddDependency, ExamineEnd, AbortDoomed, DisposeDoomed, DoomedEnd, PlaceConflict,
         PlaceVersion, At, HoldLabels, storeVars, localVars
    <3>2. mapLock = c /\ key[c] \in Keys
      BY <1>0, <3>1 DEF HoldLabels
    <3>3. CASE c # d
      <4>1. pc[d] \notin HoldLabels
        BY <1>0, <3>2, <3>3
      <4> QED
        BY <1>0, <1>4, <3>1, <3>3, <4>1, OthersUnmoved DEF HoldLabels
    <3>4. CASE c = d
      <4>1. pc'[c] # "lock"
        BY <1>4, <2>4, <1>pc DEF StoreStep, ExamineAborted, ExamineCommitted, ExaminePending,
           AddDependency, ExamineEnd, AbortDoomed, DisposeDoomed, DoomedEnd, PlaceConflict,
           PlaceVersion, At, Goto, CallAbort
      <4>2. pc'[c] = "depend" => ExaminePending(c) /\ UNCHANGED <<versions, pos>>
        BY <1>4, <2>4, <1>pc DEF StoreStep, ExamineAborted, ExamineCommitted, ExaminePending,
           AddDependency, ExamineEnd, AbortDoomed, DisposeDoomed, DoomedEnd, PlaceConflict,
           PlaceVersion, At, Goto, CallAbort, storeVars
      <4>3. pc'[c] = "depend" =>
               /\ pos[c] <= Len(versions[key[c]])
               /\ tid[versions[key[c]][pos[c]]] < tid[c]
        BY <4>2, <1>pc DEF ExaminePending, At, Goto
      <4> QED
        BY <2>tid, <3>1, <3>2, <3>4, <4>1, <4>2, <4>3
    <3> QED
      BY <3>3, <3>4
  <2> QED
    BY <2>1, <2>2, <2>3, <2>4
<1>5. ASSUME NEW c \in Clients, CommitStep(c), NEW d \in Clients PROVE Locked(d)'
  <2>1. UNCHANGED <<mapLock, versions, tid, key, pos>>
    BY <1>5, CommitFrame
  <2>2. pc'[c] \in CommitLabels \cup {"reply"}
    BY <1>5, <1>pc DEF CommitStep, CommitAcquire, CommitWalkEnd, CommitCheck, CommitRecheck,
       CommitEnlist, CommitWait, CommitWaitP, CommitWaitV, CommitOutcome, CommitDecide,
       CommitFinish, CommitReturn, Goto, CommitLabels
  <2> QED
    BY <1>1, <1>5, <2>1, <2>2, OthersUnmoved DEF HoldLabels, CommitLabels
<1>6. ASSUME NEW t \in Threads, AbortStep(t), NEW d \in Clients PROVE Locked(d)'
  BY <1>1, <1>6, AbortFrame
<1>7. ASSUME TerminateStep, NEW d \in Clients PROVE Locked(d)'
  BY <1>1, <1>7, <1>pc, TerminateFrame
<1>8. ASSUME UNCHANGED <<transVars, listVars, storeVars, pc, stack, localVars>>, NEW d \in Clients
      PROVE  Locked(d)'
  BY <1>1, <1>8 DEF transVars, storeVars, localVars
<1>9. \A d \in Clients : Locked(d)'
  BY <1>2, <1>3, <1>4, <1>5, <1>6, <1>7, <1>8, NextCases
<1> QED
  BY <1>9 DEF StoreIsLocked

\* Where a service thread can be after a step of each group.
LEMMA NewLabel ==
    ASSUME TypeOK, NEW c \in Clients
    PROVE  /\ CreateStep(c) =>
                pc'[c] \in {"register", "create", "link", "linkTail", "loadId", "storeId", "recv"}
           /\ LoopStep(c) =>
                \/ pc'[c] \in {"lock", "commit", "reply", "recv", "unregister", "hungUp", "done"}
           /\ StoreStep(c) => pc'[c] \in StoreLabels \cup {"reply"}
           /\ CommitStep(c) => pc'[c] \in CommitLabels \cup {"reply"}
<1>pc. pc \in [Threads -> Labels] /\ c \in Threads
  BY DEF TypeOK, Threads
<1> USE DEF Goto, CallAbort, At
<1>1. ASSUME CreateStep(c)
      PROVE  pc'[c] \in {"register", "create", "link", "linkTail", "loadId", "storeId", "recv"}
  BY <1>1, <1>pc DEF CreateStep, Accept, Register, Create, Link, LinkTail, LoadId, StoreId
<1>2. ASSUME LoopStep(c)
      PROVE  pc'[c] \in {"lock", "commit", "reply", "recv", "unregister", "hungUp", "done"}
  BY <1>2, <1>pc DEF LoopStep, RecvRequest, RecvPartialRequest, RecvOther, RecvCommit,
     RecvFails, Reply,
     Unregister, UnregisterHungUp
<1>3. ASSUME StoreStep(c) PROVE pc'[c] \in StoreLabels \cup {"reply"}
  BY <1>3, <1>pc DEF StoreStep, LockMap, ExamineAborted, ExamineCommitted, ExaminePending,
     AddDependency, ExamineEnd, AbortDoomed, DisposeDoomed, DoomedEnd, PlaceConflict,
     PlaceVersion, UnlockMap, StoreResult, StoreLabels
<1>4. ASSUME CommitStep(c) PROVE pc'[c] \in CommitLabels \cup {"reply"}
  BY <1>4, <1>pc DEF CommitStep, CommitAcquire, CommitWalkEnd, CommitCheck, CommitRecheck,
     CommitEnlist, CommitWait, CommitWaitP, CommitWaitV, CommitOutcome, CommitDecide,
     CommitFinish, CommitReturn, CommitLabels
<1> QED
  BY <1>1, <1>2, <1>3, <1>4

\* The loops stand at an element of their list.
LEMMA WalkIsAtElementStep ==
    ASSUME TypeOK, WalkIsAtElement, [Next]_vars
    PROVE  WalkIsAtElement'
<1>pc. pc \in [Threads -> Labels] /\ Clients \subseteq Threads
  BY DEF TypeOK, Threads
<1> DEFINE L == {"recheck", "enlist", "wait", "waitP", "waitV", "outcome", "dispose"}
<1>0. \A c \in Clients : pc[c] \in L => walk[c] # <<>>
  BY DEF WalkIsAtElement
<1>1. ASSUME NEW c \in Clients, CreateStep(c) \/ LoopStep(c) \/ StoreStep(c) \/ CommitStep(c)
      PROVE  pc'[c] \in L => walk'[c] # <<>>
  <2>1. CASE CreateStep(c) \/ LoopStep(c)
    BY <2>1, NewLabel
  <2>2. CASE StoreStep(c)
    <3>1. pc'[c] \in L => AbortDoomed(c)
      BY <2>2, <1>pc DEF StoreStep, LockMap, ExamineAborted, ExamineCommitted, ExaminePending,
         AddDependency, ExamineEnd, DisposeDoomed, DoomedEnd, PlaceConflict, PlaceVersion,
         UnlockMap, StoreResult, At, Goto, CallAbort
    <3> QED
      BY <3>1 DEF AbortDoomed, localVars
  <2>3. CASE CommitStep(c)
    <3>1. pc'[c] \in L => UNCHANGED walk /\ (walk[c] # <<>> \/ pc[c] \in L)
      BY <2>3, <1>pc DEF CommitStep, CommitAcquire, CommitWalkEnd, CommitCheck, CommitRecheck,
         CommitEnlist, CommitWait, CommitWaitP, CommitWaitV, CommitOutcome, CommitDecide,
         CommitFinish, CommitReturn, At, Goto, localVars
    <3> QED
      BY <1>0, <3>1
  <2> QED
    BY <1>1, <2>1, <2>2, <2>3
<1>2. ASSUME NEW d \in Clients, pc'[d] = pc[d], walk'[d] = walk[d]
      PROVE  pc'[d] \in L => walk'[d] # <<>>
  BY <1>0, <1>2
<1>3. ASSUME NEW d \in Clients PROVE pc'[d] \in L => walk'[d] # <<>>
  <2>1. CASE \E c \in Clients : CreateStep(c) \/ LoopStep(c) \/ StoreStep(c) \/ CommitStep(c)
    BY <1>1, <1>2, <2>1, OthersUnmoved
  <2>2. CASE TerminateStep \/ \E t \in Threads : AbortStep(t)
    BY <1>2, <1>pc, <2>2, AbortFrame, TerminateFrame
  <2>3. CASE UNCHANGED <<transVars, listVars, storeVars, pc, stack, localVars>>
    BY <1>2, <2>3 DEF localVars
  <2> QED
    BY <2>1, <2>2, <2>3, NextCases
<1> QED
  BY <1>3 DEF WalkIsAtElement

\* A dependency set changes only by its own thread, and not inside trans_commit.
LEMMA DependsStable ==
    ASSUME TypeOK, [Next]_vars, NEW d \in Clients, pc[d] \notin {"create", "depend"}
    PROVE  depends'[d] = depends[d]
<1>depends. depends \in [Clients -> Seq(Clients)]
  BY DEF TypeOK
<1>1. ASSUME NEW c \in Clients, Create(c) \/ AddDependency(c) PROVE depends'[d] = depends[d]
  BY <1>1, <1>depends DEF Create, AddDependency, At
<1> QED
  BY <1>1, NextCases, CreateFrame, LoopFrame, StoreFrame, CommitFrame, AbortFrame,
     TerminateFrame DEF transVars, TypeOK

\* The loop of trans_commit leaves only decided dependencies behind.
LEMMA CommitProgressStep ==
    ASSUME TypeOK, UnknownPending, WalkIsAtElement, CommitProgress, [Next]_vars
    PROVE  CommitProgress'
<1>pc. pc \in [Threads -> Labels] /\ Clients \subseteq Threads
  BY DEF TypeOK, Threads
<1>local. local \in [Clients -> Status]
  BY DEF TypeOK
<1>seqs. walk \in [Clients -> Seq(Clients)] /\ depends \in [Clients -> Seq(Clients)]
  BY DEF TypeOK
<1> DEFINE Loop == {"check", "recheck", "enlist", "wait", "waitP", "waitV", "outcome"}
           Progress(c) ==
              /\ pc[c] \in Loop =>
                    \A e \in Range(depends[c]) : e \in Range(walk[c]) \/ status[e] # "PENDING"
              /\ pc[c] = "outcome" => status[Head(walk[c])] # "PENDING"
              /\ pc[c] = "decide" =>
                    /\ local[c] # "PENDING"
                    /\ local[c] = "COMMITTED" =>
                          \A e \in Range(depends[c]) : status[e] # "PENDING"
              /\ pc[c] \in Loop => local[c] # "PENDING"
<1>0. \A c \in Clients : Progress(c)
  BY DEF CommitProgress
<1>decided. \A e \in Clients : status[e] # "PENDING" => status'[e] # "PENDING"
  BY StaysDecided
<1>range. \A c \in Clients : Range(depends[c]) \subseteq Clients
  BY <1>seqs DEF Range
<1>head. \A c \in Clients : pc[c] = "outcome" => Head(walk[c]) \in Clients
  BY <1>seqs, TakingHead DEF WalkIsAtElement
<1>1. ASSUME NEW d \in Clients, pc'[d] = pc[d], walk'[d] = walk[d], local'[d] = local[d]
      PROVE  Progress(d)'
  <2>1. pc[d] \in Loop \cup {"decide"} => depends'[d] = depends[d]
    BY DependsStable
  <2> QED
    BY <1>0, <1>1, <1>decided, <1>range, <1>head, <2>1
<1>2. ASSUME NEW c \in Clients, CommitStep(c) PROVE Progress(c)'
  <2>depends. UNCHANGED depends
    BY <1>2, CommitFrame
  <2>1. CASE CommitAcquire(c)
    <3>1. pc'[c] = "check" /\ walk'[c] = depends[c] /\ local'[c] = "COMMITTED"
      BY <2>1, <1>pc, <1>local, <1>seqs DEF CommitAcquire, Goto
    <3> QED
      BY <2>depends, <3>1
  <2>2. CASE CommitWalkEnd(c)
    <3>1. pc[c] = "check" /\ walk[c] = <<>> /\ pc'[c] = "decide" /\ UNCHANGED <<local, status>>
      BY <2>2, <1>pc DEF CommitWalkEnd, At, Goto, localVars, transVars
    <3>2. Range(walk[c]) = {}
      BY <3>1 DEF Range
    <3> QED
      BY <1>0, <2>depends, <3>1, <3>2
  <2>3. CASE CommitCheck(c)
    <3>1. /\ pc[c] = "check" /\ UNCHANGED <<walk, status>>
          /\ \/ pc'[c] = "decide" /\ local'[c] = "ABORTED"
             \/ pc'[c] = "recheck" /\ UNCHANGED local
      BY <2>3, <1>pc, <1>local DEF CommitCheck, At, Goto, transVars
    <3> QED
      BY <1>0, <2>depends, <3>1
  <2>4. CASE CommitRecheck(c)
    <3>1. pc[c] = "recheck" /\ UNCHANGED <<local, status>> /\ walk[c] # <<>>
      BY <2>4 DEF CommitRecheck, At, transVars, WalkIsAtElement
    <3>2. CASE status[Head(walk[c])] = "PENDING"
      <4>1. pc'[c] = "enlist" /\ UNCHANGED walk
        BY <2>4, <1>pc, <3>2 DEF CommitRecheck, Goto
      <4> QED
        BY <1>0, <2>depends, <3>1, <4>1
    <3>3. CASE status[Head(walk[c])] # "PENDING"
      <4>1. pc'[c] = "check" /\ walk'[c] = Tail(walk[c])
        BY <2>4, <1>pc, <1>seqs, <3>3 DEF CommitRecheck, Goto
      <4>2. Range(walk[c]) = {Head(walk[c])} \cup Range(Tail(walk[c]))
        BY <1>seqs, <3>1, TakingHead
      <4> QED
        BY <1>0, <2>depends, <3>1, <3>3, <4>1, <4>2
    <3> QED
      BY <3>2, <3>3
  <2>5. CASE CommitEnlist(c) \/ CommitWait(c) \/ CommitWaitP(c) \/ CommitWaitV(c)
    <3>1. /\ pc[c] \in Loop /\ pc'[c] \in Loop /\ UNCHANGED <<local, walk, status>>
          /\ pc'[c] = "outcome" => status[Head(walk[c])] # "PENDING"
      BY <2>5, <1>pc DEF CommitEnlist, CommitWait, CommitWaitP, CommitWaitV, At, Goto, localVars,
         transVars
    <3> QED
      BY <1>0, <2>depends, <3>1
  <2>6. CASE CommitOutcome(c)
    <3>1. /\ pc[c] = "outcome" /\ pc'[c] = "check" /\ UNCHANGED status /\ walk[c] # <<>>
          /\ walk'[c] = Tail(walk[c]) /\ local'[c] \in {"ABORTED", local[c]}
      BY <2>6, <1>pc, <1>local, <1>seqs DEF CommitOutcome, At, Goto, transVars, WalkIsAtElement
    <3>2. Range(walk[c]) = {Head(walk[c])} \cup Range(Tail(walk[c]))
      BY <1>seqs, <3>1, TakingHead
    <3> QED
      BY <1>0, <2>depends, <3>1, <3>2
  <2>7. CASE CommitDecide(c) \/ CommitFinish(c) \/ CommitReturn(c)
    <3>1. pc'[c] \in {"finish", "return", "reply"}
      BY <2>7, <1>pc DEF CommitDecide, CommitFinish, CommitReturn, Goto
    <3> QED
      BY <3>1
  <2> QED
    BY <1>2, <2>1, <2>2, <2>3, <2>4, <2>5, <2>6, <2>7 DEF CommitStep
<1>3. ASSUME NEW c \in Clients, CreateStep(c) \/ LoopStep(c) \/ StoreStep(c)
      PROVE  Progress(c)'
  <2>1. pc'[c] \notin Loop \cup {"decide"}
    BY <1>3, NewLabel DEF StoreLabels
  <2> QED
    BY <2>1
<1>4. ASSUME NEW d \in Clients PROVE Progress(d)'
  <2>1. CASE \E c \in Clients : CreateStep(c) \/ LoopStep(c) \/ StoreStep(c) \/ CommitStep(c)
    BY <1>1, <1>2, <1>3, <2>1, OthersUnmoved
  <2>2. CASE TerminateStep \/ \E t \in Threads : AbortStep(t)
    BY <1>1, <1>pc, <2>2, AbortFrame, TerminateFrame
  <2>3. CASE UNCHANGED <<transVars, listVars, storeVars, pc, stack, localVars>>
    BY <1>1, <2>3 DEF localVars
  <2> QED
    BY <2>1, <2>2, <2>3, NextCases
<1> QED
  BY <1>4 DEF CommitProgress

\* Who can commit: a transaction that is committed after a step was committed
\* before it, or its own thread has just written COMMITTED.
LEMMA WhoCommits ==
    ASSUME TypeOK, [Next]_vars, NEW d \in Clients, status'[d] = "COMMITTED"
    PROVE  status[d] = "COMMITTED" \/ (CommitDecide(d) /\ local[d] = "COMMITTED")
<1>status. status \in [Clients -> Status]
  BY DEF TypeOK
<1>1. ASSUME NEW c \in Clients, Create(c) PROVE status[d] = "COMMITTED"
  BY <1>1, <1>status DEF Create
<1>2. ASSUME NEW c \in Clients, CommitDecide(c)
      PROVE  status[d] = "COMMITTED" \/ (CommitDecide(d) /\ local[d] = "COMMITTED")
  <2>1. status'[d] = IF c = d THEN local[c] ELSE status[d]
    BY <1>2, <1>status DEF CommitDecide
  <2> QED
    BY <1>2, <2>1
<1>3. ASSUME NEW t \in Threads, AbortAcquire(t) PROVE status[d] = "COMMITTED"
  BY <1>3, <1>status DEF AbortAcquire
<1> QED
  BY <1>1, <1>2, <1>3, NextCases, CreateFrame, LoopFrame, StoreFrame, CommitFrame, AbortFrame,
     TerminateFrame DEF transVars, TypeOK

\* A committed transaction's thread is past the end of trans_commit.
LEMMA CommittedAtEndStep ==
    ASSUME TypeOK, CommittedAtEnd, [Next]_vars
    PROVE  CommittedAtEnd'
<1>pc. pc \in [Threads -> Labels] /\ Clients \subseteq Threads
  BY DEF TypeOK, Threads
<1>local. local \in [Clients -> Status]
  BY DEF TypeOK
<1> DEFINE Past(d) == \/ pc[d] \in {"finish", "return", "unregister", "done"}
                      \/ pc[d] = "reply" /\ local[d] # "PENDING"
<1>1. SUFFICES ASSUME NEW d \in Clients, status'[d] = "COMMITTED" PROVE Past(d)'
  BY DEF CommittedAtEnd
<1>2. CASE CommitDecide(d)
  BY <1>2, <1>pc DEF CommitDecide, Goto
<1>3. CASE status[d] = "COMMITTED"
  <2>1. Past(d)
    BY <1>3 DEF CommittedAtEnd
  <2>2. CASE CreateStep(d) \/ StoreStep(d)
    BY <2>1, <2>2 DEF CreateStep, Accept, Register, Create, Link, LinkTail, LoadId, StoreId,
       StoreStep, LockMap, ExamineAborted, ExamineCommitted, ExaminePending,
       AddDependency, ExamineEnd, AbortDoomed, DisposeDoomed, DoomedEnd, PlaceConflict,
       PlaceVersion, UnlockMap, StoreResult, At
  <2>3. CASE LoopStep(d)
    <3>1. UNCHANGED local \/ pc[d] = "recv"
      BY <2>3 DEF LoopStep, RecvRequest, RecvPartialRequest, RecvOther, RecvCommit, RecvFails,
         Reply,
         Unregister, UnregisterHungUp, localVars, At
    <3>2. Reply(d) \/ Unregister(d)
      BY <2>1, <2>3 DEF LoopStep, RecvRequest, RecvPartialRequest, RecvOther, RecvCommit, RecvFails,
         UnregisterHungUp, At
    <3> QED
      BY <1>pc, <2>1, <3>1, <3>2 DEF Reply, Unregister, At, Goto, CallAbort
  <2>4. CASE CommitStep(d)
    <3>1. CommitFinish(d) \/ CommitReturn(d)
      BY <2>1, <2>4 DEF CommitStep, CommitAcquire, CommitWalkEnd, CommitCheck, CommitRecheck,
         CommitEnlist, CommitWait, CommitWaitP, CommitWaitV, CommitOutcome, CommitDecide, At
    <3> QED
      BY <1>3, <1>pc, <1>local, <3>1 DEF CommitFinish, CommitReturn, Goto
  <2>5. ASSUME pc'[d] = pc[d], local'[d] = local[d] PROVE Past(d)'
    BY <2>1, <2>5
  <2>6. CASE \E c \in Clients : CreateStep(c) \/ LoopStep(c) \/ StoreStep(c) \/ CommitStep(c)
    BY <2>2, <2>3, <2>4, <2>5, <2>6, OthersUnmoved
  <2>7. CASE TerminateStep \/ \E t \in Threads : AbortStep(t)
    BY <1>pc, <2>5, <2>7, AbortFrame, TerminateFrame
  <2>8. CASE UNCHANGED <<transVars, listVars, storeVars, pc, stack, localVars>>
    BY <2>5, <2>8 DEF localVars
  <2> QED
    BY <2>6, <2>7, <2>8, NextCases
<1> QED
  BY <1>1, <1>2, <1>3, WhoCommits

\* A commit finds every dependency decided, and they stay decided.
LEMMA CommittedAfterDependenciesStep ==
    ASSUME TypeOK, UnknownPending, CommitProgress, CommittedAtEnd, CommittedAfterDependencies,
           [Next]_vars
    PROVE  CommittedAfterDependencies'
<1>decided. \A e \in Clients : status[e] # "PENDING" => status'[e] # "PENDING"
  BY StaysDecided
<1>1. SUFFICES ASSUME NEW d \in Clients, status'[d] = "COMMITTED"
               PROVE  \A e \in Range(depends'[d]) : status'[e] # "PENDING"
  BY DEF CommittedAfterDependencies
<1>range. Range(depends[d]) \subseteq Clients
  BY DEF TypeOK, Range
<1>2. CASE status[d] = "COMMITTED"
  <2>1. depends'[d] = depends[d]
    BY <1>2, DependsStable DEF CommittedAtEnd
  <2> QED
    BY <1>2, <1>range, <1>decided, <2>1 DEF CommittedAfterDependencies
<1>3. CASE CommitDecide(d) /\ local[d] = "COMMITTED"
  <2>1. pc[d] = "decide"
    BY <1>3 DEF CommitDecide, At
  <2>2. depends'[d] = depends[d]
    BY <2>1, DependsStable
  <2> QED
    BY <1>3, <1>range, <1>decided, <2>1, <2>2 DEF CommitProgress
<1> QED
  BY <1>1, <1>2, <1>3, WhoCommits

\* The store adds older transactions only, and an ID is written before anyone
\* knows the transaction.
LEMMA DependenciesPointToOlderStep ==
    ASSUME TypeOK, PointersAreKnown, StoreIsLocked, DependenciesPointToOlder, [Next]_vars
    PROVE  DependenciesPointToOlder'
<1>types. /\ tid \in [Clients -> Nat] /\ depends \in [Clients -> Seq(Clients)]
          /\ versions \in [Keys -> Seq(Clients)] /\ pos \in [Clients -> Nat \ {0}]
  BY DEF TypeOK
<1>range. \A c \in Clients : Range(depends[c]) \subseteq Clients
  BY <1>types DEF Range
<1>1. ASSUME NEW c \in Clients, Create(c) PROVE DependenciesPointToOlder'
  <2>1. c \notin Known
    BY <1>1 DEF Create, At, Known
  <2>2. \A d \in Clients : c \notin Range(depends[d])
    BY <2>1 DEF PointersAreKnown, DependsKnown
  <2>3. \A d \in Clients : depends'[d] = IF d = c THEN <<>> ELSE depends[d]
    BY <1>1, <1>types DEF Create
  <2>4. \A d \in Clients : d # c => tid'[d] = tid[d]
    BY <1>1, <1>types DEF Create
  <2>5. Range(<<>>) = {}
    BY DEF Range
  <2> QED
    BY <1>range, <2>2, <2>3, <2>4, <2>5 DEF DependenciesPointToOlder
<1>2. ASSUME NEW c \in Clients, AddDependency(c) PROVE DependenciesPointToOlder'
  <2> DEFINE dtp == versions[key[c]][pos[c]]
  <2>1. key[c] \in Keys /\ pos[c] <= Len(versions[key[c]]) /\ tid[dtp] < tid[c]
    BY <1>2 DEF StoreIsLocked, AddDependency, At, HoldLabels
  <2>2. dtp \in Clients
    BY <1>types, <2>1
  <2>3. depends' = [depends EXCEPT ![c] = <<dtp>> \o @] /\ UNCHANGED tid
    BY <1>2 DEF AddDependency
  <2>4. Range(<<dtp>> \o depends[c]) = {dtp} \cup Range(depends[c])
    BY <1>types, <2>2, Prepending
  <2> HIDE DEF dtp
  <2> QED
    BY <1>types, <2>1, <2>3, <2>4 DEF DependenciesPointToOlder
<1>3. ASSUME UNCHANGED <<tid, depends>> PROVE DependenciesPointToOlder'
  BY <1>3 DEF DependenciesPointToOlder
<1>4. ASSUME NEW c \in Clients, StoreStep(c) PROVE DependenciesPointToOlder'
  BY <1>2, <1>3, <1>4, StoreFrame
<1> QED
  BY <1>1, <1>3, <1>4, NextCases, CreateFrame, LoopFrame, CommitFrame, AbortFrame,
     TerminateFrame DEF transVars, TypeOK

-------------------------------------------------------------------------------
(* The theorems.                                                           *)

\* The invariant holds before the first connection.
LEMMA InitInvariant == Init => CommitInvariant
<1> SUFFICES ASSUME Init PROVE CommitInvariant
  OBVIOUS
<1>pc. \A c \in Clients : pc[c] = "start"
  BY ClientsAssumption DEF Init, Threads
<1>empty. Range(<<>>) = {}
  BY DEF Range
<1>1. TypeOK
  BY RequestsAssumption DEF Init, TypeOK, Status, Conns, Exits, Labels, MainLabels,
     ServiceLabels, Nodes, Threads
<1>2. PointersAreKnown
  <2>1. DependsKnown /\ WalkKnown /\ VersionsKnown /\ StackKnown /\ UnknownPending
    BY <1>empty DEF Init, DependsKnown, WalkKnown, VersionsKnown, StackKnown, UnknownPending
  <2>2. ListKnown
    BY DEF Init, ListKnown, Range
  <2> QED
    BY <2>1, <2>2 DEF PointersAreKnown
<1>3. StoreIsLocked /\ WalkIsAtElement /\ CommitProgress
  BY <1>pc DEF StoreIsLocked, WalkIsAtElement, CommitProgress, HoldLabels
<1>4. CommittedAtEnd /\ CommittedAfterDependencies /\ DependenciesPointToOlder
  BY <1>empty DEF Init, CommittedAtEnd, CommittedAfterDependencies, DependenciesPointToOlder
<1> QED
  BY <1>1, <1>2, <1>3, <1>4 DEF CommitInvariant

\* Every step of the server preserves the invariant.
LEMMA StepInvariant == CommitInvariant /\ [Next]_vars => CommitInvariant'
  BY TypeStep, PointersStep, StoreIsLockedStep, WalkIsAtElementStep, CommitProgressStep,
     CommittedAtEndStep, CommittedAfterDependenciesStep, DependenciesPointToOlderStep
     DEF CommitInvariant, PointersAreKnown

\* The inductive invariant holds in every reachable state, for every number of
\* clients, keys and requests.
THEOREM InvariantHolds == Spec => []CommitInvariant
  BY InitInvariant, StepInvariant, PTL DEF Spec

\* The variables of the server keep their types.
THEOREM TypeCorrect == Spec => []TypeOK
<1>1. CommitInvariant => TypeOK
  BY DEF CommitInvariant
<1> QED
  BY <1>1, InvariantHolds, PTL

\* trans_commit commits a transaction only when all its dependencies are
\* decided.
THEOREM CommitsAfterDependencies == Spec => []CommittedAfterDependencies
<1>1. CommitInvariant => CommittedAfterDependencies
  BY DEF CommitInvariant
<1> QED
  BY <1>1, InvariantHolds, PTL

\* Dependencies lead to strictly smaller transaction IDs, so the transactions
\* that wait for each other in trans_commit never form a circle.
THEOREM NoCircularWait == Spec => []DependenciesPointToOlder
<1>1. CommitInvariant => DependenciesPointToOlder
  BY DEF CommitInvariant
<1> QED
  BY <1>1, InvariantHolds, PTL

\* Neither trans_create, trans_commit nor trans_abort makes a decided
\* transaction pending again.
THEOREM DecidedStaysDecided == Spec => NeverPendingAgain
<1>1. CommitInvariant /\ [Next]_vars =>
         [\A c \in Clients : status[c] # "PENDING" => status'[c] # "PENDING"]_vars
  BY StaysDecided DEF CommitInvariant, PointersAreKnown
<1> QED
  BY <1>1, InvariantHolds, PTL DEF Spec, NeverPendingAgain

-------------------------------------------------------------------------------
(* The semaphore of a transaction.  The posts of releaseDependents make it *)
(* a counter in the end; until the decision it is a mutex.                 *)

\* The labels between P and V of a transaction's own thread.
Inside == {"check", "recheck", "enlist", "wait", "waitP", "waitV", "outcome", "decide", "finish"}

\* Service thread t is between a P on c's semaphore and its V in trans_commit.
HoldsBy(t, c) ==
    \/ t = c /\ pc[c] \in Inside
    \/ pc[t] = "waitV" /\ Head(walk[t]) = c

Free(c) == sem[c] = 1 /\ \A t \in Clients : ~HoldsBy(t, c)

HeldByOne(c) ==
    /\ sem[c] = 0
    /\ \E t \in Clients : HoldsBy(t, c) /\ \A u \in Clients : HoldsBy(u, c) => u = t

\* trans_commit does not call trans_abort.
NoAbortInside == \A c \in Clients : pc[c] \in Inside => stack[c] = <<>>

\* trans_abort decides as soon as it holds the semaphore, trans_commit before it
\* gives it back, and a thread that waits for its own transaction never gets the
\* semaphore it holds.
AbortsAreDecided ==
    \A t \in Threads : \A f \in Range(stack[t]) : f.at = "loop" => status[f.tp] # "PENDING"
DecidedAtFinish == \A c \in Clients : pc[c] = "finish" => status[c] # "PENDING"
WaitsForOthers ==
    \A c \in Clients : pc[c] = "waitV" /\ Head(walk[c]) = c => status[c] # "PENDING"

Exclusive == \A c \in Clients : status[c] = "PENDING" => Free(c) \/ HeldByOne(c)

\* The conjunction that every step preserves, given CommitInvariant.
SemaphoreInvariant ==
    NoAbortInside /\ AbortsAreDecided /\ DecidedAtFinish /\ WaitsForOthers /\ Exclusive

\* A thread that takes a step outside trans_commit is not between its P and V,
\* and of these steps only trans_create writes a semaphore.
LEMMA OutsideSteps ==
    ASSUME TypeOK, NEW x \in Clients, CreateStep(x) \/ LoopStep(x) \/ StoreStep(x)
    PROVE  /\ pc[x] \notin Inside /\ pc'[x] \notin Inside
           /\ UNCHANGED sem \/ Create(x)
<1>1. pc'[x] \notin Inside
  BY NewLabel DEF Inside, StoreLabels
<1>2. CASE CreateStep(x)
  BY <1>1, <1>2 DEF CreateStep, Accept, Register, Link, LinkTail, LoadId, StoreId, Create, At,
     Inside, transVars
<1>3. CASE LoopStep(x)
  BY <1>1, <1>3 DEF LoopStep, RecvRequest, RecvPartialRequest, RecvOther, RecvCommit, RecvFails,
     Reply, Unregister, UnregisterHungUp, At, Inside, transVars
<1>4. CASE StoreStep(x)
  BY <1>1, <1>4 DEF StoreStep, LockMap, ExamineAborted, ExamineCommitted, ExaminePending,
     AddDependency, ExamineEnd, AbortDoomed, DisposeDoomed, DoomedEnd, PlaceConflict,
     PlaceVersion, UnlockMap, StoreResult, At, Inside, transVars
<1> QED
  BY <1>2, <1>3, <1>4

\* A thread pushes and pops activations on its own stack only.
LEMMA OwnStack ==
    ASSUME TypeOK, [Next]_vars, NEW d \in Clients, stack'[d] # stack[d]
    PROVE  LoopStep(d) \/ StoreStep(d) \/ AbortStep(d)
<1>stack. stack \in [Threads -> Seq(Frame)] /\ d \in Threads /\ d # Main
  BY ClientsAssumption DEF TypeOK, Threads
<1>1. ASSUME NEW c \in Clients, LoopStep(c) PROVE c = d
  BY <1>stack, <1>1 DEF LoopStep, RecvRequest, RecvPartialRequest, RecvOther, RecvCommit, RecvFails,
     Reply, Unregister, UnregisterHungUp, CallAbort
<1>2. ASSUME NEW c \in Clients, StoreStep(c) PROVE c = d
  BY <1>stack, <1>2 DEF StoreStep, LockMap, ExamineAborted, ExamineCommitted, ExaminePending,
     AddDependency, ExamineEnd, AbortDoomed, DisposeDoomed, DoomedEnd, PlaceConflict,
     PlaceVersion, UnlockMap, StoreResult, CallAbort
<1>3. ASSUME NEW t \in Threads, AbortStep(t) PROVE t = d
  BY <1>stack, <1>3 DEF AbortStep, AbortFatal, AbortPending, AbortAcquire, AbortDependency,
     AbortFinish, SetTop, Return
<1>4. ASSUME TerminateStep PROVE FALSE
  BY <1>stack, <1>4 DEF TerminateStep, Sighup, WaitForEmpty, WaitAgain, WaitEnds,
     UseFreedRegistry, FiniAbort, FiniNext, FiniEnd, FiniStore, CallAbort
<1> QED
  BY <1>1, <1>2, <1>3, <1>4, NextCases, CreateFrame, CommitFrame

\* No step brings trans_abort into trans_commit.
LEMMA NoAbortInsideStep ==
    ASSUME TypeOK, NoAbortInside, [Next]_vars
    PROVE  NoAbortInside'
<1>pc. pc \in [Threads -> Labels] /\ Clients \subseteq Threads
  BY DEF TypeOK, Threads
<1>1. ASSUME NEW d \in Clients, pc'[d] \in Inside PROVE stack'[d] = <<>>
  <2>1. CASE CommitStep(d)
    <3>1. stack[d] = <<>>
      BY <2>1 DEF CommitStep, CommitAcquire, CommitWalkEnd, CommitCheck, CommitRecheck,
         CommitEnlist, CommitWait, CommitWaitP, CommitWaitV, CommitOutcome, CommitDecide,
         CommitFinish, CommitReturn, At
    <3> QED
      BY <2>1, <3>1, CommitFrame
  <2>2. CASE CreateStep(d) \/ LoopStep(d) \/ StoreStep(d)
    BY <1>1, <2>2, OutsideSteps
  <2>3. CASE pc'[d] = pc[d] /\ stack'[d] = stack[d]
    BY <1>1, <2>3 DEF NoAbortInside
  <2>4. CASE pc'[d] = pc[d] /\ AbortStep(d)
    <3>1. stack[d] # <<>>
      BY <2>4 DEF AbortStep, AbortFatal, AbortPending, AbortAcquire, AbortDependency, AbortFinish,
         Aborting
    <3> QED
      BY <1>1, <2>4, <3>1 DEF NoAbortInside
  <2>5. pc'[d] = pc[d] \/ CreateStep(d) \/ LoopStep(d) \/ StoreStep(d) \/ CommitStep(d)
    BY <1>pc, NextCases, OthersUnmoved, AbortFrame, TerminateFrame
  <2> QED
    BY <2>1, <2>2, <2>3, <2>4, <2>5, OwnStack
<1> QED
  BY <1>1 DEF NoAbortInside

\* An activation of trans_abort goes into its loop with the write of ABORTED.
LEMMA AbortsAreDecidedStep ==
    ASSUME CommitInvariant, AbortsAreDecided, [Next]_vars
    PROVE  AbortsAreDecided'
<1> DEFINE Decided(f) == f.at = "loop" => status[f.tp] # "PENDING"
<1>types. /\ TypeOK /\ stack \in [Threads -> Seq(Frame)] /\ status \in [Clients -> Status]
          /\ Clients \subseteq Threads /\ Main \in Threads
  BY DEF CommitInvariant, TypeOK, Threads
<1>decided. \A e \in Clients : status[e] # "PENDING" => status'[e] # "PENDING"
  BY StaysDecided DEF CommitInvariant, PointersAreKnown
<1>keep. ASSUME NEW t \in Threads, NEW f \in Range(stack[t]) PROVE Decided(f)'
  <2>1. PICK i \in DOMAIN stack[t] : f = stack[t][i]
    BY DEF Range
  <2>2. stack[t][i] \in Frame
    BY <1>types
  <2>3. f.tp \in Clients
    BY <2>1, <2>2 DEF Frame
  <2> QED
    BY <1>decided, <2>3 DEF AbortsAreDecided
<1>0. ASSUME NEW t \in Threads, NEW s, stack' = [stack EXCEPT ![t] = s],
             \A f \in Range(s) : Decided(f)'
      PROVE  AbortsAreDecided'
  <2>1. \A u \in Threads : stack'[u] = IF u = t THEN s ELSE stack[u]
    BY <1>0, <1>types
  <2> QED
    BY <1>0, <1>keep, <2>1 DEF AbortsAreDecided
<1>call. ASSUME NEW t \in Threads, NEW tp, NEW l, CallAbort(t, tp, l)
         PROVE  AbortsAreDecided'
  <2> DEFINE f == [tp |-> tp, at |-> "fatal", rest |-> <<>>]
  <2>1. stack' = [stack EXCEPT ![t] = <<f>>] /\ f.at = "fatal"
    BY <1>call DEF CallAbort
  <2> HIDE DEF f
  <2>2. Range(<<f>>) = {f}
    BY DEF Range
  <2> QED
    BY <1>0, <2>1, <2>2
<1>same. ASSUME UNCHANGED stack PROVE AbortsAreDecided'
  BY <1>same, <1>keep DEF AbortsAreDecided
<1>1. ASSUME NEW c \in Clients, LoopStep(c) PROVE AbortsAreDecided'
  <2>1. UNCHANGED stack \/ \E l : CallAbort(c, c, l)
    BY <1>1 DEF LoopStep, RecvRequest, RecvPartialRequest, RecvOther, RecvCommit, RecvFails, Reply,
       Unregister, UnregisterHungUp
  <2> QED
    BY <1>types, <1>call, <1>same, <2>1
<1>2. ASSUME NEW c \in Clients, StoreStep(c) PROVE AbortsAreDecided'
  <2>1. UNCHANGED stack \/ \E tp, l : CallAbort(c, tp, l)
    BY <1>2 DEF StoreStep, LockMap, ExamineAborted, ExamineCommitted, ExaminePending,
       AddDependency, ExamineEnd, DisposeDoomed, DoomedEnd, PlaceVersion, UnlockMap, StoreResult,
       AbortDoomed, PlaceConflict
  <2> QED
    BY <1>types, <1>call, <1>same, <2>1
<1>3. ASSUME TerminateStep PROVE AbortsAreDecided'
  <2>1. UNCHANGED stack \/ \E tp, l : CallAbort(Main, tp, l)
    BY <1>3 DEF TerminateStep, Sighup, WaitForEmpty, WaitAgain, WaitEnds, UseFreedRegistry,
       FiniAbort, FiniNext, FiniEnd, FiniStore
  <2> QED
    BY <1>types, <1>call, <1>same, <2>1
<1>4. ASSUME NEW t \in Threads, AbortStep(t) PROVE AbortsAreDecided'
  <2>0. stack[t] # <<>>
    BY <1>4 DEF AbortStep, AbortFatal, AbortPending, AbortAcquire, AbortDependency, AbortFinish,
       Aborting
  <2>1. /\ Top(t) \in Frame /\ Tail(stack[t]) \in Seq(Frame)
        /\ Top(t).tp \in Clients /\ Top(t).rest \in Seq(Clients)
    BY <1>types, <2>0, TopType
  <2>2. Range(stack[t]) = {Top(t)} \cup Range(Tail(stack[t]))
    BY <1>types, <2>0, TakingHead DEF Top
  <2>4. ASSUME NEW f \in Frame, f.at = "loop" => status'[f.tp] # "PENDING", SetTop(t, f)
        PROVE  AbortsAreDecided'
    <3>1. Range(<<f>> \o Tail(stack[t])) = {f} \cup Range(Tail(stack[t]))
      BY <2>1, Prepending
    <3>2. stack' = [stack EXCEPT ![t] = <<f>> \o Tail(stack[t])]
      BY <2>4 DEF SetTop
    <3> QED
      BY <1>0, <2>2, <1>keep, <2>4, <3>1, <3>2
  <2>5. ASSUME Return(t) PROVE AbortsAreDecided'
    <3>1. stack' = [stack EXCEPT ![t] = Tail(stack[t])]
      BY <2>5 DEF Return
    <3> QED
      BY <1>0, <2>2, <1>keep, <3>1
  <2>6. ASSUME NEW l \in {"pending", "acquire"}, SetTop(t, [Top(t) EXCEPT !.at = l])
        PROVE  AbortsAreDecided'
    <3>1. [Top(t) EXCEPT !.at = l] \in Frame /\ [Top(t) EXCEPT !.at = l].at # "loop"
      BY <2>1 DEF Frame
    <3> QED
      BY <2>4, <2>6, <3>1
  <2>7. CASE AbortFatal(t)
    BY <1>same, <2>6, <2>7 DEF AbortFatal
  <2>8. CASE AbortPending(t)
    BY <2>5, <2>6, <2>8 DEF AbortPending
  <2>9. CASE AbortAcquire(t)
    <3> DEFINE f == [tp |-> Top(t).tp, at |-> "loop", rest |-> depends[Top(t).tp]]
    <3>1. f \in Frame
      BY <1>types, <2>1 DEF Frame, TypeOK
    <3>2. status'[Top(t).tp] = "ABORTED"
      BY <1>types, <2>1, <2>9 DEF AbortAcquire
    <3> QED
      BY <2>4, <2>9, <3>1, <3>2 DEF AbortAcquire
  <2>10. CASE AbortDependency(t)
    <3> DEFINE g == [tp |-> Head(Top(t).rest), at |-> "fatal", rest |-> <<>>]
               r == [Top(t) EXCEPT !.rest = Tail(@)]
    <3>1. /\ Head(Top(t).rest) \in Clients /\ Tail(Top(t).rest) \in Seq(Clients)
      BY <2>1, <2>10, TakingHead DEF AbortDependency
    <3>2. g \in Frame /\ g.at = "fatal"
      BY <3>1 DEF Frame
    <3>3. r \in Frame /\ r.at = Top(t).at /\ r.tp = Top(t).tp
      BY <2>1, <3>1 DEF Frame
    <3>4. stack' = [stack EXCEPT ![t] = <<g, r>> \o Tail(stack[t])]
      BY <2>10 DEF AbortDependency
    <3> HIDE DEF g, r
    <3>5. <<g, r>> \in Seq(Frame)
      BY <3>2, <3>3
    <3>6. Range(<<g, r>>) = {g, r}
      BY DEF Range
    <3>7. Range(<<g, r>> \o Tail(stack[t])) = Range(<<g, r>>) \cup Range(Tail(stack[t]))
      BY <2>1, <3>5, RangeConcatenation, ZenonT(40)
    <3>8. Top(t).at = "loop" => status'[Top(t).tp] # "PENDING"
      BY <2>2, <1>keep
    <3>9. \A f : f = g \/ f = r \/ f \in Range(Tail(stack[t])) => Decided(f)'
      BY <1>keep, <2>2, <3>2, <3>3, <3>8
    <3> HIDE DEF Decided
    <3>10. \A f \in Range(<<g, r>> \o Tail(stack[t])) : Decided(f)'
      BY <3>6, <3>7, <3>9
    <3> QED
      BY <1>0, <3>4, <3>10
  <2>11. CASE AbortFinish(t)
    BY <2>5, <2>11 DEF AbortFinish
  <2> QED
    BY <1>4, <2>7, <2>8, <2>9, <2>10, <2>11 DEF AbortStep
<1>5. ASSUME NEW c \in Clients, CreateStep(c) \/ CommitStep(c) PROVE AbortsAreDecided'
  <2>1. UNCHANGED stack
    BY <1>5, CreateFrame, CommitFrame
  <2> QED
    BY <1>same, <2>1
<1>6. CASE UNCHANGED <<transVars, listVars, storeVars, pc, stack, localVars>>
  BY <1>same, <1>6
<1>7. \/ \E c \in Clients : CreateStep(c) \/ LoopStep(c) \/ StoreStep(c) \/ CommitStep(c)
      \/ \E t \in Threads : AbortStep(t)
      \/ TerminateStep
      \/ UNCHANGED <<transVars, listVars, storeVars, pc, stack, localVars>>
  BY NextCases, Zenon
<1> QED
  BY <1>1, <1>2, <1>3, <1>4, <1>5, <1>6, <1>7

\* trans_commit writes its decision before it comes to the end.
LEMMA DecidedAtFinishStep ==
    ASSUME CommitInvariant, DecidedAtFinish, [Next]_vars
    PROVE  DecidedAtFinish'
<1>types. /\ TypeOK /\ pc \in [Threads -> Labels] /\ Clients \subseteq Threads
          /\ status \in [Clients -> Status]
  BY DEF CommitInvariant, TypeOK, Threads
<1>decided. \A e \in Clients : status[e] # "PENDING" => status'[e] # "PENDING"
  BY StaysDecided DEF CommitInvariant, PointersAreKnown
<1>1. ASSUME NEW d \in Clients, pc'[d] = "finish" PROVE status'[d] # "PENDING"
  <2>1. CASE CreateStep(d) \/ LoopStep(d) \/ StoreStep(d)
    BY <1>types, <1>1, <2>1, OutsideSteps DEF Inside
  <2>2. CASE CommitStep(d)
    <3>1. CommitDecide(d)
      BY <1>types, <1>1, <2>2 DEF CommitStep, CommitAcquire, CommitWalkEnd, CommitCheck,
         CommitRecheck, CommitEnlist, CommitWait, CommitWaitP, CommitWaitV, CommitOutcome,
         CommitFinish, CommitReturn, Goto
    <3> QED
      BY <1>types, <3>1 DEF CommitDecide, At, CommitInvariant, CommitProgress
  <2>3. CASE pc'[d] = pc[d]
    BY <1>1, <1>decided, <2>3 DEF DecidedAtFinish
  <2>4. pc'[d] = pc[d] \/ CreateStep(d) \/ LoopStep(d) \/ StoreStep(d) \/ CommitStep(d)
    BY <1>types, NextCases, OthersUnmoved, AbortFrame, TerminateFrame
  <2> QED
    BY <2>1, <2>2, <2>3, <2>4
<1> QED
  BY <1>1 DEF DecidedAtFinish

\* In trans_commit a thread holds its own semaphore, so it cannot get it a second
\* time before the decision.
LEMMA WaitsForOthersStep ==
    ASSUME CommitInvariant, WaitsForOthers, Exclusive, [Next]_vars
    PROVE  WaitsForOthers'
<1>types. /\ TypeOK /\ pc \in [Threads -> Labels] /\ Clients \subseteq Threads
          /\ walk \in [Clients -> Seq(Clients)]
  BY DEF CommitInvariant, TypeOK, Threads
<1>decided. \A e \in Clients : status[e] # "PENDING" => status'[e] # "PENDING"
  BY StaysDecided DEF CommitInvariant, PointersAreKnown
<1>1. ASSUME NEW d \in Clients, pc'[d] = "waitV", Head(walk'[d]) = d PROVE status'[d] # "PENDING"
  <2>1. CASE CreateStep(d) \/ LoopStep(d) \/ StoreStep(d)
    BY <1>types, <1>1, <2>1, OutsideSteps DEF Inside
  <2>2. CASE CommitStep(d)
    <3>1. CommitWaitP(d)
      BY <1>types, <1>1, <2>2 DEF CommitStep, CommitAcquire, CommitWalkEnd, CommitCheck,
         CommitRecheck, CommitEnlist, CommitWait, CommitDecide, CommitWaitV, CommitOutcome,
         CommitFinish, CommitReturn, Goto
    <3>2. pc[d] = "waitP" /\ sem[d] > 0 /\ UNCHANGED status
      BY <1>1, <3>1 DEF CommitWaitP, At, localVars
    <3>3. HoldsBy(d, d)
      BY <3>2 DEF HoldsBy, Inside
    <3> QED
      BY <3>2, <3>3 DEF Exclusive, Free, HeldByOne
  <2>3. CASE pc'[d] = pc[d] /\ walk'[d] = walk[d]
    BY <1>1, <1>decided, <2>3 DEF WaitsForOthers
  <2>4. \/ pc'[d] = pc[d] /\ walk'[d] = walk[d]
        \/ CreateStep(d) \/ LoopStep(d) \/ StoreStep(d) \/ CommitStep(d)
    BY <1>types, NextCases, OthersUnmoved, AbortFrame, TerminateFrame DEF localVars
  <2> QED
    BY <2>1, <2>2, <2>3, <2>4
<1> QED
  BY <1>1 DEF WaitsForOthers

\* A pending transaction is as it was if a step changes neither its semaphore
\* nor who holds it.
LEMMA ExclusiveFrame ==
    ASSUME NEW c \in Clients, Free(c) \/ HeldByOne(c), sem'[c] = sem[c],
           \A t \in Clients : HoldsBy(t, c)' <=> HoldsBy(t, c)
    PROVE  (Free(c) \/ HeldByOne(c))'
  BY DEF Free, HeldByOne

\* P takes a free semaphore.
LEMMA ExclusiveTake ==
    ASSUME NEW c \in Clients, NEW x \in Clients, sem[c] \in Nat, Free(c) \/ HeldByOne(c),
           sem[c] > 0, sem'[c] = sem[c] - 1, HoldsBy(x, c)',
           \A t \in Clients : t # x => (HoldsBy(t, c)' <=> HoldsBy(t, c))
    PROVE  HeldByOne(c)'
<1>1. Free(c) /\ sem'[c] = 0
  BY DEF Free, HeldByOne
<1>2. \A t \in Clients : HoldsBy(t, c)' => t = x
  BY <1>1 DEF Free
<1> QED
  BY <1>1, <1>2 DEF HeldByOne

\* V gives back a held one.
LEMMA ExclusiveGive ==
    ASSUME NEW c \in Clients, NEW x \in Clients, Free(c) \/ HeldByOne(c),
           HoldsBy(x, c), sem'[c] = sem[c] + 1, ~HoldsBy(x, c)',
           \A t \in Clients : t # x => (HoldsBy(t, c)' <=> HoldsBy(t, c))
    PROVE  Free(c)'
<1>1. HeldByOne(c) /\ \A t \in Clients : HoldsBy(t, c) => t = x
  BY DEF Free, HeldByOne
<1>2. sem'[c] = 1 /\ \A t \in Clients : ~HoldsBy(t, c)'
  BY <1>1 DEF HeldByOne
<1> QED
  BY <1>2 DEF Free

\* trans_commit of x: its own semaphore, and that of the dependency it waits for.
LEMMA ExclusiveCommit ==
    ASSUME CommitInvariant, SemaphoreInvariant, NEW x \in Clients, CommitStep(x),
           NEW c \in Clients, status[c] = "PENDING"
    PROVE  (Free(c) \/ HeldByOne(c))'
<1>types. /\ TypeOK /\ pc \in [Threads -> Labels] /\ Clients \subseteq Threads
          /\ walk \in [Clients -> Seq(Clients)] /\ sem \in [Clients -> Nat]
          /\ waitcnt \in [Clients -> Nat]
  BY DEF CommitInvariant, TypeOK, Threads
<1>now. Free(c) \/ HeldByOne(c)
  BY DEF SemaphoreInvariant, Exclusive
<1>1. ASSUME UNCHANGED sem, pc[x] \in Inside <=> pc'[x] \in Inside,
             pc[x] # "waitV", pc'[x] # "waitV"
      PROVE  (Free(c) \/ HeldByOne(c))'
  <2>1. \A t \in Clients : HoldsBy(t, c)' <=> HoldsBy(t, c)
    BY <1>types, <1>1, OthersUnmoved DEF HoldsBy
  <2> QED
    BY <1>now, <1>1, <2>1, ExclusiveFrame
<1>2. CASE CommitAcquire(x)
  <2>1. /\ pc[x] = "commit" /\ pc'[x] = "check" /\ sem[x] > 0
        /\ sem' = [sem EXCEPT ![x] = @ - 1]
    BY <1>types, <1>2 DEF CommitAcquire, At, Goto
  <2>2. \A t \in Clients : t # x => (HoldsBy(t, c)' <=> HoldsBy(t, c))
    BY <1>types, <2>1, OthersUnmoved DEF HoldsBy
  <2>3. CASE c = x
    <3>1. HoldsBy(x, c)' /\ sem[c] \in Nat /\ sem[c] > 0 /\ sem'[c] = sem[c] - 1
      BY <1>types, <2>1, <2>3 DEF HoldsBy, Inside
    <3> QED
      BY <1>now, <2>2, <3>1, ExclusiveTake
  <2>4. CASE c # x
    <3>1. sem'[c] = sem[c] /\ (HoldsBy(x, c)' <=> HoldsBy(x, c))
      BY <1>types, <2>1, <2>4 DEF HoldsBy, Inside
    <3> QED
      BY <1>now, <2>2, <3>1, ExclusiveFrame
  <2> QED
    BY <2>3, <2>4
<1>3. CASE CommitWalkEnd(x) \/ CommitCheck(x) \/ CommitRecheck(x) \/ CommitEnlist(x)
           \/ CommitWait(x) \/ CommitOutcome(x) \/ CommitDecide(x)
  <2>1. UNCHANGED sem
    BY <1>3 DEF CommitWalkEnd, CommitCheck, CommitRecheck, CommitEnlist, CommitWait,
       CommitOutcome, CommitDecide, transVars
  <2>2. /\ pc[x] \in Inside /\ pc'[x] \in Inside
        /\ pc[x] # "waitV" /\ pc'[x] # "waitV"
    BY <1>types, <1>3 DEF CommitWalkEnd, CommitCheck, CommitRecheck, CommitEnlist, CommitWait,
       CommitOutcome, CommitDecide, At, Goto, Inside
  <2> QED
    BY <1>1, <2>1, <2>2
<1>4. CASE CommitWaitP(x)
  <2> DEFINE h == Head(walk[x])
  <2>1. /\ pc[x] = "waitP" /\ pc'[x] = "waitV" /\ sem[h] > 0 /\ walk'[x] = walk[x]
        /\ sem' = [sem EXCEPT ![h] = @ - 1]
    BY <1>types, <1>4 DEF CommitWaitP, At, Goto, localVars
  <2>2. \A t \in Clients : t # x => (HoldsBy(t, c)' <=> HoldsBy(t, c))
    BY <1>types, <2>1, OthersUnmoved DEF HoldsBy, Inside
  <2>3. CASE c = h
    <3>1. HoldsBy(x, c)' /\ sem[c] \in Nat /\ sem[c] > 0 /\ sem'[c] = sem[c] - 1
      BY <1>types, <2>1, <2>3 DEF HoldsBy
    <3> QED
      BY <1>now, <2>2, <3>1, ExclusiveTake
  <2>4. CASE c # h
    <3>1. sem'[c] = sem[c] /\ (HoldsBy(x, c)' <=> HoldsBy(x, c))
      BY <1>types, <2>1, <2>4 DEF HoldsBy, Inside
    <3> QED
      BY <1>now, <2>2, <3>1, ExclusiveFrame
  <2> QED
    BY <2>3, <2>4
<1>5. CASE CommitWaitV(x)
  <2> DEFINE h == Head(walk[x])
  <2>1. /\ pc[x] = "waitV" /\ pc'[x] = "wait" /\ walk'[x] = walk[x]
        /\ sem' = [sem EXCEPT ![h] = @ + 1]
    BY <1>types, <1>5 DEF CommitWaitV, At, Goto, localVars
  <2>2. \A t \in Clients : t # x => (HoldsBy(t, c)' <=> HoldsBy(t, c))
    BY <1>types, <2>1, OthersUnmoved DEF HoldsBy, Inside
  <2>3. CASE c = h
    <3>1. c # x
      BY <2>1, <2>3 DEF SemaphoreInvariant, WaitsForOthers
    <3>2. HoldsBy(x, c) /\ ~HoldsBy(x, c)' /\ sem'[c] = sem[c] + 1
      BY <1>types, <2>1, <2>3, <3>1 DEF HoldsBy
    <3> QED
      BY <1>now, <2>2, <3>2, ExclusiveGive
  <2>4. CASE c # h
    <3>1. sem'[c] = sem[c] /\ (HoldsBy(x, c)' <=> HoldsBy(x, c))
      BY <1>types, <2>1, <2>4 DEF HoldsBy, Inside
    <3> QED
      BY <1>now, <2>2, <3>1, ExclusiveFrame
  <2> QED
    BY <2>3, <2>4
<1>6. CASE CommitFinish(x)
  <2>1. /\ pc[x] = "finish" /\ pc'[x] = "return"
        /\ sem' = [sem EXCEPT ![x] = @ + waitcnt[x] + 1]
    BY <1>types, <1>6 DEF CommitFinish, ReleaseAndPost, At, Goto
  <2>2. c # x
    BY <2>1 DEF SemaphoreInvariant, DecidedAtFinish
  <2>3. sem'[c] = sem[c] /\ \A t \in Clients : HoldsBy(t, c)' <=> HoldsBy(t, c)
    BY <1>types, <2>1, <2>2, OthersUnmoved DEF HoldsBy
  <2> QED
    BY <1>now, <2>3, ExclusiveFrame
<1>7. CASE CommitReturn(x)
  <2>1. UNCHANGED sem /\ pc[x] = "return" /\ pc'[x] = "reply"
    BY <1>types, <1>7 DEF CommitReturn, At, Goto, transVars
  <2> QED
    BY <1>1, <2>1 DEF Inside
<1> QED
  BY <1>2, <1>3, <1>4, <1>5, <1>6, <1>7 DEF CommitStep

\* Until its decision a transaction's semaphore is a mutex.
LEMMA ExclusiveStep ==
    ASSUME CommitInvariant, SemaphoreInvariant, [Next]_vars
    PROVE  Exclusive'
<1>types. /\ TypeOK /\ pc \in [Threads -> Labels] /\ Clients \subseteq Threads
          /\ walk \in [Clients -> Seq(Clients)] /\ sem \in [Clients -> Nat]
          /\ status \in [Clients -> Status] /\ stack \in [Threads -> Seq(Frame)]
  BY DEF CommitInvariant, TypeOK, Threads
<1>decided. \A e \in Clients : status[e] # "PENDING" => status'[e] # "PENDING"
  BY StaysDecided DEF CommitInvariant, PointersAreKnown
<1> SUFFICES ASSUME NEW c \in Clients, status'[c] = "PENDING"
             PROVE  (Free(c) \/ HeldByOne(c))'
  BY DEF Exclusive
<1>pending. status[c] = "PENDING"
  BY <1>decided
<1>now. Free(c) \/ HeldByOne(c)
  BY <1>pending DEF SemaphoreInvariant, Exclusive
<1>1. ASSUME NEW x \in Clients, CreateStep(x) \/ LoopStep(x) \/ StoreStep(x)
      PROVE  (Free(c) \/ HeldByOne(c))'
  <2>1. pc[x] \notin Inside /\ pc'[x] \notin Inside
    BY <1>1, <1>types, OutsideSteps
  <2>2. \A t \in Clients : HoldsBy(t, c)' <=> HoldsBy(t, c)
    BY <1>1, <1>types, <2>1, OthersUnmoved DEF HoldsBy, Inside
  <2>3. CASE Create(x) /\ x = c
    <3>1. sem'[c] = 1 /\ pc[c] = "create"
      BY <1>types, <2>3 DEF Create, At
    <3>2. c \notin Known
      BY <3>1 DEF Known
    <3>3. ASSUME NEW t \in Clients, HoldsBy(t, c) PROVE FALSE
      <4>1. pc[t] = "waitV" /\ Head(walk[t]) = c
        BY <3>1, <3>3 DEF HoldsBy, Inside
      <4>2. walk[t] # <<>>
        BY <4>1 DEF CommitInvariant, WalkIsAtElement
      <4>3. c \in Range(walk[t])
        BY <1>types, <4>1, <4>2, TakingHead
      <4> QED
        BY <3>2, <4>3 DEF CommitInvariant, PointersAreKnown, WalkKnown
    <3> QED
      BY <2>2, <3>1, <3>3 DEF Free
  <2>4. CASE ~(Create(x) /\ x = c)
    <3>1. sem'[c] = sem[c]
      BY <1>1, <1>types, <2>4, OutsideSteps DEF Create
    <3> QED
      BY <1>now, <2>2, <3>1, ExclusiveFrame
  <2> QED
    BY <2>3, <2>4
<1>2. ASSUME NEW x \in Clients, CommitStep(x) PROVE (Free(c) \/ HeldByOne(c))'
  BY <1>2, <1>pending, ExclusiveCommit
<1>still. ASSUME sem'[c] = sem[c], UNCHANGED walk, \A d \in Clients : pc'[d] = pc[d]
          PROVE  (Free(c) \/ HeldByOne(c))'
  <2>1. \A t \in Clients : HoldsBy(t, c)' <=> HoldsBy(t, c)
    BY <1>still DEF HoldsBy
  <2> QED
    BY <1>now, <1>still, <2>1, ExclusiveFrame
<1>3. ASSUME NEW t \in Threads, AbortStep(t) PROVE (Free(c) \/ HeldByOne(c))'
  <2>1. UNCHANGED <<walk, pc>>
    BY <1>3, AbortFrame
  <2>2. CASE AbortAcquire(t)
    <3>1. Top(t).tp \in Clients
      BY <1>types, <2>2, TopType DEF AbortAcquire, Aborting
    <3>2. /\ status' = [status EXCEPT ![Top(t).tp] = "ABORTED"]
          /\ sem' = [sem EXCEPT ![Top(t).tp] = @ - 1]
      BY <2>2 DEF AbortAcquire
    <3>3. sem'[c] = sem[c]
      BY <1>types, <3>1, <3>2
    <3> QED
      BY <1>still, <2>1, <3>3
  <2>3. CASE AbortFinish(t)
    <3>1. stack[t] # <<>> /\ Top(t).at = "loop"
      BY <2>3 DEF AbortFinish, Aborting, Top
    <3>2. Top(t) \in Range(stack[t])
      BY <1>types, <3>1, TakingHead DEF Top
    <3>3. status[Top(t).tp] # "PENDING"
      BY <3>1, <3>2 DEF SemaphoreInvariant, AbortsAreDecided
    <3>4. sem' = [sem EXCEPT ![Top(t).tp] = @ + waitcnt[Top(t).tp] + 1]
      BY <2>3 DEF AbortFinish, ReleaseAndPost
    <3>5. sem'[c] = sem[c]
      BY <1>types, <1>pending, <3>3, <3>4
    <3> QED
      BY <1>still, <2>1, <3>5
  <2>4. CASE AbortFatal(t) \/ AbortPending(t) \/ AbortDependency(t)
    <3>1. UNCHANGED sem
      BY <2>4 DEF AbortFatal, AbortPending, AbortDependency, transVars
    <3> QED
      BY <1>still, <2>1, <3>1
  <2> QED
    BY <1>3, <2>2, <2>3, <2>4 DEF AbortStep
<1>4. ASSUME TerminateStep PROVE (Free(c) \/ HeldByOne(c))'
  <2>1. UNCHANGED sem
    BY <1>4 DEF TerminateStep, Sighup, WaitForEmpty, WaitAgain, WaitEnds, UseFreedRegistry,
       FiniAbort, FiniNext, FiniEnd, FiniStore, transVars
  <2> QED
    BY <1>4, <1>types, <1>still, <2>1, TerminateFrame
<1>5. CASE UNCHANGED <<transVars, listVars, storeVars, pc, stack, localVars>>
  BY <1>still, <1>5 DEF transVars, localVars
<1> QED
  BY <1>1, <1>2, <1>3, <1>4, <1>5, NextCases

\* Before the first connection every semaphore is free.
LEMMA InitSemaphore == Init => SemaphoreInvariant
<1> SUFFICES ASSUME Init PROVE SemaphoreInvariant
  OBVIOUS
<1>1. \A c \in Clients : pc[c] = "start" /\ sem[c] = 1
  BY ClientsAssumption DEF Init, Threads
<1>2. \A t \in Threads : Range(stack[t]) = {}
  BY DEF Init, Range
<1>3. NoAbortInside /\ DecidedAtFinish /\ WaitsForOthers /\ AbortsAreDecided
  BY <1>1, <1>2 DEF NoAbortInside, DecidedAtFinish, WaitsForOthers, AbortsAreDecided, Inside
<1>4. Exclusive
  BY <1>1 DEF Exclusive, Free, HoldsBy, Inside
<1> QED
  BY <1>3, <1>4 DEF SemaphoreInvariant

\* Every step keeps the semaphores' discipline.
LEMMA StepSemaphore == CommitInvariant /\ SemaphoreInvariant /\ [Next]_vars => SemaphoreInvariant'
<1>1. CommitInvariant => TypeOK
  BY DEF CommitInvariant
<1> QED
  BY <1>1, NoAbortInsideStep, AbortsAreDecidedStep, DecidedAtFinishStep, WaitsForOthersStep,
     ExclusiveStep DEF SemaphoreInvariant

\* The threads that hold a pending transaction's semaphore are in trans_commit.
LEMMA PendingHolders ==
    ASSUME CommitInvariant, SemaphoreInvariant, NEW c \in Clients, status[c] = "PENDING"
    PROVE  Holders(c) = {t \in Clients : HoldsBy(t, c)}
<1>stack. stack \in [Threads -> Seq(Frame)] /\ Clients \subseteq Threads
  BY DEF CommitInvariant, TypeOK, Threads
<1>1. ASSUME NEW t \in Threads, NEW i \in DOMAIN stack[t],
             stack[t][i].tp = c, stack[t][i].at = "loop"
      PROVE  FALSE
  <2>1. stack[t][i] \in Range(stack[t])
    BY DEF Range
  <2> QED
    BY <1>1, <2>1 DEF SemaphoreInvariant, AbortsAreDecided
<1>2. \A t \in Clients : pc[t] = "waitV" => stack[t] = <<>>
  BY DEF SemaphoreInvariant, NoAbortInside, Inside
<1> QED
  BY <1>1, <1>2 DEF Holders, HoldsBy, Inside

\* Until its decision a transaction's semaphore is a mutex: held by at most one
\* thread of trans_commit or trans_abort, and free exactly when nobody holds it.
THEOREM SemaphoresAreMutexes == Spec => []SemaphoreIsMutexWhilePending
<1>1. CommitInvariant /\ SemaphoreInvariant => SemaphoreIsMutexWhilePending
  <2> SUFFICES ASSUME CommitInvariant, SemaphoreInvariant,
                      NEW c \in Clients, status[c] = "PENDING"
               PROVE  sem[c] = 1 - Cardinality(Holders(c))
    BY DEF SemaphoreIsMutexWhilePending
  <2>1. Free(c) \/ HeldByOne(c)
    BY DEF SemaphoreInvariant, Exclusive
  <2>2. CASE Free(c)
    <3>1. Holders(c) = {}
      BY <2>2, PendingHolders DEF Free
    <3> QED
      BY <2>2, <3>1, FS_EmptySet DEF Free
  <2>3. CASE HeldByOne(c)
    <3>1. PICK t \in Clients : Holders(c) = {t}
      BY <2>3, PendingHolders DEF HeldByOne
    <3>2. Cardinality(Holders(c)) = 1
      BY <3>1, FS_Singleton
    <3> QED
      BY <2>3, <3>2 DEF HeldByOne
  <2> QED
    BY <2>1, <2>2, <2>3
<1>2. Spec => []SemaphoreInvariant
  BY InitSemaphore, StepSemaphore, InvariantHolds, PTL DEF Spec
<1> QED
  BY <1>1, <1>2, InvariantHolds, PTL

-------------------------------------------------------------------------------
(* The reference counts.  A transaction's count covers everything that     *)
(* will drop a reference to it: the versions it created, the dependency    *)
(* sets it is in, the calls of trans_abort and its own thread.             *)

\* The element of a list at height h: prepending to the list and taking its
\* head off leave the heights of the other elements alone.
AtHeight(s, h) == s[Len(s) - h]

\* The versions c has created: in the store, and in the part of a list that a
\* thread is disposing of.
Placed(c) ==
    {x \in Keys \X (Nat \ {0}) : x[2] \in DOMAIN versions[x[1]] /\ versions[x[1]][x[2]] = c}

\* The labels at which walk[c] holds versions to dispose of.
Disposing == {"doomed", "dispose"}

Doomed(c) ==
    {x \in Clients \X Nat : /\ pc[x[1]] \in Disposing
                            /\ x[2] < Len(walk[x[1]])
                            /\ AtHeight(walk[x[1]], x[2]) = c}

\* An activation of trans_abort that has seen a pending transaction.
Dropping == {"acquire", "loop"}

\* In the stack s, an activation for d has called trans_abort for the dependency
\* at height h, and that call will drop a reference.
Calls(s, d, h) ==
    \E i \in DOMAIN s :
        i > 1 /\ s[i].tp = d /\ Len(s[i].rest) = h /\ s[i - 1].at \in Dropping

\* The references that dependency sets hold to c: while c is pending, and then
\* until the trans_abort that came this way drops it.
Depended(c) ==
    {x \in Clients \X Nat :
        /\ x[2] < Len(depends[x[1]])
        /\ AtHeight(depends[x[1]], x[2]) = c
        /\ (status[c] = "PENDING" \/ \E t \in Threads : Calls(stack[t], x[1], x[2]))}

\* The outermost activation of a stack.
Outermost(s) == s[Len(s)]

\* The calls trans_abort(c) from outside trans_abort that still may drop the
\* reference they were given.
Called(c) ==
    {t \in Threads : /\ stack[t] # <<>>
                     /\ Outermost(stack[t]).tp = c
                     /\ (status[c] = "PENDING" \/ Outermost(stack[t]).at \in Dropping)}

\* The labels at which a transaction's own thread holds the creator's reference.
Owning == StoreLabels \cup Inside \cup {"loadId", "storeId", "recv", "commit"}

\* The creator's reference, until its own thread drops it or hands it over.
OwnReference(c) ==
    IF \/ pc[c] \in Owning
       \/ pc[c] = "reply" /\ local[c] = "PENDING"
       \/ pc[c] \in {"return", "reply", "unregister"} /\ status[c] = "PENDING"
    THEN 1 ELSE 0

\* n references are enough for the members of four sets and o more.
Covers(n, P, W, D, A, o) ==
    /\ IsFiniteSet(P) /\ IsFiniteSet(W) /\ IsFiniteSet(D) /\ IsFiniteSet(A)
    /\ n >= Cardinality(P) + Cardinality(W) + Cardinality(D) + Cardinality(A) + o

\* The count of c is enough for all its references.
Covered(c) == Covers(refcnt[c], Placed(c), Doomed(c), Depended(c), Called(c), OwnReference(c))

\* S2 has at most e elements more than S.
Grows(S2, S, e) ==
    IsFiniteSet(S) => IsFiniteSet(S2) /\ Cardinality(S2) <= Cardinality(S) + e

\* A set that only loses elements does not grow.
LEMMA GrowsNot ==
    ASSUME NEW S, NEW S2, S2 \subseteq S
    PROVE  Grows(S2, S, 0)
  BY FS_Subset, FS_CardinalityType DEF Grows

\* A set that gains one element grows by one.
LEMMA GrowsByOne ==
    ASSUME NEW S, NEW S2, NEW x, S2 \subseteq S \cup {x}
    PROVE  Grows(S2, S, 1)
<1> SUFFICES ASSUME IsFiniteSet(S)
             PROVE  IsFiniteSet(S2) /\ Cardinality(S2) <= Cardinality(S) + 1
  BY DEF Grows
<1>0. Cardinality(S) \in Nat
  BY FS_CardinalityType
<1>1. /\ IsFiniteSet(S \cup {x})
      /\ Cardinality(S \cup {x}) = IF x \in S THEN Cardinality(S) ELSE Cardinality(S) + 1
  BY FS_AddElement
<1>2. Cardinality(S \cup {x}) <= Cardinality(S) + 1
  BY <1>0, <1>1
<1>3. IsFiniteSet(S2) /\ Cardinality(S2) <= Cardinality(S \cup {x})
  BY <1>1, FS_Subset
<1>4. Cardinality(S2) \in Nat /\ Cardinality(S \cup {x}) \in Nat
  BY <1>1, <1>3, FS_CardinalityType
<1> QED
  BY <1>0, <1>2, <1>3, <1>4

\* A set that loses an element it had shrinks by one.
LEMMA LosesOne ==
    ASSUME NEW S, NEW S2, NEW x \in S, S2 \subseteq S \ {x}
    PROVE  Grows(S2, S, -1)
<1> SUFFICES ASSUME IsFiniteSet(S)
             PROVE  IsFiniteSet(S2) /\ Cardinality(S2) <= Cardinality(S) - 1
  BY DEF Grows
<1>1. IsFiniteSet(S \ {x}) /\ Cardinality(S \ {x}) = Cardinality(S) - 1
  BY FS_RemoveElement, FS_CardinalityType
<1> QED
  BY <1>1, FS_Subset, FS_CardinalityType

\* The count and what it covers change in step.
LEMMA CoversStep ==
    ASSUME NEW n \in Int, NEW P, NEW W, NEW D, NEW A, NEW o \in {0, 1},
           NEW m \in Int, NEW P2, NEW W2, NEW D2, NEW A2, NEW q \in {0, 1},
           NEW p \in Int, NEW w \in Int, NEW d \in Int, NEW a \in Int,
           Covers(n, P, W, D, A, o),
           Grows(P2, P, p), Grows(W2, W, w), Grows(D2, D, d), Grows(A2, A, a),
           m >= n + p + w + d + a + q - o
    PROVE  Covers(m, P2, W2, D2, A2, q)
<1>1. /\ Cardinality(P) \in Nat /\ Cardinality(W) \in Nat
      /\ Cardinality(D) \in Nat /\ Cardinality(A) \in Nat
  BY FS_CardinalityType DEF Covers
<1>2. /\ IsFiniteSet(P2) /\ IsFiniteSet(W2) /\ IsFiniteSet(D2) /\ IsFiniteSet(A2)
      /\ Cardinality(P2) <= Cardinality(P) + p /\ Cardinality(W2) <= Cardinality(W) + w
      /\ Cardinality(D2) <= Cardinality(D) + d /\ Cardinality(A2) <= Cardinality(A) + a
  BY DEF Covers, Grows
<1>3. /\ Cardinality(P2) \in Nat /\ Cardinality(W2) \in Nat
      /\ Cardinality(D2) \in Nat /\ Cardinality(A2) \in Nat
  BY <1>2, FS_CardinalityType
<1> QED
  BY <1>1, <1>2, <1>3 DEF Covers

\* Prepending to a list, and taking its head off, keep the heights.
LEMMA PrependedHeights ==
    ASSUME NEW S, NEW s \in Seq(S), NEW e \in S
    PROVE  /\ Len(<<e>> \o s) = Len(s) + 1
           /\ AtHeight(<<e>> \o s, Len(s)) = e
           /\ \A h \in 0..(Len(s) - 1) : AtHeight(<<e>> \o s, h) = AtHeight(s, h)
<1>1. <<e>> \in Seq(S) /\ Len(<<e>>) = 1 /\ <<e>>[1] = e
  OBVIOUS
<1>2. Len(<<e>> \o s) = Len(s) + 1
  BY <1>1, ConcatProperties
<1>3. \A i \in 1..(Len(s) + 1) : (<<e>> \o s)[i] = IF i <= 1 THEN <<e>>[i] ELSE s[i - 1]
  BY <1>1, ConcatProperties
<1> QED
  BY <1>1, <1>2, <1>3 DEF AtHeight

\* The same for the rest of a list.
LEMMA TailHeights ==
    ASSUME NEW S, NEW s \in Seq(S), s # <<>>
    PROVE  /\ Len(s) \in Nat /\ Len(s) > 0
           /\ Tail(s) \in Seq(S) /\ Len(Tail(s)) = Len(s) - 1
           /\ Head(s) = AtHeight(s, Len(s) - 1)
           /\ \A h \in 0..(Len(s) - 2) : AtHeight(Tail(s), h) = AtHeight(s, h)
<1>1. /\ Tail(s) \in Seq(S) /\ Len(Tail(s)) = Len(s) - 1
      /\ \A i \in 1..(Len(s) - 1) : Tail(s)[i] = s[i + 1]
  BY HeadTailProperties
<1> QED
  BY <1>1 DEF AtHeight

\* The stack after the running activation was replaced, called another one, or
\* returned.
LEMMA Replaced ==
    ASSUME NEW S, NEW s \in Seq(S), s # <<>>, NEW f \in S
    PROVE  /\ <<f>> \o Tail(s) \in Seq(S)
           /\ Len(<<f>> \o Tail(s)) = Len(s)
           /\ (<<f>> \o Tail(s))[1] = f
           /\ \A i \in 2..Len(s) : (<<f>> \o Tail(s))[i] = s[i]
<1>1. /\ Tail(s) \in Seq(S) /\ Len(Tail(s)) = Len(s) - 1
      /\ \A i \in 1..(Len(s) - 1) : Tail(s)[i] = s[i + 1]
  BY HeadTailProperties
<1>2. <<f>> \in Seq(S) /\ Len(<<f>>) = 1 /\ <<f>>[1] = f
  OBVIOUS
<1>3. /\ <<f>> \o Tail(s) \in Seq(S)
      /\ Len(<<f>> \o Tail(s)) = Len(s)
      /\ \A i \in 1..Len(s) : (<<f>> \o Tail(s))[i] = IF i <= 1 THEN <<f>>[i] ELSE Tail(s)[i - 1]
  BY <1>1, <1>2, ConcatProperties
<1> QED
  BY <1>1, <1>2, <1>3

\* The stack after a call: the callee in front of its caller.
LEMMA Pushed ==
    ASSUME NEW S, NEW s \in Seq(S), s # <<>>, NEW g \in S, NEW r \in S
    PROVE  /\ <<g, r>> \o Tail(s) \in Seq(S)
           /\ Len(<<g, r>> \o Tail(s)) = Len(s) + 1
           /\ (<<g, r>> \o Tail(s))[1] = g
           /\ (<<g, r>> \o Tail(s))[2] = r
           /\ \A i \in 3..(Len(s) + 1) : (<<g, r>> \o Tail(s))[i] = s[i - 1]
<1>1. /\ Tail(s) \in Seq(S) /\ Len(Tail(s)) = Len(s) - 1
      /\ \A i \in 1..(Len(s) - 1) : Tail(s)[i] = s[i + 1]
  BY HeadTailProperties
<1>2. <<g, r>> \in Seq(S) /\ Len(<<g, r>>) = 2 /\ <<g, r>>[1] = g /\ <<g, r>>[2] = r
  OBVIOUS
<1>3. /\ <<g, r>> \o Tail(s) \in Seq(S)
      /\ Len(<<g, r>> \o Tail(s)) = Len(s) + 1
      /\ \A i \in 1..(Len(s) + 1) :
            (<<g, r>> \o Tail(s))[i] = IF i <= 2 THEN <<g, r>>[i] ELSE Tail(s)[i - 2]
  BY <1>1, <1>2, ConcatProperties
<1> QED
  BY <1>1, <1>2, <1>3

\* The stack after a return.
LEMMA Returned ==
    ASSUME NEW S, NEW s \in Seq(S), s # <<>>
    PROVE  /\ Len(s) \in Nat /\ Len(s) > 0
           /\ Tail(s) \in Seq(S)
           /\ Len(Tail(s)) = Len(s) - 1
           /\ \A i \in 1..(Len(s) - 1) : Tail(s)[i] = s[i + 1]
  BY HeadTailProperties

\* A step leaves the stacks of the other threads alone.
LEMMA OtherStacks ==
    ASSUME TypeOK, NEW u \in Threads
    PROVE  /\ \A x \in Clients : LoopStep(x) /\ u # x => stack'[u] = stack[u]
           /\ \A x \in Clients : StoreStep(x) /\ u # x => stack'[u] = stack[u]
           /\ \A t \in Threads : AbortStep(t) /\ u # t => stack'[u] = stack[u]
           /\ TerminateStep /\ u # Main => stack'[u] = stack[u]
<1>stack. stack \in [Threads -> Seq(Frame)] /\ Clients \subseteq Threads /\ Main \in Threads
  BY DEF TypeOK, Threads
<1>1. ASSUME NEW x \in Clients, LoopStep(x), u # x PROVE stack'[u] = stack[u]
  BY <1>stack, <1>1 DEF LoopStep, RecvRequest, RecvPartialRequest, RecvOther, RecvCommit,
     RecvFails, Reply, Unregister, UnregisterHungUp, CallAbort
<1>2. ASSUME NEW x \in Clients, StoreStep(x), u # x PROVE stack'[u] = stack[u]
  BY <1>stack, <1>2 DEF StoreStep, LockMap, ExamineAborted, ExamineCommitted, ExaminePending,
     AddDependency, ExamineEnd, AbortDoomed, DisposeDoomed, DoomedEnd, PlaceConflict,
     PlaceVersion, UnlockMap, StoreResult, CallAbort
<1>3. ASSUME NEW t \in Threads, AbortStep(t), u # t PROVE stack'[u] = stack[u]
  BY <1>stack, <1>3 DEF AbortStep, AbortFatal, AbortPending, AbortAcquire, AbortDependency,
     AbortFinish, SetTop, Return
<1>4. ASSUME TerminateStep, u # Main PROVE stack'[u] = stack[u]
  BY <1>stack, <1>4 DEF TerminateStep, Sighup, WaitForEmpty, WaitAgain, WaitEnds,
     UseFreedRegistry, FiniAbort, FiniNext, FiniEnd, FiniStore, CallAbort
<1> QED
  BY <1>1, <1>2, <1>3, <1>4

\* What the steps outside trans_abort do to the stack of their own thread: they
\* run only when it is empty, and at most call trans_abort.
LEMMA OwnCalls ==
    ASSUME TypeOK
    PROVE  /\ \A x \in Clients : LoopStep(x) =>
                stack[x] = <<>> /\ (UNCHANGED stack \/ \E l : CallAbort(x, x, l))
           /\ \A x \in Clients : StoreStep(x) =>
                /\ stack[x] = <<>>
                /\ UNCHANGED stack \/ \E tp, l : CallAbort(x, tp, l)
           /\ TerminateStep =>
                \/ UNCHANGED stack
                \/ stack[Main] = <<>> /\ \E tp, l : CallAbort(Main, tp, l)
<1>1. ASSUME NEW x \in Clients, LoopStep(x)
      PROVE  stack[x] = <<>> /\ (UNCHANGED stack \/ \E l : CallAbort(x, x, l))
  BY <1>1 DEF LoopStep, RecvRequest, RecvPartialRequest, RecvOther, RecvCommit,
     RecvFails, Reply, Unregister, UnregisterHungUp, At
<1>2. ASSUME NEW x \in Clients, StoreStep(x)
      PROVE  stack[x] = <<>> /\ (UNCHANGED stack \/ \E tp, l : CallAbort(x, tp, l))
  BY <1>2 DEF StoreStep, LockMap, ExamineAborted, ExamineCommitted, ExaminePending,
     AddDependency, ExamineEnd, AbortDoomed, DisposeDoomed, DoomedEnd, PlaceConflict,
     PlaceVersion, UnlockMap, StoreResult, At
<1>3. ASSUME TerminateStep
      PROVE  \/ UNCHANGED stack
             \/ stack[Main] = <<>> /\ \E tp, l : CallAbort(Main, tp, l)
  BY <1>3 DEF TerminateStep, Sighup, WaitForEmpty, WaitAgain, WaitEnds, UseFreedRegistry,
     FiniAbort, FiniNext, FiniEnd, FiniStore, At
<1> QED
  BY <1>1, <1>2, <1>3

\* The five steps of trans_abort on the stack of their thread.
Replaces(t, f) == stack' = [stack EXCEPT ![t] = <<f>> \o Tail(stack[t])]
Pops(t) == stack' = [stack EXCEPT ![t] = Tail(stack[t])]
Pushes(t, g, r) == stack' = [stack EXCEPT ![t] = <<g, r>> \o Tail(stack[t])]

\* Aborting a committed transaction; the two looks at the status; the P; the call
\* for a dependency; the end of the loop.
Dies(t) == AbortFatal(t) /\ UNCHANGED <<sem, refcnt, status, stack>>

Looks(t, f) ==
    /\ AbortFatal(t) /\ UNCHANGED <<sem, refcnt, status>> /\ Replaces(t, f)
    /\ Top(t).at = "fatal"
    /\ f.at = "pending" /\ f.tp = Top(t).tp /\ f.rest = Top(t).rest

Starts(t, f) ==
    /\ AbortPending(t) /\ UNCHANGED <<sem, refcnt, status>> /\ Replaces(t, f)
    /\ Top(t).at = "pending"
    /\ f.at = "acquire" /\ f.tp = Top(t).tp /\ f.rest = Top(t).rest
    /\ status[f.tp] = "PENDING"

Skips(t) ==
    /\ AbortPending(t) /\ UNCHANGED <<sem, refcnt, status>> /\ Pops(t)
    /\ Top(t).at = "pending"

Acquires(t, f) ==
    /\ AbortAcquire(t) /\ UNCHANGED refcnt /\ Replaces(t, f)
    /\ Top(t).at = "acquire"
    /\ f.at = "loop" /\ f.tp = Top(t).tp /\ f.rest = depends[f.tp]

Descends(t, g, r) ==
    /\ AbortDependency(t) /\ UNCHANGED <<sem, refcnt, status>> /\ Pushes(t, g, r)
    /\ Top(t).at = "loop" /\ Top(t).rest # <<>>
    /\ g.at = "fatal" /\ g.tp = Head(Top(t).rest)
    /\ r.at = "loop" /\ r.tp = Top(t).tp /\ r.rest = Tail(Top(t).rest)

Finishes(t) ==
    /\ AbortFinish(t) /\ UNCHANGED status /\ Pops(t)
    /\ Top(t).at = "loop"

\* A step of trans_abort is one of these.
LEMMA AbortStacks ==
    ASSUME TypeOK, NEW t \in Threads, AbortStep(t)
    PROVE  /\ stack[t] # <<>> /\ stack[t] \in Seq(Frame) /\ stack[t][1] = Top(t)
           /\ Top(t) \in Frame
           /\ Top(t).tp \in Clients /\ Top(t).rest \in Seq(Clients)
           /\ \/ Dies(t)
              \/ \E f \in Frame : Looks(t, f)
              \/ \E f \in Frame : Starts(t, f)
              \/ Skips(t)
              \/ \E f \in Frame : Acquires(t, f)
              \/ \E g \in Frame, r \in Frame : Descends(t, g, r)
              \/ Finishes(t)
<1>0. stack[t] # <<>> /\ stack[t] \in Seq(Frame)
  BY DEF AbortStep, AbortFatal, AbortPending, AbortAcquire, AbortDependency, AbortFinish,
     Aborting, TypeOK
<1>1. /\ Top(t) \in Frame /\ Tail(stack[t]) \in Seq(Frame)
      /\ Top(t).tp \in Clients /\ Top(t).rest \in Seq(Clients)
  BY <1>0, TopType DEF TypeOK
<1>2. stack[t][1] = Top(t)
  BY <1>0 DEF Top
<1>3. CASE AbortFatal(t)
  <2>1. UNCHANGED <<sem, refcnt, status>> /\ Top(t).at = "fatal"
    BY <1>3 DEF AbortFatal, Aborting, Top, transVars
  <2>2. CASE UNCHANGED stack
    BY <1>0, <1>1, <1>2, <1>3, <2>1, <2>2 DEF Dies
  <2>3. CASE ~UNCHANGED stack
    <3> DEFINE f == [Top(t) EXCEPT !.at = "pending"]
    <3>1. f \in Frame /\ f.tp = Top(t).tp /\ f.at = "pending" /\ f.rest = Top(t).rest
      BY <1>1 DEF Frame
    <3>2. Replaces(t, f)
      BY <1>3, <2>3 DEF AbortFatal, SetTop, Replaces
    <3> HIDE DEF f
    <3> QED
      BY <1>0, <1>1, <1>2, <1>3, <2>1, <3>1, <3>2 DEF Looks
  <2> QED
    BY <2>2, <2>3
<1>4. CASE AbortPending(t)
  <2>1. UNCHANGED <<sem, refcnt, status>> /\ Top(t).at = "pending"
    BY <1>4 DEF AbortPending, Aborting, Top, transVars
  <2>2. CASE status[Top(t).tp] # "PENDING"
    BY <1>0, <1>1, <1>2, <1>4, <2>1, <2>2 DEF AbortPending, Return, Pops, Skips
  <2>3. CASE status[Top(t).tp] = "PENDING"
    <3> DEFINE f == [Top(t) EXCEPT !.at = "acquire"]
    <3>1. f \in Frame /\ f.tp = Top(t).tp /\ f.at = "acquire" /\ f.rest = Top(t).rest
      BY <1>1 DEF Frame
    <3>2. Replaces(t, f)
      BY <1>4, <2>3 DEF AbortPending, SetTop, Replaces
    <3> HIDE DEF f
    <3> QED
      BY <1>0, <1>1, <1>2, <1>4, <2>1, <2>3, <3>1, <3>2 DEF Starts
  <2> QED
    BY <2>2, <2>3
<1>5. CASE AbortAcquire(t)
  <2> DEFINE f == [tp |-> Top(t).tp, at |-> "loop", rest |-> depends[Top(t).tp]]
  <2>1. f \in Frame /\ f.tp = Top(t).tp /\ f.at = "loop" /\ f.rest = depends[f.tp]
    BY <1>1 DEF Frame, TypeOK
  <2>2. UNCHANGED refcnt /\ Top(t).at = "acquire" /\ Replaces(t, f)
    BY <1>5 DEF AbortAcquire, Aborting, Top, SetTop, Replaces
  <2> HIDE DEF f
  <2> QED
    BY <1>0, <1>1, <1>2, <1>5, <2>1, <2>2 DEF Acquires
<1>6. CASE AbortDependency(t)
  <2> DEFINE g == [tp |-> Head(Top(t).rest), at |-> "fatal", rest |-> <<>>]
             r == [Top(t) EXCEPT !.rest = Tail(@)]
  <2>1. UNCHANGED <<sem, refcnt, status>> /\ Top(t).at = "loop" /\ Top(t).rest # <<>>
    BY <1>6 DEF AbortDependency, Aborting, Top, transVars
  <2>2. Head(Top(t).rest) \in Clients /\ Tail(Top(t).rest) \in Seq(Clients)
    BY <1>1, <2>1, TakingHead
  <2>3. g \in Frame /\ g.at = "fatal" /\ g.tp = Head(Top(t).rest)
    BY <2>2 DEF Frame
  <2>4. r \in Frame /\ r.at = "loop" /\ r.tp = Top(t).tp /\ r.rest = Tail(Top(t).rest)
    BY <1>1, <2>1, <2>2 DEF Frame
  <2>5. Pushes(t, g, r)
    BY <1>6 DEF AbortDependency, Pushes
  <2> HIDE DEF g, r
  <2> QED
    BY <1>0, <1>1, <1>2, <1>6, <2>1, <2>3, <2>4, <2>5 DEF Descends
<1>7. CASE AbortFinish(t)
  <2>1. UNCHANGED status /\ Pops(t) /\ Top(t).at = "loop"
    BY <1>7 DEF AbortFinish, Aborting, Top, Return, Pops
  <2> QED
    BY <1>0, <1>1, <1>2, <1>7, <2>1 DEF Finishes
<1> QED
  BY <1>3, <1>4, <1>5, <1>6, <1>7 DEF AbortStep

-------------------------------------------------------------------------------
(* Who walks over a dependency set.                                        *)

\* An activation in the stack s is between P and V on the semaphore of c.
Looping(s, c) == \E i \in DOMAIN s : s[i].tp = c /\ s[i].at = "loop"

\* Thread t is one of Holders(c).
HoldsNow(t, c) ==
    \/ Looping(stack[t], c)
    \/ t \in Clients /\ stack[t] = <<>> /\ pc[t] = "waitV" /\ Head(walk[t]) = c
    \/ t \in Clients /\ t = c /\ pc[t] \in Inside

\* The threads the runs count are those that hold the semaphore now.
LEMMA HoldersAre ==
    ASSUME NEW c \in Clients
    PROVE  Holders(c) = {t \in Threads : HoldsNow(t, c)}
  BY DEF Holders, HoldsNow, Looping, Inside, Threads

\* At most one thread walks over the dependencies of c.
OneWalk(c) ==
    depends[c] # <<>> =>
        \/ sem[c] = 1 /\ \A t \in Threads : ~HoldsNow(t, c)
        \/ sem[c] = 0 /\ \E t \in Threads : \A u \in Threads : HoldsNow(u, c) => u = t

\* A transaction that does not exist yet depends on nothing.
UnknownDependsOnNothing == \A c \in Clients \ Known : depends[c] = <<>>

\* The loop of trans_commit walks over its own dependencies.
CommitWalksDependencies ==
    \A c \in Clients : pc[c] \in Inside => Range(walk[c]) \subseteq Range(depends[c])

\* Few enough threads hold a semaphore to be counted.
FiniteHolders == \A c \in Clients : IsFiniteSet(Holders(c))

\* The loop of trans_abort has the lower part of the dependency list before it.
LoopsOverDependencies(f) ==
    f.at = "loop" =>
        /\ Len(f.rest) <= Len(depends[f.tp])
        /\ \A h \in 0..(Len(f.rest) - 1) : AtHeight(f.rest, h) = AtHeight(depends[f.tp], h)

\* Activation f has called g for the dependency it has reached.
CallerOf(f, g) ==
    /\ f.at = "loop"
    /\ Len(f.rest) < Len(depends[f.tp])
    /\ g.tp = AtHeight(depends[f.tp], Len(f.rest))

\* Each activation of s works on the list of the one that called it.
Nested(s) ==
    \A i \in DOMAIN s :
        /\ LoopsOverDependencies(s[i])
        /\ i > 1 => CallerOf(s[i], s[i - 1])
        /\ \A j \in 1..(i - 1) : tid[s[j].tp] < tid[s[i].tp]

\* The activations of a stack abort a dependency of each other's transaction,
\* one with a smaller ID, so none is there twice.
StacksNested == \A t \in Threads : Nested(stack[t])

\* The conjunction that every step preserves, given the invariants above.
WalkInvariant ==
    UnknownDependsOnNothing /\ CommitWalksDependencies /\ FiniteHolders /\ StacksNested

\* The semaphore of c and its holders before and after a step of thread t.
Stays(t, c) == sem'[c] = sem[c] /\ (HoldsNow(t, c) => HoldsNow(t, c)')
Takes(t, c) == sem[c] = sem'[c] + 1 /\ ~HoldsNow(t, c) /\ HoldsNow(t, c)'
Gives(t, c) == sem'[c] > sem[c]

\* Only thread t moves at the semaphore of c, in one of these ways.
Moves(t, c) ==
    /\ \A u \in Threads : u # t => (HoldsNow(u, c)' <=> HoldsNow(u, c))
    /\ depends[c] = <<>> \/ Stays(t, c) \/ Takes(t, c) \/ Gives(t, c)

\* Walks that are exclusive after a step were so before it: P and V add up.
LEMMA WalkBefore ==
    ASSUME NEW c \in Clients, NEW t \in Threads, sem[c] \in Nat, sem'[c] \in Nat,
           Moves(t, c), depends[c] # <<>> => depends'[c] # <<>>, OneWalk(c)'
    PROVE  OneWalk(c)
<1> SUFFICES ASSUME depends[c] # <<>>
             PROVE  \/ sem[c] = 1 /\ \A x \in Threads : ~HoldsNow(x, c)
                    \/ sem[c] = 0 /\ \E v \in Threads : \A x \in Threads : HoldsNow(x, c) => x = v
  BY DEF OneWalk
<1>1. \/ sem'[c] = 1 /\ \A u \in Threads : ~HoldsNow(u, c)'
      \/ sem'[c] = 0 /\ \E v \in Threads : \A u \in Threads : HoldsNow(u, c)' => u = v
  BY DEF OneWalk
<1>2. \A u \in Threads : u # t => (HoldsNow(u, c)' <=> HoldsNow(u, c))
  BY DEF Moves
<1>3. CASE Stays(t, c)
  <2>1. \A u \in Threads : HoldsNow(u, c) => HoldsNow(u, c)'
    BY <1>2, <1>3 DEF Stays
  <2> QED
    BY <1>1, <1>3, <2>1 DEF Stays
<1>4. CASE Takes(t, c)
  <2>1. HoldsNow(t, c)' /\ ~HoldsNow(t, c) /\ sem[c] = sem'[c] + 1
    BY <1>4 DEF Takes
  <2>2. sem'[c] = 0 /\ \A u \in Threads : HoldsNow(u, c)' => u = t
    BY <1>1, <2>1
  <2>3. \A u \in Threads : ~HoldsNow(u, c)
    BY <1>2, <2>1, <2>2
  <2> QED
    BY <2>1, <2>2, <2>3
<1>5. CASE Gives(t, c)
  <2>1. sem'[c] = 1 /\ sem[c] = 0 /\ \A u \in Threads : ~HoldsNow(u, c)'
    BY <1>1, <1>5 DEF Gives
  <2> QED
    BY <1>2, <2>1
<1> QED
  BY <1>3, <1>4, <1>5 DEF Moves

\* The walk that the runs count is exclusive in this sense.
LEMMA CountedWalks ==
    ASSUME FiniteHolders, OneWalkAtATime, NEW c \in Clients, sem[c] \in Nat
    PROVE  OneWalk(c)
<1> SUFFICES ASSUME depends[c] # <<>>
             PROVE  \/ sem[c] = 1 /\ \A t \in Threads : ~HoldsNow(t, c)
                    \/ /\ sem[c] = 0
                       /\ \E t \in Threads : \A u \in Threads : HoldsNow(u, c) => u = t
  BY DEF OneWalk
<1> DEFINE H == Holders(c)
<1>1. IsFiniteSet(H) /\ sem[c] + Cardinality(H) <= 1
  BY DEF FiniteHolders, OneWalkAtATime
<1>2. Cardinality(H) \in Nat
  BY <1>1, FS_CardinalityType
<1>3. H = {t \in Threads : HoldsNow(t, c)}
  BY HoldersAre
<1> HIDE DEF H
<1>4. CASE Cardinality(H) = 0
  <2>1. H = {}
    BY <1>1, <1>4, FS_EmptySet
  <2> QED
    BY <1>1, <1>2, <1>3, <1>4, <2>1 DEF Threads
<1>5. CASE Cardinality(H) = 1
  <2>1. PICK t : H = {t}
    BY <1>1, <1>5, FS_Singleton
  <2>2. t \in Threads /\ \A u \in Threads : HoldsNow(u, c) => u = t
    BY <1>3, <2>1
  <2>3. sem[c] = 0
    BY <1>1, <1>5
  <2> QED
    BY <2>2, <2>3
<1> QED
  BY <1>1, <1>2, <1>4, <1>5

\* Activations in their loop, in the stacks trans_abort leaves.
LEMMA LoopingOf ==
    ASSUME NEW s \in Seq(Frame), s # <<>>, NEW c
    PROVE  /\ Looping(s, c) <=> (s[1].tp = c /\ s[1].at = "loop") \/ Looping(Tail(s), c)
           /\ \A f \in Frame : Looping(<<f>> \o Tail(s), c) <=>
                 (f.tp = c /\ f.at = "loop") \/ Looping(Tail(s), c)
           /\ \A g, r \in Frame : Looping(<<g, r>> \o Tail(s), c) <=>
                 (g.tp = c /\ g.at = "loop") \/ (r.tp = c /\ r.at = "loop") \/ Looping(Tail(s), c)
<1> DEFINE L(x) == x.tp = c /\ x.at = "loop"
<1>0. /\ Len(s) \in Nat /\ Len(s) > 0 /\ Tail(s) \in Seq(Frame) /\ Len(Tail(s)) = Len(s) - 1
      /\ \A i \in 1..(Len(s) - 1) : Tail(s)[i] = s[i + 1]
  BY Returned
<1>1. Looping(Tail(s), c) <=> \E i \in 2..Len(s) : L(s[i])
  <2>1. Looping(Tail(s), c) <=> \E i \in 1..(Len(s) - 1) : L(Tail(s)[i])
    <3>1. DOMAIN Tail(s) = 1..(Len(s) - 1)
      BY <1>0
    <3> HIDE DEF L
    <3> QED
      BY <3>1 DEF Looping, L
  <2>2. ASSUME NEW i \in 1..(Len(s) - 1), L(Tail(s)[i]) PROVE \E j \in 2..Len(s) : L(s[j])
    <3>1. i + 1 \in 2..Len(s) /\ L(s[i + 1])
      BY <1>0, <2>2
    <3> QED
      BY <3>1
  <2>3. ASSUME NEW j \in 2..Len(s), L(s[j]) PROVE \E i \in 1..(Len(s) - 1) : L(Tail(s)[i])
    <3>1. j - 1 \in 1..(Len(s) - 1) /\ Tail(s)[j - 1] = s[j]
      BY <1>0
    <3> QED
      BY <2>3, <3>1
  <2> HIDE DEF L
  <2> QED
    BY <2>1, <2>2, <2>3
<1>2. Looping(s, c) <=> L(s[1]) \/ \E i \in 2..Len(s) : L(s[i])
  BY <1>0 DEF Looping
<1>3. ASSUME NEW f \in Frame
      PROVE  Looping(<<f>> \o Tail(s), c) <=> L(f) \/ \E i \in 2..Len(s) : L(s[i])
  <2> DEFINE n == <<f>> \o Tail(s)
  <2>1. n \in Seq(Frame) /\ Len(n) = Len(s) /\ n[1] = f /\ \A i \in 2..Len(s) : n[i] = s[i]
    BY Replaced
  <2>2. Looping(n, c) <=> \E i \in 1..Len(s) : L(n[i])
    <3> HIDE DEF n
    <3>1. DOMAIN n = 1..Len(s)
      BY <2>1
    <3> QED
      BY <3>1 DEF Looping
  <2> HIDE DEF n
  <2> QED
    BY <1>0, <2>1, <2>2 DEF n
<1>4. ASSUME NEW g \in Frame, NEW r \in Frame
      PROVE  Looping(<<g, r>> \o Tail(s), c) <=> L(g) \/ L(r) \/ \E i \in 2..Len(s) : L(s[i])
  <2> DEFINE n == <<g, r>> \o Tail(s)
  <2>1. /\ n \in Seq(Frame) /\ Len(n) = Len(s) + 1 /\ n[1] = g /\ n[2] = r
        /\ \A i \in 3..(Len(s) + 1) : n[i] = s[i - 1]
    BY Pushed
  <2>2. Looping(n, c) <=> \E i \in 1..(Len(s) + 1) : L(n[i])
    <3> HIDE DEF n
    <3>1. DOMAIN n = 1..(Len(s) + 1)
      BY <2>1
    <3> QED
      BY <3>1 DEF Looping
  <2> HIDE DEF n, L
  <2>3. (\E i \in 1..(Len(s) + 1) : L(n[i]))
           <=> L(n[1]) \/ L(n[2]) \/ \E i \in 3..(Len(s) + 1) : L(n[i])
    BY <1>0
  <2>4. ASSUME NEW i \in 3..(Len(s) + 1), L(n[i]) PROVE \E j \in 2..Len(s) : L(s[j])
    <3>1. i - 1 \in 2..Len(s)
      BY <1>0
    <3> QED
      BY <2>1, <2>4, <3>1
  <2>5. ASSUME NEW j \in 2..Len(s), L(s[j]) PROVE \E i \in 3..(Len(s) + 1) : L(n[i])
    <3>1. j + 1 \in 3..(Len(s) + 1) /\ (j + 1) - 1 = j
      BY <1>0
    <3> QED
      BY <2>1, <2>5, <3>1
  <2> QED
    BY <2>1, <2>2, <2>3, <2>4, <2>5 DEF n
<1> QED
  BY <1>1, <1>2, <1>3, <1>4

\* Only the thread that takes the step can come to hold a semaphore or give it
\* back: a service thread outside its commit does neither ...
LEMMA ServiceMoves ==
    ASSUME CommitInvariant, SemaphoreInvariant, WalkInvariant, NEW c \in Clients,
           NEW x \in Clients, CreateStep(x) \/ LoopStep(x) \/ StoreStep(x)
    PROVE  Moves(x, c)
<1>types. /\ TypeOK /\ pc \in [Threads -> Labels] /\ Clients \subseteq Threads
          /\ sem \in [Clients -> Nat] /\ stack \in [Threads -> Seq(Frame)]
  BY DEF CommitInvariant, TypeOK, Threads
<1>1. \A u \in Threads : u # x => stack'[u] = stack[u]
  BY <1>types, OtherStacks, CreateFrame
<1>2. \A u \in Clients : u # x => pc'[u] = pc[u] /\ walk'[u] = walk[u]
  BY <1>types, OthersUnmoved
<1>3. \A u \in Threads : u # x => (HoldsNow(u, c)' <=> HoldsNow(u, c))
  BY <1>1, <1>2 DEF HoldsNow, Looping
<1>4. pc[x] \notin Inside /\ pc'[x] \notin Inside /\ (UNCHANGED sem \/ Create(x))
  BY <1>types, OutsideSteps
<1>5. Looping(stack[x], c) => Looping(stack'[x], c)
  <2>1. CASE CreateStep(x)
    BY <2>1, CreateFrame
  <2>2. CASE LoopStep(x) \/ StoreStep(x)
    <3>1. stack[x] = <<>>
      BY <1>types, <2>2, OwnCalls
    <3> QED
      BY <3>1 DEF Looping
  <2> QED
    BY <2>1, <2>2
<1>6. HoldsNow(x, c) => HoldsNow(x, c)'
  BY <1>4, <1>5 DEF HoldsNow, Inside
<1>7. CASE Create(x) /\ x = c
  <2>1. c \notin Known
    BY <1>7 DEF Create, At, Known
  <2> QED
    BY <1>3, <2>1 DEF Moves, WalkInvariant, UnknownDependsOnNothing
<1>8. CASE ~(Create(x) /\ x = c)
  <2>1. sem'[c] = sem[c]
    BY <1>types, <1>4, <1>8 DEF Create
  <2> QED
    BY <1>3, <1>6, <2>1 DEF Moves, Stays
<1> QED
  BY <1>7, <1>8

\* ... one in its commit takes and gives its own semaphore and a dependency's ...
LEMMA CommitMoves ==
    ASSUME CommitInvariant, SemaphoreInvariant, WalkInvariant, NEW c \in Clients,
           NEW x \in Clients, CommitStep(x)
    PROVE  Moves(x, c)
<1>types. /\ TypeOK /\ pc \in [Threads -> Labels] /\ Clients \subseteq Threads
          /\ sem \in [Clients -> Nat] /\ stack \in [Threads -> Seq(Frame)]
          /\ waitcnt \in [Clients -> Nat] /\ walk \in [Clients -> Seq(Clients)]
          /\ tid \in [Clients -> Nat]
  BY DEF CommitInvariant, TypeOK, Threads
<1>0. UNCHANGED stack /\ stack[x] = <<>>
  BY CommitFrame DEF CommitStep, CommitAcquire, CommitWalkEnd, CommitCheck, CommitRecheck,
     CommitEnlist, CommitWait, CommitWaitP, CommitWaitV, CommitOutcome, CommitDecide,
     CommitFinish, CommitReturn, At
<1>2. \A u \in Clients : u # x => pc'[u] = pc[u] /\ walk'[u] = walk[u]
  BY <1>types, OthersUnmoved
<1>3. \A u \in Threads : u # x => (HoldsNow(u, c)' <=> HoldsNow(u, c))
  BY <1>0, <1>2 DEF HoldsNow, Looping
<1>own. /\ HoldsNow(x, c) <=>
             (pc[x] = "waitV" /\ Head(walk[x]) = c) \/ (x = c /\ pc[x] \in Inside)
        /\ HoldsNow(x, c)' <=>
             (pc'[x] = "waitV" /\ Head(walk'[x]) = c) \/ (x = c /\ pc'[x] \in Inside)
  BY <1>0 DEF HoldsNow, Looping
<1> SUFFICES Stays(x, c) \/ Takes(x, c) \/ Gives(x, c)
  BY <1>3 DEF Moves
<1>4. CASE CommitAcquire(x)
  <2>1. /\ pc[x] = "commit" /\ pc'[x] = "check" /\ sem[x] > 0
        /\ sem' = [sem EXCEPT ![x] = @ - 1]
    BY <1>types, <1>4 DEF CommitAcquire, At, Goto
  <2>2. CASE c = x
    BY <1>types, <1>own, <2>1, <2>2 DEF Takes, Inside
  <2>3. CASE c # x
    BY <1>types, <1>own, <2>1, <2>3 DEF Stays
  <2> QED
    BY <2>2, <2>3
<1>5. CASE CommitWalkEnd(x) \/ CommitCheck(x) \/ CommitRecheck(x) \/ CommitEnlist(x)
           \/ CommitWait(x) \/ CommitOutcome(x) \/ CommitDecide(x)
  <2>1. UNCHANGED sem
    BY <1>5 DEF CommitWalkEnd, CommitCheck, CommitRecheck, CommitEnlist, CommitWait,
       CommitOutcome, CommitDecide, transVars
  <2>2. pc[x] \in Inside /\ pc'[x] \in Inside /\ pc[x] # "waitV"
    BY <1>types, <1>5 DEF CommitWalkEnd, CommitCheck, CommitRecheck, CommitEnlist, CommitWait,
       CommitOutcome, CommitDecide, At, Goto, Inside
  <2> QED
    BY <1>own, <2>1, <2>2 DEF Stays
<1>6. CASE CommitWaitP(x)
  <2> DEFINE h == Head(walk[x])
  <2>1. /\ pc[x] = "waitP" /\ pc'[x] = "waitV" /\ sem[h] > 0 /\ walk'[x] = walk[x]
        /\ sem' = [sem EXCEPT ![h] = @ - 1]
    BY <1>types, <1>6 DEF CommitWaitP, At, Goto, localVars
  <2>2. walk[x] # <<>> /\ Range(walk[x]) \subseteq Range(depends[x])
    BY <2>1 DEF CommitInvariant, WalkIsAtElement, WalkInvariant, CommitWalksDependencies, Inside
  <2>3. h \in Clients /\ h \in Range(depends[x])
    BY <1>types, <2>2, TakingHead
  <2>4. h # x
    BY <1>types, <2>3 DEF CommitInvariant, DependenciesPointToOlder
  <2>5. CASE c = h
    <3>1. ~HoldsNow(x, c) /\ HoldsNow(x, c)'
      BY <1>own, <2>1, <2>4, <2>5
    <3> QED
      BY <1>types, <2>1, <2>3, <2>5, <3>1 DEF Takes
  <2>6. CASE c # h
    <3>1. HoldsNow(x, c) => HoldsNow(x, c)'
      BY <1>own, <2>1 DEF Inside
    <3> QED
      BY <1>types, <2>1, <2>3, <2>6, <3>1 DEF Stays
  <2> QED
    BY <2>5, <2>6
<1>7. CASE CommitWaitV(x)
  <2> DEFINE h == Head(walk[x])
  <2>1. /\ pc[x] = "waitV" /\ pc'[x] = "wait" /\ walk'[x] = walk[x]
        /\ sem' = [sem EXCEPT ![h] = @ + 1]
    BY <1>types, <1>7 DEF CommitWaitV, At, Goto, localVars
  <2>2. walk[x] # <<>>
    BY <2>1 DEF CommitInvariant, WalkIsAtElement
  <2>3. h \in Clients
    BY <1>types, <2>2, TakingHead
  <2>5. CASE c = h
    BY <1>types, <2>1, <2>3, <2>5 DEF Gives
  <2>6. CASE c # h
    <3>1. HoldsNow(x, c) => HoldsNow(x, c)'
      BY <1>own, <2>1, <2>6 DEF Inside
    <3> QED
      BY <1>types, <2>1, <2>3, <2>6, <3>1 DEF Stays
  <2> QED
    BY <2>5, <2>6
<1>8. CASE CommitFinish(x)
  <2>1. /\ pc[x] = "finish" /\ sem' = [sem EXCEPT ![x] = @ + waitcnt[x] + 1]
    BY <1>types, <1>8 DEF CommitFinish, ReleaseAndPost, At
  <2>2. CASE c = x
    BY <1>types, <2>1, <2>2 DEF Gives
  <2>3. CASE c # x
    BY <1>types, <1>own, <2>1, <2>3 DEF Stays
  <2> QED
    BY <2>2, <2>3
<1>9. CASE CommitReturn(x)
  <2>1. UNCHANGED sem /\ pc[x] = "return"
    BY <1>types, <1>9 DEF CommitReturn, At, transVars
  <2> QED
    BY <1>own, <2>1 DEF Stays, Inside
<1> QED
  BY <1>4, <1>5, <1>6, <1>7, <1>8, <1>9 DEF CommitStep

\* ... or a thread in trans_abort, which never waits for a semaphore it holds.
LEMMA AbortMoves ==
    ASSUME CommitInvariant, SemaphoreInvariant, WalkInvariant, NEW c \in Clients,
           NEW t \in Threads, AbortStep(t)
    PROVE  Moves(t, c)
<1>types. /\ TypeOK /\ pc \in [Threads -> Labels] /\ Clients \subseteq Threads
          /\ sem \in [Clients -> Nat] /\ stack \in [Threads -> Seq(Frame)]
          /\ waitcnt \in [Clients -> Nat] /\ tid \in [Clients -> Nat]
  BY DEF CommitInvariant, TypeOK, Threads
<1>same. UNCHANGED <<walk, pc>>
  BY AbortFrame
<1>1. \A u \in Threads : u # t => stack'[u] = stack[u]
  BY <1>types, OtherStacks
<1>3. \A u \in Threads : u # t => (HoldsNow(u, c)' <=> HoldsNow(u, c))
  BY <1>1, <1>same DEF HoldsNow, Looping
<1> DEFINE s == stack[t]
           tp == Top(t).tp
<1>4. /\ s # <<>> /\ s \in Seq(Frame) /\ s[1] = Top(t) /\ tp \in Clients
      /\ \/ Dies(t)
         \/ \E f \in Frame : Looks(t, f)
         \/ \E f \in Frame : Starts(t, f)
         \/ Skips(t)
         \/ \E f \in Frame : Acquires(t, f)
         \/ \E g \in Frame, r \in Frame : Descends(t, g, r)
         \/ Finishes(t)
  BY <1>types, AbortStacks
<1>own. (HoldsNow(t, c) <=> Looping(s, c)) /\ (HoldsNow(t, c)' <=> Looping(stack'[t], c))
  <2>1. t \in Clients => pc[t] \notin Inside
    BY <1>4 DEF SemaphoreInvariant, NoAbortInside
  <2> QED
    BY <1>same, <2>1 DEF HoldsNow, Inside
<1>loops. /\ Looping(s, c) <=> (s[1].tp = c /\ s[1].at = "loop") \/ Looping(Tail(s), c)
          /\ \A f \in Frame : Looping(<<f>> \o Tail(s), c) <=>
                (f.tp = c /\ f.at = "loop") \/ Looping(Tail(s), c)
          /\ \A g, r \in Frame : Looping(<<g, r>> \o Tail(s), c) <=>
                (g.tp = c /\ g.at = "loop") \/ (r.tp = c /\ r.at = "loop") \/ Looping(Tail(s), c)
  BY <1>4, LoopingOf
<1> HIDE DEF s
<1> SUFFICES Stays(t, c) \/ Takes(t, c) \/ Gives(t, c)
  BY <1>3 DEF Moves
<1>5. CASE Dies(t)
  <2>1. stack'[t] = s /\ sem'[c] = sem[c]
    BY <1>5 DEF Dies, s
  <2> QED
    BY <1>own, <2>1 DEF Stays
<1>6. ASSUME NEW f \in Frame, Looks(t, f) \/ Starts(t, f)
      PROVE  Stays(t, c)
  <2>1. stack'[t] = <<f>> \o Tail(s) /\ sem'[c] = sem[c]
    BY <1>6, <1>types DEF Looks, Starts, Replaces, s
  <2>2. Top(t).at # "loop"
    BY <1>6 DEF Looks, Starts
  <2> QED
    BY <1>4, <1>own, <1>loops, <2>1, <2>2 DEF Stays
<1>7. CASE Skips(t)
  <2>1. stack'[t] = Tail(s) /\ sem'[c] = sem[c] /\ Top(t).at # "loop"
    BY <1>7, <1>types DEF Skips, Pops, s
  <2> QED
    BY <1>4, <1>own, <1>loops, <2>1 DEF Stays
<1>8. ASSUME NEW f \in Frame, Acquires(t, f)
      PROVE  Stays(t, c) \/ Takes(t, c)
  <2>1. /\ stack'[t] = <<f>> \o Tail(s) /\ f.at = "loop" /\ f.tp = tp
        /\ Top(t).at = "acquire" /\ sem' = [sem EXCEPT ![tp] = @ - 1] /\ sem[tp] > 0
    BY <1>8, <1>types DEF Acquires, AbortAcquire, Replaces, s
  <2>2. CASE c = tp
    <3>1. ~Looping(s, c)
      <4>1. Nested(s)
        BY DEF WalkInvariant, StacksNested, s
      <4>2. \A i \in DOMAIN s : i # 1 => 1 \in 1..(i - 1)
        BY <1>4
      <4>3. \A i \in DOMAIN s : i # 1 => tid[s[1].tp] < tid[s[i].tp]
        BY <4>1, <4>2 DEF Nested
      <4>4. \A i \in DOMAIN s : i # 1 => s[i].tp # c
        BY <1>4, <1>types, <2>2, <4>3
      <4> QED
        BY <1>4, <2>1, <4>4 DEF Looping
    <3>2. Looping(<<f>> \o Tail(s), c)
      BY <1>loops, <2>1, <2>2
    <3> QED
      BY <1>types, <1>4, <1>own, <2>1, <2>2, <3>1, <3>2 DEF Takes
  <2>3. CASE c # tp
    <3>1. sem'[c] = sem[c]
      BY <1>types, <1>4, <2>1, <2>3
    <3>2. Looping(s, c) => Looping(<<f>> \o Tail(s), c)
      BY <1>loops, <1>4, <2>1
    <3> QED
      BY <1>own, <2>1, <3>1, <3>2 DEF Stays
  <2> QED
    BY <2>2, <2>3
<1>9. ASSUME NEW g \in Frame, NEW r \in Frame, Descends(t, g, r)
      PROVE  Stays(t, c)
  <2>1. /\ stack'[t] = <<g, r>> \o Tail(s) /\ sem'[c] = sem[c]
        /\ r.at = "loop" /\ r.tp = tp /\ Top(t).at = "loop"
    BY <1>9, <1>types DEF Descends, Pushes, s
  <2>2. Looping(s, c) => Looping(<<g, r>> \o Tail(s), c)
    BY <1>loops, <1>4, <2>1
  <2> QED
    BY <1>own, <2>1, <2>2 DEF Stays
<1>10. CASE Finishes(t)
  <2>1. stack'[t] = Tail(s) /\ sem' = [sem EXCEPT ![tp] = @ + waitcnt[tp] + 1]
    BY <1>10, <1>types DEF Finishes, Pops, AbortFinish, ReleaseAndPost, s
  <2>2. CASE c = tp
    BY <1>types, <2>1, <2>2 DEF Gives
  <2>3. CASE c # tp
    <3>1. sem'[c] = sem[c]
      BY <1>types, <1>4, <2>1, <2>3
    <3>2. Looping(s, c) => Looping(Tail(s), c)
      BY <1>loops, <1>4, <2>3
    <3> QED
      BY <1>own, <2>1, <3>1, <3>2 DEF Stays
  <2> QED
    BY <2>2, <2>3
<1> QED
  BY <1>4, <1>5, <1>6, <1>7, <1>8, <1>9, <1>10

\* Every step is a step of one thread in this sense.
LEMMA SomeoneMoves ==
    ASSUME CommitInvariant, SemaphoreInvariant, WalkInvariant, [Next]_vars, NEW c \in Clients
    PROVE  \E t \in Threads : Moves(t, c)
<1>types. /\ TypeOK /\ Clients \subseteq Threads /\ Main \in Threads /\ Main \notin Clients
          /\ pc \in [Threads -> Labels]
  BY ClientsAssumption DEF CommitInvariant, TypeOK, Threads
<1>1. ASSUME NEW x \in Clients, CreateStep(x) \/ LoopStep(x) \/ StoreStep(x) \/ CommitStep(x)
      PROVE  \E t \in Threads : Moves(t, c)
  BY <1>1, <1>types, ServiceMoves, CommitMoves
<1>2. ASSUME NEW t \in Threads, AbortStep(t) PROVE \E u \in Threads : Moves(u, c)
  BY <1>2, AbortMoves
<1>3. ASSUME TerminateStep PROVE Moves(Main, c)
  <2>1. \A u \in Threads : u # Main => stack'[u] = stack[u]
    BY <1>3, <1>types, OtherStacks
  <2>2. UNCHANGED walk /\ \A u \in Clients : pc'[u] = pc[u]
    BY <1>3, <1>types, TerminateFrame
  <2>3. \A u \in Threads : u # Main => (HoldsNow(u, c)' <=> HoldsNow(u, c))
    BY <2>1, <2>2 DEF HoldsNow, Looping
  <2>4. HoldsNow(Main, c) => HoldsNow(Main, c)'
    <3>1. stack'[Main] = stack[Main] \/ stack[Main] = <<>>
      BY <1>3, <1>types, OwnCalls
    <3> QED
      BY <1>types, <3>1 DEF HoldsNow, Looping
  <2>5. UNCHANGED sem
    BY <1>3 DEF TerminateStep, Sighup, WaitForEmpty, WaitAgain, WaitEnds, UseFreedRegistry,
       FiniAbort, FiniNext, FiniEnd, FiniStore, transVars
  <2> QED
    BY <2>3, <2>4, <2>5 DEF Moves, Stays
<1>4. ASSUME UNCHANGED <<transVars, listVars, storeVars, pc, stack, localVars>>
      PROVE  Moves(Main, c)
  BY <1>4 DEF Moves, Stays, HoldsNow, Looping, transVars, localVars
<1> QED
  BY <1>1, <1>2, <1>3, <1>4, <1>types, NextCases

\* What does not exist yet has no dependency: only trans_add_dependency adds one.
LEMMA UnknownDependsOnNothingStep ==
    ASSUME CommitInvariant, WalkInvariant, [Next]_vars
    PROVE  UnknownDependsOnNothing'
<1>types. TypeOK /\ depends \in [Clients -> Seq(Clients)]
  BY DEF CommitInvariant, TypeOK
<1> SUFFICES ASSUME NEW c \in Clients, c \notin Known' PROVE depends'[c] = <<>>
  BY DEF UnknownDependsOnNothing
<1>1. c \notin Known
  BY <1>types, KnownGrows
<1>2. depends[c] = <<>>
  BY <1>1 DEF WalkInvariant, UnknownDependsOnNothing
<1>3. ASSUME NEW x \in Clients, Create(x) PROVE depends'[c] = <<>>
  BY <1>types, <1>2, <1>3 DEF Create
<1>4. ASSUME NEW x \in Clients, AddDependency(x) PROVE depends'[c] = <<>>
  <2>1. x \in Known
    BY <1>4 DEF AddDependency, At, Known
  <2> QED
    BY <1>types, <1>1, <1>2, <1>4, <2>1 DEF AddDependency
<1>5. UNCHANGED depends => depends'[c] = <<>>
  BY <1>2
<1> QED
  BY <1>3, <1>4, <1>5, NextCases, CreateFrame, LoopFrame, StoreFrame, CommitFrame, AbortFrame,
     TerminateFrame DEF transVars, TypeOK, CommitInvariant

\* trans_commit starts with the dependency list and only takes heads off it.
LEMMA CommitWalksDependenciesStep ==
    ASSUME CommitInvariant, WalkInvariant, [Next]_vars
    PROVE  CommitWalksDependencies'
<1>types. /\ TypeOK /\ depends \in [Clients -> Seq(Clients)] /\ walk \in [Clients -> Seq(Clients)]
          /\ pc \in [Threads -> Labels] /\ Clients \subseteq Threads
  BY DEF CommitInvariant, TypeOK, Threads
<1> SUFFICES ASSUME NEW c \in Clients, pc'[c] \in Inside
             PROVE  Range(walk'[c]) \subseteq Range(depends'[c])
  BY DEF CommitWalksDependencies
<1>1. CASE CreateStep(c) \/ LoopStep(c) \/ StoreStep(c)
  BY <1>1, <1>types, OutsideSteps
<1>2. CASE CommitStep(c)
  <2>1. UNCHANGED depends
    BY <1>2, CommitFrame
  <2>2. CASE CommitAcquire(c)
    BY <1>types, <2>1, <2>2 DEF CommitAcquire
  <2>3. CASE CommitDecide(c)
    BY <1>types, <2>3 DEF CommitDecide, Range
  <2>4. CASE CommitReturn(c)
    BY <1>types, <2>4 DEF CommitReturn, Goto, Inside
  <2>5. CASE CommitRecheck(c) \/ CommitOutcome(c)
    <3>1. pc[c] \in {"recheck", "outcome"} /\ (walk'[c] = walk[c] \/ walk'[c] = Tail(walk[c]))
      BY <1>types, <2>5 DEF CommitRecheck, CommitOutcome, At
    <3>2. walk[c] # <<>> /\ Range(walk[c]) \subseteq Range(depends[c])
      BY <3>1 DEF CommitInvariant, WalkIsAtElement, WalkInvariant, CommitWalksDependencies, Inside
    <3>3. Range(Tail(walk[c])) \subseteq Range(walk[c])
      BY <1>types, <3>2, TakingHead
    <3> QED
      BY <2>1, <3>1, <3>2, <3>3
  <2>6. CASE CommitWalkEnd(c) \/ CommitCheck(c) \/ CommitEnlist(c) \/ CommitWait(c)
             \/ CommitWaitP(c) \/ CommitWaitV(c) \/ CommitFinish(c)
    <3>1. pc[c] \in Inside /\ walk'[c] = walk[c]
      BY <2>6 DEF CommitWalkEnd, CommitCheck, CommitEnlist, CommitWait, CommitWaitP,
         CommitWaitV, CommitFinish, At, Inside, localVars
    <3> QED
      BY <2>1, <3>1 DEF WalkInvariant, CommitWalksDependencies
  <2> QED
    BY <1>2, <2>2, <2>3, <2>4, <2>5, <2>6 DEF CommitStep
<1>3. CASE pc'[c] = pc[c] /\ walk'[c] = walk[c]
  <2>1. pc[c] \notin {"create", "depend"}
    BY <1>3 DEF Inside
  <2>2. depends'[c] = depends[c]
    BY <1>types, <2>1, DependsStable
  <2> QED
    BY <1>3, <2>2 DEF WalkInvariant, CommitWalksDependencies
<1>4. \/ pc'[c] = pc[c] /\ walk'[c] = walk[c]
      \/ CreateStep(c) \/ LoopStep(c) \/ StoreStep(c) \/ CommitStep(c)
  BY <1>types, NextCases, OthersUnmoved, AbortFrame, TerminateFrame DEF localVars
<1> QED
  BY <1>1, <1>2, <1>3, <1>4

\* One step adds at most one holder.
LEMMA FiniteHoldersStep ==
    ASSUME CommitInvariant, SemaphoreInvariant, WalkInvariant, [Next]_vars
    PROVE  FiniteHolders'
<1> SUFFICES ASSUME NEW c \in Clients PROVE IsFiniteSet(Holders(c))'
  BY DEF FiniteHolders
<1>1. PICK t \in Threads : Moves(t, c)
  BY SomeoneMoves
<1>2. Holders(c) = {u \in Threads : HoldsNow(u, c)}
  BY HoldersAre
<1>3. Holders(c)' = {u \in Threads : HoldsNow(u, c)'}
  BY DEF Holders, HoldsNow, Looping, Inside, Threads
<1>4. Holders(c)' \subseteq Holders(c) \cup {t}
  BY <1>1, <1>2, <1>3 DEF Moves
<1>5. IsFiniteSet(Holders(c))
  BY DEF WalkInvariant, FiniteHolders
<1>6. IsFiniteSet(Holders(c) \cup {t})
  BY <1>5, FS_AddElement
<1> QED
  BY <1>4, <1>6, FS_Subset

\* The stacks trans_abort leaves are nested as the one before.
LEMMA NestedReplaced ==
    ASSUME NEW s \in Seq(Frame), s # <<>>, Nested(s), NEW f \in Frame,
           f.tp = s[1].tp, LoopsOverDependencies(f)
    PROVE  Nested(<<f>> \o Tail(s))
<1> DEFINE n == <<f>> \o Tail(s)
<1>1. n \in Seq(Frame) /\ Len(n) = Len(s) /\ n[1] = f /\ \A i \in 2..Len(s) : n[i] = s[i]
  BY Replaced
<1> SUFFICES Nested(n)
  OBVIOUS
<1> HIDE DEF n
<1> SUFFICES ASSUME NEW i \in 1..Len(s)
             PROVE  /\ LoopsOverDependencies(n[i])
                    /\ i > 1 => CallerOf(n[i], n[i - 1])
                    /\ \A j \in 1..(i - 1) : tid[n[j].tp] < tid[n[i].tp]
  BY <1>1 DEF Nested
<1>2. /\ LoopsOverDependencies(s[i])
      /\ i > 1 => CallerOf(s[i], s[i - 1])
      /\ \A j \in 1..(i - 1) : tid[s[j].tp] < tid[s[i].tp]
  BY DEF Nested
<1>3. CASE i = 1
  BY <1>1, <1>3
<1>4. CASE i > 1
  <2>1. n[i] = s[i]
    BY <1>1, <1>4
  <2>2. \A j \in 1..(i - 1) : n[j].tp = s[j].tp
    BY <1>1
  <2>3. CallerOf(s[i], n[i - 1])
    BY <1>2, <1>4, <2>2 DEF CallerOf
  <2> QED
    BY <1>2, <2>1, <2>2, <2>3
<1> QED
  BY <1>3, <1>4

\* A return leaves a nested stack ...
LEMMA NestedPopped ==
    ASSUME NEW s \in Seq(Frame), s # <<>>, Nested(s)
    PROVE  Nested(Tail(s))
<1> DEFINE n == Tail(s)
<1>1. /\ n \in Seq(Frame) /\ Len(n) = Len(s) - 1 /\ Len(s) \in Nat
      /\ \A i \in 1..(Len(s) - 1) : n[i] = s[i + 1]
  BY Returned
<1>dom. DOMAIN n = 1..(Len(s) - 1)
  BY <1>1, LenProperties
<1> SUFFICES Nested(n)
  OBVIOUS
<1> HIDE DEF n
<1> SUFFICES ASSUME NEW i \in 1..(Len(s) - 1)
             PROVE  /\ LoopsOverDependencies(n[i])
                    /\ i > 1 => CallerOf(n[i], n[i - 1])
                    /\ \A j \in 1..(i - 1) : tid[n[j].tp] < tid[n[i].tp]
  BY <1>dom DEF Nested
<1>2. i + 1 \in DOMAIN s
  BY <1>1
<1>3. /\ LoopsOverDependencies(s[i + 1])
      /\ i + 1 > 1 => CallerOf(s[i + 1], s[(i + 1) - 1])
      /\ \A j \in 1..((i + 1) - 1) : tid[s[j].tp] < tid[s[i + 1].tp]
  BY <1>2 DEF Nested
<1>4. n[i] = s[i + 1] /\ (i > 1 => n[i - 1] = s[(i + 1) - 1])
  BY <1>1
<1>5. ASSUME NEW j \in 1..(i - 1) PROVE tid[n[j].tp] < tid[n[i].tp]
  <2>1. j + 1 \in 1..((i + 1) - 1) /\ n[j] = s[j + 1]
    BY <1>1
  <2> QED
    BY <1>3, <1>4, <2>1
<1> QED
  BY <1>3, <1>4, <1>5

\* ... and so does a call for a dependency.
LEMMA NestedPushed ==
    ASSUME NEW s \in Seq(Frame), s # <<>>, Nested(s), NEW g \in Frame, NEW r \in Frame,
           tid \in [Clients -> Nat], r.tp = s[1].tp, LoopsOverDependencies(g),
           LoopsOverDependencies(r), CallerOf(r, g), tid[g.tp] < tid[r.tp]
    PROVE  Nested(<<g, r>> \o Tail(s))
<1> DEFINE n == <<g, r>> \o Tail(s)
<1>1. /\ n \in Seq(Frame) /\ Len(n) = Len(s) + 1 /\ n[1] = g /\ n[2] = r
      /\ \A i \in 3..(Len(s) + 1) : n[i] = s[i - 1]
  BY Pushed
<1> SUFFICES Nested(n)
  OBVIOUS
<1> HIDE DEF n
<1>tp. /\ g.tp \in Clients /\ r.tp \in Clients /\ \A i \in 1..Len(s) : s[i].tp \in Clients
  <2>1. \A i \in 1..Len(s) : s[i] \in Frame
    OBVIOUS
  <2>2. \A f \in Frame : f.tp \in Clients
    BY DEF Frame
  <2> QED
    BY <2>1, <2>2
<1>len. Len(s) \in Nat /\ Len(s) > 0
  BY Returned
<1> SUFFICES ASSUME NEW i \in 1..(Len(s) + 1)
             PROVE  /\ LoopsOverDependencies(n[i])
                    /\ i > 1 => CallerOf(n[i], n[i - 1])
                    /\ \A j \in 1..(i - 1) : tid[n[j].tp] < tid[n[i].tp]
  <2>1. DOMAIN n = 1..(Len(s) + 1)
    BY <1>1, <1>len
  <2> QED
    BY <2>1 DEF Nested
<1>2. CASE i = 1
  BY <1>1, <1>2
<1>3. CASE i = 2
  BY <1>1, <1>3
<1>4. CASE i > 2
  <2>1. /\ i - 1 \in DOMAIN s /\ n[i] = s[i - 1] /\ i - 1 > 1
    BY <1>1, <1>4, <1>len
  <2>2. /\ LoopsOverDependencies(s[i - 1])
        /\ CallerOf(s[i - 1], s[(i - 1) - 1])
        /\ \A j \in 1..((i - 1) - 1) : tid[s[j].tp] < tid[s[i - 1].tp]
    BY <2>1 DEF Nested
  <2>3. CallerOf(n[i], n[i - 1])
    <3>1. CASE i = 3
      BY <1>1, <2>1, <2>2, <3>1 DEF CallerOf
    <3>2. CASE i > 3
      <4>1. i - 1 \in 3..(Len(s) + 1)
        BY <3>2, <1>len
      <4>2. n[i - 1] = s[(i - 1) - 1]
        BY <1>1, <4>1
      <4> QED
        BY <2>1, <2>2, <4>2
    <3> QED
      BY <1>4, <3>1, <3>2
  <2>4. tid[s[1].tp] < tid[s[i - 1].tp]
    <3>1. 1 \in 1..((i - 1) - 1)
      BY <2>1
    <3> QED
      BY <2>2, <3>1
  <2>5. ASSUME NEW j \in 1..(i - 1) PROVE tid[n[j].tp] < tid[n[i].tp]
    <3>1. CASE j = 1
      <4>1. tid[g.tp] \in Nat /\ tid[r.tp] \in Nat /\ tid[s[i - 1].tp] \in Nat
        BY <1>tp, <2>1
      <4> QED
        BY <1>1, <2>1, <2>4, <3>1, <4>1
    <3>2. CASE j = 2
      BY <1>1, <2>1, <2>4, <3>2
    <3>3. CASE j > 2
      <4>1. j - 1 \in 1..((i - 1) - 1) /\ n[j] = s[j - 1]
        BY <1>1, <3>3, <1>len
      <4> QED
        BY <2>1, <2>2, <4>1
    <3> QED
      BY <3>1, <3>2, <3>3
  <2> QED
    BY <2>1, <2>2, <2>3, <2>5
<1> QED
  BY <1>2, <1>3, <1>4

\* IDs of existing transactions do not change, and dependency lists grow at
\* their head.
LEMMA HeightsKept ==
    ASSUME CommitInvariant, [Next]_vars
    PROVE  /\ \A d \in Known : tid'[d] = tid[d]
           /\ \A d \in Known : Len(depends[d]) <= Len(depends'[d])
           /\ \A d \in Known : \A h \in 0..(Len(depends[d]) - 1) :
                 AtHeight(depends'[d], h) = AtHeight(depends[d], h)
<1>types. TypeOK /\ depends \in [Clients -> Seq(Clients)] /\ tid \in [Clients -> Nat]
  BY DEF CommitInvariant, TypeOK
<1> SUFFICES ASSUME NEW d \in Known
             PROVE  /\ tid'[d] = tid[d]
                    /\ Len(depends[d]) <= Len(depends'[d])
                    /\ \A h \in 0..(Len(depends[d]) - 1) :
                          AtHeight(depends'[d], h) = AtHeight(depends[d], h)
  OBVIOUS
<1>d. d \in Clients /\ depends[d] \in Seq(Clients) /\ Len(depends[d]) \in Nat
  BY <1>types DEF Known
<1>1. CASE tid'[d] = tid[d] /\ depends'[d] = depends[d]
  BY <1>1, <1>d
<1>2. ASSUME NEW x \in Clients, Create(x) PROVE tid'[d] = tid[d] /\ depends'[d] = depends[d]
  <2>1. x # d
    BY <1>2 DEF Create, At, Known
  <2> QED
    BY <1>types, <1>d, <1>2, <2>1 DEF Create
<1>3. ASSUME NEW x \in Clients, AddDependency(x)
      PROVE  /\ tid'[d] = tid[d]
             /\ Len(depends[d]) <= Len(depends'[d])
             /\ \A h \in 0..(Len(depends[d]) - 1) :
                   AtHeight(depends'[d], h) = AtHeight(depends[d], h)
  <2> DEFINE dtp == versions[key[x]][pos[x]]
  <2>0. tid'[d] = tid[d]
    BY <1>3 DEF AddDependency
  <2>1. key[x] \in Keys /\ pos[x] <= Len(versions[key[x]])
    BY <1>3 DEF CommitInvariant, StoreIsLocked, AddDependency, At, HoldLabels
  <2>2. versions[key[x]] \in Seq(Clients) /\ pos[x] \in Nat \ {0}
    BY <1>types, <2>1 DEF TypeOK
  <2>3. dtp \in Clients
    BY <2>1, <2>2
  <2>4. depends' = [depends EXCEPT ![x] = <<dtp>> \o depends[x]]
    BY <1>3 DEF AddDependency
  <2> HIDE DEF dtp
  <2>5. CASE x = d
    <3>1. depends'[d] = <<dtp>> \o depends[d]
      BY <1>types, <1>d, <2>4, <2>5
    <3>2. /\ Len(<<dtp>> \o depends[d]) = Len(depends[d]) + 1
          /\ \A h \in 0..(Len(depends[d]) - 1) :
                AtHeight(<<dtp>> \o depends[d], h) = AtHeight(depends[d], h)
      BY <1>d, <2>3, PrependedHeights
    <3> DEFINE l == <<dtp>> \o depends[d]
    <3>3. /\ depends'[d] = l /\ Len(l) = Len(depends[d]) + 1
          /\ \A h \in 0..(Len(depends[d]) - 1) : AtHeight(l, h) = AtHeight(depends[d], h)
      BY <3>1, <3>2
    <3> HIDE DEF l
    <3>4. Len(depends[d]) <= Len(depends'[d])
      BY <1>d, <3>3
    <3> QED
      BY <2>0, <3>3, <3>4
  <2>6. CASE x # d
    <3>1. depends'[d] = depends[d]
      BY <1>types, <1>d, <2>4, <2>6
    <3> QED
      BY <1>d, <2>0, <3>1
  <2> QED
    BY <2>5, <2>6
<1>4. UNCHANGED <<tid, depends>> => tid'[d] = tid[d] /\ depends'[d] = depends[d]
  OBVIOUS
<1>5. \/ \E x \in Clients : Create(x) \/ AddDependency(x)
      \/ UNCHANGED <<tid, depends>>
  BY <1>types, NextCases, CreateFrame, LoopFrame, StoreFrame, CommitFrame, AbortFrame,
     TerminateFrame DEF transVars, TypeOK
<1> QED
  BY <1>1, <1>2, <1>3, <1>4, <1>5

\* A stack that no thread touches stays nested.
LEMMA NestedKept ==
    ASSUME CommitInvariant, [Next]_vars, NEW s \in Seq(Frame), Nested(s),
           \A i \in DOMAIN s : s[i].tp \in Known
    PROVE  Nested(s)'
<1>types. depends \in [Clients -> Seq(Clients)] /\ Known \subseteq Clients
  BY DEF CommitInvariant, TypeOK, Known
<1>1. /\ \A d \in Known : tid'[d] = tid[d]
      /\ \A d \in Known : Len(depends[d]) <= Len(depends'[d])
      /\ \A d \in Known : \A h \in 0..(Len(depends[d]) - 1) :
            AtHeight(depends'[d], h) = AtHeight(depends[d], h)
  BY HeightsKept
<1>frames. \A i \in DOMAIN s : s[i].tp \in Known /\ s[i].rest \in Seq(Clients)
  <2>1. \A i \in DOMAIN s : s[i] \in Frame
    OBVIOUS
  <2> QED
    BY <2>1 DEF Frame
<1> SUFFICES ASSUME NEW i \in DOMAIN s
             PROVE  /\ LoopsOverDependencies(s[i])'
                    /\ i > 1 => CallerOf(s[i], s[i - 1])'
                    /\ \A j \in 1..(i - 1) : tid'[s[j].tp] < tid'[s[i].tp]
  BY DEF Nested
<1>2. /\ LoopsOverDependencies(s[i])
      /\ i > 1 => CallerOf(s[i], s[i - 1])
      /\ \A j \in 1..(i - 1) : tid[s[j].tp] < tid[s[i].tp]
  BY DEF Nested
<1> DEFINE f == s[i]
           d == s[i].tp
           k == Len(s[i].rest)
           n == Len(depends[d])
           m == Len(depends'[d])
<1>3. /\ d \in Known /\ k \in Nat /\ n \in Nat /\ n <= m
      /\ \A h \in 0..(n - 1) : AtHeight(depends'[d], h) = AtHeight(depends[d], h)
  BY <1>1, <1>frames, <1>types
<1>m. m \in Int
  BY <1>3
<1>4. LoopsOverDependencies(s[i])'
  <2> SUFFICES ASSUME s[i].at = "loop"
               PROVE  /\ k <= m
                      /\ \A h \in 0..(k - 1) : AtHeight(s[i].rest, h) = AtHeight(depends'[d], h)
    BY DEF LoopsOverDependencies
  <2>1. k <= n /\ \A h \in 0..(k - 1) : AtHeight(s[i].rest, h) = AtHeight(depends[d], h)
    BY <1>2 DEF LoopsOverDependencies
  <2> HIDE DEF d, k, n, m
  <2> QED
    BY <1>3, <1>m, <2>1
<1>5. ASSUME i > 1 PROVE CallerOf(s[i], s[i - 1])'
  <2>1. s[i].at = "loop" /\ k < n /\ s[i - 1].tp = AtHeight(depends[d], k)
    BY <1>2, <1>5 DEF CallerOf
  <2>2. k < m /\ s[i - 1].tp = AtHeight(depends'[d], k)
    <3> HIDE DEF d, k, n, m
    <3> QED
      BY <1>3, <1>m, <2>1
  <2> QED
    BY <2>1, <2>2 DEF CallerOf
<1>6. \A j \in 1..(i - 1) : tid'[s[j].tp] < tid'[s[i].tp]
  <2>1. \A j \in 1..(i - 1) : j \in DOMAIN s
    OBVIOUS
  <2> QED
    BY <1>1, <1>2, <1>frames, <2>1
<1> QED
  BY <1>4, <1>5, <1>6

\* Every step keeps the stacks nested.
LEMMA StacksNestedStep ==
    ASSUME CommitInvariant, WalkInvariant, [Next]_vars
    PROVE  StacksNested'
<1>types. /\ TypeOK /\ stack \in [Threads -> Seq(Frame)] /\ Clients \subseteq Threads
          /\ Main \in Threads /\ depends \in [Clients -> Seq(Clients)]
          /\ tid \in [Clients -> Nat]
  BY DEF CommitInvariant, TypeOK, Threads
<1> SUFFICES ASSUME NEW u \in Threads PROVE Nested(stack[u])'
  BY DEF StacksNested
<1>1. Nested(stack[u]) /\ stack[u] \in Seq(Frame)
  BY <1>types DEF WalkInvariant, StacksNested
<1>2. \A i \in DOMAIN stack[u] : stack[u][i].tp \in Known
  BY DEF CommitInvariant, PointersAreKnown, StackKnown, FrameKnown, Range
<1>same. ASSUME stack'[u] = stack[u] PROVE Nested(stack[u])'
  <2>1. \A s \in Seq(Frame) :
           Nested(s) /\ (\A i \in DOMAIN s : s[i].tp \in Known) => Nested(s)'
    BY NestedKept
  <2> DEFINE s0 == stack[u]
  <2>2. Nested(s0) /\ s0 \in Seq(Frame) /\ \A i \in DOMAIN s0 : s0[i].tp \in Known
    BY <1>1, <1>2
  <2>3. \E s \in Seq(Frame) : s = stack[u]
    BY <1>1
  <2>4. PICK s \in Seq(Frame) : s = stack[u]
    BY <2>3
  <2>5. Nested(s)'
    BY <2>1, <2>2, <2>4
  <2> QED
    BY <1>same, <2>4, <2>5 DEF Nested
<1>call. ASSUME NEW f, f.at = "fatal", stack'[u] = <<f>> PROVE Nested(stack[u])'
  <2>1. DOMAIN <<f>> = {1} /\ <<f>>[1] = f
    OBVIOUS
  <2>2. LoopsOverDependencies(f)'
    BY <1>call DEF LoopsOverDependencies
  <2> QED
    BY <1>call, <2>1, <2>2 DEF Nested
<1>3. ASSUME NEW tp, NEW l, NEW t \in Threads, CallAbort(t, tp, l) PROVE Nested(stack[u])'
  <2> DEFINE f == [tp |-> tp, at |-> "fatal", rest |-> <<>>]
  <2>1. stack' = [stack EXCEPT ![t] = <<f>>] /\ f.at = "fatal"
    BY <1>3 DEF CallAbort
  <2> HIDE DEF f
  <2>2. stack'[u] = IF u = t THEN <<f>> ELSE stack[u]
    BY <1>types, <2>1
  <2> QED
    BY <1>same, <1>call, <2>1, <2>2
<1>4. ASSUME NEW t \in Threads, AbortStep(t), u = t PROVE Nested(stack[u])'
  <2> DEFINE s == stack[t]
             n == stack'[t]
  <2>1. /\ s # <<>> /\ s \in Seq(Frame) /\ s[1] = Top(t) /\ Top(t).tp \in Clients
        /\ Top(t).rest \in Seq(Clients)
        /\ \/ Dies(t)
           \/ \E f \in Frame : Looks(t, f)
           \/ \E f \in Frame : Starts(t, f)
           \/ Skips(t)
           \/ \E f \in Frame : Acquires(t, f)
           \/ \E g \in Frame, r \in Frame : Descends(t, g, r)
           \/ Finishes(t)
    BY <1>types, <1>4, AbortStacks
  <2>2. UNCHANGED <<tid, depends>>
    BY <1>4, AbortFrame
  <2>3. Nested(s)
    BY <1>1, <1>4
  <2> HIDE DEF s, n
  <2>4. CASE Dies(t)
    BY <1>4, <1>same, <2>4 DEF Dies
  <2>5. ASSUME NEW f \in Frame, Looks(t, f) \/ Starts(t, f) PROVE Nested(n)
    <3>1. n = <<f>> \o Tail(s) /\ f.tp = s[1].tp /\ f.at # "loop"
      BY <1>types, <2>1, <2>5 DEF Looks, Starts, Replaces, s, n
    <3>2. LoopsOverDependencies(f)
      BY <3>1 DEF LoopsOverDependencies
    <3> QED
      BY <2>1, <2>3, <3>1, <3>2, NestedReplaced
  <2>6. CASE Skips(t) \/ Finishes(t)
    <3>1. n = Tail(s)
      BY <1>types, <2>6 DEF Skips, Finishes, Pops, s, n
    <3>2. Nested(n)
      BY <2>1, <2>3, <3>1, NestedPopped
    <3> QED
      BY <1>4, <2>2, <3>2 DEF Nested, LoopsOverDependencies, CallerOf, n
  <2>7. ASSUME NEW f \in Frame, Acquires(t, f) PROVE Nested(n)
    <3>1. n = <<f>> \o Tail(s) /\ f.tp = s[1].tp /\ f.rest = depends[f.tp]
      BY <1>types, <2>1, <2>7 DEF Acquires, Replaces, s, n
    <3>2. LoopsOverDependencies(f)
      <4>1. depends[f.tp] \in Seq(Clients)
        BY <1>types, <2>1, <3>1
      <4>2. Len(depends[f.tp]) <= Len(depends[f.tp])
        BY <4>1
      <4> QED
        BY <3>1, <4>2 DEF LoopsOverDependencies
    <3> QED
      BY <2>1, <2>3, <3>1, <3>2, NestedReplaced
  <2>8. ASSUME NEW g \in Frame, NEW r \in Frame, Descends(t, g, r) PROVE Nested(n)
    <3> DEFINE q == Top(t).rest
               d == depends[Top(t).tp]
    <3>1. /\ n = <<g, r>> \o Tail(s) /\ g.at = "fatal" /\ g.tp = Head(q)
          /\ r.at = "loop" /\ r.tp = s[1].tp /\ r.rest = Tail(q) /\ q # <<>>
          /\ s[1].at = "loop"
      BY <1>types, <2>1, <2>8 DEF Descends, Pushes, s, n
    <3>2. LoopsOverDependencies(s[1])
      BY <2>1, <2>3 DEF Nested
    <3>3. Len(q) <= Len(d) /\ \A h \in 0..(Len(q) - 1) : AtHeight(q, h) = AtHeight(d, h)
      BY <2>1, <3>1, <3>2 DEF LoopsOverDependencies
    <3>4. /\ Len(q) \in Nat /\ Len(q) > 0 /\ Len(Tail(q)) = Len(q) - 1
          /\ Head(q) = AtHeight(q, Len(q) - 1)
          /\ \A h \in 0..(Len(q) - 2) : AtHeight(Tail(q), h) = AtHeight(q, h)
      BY <2>1, <3>1, TailHeights
    <3>d. Len(d) \in Nat /\ d \in Seq(Clients)
      BY <1>types, <2>1
    <3>tp. r.tp = Top(t).tp
      BY <2>1, <3>1
    <3> HIDE DEF q
    <3>5. LoopsOverDependencies(g)
      BY <3>1 DEF LoopsOverDependencies
    <3>6. LoopsOverDependencies(r)
      <4>1. Len(Tail(q)) <= Len(d)
        BY <3>3, <3>4, <3>d
      <4>2. \A h \in 0..(Len(Tail(q)) - 1) : AtHeight(Tail(q), h) = AtHeight(d, h)
        BY <3>3, <3>4
      <4> QED
        BY <3>1, <3>tp, <4>1, <4>2 DEF LoopsOverDependencies
    <3>7. CallerOf(r, g)
      <4>1. Len(Tail(q)) < Len(d) /\ Head(q) = AtHeight(d, Len(Tail(q)))
        BY <3>3, <3>4, <3>d
      <4> QED
        BY <3>1, <3>tp, <4>1 DEF CallerOf
    <3>8. tid[g.tp] < tid[r.tp]
      <4>0. Len(q) - 1 \in 0..(Len(q) - 1)
        BY <3>4
      <4>1. g.tp = d[Len(d) - (Len(q) - 1)]
        BY <3>1, <3>3, <3>4, <4>0 DEF AtHeight
      <4>2. Len(d) - (Len(q) - 1) \in 1..Len(d)
        BY <3>3, <3>4, <3>d
      <4>3. g.tp \in Range(d)
        BY <3>d, <4>1, <4>2 DEF Range
      <4> QED
        BY <2>1, <3>tp, <4>3 DEF CommitInvariant, DependenciesPointToOlder
    <3> QED
      BY <1>types, <2>1, <2>3, <3>1, <3>5, <3>6, <3>7, <3>8, NestedPushed
  <2>9. Nested(n) => Nested(stack[u])'
    BY <1>4, <2>2 DEF Nested, LoopsOverDependencies, CallerOf, n
  <2> QED
    BY <2>1, <2>4, <2>5, <2>6, <2>7, <2>8, <2>9
<1>5. ASSUME NEW t \in Threads, AbortStep(t) PROVE Nested(stack[u])'
  BY <1>types, <1>4, <1>5, <1>same, OtherStacks
<1>6. ASSUME NEW x \in Clients, LoopStep(x) \/ StoreStep(x) PROVE Nested(stack[u])'
  <2>1. UNCHANGED stack \/ \E tp, l : CallAbort(x, tp, l)
    BY <1>6, <1>types, OwnCalls
  <2> QED
    BY <1>3, <1>same, <1>types, <2>1
<1>7. ASSUME TerminateStep PROVE Nested(stack[u])'
  <2>1. UNCHANGED stack \/ \E tp, l : CallAbort(Main, tp, l)
    BY <1>7, <1>types, OwnCalls
  <2> QED
    BY <1>3, <1>same, <1>types, <2>1
<1>8. ASSUME NEW x \in Clients, CreateStep(x) \/ CommitStep(x) PROVE Nested(stack[u])'
  <2>1. UNCHANGED stack
    BY <1>8, CreateFrame, CommitFrame
  <2> QED
    BY <1>same, <2>1
<1> QED
  BY <1>5, <1>6, <1>7, <1>8, <1>same, NextCases

\* No step of trans_abort makes the stack of its thread claim more: an activation
\* claims a reference when it has seen a pending transaction.
LEMMA CallsReplaced ==
    ASSUME NEW s \in Seq(Frame), s # <<>>, NEW f \in Frame, NEW d, NEW h,
           Calls(<<f>> \o Tail(s), d, h)
    PROVE  \/ Calls(s, d, h)
           \/ /\ f.at \in Dropping /\ s[1].at \notin Dropping
              /\ Len(s) > 1 /\ s[2].tp = d /\ Len(s[2].rest) = h
<1> DEFINE n == <<f>> \o Tail(s)
<1>1. /\ n \in Seq(Frame) /\ Len(n) = Len(s) /\ n[1] = f
      /\ \A i \in 2..Len(s) : n[i] = s[i]
  BY Replaced
<1>2. Calls(n, d, h)
  OBVIOUS
<1> HIDE DEF n
<1>3. PICK i \in 1..Len(s) :
         i > 1 /\ n[i].tp = d /\ Len(n[i].rest) = h /\ n[i - 1].at \in Dropping
  BY <1>1, <1>2 DEF Calls
<1>4. n[i] = s[i] /\ i \in DOMAIN s
  BY <1>1, <1>3
<1>5. CASE i = 2
  <2>1. /\ Len(s) > 1 /\ s[2].tp = d /\ Len(s[2].rest) = h
        /\ 2 \in DOMAIN s /\ f.at \in Dropping
    <3>1. i - 1 = 1 /\ n[2] = s[2] /\ n[1] = f /\ Len(s) \in Nat
      BY <1>1, <1>4, <1>5
    <3> QED
      BY <1>3, <1>4, <1>5, <3>1
  <2>2. CASE s[1].at \in Dropping
    <3>1. 2 > 1 /\ s[2 - 1].at \in Dropping
      BY <2>2
    <3> QED
      BY <2>1, <3>1 DEF Calls
  <2> QED
    BY <2>1, <2>2
<1>6. CASE i > 2
  <2>1. n[i - 1] = s[i - 1]
    BY <1>1, <1>6
  <2> QED
    BY <1>3, <1>4, <2>1 DEF Calls
<1> QED
  BY <1>3, <1>5, <1>6

\* A return adds no claim ...
LEMMA CallsPopped ==
    ASSUME NEW s \in Seq(Frame), s # <<>>, NEW d, NEW h, Calls(Tail(s), d, h)
    PROVE  Calls(s, d, h)
<1> DEFINE n == Tail(s)
<1>1. /\ n \in Seq(Frame) /\ Len(n) = Len(s) - 1 /\ Len(s) \in Nat
      /\ \A i \in 1..(Len(s) - 1) : n[i] = s[i + 1]
  BY Returned
<1>dom. DOMAIN n = 1..(Len(s) - 1)
  BY <1>1, LenProperties
<1>2. Calls(n, d, h)
  OBVIOUS
<1> HIDE DEF n
<1>3. PICK i \in 1..(Len(s) - 1) :
         i > 1 /\ n[i].tp = d /\ Len(n[i].rest) = h /\ n[i - 1].at \in Dropping
  BY <1>2, <1>dom DEF Calls
<1>4. i + 1 \in DOMAIN s /\ n[i] = s[i + 1] /\ n[i - 1] = s[(i + 1) - 1]
  BY <1>1, <1>3
<1> QED
  BY <1>3, <1>4 DEF Calls

\* ... nor does a call, because the callee has not looked at its transaction yet.
LEMMA CallsPushed ==
    ASSUME NEW s \in Seq(Frame), s # <<>>, NEW g \in Frame, NEW r \in Frame, NEW d, NEW h,
           g.at \notin Dropping, r.at = s[1].at, Calls(<<g, r>> \o Tail(s), d, h)
    PROVE  Calls(s, d, h)
<1> DEFINE n == <<g, r>> \o Tail(s)
<1>1. /\ n \in Seq(Frame) /\ Len(n) = Len(s) + 1 /\ n[1] = g /\ n[2] = r
      /\ \A i \in 3..(Len(s) + 1) : n[i] = s[i - 1]
  BY Pushed
<1>2. Calls(n, d, h)
  OBVIOUS
<1>len. Len(s) \in Nat /\ Len(s) > 0
  BY Returned
<1> HIDE DEF n
<1>3. PICK i \in 1..(Len(s) + 1) :
         i > 1 /\ n[i].tp = d /\ Len(n[i].rest) = h /\ n[i - 1].at \in Dropping
  BY <1>1, <1>2, <1>len DEF Calls
<1>4. i # 2
  BY <1>1, <1>3
<1>5. i - 1 \in DOMAIN s /\ n[i] = s[i - 1] /\ i - 1 > 1
  BY <1>1, <1>3, <1>4, <1>len
<1>6. n[i - 1].at = s[(i - 1) - 1].at
  <2>1. CASE i = 3
    BY <1>1, <2>1
  <2>2. CASE i > 3
    <3>1. i - 1 \in 3..(Len(s) + 1)
      BY <2>2, <1>len
    <3> QED
      BY <1>1, <3>1
  <2> QED
    BY <1>3, <1>4, <2>1, <2>2
<1> QED
  BY <1>3, <1>5, <1>6 DEF Calls

\* The outermost activation stays, unless it is the running one.
LEMMA OutermostOf ==
    ASSUME NEW s \in Seq(Frame), s # <<>>
    PROVE  /\ Len(s) = 1 => Outermost(s) = s[1] /\ Tail(s) = <<>>
           /\ Len(s) > 1 => Tail(s) # <<>> /\ Outermost(Tail(s)) = Outermost(s)
           /\ \A f \in Frame :
                 Outermost(<<f>> \o Tail(s)) = IF Len(s) = 1 THEN f ELSE Outermost(s)
           /\ \A g, r \in Frame :
                 Outermost(<<g, r>> \o Tail(s)) = IF Len(s) = 1 THEN r ELSE Outermost(s)
<1>len. Len(s) \in Nat /\ Len(s) > 0
  BY Returned
<1>1. /\ Tail(s) \in Seq(Frame) /\ Len(Tail(s)) = Len(s) - 1
      /\ \A i \in 1..(Len(s) - 1) : Tail(s)[i] = s[i + 1]
  BY Returned
<1>2. Len(s) = 1 => Outermost(s) = s[1] /\ Tail(s) = <<>>
  <2> SUFFICES ASSUME Len(s) = 1 PROVE s[Len(s)] = s[1] /\ Tail(s) = <<>>
    BY DEF Outermost
  <2>1. Tail(s) \in Seq(Frame) /\ Len(Tail(s)) = 0
    BY <1>1
  <2>2. Tail(s) = <<>>
    BY <2>1, EmptySeq
  <2> QED
    BY <2>2
<1>3. Len(s) > 1 => Tail(s) # <<>> /\ Outermost(Tail(s)) = Outermost(s)
  <2> SUFFICES ASSUME Len(s) > 1 PROVE Tail(s) # <<>> /\ Tail(s)[Len(Tail(s))] = s[Len(s)]
    BY DEF Outermost
  <2>1. Len(s) - 1 \in 1..(Len(s) - 1) /\ (Len(s) - 1) + 1 = Len(s)
    BY <1>len
  <2>2. Tail(s)[Len(s) - 1] = s[Len(s)]
    BY <1>1, <2>1
  <2>3. Len(Tail(s)) # 0
    <3>1. Len(Tail(s)) = Len(s) - 1
      BY <1>1
    <3>2. \A k \in Nat : k > 1 => k - 1 # 0
      OBVIOUS
    <3>3. Len(s) \in Nat /\ Len(s) > 1
      BY <1>len
    <3> QED
      BY <3>1, <3>2, <3>3
  <2>4. Tail(s) # <<>>
    BY <1>1, <2>3, EmptySeq
  <2>5. Tail(s)[Len(Tail(s))] = s[Len(s)]
    BY <1>1, <2>2
  <2> QED
    BY <2>4, <2>5
<1>4. ASSUME NEW f \in Frame
      PROVE  Outermost(<<f>> \o Tail(s)) = IF Len(s) = 1 THEN f ELSE Outermost(s)
  <2> DEFINE n == <<f>> \o Tail(s)
  <2>1. Len(n) = Len(s) /\ n[1] = f /\ \A i \in 2..Len(s) : n[i] = s[i]
    BY Replaced
  <2> HIDE DEF n
  <2>2. n[Len(n)] = IF Len(s) = 1 THEN f ELSE s[Len(s)]
    BY <1>len, <2>1
  <2> QED
    BY <2>2 DEF Outermost, n
<1>5. ASSUME NEW g \in Frame, NEW r \in Frame
      PROVE  Outermost(<<g, r>> \o Tail(s)) = IF Len(s) = 1 THEN r ELSE Outermost(s)
  <2> DEFINE n == <<g, r>> \o Tail(s)
  <2>1. /\ Len(n) = Len(s) + 1 /\ n[2] = r
        /\ \A i \in 3..(Len(s) + 1) : n[i] = s[i - 1]
    BY Pushed
  <2> HIDE DEF n
  <2>2. Len(s) = 1 => n[Len(n)] = r
    BY <2>1
  <2>3. ASSUME Len(s) > 1 PROVE n[Len(n)] = s[Len(s)]
    <3>1. Len(s) + 1 \in 3..(Len(s) + 1) /\ (Len(s) + 1) - 1 = Len(s)
      BY <1>len, <2>3
    <3> QED
      BY <2>1, <3>1
  <2>4. n[Len(n)] = IF Len(s) = 1 THEN r ELSE s[Len(s)]
    <3>1. Len(s) = 1 \/ Len(s) > 1
      BY <1>len
    <3> QED
      BY <2>2, <2>3, <3>1
  <2> QED
    BY <2>4 DEF Outermost, n
<1> QED
  BY <1>2, <1>3, <1>4, <1>5

\* So trans_abort adds nothing to what the count of a transaction covers.
LEMMA AbortKeeps ==
    ASSUME CommitInvariant, WalkInvariant, [Next]_vars, NEW c \in Clients,
           NEW t \in Threads, AbortStep(t)
    PROVE  Depended(c)' \subseteq Depended(c) /\ Called(c)' \subseteq Called(c)
<1>types. /\ TypeOK /\ stack \in [Threads -> Seq(Frame)]
  BY DEF CommitInvariant, TypeOK
<1>decided. status'[c] = "PENDING" => status[c] = "PENDING"
  BY StaysDecided DEF CommitInvariant, PointersAreKnown
<1>1. UNCHANGED depends
  BY AbortFrame
<1>2. \A u \in Threads : u # t => stack'[u] = stack[u]
  BY <1>types, OtherStacks
<1> DEFINE s == stack[t]
           n == stack'[t]
<1>3. /\ s # <<>> /\ s \in Seq(Frame) /\ s[1] = Top(t)
      /\ \/ Dies(t)
         \/ \E f \in Frame : Looks(t, f)
         \/ \E f \in Frame : Starts(t, f)
         \/ Skips(t)
         \/ \E f \in Frame : Acquires(t, f)
         \/ \E g \in Frame, r \in Frame : Descends(t, g, r)
         \/ Finishes(t)
  BY <1>types, AbortStacks
<1>nested. Nested(s)
  BY DEF WalkInvariant, StacksNested
<1> HIDE DEF s, n
<1>len. Len(s) \in Nat /\ Len(s) > 0
  BY <1>3, Returned
<1>ends. /\ Len(s) = 1 => Outermost(s) = s[1] /\ Tail(s) = <<>>
         /\ Len(s) > 1 => Tail(s) # <<>> /\ Outermost(Tail(s)) = Outermost(s)
         /\ \A f \in Frame :
               Outermost(<<f>> \o Tail(s)) = IF Len(s) = 1 THEN f ELSE Outermost(s)
         /\ \A g, r \in Frame :
               Outermost(<<g, r>> \o Tail(s)) = IF Len(s) = 1 THEN r ELSE Outermost(s)
  BY <1>3, OutermostOf
<1>4. ASSUME \A d, h : Calls(n, d, h) =>
                \/ Calls(s, d, h)
                \/ status[c] = "PENDING" \/ AtHeight(depends[d], h) # c
      PROVE  Depended(c)' \subseteq Depended(c)
  <2> SUFFICES ASSUME NEW y \in Depended(c)' PROVE y \in Depended(c)
    OBVIOUS
  <2>1. /\ y \in Clients \X Nat /\ y[2] < Len(depends[y[1]]) /\ AtHeight(depends[y[1]], y[2]) = c
        /\ (status'[c] = "PENDING" \/ \E v \in Threads : Calls(stack'[v], y[1], y[2]))
    BY <1>1 DEF Depended, Calls, AtHeight
  <2>2. status[c] = "PENDING" \/ \E v \in Threads : Calls(stack[v], y[1], y[2])
    BY <1>2, <1>4, <1>decided, <2>1 DEF s, n
  <2> QED
    BY <2>1, <2>2 DEF Depended
<1>5. ASSUME n # <<>> => /\ Outermost(n).tp = Outermost(s).tp
                         /\ \/ Outermost(n).at \notin Dropping
                            \/ Outermost(s).at \in Dropping
                            \/ status[Outermost(s).tp] = "PENDING"
      PROVE  Called(c)' \subseteq Called(c)
  <2> SUFFICES ASSUME NEW v \in Called(c)' PROVE v \in Called(c)
    OBVIOUS
  <2>1. /\ v \in Threads /\ stack'[v] # <<>> /\ Outermost(stack'[v]).tp = c
        /\ (status'[c] = "PENDING" \/ Outermost(stack'[v]).at \in Dropping)
    BY DEF Called, Outermost
  <2>2. CASE v # t
    BY <1>2, <1>decided, <2>1, <2>2 DEF Called
  <2>3. CASE v = t
    BY <1>3, <1>5, <1>decided, <2>1, <2>3 DEF Called, s, n
  <2> QED
    BY <2>2, <2>3
<1>6. CASE Dies(t)
  <2>1. n = s
    BY <1>6 DEF Dies, s, n
  <2> QED
    BY <1>4, <1>5, <2>1
<1>7. ASSUME NEW f \in Frame, Looks(t, f) \/ Acquires(t, f)
      PROVE  Depended(c)' \subseteq Depended(c) /\ Called(c)' \subseteq Called(c)
  <2>1. /\ n = <<f>> \o Tail(s) /\ f.tp = s[1].tp
        /\ f.at \in Dropping => s[1].at \in Dropping
    BY <1>types, <1>3, <1>7 DEF Looks, Acquires, Replaces, s, n, Dropping
  <2>2. \A d, h : Calls(n, d, h) => Calls(s, d, h)
    BY <1>3, <2>1, CallsReplaced
  <2> QED
    BY <1>4, <1>5, <1>ends, <2>1, <2>2
<1>8. ASSUME NEW f \in Frame, Starts(t, f)
      PROVE  Depended(c)' \subseteq Depended(c) /\ Called(c)' \subseteq Called(c)
  <2>1. /\ n = <<f>> \o Tail(s) /\ f.tp = s[1].tp /\ status[s[1].tp] = "PENDING"
    BY <1>types, <1>3, <1>8 DEF Starts, Replaces, s, n
  <2>2. ASSUME NEW d, NEW h, Calls(n, d, h)
        PROVE  \/ Calls(s, d, h)
               \/ status[c] = "PENDING" \/ AtHeight(depends[d], h) # c
    <3>1. Calls(s, d, h) \/ (Len(s) > 1 /\ s[2].tp = d /\ Len(s[2].rest) = h)
      BY <1>3, <2>1, <2>2, CallsReplaced
    <3>2. ASSUME Len(s) > 1, s[2].tp = d, Len(s[2].rest) = h
          PROVE  status[c] = "PENDING" \/ AtHeight(depends[d], h) # c
      <4>1. 2 \in DOMAIN s
        BY <1>3, <1>len, <3>2
      <4>2. CallerOf(s[2], s[2 - 1])
        BY <1>nested, <4>1 DEF Nested
      <4>3. s[1].tp = AtHeight(depends[d], h)
        BY <3>2, <4>2 DEF CallerOf
      <4> QED
        BY <2>1, <4>3
    <3> QED
      BY <3>1, <3>2
  <2> QED
    BY <1>4, <1>5, <1>ends, <2>1, <2>2
<1>9. CASE Skips(t) \/ Finishes(t)
  <2>1. n = Tail(s)
    BY <1>types, <1>9 DEF Skips, Finishes, Pops, s, n
  <2>2. \A d, h : Calls(n, d, h) => Calls(s, d, h)
    BY <1>3, <2>1, CallsPopped
  <2> QED
    BY <1>4, <1>5, <1>ends, <1>len, <2>1, <2>2
<1>10. ASSUME NEW g \in Frame, NEW r \in Frame, Descends(t, g, r)
       PROVE  Depended(c)' \subseteq Depended(c) /\ Called(c)' \subseteq Called(c)
  <2>1. /\ n = <<g, r>> \o Tail(s) /\ r.tp = s[1].tp /\ r.at = s[1].at
        /\ g.at \notin Dropping
    BY <1>types, <1>3, <1>10 DEF Descends, Pushes, s, n, Dropping
  <2>2. \A d, h : Calls(n, d, h) => Calls(s, d, h)
    BY <1>3, <2>1, CallsPushed
  <2> QED
    BY <1>4, <1>5, <1>ends, <2>1, <2>2
<1> QED
  BY <1>3, <1>6, <1>7, <1>8, <1>9, <1>10

\* When trans_abort drops the reference to its transaction, the call that it was
\* given for is over: nobody else walks over the same dependencies.
LEMMA FinishReleases ==
    ASSUME CommitInvariant, SemaphoreInvariant, WalkInvariant,
           \A d \in Clients : OneWalk(d),
           NEW t \in Threads, NEW c \in Clients, AbortStep(t), Finishes(t), c = Top(t).tp
    PROVE  \/ t \in Called(c) /\ t \notin Called(c)'
           \/ \E y \in Depended(c) : y \notin Depended(c)'
<1>types. /\ TypeOK /\ stack \in [Threads -> Seq(Frame)] /\ tid \in [Clients -> Nat]
          /\ depends \in [Clients -> Seq(Clients)]
  BY DEF CommitInvariant, TypeOK
<1>1. UNCHANGED <<depends, status>>
  BY AbortFrame DEF Finishes
<1>2. \A u \in Threads : u # t => stack'[u] = stack[u]
  BY <1>types, OtherStacks
<1>3. stack'[t] = Tail(stack[t])
  BY <1>types DEF Finishes, Pops
<1> DEFINE s == stack[t]
<1>4. s # <<>> /\ s \in Seq(Frame) /\ s[1] = Top(t) /\ s[1].at = "loop" /\ s[1].tp = c
  BY <1>types, AbortStacks DEF Finishes
<1>5. status[c] # "PENDING"
  <2>1. s[1] \in Range(stack[t])
    BY <1>4, TakingHead
  <2> QED
    BY <1>4, <2>1 DEF SemaphoreInvariant, AbortsAreDecided
<1>6. Nested(s)
  BY DEF WalkInvariant, StacksNested
<1>7. s = stack[t]
  OBVIOUS
<1> HIDE DEF s
<1>8. /\ Len(s) \in Nat /\ Len(s) > 0 /\ Len(Tail(s)) = Len(s) - 1
      /\ \A i \in 1..(Len(s) - 1) : Tail(s)[i] = s[i + 1]
      /\ DOMAIN s = 1..Len(s) /\ DOMAIN Tail(s) = 1..(Len(s) - 1)
  BY <1>4, Returned, LenProperties
<1>9. CASE Len(s) = 1
  <2>1. Outermost(s) = s[1] /\ Tail(s) = <<>>
    BY <1>4, <1>9, OutermostOf
  <2>2. t \in Called(c)
    BY <1>4, <1>7, <2>1 DEF Called, Dropping
  <2>3. t \notin Called(c)'
    BY <1>3, <1>7, <2>1 DEF Called
  <2> QED
    BY <2>2, <2>3
<1>10. CASE Len(s) > 1
  <2>1. PICK d, h : d = s[2].tp /\ h = Len(s[2].rest)
    OBVIOUS
  <2>2. 2 \in DOMAIN s /\ s[2] \in Frame
    BY <1>4, <1>8, <1>10
  <2>3. d \in Clients /\ h \in Nat
    <3>1. s[2].tp \in Clients /\ s[2].rest \in Seq(Clients)
      BY <2>2 DEF Frame
    <3> QED
      BY <2>1, <3>1
  <2>4. s[2].at = "loop" /\ h < Len(depends[d]) /\ c = AtHeight(depends[d], h)
    <3>1. 2 > 1 => CallerOf(s[2], s[2 - 1])
      BY <1>6, <2>2 DEF Nested
    <3> QED
      BY <1>4, <2>1, <3>1 DEF CallerOf
  <2>5. HoldsNow(t, d) /\ depends[d] # <<>>
    BY <1>types, <1>7, <2>1, <2>2, <2>3, <2>4 DEF HoldsNow, Looping
  <2>6. <<d, h>> \in Depended(c)
    <3>1. Calls(s, d, h)
      <4>1. 2 > 1 /\ s[2 - 1].at \in Dropping
        BY <1>4 DEF Dropping
      <4> QED
        BY <2>1, <2>2, <4>1 DEF Calls
    <3> QED
      BY <1>7, <2>3, <2>4, <3>1 DEF Depended
  <2>7. <<d, h>> \notin Depended(c)'
    <3> SUFFICES ASSUME <<d, h>> \in Depended(c)' PROVE FALSE
      OBVIOUS
    <3>1. PICK v \in Threads : Calls(stack'[v], d, h)
      BY <1>1, <1>5 DEF Depended, Calls, AtHeight, Dropping
    <3>2. CASE v # t
      <4> DEFINE w == stack[v]
      <4>1. w \in Seq(Frame) /\ Nested(w) /\ Calls(w, d, h)
        BY <1>types, <1>2, <3>1, <3>2 DEF WalkInvariant, StacksNested
      <4>2. PICK i \in DOMAIN w : i > 1 /\ w[i].tp = d
        BY <4>1 DEF Calls
      <4>3. w[i].at = "loop"
        BY <4>1, <4>2 DEF Nested, CallerOf
      <4>4. HoldsNow(v, d)
        BY <4>2, <4>3 DEF HoldsNow, Looping
      <4> QED
        BY <2>3, <2>5, <3>2, <4>4 DEF OneWalk
    <3>3. CASE v = t
      <4>1. Calls(Tail(s), d, h)
        BY <1>3, <1>7, <3>1, <3>3
      <4>2. PICK i \in 1..(Len(s) - 1) : i > 1 /\ Tail(s)[i].tp = d
        BY <1>8, <4>1 DEF Calls
      <4>3. /\ Tail(s)[i] = s[i + 1] /\ i + 1 \in DOMAIN s
            /\ 2 \in 1..((i + 1) - 1)
        BY <1>8, <4>2
      <4>4. tid[s[2].tp] < tid[s[i + 1].tp]
        BY <1>6, <4>3 DEF Nested
      <4> QED
        BY <1>types, <2>1, <2>3, <4>2, <4>3, <4>4
    <3> QED
      BY <3>2, <3>3
  <2> QED
    BY <2>6, <2>7
<1> QED
  BY <1>8, <1>9, <1>10

-------------------------------------------------------------------------------
(* The balance of a step.                                                  *)

\* The four sets of c grow by at most p, w, d and a, and the count with them.
Balanced(c, p, w, d, a) ==
    /\ Grows(Placed(c)', Placed(c), p)
    /\ Grows(Doomed(c)', Doomed(c), w)
    /\ Grows(Depended(c)', Depended(c), d)
    /\ Grows(Called(c)', Called(c), a)
    /\ refcnt'[c] >= refcnt[c] + p + w + d + a + OwnReference(c)' - OwnReference(c)

\* The creator has one reference or none.
LEMMA OwnIsOneOrNone ==
    ASSUME NEW c \in Clients
    PROVE  OwnReference(c) \in {0, 1} /\ OwnReference(c)' \in {0, 1}
  BY DEF OwnReference

\* A balanced step leaves a covered transaction covered.
LEMMA CoveredStep ==
    ASSUME NEW c \in Clients, Covered(c), refcnt[c] \in Int, refcnt'[c] \in Int,
           NEW p \in Int, NEW w \in Int, NEW d \in Int, NEW a \in Int,
           Balanced(c, p, w, d, a)
    PROVE  Covered(c)'
<1>1. OwnReference(c) \in {0, 1} /\ OwnReference(c)' \in {0, 1}
  BY OwnIsOneOrNone
<1> DEFINE n == refcnt[c]
           P == Placed(c)
           W == Doomed(c)
           D == Depended(c)
           A == Called(c)
           o == OwnReference(c)
           m == refcnt'[c]
           P2 == Placed(c)'
           W2 == Doomed(c)'
           D2 == Depended(c)'
           A2 == Called(c)'
           q == OwnReference(c)'
<1>2. /\ Covers(n, P, W, D, A, o)
      /\ Grows(P2, P, p) /\ Grows(W2, W, w) /\ Grows(D2, D, d) /\ Grows(A2, A, a)
      /\ m >= n + p + w + d + a + q - o
      /\ n \in Int /\ m \in Int /\ o \in {0, 1} /\ q \in {0, 1}
  BY <1>1 DEF Balanced, Covered
<1>3. Covers(m, P2, W2, D2, A2, q)
  <2> HIDE DEF n, P, W, D, A, o, m, P2, W2, D2, A2, q
  <2> QED
    BY <1>2, CoversStep
<1> QED
  BY <1>3 DEF Covered, Covers

\* Steps that leave the versions alone.
LEMMA PlacedKept ==
    ASSUME NEW c \in Clients, UNCHANGED versions
    PROVE  Placed(c)' \subseteq Placed(c)
  BY DEF Placed

\* Steps that do not start to dispose of versions.
LEMMA DoomedKept ==
    ASSUME NEW c \in Clients,
           \A u \in Clients : pc'[u] \in Disposing => pc[u] \in Disposing /\ walk'[u] = walk[u]
    PROVE  Doomed(c)' \subseteq Doomed(c)
<1> SUFFICES ASSUME NEW y \in Doomed(c)' PROVE y \in Doomed(c)
  OBVIOUS
<1>1. /\ y \in Clients \X Nat /\ pc'[y[1]] \in Disposing
      /\ y[2] < Len(walk'[y[1]]) /\ AtHeight(walk'[y[1]], y[2]) = c
  BY DEF Doomed, AtHeight
<1>2. y[1] \in Clients
  BY <1>1
<1>3. pc[y[1]] \in Disposing /\ walk'[y[1]] = walk[y[1]]
  BY <1>1, <1>2
<1> QED
  BY <1>1, <1>3 DEF Doomed

\* Steps that add no dependency and call trans_abort at most from outside.
LEMMA DependedKept ==
    ASSUME NEW c \in Clients, status'[c] = "PENDING" => status[c] = "PENDING",
           \A u \in Clients : depends'[u] = depends[u] \/ depends'[u] = <<>>,
           \A t \in Threads : stack'[t] = stack[t] \/ \E f \in Frame : stack'[t] = <<f>>
    PROVE  Depended(c)' \subseteq Depended(c)
<1> SUFFICES ASSUME NEW y \in Depended(c)' PROVE y \in Depended(c)
  OBVIOUS
<1>1. /\ y \in Clients \X Nat /\ y[2] < Len(depends'[y[1]]) /\ AtHeight(depends'[y[1]], y[2]) = c
      /\ (status'[c] = "PENDING" \/ \E t \in Threads : Calls(stack'[t], y[1], y[2]))
  BY DEF Depended, AtHeight, Calls
<1>2. y[1] \in Clients /\ y[2] \in Nat
  BY <1>1
<1>3. depends'[y[1]] = depends[y[1]]
  BY <1>1, <1>2
<1>4. \A t \in Threads : Calls(stack'[t], y[1], y[2]) => Calls(stack[t], y[1], y[2])
  <2> SUFFICES ASSUME NEW t \in Threads, NEW f \in Frame, stack'[t] = <<f>>
               PROVE  ~Calls(stack'[t], y[1], y[2])
    OBVIOUS
  <2>1. DOMAIN <<f>> = {1}
    OBVIOUS
  <2> QED
    BY <2>1 DEF Calls
<1> QED
  BY <1>1, <1>3, <1>4 DEF Depended

\* Steps that call no trans_abort.
LEMMA CalledKept ==
    ASSUME NEW c \in Clients, status'[c] = "PENDING" => status[c] = "PENDING", UNCHANGED stack
    PROVE  Called(c)' \subseteq Called(c)
  BY DEF Called, Outermost

\* A call trans_abort(tp) from outside trans_abort.
LEMMA CalledByCall ==
    ASSUME TypeOK, NEW x \in Clients, NEW tp \in Clients, NEW l, CallAbort(x, tp, l),
           UNCHANGED status, NEW c \in Clients
    PROVE  /\ \A t \in Threads : stack'[t] = stack[t] \/ \E f \in Frame : stack'[t] = <<f>>
           /\ Called(c)' \subseteq Called(c) \cup {x}
           /\ c # tp \/ status[c] # "PENDING" => Called(c)' \subseteq Called(c)
<1> DEFINE f == [tp |-> tp, at |-> "fatal", rest |-> <<>>]
<1>1. f \in Frame /\ f.tp = tp /\ f.at = "fatal"
  BY DEF Frame
<1>2. /\ stack \in [Threads -> Seq(Frame)] /\ Clients \subseteq Threads
      /\ stack' = [stack EXCEPT ![x] = <<f>>]
  BY DEF TypeOK, CallAbort, Threads
<1> HIDE DEF f
<1>3. /\ stack'[x] = <<f>>
      /\ \A t \in Threads : t # x => stack'[t] = stack[t]
  BY <1>2
<1>4. Outermost(<<f>>) = f
  BY DEF Outermost
<1>5. \A t \in Called(c)' : t # x => t \in Called(c)
  BY <1>3 DEF Called, Outermost
<1>6. x \in Called(c)' => c = tp /\ status[c] = "PENDING"
  BY <1>1, <1>3, <1>4 DEF Called, Outermost, Dropping
<1> QED
  BY <1>1, <1>3, <1>5, <1>6

\* A step of another service thread leaves c's own reference alone.
LEMMA OwnOfOthers ==
    ASSUME CommitInvariant, [Next]_vars, NEW x \in Clients, NEW c \in Clients, c # x,
           CreateStep(x) \/ LoopStep(x) \/ StoreStep(x) \/ CommitStep(x)
    PROVE  OwnReference(c)' <= OwnReference(c)
<1>1. pc'[c] = pc[c] /\ local'[c] = local[c]
  BY OthersUnmoved DEF CommitInvariant
<1>2. status'[c] = "PENDING" => status[c] = "PENDING"
  BY StaysDecided DEF CommitInvariant, PointersAreKnown
<1> QED
  BY <1>1, <1>2 DEF OwnReference

\* What every step of a service thread leaves alone, unless it disposes of
\* versions.
LEMMA DoomedByOthers ==
    ASSUME TypeOK, NEW x \in Clients, NEW c \in Clients,
           CreateStep(x) \/ LoopStep(x) \/ StoreStep(x) \/ CommitStep(x),
           pc'[x] \in Disposing => pc[x] \in Disposing /\ walk'[x] = walk[x]
    PROVE  Doomed(c)' \subseteq Doomed(c)
<1>1. \A u \in Clients : u # x => pc'[u] = pc[u] /\ walk'[u] = walk[u]
  BY OthersUnmoved
<1> QED
  BY <1>1, DoomedKept

\* Steps of trans_create and of the way to it: trans_create takes the creator's
\* reference to a transaction that nothing points to.
LEMMA CoveredByCreate ==
    ASSUME CommitInvariant, [Next]_vars, refcnt' \in [Clients -> Int],
           NEW x \in Clients, CreateStep(x), NEW c \in Clients, Covered(c)
    PROVE  Covered(c)'
<1>types. /\ TypeOK /\ pc \in [Threads -> Labels] /\ Clients \subseteq Threads
          /\ refcnt \in [Clients -> Int] /\ depends \in [Clients -> Seq(Clients)]
          /\ versions \in [Keys -> Seq(Clients)] /\ stack \in [Threads -> Seq(Frame)]
  BY DEF CommitInvariant, TypeOK, Threads
<1>0. UNCHANGED <<versions, walk, stack, local>>
  BY CreateFrame
<1>1. status'[c] = "PENDING" => status[c] = "PENDING"
  BY StaysDecided DEF CommitInvariant, PointersAreKnown
<1>2. \A u \in Clients : depends'[u] = depends[u] \/ depends'[u] = <<>>
  BY <1>types, CreateFrame DEF Create
<1>3. /\ pc[x] \in {"start", "register", "create", "link", "linkTail", "loadId", "storeId"}
      /\ pc'[x] \in {"register", "create", "link", "linkTail", "loadId", "storeId", "recv"}
  BY <1>types, NewLabel DEF CreateStep, Accept, Register, Create, Link, LinkTail, LoadId,
     StoreId, At
<1>4. Doomed(c)' \subseteq Doomed(c)
  BY <1>types, <1>3, DoomedByOthers DEF Disposing
<1>5. /\ Grows(Placed(c)', Placed(c), 0) /\ Grows(Doomed(c)', Doomed(c), 0)
      /\ Grows(Depended(c)', Depended(c), 0) /\ Grows(Called(c)', Called(c), 0)
  BY <1>0, <1>1, <1>2, <1>4, PlacedKept, DependedKept, CalledKept, GrowsNot
<1>6. c # x => OwnReference(c)' <= OwnReference(c)
  BY OwnOfOthers
<1>own. OwnReference(c) \in {0, 1} /\ OwnReference(c)' \in {0, 1}
  BY OwnIsOneOrNone
<1>ints. refcnt[c] \in Int /\ refcnt'[c] \in Int
  BY <1>types
<1>7. ASSUME refcnt'[c] >= refcnt[c] + OwnReference(c)' - OwnReference(c)
      PROVE  Covered(c)'
  <2>1. Balanced(c, 0, 0, 0, 0)
    BY <1>5, <1>7, <1>own, <1>ints DEF Balanced
  <2> QED
    BY <1>ints, <2>1, CoveredStep
<1>8. CASE Create(x) /\ c # x
  <2>1. refcnt'[c] = refcnt[c]
    BY <1>types, <1>8 DEF Create
  <2> QED
    BY <1>6, <1>7, <1>8, <1>own, <1>ints, <2>1
<1>9. CASE Create(x) /\ c = x
  <2>1. c \notin Known /\ refcnt'[c] = 0 /\ pc'[c] = "link"
    BY <1>types, <1>9 DEF Create, At, Known, Goto
  <2>2. Placed(c) = {}
    <3> SUFFICES ASSUME NEW y \in Placed(c) PROVE FALSE
      OBVIOUS
    <3>1. y[1] \in Keys /\ y[2] \in DOMAIN versions[y[1]] /\ versions[y[1]][y[2]] = c
      BY DEF Placed
    <3>2. c \in Range(versions[y[1]])
      BY <3>1 DEF Range
    <3> QED
      BY <2>1, <3>1, <3>2 DEF CommitInvariant, PointersAreKnown, VersionsKnown
  <2>3. Doomed(c) = {}
    <3> SUFFICES ASSUME NEW y \in Doomed(c) PROVE FALSE
      OBVIOUS
    <3>1. /\ y[1] \in Clients /\ y[2] \in Nat
          /\ y[2] < Len(walk[y[1]]) /\ AtHeight(walk[y[1]], y[2]) = c
      BY DEF Doomed
    <3>2. walk[y[1]] \in Seq(Clients)
      BY <1>types, <3>1 DEF TypeOK
    <3>3. Len(walk[y[1]]) - y[2] \in DOMAIN walk[y[1]]
      BY <3>1, <3>2
    <3>4. c \in Range(walk[y[1]])
      BY <3>1, <3>3 DEF AtHeight, Range
    <3> QED
      BY <2>1, <3>1, <3>4 DEF CommitInvariant, PointersAreKnown, WalkKnown
  <2>4. Depended(c) = {}
    <3> SUFFICES ASSUME NEW y \in Depended(c) PROVE FALSE
      OBVIOUS
    <3>1. /\ y[1] \in Clients /\ y[2] \in Nat
          /\ y[2] < Len(depends[y[1]]) /\ AtHeight(depends[y[1]], y[2]) = c
      BY DEF Depended
    <3>2. depends[y[1]] \in Seq(Clients)
      BY <1>types, <3>1
    <3>3. Len(depends[y[1]]) - y[2] \in DOMAIN depends[y[1]]
      BY <3>1, <3>2
    <3>4. c \in Range(depends[y[1]])
      BY <3>1, <3>3 DEF AtHeight, Range
    <3> QED
      BY <2>1, <3>1, <3>4 DEF CommitInvariant, PointersAreKnown, DependsKnown
  <2>5. Called(c) = {}
    <3> SUFFICES ASSUME NEW t \in Called(c) PROVE FALSE
      OBVIOUS
    <3>1. /\ t \in Threads /\ stack[t] # <<>> /\ stack[t] \in Seq(Frame)
          /\ stack[t][Len(stack[t])].tp = c
      BY <1>types DEF Called, Outermost
    <3>2. Len(stack[t]) \in DOMAIN stack[t]
      BY <3>1, EmptySeq, LenProperties
    <3>3. stack[t][Len(stack[t])] \in Range(stack[t])
      BY <3>2 DEF Range
    <3> QED
      BY <2>1, <3>1, <3>3 DEF CommitInvariant, PointersAreKnown, StackKnown, FrameKnown
  <2>6. OwnReference(c)' = 0
    BY <2>1 DEF OwnReference, Owning, StoreLabels, Inside
  <2>7. Placed(c)' = {} /\ Doomed(c)' = {} /\ Depended(c)' = {} /\ Called(c)' = {}
    BY <1>0, <1>1, <1>2, <1>4, <2>2, <2>3, <2>4, <2>5, PlacedKept, DependedKept, CalledKept
  <2>8. IsFiniteSet({}) /\ Cardinality({}) = 0
    BY FS_EmptySet
  <2> HIDE <1>9
  <2> QED
    BY <2>1, <2>6, <2>7, <2>8 DEF Covered, Covers
<1>10. CASE LinkTail(x)
  <2>1. /\ refcnt' = [refcnt EXCEPT ![x] = @ + 1] /\ pc[x] = "linkTail"
    BY <1>10 DEF LinkTail, At
  <2>2. CASE c # x
    <3>1. refcnt'[c] = refcnt[c]
      BY <1>types, <2>1, <2>2
    <3> QED
      BY <1>6, <1>7, <2>2, <1>own, <1>ints, <3>1
  <2>3. CASE c = x
    <3>1. refcnt'[c] = refcnt[c] + 1
      BY <1>types, <2>1, <2>3
    <3> QED
      BY <1>7, <1>own, <1>ints, <3>1
  <2> QED
    BY <2>2, <2>3
<1>11. CASE ~Create(x) /\ ~LinkTail(x)
  <2>1. UNCHANGED refcnt
    BY <1>11 DEF CreateStep, Accept, Register, Link, LoadId, StoreId, transVars
  <2>2. c = x => OwnReference(c)' <= OwnReference(c)
    <3>1. /\ pc[x] \in {"start", "register", "link"} => pc'[x] \in {"register", "create", "linkTail"}
          /\ pc[x] \in {"start", "register", "link", "loadId", "storeId"}
      BY <1>types, <1>11 DEF CreateStep, Accept, Register, Link, LoadId, StoreId, At, Goto
    <3>2. pc[x] \in {"loadId", "storeId"} => OwnReference(x) = 1
      BY DEF OwnReference, Owning
    <3>3. pc[x] \in {"start", "register", "link"} => OwnReference(x)' = 0
      BY <3>1 DEF OwnReference, Owning, StoreLabels, Inside
    <3> QED
      BY <1>own, <3>1, <3>2, <3>3
  <2>3. OwnReference(c)' <= OwnReference(c)
    BY <1>6, <2>2
  <2> QED
    BY <1>7, <1>own, <1>ints, <2>1, <2>3
<1> QED
  BY <1>8, <1>9, <1>10, <1>11

\* The request loop: the creator's reference is handed to trans_abort.
LEMMA CoveredByLoop ==
    ASSUME CommitInvariant, [Next]_vars, refcnt' \in [Clients -> Int],
           NEW x \in Clients, LoopStep(x), NEW c \in Clients, Covered(c)
    PROVE  Covered(c)'
<1>types. /\ TypeOK /\ pc \in [Threads -> Labels] /\ Clients \subseteq Threads
          /\ refcnt \in [Clients -> Int] /\ local \in [Clients -> Status]
          /\ stack \in [Threads -> Seq(Frame)]
  BY DEF CommitInvariant, TypeOK, Threads
<1>0. UNCHANGED <<status, depends, versions, walk, refcnt>>
  BY LoopFrame DEF LoopStep, RecvRequest, RecvPartialRequest, RecvOther, RecvCommit, RecvFails,
     Reply, Unregister, UnregisterHungUp, transVars
<1>3. pc'[x] \notin Disposing
  BY <1>types, NewLabel DEF Disposing
<1>4. Doomed(c)' \subseteq Doomed(c)
  BY <1>types, <1>3, DoomedByOthers
<1>stacks. \A t \in Threads : stack'[t] = stack[t] \/ \E f \in Frame : stack'[t] = <<f>>
  BY <1>types, <1>0, OwnCalls, CalledByCall
<1>5. /\ Grows(Placed(c)', Placed(c), 0) /\ Grows(Doomed(c)', Doomed(c), 0)
      /\ Grows(Depended(c)', Depended(c), 0)
  BY <1>0, <1>4, <1>stacks, PlacedKept, DependedKept, GrowsNot
<1>6. c # x => OwnReference(c)' <= OwnReference(c)
  BY OwnOfOthers
<1>own. OwnReference(c) \in {0, 1} /\ OwnReference(c)' \in {0, 1}
  BY OwnIsOneOrNone
<1>ints. refcnt[c] \in Int /\ refcnt'[c] = refcnt[c]
  BY <1>types, <1>0
<1>7. ASSUME NEW a \in {0, 1}, Grows(Called(c)', Called(c), a),
             OwnReference(c) >= a + OwnReference(c)'
      PROVE  Covered(c)'
  <2>1. Balanced(c, 0, 0, 0, a)
    BY <1>5, <1>7, <1>own, <1>ints DEF Balanced
  <2>2. refcnt'[c] \in Int /\ a \in Int
    BY <1>ints
  <2> QED
    BY <1>ints, <2>1, <2>2, CoveredStep
<1>8. ASSUME UNCHANGED stack, c = x => OwnReference(c)' <= OwnReference(c)
      PROVE  Covered(c)'
  <2>1. Grows(Called(c)', Called(c), 0)
    BY <1>0, <1>8, CalledKept, GrowsNot
  <2> QED
    BY <1>6, <1>7, <1>8, <1>own, <2>1
<1>9. ASSUME NEW l, CallAbort(x, x, l), OwnReference(x)' = 0,
             status[x] = "PENDING" => OwnReference(x) = 1
      PROVE  Covered(c)'
  <2>1. CASE c = x /\ status[x] = "PENDING"
    <3>1. Called(c)' \subseteq Called(c) \cup {x}
      BY <1>types, <1>0, <1>9, CalledByCall
    <3>2. Grows(Called(c)', Called(c), 1)
      BY <3>1, GrowsByOne
    <3> QED
      BY <1>7, <1>9, <2>1, <3>2
  <2>2. CASE c # x \/ status[x] # "PENDING"
    <3>1. Called(c)' \subseteq Called(c)
      BY <1>types, <1>0, <1>9, <2>2, CalledByCall
    <3>2. Grows(Called(c)', Called(c), 0)
      BY <3>1, GrowsNot
    <3>3. OwnReference(c)' <= OwnReference(c)
      BY <1>6, <1>9, <1>own
    <3> QED
      BY <1>7, <1>own, <3>2, <3>3
  <2> QED
    BY <2>1, <2>2
<1>10. CASE RecvRequest(x) \/ RecvPartialRequest(x) \/ RecvOther(x) \/ RecvCommit(x)
  <2>1. UNCHANGED stack /\ pc[x] = "recv"
    BY <1>10 DEF RecvRequest, RecvPartialRequest, RecvOther, RecvCommit, At
  <2>2. OwnReference(x) = 1
    BY <2>1 DEF OwnReference, Owning
  <2> QED
    BY <1>8, <1>own, <2>1, <2>2
<1>11. CASE RecvFails(x)
  <2>1. CallAbort(x, x, "hungUp") /\ pc[x] = "recv"
    BY <1>11 DEF RecvFails, At
  <2>2. OwnReference(x) = 1
    BY <2>1 DEF OwnReference, Owning
  <2>3. pc'[x] = "hungUp"
    BY <1>types, <2>1 DEF CallAbort, Goto
  <2>4. OwnReference(x)' = 0
    BY <2>3 DEF OwnReference, Owning, StoreLabels, Inside
  <2> QED
    BY <1>9, <2>1, <2>2, <2>4
<1>12. CASE Reply(x)
  <2>1. /\ UNCHANGED <<stack, local>> /\ pc[x] = "reply"
        /\ \/ pc'[x] = IF local[x] = "PENDING" THEN "recv" ELSE "unregister"
           \/ pc'[x] = pc[x]
    BY <1>types, <1>12 DEF Reply, At, Goto, localVars
  <2>2. OwnReference(x)' <= OwnReference(x)
    BY <1>0, <2>1 DEF OwnReference, Owning, StoreLabels, Inside
  <2> QED
    BY <1>8, <2>1, <2>2
<1>13. CASE Unregister(x)
  <2>1. pc[x] = "unregister" /\ pc'[x] = "done"
    BY <1>types, <1>13 DEF Unregister, At, Goto, CallAbort
  <2>2. OwnReference(x)' = 0 /\ (status[x] = "PENDING" => OwnReference(x) = 1)
    BY <2>1 DEF OwnReference, Owning, StoreLabels, Inside
  <2>3. CallAbort(x, x, "done") \/ UNCHANGED stack
    BY <1>13 DEF Unregister
  <2>4. c = x => OwnReference(c)' <= OwnReference(c)
    BY <1>own, <2>2
  <2> QED
    BY <1>8, <1>9, <2>2, <2>3, <2>4
<1>14. CASE UnregisterHungUp(x)
  <2>1. UNCHANGED stack /\ pc'[x] = "done"
    BY <1>types, <1>14 DEF UnregisterHungUp, Goto
  <2>2. OwnReference(x)' = 0
    BY <2>1 DEF OwnReference, Owning, StoreLabels, Inside
  <2> QED
    BY <1>8, <1>own, <2>1, <2>2
<1> QED
  BY <1>10, <1>11, <1>12, <1>13, <1>14 DEF LoopStep

\* A set that maps one-to-one into a finite set has at most as many elements.
LEMMA Injects ==
    ASSUME NEW S, NEW T, IsFiniteSet(T), NEW f \in [S -> T],
           \A x, y \in S : f[x] = f[y] => x = y
    PROVE  IsFiniteSet(S) /\ Cardinality(S) <= Cardinality(T)
<1>1. f \in Injection(S, T)
  BY DEF Injection, IsInjective
<1> QED
  BY <1>1, FS_Injection

\* A set that loses a subset shrinks by its size ...
LEMMA LosesElements ==
    ASSUME NEW S, IsFiniteSet(S), NEW M, M \subseteq S, NEW S2, S2 \subseteq S \ M
    PROVE  /\ IsFiniteSet(M) /\ Cardinality(M) \in Nat
           /\ Grows(S2, S, 0 - Cardinality(M))
<1>1. S \cap M = M
  OBVIOUS
<1>2. /\ IsFiniteSet(M) /\ Cardinality(M) \in Nat /\ Cardinality(S) \in Nat
  BY FS_Subset, FS_CardinalityType
<1>3. IsFiniteSet(S \ M) /\ Cardinality(S \ M) = Cardinality(S) - Cardinality(M)
  BY <1>1, FS_Difference
<1>4. IsFiniteSet(S2) /\ Cardinality(S2) <= Cardinality(S \ M) /\ Cardinality(S2) \in Nat
  BY <1>3, FS_Subset, FS_CardinalityType
<1> QED
  BY <1>2, <1>3, <1>4 DEF Grows

\* ... and one that gains a set of at most m elements grows by at most m.
LEMMA GrowsByElements ==
    ASSUME NEW S, NEW N, IsFiniteSet(N), NEW m \in Nat, Cardinality(N) <= m,
           NEW S2, S2 \subseteq S \cup N
    PROVE  Grows(S2, S, m)
<1> SUFFICES ASSUME IsFiniteSet(S)
             PROVE  IsFiniteSet(S2) /\ Cardinality(S2) <= Cardinality(S) + m
  BY DEF Grows
<1>1. /\ IsFiniteSet(S \cup N)
      /\ Cardinality(S \cup N) = Cardinality(S) + Cardinality(N) - Cardinality(S \cap N)
  BY FS_Union
<1>2. IsFiniteSet(S \cap N)
  BY FS_Intersection
<1>3. Cardinality(S) \in Nat /\ Cardinality(N) \in Nat /\ Cardinality(S \cap N) \in Nat
  BY <1>2, FS_CardinalityType
<1>4. IsFiniteSet(S2) /\ Cardinality(S2) <= Cardinality(S \cup N) /\ Cardinality(S2) \in Nat
  BY <1>1, FS_Subset, FS_CardinalityType
<1> QED
  BY <1>1, <1>3, <1>4

\* Balanced, without the creator's reference.
Follows(c, p, w, d, a) ==
    /\ Grows(Placed(c)', Placed(c), p)
    /\ Grows(Doomed(c)', Doomed(c), w)
    /\ Grows(Depended(c)', Depended(c), d)
    /\ Grows(Called(c)', Called(c), a)
    /\ refcnt'[c] >= refcnt[c] + p + w + d + a

\* In the store a thread keeps the creator's reference, so a step there is
\* balanced when the count follows the sets.
LEMMA StoreBalance ==
    ASSUME CommitInvariant, [Next]_vars, refcnt' \in [Clients -> Int],
           NEW x \in Clients, StoreStep(x), NEW c \in Clients, Covered(c),
           NEW p \in Int, NEW w \in Int, NEW d \in Int, NEW a \in Int,
           Follows(c, p, w, d, a)
    PROVE  Covered(c)'
<1>1. OwnReference(c) \in {0, 1} /\ OwnReference(c)' \in {0, 1}
  BY OwnIsOneOrNone
<1>2. c = x => OwnReference(c) = 1
  BY DEF StoreStep, LockMap, ExamineAborted, ExamineCommitted, ExaminePending, AddDependency,
     ExamineEnd, AbortDoomed, DisposeDoomed, DoomedEnd, PlaceConflict, PlaceVersion, UnlockMap,
     StoreResult, At, OwnReference, Owning, StoreLabels
<1>3. c # x => OwnReference(c)' <= OwnReference(c)
  BY OwnOfOthers
<1>4. OwnReference(c)' - OwnReference(c) <= 0
  BY <1>1, <1>2, <1>3
<1>5. refcnt[c] \in Int /\ refcnt'[c] \in Int
  BY DEF CommitInvariant, TypeOK
<1>6. refcnt'[c] >= refcnt[c] + p + w + d + a + OwnReference(c)' - OwnReference(c)
  BY <1>1, <1>4, <1>5 DEF Follows
<1>7. Balanced(c, p, w, d, a)
  BY <1>6 DEF Balanced, Follows
<1> QED
  BY <1>5, <1>7, CoveredStep

\* Steps of the store that write no version, no count and no dependency.
LEMMA CoveredByQuietStore ==
    ASSUME CommitInvariant, [Next]_vars, refcnt' \in [Clients -> Int],
           NEW x \in Clients,
           \/ LockMap(x) \/ ExaminePending(x) \/ ExamineEnd(x) \/ DoomedEnd(x) \/ UnlockMap(x)
           \/ StoreResult(x),
           NEW c \in Clients, Covered(c)
    PROVE  Covered(c)'
<1>types. /\ TypeOK /\ pc \in [Threads -> Labels] /\ Clients \subseteq Threads
          /\ refcnt \in [Clients -> Int]
  BY DEF CommitInvariant, TypeOK, Threads
<1>0. /\ StoreStep(x)
      /\ UNCHANGED <<versions, walk, stack, refcnt, status, depends>>
  BY DEF StoreStep, LockMap, ExaminePending, ExamineEnd, DoomedEnd, UnlockMap, StoreResult,
     transVars, storeVars, localVars
<1>1. pc'[x] \notin Disposing
  BY <1>types DEF LockMap, ExaminePending, ExamineEnd, DoomedEnd, UnlockMap, StoreResult, Goto,
     Disposing, At
<1>2. Doomed(c)' \subseteq Doomed(c)
  BY <1>types, <1>0, <1>1, DoomedByOthers
<1>3. /\ Grows(Placed(c)', Placed(c), 0) /\ Grows(Doomed(c)', Doomed(c), 0)
      /\ Grows(Depended(c)', Depended(c), 0) /\ Grows(Called(c)', Called(c), 0)
  BY <1>0, <1>2, PlacedKept, DependedKept, CalledKept, GrowsNot
<1>4. refcnt'[c] >= refcnt[c] + 0 + 0 + 0 + 0
  BY <1>types, <1>0
<1>5. Follows(c, 0, 0, 0, 0)
  BY <1>3, <1>4 DEF Follows
<1> QED
  BY <1>0, <1>5, StoreBalance

\* An aborted version and those behind it leave the list, but their references
\* are dropped one after the other when the versions are disposed of.
LEMMA CoveredByExamineAborted ==
    ASSUME CommitInvariant, [Next]_vars, refcnt' \in [Clients -> Int],
           NEW x \in Clients, ExamineAborted(x), NEW c \in Clients, Covered(c)
    PROVE  Covered(c)'
<1>types. /\ TypeOK /\ pc \in [Threads -> Labels] /\ Clients \subseteq Threads
          /\ refcnt \in [Clients -> Int] /\ versions \in [Keys -> Seq(Clients)]
          /\ walk \in [Clients -> Seq(Clients)] /\ pos \in [Clients -> Nat \ {0}]
  BY DEF CommitInvariant, TypeOK, Threads
<1>0. StoreStep(x) /\ UNCHANGED <<stack, refcnt, status, depends>>
  BY DEF StoreStep, ExamineAborted, transVars
<1>step. /\ pc[x] = "examine" /\ pos[x] <= Len(versions[key[x]])
         /\ walk' = [walk EXCEPT ![x] = SubSeq(versions[key[x]], pos[x], Len(versions[key[x]]))]
         /\ versions' = [versions EXCEPT ![key[x]] = SubSeq(versions[key[x]], 1, pos[x] - 1)]
  BY DEF ExamineAborted, At
<1> DEFINE k == key[x]
           vs == versions[k]
           p == pos[x]
           n == Len(vs)
           wx == walk'[x]
<1>1. k \in Keys
  BY <1>step DEF CommitInvariant, StoreIsLocked, HoldLabels
<1>2. /\ vs \in Seq(Clients) /\ n \in Nat /\ p \in Nat \ {0} /\ p <= n
      /\ \A i \in 1..n : i \in DOMAIN vs
  <2>1. vs \in Seq(Clients) /\ p \in Nat \ {0} /\ p <= n
    BY <1>types, <1>step, <1>1
  <2>2. n \in Nat /\ DOMAIN vs = 1..n
    BY <2>1, LenProperties
  <2> QED
    BY <2>1, <2>2
<1>3. wx = SubSeq(vs, p, n) /\ versions'[k] = SubSeq(vs, 1, p - 1)
  BY <1>types, <1>step, <1>1
<1>4. \A j \in Keys : j # k => versions'[j] = versions[j]
  BY <1>types, <1>step, <1>1
<1>names. k = key[x] /\ vs = versions[k] /\ wx = walk'[x]
  OBVIOUS
<1> HIDE DEF k, vs, p, n, wx
<1>5. /\ Len(wx) = n - p + 1
      /\ \A i \in 1..(n - p + 1) : wx[i] = vs[p + i - 1]
  <2>1. \A i \in p..n : vs[i] \in Clients
    BY <1>2
  <2> QED
    BY <1>2, <1>3, <2>1, SubSeqProperties
<1>6. /\ DOMAIN versions'[k] = 1..(p - 1)
      /\ \A i \in 1..(p - 1) : versions'[k][i] = vs[i]
  <2>1. \A i \in 1..(p - 1) : vs[i] \in Clients
    BY <1>2
  <2>2. /\ Len(SubSeq(vs, 1, p - 1)) = p - 1 /\ SubSeq(vs, 1, p - 1) \in Seq(Clients)
        /\ \A i \in 1..((p - 1) - 1 + 1) : SubSeq(vs, 1, p - 1)[i] = vs[1 + i - 1]
    BY <1>2, <2>1, SubSeqProperties
  <2> QED
    BY <1>2, <1>3, <2>2
<1> DEFINE M == {y \in Placed(c) : y[1] = k /\ y[2] >= p}
           N == {y \in {x} \X Nat : y[2] < Len(wx) /\ AtHeight(wx, y[2]) = c}
<1>7. IsFiniteSet(Placed(c))
  BY DEF Covered, Covers
<1>8. Placed(c)' \subseteq Placed(c) \ M
  <2> SUFFICES ASSUME NEW y \in Placed(c)' PROVE y \in Placed(c) /\ ~(y[1] = k /\ y[2] >= p)
    OBVIOUS
  <2>1. /\ y \in Keys \X (Nat \ {0}) /\ y[2] \in DOMAIN versions'[y[1]]
        /\ versions'[y[1]][y[2]] = c
    BY DEF Placed
  <2>2. y[1] \in Keys /\ y[2] \in Nat
    BY <2>1
  <2>3. CASE y[1] = k
    <3>1. y[2] \in 1..(p - 1) /\ vs[y[2]] = c
      BY <1>6, <2>1, <2>3
    <3>2. y[2] \in DOMAIN vs /\ ~(y[2] >= p)
      BY <1>2, <3>1
    <3> QED
      BY <1>names, <2>1, <2>3, <3>1, <3>2 DEF Placed
  <2>4. CASE y[1] # k
    BY <1>4, <2>1, <2>2, <2>4 DEF Placed
  <2> QED
    BY <2>3, <2>4
<1>9. /\ IsFiniteSet(M) /\ Cardinality(M) \in Nat
      /\ Grows(Placed(c)', Placed(c), 0 - Cardinality(M))
  <2> HIDE DEF M
  <2>1. M \subseteq Placed(c)
    BY DEF M
  <2> QED
    BY <1>7, <1>8, <2>1, LosesElements
<1>10. IsFiniteSet(N) /\ Cardinality(N) <= Cardinality(M)
  <2> DEFINE f == [y \in N |-> <<k, n - y[2]>>]
  <2>1. ASSUME NEW y \in N PROVE <<k, n - y[2]>> \in M /\ y[2] \in Nat
    <3>1. y[2] \in Nat /\ y[2] < n - p + 1 /\ wx[(n - p + 1) - y[2]] = c
      BY <1>5 DEF AtHeight
    <3>2. (n - p + 1) - y[2] \in 1..(n - p + 1)
      BY <1>2, <3>1
    <3>3. p + ((n - p + 1) - y[2]) - 1 = n - y[2]
      BY <1>2, <3>1
    <3>4. vs[n - y[2]] = c
      BY <1>5, <3>1, <3>2, <3>3
    <3>5. n - y[2] \in 1..n /\ n - y[2] >= p /\ n - y[2] \in Nat \ {0}
      <4>1. n \in Nat /\ p \in Nat /\ p >= 1 /\ y[2] \in Nat /\ y[2] < n - p + 1
        BY <1>2, <3>1
      <4>2. n - y[2] \in Nat /\ n - y[2] >= p /\ n - y[2] >= 1 /\ n - y[2] <= n
        BY <4>1
      <4> QED
        BY <4>1, <4>2
    <3>6. <<k, n - y[2]>> \in Placed(c)
      BY <1>1, <1>2, <1>names, <3>4, <3>5 DEF Placed
    <3> QED
      BY <3>1, <3>5, <3>6
  <2>2. f \in [N -> M]
    BY <2>1
  <2>3. ASSUME NEW y \in N, NEW z \in N, f[y] = f[z] PROVE y = z
    <3>1. n - y[2] = n - z[2]
      BY <2>3
    <3>2. y[2] = z[2]
      BY <1>2, <2>1, <3>1
    <3> QED
      BY <3>2
  <2> HIDE DEF f, N, M
  <2> QED
    BY <1>9, <2>2, <2>3, Injects
<1>11. Doomed(c)' \subseteq Doomed(c) \cup N
  <2> SUFFICES ASSUME NEW y \in Doomed(c)' PROVE y \in Doomed(c) \/ y \in N
    OBVIOUS
  <2>1. /\ y \in Clients \X Nat /\ pc'[y[1]] \in Disposing
        /\ y[2] < Len(walk'[y[1]]) /\ AtHeight(walk'[y[1]], y[2]) = c
    BY DEF Doomed, AtHeight
  <2>2. y[1] \in Clients /\ y[2] \in Nat
    BY <2>1
  <2>3. CASE y[1] = x
    <3>1. y \in {x} \X Nat
      BY <2>1, <2>3
    <3> QED
      BY <1>names, <2>1, <2>3, <3>1
  <2>4. CASE y[1] # x
    <3>1. pc'[y[1]] = pc[y[1]] /\ walk'[y[1]] = walk[y[1]]
      BY <1>types, <1>0, <2>2, <2>4, OthersUnmoved
    <3> QED
      BY <2>1, <3>1 DEF Doomed
  <2> QED
    BY <2>3, <2>4
<1>12. Grows(Doomed(c)', Doomed(c), Cardinality(M))
  <2> HIDE DEF M, N
  <2> QED
    BY <1>9, <1>10, <1>11, GrowsByElements
<1>13. Grows(Depended(c)', Depended(c), 0) /\ Grows(Called(c)', Called(c), 0)
  BY <1>0, DependedKept, CalledKept, GrowsNot
<1> HIDE DEF M, N
<1>14. refcnt'[c] >= refcnt[c] + (0 - Cardinality(M)) + Cardinality(M) + 0 + 0
  BY <1>types, <1>0, <1>9
<1>15. 0 - Cardinality(M) \in Int /\ Cardinality(M) \in Int
  BY <1>9
<1>16. Follows(c, 0 - Cardinality(M), Cardinality(M), 0, 0)
  BY <1>9, <1>12, <1>13, <1>14 DEF Follows
<1> QED
  BY <1>0, <1>15, <1>16, StoreBalance

\* A superseded version leaves the front of the list with its reference.
LEMMA CoveredByExamineCommitted ==
    ASSUME CommitInvariant, [Next]_vars, refcnt' \in [Clients -> Int],
           NEW x \in Clients, ExamineCommitted(x), NEW c \in Clients, Covered(c)
    PROVE  Covered(c)'
<1>types. /\ TypeOK /\ pc \in [Threads -> Labels] /\ Clients \subseteq Threads
          /\ refcnt \in [Clients -> Int] /\ versions \in [Keys -> Seq(Clients)]
          /\ pos \in [Clients -> Nat \ {0}]
  BY DEF CommitInvariant, TypeOK, Threads
<1>0. StoreStep(x) /\ UNCHANGED <<stack, status, depends, walk, pc>>
  BY DEF StoreStep, ExamineCommitted, transVars
<1>1. /\ Grows(Doomed(c)', Doomed(c), 0)
      /\ Grows(Depended(c)', Depended(c), 0) /\ Grows(Called(c)', Called(c), 0)
  BY <1>0, DoomedKept, DependedKept, CalledKept, GrowsNot
<1>2. refcnt[c] \in Int
  BY <1>types
<1>3. CASE UNCHANGED <<refcnt, versions>>
  <2>1. Grows(Placed(c)', Placed(c), 0)
    BY <1>3, PlacedKept, GrowsNot
  <2>2. Follows(c, 0, 0, 0, 0)
    BY <1>1, <1>2, <1>3, <2>1 DEF Follows
  <2> QED
    BY <1>0, <2>2, StoreBalance
<1>4. CASE ~UNCHANGED <<refcnt, versions>>
  <2> DEFINE k == key[x]
             vs == versions[k]
             p == pos[x]
             n == Len(vs)
             front == vs[p - 1]
  <2>step. /\ pc[x] = "examine" /\ p <= n /\ p > 1
           /\ refcnt' = [refcnt EXCEPT ![front] = @ - 1]
           /\ versions' = [versions EXCEPT ![k] = SubSeq(vs, p, n)]
    BY <1>4 DEF ExamineCommitted, At
  <2>1. k \in Keys
    BY <2>step DEF CommitInvariant, StoreIsLocked, HoldLabels
  <2>2. /\ vs \in Seq(Clients) /\ n \in Nat /\ p \in Nat /\ p > 1 /\ p <= n
        /\ \A i \in 1..n : i \in DOMAIN vs /\ vs[i] \in Clients
    <3>1. vs \in Seq(Clients) /\ p \in Nat /\ p > 1 /\ p <= n
      BY <1>types, <2>step, <2>1
    <3> HIDE DEF vs, p
    <3>2. n \in Nat /\ \A i \in 1..n : i \in DOMAIN vs /\ vs[i] \in Clients
      BY <3>1, LenProperties, ElementOfSeq
    <3> QED
      BY <3>1, <3>2
  <2>3. versions'[k] = SubSeq(vs, p, n)
    BY <1>types, <2>step, <2>1
  <2>4. \A j \in Keys : j # k => versions'[j] = versions[j]
    BY <1>types, <2>step, <2>1
  <2>names. k = key[x] /\ vs = versions[k] /\ front = vs[p - 1]
            /\ refcnt' = [refcnt EXCEPT ![front] = @ - 1]
    BY <2>step
  <2> HIDE DEF k, vs, p, n, front
  <2>5. /\ DOMAIN versions'[k] = 1..(n - p + 1)
        /\ \A i \in 1..(n - p + 1) : versions'[k][i] = vs[p + i - 1]
    <3>1. \A i \in p..n : vs[i] \in Clients
      BY <2>2
    <3>2. /\ Len(SubSeq(vs, p, n)) = n - p + 1 /\ SubSeq(vs, p, n) \in Seq(Clients)
          /\ \A i \in 1..(n - p + 1) : SubSeq(vs, p, n)[i] = vs[p + i - 1]
      BY <2>2, <3>1, SubSeqProperties
    <3> QED
      BY <2>2, <2>3, <3>2
  <2>6. front \in Clients /\ refcnt'[c] = IF c = front THEN refcnt[c] - 1 ELSE refcnt[c]
    <3>1. p - 1 \in 1..n
      BY <2>2
    <3> QED
      BY <1>types, <2>2, <2>names, <3>1
  <2> DEFINE e == IF c = front THEN 1 ELSE 0
             P == IF c = front THEN Placed(c) \ {<<k, p - 1>>} ELSE Placed(c)
             f == [y \in Placed(c)' |-> IF y[1] = k THEN <<k, y[2] + (p - 1)>> ELSE y]
  <2>7. ASSUME NEW y \in Placed(c)'
        PROVE  /\ f[y] \in P /\ y[2] \in Nat
               /\ y[1] = k => f[y] = <<k, y[2] + (p - 1)>>
               /\ y[1] # k => f[y] = y
    <3>1. /\ y \in Keys \X (Nat \ {0}) /\ y[2] \in DOMAIN versions'[y[1]]
          /\ versions'[y[1]][y[2]] = c
      BY DEF Placed
    <3>2. y[1] \in Keys /\ y[2] \in Nat
      BY <3>1
    <3>3. CASE y[1] = k
      <4>1. y[2] \in 1..(n - p + 1) /\ vs[p + y[2] - 1] = c
        BY <2>5, <3>1, <3>3
      <4>2. /\ y[2] + (p - 1) = p + y[2] - 1 /\ y[2] + (p - 1) \in Nat \ {0}
            /\ y[2] + (p - 1) \in 1..n /\ y[2] + (p - 1) # p - 1
        <5>1. y[2] \in Nat /\ y[2] >= 1 /\ y[2] <= n - p + 1
          BY <2>2, <4>1
        <5>2. n \in Nat /\ p \in Nat /\ p > 1 /\ p <= n
          BY <2>2
        <5> QED
          BY <5>1, <5>2
      <4>3. <<k, y[2] + (p - 1)>> \in Placed(c)
        BY <2>1, <2>2, <2>names, <4>1, <4>2 DEF Placed
      <4>4. <<k, y[2] + (p - 1)>> \in P
        BY <4>2, <4>3
      <4>5. f[y] = <<k, y[2] + (p - 1)>>
        BY <3>3
      <4> QED
        BY <3>2, <3>3, <4>4, <4>5
    <3>4. CASE y[1] # k
      <4>1. y \in Placed(c)
        BY <2>4, <3>1, <3>2, <3>4 DEF Placed
      <4>2. y # <<k, p - 1>>
        BY <3>4
      <4>3. f[y] = y
        BY <3>4
      <4> QED
        BY <3>2, <3>4, <4>1, <4>2, <4>3
    <3> QED
      BY <3>3, <3>4
  <2>8. f \in [Placed(c)' -> P]
    <3>1. \A y \in Placed(c)' : f[y] \in P
      BY <2>7
    <3> HIDE DEF P
    <3> QED
      BY <3>1
  <2>9. ASSUME NEW y \in Placed(c)', NEW z \in Placed(c)', f[y] = f[z] PROVE y = z
    <3>1. y \in Keys \X (Nat \ {0}) /\ z \in Keys \X (Nat \ {0})
      BY DEF Placed
    <3>2. /\ y[1] = k => f[y] = <<k, y[2] + (p - 1)>>
          /\ y[1] # k => f[y] = y
          /\ z[1] = k => f[z] = <<k, z[2] + (p - 1)>>
          /\ z[1] # k => f[z] = z
      BY <2>7
    <3> HIDE DEF f, P
    <3>3. y[1] = z[1]
      BY <2>9, <3>2
    <3>4. y[1] # k => y = z
      BY <2>9, <3>2, <3>3
    <3>5. ASSUME y[1] = k PROVE y = z
      <4>1. y[2] + (p - 1) = z[2] + (p - 1)
        BY <2>9, <3>2, <3>3, <3>5
      <4>2. y[2] = z[2]
        BY <2>2, <3>1, <4>1
      <4> QED
        BY <3>1, <3>3, <4>2
    <3> QED
      BY <3>4, <3>5
  <2>fin. IsFiniteSet(Placed(c)) /\ Cardinality(Placed(c)) \in Nat
    BY FS_CardinalityType DEF Covered, Covers
  <2>10. IsFiniteSet(P) /\ Cardinality(P) = Cardinality(Placed(c)) - e
    <3>1. ASSUME c = front PROVE <<k, p - 1>> \in Placed(c)
      <4>1. p - 1 \in 1..n /\ p - 1 \in Nat \ {0}
        BY <2>2
      <4> QED
        BY <2>1, <2>2, <2>names, <3>1, <4>1 DEF Placed
    <3> QED
      BY <2>fin, <3>1, FS_RemoveElement
  <2>11. IsFiniteSet(Placed(c)') /\ Cardinality(Placed(c)') <= Cardinality(P)
    <3> HIDE DEF f, P
    <3> QED
      BY <2>8, <2>9, <2>10, Injects
  <2>12. e \in {0, 1}
    OBVIOUS
  <2>13. refcnt'[c] = refcnt[c] - e
    BY <1>2, <2>6
  <2> HIDE DEF e, P, f
  <2>14. Grows(Placed(c)', Placed(c), 0 - e)
    BY <2>fin, <2>10, <2>11, <2>12, FS_CardinalityType DEF Grows
  <2>15. Follows(c, 0 - e, 0, 0, 0) /\ 0 - e \in Int
    BY <1>1, <1>2, <2>12, <2>13, <2>14 DEF Follows
  <2> QED
    BY <1>0, <2>15, StoreBalance
<1> QED
  BY <1>3, <1>4

\* A dependency is referenced by the set it joins.
LEMMA CoveredByAddDependency ==
    ASSUME CommitInvariant, [Next]_vars, refcnt' \in [Clients -> Int],
           NEW x \in Clients, AddDependency(x), NEW c \in Clients, Covered(c)
    PROVE  Covered(c)'
<1>types. /\ TypeOK /\ pc \in [Threads -> Labels] /\ Clients \subseteq Threads
          /\ refcnt \in [Clients -> Int] /\ versions \in [Keys -> Seq(Clients)]
          /\ pos \in [Clients -> Nat \ {0}] /\ depends \in [Clients -> Seq(Clients)]
  BY DEF CommitInvariant, TypeOK, Threads
<1>0. StoreStep(x) /\ UNCHANGED <<stack, status, versions, walk>> /\ pc[x] = "depend"
  BY DEF StoreStep, AddDependency, transVars, storeVars, At
<1>1. pc'[x] \notin Disposing
  BY <1>types DEF AddDependency, Goto, Disposing
<1>2. Doomed(c)' \subseteq Doomed(c)
  BY <1>types, <1>0, <1>1, DoomedByOthers
<1>3. /\ Grows(Placed(c)', Placed(c), 0) /\ Grows(Doomed(c)', Doomed(c), 0)
      /\ Grows(Called(c)', Called(c), 0)
  BY <1>0, <1>2, PlacedKept, CalledKept, GrowsNot
<1> DEFINE dtp == versions[key[x]][pos[x]]
<1>4. dtp \in Clients
  <2>1. key[x] \in Keys /\ pos[x] <= Len(versions[key[x]])
    BY <1>0 DEF CommitInvariant, StoreIsLocked, HoldLabels
  <2>2. versions[key[x]] \in Seq(Clients) /\ pos[x] \in Nat \ {0}
    BY <1>types, <2>1
  <2> QED
    BY <2>1, <2>2
<1>5. /\ depends' = [depends EXCEPT ![x] = <<dtp>> \o depends[x]]
      /\ refcnt' = [refcnt EXCEPT ![dtp] = @ + 1]
  BY DEF AddDependency
<1> HIDE DEF dtp
<1>6. /\ depends'[x] = <<dtp>> \o depends[x]
      /\ \A u \in Clients : u # x => depends'[u] = depends[u]
      /\ refcnt'[c] = IF c = dtp THEN refcnt[c] + 1 ELSE refcnt[c]
      /\ refcnt[c] \in Int
  BY <1>types, <1>4, <1>5
<1> DEFINE m == Len(depends[x])
<1>7. /\ m \in Nat /\ Len(depends'[x]) = m + 1
      /\ AtHeight(depends'[x], m) = dtp
      /\ \A h \in 0..(m - 1) : AtHeight(depends'[x], h) = AtHeight(depends[x], h)
  BY <1>types, <1>4, <1>6, PrependedHeights
<1>8. ASSUME NEW y \in Depended(c)'
      PROVE  y \in Depended(c) \/ (c = dtp /\ y = <<x, m>>)
  <2>1. /\ y \in Clients \X Nat /\ y[2] < Len(depends'[y[1]])
        /\ AtHeight(depends'[y[1]], y[2]) = c
        /\ (status[c] = "PENDING" \/ \E t \in Threads : Calls(stack[t], y[1], y[2]))
    BY <1>0 DEF Depended, AtHeight, Calls
  <2>2. y[1] \in Clients /\ y[2] \in Nat
    BY <2>1
  <2>3. CASE y[1] # x
    BY <1>6, <2>1, <2>2, <2>3 DEF Depended
  <2>4. CASE y[1] = x /\ y[2] = m
    BY <1>7, <2>1, <2>4
  <2>5. CASE y[1] = x /\ y[2] # m
    <3>1. y[2] \in 0..(m - 1) /\ y[2] < m
      BY <1>7, <2>1, <2>2, <2>5
    <3> QED
      BY <1>7, <2>1, <2>5, <3>1 DEF Depended
  <2> QED
    BY <2>3, <2>4, <2>5
<1> HIDE DEF m
<1>9. CASE c = dtp
  <2>1. Grows(Depended(c)', Depended(c), 1)
    <3>1. Depended(c)' \subseteq Depended(c) \cup {<<x, m>>}
      BY <1>8
    <3> QED
      BY <3>1, GrowsByOne
  <2>2. Follows(c, 0, 0, 1, 0)
    BY <1>3, <1>6, <1>9, <2>1 DEF Follows
  <2> QED
    BY <1>0, <2>2, StoreBalance
<1>10. CASE c # dtp
  <2>1. Grows(Depended(c)', Depended(c), 0)
    BY <1>8, <1>10, GrowsNot
  <2>2. Follows(c, 0, 0, 0, 0)
    BY <1>3, <1>6, <1>10, <2>1 DEF Follows
  <2> QED
    BY <1>0, <2>2, StoreBalance
<1> QED
  BY <1>9, <1>10

\* trans_abort is called with a reference of its own, for a doomed version's
\* creator or for the transaction of an outdated request.
LEMMA CoveredByStoreAbort ==
    ASSUME CommitInvariant, [Next]_vars, refcnt' \in [Clients -> Int],
           NEW x \in Clients, AbortDoomed(x) \/ PlaceConflict(x), NEW c \in Clients, Covered(c)
    PROVE  Covered(c)'
<1>types. /\ TypeOK /\ pc \in [Threads -> Labels] /\ Clients \subseteq Threads
          /\ refcnt \in [Clients -> Int] /\ walk \in [Clients -> Seq(Clients)]
  BY DEF CommitInvariant, TypeOK, Threads
<1>0. StoreStep(x) /\ UNCHANGED <<status, depends, versions, walk>>
  BY DEF StoreStep, AbortDoomed, PlaceConflict, transVars, storeVars, localVars
<1>1. PICK tp \in Clients, l \in Labels :
         /\ refcnt' = [refcnt EXCEPT ![tp] = @ + 1]
         /\ CallAbort(x, tp, l)
         /\ l \in Disposing => pc[x] \in Disposing
  <2>1. CASE AbortDoomed(x)
    <3>1. Head(walk[x]) \in Clients
      BY <1>types, <2>1, TakingHead DEF AbortDoomed
    <3>2. "dispose" \in Labels
      BY DEF Labels, StoreLabels
    <3> QED
      BY <2>1, <3>1, <3>2 DEF AbortDoomed, At, Disposing
  <2>2. CASE PlaceConflict(x)
    <3>1. "unlock" \in Labels
      BY DEF Labels, StoreLabels
    <3> QED
      BY <2>2, <3>1 DEF PlaceConflict, Disposing
  <2> QED
    BY <2>1, <2>2
<1>2. pc'[x] \in Disposing => pc[x] \in Disposing
  BY <1>types, <1>1 DEF CallAbort, Goto
<1>3. Doomed(c)' \subseteq Doomed(c)
  BY <1>types, <1>0, <1>2, DoomedByOthers
<1>4. \A t \in Threads : stack'[t] = stack[t] \/ \E f \in Frame : stack'[t] = <<f>>
  BY <1>types, <1>0, <1>1, CalledByCall
<1>5. /\ Grows(Placed(c)', Placed(c), 0) /\ Grows(Doomed(c)', Doomed(c), 0)
      /\ Grows(Depended(c)', Depended(c), 0)
  BY <1>0, <1>3, <1>4, PlacedKept, DependedKept, GrowsNot
<1>6. /\ refcnt'[c] = IF c = tp THEN refcnt[c] + 1 ELSE refcnt[c]
      /\ refcnt[c] \in Int
  BY <1>types, <1>1
<1>7. CASE c = tp
  <2>1. Called(c)' \subseteq Called(c) \cup {x}
    BY <1>types, <1>0, <1>1, CalledByCall
  <2>2. Grows(Called(c)', Called(c), 1)
    BY <2>1, GrowsByOne
  <2>3. Follows(c, 0, 0, 0, 1)
    BY <1>5, <1>6, <1>7, <2>2 DEF Follows
  <2> QED
    BY <1>0, <2>3, StoreBalance
<1>8. CASE c # tp
  <2>1. Called(c)' \subseteq Called(c)
    BY <1>types, <1>0, <1>1, <1>8, CalledByCall
  <2>2. Grows(Called(c)', Called(c), 0)
    BY <2>1, GrowsNot
  <2>3. Follows(c, 0, 0, 0, 0)
    BY <1>5, <1>6, <1>8, <2>2 DEF Follows
  <2> QED
    BY <1>0, <2>3, StoreBalance
<1> QED
  BY <1>7, <1>8

\* Disposing of a version drops its reference.
LEMMA CoveredByDisposeDoomed ==
    ASSUME CommitInvariant, [Next]_vars, refcnt' \in [Clients -> Int],
           NEW x \in Clients, DisposeDoomed(x), NEW c \in Clients, Covered(c)
    PROVE  Covered(c)'
<1>types. /\ TypeOK /\ pc \in [Threads -> Labels] /\ Clients \subseteq Threads
          /\ refcnt \in [Clients -> Int] /\ walk \in [Clients -> Seq(Clients)]
  BY DEF CommitInvariant, TypeOK, Threads
<1>0. StoreStep(x) /\ UNCHANGED <<stack, status, depends, versions>> /\ pc[x] = "dispose"
  BY DEF StoreStep, DisposeDoomed, transVars, storeVars, At
<1>1. /\ Grows(Placed(c)', Placed(c), 0)
      /\ Grows(Depended(c)', Depended(c), 0) /\ Grows(Called(c)', Called(c), 0)
  BY <1>0, PlacedKept, DependedKept, CalledKept, GrowsNot
<1>2. walk[x] \in Seq(Clients) /\ walk[x] # <<>>
  BY <1>types, <1>0 DEF CommitInvariant, WalkIsAtElement
<1>3. walk'[x] = Tail(walk[x]) /\ refcnt' = [refcnt EXCEPT ![Head(walk[x])] = @ - 1]
  BY <1>types DEF DisposeDoomed
<1> DEFINE m == Len(walk[x]) - 1
           tp == Head(walk[x])
<1>4. /\ m \in Nat /\ Len(walk[x]) = m + 1 /\ Len(Tail(walk[x])) = m
      /\ tp = AtHeight(walk[x], m) /\ tp \in Clients
      /\ \A h \in 0..(m - 1) : AtHeight(Tail(walk[x]), h) = AtHeight(walk[x], h)
  BY <1>2, TailHeights, TakingHead
<1>5. /\ refcnt'[c] = IF c = tp THEN refcnt[c] - 1 ELSE refcnt[c]
      /\ refcnt[c] \in Int
  BY <1>types, <1>3
<1> HIDE DEF m, tp
<1>6. ASSUME NEW y \in Doomed(c)' PROVE y \in Doomed(c) /\ y # <<x, m>>
  <2>1. /\ y \in Clients \X Nat /\ pc'[y[1]] \in Disposing
        /\ y[2] < Len(walk'[y[1]]) /\ AtHeight(walk'[y[1]], y[2]) = c
    BY DEF Doomed, AtHeight
  <2>2. y[1] \in Clients /\ y[2] \in Nat
    BY <2>1
  <2>3. CASE y[1] = x
    <3>0. y[2] < m /\ AtHeight(Tail(walk[x]), y[2]) = c
      BY <1>3, <1>4, <2>1, <2>3
    <3>1. y[2] \in 0..(m - 1) /\ y[2] < m + 1 /\ y[2] # m
      BY <1>4, <2>2, <3>0
    <3>2. pc[x] \in Disposing
      BY <1>0 DEF Disposing
    <3>3. y[2] < Len(walk[x]) /\ AtHeight(walk[x], y[2]) = c
      BY <1>4, <3>0, <3>1
    <3>4. y \in Doomed(c)
      BY <2>1, <2>3, <3>2, <3>3 DEF Doomed
    <3>5. y # <<x, m>>
      BY <3>1
    <3> QED
      BY <3>4, <3>5
  <2>4. CASE y[1] # x
    <3>1. pc'[y[1]] = pc[y[1]] /\ walk'[y[1]] = walk[y[1]]
      BY <1>types, <1>0, <2>2, <2>4, OthersUnmoved
    <3>2. y # <<x, m>>
      BY <2>4
    <3> QED
      BY <2>1, <3>1, <3>2 DEF Doomed
  <2> QED
    BY <2>3, <2>4
<1>7. CASE c = tp
  <2>1. <<x, m>> \in Doomed(c)
    <3>1. m < Len(walk[x]) /\ AtHeight(walk[x], m) = c /\ pc[x] \in Disposing
      BY <1>0, <1>4, <1>7 DEF Disposing
    <3> QED
      BY <1>4, <3>1 DEF Doomed
  <2>2. Doomed(c)' \subseteq Doomed(c) \ {<<x, m>>}
    BY <1>6
  <2>3. Grows(Doomed(c)', Doomed(c), -1)
    BY <2>1, <2>2, LosesOne
  <2>4. Follows(c, 0, -1, 0, 0)
    BY <1>1, <1>5, <1>7, <2>3 DEF Follows
  <2> QED
    BY <1>0, <2>4, StoreBalance
<1>8. CASE c # tp
  <2>1. Grows(Doomed(c)', Doomed(c), 0)
    BY <1>6, GrowsNot
  <2>2. Follows(c, 0, 0, 0, 0)
    BY <1>1, <1>5, <1>8, <2>1 DEF Follows
  <2> QED
    BY <1>0, <2>2, StoreBalance
<1> QED
  BY <1>7, <1>8

\* A version that is appended references its creator.
LEMMA CoveredByPlaceVersion ==
    ASSUME CommitInvariant, [Next]_vars, refcnt' \in [Clients -> Int],
           NEW x \in Clients, PlaceVersion(x), NEW c \in Clients, Covered(c)
    PROVE  Covered(c)'
<1>types. /\ TypeOK /\ pc \in [Threads -> Labels] /\ Clients \subseteq Threads
          /\ refcnt \in [Clients -> Int] /\ versions \in [Keys -> Seq(Clients)]
  BY DEF CommitInvariant, TypeOK, Threads
<1>0. StoreStep(x) /\ UNCHANGED <<stack, status, depends, walk>> /\ pc[x] = "place"
  BY DEF StoreStep, PlaceVersion, transVars, localVars, At
<1>1. pc'[x] \notin Disposing
  BY <1>types DEF PlaceVersion, Goto, Disposing
<1>2. Doomed(c)' \subseteq Doomed(c)
  BY <1>types, <1>0, <1>1, DoomedByOthers
<1>3. /\ Grows(Doomed(c)', Doomed(c), 0)
      /\ Grows(Depended(c)', Depended(c), 0) /\ Grows(Called(c)', Called(c), 0)
  BY <1>0, <1>2, DependedKept, CalledKept, GrowsNot
<1>ints. refcnt[c] \in Int
  BY <1>types
<1>4. CASE UNCHANGED <<refcnt, versions>>
  <2>1. Grows(Placed(c)', Placed(c), 0)
    BY <1>4, PlacedKept, GrowsNot
  <2>2. Follows(c, 0, 0, 0, 0)
    BY <1>3, <1>4, <1>ints, <2>1 DEF Follows
  <2> QED
    BY <1>0, <2>2, StoreBalance
<1>5. CASE ~UNCHANGED <<refcnt, versions>>
  <2> DEFINE k == key[x]
             vs == versions[k]
             n == Len(vs)
  <2>1. /\ refcnt' = [refcnt EXCEPT ![x] = @ + 1]
        /\ versions' = [versions EXCEPT ![k] = Append(vs, x)]
    BY <1>5 DEF PlaceVersion
  <2>2. k \in Keys
    BY <1>0 DEF CommitInvariant, StoreIsLocked, HoldLabels
  <2>3. vs \in Seq(Clients) /\ vs = versions[k]
    BY <1>types, <2>2
  <2>4. /\ versions'[k] = Append(vs, x)
        /\ \A j \in Keys : j # k => versions'[j] = versions[j]
        /\ refcnt'[c] = IF c = x THEN refcnt[c] + 1 ELSE refcnt[c]
    BY <1>types, <2>1, <2>2
  <2> HIDE DEF k, vs
  <2>5. /\ n \in Nat /\ DOMAIN vs = 1..n /\ DOMAIN Append(vs, x) = 1..(n + 1)
        /\ Append(vs, x)[n + 1] = x
        /\ \A i \in 1..n : Append(vs, x)[i] = vs[i]
    BY <2>3, AppendProperties, LenProperties
  <2> HIDE DEF n
  <2>6. ASSUME NEW y \in Placed(c)'
        PROVE  y \in Placed(c) \/ (c = x /\ y = <<k, n + 1>>)
    <3>1. /\ y \in Keys \X (Nat \ {0}) /\ y[2] \in DOMAIN versions'[y[1]]
          /\ versions'[y[1]][y[2]] = c
      BY DEF Placed
    <3>2. y[1] \in Keys /\ y[2] \in Nat
      BY <3>1
    <3>3. CASE y[1] # k
      BY <2>4, <3>1, <3>2, <3>3 DEF Placed
    <3>4. CASE y[1] = k /\ y[2] = n + 1
      BY <2>4, <2>5, <3>1, <3>4
    <3>5. CASE y[1] = k /\ y[2] # n + 1
      <4>1. y[2] \in 1..n
        BY <2>4, <2>5, <3>1, <3>2, <3>5
      <4> QED
        BY <2>3, <2>4, <2>5, <3>1, <3>5, <4>1 DEF Placed
    <3> QED
      BY <3>3, <3>4, <3>5
  <2>7. CASE c = x
    <3>1. Placed(c)' \subseteq Placed(c) \cup {<<k, n + 1>>}
      BY <2>6
    <3>2. Grows(Placed(c)', Placed(c), 1)
      BY <3>1, GrowsByOne
    <3>3. Follows(c, 1, 0, 0, 0)
      BY <1>3, <1>ints, <2>4, <2>7, <3>2 DEF Follows
    <3> QED
      BY <1>0, <3>3, StoreBalance
  <2>8. CASE c # x
    <3>1. Grows(Placed(c)', Placed(c), 0)
      BY <2>6, <2>8, GrowsNot
    <3>2. Follows(c, 0, 0, 0, 0)
      BY <1>3, <1>ints, <2>4, <2>8, <3>1 DEF Follows
    <3> QED
      BY <1>0, <3>2, StoreBalance
  <2> QED
    BY <2>7, <2>8
<1> QED
  BY <1>4, <1>5

\* trans_commit drops the creator's reference when the transaction is decided.
LEMMA CoveredByCommit ==
    ASSUME CommitInvariant, SemaphoreInvariant, [Next]_vars, refcnt' \in [Clients -> Int],
           NEW x \in Clients, CommitStep(x), NEW c \in Clients, Covered(c)
    PROVE  Covered(c)'
<1>types. /\ TypeOK /\ pc \in [Threads -> Labels] /\ Clients \subseteq Threads
          /\ refcnt \in [Clients -> Int] /\ local \in [Clients -> Status]
  BY DEF CommitInvariant, TypeOK, Threads
<1>0. UNCHANGED <<versions, depends, stack>>
  BY CommitFrame
<1>1. status'[c] = "PENDING" => status[c] = "PENDING"
  BY StaysDecided DEF CommitInvariant, PointersAreKnown
<1>2. pc'[x] \notin Disposing
  BY <1>types, NewLabel DEF CommitLabels, Disposing
<1>3. Doomed(c)' \subseteq Doomed(c)
  BY <1>types, <1>2, DoomedByOthers
<1>4. /\ Grows(Placed(c)', Placed(c), 0) /\ Grows(Doomed(c)', Doomed(c), 0)
      /\ Grows(Depended(c)', Depended(c), 0) /\ Grows(Called(c)', Called(c), 0)
  BY <1>0, <1>1, <1>3, PlacedKept, DependedKept, CalledKept, GrowsNot
<1>5. c # x => OwnReference(c)' <= OwnReference(c)
  BY OwnOfOthers
<1>own. OwnReference(c) \in {0, 1} /\ OwnReference(c)' \in {0, 1}
  BY OwnIsOneOrNone
<1>ints. refcnt[c] \in Int /\ refcnt'[c] \in Int
  BY <1>types
<1>6. ASSUME refcnt'[c] >= refcnt[c] + OwnReference(c)' - OwnReference(c)
      PROVE  Covered(c)'
  <2>1. Balanced(c, 0, 0, 0, 0)
    BY <1>4, <1>6, <1>own, <1>ints DEF Balanced
  <2> QED
    BY <1>ints, <2>1, CoveredStep
<1>7. CASE CommitFinish(x)
  <2>1. /\ pc[x] = "finish" /\ pc'[x] = "return" /\ status'[x] = status[x]
        /\ refcnt' = [refcnt EXCEPT ![x] = @ - 1]
    BY <1>types, <1>7 DEF CommitFinish, ReleaseAndPost, At, Goto
  <2>2. CASE c # x
    <3>1. refcnt'[c] = refcnt[c]
      BY <1>types, <2>1, <2>2
    <3> QED
      BY <1>5, <1>6, <1>own, <1>ints, <2>2, <3>1
  <2>3. CASE c = x
    <3>1. refcnt'[c] = refcnt[c] - 1
      BY <1>types, <2>1, <2>3
    <3>2. status[x] # "PENDING"
      BY <2>1 DEF SemaphoreInvariant, DecidedAtFinish
    <3>3. OwnReference(x) = 1
      BY <2>1 DEF OwnReference, Owning, Inside
    <3>4. OwnReference(x)' = 0
      BY <2>1, <3>2 DEF OwnReference, Owning, StoreLabels, Inside
    <3> QED
      BY <1>6, <1>own, <1>ints, <2>3, <3>1, <3>3, <3>4
  <2> QED
    BY <2>2, <2>3
<1>8. CASE ~CommitFinish(x)
  <2>1. UNCHANGED refcnt
    BY <1>8 DEF CommitStep, CommitAcquire, CommitWalkEnd, CommitCheck, CommitRecheck,
       CommitEnlist, CommitWait, CommitWaitP, CommitWaitV, CommitOutcome, CommitDecide,
       CommitReturn, transVars
  <2>2. CASE CommitReturn(x)
    <3>1. /\ pc[x] = "return" /\ pc'[x] = "reply" /\ local'[x] = status[x]
          /\ status'[x] = status[x]
      BY <1>types, <2>2 DEF CommitReturn, At, Goto, transVars
    <3>2. OwnReference(x)' = OwnReference(x)
      BY <3>1 DEF OwnReference, Owning, StoreLabels, Inside
    <3> QED
      BY <1>5, <1>6, <1>own, <1>ints, <2>1, <3>2
  <2>3. CASE ~CommitReturn(x)
    <3>1. pc[x] \in Inside \cup {"commit"}
      BY <1>8, <2>3 DEF CommitStep, CommitAcquire, CommitWalkEnd, CommitCheck, CommitRecheck,
         CommitEnlist, CommitWait, CommitWaitP, CommitWaitV, CommitOutcome, CommitDecide,
         At, Inside
    <3>2. OwnReference(x) = 1
      BY <3>1 DEF OwnReference, Owning
    <3> QED
      BY <1>5, <1>6, <1>own, <1>ints, <2>1, <3>2
  <2> QED
    BY <2>2, <2>3
<1> QED
  BY <1>7, <1>8

\* trans_abort drops the reference it was called with.
LEMMA CoveredByAbort ==
    ASSUME CommitInvariant, SemaphoreInvariant, WalkInvariant, [Next]_vars,
           refcnt' \in [Clients -> Int], \A d \in Clients : OneWalk(d),
           NEW t \in Threads, AbortStep(t), NEW c \in Clients, Covered(c)
    PROVE  Covered(c)'
<1>types. TypeOK /\ refcnt \in [Clients -> Int]
  BY DEF CommitInvariant, TypeOK
<1>0. UNCHANGED <<versions, walk, pc, local>>
  BY AbortFrame
<1>1. status'[c] = "PENDING" => status[c] = "PENDING"
  BY StaysDecided DEF CommitInvariant, PointersAreKnown
<1>2. Grows(Placed(c)', Placed(c), 0) /\ Grows(Doomed(c)', Doomed(c), 0)
  BY <1>0, PlacedKept, DoomedKept, GrowsNot
<1>3. Depended(c)' \subseteq Depended(c) /\ Called(c)' \subseteq Called(c)
  BY AbortKeeps
<1>own. OwnReference(c) \in {0, 1} /\ OwnReference(c)' \in {0, 1}
  BY OwnIsOneOrNone
<1>4. OwnReference(c)' - OwnReference(c) <= 0
  <2>1. OwnReference(c)' = 1 => OwnReference(c) = 1
    BY <1>0, <1>1 DEF OwnReference
  <2> QED
    BY <1>own, <2>1
<1>ints. refcnt[c] \in Int /\ refcnt'[c] \in Int
  BY <1>types
<1>5. ASSUME NEW d \in {0, -1}, NEW a \in {0, -1},
             Grows(Depended(c)', Depended(c), d), Grows(Called(c)', Called(c), a),
             refcnt'[c] >= refcnt[c] + d + a
      PROVE  Covered(c)'
  <2>1. Balanced(c, 0, 0, d, a)
    BY <1>2, <1>4, <1>5, <1>own, <1>ints DEF Balanced
  <2>2. d \in Int /\ a \in Int
    OBVIOUS
  <2> QED
    BY <1>ints, <2>1, <2>2, CoveredStep
<1>6. CASE Finishes(t) /\ c = Top(t).tp
  <2>1. refcnt'[c] = refcnt[c] - 1
    BY <1>types, <1>6 DEF Finishes, AbortFinish, ReleaseAndPost
  <2>2. CASE t \in Called(c) /\ t \notin Called(c)'
    <3>1. Called(c)' \subseteq Called(c) \ {t}
      BY <1>3, <2>2
    <3>2. Grows(Called(c)', Called(c), -1) /\ Grows(Depended(c)', Depended(c), 0)
      BY <1>3, <2>2, <3>1, LosesOne, GrowsNot
    <3>3. refcnt'[c] >= refcnt[c] + 0 + (-1)
      BY <1>ints, <2>1
    <3> QED
      BY <1>5, <3>2, <3>3
  <2>3. ASSUME NEW y \in Depended(c), y \notin Depended(c)'
        PROVE  Covered(c)'
    <3>1. Depended(c)' \subseteq Depended(c) \ {y}
      BY <1>3, <2>3
    <3>2. Grows(Depended(c)', Depended(c), -1) /\ Grows(Called(c)', Called(c), 0)
      BY <1>3, <3>1, LosesOne, GrowsNot
    <3>3. refcnt'[c] >= refcnt[c] + (-1) + 0
      BY <1>ints, <2>1
    <3> QED
      BY <1>5, <3>2, <3>3
  <2> QED
    BY <1>6, <2>2, <2>3, FinishReleases
<1>7. CASE ~(Finishes(t) /\ c = Top(t).tp)
  <2>1. refcnt'[c] = refcnt[c]
    BY <1>types, <1>7, AbortStacks DEF Finishes, AbortFinish, ReleaseAndPost, Dies, Looks,
       Starts, Skips, Acquires, Descends
  <2>2. Grows(Depended(c)', Depended(c), 0) /\ Grows(Called(c)', Called(c), 0)
    BY <1>3, GrowsNot
  <2>3. refcnt'[c] >= refcnt[c] + 0 + 0
    BY <1>ints, <2>1
  <2> QED
    BY <1>5, <2>2, <2>3
<1> QED
  BY <1>6, <1>7

\* Every step up to the shutdown leaves a covered transaction covered.
LEMMA CoveredByAll ==
    ASSUME CommitInvariant, SemaphoreInvariant, WalkInvariant, [Next]_vars,
           pc'[Main] \in {"accept", "empty", "emptyHeld"}, \A d \in Clients : OneWalk(d),
           NEW c \in Clients, Covered(c)
    PROVE  Covered(c)'
<1>types. /\ TypeOK /\ pc \in [Threads -> Labels] /\ Main \in Threads
          /\ refcnt \in [Clients -> Int] /\ stack \in [Threads -> Seq(Frame)]
  BY DEF CommitInvariant, TypeOK, Threads
<1>1. refcnt' \in [Clients -> Int]
  BY TypeStep DEF CommitInvariant, TypeOK
<1>2. ASSUME NEW x \in Clients, StoreStep(x) PROVE Covered(c)'
  BY <1>1, <1>2, CoveredByQuietStore, CoveredByExamineAborted, CoveredByExamineCommitted,
     CoveredByAddDependency, CoveredByStoreAbort, CoveredByDisposeDoomed, CoveredByPlaceVersion
     DEF StoreStep
<1>3. ASSUME NEW x \in Clients, CreateStep(x) \/ LoopStep(x) \/ CommitStep(x) PROVE Covered(c)'
  BY <1>1, <1>3, CoveredByCreate, CoveredByLoop, CoveredByCommit
<1>4. ASSUME NEW t \in Threads, AbortStep(t) PROVE Covered(c)'
  BY <1>1, <1>4, CoveredByAbort
<1>5. ASSUME UNCHANGED <<transVars, versions, walk, local, stack>>,
             \A u \in Clients : pc'[u] = pc[u]
      PROVE  Covered(c)'
  <2>1. Placed(c)' = Placed(c)
    BY <1>5 DEF Placed
  <2>2. Doomed(c)' = Doomed(c)
    BY <1>5 DEF Doomed, AtHeight
  <2>3. Depended(c)' = Depended(c)
    BY <1>5 DEF Depended, AtHeight, Calls, transVars
  <2>4. Called(c)' = Called(c)
    BY <1>5 DEF Called, Outermost, transVars
  <2>5. OwnReference(c)' = OwnReference(c) /\ refcnt'[c] = refcnt[c]
    BY <1>5 DEF OwnReference, transVars
  <2> QED
    BY <2>1, <2>2, <2>3, <2>4, <2>5 DEF Covered, Covers
<1>6. CASE TerminateStep
  <2>1. ~FiniAbort
    BY <1>types DEF FiniAbort, CallAbort, Goto, At
  <2>2. UNCHANGED <<transVars, versions, walk, local, stack>>
    BY <1>6, <2>1 DEF TerminateStep, Sighup, WaitForEmpty, WaitAgain, WaitEnds, UseFreedRegistry,
       FiniNext, FiniEnd, FiniStore, storeVars, localVars
  <2>3. \A u \in Clients : pc'[u] = pc[u]
    BY <1>types, <1>6, TerminateFrame
  <2> QED
    BY <1>5, <2>2, <2>3
<1>7. CASE UNCHANGED <<transVars, listVars, storeVars, pc, stack, localVars>>
  BY <1>5, <1>7 DEF storeVars, localVars
<1> QED
  BY <1>2, <1>3, <1>4, <1>6, <1>7, NextCases

-------------------------------------------------------------------------------
(* Until the shutdown, as long as the walks are exclusive, every reference *)
(* is counted.                                                             *)

\* While main accepts or waits, exclusive walks keep every transaction covered.
ReferencesCounted ==
    pc[Main] \in {"accept", "empty", "emptyHeld"} /\ (\A c \in Clients : OneWalk(c)) =>
        \A c \in Clients : Covered(c)

\* The conjunction that every step preserves, given the invariants above.
CountInvariant == WalkInvariant /\ ReferencesCounted

\* Walks that are exclusive after a step were so before it.
LEMMA WalksBefore ==
    ASSUME CommitInvariant, SemaphoreInvariant, WalkInvariant, [Next]_vars,
           NEW c \in Clients, OneWalk(c)'
    PROVE  OneWalk(c)
<1>types. /\ depends \in [Clients -> Seq(Clients)] /\ sem \in [Clients -> Nat] /\ TypeOK
  BY DEF CommitInvariant, TypeOK
<1>1. sem[c] \in Nat /\ sem'[c] \in Nat
  BY <1>types, TypeStep DEF CommitInvariant, TypeOK
<1>2. PICK t \in Threads : Moves(t, c)
  BY SomeoneMoves
<1>3. ASSUME depends[c] # <<>> PROVE depends'[c] # <<>>
  <2>1. c \in Known
    BY <1>3 DEF WalkInvariant, UnknownDependsOnNothing
  <2>2. Len(depends[c]) <= Len(depends'[c])
    BY <2>1, HeightsKept
  <2>3. Len(depends[c]) \in Nat /\ Len(depends[c]) > 0
    BY <1>types, <1>3, EmptySeq
  <2>4. Len(<<>>) = 0
    OBVIOUS
  <2> QED
    BY <2>2, <2>3, <2>4
<1> QED
  BY <1>1, <1>2, <1>3, WalkBefore

\* The main thread that accepts or waits has done so all along.
LEMMA MainBefore ==
    ASSUME TypeOK, [Next]_vars, pc'[Main] \in {"accept", "empty", "emptyHeld"}
    PROVE  pc[Main] \in {"accept", "empty", "emptyHeld"}
<1>types. pc \in [Threads -> Labels] /\ Main \in Threads /\ Main \notin Clients
  BY ClientsAssumption DEF TypeOK, Threads
<1>1. ASSUME NEW x \in Clients, CreateStep(x) PROVE pc'[Main] = pc[Main]
  BY <1>types, <1>1 DEF CreateStep, Accept, Register, Create, Link, LinkTail, LoadId, StoreId, Goto
<1>2. ASSUME NEW x \in Clients, LoopStep(x) PROVE pc'[Main] = pc[Main]
  BY <1>types, <1>2 DEF LoopStep, RecvRequest, RecvPartialRequest, RecvOther, RecvCommit,
     RecvFails, Reply, Unregister, UnregisterHungUp, CallAbort, Goto
<1>3. ASSUME NEW x \in Clients, StoreStep(x) PROVE pc'[Main] = pc[Main]
  BY <1>types, <1>3 DEF StoreStep, LockMap, ExamineAborted, ExamineCommitted, ExaminePending,
     AddDependency, ExamineEnd, AbortDoomed, DisposeDoomed, DoomedEnd, PlaceConflict,
     PlaceVersion, UnlockMap, StoreResult, CallAbort, Goto
<1>4. ASSUME NEW x \in Clients, CommitStep(x) PROVE pc'[Main] = pc[Main]
  BY <1>types, <1>4 DEF CommitStep, CommitAcquire, CommitWalkEnd, CommitCheck, CommitRecheck,
     CommitEnlist, CommitWait, CommitWaitP, CommitWaitV, CommitOutcome, CommitDecide,
     CommitFinish, CommitReturn, Goto
<1>5. ASSUME NEW t \in Threads, AbortStep(t) PROVE pc'[Main] = pc[Main]
  BY <1>5, AbortFrame
<1>6. CASE TerminateStep
  BY <1>types, <1>6 DEF TerminateStep, Sighup, WaitForEmpty, WaitAgain, WaitEnds,
     UseFreedRegistry, FiniAbort, FiniNext, FiniEnd, FiniStore, CallAbort, Goto, At
<1> QED
  BY <1>1, <1>2, <1>3, <1>4, <1>5, <1>6, NextCases

\* Initially there is nothing to count.
LEMMA InitCount == Init => CountInvariant
<1> SUFFICES ASSUME Init PROVE CountInvariant
  OBVIOUS
<1>1. /\ \A c \in Clients : /\ pc[c] = "start" /\ depends[c] = <<>> /\ walk[c] = <<>>
                            /\ refcnt[c] = 0
      /\ \A t \in Threads : stack[t] = <<>>
      /\ \A k \in Keys : versions[k] = <<>>
  BY ClientsAssumption DEF Init, Threads
<1>2. DOMAIN <<>> = {}
  OBVIOUS
<1>3. UnknownDependsOnNothing /\ CommitWalksDependencies /\ StacksNested
  BY <1>1, <1>2 DEF UnknownDependsOnNothing, CommitWalksDependencies, StacksNested, Nested, Inside
<1>4. ASSUME NEW c \in Clients PROVE IsFiniteSet(Holders(c))
  <2>1. Holders(c) = {}
    BY <1>1, <1>2 DEF Holders
  <2> QED
    BY <2>1, FS_EmptySet
<1>5. ASSUME NEW c \in Clients PROVE Covered(c)
  <2>1. Placed(c) = {}
    BY <1>1, <1>2 DEF Placed
  <2>2. Doomed(c) = {}
    BY <1>1 DEF Doomed, Disposing
  <2>3. Depended(c) = {}
    <3> SUFFICES ASSUME NEW y \in Depended(c) PROVE FALSE
      OBVIOUS
    <3>1. y[1] \in Clients /\ y[2] \in Nat /\ y[2] < Len(depends[y[1]])
      BY DEF Depended
    <3>2. Len(depends[y[1]]) = 0
      BY <1>1, <3>1
    <3> QED
      BY <3>1, <3>2
  <2>4. Called(c) = {}
    BY <1>1 DEF Called
  <2>5. OwnReference(c) = 0
    BY <1>1 DEF OwnReference, Owning, StoreLabels, Inside
  <2> QED
    BY <1>1, <2>1, <2>2, <2>3, <2>4, <2>5, FS_EmptySet DEF Covered, Covers
<1> QED
  BY <1>3, <1>4, <1>5 DEF CountInvariant, WalkInvariant, FiniteHolders, ReferencesCounted

\* Every step keeps the count.
LEMMA StepCount ==
    CommitInvariant /\ SemaphoreInvariant /\ CountInvariant /\ [Next]_vars => CountInvariant'
<1> SUFFICES ASSUME CommitInvariant, SemaphoreInvariant, CountInvariant, [Next]_vars
             PROVE  CountInvariant'
  OBVIOUS
<1>1. WalkInvariant /\ TypeOK
  BY DEF CountInvariant, CommitInvariant
<1>2. WalkInvariant'
  BY <1>1, UnknownDependsOnNothingStep, CommitWalksDependenciesStep, FiniteHoldersStep,
     StacksNestedStep DEF WalkInvariant
<1>3. ReferencesCounted'
  <2> SUFFICES ASSUME pc'[Main] \in {"accept", "empty", "emptyHeld"}, \A d \in Clients : OneWalk(d)',
                      NEW c \in Clients
               PROVE  Covered(c)'
    BY DEF ReferencesCounted
  <2>1. \A d \in Clients : OneWalk(d)
    BY <1>1, WalksBefore
  <2>2. pc[Main] \in {"accept", "empty", "emptyHeld"}
    BY <1>1, MainBefore
  <2>3. Covered(c)
    BY <2>1, <2>2 DEF CountInvariant, ReferencesCounted
  <2> QED
    BY <1>1, <2>1, <2>3, CoveredByAll
<1> QED
  BY <1>2, <1>3 DEF CountInvariant

\* Until the shutdown, and as long as no two calls of trans_abort walk over the
\* same dependencies, a transaction's count covers all who will drop a reference
\* to it: its versions, those being disposed of, the dependency sets it is in,
\* the calls of trans_abort for it and its own thread.
THEOREM EveryReferenceIsCounted == Spec => []ReferencesCounted
<1>1. Spec => []SemaphoreInvariant
  BY InitSemaphore, StepSemaphore, InvariantHolds, PTL DEF Spec
<1>2. Spec => []CountInvariant
  BY <1>1, InitCount, StepCount, InvariantHolds, PTL DEF Spec
<1>3. CountInvariant => ReferencesCounted
  BY DEF CountInvariant
<1> QED
  BY <1>2, <1>3, PTL

\* Under the same conditions every version in the store is covered by a reference
\* to its creator: neither a commit, nor the cascade of an abort, nor the garbage
\* collection drops one too many.
THEOREM ReferencesCover == Spec => []ReferencesCoverVersions
<1>1. CommitInvariant /\ CountInvariant => ReferencesCoverVersions
  <2> SUFFICES ASSUME CommitInvariant, CountInvariant, pc[Main] \in {"accept", "empty", "emptyHeld"},
                      OneWalkAtATime, NEW c \in Clients
               PROVE  refcnt[c] >= Cardinality({k \in Keys : c \in Range(versions[k])})
    BY DEF ReferencesCoverVersions
  <2>1. \A d \in Clients : OneWalk(d)
    BY CountedWalks DEF CommitInvariant, TypeOK, CountInvariant, WalkInvariant
  <2>2. Covered(c)
    BY <2>1 DEF CountInvariant, ReferencesCounted
  <2> DEFINE K == {k \in Keys : c \in Range(versions[k])}
             P == Placed(c)
             f == [k \in K |-> <<k, CHOOSE j \in DOMAIN versions[k] : versions[k][j] = c>>]
  <2>3. ASSUME NEW k \in K PROVE f[k] \in P /\ f[k][1] = k
    <3>1. \E j \in DOMAIN versions[k] : versions[k][j] = c
      BY DEF Range
    <3>2. PICK j \in DOMAIN versions[k] : f[k] = <<k, j>> /\ versions[k][j] = c
      BY <3>1
    <3>3. j \in Nat \ {0}
      <4>1. versions[k] \in Seq(Clients)
        BY DEF CommitInvariant, TypeOK
      <4>2. DOMAIN versions[k] = 1..Len(versions[k]) /\ Len(versions[k]) \in Nat
        BY <4>1, LenProperties
      <4> QED
        BY <4>2
    <3> QED
      BY <3>2, <3>3 DEF Placed
  <2>4. f \in [K -> P] /\ \A k, l \in K : f[k] = f[l] => k = l
    <3> HIDE DEF K, P
    <3>1. f \in [K -> P]
      BY <2>3
    <3> HIDE DEF f
    <3> QED
      BY <2>3, <3>1
  <2>5. IsFiniteSet(P) /\ Cardinality(P) \in Nat
    BY <2>2, FS_CardinalityType DEF Covered, Covers
  <2>6. IsFiniteSet(K) /\ Cardinality(K) <= Cardinality(P)
    <3> HIDE DEF K, P, f
    <3> QED
      BY <2>4, <2>5, Injects
  <2>7. refcnt[c] >= Cardinality(P)
    <3>1. refcnt[c] \in Int /\ OwnReference(c) \in {0, 1}
      BY OwnIsOneOrNone DEF CommitInvariant, TypeOK
    <3>2. /\ Cardinality(Doomed(c)) \in Nat /\ Cardinality(Depended(c)) \in Nat
          /\ Cardinality(Called(c)) \in Nat
      BY <2>2, FS_CardinalityType DEF Covered, Covers
    <3> QED
      BY <2>2, <2>5, <3>1, <3>2 DEF Covered, Covers
  <2>8. Cardinality(K) \in Nat /\ refcnt[c] \in Int
    BY <2>6, FS_CardinalityType DEF CommitInvariant, TypeOK
  <2> QED
    BY <2>5, <2>6, <2>7, <2>8
<1>2. Spec => []SemaphoreInvariant
  BY InitSemaphore, StepSemaphore, InvariantHolds, PTL DEF Spec
<1>3. Spec => []CountInvariant
  BY <1>2, InitCount, StepCount, InvariantHolds, PTL DEF Spec
<1> QED
  BY <1>1, <1>3, InvariantHolds, PTL
===============================================================================
