--------------------------- MODULE ImprimerProofs ---------------------------
(* Proofs about the jobs, printers and processes of the spooler, for every *)
(* number of printers and jobs, whatever the printers' names and types and *)
(* the conversions between types.                                          *)
EXTENDS Imprimer, NaturalLemmas, SequenceTheorems

Job == [id : 0..MaxJobs, type : FileTypes, set : SUBSET Printers, status : Status,
        chosen : Printers \cup {NoPrinter}, pgid : Nat]

Process == [printer : Printers,
            life : {"starting", "running", "stopped", "success", "failure", "killed"},
            note : {"none", "stopped", "continued"}, term : BOOLEAN]

\* The states of the tables.
TablesSet == [on : SUBSET Printers, jobs : Seq(Job), busy : SUBSET Printers,
              procs : UNION {[D -> Process] : D \in SUBSET Nat}, forks : Nat]

Places == [pc : {"prompt", "scan", "choose", "check", "mark", "busy", "fork", "exited"},
           job : Int, printer : Printers \cup {NoPrinter}, batch : BOOLEAN]

-----------------------------------------------------------------------------
(* The inductive invariant.  What it says of the tables is stated for a    *)
(* record s of them, so that it can be followed through runJobs.           *)

\* Process groups have been forked.
PidsAreForked(s) ==
    /\ \A k \in DOMAIN s.jobs : s.jobs[k].pgid <= s.forks
    /\ \A c \in DOMAIN s.procs : c \in 1..s.forks

\* The first printer of a name is found by its name.
PrintersOwnTheirName(s) == \A p \in s.on : getPrinter(p) = p

PgidsDiffer(s) ==
    \A j, k \in DOMAIN s.jobs : s.jobs[j].pgid = s.jobs[k].pgid /\ s.jobs[j].pgid # 0 => j = k

\* Identifiers grow along the list.
IdsIncrease(s) ==
    \A j, k \in DOMAIN s.jobs : j < k => s.jobs[j].id < s.jobs[k].id

MayPrint(job, p) ==
    /\ p \in job.set
    /\ PrinterType[p] = job.type \/ <<job.type, PrinterType[p]>> \in Conversions

\* Every process has a printer that its job may use.
PrintersAreSuitable(s) ==
    \A c \in DOMAIN s.procs :
        /\ getPrinter(s.procs[c].printer) = s.procs[c].printer
        /\ \A k \in DOMAIN s.jobs : s.jobs[k].pgid = c => MayPrint(s.jobs[k], s.procs[c].printer)

\* Nothing can be done for a job that waits: no printer, or a busy one.
Waits(s, k) ==
    s.jobs[k].status = "QUEUED" =>
        LET p == getEligiblePrinter(s.on, s.jobs[k], s.busy)
        IN  p = NoPrinter \/ getPrinter(p) \in s.busy

\* Processes, their jobs and their printers belong together.
Tracked(s) ==
    /\ \A c \in DOMAIN s.procs :
          /\ \E k \in DOMAIN s.jobs :
                /\ s.jobs[k].pgid = c
                /\ s.jobs[k].status \in {"RUNNING", "PAUSED"}
                /\ s.jobs[k].chosen = s.procs[c].printer
          /\ s.procs[c].printer \in s.busy
          /\ \A d \in DOMAIN s.procs : s.procs[d].printer = s.procs[c].printer => d = c
    /\ \A k \in DOMAIN s.jobs : s.jobs[k].status = "QUEUED" => s.jobs[k].pgid = 0

\* Busy printers other than those in hand have a process.
BusyHaveProcess(s, inHand) ==
    \A p \in s.busy \ inHand : \E c \in DOMAIN s.procs : s.procs[c].printer = p

WellFormed(s) ==
    /\ s \in TablesSet
    /\ PidsAreForked(s) /\ PrintersOwnTheirName(s)
    /\ PgidsDiffer(s) /\ IdsIncrease(s) /\ PrintersAreSuitable(s)

\* The printer that runJob has marked busy and not forked for.
InHand == IF main.pc = "fork" THEN {main.printer} ELSE {}

CountersOK ==
    /\ printed \in 0..MaxJobs /\ Len(jobs) <= printed
    /\ \A k \in DOMAIN jobs : jobs[k].id < printed
    /\ {sigchld, crashed, raced} \subseteq BOOLEAN

\* main holds a position of the list and, once it has chosen, a printer that
\* the job may use.
MainOK ==
    /\ main \in Places
    /\ main.pc = "scan" => main.job \in 1..(Len(jobs) + 1)
    /\ main.pc \in {"prompt", "exited"} => main.job = 0
    /\ main.pc \in {"choose", "check", "mark", "busy", "fork"} =>
          main.job # 0 /\ Pos \in DOMAIN jobs
    /\ main.pc \in {"check", "mark", "busy", "fork"} =>
          /\ main.printer \in Printers
          /\ getPrinter(main.printer) = main.printer
          /\ MayPrint(jobs[Pos], main.printer)

\* How far runJobs has come in the list.
Scanned ==
    IF main.pc = "prompt" /\ ~main.batch THEN Len(jobs)
    ELSE IF main.job > 0 THEN main.job - 1
    ELSE 0

\* Nothing can be done for the jobs that runJobs has passed, whatever the
\* handler has done since.  The printer that main has chosen for the job in
\* hand is the one to choose unless the handler has run runJobs since.
NoWorkLeft ==
    /\ \A k \in 1..Scanned : Waits(Tables, k)
    /\ main.pc \in {"busy", "fork"} => jobs[Pos].status # "QUEUED"
    /\ main.pc = "check" /\ jobs[Pos].status = "QUEUED" =>
          \/ Waits(Tables, Pos)
          \/ main.printer = getEligiblePrinter(enabled, jobs[Pos], busy)

\* Without a race the job in hand is main's alone.
JobInHand ==
    /\ main.pc \in {"choose", "check", "mark"} => jobs[Pos].status = "QUEUED"
    /\ main.pc \in {"busy", "fork"} =>
          /\ jobs[Pos].status = "RUNNING" /\ jobs[Pos].pgid = 0
          /\ jobs[Pos].chosen = main.printer
    /\ main.pc \in {"mark", "busy"} => main.printer \notin busy
    /\ main.pc = "fork" =>
          /\ main.printer \in busy
          /\ \A c \in DOMAIN procs : procs[c].printer # main.printer

Consistent ==
    ~raced => ~crashed /\ Tracked(Tables) /\ BusyHaveProcess(Tables, InHand) /\ JobInHand

SpoolerInvariant ==
    WellFormed(Tables) /\ CountersOK /\ MainOK /\ NoWorkLeft /\ Consistent

-----------------------------------------------------------------------------
(* Choosing a printer.                                                     *)

\* Printers are positions of printerArray.
LEMMA PrintersArePositions == Printers \subseteq Nat /\ NoPrinter \notin Printers
  BY ImprimerAssumption DEF Printers, NoPrinter

\* getPrinter finds a printer, and finding it again gives the same one.
LEMMA PrinterFound ==
    ASSUME NEW p \in Printers
    PROVE  getPrinter(p) \in Printers /\ getPrinter(getPrinter(p)) = getPrinter(p)
<1> DEFINE Q == {q \in Printers : PrinterName[q] = PrinterName[p]}
<1>1. Q \subseteq Nat /\ Q # {}
  BY PrintersArePositions
<1>2. Min(Q) \in Q
  BY <1>1, MinIsLeast, Zenon
<1>3. {q \in Printers : PrinterName[q] = PrinterName[Min(Q)]} = Q
  BY <1>2
<1> QED
  BY <1>2, <1>3 DEF getPrinter

\* What getEligiblePrinter returns may print the job.
LEMMA EligibleMayPrint ==
    ASSUME NEW on \in SUBSET Printers, NEW job \in Job, NEW taken,
           getEligiblePrinter(on, job, taken) # NoPrinter
    PROVE  /\ getEligiblePrinter(on, job, taken) \in on
           /\ MayPrint(job, getEligiblePrinter(on, job, taken))
<1> DEFINE may == on \cap job.set
           same == {p \in may : PrinterType[p] = job.type}
           path == {p \in may : <<job.type, PrinterType[p]>> \in Conversions}
           e == getEligiblePrinter(on, job, taken)
<1>1. same \subseteq Nat /\ path \subseteq Nat /\ same \ taken \subseteq Nat
  BY PrintersArePositions
<1>2. CASE same \ taken # {}
  <2>1. e = Min(same \ taken)
    BY <1>2 DEF getEligiblePrinter
  <2>2. e \in same
    <3> HIDE DEF same, e
    <3>1. Min(same \ taken) \in same \ taken
      BY <1>1, <1>2, MinIsLeast
    <3> QED
      BY <2>1, <3>1
  <2> QED
    BY <2>2 DEF MayPrint
<1>3. CASE same \ taken = {} /\ path # {}
  <2>1. e = Min(path)
    BY <1>3 DEF getEligiblePrinter
  <2>2. e \in path
    BY <1>1, <1>3, <2>1, MinIsLeast, Zenon
  <2> QED
    BY <2>2 DEF MayPrint
<1>4. CASE same \ taken = {} /\ path = {} /\ same # {}
  <2>1. e = Min(same)
    BY <1>4 DEF getEligiblePrinter
  <2>2. e \in same
    BY <1>1, <1>4, <2>1, MinIsLeast
  <2> QED
    BY <2>2 DEF MayPrint
<1>5. CASE same = {} /\ path = {}
  BY <1>5 DEF getEligiblePrinter
<1> QED
  BY <1>2, <1>3, <1>4, <1>5

\* A job that has to wait still has to when more printers are busy.
LEMMA WaitingIsMonotone ==
    ASSUME NEW s \in TablesSet, NEW t \in TablesSet, PrintersOwnTheirName(s),
           NEW k \in DOMAIN s.jobs, k \in DOMAIN t.jobs, Waits(s, k),
           t.jobs[k] = s.jobs[k] \/ t.jobs[k].status # "QUEUED",
           t.on = s.on, s.busy \subseteq t.busy
    PROVE  Waits(t, k)
<1> SUFFICES ASSUME t.jobs[k].status = "QUEUED", t.jobs[k] = s.jobs[k]
             PROVE  Waits(t, k)
  BY DEF Waits
<1> DEFINE job == s.jobs[k]
           may == s.on \cap job.set
           same == {p \in may : PrinterType[p] = job.type}
           path == {p \in may : <<job.type, PrinterType[p]>> \in Conversions}
           e(taken) == getEligiblePrinter(s.on, job, taken)
<1>job. job \in Job /\ s.on \in SUBSET Printers
  BY DEF TablesSet
<1>1. same \subseteq Nat /\ path \subseteq Nat /\ same \ s.busy \subseteq Nat
  BY <1>job, PrintersArePositions
<1>2. e(s.busy) = NoPrinter \/ e(s.busy) \in s.busy
  <2>1. e(s.busy) = NoPrinter \/ getPrinter(e(s.busy)) \in s.busy
    BY DEF Waits
  <2>2. e(s.busy) = NoPrinter \/ getPrinter(e(s.busy)) = e(s.busy)
    BY <1>job, EligibleMayPrint, Zenon DEF PrintersOwnTheirName
  <2> QED
    BY <2>1, <2>2
<1>3. same \ s.busy = {}
  <2> SUFFICES ASSUME same \ s.busy # {} PROVE FALSE
    OBVIOUS
  <2>1. e(s.busy) = Min(same \ s.busy)
    BY DEF getEligiblePrinter
  <2>2. e(s.busy) \in same \ s.busy
    BY <1>1, <2>1, MinIsLeast
  <2>3. NoPrinter \notin same
    BY <1>job, PrintersArePositions
  <2> QED
    BY <1>2, <2>2, <2>3
<1>4. same \ t.busy = {}
  BY <1>3
<1>5. e(t.busy) = e(s.busy)
  BY <1>3, <1>4 DEF getEligiblePrinter
<1>6. e(t.busy) = NoPrinter \/ (getPrinter(e(t.busy)) = e(t.busy) /\ e(t.busy) \in t.busy)
  <2>1. e(t.busy) = NoPrinter \/ getPrinter(e(t.busy)) = e(t.busy)
    BY <1>job, EligibleMayPrint, Zenon DEF PrintersOwnTheirName
  <2> QED
    BY <1>2, <1>5, <2>1
<1> QED
  BY <1>6 DEF Waits

-----------------------------------------------------------------------------
(* runJobs.                                                                *)

\* What the passes of runJobs leave alone: a job changes only from QUEUED to
\* RUNNING, no printer is freed, and new processes have new printers.
Kept(s, t) ==
    /\ t.on = s.on /\ Len(t.jobs) = Len(s.jobs) /\ s.busy \subseteq t.busy
    /\ \A k \in DOMAIN s.jobs :
          /\ t.jobs[k].id = s.jobs[k].id
          /\ t.jobs[k].type = s.jobs[k].type
          /\ t.jobs[k].set = s.jobs[k].set
          /\ \/ t.jobs[k] = s.jobs[k]
             \/ s.jobs[k].status = "QUEUED" /\ t.jobs[k].status = "RUNNING"
    /\ \A c \in DOMAIN t.procs :
          \/ c \in DOMAIN s.procs /\ t.procs[c].printer = s.procs[c].printer
          \/ t.procs[c].printer \notin s.busy

\* What runJob does, field by field.
LEMMA RunJobFields ==
    ASSUME NEW s \in TablesSet, NEW k \in DOMAIN s.jobs, NEW p \in Printers, PidsAreForked(s),
           NEW t, t = runJob(s, k, p), NEW c, c = s.forks + 1
    PROVE  /\ t \in TablesSet
           /\ t.on = s.on /\ t.busy = s.busy \cup {p} /\ t.forks = c
           /\ DOMAIN t.jobs = DOMAIN s.jobs /\ Len(t.jobs) = Len(s.jobs)
           /\ \A j \in DOMAIN s.jobs \ {k} : t.jobs[j] = s.jobs[j]
           /\ t.jobs[k].id = s.jobs[k].id /\ t.jobs[k].type = s.jobs[k].type
           /\ t.jobs[k].set = s.jobs[k].set
           /\ t.jobs[k].status = "RUNNING" /\ t.jobs[k].chosen = p /\ t.jobs[k].pgid = c
           /\ DOMAIN t.procs = DOMAIN s.procs \cup {c} /\ c \notin DOMAIN s.procs
           /\ \A d \in DOMAIN s.procs : t.procs[d] = s.procs[d]
           /\ t.procs[c].printer = p
<1> DEFINE job == s.jobs[k]
           new == [job EXCEPT !.status = "RUNNING", !.chosen = p, !.pgid = c]
           child == [printer |-> p, life |-> "starting", note |-> "none", term |-> FALSE]
           js == [s.jobs EXCEPT ![k] = new]
           ps == [d \in DOMAIN s.procs \cup {c} |-> IF d \in DOMAIN s.procs THEN s.procs[d] ELSE child]
           r == [on |-> s.on, jobs |-> js, busy |-> s.busy \cup {p}, procs |-> ps, forks |-> c]
<1>type. /\ s = [on |-> s.on, jobs |-> s.jobs, busy |-> s.busy, procs |-> s.procs, forks |-> s.forks]
         /\ s.on \in SUBSET Printers /\ s.jobs \in Seq(Job) /\ s.busy \in SUBSET Printers
         /\ s.forks \in Nat /\ s.procs \in UNION {[D -> Process] : D \in SUBSET Nat}
  BY DEF TablesSet
<1>dom. DOMAIN s.jobs = 1..Len(s.jobs) /\ Len(s.jobs) \in Nat
  BY <1>type
<1>job. job \in Job
  BY <1>type
<1>c. c \in Nat /\ c # 0 /\ c \notin DOMAIN s.procs
  BY <1>type DEF PidsAreForked
<1>new. new \in Job
  BY <1>job, <1>c DEF Job, Status
<1>js. js \in Seq(Job) /\ Len(js) = Len(s.jobs) /\ DOMAIN js = DOMAIN s.jobs
  BY <1>type, <1>new, <1>dom, ExceptSeq
<1>ps. ps \in UNION {[D -> Process] : D \in SUBSET Nat}
  <2>1. PICK D \in SUBSET Nat : s.procs \in [D -> Process]
    BY <1>type
  <2>2. child \in Process
    BY DEF Process
  <2>3. ps \in [D \cup {c} -> Process]
    BY <2>1, <2>2
  <2>4. D \cup {c} \in SUBSET Nat
    BY <1>c
  <2> QED
    BY <2>3, <2>4
<1>run. t = r
  <2> DEFINE new1 == [job EXCEPT !.status = "RUNNING", !.chosen = p]
             js1 == [s.jobs EXCEPT ![k] = new1]
             s1 == [on |-> s.on, jobs |-> js1, busy |-> s.busy \cup {p}, procs |-> s.procs,
                    forks |-> s.forks]
  <2>1. runJob(s, k, p) = runJobProcess(s1, k, p)
    BY DEF runJob
  <2>2. js1[k] = new1 /\ [new1 EXCEPT !.pgid = c] = new
    BY <1>dom, <1>job DEF Job
  <2>3. [js1 EXCEPT ![k] = new] = js
    <3> HIDE DEF new, new1
    <3> QED
      BY <1>dom
  <2>4. runJobProcess(s1, k, p) = r
    <3> HIDE DEF js1, js, new, new1, child
    <3> QED
      BY <2>2, <2>3 DEF runJobProcess, child
  <2> QED
    BY <2>1, <2>4
<1>t. r \in TablesSet
  <2> HIDE DEF ps, js
  <2> QED
    BY <1>type, <1>js, <1>ps, <1>c DEF TablesSet
<1>k. js[k] = new
  BY <1>dom
<1>new2. /\ new.id = job.id /\ new.type = job.type /\ new.set = job.set
         /\ new.status = "RUNNING" /\ new.chosen = p /\ new.pgid = c
  BY <1>job DEF Job
<1>other. \A j \in DOMAIN s.jobs \ {k} : js[j] = s.jobs[j]
  BY <1>dom
<1>procs. /\ DOMAIN ps = DOMAIN s.procs \cup {c} /\ ps[c].printer = p
          /\ \A d \in DOMAIN s.procs : ps[d] = s.procs[d]
  BY <1>c
<1> HIDE DEF js, ps, new
<1> QED
  BY <1>run, <1>t, <1>js, <1>k, <1>new2, <1>other, <1>procs, <1>c

\* One position of the pass.
LEMMA StartJobStep ==
    ASSUME NEW s, WellFormed(s), NEW k \in DOMAIN s.jobs
    PROVE  LET t == startJob(s, k)
           IN  /\ WellFormed(t) /\ Kept(s, t) /\ Waits(t, k)
               /\ Tracked(s) => Tracked(t)
               /\ \A X : BusyHaveProcess(s, X) => BusyHaveProcess(t, X)
<1> DEFINE e == getEligiblePrinter(s.on, s.jobs[k], s.busy)
           start == s.jobs[k].status = "QUEUED" /\ e # NoPrinter /\ getPrinter(e) \notin s.busy
<1>type. /\ s \in TablesSet /\ s.jobs \in Seq(Job) /\ s.jobs[k] \in Job
         /\ s.on \in SUBSET Printers /\ s.forks \in Nat
  BY DEF WellFormed, TablesSet
<1>1. CASE ~start
  <2>1. startJob(s, k) = s
    BY <1>1 DEF startJob
  <2>2. Waits(s, k)
    BY <1>1 DEF Waits
  <2>3. Kept(s, s)
    BY DEF Kept
  <2> QED
    BY <2>1, <2>2, <2>3
<1>2. CASE start
  <2> DEFINE p == getPrinter(e)
             t == runJob(s, k, p)
             c == s.forks + 1
  <2>1. startJob(s, k) = t
    BY <1>2 DEF startJob
  <2>2. e \in s.on /\ e \in Printers /\ MayPrint(s.jobs[k], e) /\ p = e /\ p \in Printers
    <3>1. e \in s.on /\ MayPrint(s.jobs[k], e)
      BY <1>2, <1>type, EligibleMayPrint
    <3> HIDE DEF e
    <3> QED
      BY <3>1, <1>type DEF WellFormed, PrintersOwnTheirName
  <2>3. PidsAreForked(s) /\ p \notin s.busy /\ s.jobs[k].status = "QUEUED"
    BY <1>2 DEF WellFormed
  <2> HIDE DEF e, p
  <2>4. /\ t \in TablesSet
        /\ t.on = s.on /\ t.busy = s.busy \cup {p} /\ t.forks = c
        /\ DOMAIN t.jobs = DOMAIN s.jobs /\ Len(t.jobs) = Len(s.jobs)
        /\ \A j \in DOMAIN s.jobs \ {k} : t.jobs[j] = s.jobs[j]
        /\ t.jobs[k].id = s.jobs[k].id /\ t.jobs[k].type = s.jobs[k].type
        /\ t.jobs[k].set = s.jobs[k].set
        /\ t.jobs[k].status = "RUNNING" /\ t.jobs[k].chosen = p /\ t.jobs[k].pgid = c
        /\ DOMAIN t.procs = DOMAIN s.procs \cup {c} /\ c \notin DOMAIN s.procs
        /\ \A d \in DOMAIN s.procs : t.procs[d] = s.procs[d]
        /\ t.procs[c].printer = p
    <3> HIDE DEF t, c
    <3> QED
      BY <1>type, <2>2, <2>3, RunJobFields DEF t, c
  <2> HIDE DEF t
  <2>int. ASSUME NEW j \in DOMAIN s.jobs PROVE s.jobs[j].pgid \in Nat /\ s.jobs[j].pgid <= s.forks
    <3>1. s.jobs[j] \in Job
      BY <1>type
    <3> QED
      BY <3>1, <2>3 DEF PidsAreForked, Job
  <2>5. WellFormed(t)
    <3>1. PidsAreForked(t)
      <4>1. \A j \in DOMAIN t.jobs : t.jobs[j].pgid <= t.forks
        BY <1>type, <2>4, <2>int
      <4>2. \A d \in DOMAIN t.procs : d \in 1..t.forks
        BY <1>type, <2>4, <2>3 DEF PidsAreForked
      <4> QED
        BY <4>1, <4>2 DEF PidsAreForked
    <3>2. PrintersOwnTheirName(t)
      BY <2>4 DEF PrintersOwnTheirName, WellFormed
    <3>3. PgidsDiffer(t)
      <4> SUFFICES ASSUME NEW i \in DOMAIN s.jobs, NEW j \in DOMAIN s.jobs,
                          t.jobs[i].pgid = t.jobs[j].pgid, t.jobs[i].pgid # 0
                   PROVE  i = j
        BY <2>4 DEF PgidsDiffer
      <4>1. s.jobs[i].pgid # c /\ s.jobs[j].pgid # c
        BY <1>type, <2>int
      <4>2. CASE i # k /\ j # k
        BY <4>2, <2>4 DEF PgidsDiffer, WellFormed
      <4> QED
        BY <4>1, <4>2, <2>4
    <3>4. IdsIncrease(t)
      BY <2>4 DEF IdsIncrease, WellFormed
    <3>5. PrintersAreSuitable(t)
      <4>1. ASSUME NEW d \in DOMAIN t.procs PROVE getPrinter(t.procs[d].printer) = t.procs[d].printer
        BY <2>2, <2>4 DEF PrintersAreSuitable, WellFormed, p
      <4>2. ASSUME NEW d \in DOMAIN t.procs, NEW j \in DOMAIN t.jobs, t.jobs[j].pgid = d
            PROVE  MayPrint(t.jobs[j], t.procs[d].printer)
        <5>1. CASE d = c
          <6>1. j = k
            BY <5>1, <4>2, <1>type, <2>4, <2>int
          <6> QED
            BY <5>1, <6>1, <2>2, <2>4 DEF MayPrint
        <5>2. CASE d # c
          <6>1. d \in DOMAIN s.procs /\ j # k /\ j \in DOMAIN s.jobs
            BY <5>2, <4>2, <2>4
          <6> QED
            BY <6>1, <4>2, <2>4 DEF PrintersAreSuitable, WellFormed
        <5> QED
          BY <5>1, <5>2
      <4> QED
        BY <4>1, <4>2 DEF PrintersAreSuitable
    <3> QED
      BY <2>4, <3>1, <3>2, <3>3, <3>4, <3>5 DEF WellFormed
  <2>6. Kept(s, t)
    BY <2>3, <2>4 DEF Kept
  <2>7. Waits(t, k)
    BY <2>4 DEF Waits
  <2>8. ASSUME Tracked(s) PROVE Tracked(t)
    <3>1. ASSUME NEW d \in DOMAIN t.procs
          PROVE  /\ \E j \in DOMAIN t.jobs :
                        /\ t.jobs[j].pgid = d
                        /\ t.jobs[j].status \in {"RUNNING", "PAUSED"}
                        /\ t.jobs[j].chosen = t.procs[d].printer
                 /\ t.procs[d].printer \in t.busy
      <4>1. CASE d = c
        BY <4>1, <2>4
      <4>2. CASE d # c
        <5>1. d \in DOMAIN s.procs /\ t.procs[d] = s.procs[d] /\ s.procs[d].printer \in s.busy
          BY <4>2, <2>4, <2>8 DEF Tracked
        <5>2. PICK j \in DOMAIN s.jobs :
                        /\ s.jobs[j].pgid = d
                        /\ s.jobs[j].status \in {"RUNNING", "PAUSED"}
                        /\ s.jobs[j].chosen = s.procs[d].printer
          BY <5>1, <2>8 DEF Tracked
        <5>3. j # k
          BY <5>2, <2>3
        <5> QED
          BY <5>1, <5>2, <5>3, <2>4
      <4> QED
        BY <4>1, <4>2
    <3>2. ASSUME NEW d \in DOMAIN t.procs, NEW b \in DOMAIN t.procs,
                 t.procs[d].printer = t.procs[b].printer
          PROVE  d = b
      <4>1. \A a \in DOMAIN s.procs : t.procs[a].printer # p
        BY <2>3, <2>4, <2>8 DEF Tracked
      <4>2. CASE d \in DOMAIN s.procs /\ b \in DOMAIN s.procs
        BY <4>2, <3>2, <2>4, <2>8 DEF Tracked
      <4> QED
        BY <4>1, <4>2, <3>2, <2>4
    <3>3. ASSUME NEW j \in DOMAIN t.jobs, t.jobs[j].status = "QUEUED"
          PROVE  t.jobs[j].pgid = 0
      BY <3>3, <2>4, <2>8 DEF Tracked
    <3> QED
      BY <3>1, <3>2, <3>3 DEF Tracked
  <2>9. ASSUME NEW X, BusyHaveProcess(s, X) PROVE BusyHaveProcess(t, X)
    BY <2>9, <2>4 DEF BusyHaveProcess
  <2> QED
    BY <2>1, <2>5, <2>6, <2>7, <2>8, <2>9
<1> QED
  BY <1>1, <1>2

\* What two changes of the tables keep, both together keep.
LEMMA KeptIsTransitive ==
    ASSUME NEW s \in TablesSet, NEW t \in TablesSet, NEW u \in TablesSet, Kept(s, t), Kept(t, u)
    PROVE  Kept(s, u)
<1>1. DOMAIN s.jobs = DOMAIN t.jobs
  <2>1. s.jobs \in Seq(Job) /\ t.jobs \in Seq(Job)
    BY DEF TablesSet
  <2> QED
    BY <2>1 DEF Kept
<1> QED
  BY <1>1 DEF Kept

\* The pass over the list: nothing but the start of waiting jobs, after which
\* no job waits for a free printer.
LEMMA RunJobsResult ==
    ASSUME NEW s, WellFormed(s)
    PROVE  LET t == runJobs(s)
           IN  /\ WellFormed(t) /\ Kept(s, t)
               /\ \A k \in DOMAIN t.jobs : Waits(t, k)
               /\ Tracked(s) => Tracked(t)
               /\ \A X : BusyHaveProcess(s, X) => BusyHaveProcess(t, X)
<1> DEFINE N == Len(s.jobs)
           after == CHOOSE f : f = [k \in 0..N |-> IF k = 0 THEN s ELSE startJob(f[k - 1], k)]
           S == {t \in TablesSet : WellFormed(t) /\ Len(t.jobs) = N}
           F == [x \in S \X (1..N) |-> startJob(x[1], x[2])]
<1>type. s \in TablesSet /\ N \in Nat /\ s \in S
  BY DEF WellFormed, TablesSet
<1>dom. \A t \in S : DOMAIN t.jobs = 1..N
  BY DEF TablesSet
<1>1. StepsWithin(S, N, F)
  <2> SUFFICES ASSUME NEW t \in S, NEW k \in 1..N PROVE startJob(t, k) \in S
    BY DEF StepsWithin
  <2>1. WellFormed(startJob(t, k)) /\ Kept(t, startJob(t, k))
    BY <1>dom, StartJobStep, Zenon
  <2> QED
    BY <2>1 DEF WellFormed, Kept
<1> HIDE DEF S, N
<1>2. PICK f \in [0..N -> S] : FollowsSteps(f, N, s, F)
  <2> HIDE DEF F
  <2> QED
    BY <1>1, <1>type, RecursionExists
<1>3. ASSUME NEW k \in 1..N PROVE f[k] = startJob(f[k - 1], k)
  <2>1. <<f[k - 1], k>> \in S \X (1..N)
    BY <1>type
  <2> QED
    BY <1>2, <2>1 DEF FollowsSteps
<1>4. f = [k \in 0..N |-> IF k = 0 THEN s ELSE startJob(f[k - 1], k)]
  BY <1>2, <1>3, <1>type DEF FollowsSteps
<1>5. after = [k \in 0..N |-> IF k = 0 THEN s ELSE startJob(after[k - 1], k)]
  <2> HIDE DEF F
  <2> QED
    BY <1>4
<1>run. runJobs(s) = after[N]
  BY DEF runJobs, N
<1> HIDE DEF after, F
<1>6. after[0] = s /\ \A k \in 1..N : after[k] = startJob(after[k - 1], k)
  BY <1>5, <1>type
<1> DEFINE Good(t, n) == /\ WellFormed(t) /\ Kept(s, t)
                         /\ \A k \in 1..n : Waits(t, k)
                         /\ Tracked(s) => Tracked(t)
                         /\ \A X : BusyHaveProcess(s, X) => BusyHaveProcess(t, X)
           T == {n \in 0..N : Good(after[n], n)}
<1>7. 0 \in T
  BY <1>6, <1>type DEF Kept
<1>8. ASSUME NEW n \in 1..N, n - 1 \in T PROVE n \in T
  <2> DEFINE t == after[n - 1]
             u == after[n]
  <2>1. u = startJob(t, n) /\ Good(t, n - 1)
    BY <1>6, <1>8
  <2> HIDE DEF t, u
  <2>2. t \in TablesSet /\ DOMAIN t.jobs = 1..N /\ Len(t.jobs) = N /\ PrintersOwnTheirName(t)
    BY <2>1, <1>type DEF WellFormed, Kept, TablesSet, N
  <2>3. /\ WellFormed(u) /\ Kept(t, u) /\ Waits(u, n)
        /\ Tracked(t) => Tracked(u)
        /\ \A X : BusyHaveProcess(t, X) => BusyHaveProcess(u, X)
    BY <2>1, <2>2, StartJobStep, Zenon
  <2>4. u \in TablesSet /\ DOMAIN u.jobs = 1..N
    BY <2>2, <2>3 DEF WellFormed, Kept, TablesSet
  <2>5. Kept(s, u)
    BY <1>type, <2>1, <2>2, <2>3, <2>4, KeptIsTransitive
  <2>6. ASSUME NEW k \in 1..n PROVE Waits(u, k)
    <3>1. CASE k = n
      BY <3>1, <2>3
    <3>2. CASE k # n
      <4>1. k \in 1..(n - 1) /\ k \in DOMAIN t.jobs /\ k \in DOMAIN u.jobs
        BY <3>2, <2>2, <2>4
      <4>2. Waits(t, k)
        BY <4>1, <2>1
      <4>3. /\ u.jobs[k] = t.jobs[k] \/ u.jobs[k].status # "QUEUED"
            /\ u.on = t.on /\ t.busy \subseteq u.busy
        BY <4>1, <2>3 DEF Kept
      <4> QED
        BY <2>2, <2>4, <4>1, <4>2, <4>3, WaitingIsMonotone
    <3> QED
      BY <3>1, <3>2
  <2>7. Good(u, n)
    BY <2>1, <2>3, <2>5, <2>6
  <2> QED
    BY <2>7 DEF u
<1> HIDE DEF T
<1>9. N \in T
  BY <1>type, <1>7, <1>8, BoundedInduction
<1>10. Good(after[N], N) /\ DOMAIN after[N].jobs = 1..N
  BY <1>9 DEF T, WellFormed, Kept, TablesSet, N
<1> QED
  BY <1>10, <1>run

-----------------------------------------------------------------------------
(* The steps of main.                                                      *)

\* The variables have their types.
LEMMA VariablesTyped ==
    ASSUME SpoolerInvariant
    PROVE  /\ Tables \in TablesSet /\ enabled \in SUBSET Printers /\ busy \in SUBSET Printers
           /\ jobs \in Seq(Job) /\ Len(jobs) \in Nat /\ DOMAIN jobs = 1..Len(jobs)
           /\ procs \in UNION {[D -> Process] : D \in SUBSET Nat}
           /\ \A c \in DOMAIN procs : c \in Nat /\ procs[c] \in Process
           /\ forks \in Nat /\ main \in Places
<1>1. Tables \in TablesSet /\ main \in Places
  BY DEF SpoolerInvariant, WellFormed, MainOK
<1>2. /\ enabled \in SUBSET Printers /\ busy \in SUBSET Printers /\ jobs \in Seq(Job)
      /\ forks \in Nat /\ procs \in UNION {[D -> Process] : D \in SUBSET Nat}
  BY <1>1 DEF TablesSet, Tables
<1>3. \A c \in DOMAIN procs : c \in Nat /\ procs[c] \in Process
  <2>1. PICK D \in SUBSET Nat : procs \in [D -> Process]
    BY <1>2
  <2> QED
    BY <2>1
<1> QED
  BY <1>1, <1>2, <1>3

\* Advancing in the list, or returning from print, when nothing can be done
\* for the job in hand.
LEMMA NextJobStep ==
    ASSUME main \in Places, main.pc # "prompt", main.job # 0, Pos \in DOMAIN jobs, NextJob,
           jobs \in Seq(Job), jobs' \in Seq(Job), Len(jobs') = Len(jobs),
           \A k \in 1..Scanned : Waits(Tables', k),
           main.job > 0 => Waits(Tables', main.job)
    PROVE  MainOK' /\ NoWorkLeft' /\ JobInHand' /\ InHand' = {}
<1>int. main.job \in Int /\ Len(jobs) \in Nat /\ DOMAIN jobs = 1..Len(jobs)
  BY DEF Places
<1>1. CASE main.job > 0
  <2>1. main' = At("scan", main.job + 1, NoPrinter, main.batch)
    BY <1>1 DEF NextJob
  <2>2. main' \in Places /\ main'.pc = "scan" /\ main'.job = main.job + 1
    BY <2>1, <1>int DEF Places, At
  <2>3. MainOK'
    BY <1>1, <1>int, <2>2 DEF MainOK, Pos
  <2>4. Scanned' = main.job /\ Scanned = main.job - 1
    BY <1>1, <1>int, <2>2 DEF Scanned
  <2>5. NoWorkLeft'
    BY <1>1, <1>int, <2>2, <2>4 DEF NoWorkLeft
  <2> QED
    BY <2>2, <2>3, <2>5 DEF JobInHand, InHand
<1>2. CASE main.job < 0
  <2>1. \/ main' = At("prompt", 0, NoPrinter, TRUE)
        \/ main' = At("scan", 1, NoPrinter, FALSE)
    <3>1. ~(main.job > 0)
      BY <1>2, <1>int
    <3> QED
      BY <3>1 DEF NextJob
  <2>2. /\ main' \in Places
        /\ \/ main'.pc = "prompt" /\ main'.job = 0 /\ main'.batch
           \/ main'.pc = "scan" /\ main'.job = 1
    <3>1. CASE main' = At("prompt", 0, NoPrinter, TRUE)
      BY <3>1 DEF Places, At
    <3>2. CASE main' = At("scan", 1, NoPrinter, FALSE)
      BY <3>2 DEF Places, At
    <3> QED
      BY <2>1, <3>1, <3>2
  <2>3. MainOK'
    BY <1>int, <2>2 DEF MainOK
  <2>4. Scanned' = 0
    BY <2>2 DEF Scanned
  <2>5. NoWorkLeft'
    BY <2>2, <2>4 DEF NoWorkLeft
  <2> QED
    BY <2>2, <2>3, <2>5 DEF JobInHand, InHand
<1> QED
  BY <1>1, <1>2, <1>int

\* A step that only moves main, and not into or out of a printer in hand.
LEMMA MainMoved ==
    ASSUME SpoolerInvariant, UNCHANGED <<jobs, printed, enabled, busy, procs, forks, sigchld, crashed, raced>>
    PROVE  /\ Tables' = Tables /\ WellFormed(Tables)' /\ CountersOK'
           /\ main.pc # "fork" /\ InHand' = {} /\ (~raced => JobInHand') => Consistent'
<1>1. Tables' = Tables
  BY DEF Tables
<1>2. WellFormed(Tables)' /\ CountersOK'
  BY <1>1 DEF SpoolerInvariant, CountersOK
<1>3. ASSUME main.pc # "fork", InHand' = {}, ~raced => JobInHand' PROVE Consistent'
  <2>1. InHand = {}
    BY <1>3 DEF InHand
  <2> QED
    BY <1>1, <1>3, <2>1 DEF SpoolerInvariant, Consistent
<1> QED
  BY <1>1, <1>2, <1>3

\* The one step that may change an ended job: runJob's, after a race.
LateWrite(k) == raced /\ k = Pos /\ (Mark \/ Fork)

\* An ended job stays in the list as it is, or leaves it: what a step has to
\* show for EndedJobsStayEnded.
EndedKept ==
    \A k \in DOMAIN jobs : jobs[k].status \in {"COMPLETED", "ABORTED"} =>
        \A m \in DOMAIN jobs' : jobs'[m].id = jobs[k].id => jobs'[m] = jobs[k] \/ LateWrite(k)

\* Identifiers tell jobs apart.
LEMMA IdsDiffer ==
    ASSUME SpoolerInvariant, NEW j \in DOMAIN jobs, NEW k \in DOMAIN jobs, jobs[j].id = jobs[k].id
    PROVE  j = k
<1>1. jobs \in Seq(Job) /\ DOMAIN jobs = 1..Len(jobs) /\ Len(jobs) \in Nat
  BY VariablesTyped
<1>2. jobs[j] \in Job
  BY <1>1
<1>3. jobs[j].id \in Int
  BY <1>2, ImprimerAssumption DEF Job
<1>4. ~(j < k) /\ ~(k < j)
  BY <1>3 DEF SpoolerInvariant, WellFormed, IdsIncrease, Tables
<1> QED
  BY <1>1, <1>4

\* A step that does not move jobs in the list.
LEMMA EndedKeptInPlace ==
    ASSUME SpoolerInvariant, DOMAIN jobs' = DOMAIN jobs, \A j \in DOMAIN jobs : jobs'[j].id = jobs[j].id,
           \A j \in DOMAIN jobs : jobs[j].status \in {"COMPLETED", "ABORTED"} =>
               jobs'[j] = jobs[j] \/ LateWrite(j)
    PROVE  EndedKept
<1> SUFFICES ASSUME NEW k \in DOMAIN jobs, jobs[k].status \in {"COMPLETED", "ABORTED"},
                    NEW m \in DOMAIN jobs', jobs'[m].id = jobs[k].id
             PROVE  jobs'[m] = jobs[k] \/ LateWrite(k)
  BY DEF EndedKept
<1>1. m = k
  BY IdsDiffer
<1> QED
  BY <1>1

\* runJobs, at its next job.
LEMMA ScanStep ==
    ASSUME SpoolerInvariant, Scan
    PROVE  SpoolerInvariant'
<1>type. main \in Places /\ jobs \in Seq(Job) /\ Len(jobs) \in Nat /\ DOMAIN jobs = 1..Len(jobs)
  BY VariablesTyped
<1>pc. /\ main.pc = "scan" /\ main.job \in 1..Len(jobs) /\ Pos = main.job /\ main.job \in Int
       /\ UNCHANGED <<jobs, printed, enabled, busy, procs, forks, sigchld, crashed, raced>>
  BY <1>type DEF SpoolerInvariant, MainOK, Scan, Here, Pos, Places
<1>1. /\ Tables' = Tables /\ WellFormed(Tables)' /\ CountersOK'
      /\ InHand' = {} /\ (~raced => JobInHand') => Consistent'
  BY <1>pc, MainMoved
<1>2. CASE jobs[Pos].status = "QUEUED"
  <2>1. main' = [main EXCEPT !.pc = "choose"]
    BY <1>2 DEF Scan
  <2>2. main' \in Places /\ main'.pc = "choose" /\ main'.job = main.job
    BY <2>1, <1>type DEF Places
  <2>3. MainOK' /\ Pos' = Pos
    BY <1>pc, <2>2 DEF MainOK, Pos
  <2>4. Scanned' = Scanned
    BY <1>pc, <2>2 DEF Scanned
  <2>5. NoWorkLeft'
    BY <1>1, <2>2, <2>4 DEF SpoolerInvariant, NoWorkLeft
  <2>6. InHand' = {} /\ JobInHand'
    BY <1>2, <1>pc, <2>2, <2>3 DEF InHand, JobInHand
  <2> QED
    BY <1>1, <2>3, <2>5, <2>6 DEF SpoolerInvariant
<1>3. CASE jobs[Pos].status # "QUEUED"
  <2>1. NextJob
    BY <1>3 DEF Scan
  <2>2. Waits(Tables, main.job)
    BY <1>3, <1>pc DEF Waits, Tables
  <2>3. MainOK' /\ NoWorkLeft' /\ JobInHand' /\ InHand' = {}
    BY <1>type, <1>pc, <1>1, <2>1, <2>2, NextJobStep DEF SpoolerInvariant, NoWorkLeft
  <2> QED
    BY <1>1, <2>3 DEF SpoolerInvariant
<1> QED
  BY <1>2, <1>3

\* runJobs calls getEligiblePrinter.
LEMMA ChooseStep ==
    ASSUME SpoolerInvariant, Choose
    PROVE  SpoolerInvariant'
<1> DEFINE p == getEligiblePrinter(enabled, jobs[Pos], busy)
<1>type. /\ main \in Places /\ jobs \in Seq(Job) /\ Len(jobs) \in Nat /\ DOMAIN jobs = 1..Len(jobs)
         /\ enabled \in SUBSET Printers
  BY VariablesTyped
<1>pc. /\ main.pc = "choose" /\ main.job # 0 /\ Pos \in DOMAIN jobs /\ main.job \in Int
       /\ UNCHANGED <<jobs, printed, enabled, busy, procs, forks, sigchld, crashed, raced>>
  BY <1>type DEF SpoolerInvariant, MainOK, Choose, Here, Places
<1>1. /\ Tables' = Tables /\ WellFormed(Tables)' /\ CountersOK'
      /\ InHand' = {} /\ (~raced => JobInHand') => Consistent'
  BY <1>pc, MainMoved
<1>job. jobs[Pos] \in Job
  BY <1>type, <1>pc
<1>2. CASE p # NoPrinter
  <2>1. p \in enabled /\ p \in Printers /\ MayPrint(jobs[Pos], p) /\ getPrinter(p) = p
    <3>1. p \in enabled /\ MayPrint(jobs[Pos], p)
      BY <1>2, <1>type, <1>job, EligibleMayPrint
    <3> HIDE DEF p
    <3> QED
      BY <3>1, <1>type DEF SpoolerInvariant, WellFormed, PrintersOwnTheirName, Tables
  <2> HIDE DEF p
  <2>2. main' = [main EXCEPT !.pc = "check", !.printer = p]
    BY <1>2, <2>1 DEF Choose, p
  <2>3. /\ main' \in Places /\ main'.pc = "check" /\ main'.job = main.job /\ main'.printer = p
        /\ main'.batch = main.batch
    BY <2>1, <2>2, <1>type DEF Places
  <2>4. MainOK' /\ Pos' = Pos
    BY <1>pc, <2>1, <2>3 DEF MainOK, Pos
  <2>5. Scanned' = Scanned
    BY <1>pc, <2>3 DEF Scanned
  <2>6. NoWorkLeft'
    <3>1. main'.printer = getEligiblePrinter(enabled', jobs'[Pos'], busy')
      BY <1>pc, <2>3, <2>4 DEF p
    <3> QED
      BY <1>1, <2>3, <2>5, <3>1 DEF SpoolerInvariant, NoWorkLeft
  <2>7. InHand' = {} /\ (~raced => JobInHand')
    <3>1. InHand' = {}
      BY <2>3 DEF InHand
    <3>2. ASSUME ~raced PROVE JobInHand'
      BY <3>2, <1>pc, <2>3, <2>4 DEF SpoolerInvariant, Consistent, JobInHand
    <3> QED
      BY <3>1, <3>2
  <2> QED
    BY <1>1, <2>4, <2>6, <2>7 DEF SpoolerInvariant
<1>3. CASE p = NoPrinter
  <2>1. NextJob
    BY <1>3 DEF Choose
  <2>2. Waits(Tables, Pos)
    BY <1>3 DEF Waits, Tables
  <2>3. main.job > 0 => Waits(Tables, main.job)
    BY <2>2, <1>pc DEF Pos
  <2>4. MainOK' /\ NoWorkLeft' /\ JobInHand' /\ InHand' = {}
    BY <1>type, <1>pc, <1>1, <2>1, <2>3, NextJobStep DEF SpoolerInvariant, NoWorkLeft
  <2> QED
    BY <1>1, <2>4 DEF SpoolerInvariant
<1> QED
  BY <1>2, <1>3

\* runJob tests the printer.
LEMMA CheckStep ==
    ASSUME SpoolerInvariant, Check
    PROVE  SpoolerInvariant'
<1>type. /\ main \in Places /\ jobs \in Seq(Job) /\ Len(jobs) \in Nat /\ DOMAIN jobs = 1..Len(jobs)
  BY VariablesTyped
<1>pc. /\ main.pc = "check" /\ main.job # 0 /\ Pos \in DOMAIN jobs /\ main.job \in Int
       /\ main.printer \in Printers /\ getPrinter(main.printer) = main.printer
       /\ MayPrint(jobs[Pos], main.printer)
       /\ UNCHANGED <<jobs, printed, enabled, busy, procs, forks, sigchld, crashed, raced>>
  BY <1>type DEF SpoolerInvariant, MainOK, Check, Here, Places
<1>1. /\ Tables' = Tables /\ WellFormed(Tables)' /\ CountersOK'
      /\ InHand' = {} /\ (~raced => JobInHand') => Consistent'
  BY <1>pc, MainMoved
<1>2. CASE main.printer \in busy
  <2>1. NextJob
    BY <1>2 DEF Check
  <2>2. Waits(Tables, Pos)
    BY <1>2, <1>pc DEF Waits, Tables, SpoolerInvariant, NoWorkLeft
  <2>3. main.job > 0 => Waits(Tables, main.job)
    BY <2>2, <1>pc DEF Pos
  <2>4. MainOK' /\ NoWorkLeft' /\ JobInHand' /\ InHand' = {}
    BY <1>type, <1>pc, <1>1, <2>1, <2>3, NextJobStep DEF SpoolerInvariant, NoWorkLeft
  <2> QED
    BY <1>1, <2>4 DEF SpoolerInvariant
<1>3. CASE main.printer \notin busy
  <2>1. main' = [main EXCEPT !.pc = "mark"]
    BY <1>3 DEF Check
  <2>2. /\ main' \in Places /\ main'.pc = "mark" /\ main'.job = main.job
        /\ main'.printer = main.printer /\ main'.batch = main.batch
    BY <2>1, <1>type DEF Places
  <2>3. MainOK' /\ Pos' = Pos
    BY <1>pc, <2>2 DEF MainOK, Pos
  <2>4. Scanned' = Scanned
    BY <1>pc, <2>2 DEF Scanned
  <2>5. NoWorkLeft'
    BY <1>1, <2>2, <2>4 DEF SpoolerInvariant, NoWorkLeft
  <2>6. InHand' = {}
    BY <2>2 DEF InHand
  <2>7. ASSUME ~raced PROVE JobInHand'
    BY <2>7, <1>3, <1>pc, <2>2, <2>3 DEF SpoolerInvariant, Consistent, JobInHand
  <2> QED
    BY <1>1, <2>3, <2>5, <2>6, <2>7 DEF SpoolerInvariant
<1> QED
  BY <1>2, <1>3

\* From s to t jobs change only in their status and choice, and processes only
\* in what they do; processes may be gone.
Alike(s, t) ==
    /\ t.on = s.on /\ t.forks = s.forks /\ Len(t.jobs) = Len(s.jobs)
    /\ \A k \in DOMAIN s.jobs :
          /\ t.jobs[k].id = s.jobs[k].id
          /\ t.jobs[k].type = s.jobs[k].type
          /\ t.jobs[k].set = s.jobs[k].set
          /\ t.jobs[k].pgid = s.jobs[k].pgid
    /\ \A c \in DOMAIN t.procs : c \in DOMAIN s.procs /\ t.procs[c].printer = s.procs[c].printer

\* Tables that differ only in what Alike leaves open are well formed together.
LEMMA AlikeWellFormed ==
    ASSUME NEW s, WellFormed(s), NEW t \in TablesSet, Alike(s, t)
    PROVE  WellFormed(t) /\ DOMAIN t.jobs = DOMAIN s.jobs
<1>1. s.jobs \in Seq(Job) /\ t.jobs \in Seq(Job)
  BY DEF WellFormed, TablesSet
<1>2. DOMAIN t.jobs = DOMAIN s.jobs
  BY <1>1 DEF Alike
<1>3. PidsAreForked(t) /\ PrintersOwnTheirName(t)
  BY <1>2 DEF WellFormed, Alike, PidsAreForked, PrintersOwnTheirName
<1>4. PgidsDiffer(t) /\ IdsIncrease(t)
  BY <1>2 DEF WellFormed, Alike, PgidsDiffer, IdsIncrease
<1>5. PrintersAreSuitable(t)
  BY <1>2 DEF WellFormed, Alike, PrintersAreSuitable, MayPrint
<1> QED
  BY <1>2, <1>3, <1>4, <1>5 DEF WellFormed

\* runJob sets the status and the printer of the job.
LEMMA MarkStep ==
    ASSUME SpoolerInvariant, Mark
    PROVE  SpoolerInvariant' /\ EndedKept
<1> DEFINE new == [jobs[Pos] EXCEPT !.status = "RUNNING", !.chosen = main.printer]
<1>type. /\ Tables \in TablesSet /\ enabled \in SUBSET Printers /\ busy \in SUBSET Printers
         /\ jobs \in Seq(Job) /\ Len(jobs) \in Nat /\ DOMAIN jobs = 1..Len(jobs)
         /\ procs \in UNION {[D -> Process] : D \in SUBSET Nat}
         /\ forks \in Nat /\ main \in Places
  BY VariablesTyped
<1>pc. /\ main.pc = "mark" /\ main.job # 0 /\ Pos \in DOMAIN jobs /\ main.job \in Int
       /\ main.printer \in Printers /\ getPrinter(main.printer) = main.printer
       /\ MayPrint(jobs[Pos], main.printer)
       /\ UNCHANGED <<printed, enabled, busy, procs, forks, sigchld, crashed, raced>>
  BY <1>type DEF SpoolerInvariant, MainOK, Mark, Here, Places
<1>job. jobs[Pos] \in Job
  BY <1>type, <1>pc
<1>new. /\ new \in Job /\ new.id = jobs[Pos].id /\ new.type = jobs[Pos].type
        /\ new.set = jobs[Pos].set /\ new.pgid = jobs[Pos].pgid
        /\ new.status = "RUNNING" /\ new.chosen = main.printer
  BY <1>job, <1>pc DEF Job, Status
<1>main. /\ main' \in Places /\ main'.pc = "busy" /\ main'.job = main.job
         /\ main'.printer = main.printer /\ main'.batch = main.batch /\ Pos' = Pos
  BY <1>type DEF Mark, Places, Pos
<1> HIDE DEF new
<1>jobs. /\ jobs' \in Seq(Job) /\ Len(jobs') = Len(jobs) /\ DOMAIN jobs' = DOMAIN jobs
         /\ jobs'[Pos] = new /\ \A k \in DOMAIN jobs \ {Pos} : jobs'[k] = jobs[k]
  BY <1>type, <1>pc, <1>new, ExceptSeq DEF Mark, new
<1>tables. Tables' \in TablesSet /\ Alike(Tables, Tables')
  BY <1>type, <1>pc, <1>jobs, <1>new DEF Tables, TablesSet, Alike
<1>1. WellFormed(Tables)'
  BY <1>tables, AlikeWellFormed DEF SpoolerInvariant
<1>2. CountersOK'
  BY <1>pc, <1>jobs, <1>new DEF SpoolerInvariant, CountersOK
<1>3. MainOK'
  BY <1>pc, <1>main, <1>jobs, <1>new DEF MainOK, MayPrint
<1>4. NoWorkLeft'
  <2>1. Scanned' = Scanned
    BY <1>pc, <1>main DEF Scanned
  <2>2. ASSUME NEW k \in 1..Scanned PROVE Waits(Tables', k)
    <3>1. k \in DOMAIN jobs
      BY <1>type, <1>pc DEF Scanned, Pos
    <3>2. Waits(Tables, k) /\ PrintersOwnTheirName(Tables)
      BY DEF SpoolerInvariant, NoWorkLeft, WellFormed
    <3>3. /\ k \in DOMAIN Tables.jobs /\ k \in DOMAIN Tables'.jobs
          /\ Tables'.jobs[k] = Tables.jobs[k] \/ Tables'.jobs[k].status # "QUEUED"
          /\ Tables'.on = Tables.on /\ Tables.busy \subseteq Tables'.busy
      BY <3>1, <1>pc, <1>jobs, <1>new DEF Tables
    <3> QED
      BY <1>type, <1>tables, <3>2, <3>3, WaitingIsMonotone
  <2> QED
    BY <2>1, <2>2, <1>main, <1>jobs, <1>new DEF NoWorkLeft
<1>5. ASSUME ~raced'
      PROVE  ~crashed' /\ Tracked(Tables') /\ BusyHaveProcess(Tables', InHand') /\ JobInHand'
  <2>1. ~raced /\ ~crashed /\ Tracked(Tables) /\ BusyHaveProcess(Tables, InHand) /\ JobInHand
    BY <1>5, <1>pc DEF SpoolerInvariant, Consistent
  <2>2. jobs[Pos].status = "QUEUED" /\ jobs[Pos].pgid = 0 /\ main.printer \notin busy
    BY <2>1, <1>pc DEF JobInHand, Tracked, Tables
  <2>3. Tracked(Tables')
    <3>1. ASSUME NEW c \in DOMAIN procs
          PROVE  \E k \in DOMAIN jobs' :
                    /\ jobs'[k].pgid = c
                    /\ jobs'[k].status \in {"RUNNING", "PAUSED"}
                    /\ jobs'[k].chosen = procs[c].printer
      <4>1. PICK k \in DOMAIN jobs :
                    /\ jobs[k].pgid = c
                    /\ jobs[k].status \in {"RUNNING", "PAUSED"}
                    /\ jobs[k].chosen = procs[c].printer
        BY <2>1 DEF Tracked, Tables
      <4>2. k # Pos
        BY <4>1, <2>2
      <4> QED
        BY <4>1, <4>2, <1>jobs
    <3>2. \A k \in DOMAIN jobs' : jobs'[k].status = "QUEUED" => jobs'[k].pgid = 0
      BY <2>1, <1>jobs, <1>new DEF Tracked, Tables
    <3> QED
      BY <2>1, <3>1, <3>2, <1>pc DEF Tracked, Tables
  <2>4. BusyHaveProcess(Tables', InHand')
    BY <2>1, <1>pc, <1>main DEF BusyHaveProcess, Tables, InHand
  <2>5. JobInHand'
    BY <2>2, <1>pc, <1>main, <1>jobs, <1>new DEF JobInHand
  <2> QED
    BY <2>1, <2>3, <2>4, <2>5, <1>pc
<1>6. EndedKept
  <2>1. jobs[Pos].status \in {"COMPLETED", "ABORTED"} => LateWrite(Pos)
    BY <1>pc DEF SpoolerInvariant, CountersOK, Consistent, JobInHand, LateWrite
  <2> QED
    BY <2>1, <1>jobs, <1>new, EndedKeptInPlace
<1> QED
  BY <1>1, <1>2, <1>3, <1>4, <1>5, <1>6 DEF SpoolerInvariant, Consistent

\* runJob calls busyPrinter.
LEMMA BusyPrinterStep ==
    ASSUME SpoolerInvariant, busyPrinter
    PROVE  SpoolerInvariant'
<1>type. /\ Tables \in TablesSet /\ enabled \in SUBSET Printers /\ busy \in SUBSET Printers
         /\ jobs \in Seq(Job) /\ Len(jobs) \in Nat /\ DOMAIN jobs = 1..Len(jobs)
         /\ procs \in UNION {[D -> Process] : D \in SUBSET Nat}
         /\ forks \in Nat /\ main \in Places
  BY VariablesTyped
<1>pc. /\ main.pc = "busy" /\ main.job # 0 /\ Pos \in DOMAIN jobs /\ main.job \in Int
       /\ main.printer \in Printers /\ getPrinter(main.printer) = main.printer
       /\ MayPrint(jobs[Pos], main.printer)
       /\ busy' = busy \cup {main.printer}
       /\ UNCHANGED <<jobs, printed, enabled, procs, forks, sigchld, crashed, raced>>
  BY <1>type DEF SpoolerInvariant, MainOK, busyPrinter, Here, Places
<1>main. /\ main' \in Places /\ main'.pc = "fork" /\ main'.job = main.job
         /\ main'.printer = main.printer /\ main'.batch = main.batch /\ Pos' = Pos
  BY <1>type DEF busyPrinter, Places, Pos
<1>tables. Tables' \in TablesSet /\ Alike(Tables, Tables')
  BY <1>type, <1>pc DEF Tables, TablesSet, Alike
<1>1. WellFormed(Tables)'
  BY <1>tables, AlikeWellFormed DEF SpoolerInvariant
<1>2. CountersOK'
  BY <1>pc DEF SpoolerInvariant, CountersOK
<1>3. MainOK'
  BY <1>pc, <1>main DEF MainOK
<1>4. NoWorkLeft'
  <2>1. Scanned' = Scanned
    BY <1>pc, <1>main DEF Scanned
  <2>2. ASSUME NEW k \in 1..Scanned PROVE Waits(Tables', k)
    <3>1. k \in DOMAIN jobs
      BY <1>type, <1>pc DEF Scanned, Pos
    <3>2. Waits(Tables, k) /\ PrintersOwnTheirName(Tables)
      BY DEF SpoolerInvariant, NoWorkLeft, WellFormed
    <3>3. /\ k \in DOMAIN Tables.jobs /\ k \in DOMAIN Tables'.jobs
          /\ Tables'.jobs[k] = Tables.jobs[k]
          /\ Tables'.on = Tables.on /\ Tables.busy \subseteq Tables'.busy
      BY <3>1, <1>pc DEF Tables
    <3> QED
      BY <1>type, <1>tables, <3>2, <3>3, WaitingIsMonotone
  <2> QED
    BY <2>1, <2>2, <1>pc, <1>main DEF NoWorkLeft, SpoolerInvariant
<1>5. ASSUME ~raced'
      PROVE  ~crashed' /\ Tracked(Tables') /\ BusyHaveProcess(Tables', InHand') /\ JobInHand'
  <2>1. ~raced /\ ~crashed /\ Tracked(Tables) /\ BusyHaveProcess(Tables, InHand) /\ JobInHand
    BY <1>5, <1>pc DEF SpoolerInvariant, Consistent
  <2>2. Tracked(Tables')
    BY <2>1, <1>pc DEF Tracked, Tables
  <2>3. BusyHaveProcess(Tables', InHand')
    BY <2>1, <1>pc, <1>main DEF BusyHaveProcess, Tables, InHand
  <2>4. \A c \in DOMAIN procs : procs[c].printer # main.printer
    BY <2>1, <1>pc DEF JobInHand, Tracked, Tables
  <2>5. JobInHand'
    BY <2>1, <2>4, <1>pc, <1>main DEF JobInHand
  <2> QED
    BY <2>1, <2>2, <2>3, <2>5, <1>pc
<1> QED
  BY <1>1, <1>2, <1>3, <1>4, <1>5 DEF SpoolerInvariant, Consistent

\* runJobProcess forks, and the job learns its process.
LEMMA ForkStep ==
    ASSUME SpoolerInvariant, Fork
    PROVE  SpoolerInvariant' /\ EndedKept
<1> DEFINE c == forks + 1
           job == jobs[Pos]
           new == [job EXCEPT !.pgid = c]
           child == [printer |-> main.printer, life |-> "starting", note |-> "none", term |-> FALSE]
<1>type. /\ Tables \in TablesSet /\ enabled \in SUBSET Printers /\ busy \in SUBSET Printers
         /\ jobs \in Seq(Job) /\ Len(jobs) \in Nat /\ DOMAIN jobs = 1..Len(jobs)
         /\ procs \in UNION {[D -> Process] : D \in SUBSET Nat}
         /\ forks \in Nat /\ main \in Places
  BY VariablesTyped
<1>pc. /\ main.pc = "fork" /\ main.job # 0 /\ Pos \in DOMAIN jobs /\ main.job \in Int
       /\ main.printer \in Printers /\ getPrinter(main.printer) = main.printer
       /\ MayPrint(jobs[Pos], main.printer) /\ jobs[Pos].status # "QUEUED"
       /\ NextJob /\ UNCHANGED <<printed, enabled, sigchld, crashed, raced>>
  BY <1>type DEF SpoolerInvariant, MainOK, NoWorkLeft, Fork, Here, Places
<1>job. job \in Job
  BY <1>type, <1>pc
<1>new. /\ new \in Job /\ new.id = job.id /\ new.type = job.type /\ new.set = job.set
        /\ new.status = job.status /\ new.chosen = job.chosen /\ new.pgid = c
  <2>1. c \in Nat
    BY <1>type
  <2> HIDE DEF c
  <2> QED
    BY <1>job, <2>1 DEF Job
<1>c. c \in Nat /\ c # 0 /\ c \notin DOMAIN procs /\ \A d \in DOMAIN procs : d \in 1..c
  BY <1>type DEF SpoolerInvariant, WellFormed, PidsAreForked, Tables
<1>child. child \in Process
  BY <1>pc DEF Process
<1>old. \A k \in DOMAIN jobs : jobs[k].pgid \in Nat /\ jobs[k].pgid < c
  <2> SUFFICES ASSUME NEW k \in DOMAIN jobs PROVE jobs[k].pgid \in Nat /\ jobs[k].pgid < c
    OBVIOUS
  <2>1. jobs[k] \in Job /\ jobs[k].pgid <= forks
    BY <1>type DEF SpoolerInvariant, WellFormed, PidsAreForked, Tables
  <2> QED
    BY <2>1, <1>type DEF Job
<1> HIDE DEF new, child
<1>set. /\ jobs' = [jobs EXCEPT ![Pos] = new] /\ busy' = busy /\ forks' = c
        /\ procs' = [d \in DOMAIN procs \cup {c} |-> IF d \in DOMAIN procs THEN procs[d] ELSE child]
  BY DEF Fork, SetTables, runJobProcess, Tables, new, child
<1>jobs. /\ jobs' \in Seq(Job) /\ Len(jobs') = Len(jobs) /\ DOMAIN jobs' = DOMAIN jobs
         /\ jobs'[Pos] = new /\ \A k \in DOMAIN jobs \ {Pos} : jobs'[k] = jobs[k]
  BY <1>type, <1>pc, <1>new, <1>set, ExceptSeq
<1>procs. /\ procs' \in UNION {[D -> Process] : D \in SUBSET Nat}
          /\ DOMAIN procs' = DOMAIN procs \cup {c}
          /\ procs'[c].printer = main.printer /\ \A d \in DOMAIN procs : procs'[d] = procs[d]
  <2>1. PICK D \in SUBSET Nat : procs \in [D -> Process]
    BY <1>type
  <2>2. procs' \in [D \cup {c} -> Process] /\ D \cup {c} \in SUBSET Nat
    BY <2>1, <1>c, <1>child, <1>set
  <2>3. procs' \in UNION {[E -> Process] : E \in SUBSET Nat}
    BY <2>2
  <2> QED
    BY <2>3, <1>c, <1>set DEF child
<1> HIDE DEF c
<1>tables. Tables' \in TablesSet
  BY <1>type, <1>pc, <1>c, <1>set, <1>jobs, <1>procs DEF Tables, TablesSet
<1>1. WellFormed(Tables)'
  <2>1. PidsAreForked(Tables')
    <3>1. \A k \in DOMAIN jobs' : jobs'[k].pgid <= c
      BY <1>jobs, <1>old, <1>new, <1>c
    <3>2. \A d \in DOMAIN procs' : d \in 1..c
      BY <1>procs, <1>c
    <3> QED
      BY <3>1, <3>2, <1>set DEF PidsAreForked, Tables
  <2>2. PrintersOwnTheirName(Tables')
    BY <1>pc DEF SpoolerInvariant, WellFormed, PrintersOwnTheirName, Tables
  <2>3. PgidsDiffer(Tables')
    <3> SUFFICES ASSUME NEW i \in DOMAIN jobs, NEW j \in DOMAIN jobs,
                        jobs'[i].pgid = jobs'[j].pgid, jobs'[i].pgid # 0
                 PROVE  i = j
      BY <1>jobs DEF PgidsDiffer, Tables
    <3>1. jobs[i].pgid # c /\ jobs[j].pgid # c
      BY <1>old, <1>c
    <3>2. CASE i # Pos /\ j # Pos
      BY <3>2, <1>jobs DEF SpoolerInvariant, WellFormed, PgidsDiffer, Tables
    <3> QED
      BY <3>1, <3>2, <1>jobs, <1>new
  <2>4. IdsIncrease(Tables')
    BY <1>jobs, <1>new DEF SpoolerInvariant, WellFormed, IdsIncrease, Tables
  <2>5. PrintersAreSuitable(Tables')
    <3>1. ASSUME NEW d \in DOMAIN procs' PROVE getPrinter(procs'[d].printer) = procs'[d].printer
      BY <1>pc, <1>procs DEF SpoolerInvariant, WellFormed, PrintersAreSuitable, Tables
    <3>2. ASSUME NEW d \in DOMAIN procs', NEW j \in DOMAIN jobs', jobs'[j].pgid = d
          PROVE  MayPrint(jobs'[j], procs'[d].printer)
      <4>1. CASE d = c
        <5>1. j = Pos
          BY <4>1, <3>2, <1>jobs, <1>old, <1>c
        <5> QED
          BY <4>1, <5>1, <1>pc, <1>jobs, <1>new, <1>procs DEF MayPrint
      <4>2. CASE d # c
        <5>1. d \in DOMAIN procs /\ j # Pos /\ j \in DOMAIN jobs
          BY <4>2, <3>2, <1>jobs, <1>new, <1>procs
        <5> QED
          BY <5>1, <3>2, <1>jobs, <1>procs
             DEF SpoolerInvariant, WellFormed, PrintersAreSuitable, Tables
      <4> QED
        BY <4>1, <4>2
    <3> QED
      BY <3>1, <3>2 DEF PrintersAreSuitable, Tables
  <2> QED
    BY <1>tables, <2>1, <2>2, <2>3, <2>4, <2>5 DEF WellFormed
<1>2. CountersOK'
  BY <1>pc, <1>jobs, <1>new DEF SpoolerInvariant, CountersOK
<1>3. MainOK' /\ NoWorkLeft' /\ JobInHand' /\ InHand' = {}
  <2>1. ASSUME NEW k \in 1..Scanned PROVE Waits(Tables', k)
    <3>1. k \in DOMAIN jobs /\ k # Pos
      BY <1>type, <1>pc DEF Scanned, Pos
    <3>2. Waits(Tables, k)
      BY DEF SpoolerInvariant, NoWorkLeft
    <3> QED
      BY <3>1, <3>2, <1>pc, <1>set, <1>jobs DEF Waits, Tables
  <2>2. main.job > 0 => Waits(Tables', main.job)
    BY <1>pc, <1>jobs, <1>new DEF Waits, Tables, Pos
  <2> QED
    BY <2>1, <2>2, <1>type, <1>pc, <1>jobs, NextJobStep
<1>4. ASSUME ~raced'
      PROVE  ~crashed' /\ Tracked(Tables') /\ BusyHaveProcess(Tables', InHand')
  <2>1. ~raced /\ ~crashed /\ Tracked(Tables) /\ BusyHaveProcess(Tables, InHand) /\ JobInHand
    BY <1>4, <1>pc DEF SpoolerInvariant, Consistent
  <2>2. /\ job.status = "RUNNING" /\ job.pgid = 0 /\ job.chosen = main.printer
        /\ main.printer \in busy /\ \A d \in DOMAIN procs : procs[d].printer # main.printer
    BY <2>1, <1>pc DEF JobInHand
  <2>3. Tracked(Tables')
    <3>1. ASSUME NEW d \in DOMAIN procs'
          PROVE  /\ \E k \in DOMAIN jobs' :
                        /\ jobs'[k].pgid = d
                        /\ jobs'[k].status \in {"RUNNING", "PAUSED"}
                        /\ jobs'[k].chosen = procs'[d].printer
                 /\ procs'[d].printer \in busy'
      <4>1. CASE d = c
        BY <4>1, <2>2, <1>pc, <1>set, <1>jobs, <1>new, <1>procs
      <4>2. CASE d # c
        <5>1. d \in DOMAIN procs /\ procs'[d] = procs[d] /\ procs[d].printer \in busy
          BY <4>2, <2>1, <1>procs DEF Tracked, Tables
        <5>2. PICK k \in DOMAIN jobs :
                        /\ jobs[k].pgid = d
                        /\ jobs[k].status \in {"RUNNING", "PAUSED"}
                        /\ jobs[k].chosen = procs[d].printer
          BY <5>1, <2>1 DEF Tracked, Tables
        <5>3. d # 0
          BY <5>1 DEF SpoolerInvariant, WellFormed, PidsAreForked, Tables
        <5>4. k # Pos
          BY <5>2, <5>3, <2>2
        <5> QED
          BY <5>1, <5>2, <5>4, <1>set, <1>jobs
      <4> QED
        BY <4>1, <4>2
    <3>2. ASSUME NEW d \in DOMAIN procs', NEW b \in DOMAIN procs',
                 procs'[d].printer = procs'[b].printer
          PROVE  d = b
      <4>1. CASE d \in DOMAIN procs /\ b \in DOMAIN procs
        BY <4>1, <3>2, <2>1, <1>procs DEF Tracked, Tables
      <4> QED
        BY <4>1, <3>2, <2>2, <1>procs
    <3>3. \A k \in DOMAIN jobs' : jobs'[k].status = "QUEUED" => jobs'[k].pgid = 0
      BY <2>1, <2>2, <1>jobs, <1>new DEF Tracked, Tables
    <3> QED
      BY <3>1, <3>2, <3>3 DEF Tracked, Tables
  <2>4. BusyHaveProcess(Tables', InHand')
    BY <2>1, <1>3, <1>pc, <1>set, <1>procs DEF BusyHaveProcess, Tables, InHand
  <2> QED
    BY <2>1, <2>3, <2>4, <1>pc
<1>5. EndedKept
  <2>1. jobs[Pos].status \in {"COMPLETED", "ABORTED"} => LateWrite(Pos)
    BY <1>pc DEF SpoolerInvariant, CountersOK, Consistent, JobInHand, LateWrite
  <2> QED
    BY <2>1, <1>jobs, <1>new, EndedKeptInPlace
<1> QED
  BY <1>1, <1>2, <1>3, <1>4, <1>5 DEF SpoolerInvariant, Consistent

\* What removeJobs leaves in the list.
LEMMA RemoveJobResult ==
    ASSUME NEW old, jobs \in Seq(Job), IdsIncrease(Tables), NEW r, r = removeJob(old)
    PROVE  /\ r \in Seq(Job) /\ Len(r) <= Len(jobs)
           /\ \A i \in DOMAIN r : \E k \in DOMAIN jobs : r[i] = jobs[k]
           /\ \A k \in DOMAIN jobs : jobs[k] \notin old => \E i \in DOMAIN r : r[i] = jobs[k]
           /\ \A i, j \in DOMAIN r : i < j => r[i].id < r[j].id
<1> DEFINE N == Len(jobs)
           step(u, k) == IF jobs[k] \in old THEN u ELSE Append(u, jobs[k])
           empty == <<>>
           kept == CHOOSE f : f = [k \in 0..N |-> IF k = 0 THEN empty ELSE step(f[k - 1], k)]
           F == [x \in Seq(Job) \X (1..N) |-> step(x[1], x[2])]
<1>type. N \in Nat /\ DOMAIN jobs = 1..N
  OBVIOUS
<1>empty. empty \in Seq(Job)
  OBVIOUS
<1>1. StepsWithin(Seq(Job), N, F)
  <2> SUFFICES ASSUME NEW u \in Seq(Job), NEW k \in 1..N PROVE step(u, k) \in Seq(Job)
    BY DEF StepsWithin
  <2> QED
    BY <1>type, AppendProperties
<1>r. r = kept[N]
  BY DEF removeJob
<1> HIDE DEF N, empty, step
<1>2. PICK f \in [0..N -> Seq(Job)] : FollowsSteps(f, N, empty, F)
  <2> HIDE DEF F
  <2> QED
    BY <1>1, <1>type, <1>empty, RecursionExists
<1>3. ASSUME NEW k \in 1..N PROVE f[k] = step(f[k - 1], k)
  <2>1. <<f[k - 1], k>> \in Seq(Job) \X (1..N)
    BY <1>type
  <2>2. f[k] = F[<<f[k - 1], k>>]
    BY <1>2 DEF FollowsSteps
  <2> QED
    BY <2>1, <2>2
<1>4. f = [k \in 0..N |-> IF k = 0 THEN empty ELSE step(f[k - 1], k)]
  BY <1>2, <1>3, <1>type DEF FollowsSteps
<1>5. kept = [k \in 0..N |-> IF k = 0 THEN empty ELSE step(kept[k - 1], k)]
  <2> HIDE DEF F
  <2> QED
    BY <1>4
<1> HIDE DEF kept, F
<1>6. kept[0] = empty /\ \A k \in 1..N : kept[k] = step(kept[k - 1], k)
  BY <1>5, <1>type
<1> DEFINE Good(u, n) == /\ u \in Seq(Job) /\ Len(u) <= n
                         /\ \A i \in DOMAIN u : \E k \in 1..n : u[i] = jobs[k]
                         /\ \A k \in 1..n : jobs[k] \notin old => \E i \in DOMAIN u : u[i] = jobs[k]
                         /\ \A i, j \in DOMAIN u : i < j => u[i].id < u[j].id
           T == {n \in 0..N : Good(kept[n], n)}
<1>7. 0 \in T
  <2>1. Good(empty, 0)
    BY DEF empty
  <2> QED
    BY <1>6, <1>type, <2>1
<1>8. ASSUME NEW n \in 1..N, n - 1 \in T PROVE n \in T
  <2> DEFINE u == kept[n - 1]
             v == kept[n]
  <2>1. Good(u, n - 1) /\ v = step(u, n)
    BY <1>6, <1>8
  <2> HIDE DEF u, v
  <2>2. CASE jobs[n] \in old
    <3>1. v = u
      BY <2>1, <2>2 DEF step
    <3>2. Good(u, n)
      BY <2>1, <2>2
    <3> HIDE DEF Good
    <3>3. Good(v, n)
      BY <3>1, <3>2
    <3> QED
      BY <3>3 DEF v
  <2>3. CASE jobs[n] \notin old
    <3>1. v = Append(u, jobs[n]) /\ jobs[n] \in Job /\ u \in Seq(Job)
      BY <2>1, <2>3, <1>type DEF step
    <3>2. /\ v \in Seq(Job) /\ Len(v) = Len(u) + 1 /\ v[Len(u) + 1] = jobs[n]
          /\ \A i \in 1..Len(u) : v[i] = u[i]
          /\ Len(u) \in Nat /\ DOMAIN u = 1..Len(u) /\ DOMAIN v = 1..(Len(u) + 1)
      BY <3>1, AppendProperties
    <3>3. Len(v) <= n
      BY <3>2, <2>1
    <3>4. ASSUME NEW i \in DOMAIN v PROVE \E k \in 1..n : v[i] = jobs[k]
      BY <3>2, <2>1
    <3>5. ASSUME NEW k \in 1..n, jobs[k] \notin old PROVE \E i \in DOMAIN v : v[i] = jobs[k]
      <4>1. CASE k = n
        BY <4>1, <3>2
      <4>2. CASE k # n
        <5>1. k \in 1..(n - 1)
          BY <4>2
        <5>2. PICK i \in DOMAIN u : u[i] = jobs[k]
          BY <5>1, <3>5, <2>1
        <5>3. i \in DOMAIN v /\ v[i] = u[i]
          BY <3>2
        <5> QED
          BY <5>2, <5>3
      <4> QED
        BY <4>1, <4>2
    <3>6. ASSUME NEW i \in DOMAIN v, NEW j \in DOMAIN v, i < j PROVE v[i].id < v[j].id
      <4>1. i \in 1..Len(u) /\ v[i] = u[i]
        BY <3>2, <3>6
      <4>2. CASE j = Len(u) + 1
        <5>1. PICK k \in 1..(n - 1) : u[i] = jobs[k]
          BY <4>1, <3>2, <2>1
        <5>2. k \in DOMAIN jobs /\ n \in DOMAIN jobs /\ k < n
          BY <1>type
        <5>3. jobs[k].id < jobs[n].id
          BY <5>2 DEF IdsIncrease, Tables
        <5> QED
          BY <4>1, <4>2, <5>1, <5>3, <3>2
      <4>3. CASE j # Len(u) + 1
        <5>1. j \in 1..Len(u) /\ v[j] = u[j]
          BY <4>3, <3>2
        <5> QED
          BY <4>1, <5>1, <3>6, <3>2, <2>1
      <4> QED
        BY <4>2, <4>3
    <3>7. Good(v, n)
      BY <3>2, <3>3, <3>4, <3>5, <3>6
    <3> HIDE DEF Good
    <3> QED
      BY <3>7 DEF v
  <2> QED
    BY <2>2, <2>3
<1> HIDE DEF T
<1>9. N \in T
  <2>1. \A n \in 0..N : n \in T
    BY <1>type, <1>7, <1>8, BoundedInduction, Zenon
  <2> QED
    BY <2>1, <1>type
<1>10. Good(kept[N], N)
  BY <1>9 DEF T
<1> QED
  BY <1>10, <1>r, <1>type DEF N

\* removeJobs takes old jobs off the list.
LEMMA RemoveJobsStep ==
    ASSUME SpoolerInvariant, removeJobs
    PROVE  SpoolerInvariant' /\ EndedKept
<1>type. /\ Tables \in TablesSet /\ enabled \in SUBSET Printers /\ busy \in SUBSET Printers
         /\ jobs \in Seq(Job) /\ Len(jobs) \in Nat /\ DOMAIN jobs = 1..Len(jobs)
         /\ procs \in UNION {[D -> Process] : D \in SUBSET Nat}
         /\ forks \in Nat /\ main \in Places
  BY VariablesTyped
<1>pc. /\ main.pc = "scan" /\ main.job = Len(jobs) + 1
       /\ main' = At("prompt", 0, NoPrinter, FALSE)
       /\ UNCHANGED <<printed, enabled, busy, procs, forks, sigchld, crashed, raced>>
  BY <1>type DEF SpoolerInvariant, MainOK, removeJobs, Here, Places
<1>main. main' \in Places /\ main'.pc = "prompt" /\ main'.job = 0
  BY <1>pc DEF At, Places
<1>1. PICK old : /\ \A j \in old : j.status \in {"COMPLETED", "ABORTED"}
                 /\ jobs' = removeJob(old)
  BY DEF removeJobs
<1>2. /\ jobs' \in Seq(Job) /\ Len(jobs') <= Len(jobs)
      /\ \A i \in DOMAIN jobs' : \E k \in DOMAIN jobs : jobs'[i] = jobs[k]
      /\ \A k \in DOMAIN jobs : jobs[k] \notin old => \E i \in DOMAIN jobs' : jobs'[i] = jobs[k]
      /\ \A i, j \in DOMAIN jobs' : i < j => jobs'[i].id < jobs'[j].id
  BY <1>1, <1>type, RemoveJobResult DEF SpoolerInvariant, WellFormed
<1>3. WellFormed(Tables)'
  <2>1. Tables' \in TablesSet
    BY <1>2, <1>type, <1>pc DEF Tables, TablesSet
  <2>2. PidsAreForked(Tables')
    BY <1>2, <1>pc DEF SpoolerInvariant, WellFormed, PidsAreForked, Tables
  <2>3. PrintersOwnTheirName(Tables') /\ IdsIncrease(Tables')
    BY <1>2, <1>pc DEF SpoolerInvariant, WellFormed, PrintersOwnTheirName, IdsIncrease, Tables
  <2>4. PrintersAreSuitable(Tables')
    BY <1>2, <1>pc DEF SpoolerInvariant, WellFormed, PrintersAreSuitable, Tables
  <2>5. PgidsDiffer(Tables')
    <3> SUFFICES ASSUME NEW i \in DOMAIN jobs', NEW j \in DOMAIN jobs',
                        jobs'[i].pgid = jobs'[j].pgid, jobs'[i].pgid # 0
                 PROVE  i = j
      BY DEF PgidsDiffer, Tables
    <3>1. PICK k \in DOMAIN jobs : jobs'[i] = jobs[k]
      BY <1>2
    <3>2. PICK m \in DOMAIN jobs : jobs'[j] = jobs[m]
      BY <1>2
    <3>3. k = m
      BY <3>1, <3>2 DEF SpoolerInvariant, WellFormed, PgidsDiffer, Tables
    <3>4. jobs'[i] = jobs'[j] /\ jobs'[i].id \in Int
      <4>1. jobs[k] \in Job
        BY <1>type
      <4>2. jobs[k].id \in Int
        BY <4>1, ImprimerAssumption DEF Job
      <4> QED
        BY <3>1, <3>2, <3>3, <4>2
    <3>5. i \in Nat /\ j \in Nat /\ ~(i < j) /\ ~(j < i)
      BY <3>4, <1>2
    <3> QED
      BY <3>5
  <2> QED
    BY <2>1, <2>2, <2>3, <2>4, <2>5 DEF WellFormed
<1>4. CountersOK'
  BY <1>2, <1>type, <1>pc DEF SpoolerInvariant, CountersOK
<1>5. MainOK'
  BY <1>main DEF MainOK
<1>6. NoWorkLeft'
  <2> SUFFICES ASSUME NEW i \in 1..Len(jobs') PROVE Waits(Tables', i)
    BY <1>pc, <1>main DEF NoWorkLeft, Scanned, At
  <2>1. PICK k \in DOMAIN jobs : jobs'[i] = jobs[k]
    BY <1>2
  <2>2. k \in 1..Scanned
    BY <1>type, <1>pc DEF Scanned
  <2>3. Waits(Tables, k)
    BY <2>2 DEF SpoolerInvariant, NoWorkLeft
  <2> QED
    BY <2>1, <2>3, <1>pc DEF Waits, Tables
<1>7. ASSUME ~raced'
      PROVE  ~crashed' /\ Tracked(Tables') /\ BusyHaveProcess(Tables', InHand') /\ JobInHand'
  <2>1. ~raced /\ ~crashed /\ Tracked(Tables) /\ BusyHaveProcess(Tables, InHand) /\ JobInHand
    BY <1>7, <1>pc DEF SpoolerInvariant, Consistent
  <2>2. Tracked(Tables')
    <3>1. ASSUME NEW c \in DOMAIN procs
          PROVE  \E i \in DOMAIN jobs' :
                    /\ jobs'[i].pgid = c
                    /\ jobs'[i].status \in {"RUNNING", "PAUSED"}
                    /\ jobs'[i].chosen = procs[c].printer
      <4>1. PICK k \in DOMAIN jobs :
                    /\ jobs[k].pgid = c
                    /\ jobs[k].status \in {"RUNNING", "PAUSED"}
                    /\ jobs[k].chosen = procs[c].printer
        BY <2>1 DEF Tracked, Tables
      <4>2. jobs[k] \notin old
        BY <1>1, <4>1
      <4> QED
        BY <4>1, <4>2, <1>2
    <3>2. \A i \in DOMAIN jobs' : jobs'[i].status = "QUEUED" => jobs'[i].pgid = 0
      BY <2>1, <1>2 DEF Tracked, Tables
    <3> QED
      BY <2>1, <3>1, <3>2, <1>pc DEF Tracked, Tables
  <2>3. BusyHaveProcess(Tables', InHand')
    BY <2>1, <1>pc, <1>main DEF BusyHaveProcess, Tables, InHand
  <2>4. JobInHand'
    BY <1>main DEF JobInHand
  <2> QED
    BY <2>1, <2>2, <2>3, <2>4, <1>pc
<1>8. EndedKept
  <2> SUFFICES ASSUME NEW k \in DOMAIN jobs, NEW m \in DOMAIN jobs', jobs'[m].id = jobs[k].id
               PROVE  jobs'[m] = jobs[k]
    BY DEF EndedKept
  <2>1. PICK j \in DOMAIN jobs : jobs'[m] = jobs[j]
    BY <1>2
  <2>2. j = k
    BY <2>1, IdsDiffer
  <2> QED
    BY <2>1, <2>2
<1> QED
  BY <1>3, <1>4, <1>5, <1>6, <1>7, <1>8 DEF SpoolerInvariant, Consistent

-----------------------------------------------------------------------------
(* The commands.                                                           *)

\* After a command main is at the prompt of the script, or goes through the
\* list from its start.
LEMMA AfterCommandStep ==
    ASSUME main \in Places, main.pc = "prompt", main.job = 0, AfterCommand, jobs' \in Seq(Job)
    PROVE  MainOK' /\ NoWorkLeft' /\ JobInHand' /\ InHand' = {}
<1>1. /\ main' \in Places
      /\ \/ main'.pc = "prompt" /\ main'.job = 0 /\ main'.batch
         \/ main'.pc = "scan" /\ main'.job = 1
  <2>1. CASE main.batch /\ main' = main
    BY <2>1
  <2>2. CASE main' = At("scan", 1, NoPrinter, FALSE)
    BY <2>2 DEF Places, At
  <2> QED
    BY <2>1, <2>2 DEF AfterCommand
<1>2. MainOK'
  BY <1>1 DEF MainOK
<1>3. Scanned' = 0
  BY <1>1 DEF Scanned
<1> QED
  BY <1>1, <1>2, <1>3 DEF NoWorkLeft, JobInHand, InHand

\* The command print adds a job.
LEMMA PrintStep ==
    ASSUME SpoolerInvariant, NEW type \in FileTypes, NEW set \in PrinterSets, print(type, set)
    PROVE  SpoolerInvariant' /\ EndedKept
<1> DEFINE new == [id |-> printed, type |-> type, set |-> set, status |-> "QUEUED",
                   chosen |-> NoPrinter, pgid |-> 0]
           L == Len(jobs)
<1>type. /\ Tables \in TablesSet /\ enabled \in SUBSET Printers /\ busy \in SUBSET Printers
         /\ jobs \in Seq(Job) /\ L \in Nat /\ DOMAIN jobs = 1..L
         /\ procs \in UNION {[D -> Process] : D \in SUBSET Nat}
         /\ forks \in Nat /\ main \in Places
  BY VariablesTyped
<1>pc. /\ main.pc = "prompt" /\ printed \in 0..MaxJobs /\ printed < MaxJobs /\ MaxJobs \in Nat
       /\ jobs' = Append(jobs, new) /\ printed' = printed + 1
       /\ UNCHANGED <<enabled, busy, procs, forks, sigchld, crashed, raced>>
  BY ImprimerAssumption DEF SpoolerInvariant, CountersOK, print, AtPrompt
<1>new. /\ new \in Job /\ new.id = printed /\ new.status = "QUEUED" /\ new.pgid = 0
  BY <1>pc, ImprimerAssumption DEF Job, Status
<1> HIDE DEF new
<1>jobs. /\ jobs' \in Seq(Job) /\ Len(jobs') = L + 1 /\ DOMAIN jobs' = 1..(L + 1)
         /\ jobs'[L + 1] = new /\ \A k \in 1..L : jobs'[k] = jobs[k]
  BY <1>type, <1>pc, <1>new, AppendProperties
<1> HIDE DEF L
<1>main. /\ main' \in Places /\ main'.pc = "choose" /\ main'.job = -(L + 1) /\ Pos' = L + 1
  <2>1. PICK b \in {main.batch, FALSE} : main' = At("choose", -(L + 1), NoPrinter, b)
    BY <1>jobs DEF print
  <2>2. b \in BOOLEAN
    BY <1>type DEF Places
  <2>3. main'.pc = "choose" /\ main'.job = -(L + 1) /\ main' \in Places
    BY <2>1, <2>2, <1>type DEF At, Places
  <2> QED
    BY <2>3, <1>type DEF Pos
<1>1. WellFormed(Tables)'
  <2>1. Tables' \in TablesSet
    BY <1>type, <1>pc, <1>jobs DEF Tables, TablesSet
  <2>2. PidsAreForked(Tables')
    BY <1>type, <1>pc, <1>jobs, <1>new DEF SpoolerInvariant, WellFormed, PidsAreForked, Tables
  <2>3. PrintersOwnTheirName(Tables')
    BY <1>pc DEF SpoolerInvariant, WellFormed, PrintersOwnTheirName, Tables
  <2>4. PgidsDiffer(Tables')
    BY <1>type, <1>jobs, <1>new DEF SpoolerInvariant, WellFormed, PgidsDiffer, Tables
  <2>5. IdsIncrease(Tables')
    <3> SUFFICES ASSUME NEW i \in 1..(L + 1), NEW j \in 1..(L + 1), i < j
                 PROVE  jobs'[i].id < jobs'[j].id
      BY <1>jobs DEF IdsIncrease, Tables
    <3>1. i \in DOMAIN jobs /\ jobs'[i] = jobs[i] /\ jobs[i].id < printed
      BY <1>type, <1>jobs DEF SpoolerInvariant, CountersOK
    <3>2. CASE j = L + 1
      BY <3>1, <3>2, <1>jobs, <1>new
    <3>3. CASE j # L + 1
      <4>1. j \in DOMAIN jobs /\ jobs'[j] = jobs[j]
        BY <3>3, <1>type, <1>jobs
      <4> QED
        BY <3>1, <4>1 DEF SpoolerInvariant, WellFormed, IdsIncrease, Tables
    <3> QED
      BY <3>2, <3>3
  <2>6. PrintersAreSuitable(Tables')
    <3>1. \A c \in DOMAIN procs : c # 0
      BY DEF SpoolerInvariant, WellFormed, PidsAreForked, Tables
    <3> QED
      BY <3>1, <1>type, <1>pc, <1>jobs, <1>new
         DEF SpoolerInvariant, WellFormed, PrintersAreSuitable, Tables
  <2> QED
    BY <2>1, <2>2, <2>3, <2>4, <2>5, <2>6 DEF WellFormed
<1>2. CountersOK'
  <2>1. Len(jobs') <= printed' /\ printed' \in 0..MaxJobs
    BY <1>type, <1>pc, <1>jobs DEF SpoolerInvariant, CountersOK, L
  <2>2. ASSUME NEW k \in DOMAIN jobs' PROVE jobs'[k].id < printed'
    <3>1. CASE k = L + 1
      BY <3>1, <1>pc, <1>jobs, <1>new
    <3>2. CASE k # L + 1
      <4>1. k \in DOMAIN jobs /\ jobs'[k] = jobs[k] /\ jobs[k] \in Job
        BY <3>2, <1>type, <1>jobs
      <4>2. jobs[k].id < printed /\ jobs[k].id \in Int
        BY <4>1, <1>pc DEF SpoolerInvariant, CountersOK, Job
      <4> QED
        BY <4>1, <4>2, <1>pc
    <3> QED
      BY <3>1, <3>2
  <2> QED
    BY <2>1, <2>2, <1>pc DEF SpoolerInvariant, CountersOK
<1>3. MainOK'
  BY <1>type, <1>main, <1>jobs DEF MainOK
<1>4. NoWorkLeft'
  <2>1. Scanned' = 0
    BY <1>type, <1>main DEF Scanned
  <2> QED
    BY <2>1, <1>main DEF NoWorkLeft
<1>5. ASSUME ~raced'
      PROVE  ~crashed' /\ Tracked(Tables') /\ BusyHaveProcess(Tables', InHand') /\ JobInHand'
  <2>1. ~raced /\ ~crashed /\ Tracked(Tables) /\ BusyHaveProcess(Tables, InHand)
    BY <1>5, <1>pc DEF SpoolerInvariant, Consistent
  <2>2. Tracked(Tables')
    <3>1. ASSUME NEW c \in DOMAIN procs
          PROVE  \E k \in DOMAIN jobs' :
                    /\ jobs'[k].pgid = c
                    /\ jobs'[k].status \in {"RUNNING", "PAUSED"}
                    /\ jobs'[k].chosen = procs[c].printer
      <4>1. PICK k \in DOMAIN jobs :
                    /\ jobs[k].pgid = c
                    /\ jobs[k].status \in {"RUNNING", "PAUSED"}
                    /\ jobs[k].chosen = procs[c].printer
        BY <2>1 DEF Tracked, Tables
      <4>2. k \in DOMAIN jobs' /\ jobs'[k] = jobs[k]
        BY <1>type, <1>jobs
      <4> QED
        BY <4>1, <4>2
    <3>2. \A k \in DOMAIN jobs' : jobs'[k].status = "QUEUED" => jobs'[k].pgid = 0
      BY <2>1, <1>type, <1>jobs, <1>new DEF Tracked, Tables
    <3> QED
      BY <2>1, <3>1, <3>2, <1>pc DEF Tracked, Tables
  <2>3. BusyHaveProcess(Tables', InHand')
    BY <2>1, <1>pc, <1>main DEF BusyHaveProcess, Tables, InHand
  <2>4. JobInHand'
    BY <1>main, <1>jobs, <1>new DEF JobInHand
  <2> QED
    BY <2>1, <2>2, <2>3, <2>4, <1>pc
<1>6. EndedKept
  <2> SUFFICES ASSUME NEW k \in DOMAIN jobs, NEW m \in DOMAIN jobs', jobs'[m].id = jobs[k].id
               PROVE  jobs'[m] = jobs[k]
    BY DEF EndedKept
  <2>1. jobs[k].id # printed
    BY <1>pc DEF SpoolerInvariant, CountersOK
  <2>2. m # L + 1
    BY <2>1, <1>jobs, <1>new
  <2>3. m \in DOMAIN jobs /\ jobs'[m] = jobs[m]
    BY <2>2, <1>type, <1>jobs
  <2>4. m = k
    BY <2>3, IdsDiffer
  <2> QED
    BY <2>3, <2>4
<1> QED
  BY <1>1, <1>2, <1>3, <1>4, <1>5, <1>6 DEF SpoolerInvariant, Consistent

\* The commands enable and disable.
LEMMA EnableStep ==
    ASSUME SpoolerInvariant, NEW p \in Printers, enablePrinter(p) \/ disablePrinter(p)
    PROVE  SpoolerInvariant'
<1>type. /\ Tables \in TablesSet /\ enabled \in SUBSET Printers /\ jobs \in Seq(Job) /\ main \in Places
         /\ busy \in SUBSET Printers /\ procs \in UNION {[D -> Process] : D \in SUBSET Nat}
         /\ forks \in Nat
  BY VariablesTyped
<1>pc. /\ main.pc = "prompt" /\ main.job = 0 /\ AfterCommand
       /\ enabled' \subseteq enabled \cup {getPrinter(p)}
       /\ UNCHANGED <<jobs, printed, busy, procs, forks, sigchld, crashed, raced>>
  BY DEF SpoolerInvariant, MainOK, enablePrinter, disablePrinter, AtPrompt
<1>1. MainOK' /\ NoWorkLeft' /\ JobInHand' /\ InHand' = {}
  BY <1>type, <1>pc, AfterCommandStep
<1>2. WellFormed(Tables)'
  <2>1. getPrinter(p) \in Printers /\ getPrinter(getPrinter(p)) = getPrinter(p)
    BY PrinterFound
  <2>2. Tables' \in TablesSet
    BY <2>1, <1>type, <1>pc DEF Tables, TablesSet
  <2>3. PrintersOwnTheirName(Tables')
    BY <2>1, <1>pc DEF SpoolerInvariant, WellFormed, PrintersOwnTheirName, Tables
  <2>4. PidsAreForked(Tables') /\ PgidsDiffer(Tables') /\ IdsIncrease(Tables')
    BY <1>pc DEF SpoolerInvariant, WellFormed, PidsAreForked, PgidsDiffer, IdsIncrease, Tables
  <2>5. PrintersAreSuitable(Tables')
    BY <1>pc DEF SpoolerInvariant, WellFormed, PrintersAreSuitable, Tables
  <2> QED
    BY <2>2, <2>3, <2>4, <2>5 DEF WellFormed
<1>3. CountersOK'
  BY <1>pc DEF SpoolerInvariant, CountersOK
<1>4. Consistent'
  <2>1. InHand = {}
    BY <1>pc DEF InHand
  <2>2. Tracked(Tables) => Tracked(Tables')
    BY <1>pc DEF Tracked, Tables
  <2>3. BusyHaveProcess(Tables, InHand) => BusyHaveProcess(Tables', InHand')
    BY <2>1, <1>1, <1>pc DEF BusyHaveProcess, Tables
  <2> QED
    BY <1>1, <2>2, <2>3, <1>pc DEF SpoolerInvariant, Consistent
<1> QED
  BY <1>1, <1>2, <1>3, <1>4 DEF SpoolerInvariant

\* help, jobs, printers, and quit.
LEMMA OtherCommandStep ==
    ASSUME SpoolerInvariant, otherCommand \/ quit
    PROVE  SpoolerInvariant'
<1>type. main \in Places /\ jobs \in Seq(Job)
  BY VariablesTyped
<1>pc. /\ main.pc = "prompt" /\ main.job = 0
       /\ UNCHANGED <<jobs, printed, enabled, busy, procs, forks, sigchld, crashed, raced>>
  BY DEF SpoolerInvariant, MainOK, otherCommand, quit, AtPrompt
<1>1. /\ Tables' = Tables /\ WellFormed(Tables)' /\ CountersOK'
      /\ InHand' = {} /\ (~raced => JobInHand') => Consistent'
  BY <1>pc, MainMoved
<1>2. MainOK' /\ NoWorkLeft' /\ JobInHand' /\ InHand' = {}
  <2>1. CASE AfterCommand
    BY <2>1, <1>type, <1>pc, AfterCommandStep
  <2>2. CASE main' = [main EXCEPT !.pc = "exited"]
    <3>1. main' \in Places /\ main'.pc = "exited" /\ main'.job = 0
      BY <2>2, <1>type, <1>pc DEF Places
    <3>2. Scanned' = 0
      BY <3>1 DEF Scanned
    <3> QED
      BY <3>1, <3>2 DEF MainOK, NoWorkLeft, JobInHand, InHand
  <2> QED
    BY <2>1, <2>2 DEF otherCommand, quit
<1> QED
  BY <1>1, <1>2 DEF SpoolerInvariant

-----------------------------------------------------------------------------
(* The processes.                                                          *)

\* Processes may change, but neither come nor go nor take other printers.
SameProcesses ==
    /\ procs' \in UNION {[D -> Process] : D \in SUBSET Nat}
    /\ DOMAIN procs' = DOMAIN procs
    /\ \A c \in DOMAIN procs : procs'[c].printer = procs[c].printer

\* Nothing that a process does by itself disturbs the tables.
LEMMA ProcessesMoved ==
    ASSUME SpoolerInvariant, SameProcesses, sigchld' \in BOOLEAN,
           UNCHANGED <<jobs, printed, enabled, busy, forks, crashed, raced>>
    PROVE  /\ WellFormed(Tables)' /\ CountersOK'
           /\ Tracked(Tables) => Tracked(Tables')
           /\ \A X : BusyHaveProcess(Tables, X) => BusyHaveProcess(Tables', X)
           /\ \A k : Waits(Tables, k) => Waits(Tables', k)
<1>type. /\ Tables \in TablesSet /\ enabled \in SUBSET Printers /\ busy \in SUBSET Printers
         /\ jobs \in Seq(Job) /\ forks \in Nat
  BY VariablesTyped
<1>1. Tables' \in TablesSet /\ Alike(Tables, Tables')
  BY <1>type DEF SameProcesses, Tables, TablesSet, Alike
<1>2. WellFormed(Tables)'
  BY <1>1, AlikeWellFormed DEF SpoolerInvariant
<1>3. CountersOK'
  BY DEF SpoolerInvariant, CountersOK
<1>4. Tracked(Tables) => Tracked(Tables')
  BY DEF SameProcesses, Tracked, Tables
<1>5. \A X : BusyHaveProcess(Tables, X) => BusyHaveProcess(Tables', X)
  BY DEF SameProcesses, BusyHaveProcess, Tables
<1>6. \A k : Waits(Tables, k) => Waits(Tables', k)
  BY DEF Waits, Tables
<1> QED
  BY <1>2, <1>3, <1>4, <1>5, <1>6

\* A step of a process while main stays where it is.
LEMMA ProcessStep ==
    ASSUME SpoolerInvariant, SameProcesses, sigchld' \in BOOLEAN,
           UNCHANGED <<jobs, printed, enabled, busy, forks, main, crashed, raced>>
    PROVE  SpoolerInvariant'
<1>1. /\ WellFormed(Tables)' /\ CountersOK'
      /\ Tracked(Tables) => Tracked(Tables')
      /\ \A X : BusyHaveProcess(Tables, X) => BusyHaveProcess(Tables', X)
      /\ \A k : Waits(Tables, k) => Waits(Tables', k)
  BY ProcessesMoved
<1>2. Pos' = Pos /\ Scanned' = Scanned /\ InHand' = InHand
  BY DEF Pos, Scanned, InHand
<1>3. MainOK'
  BY <1>2 DEF SpoolerInvariant, MainOK
<1>4. NoWorkLeft'
  BY <1>1, <1>2 DEF SpoolerInvariant, NoWorkLeft
<1>5. JobInHand => JobInHand'
  BY <1>2 DEF JobInHand, SameProcesses
<1>6. Consistent'
  BY <1>1, <1>2, <1>5 DEF SpoolerInvariant, Consistent
<1> QED
  BY <1>1, <1>3, <1>4, <1>6 DEF SpoolerInvariant

\* Changing one process but for its printer.
LEMMA OneProcessChanged ==
    ASSUME SpoolerInvariant, NEW c \in DOMAIN procs, NEW r \in Process,
           r.printer = procs[c].printer, procs' = [procs EXCEPT ![c] = r]
    PROVE  SameProcesses
<1>1. PICK D \in SUBSET Nat : procs \in [D -> Process]
  BY VariablesTyped
<1>2. procs' \in [D -> Process] /\ DOMAIN procs' = DOMAIN procs
  BY <1>1
<1>3. procs' \in UNION {[E -> Process] : E \in SUBSET Nat}
  BY <1>2
<1>4. \A d \in DOMAIN procs : procs'[d].printer = procs[d].printer
  BY <1>1
<1> QED
  BY <1>2, <1>3, <1>4 DEF SameProcesses

\* A signal makes a process of a process, with the same printer.
LEMMA EffectIsProcess ==
    ASSUME NEW r \in Process, NEW sig \in {"SIGTSTP", "SIGCONT", "SIGTERM"}
    PROVE  Effect(sig, r) \in Process /\ Effect(sig, r).printer = r.printer
<1>1. CASE sig = "SIGTSTP"
  <2>1. Effect(sig, r) = Stopped(r)
    BY <1>1, Zenon DEF Effect
  <2>2. Stopped(r) \in Process /\ Stopped(r).printer = r.printer
    BY DEF Stopped, Process
  <2> QED
    BY <2>1, <2>2
<1>2. CASE sig = "SIGCONT"
  <2>1. Effect(sig, r) = Continued(r)
    BY <1>2, Zenon DEF Effect
  <2>2. Continued(r) \in Process /\ Continued(r).printer = r.printer
    BY DEF Continued, Process
  <2> QED
    BY <2>1, <2>2
<1>3. CASE sig = "SIGTERM"
  <2>1. Effect(sig, r) = Terminated(r)
    BY <1>3, Zenon DEF Effect
  <2>2. Terminated(r) \in Process /\ Terminated(r).printer = r.printer
    BY DEF Terminated, Process
  <2> QED
    BY <2>1, <2>2
<1> QED
  BY <1>1, <1>2, <1>3

\* The commands pause, resume and cancel send a signal to a job's process group.
LEMMA SignalStep ==
    ASSUME SpoolerInvariant, NEW status \in Status, NEW sig \in {"SIGTSTP", "SIGCONT", "SIGTERM"},
           signalJob(status, sig)
    PROVE  SpoolerInvariant'
<1>type. main \in Places /\ jobs \in Seq(Job) /\ \A c \in DOMAIN procs : procs[c] \in Process
  BY VariablesTyped
<1>pc. /\ main.pc = "prompt" /\ main.job = 0 /\ AfterCommand
       /\ UNCHANGED <<jobs, printed, enabled, busy, forks, crashed, raced>>
  BY DEF SpoolerInvariant, MainOK, signalJob, AtPrompt
<1>1. PICK k \in DOMAIN jobs : killpg(jobs[k].pgid, sig)
  BY DEF signalJob
<1> DEFINE c == jobs[k].pgid
<1>2. SameProcesses
  <2>1. CASE Reached(c)
    <3>1. c \in DOMAIN procs /\ procs' = [procs EXCEPT ![c] = Effect(sig, procs[c])]
      BY <1>1, <2>1 DEF killpg, Reached
    <3>2. Effect(sig, procs[c]) \in Process /\ Effect(sig, procs[c]).printer = procs[c].printer
      BY <1>type, <3>1, EffectIsProcess
    <3> HIDE DEF c
    <3> QED
      BY <3>1, <3>2, OneProcessChanged
  <2>2. CASE ~Reached(c)
    <3>1. procs' = procs
      BY <1>1, <2>2 DEF killpg
    <3> QED
      BY <3>1, VariablesTyped DEF SameProcesses
  <2> QED
    BY <2>1, <2>2
<1>3. sigchld' \in BOOLEAN
  BY <1>1, Zenon DEF killpg
<1>4. /\ WellFormed(Tables)' /\ CountersOK'
      /\ Tracked(Tables) => Tracked(Tables')
      /\ \A X : BusyHaveProcess(Tables, X) => BusyHaveProcess(Tables', X)
  BY <1>2, <1>3, <1>pc, ProcessesMoved
<1>5. MainOK' /\ NoWorkLeft' /\ JobInHand' /\ InHand' = {}
  BY <1>type, <1>pc, AfterCommandStep
<1>6. InHand = {}
  BY <1>pc DEF InHand
<1> QED
  BY <1>4, <1>5, <1>6, <1>pc DEF SpoolerInvariant, Consistent

\* A process calls setpgid, or ends.
LEMMA ChildStep ==
    ASSUME SpoolerInvariant, NEW c \in DOMAIN procs, Setpgid(c) \/ Exit(c)
    PROVE  SpoolerInvariant'
<1>type. procs[c] \in Process
  BY VariablesTyped
<1>1. PICK l \in {"running", "success", "failure"} : procs' = [procs EXCEPT ![c].life = l]
  BY DEF Setpgid, Exit
<1> DEFINE r == [procs[c] EXCEPT !.life = l]
<1>2. r \in Process /\ r.printer = procs[c].printer
  BY <1>type DEF Process
<1>3. SameProcesses
  <2>1. procs' = [procs EXCEPT ![c] = r]
    BY <1>1
  <2> HIDE DEF r
  <2> QED
    BY <1>2, <2>1, OneProcessChanged
<1>4. /\ sigchld' \in BOOLEAN
      /\ UNCHANGED <<jobs, printed, enabled, busy, forks, main, crashed, raced>>
  BY DEF Setpgid, Exit, SpoolerInvariant, CountersOK
<1> QED
  BY <1>3, <1>4, ProcessStep

-----------------------------------------------------------------------------
(* printHandler.                                                           *)

\* The job that the handler finds; without a race there is one.
LEMMA JobFound ==
    ASSUME SpoolerInvariant, NEW c \in DOMAIN procs
    PROVE  /\ getJobByPID(c) # 0 =>
                  /\ getJobByPID(c) \in DOMAIN jobs /\ jobs[getJobByPID(c)].pgid = c
           /\ ~raced => /\ getJobByPID(c) # 0
                        /\ jobs[getJobByPID(c)].status \in {"RUNNING", "PAUSED"}
                        /\ jobs[getJobByPID(c)].chosen = procs[c].printer
<1> DEFINE ks == {k \in DOMAIN jobs : jobs[k].pgid = c}
<1>type. jobs \in Seq(Job) /\ Len(jobs) \in Nat /\ DOMAIN jobs = 1..Len(jobs)
  BY VariablesTyped
<1>0. ks \subseteq Nat
  BY <1>type
<1>1. CASE ks # {}
  <2>1. getJobByPID(c) = Min(ks)
    BY <1>1 DEF getJobByPID
  <2>2. Min(ks) \in ks
    <3> HIDE DEF ks
    <3> QED
      BY <1>0, <1>1, MinIsLeast
  <2>3. ASSUME ~raced
        PROVE  /\ jobs[Min(ks)].status \in {"RUNNING", "PAUSED"}
               /\ jobs[Min(ks)].chosen = procs[c].printer
    <3>1. PICK k \in DOMAIN jobs :
                /\ jobs[k].pgid = c
                /\ jobs[k].status \in {"RUNNING", "PAUSED"}
                /\ jobs[k].chosen = procs[c].printer
      BY <2>3 DEF SpoolerInvariant, Consistent, Tracked, Tables
    <3>2. c # 0
      BY DEF SpoolerInvariant, WellFormed, PidsAreForked, Tables
    <3>3. Min(ks) \in DOMAIN jobs /\ jobs[Min(ks)].pgid = c
      BY <2>2
    <3>4. Min(ks) = k
      <4> HIDE DEF ks
      <4> QED
        BY <3>1, <3>2, <3>3 DEF SpoolerInvariant, WellFormed, PgidsDiffer, Tables
    <3> QED
      BY <3>1, <3>4
  <2>4. Min(ks) # 0
    BY <2>2, <1>type
  <2> QED
    BY <2>1, <2>2, <2>3, <2>4
<1>2. CASE ks = {}
  <2>1. getJobByPID(c) = 0
    BY <1>2 DEF getJobByPID
  <2>2. raced
    BY <1>2 DEF SpoolerInvariant, Consistent, Tracked, Tables
  <2> QED
    BY <2>1, <2>2
<1> QED
  BY <1>1, <1>2

\* The handler follows a NULL pointer only after a race.
LEMMA CrashStep ==
    ASSUME SpoolerInvariant, NEW c \in DOMAIN procs, getJobByPID(c) = 0, crashed' = TRUE,
           sigchld' \in BOOLEAN, UNCHANGED <<jobs, printed, enabled, busy, procs, forks, main, raced>>
    PROVE  SpoolerInvariant' /\ EndedKept
<1>1. raced
  BY JobFound
<1>2. Tables' = Tables /\ Pos' = Pos /\ Scanned' = Scanned
  BY DEF Tables, Pos, Scanned
<1>3. WellFormed(Tables)' /\ CountersOK'
  BY <1>2 DEF SpoolerInvariant, CountersOK
<1>4. MainOK' /\ NoWorkLeft'
  BY <1>2 DEF SpoolerInvariant, MainOK, NoWorkLeft
<1>5. EndedKept
  BY EndedKeptInPlace
<1> QED
  BY <1>1, <1>3, <1>4, <1>5 DEF SpoolerInvariant, Consistent

\* completeJob, abortJob, pauseJob and resumeJob leave waiting jobs alone and
\* make no job wait.
LEMMA StatusChanges ==
    ASSUME NEW status \in Status, NEW life, NEW note
    PROVE  /\ statusAfterEnd(status, life) \in Status /\ statusAfterNote(status, note) \in Status
           /\ statusAfterEnd(status, life) = "QUEUED" <=> status = "QUEUED"
           /\ statusAfterNote(status, note) = "QUEUED" <=> status = "QUEUED"
           /\ statusAfterNote(status, note) \in {"RUNNING", "PAUSED"} <=> status \in {"RUNNING", "PAUSED"}
           /\ status \in {"COMPLETED", "ABORTED"} =>
                 statusAfterEnd(status, life) = status /\ statusAfterNote(status, note) = status
  BY DEF statusAfterEnd, statusAfterNote, Status

\* The list with another status for one job.
WithStatus(k, st) == [jobs EXCEPT ![k].status = st]

\* Another status changes nothing else of a job.
LEMMA NewStatus ==
    ASSUME jobs \in Seq(Job), NEW k \in DOMAIN jobs, NEW st \in Status,
           NEW js, js = WithStatus(k, st)
    PROVE  /\ js \in Seq(Job) /\ Len(js) = Len(jobs) /\ DOMAIN js = DOMAIN jobs
           /\ js[k].id = jobs[k].id /\ js[k].type = jobs[k].type /\ js[k].set = jobs[k].set
           /\ js[k].pgid = jobs[k].pgid /\ js[k].chosen = jobs[k].chosen
           /\ js[k].status = st
           /\ st = jobs[k].status => js[k] = jobs[k]
           /\ \A j \in DOMAIN jobs \ {k} : js[j] = jobs[j]
<1> DEFINE new == [jobs[k] EXCEPT !.status = st]
<1>1. jobs[k] \in Job
  OBVIOUS
<1>2. /\ new \in Job /\ new.id = jobs[k].id /\ new.type = jobs[k].type /\ new.set = jobs[k].set
      /\ new.pgid = jobs[k].pgid /\ new.chosen = jobs[k].chosen /\ new.status = st
      /\ st = jobs[k].status => new = jobs[k]
  BY <1>1 DEF Job
<1>3. js = [jobs EXCEPT ![k] = new]
  BY DEF WithStatus
<1> HIDE DEF new
<1>4. /\ js \in Seq(Job) /\ Len(js) = Len(jobs) /\ DOMAIN js = DOMAIN jobs
      /\ js[k] = new /\ \A j \in DOMAIN jobs \ {k} : js[j] = jobs[j]
  BY <1>2, <1>3, ExceptSeq
<1> QED
  BY <1>2, <1>4

\* printHandler, for a process that was stopped or continued.
LEMMA HandleNoteStep ==
    ASSUME SpoolerInvariant, NEW c \in DOMAIN procs, HandleNote(c), sigchld' \in BOOLEAN,
           UNCHANGED <<printed, enabled, main>>
    PROVE  SpoolerInvariant' /\ EndedKept
<1> DEFINE k == getJobByPID(c)
           st == statusAfterNote(jobs[k].status, procs[c].note)
           r == [procs[c] EXCEPT !.note = "none"]
<1>type. /\ Tables \in TablesSet /\ enabled \in SUBSET Printers /\ busy \in SUBSET Printers
         /\ jobs \in Seq(Job) /\ Len(jobs) \in Nat /\ DOMAIN jobs = 1..Len(jobs)
         /\ forks \in Nat /\ main \in Places /\ procs[c] \in Process
  BY VariablesTyped
<1>1. CASE k = 0
  BY <1>1, CrashStep DEF HandleNote
<1>2. CASE k # 0
  <2>set. /\ jobs' = [jobs EXCEPT ![k].status = st] /\ procs' = [procs EXCEPT ![c] = r]
          /\ UNCHANGED <<busy, forks, crashed, raced>>
    BY <1>2 DEF HandleNote
  <2>k. k \in DOMAIN jobs /\ jobs[k].pgid = c /\ jobs[k] \in Job
    BY <1>2, <1>type, JobFound
  <2> HIDE DEF k
  <2>st. /\ st \in Status /\ (st = "QUEUED" <=> jobs[k].status = "QUEUED")
         /\ st \in {"RUNNING", "PAUSED"} <=> jobs[k].status \in {"RUNNING", "PAUSED"}
         /\ jobs[k].status \in {"COMPLETED", "ABORTED"} => st = jobs[k].status
    <3>1. jobs[k].status \in Status
      BY <2>k DEF Job
    <3> QED
      BY <3>1, StatusChanges
  <2> HIDE DEF st
  <2>same. SameProcesses
    <3>1. r \in Process /\ r.printer = procs[c].printer
      BY <1>type DEF Process
    <3> HIDE DEF r
    <3> QED
      BY <2>set, <3>1, OneProcessChanged
  <2>jobs. /\ jobs' \in Seq(Job) /\ Len(jobs') = Len(jobs) /\ DOMAIN jobs' = DOMAIN jobs
           /\ jobs'[k].id = jobs[k].id /\ jobs'[k].type = jobs[k].type /\ jobs'[k].set = jobs[k].set
           /\ jobs'[k].pgid = jobs[k].pgid /\ jobs'[k].chosen = jobs[k].chosen
           /\ jobs'[k].status = st
           /\ st = jobs[k].status => jobs'[k] = jobs[k]
           /\ \A j \in DOMAIN jobs \ {k} : jobs'[j] = jobs[j]
    <3>1. jobs' = WithStatus(k, st)
      BY <2>set DEF WithStatus
    <3> QED
      BY <1>type, <2>k, <2>st, <3>1, NewStatus
  <2>queued. \A j \in DOMAIN jobs : jobs'[j].status = "QUEUED" => jobs'[j] = jobs[j]
    BY <2>jobs, <2>st
  <2>tables. Tables' \in TablesSet /\ Alike(Tables, Tables')
    BY <1>type, <2>set, <2>jobs, <2>same DEF SameProcesses, Tables, TablesSet, Alike
  <2>main. Pos' = Pos /\ Scanned' = Scanned /\ InHand' = InHand
    BY <2>jobs DEF Pos, Scanned, InHand
  <2>1. WellFormed(Tables)'
    BY <2>tables, AlikeWellFormed DEF SpoolerInvariant
  <2>2. CountersOK'
    BY <2>set, <2>jobs DEF SpoolerInvariant, CountersOK
  <2>3. MainOK'
    BY <2>main, <2>jobs DEF SpoolerInvariant, MainOK, MayPrint
  <2>4. NoWorkLeft'
    <3>1. ASSUME NEW j \in DOMAIN jobs, Waits(Tables, j) PROVE Waits(Tables', j)
      BY <3>1, <2>queued, <2>set DEF Waits, Tables
    <3>2. \A j \in 1..Scanned : j \in DOMAIN jobs
      BY <1>type DEF Scanned, SpoolerInvariant, MainOK, Pos, Places
    <3>3. ASSUME main.pc = "check", jobs'[Pos].status = "QUEUED"
          PROVE  \/ Waits(Tables', Pos)
                 \/ main.printer = getEligiblePrinter(enabled, jobs'[Pos], busy)
      <4>1. Pos \in DOMAIN jobs
        BY <3>3 DEF SpoolerInvariant, MainOK
      <4>2. jobs'[Pos] = jobs[Pos]
        BY <3>3, <4>1, <2>queued
      <4> QED
        BY <3>1, <3>3, <4>1, <4>2 DEF SpoolerInvariant, NoWorkLeft
    <3>4. ASSUME main.pc \in {"busy", "fork"} PROVE jobs'[Pos].status # "QUEUED"
      <4>1. Pos \in DOMAIN jobs /\ jobs[Pos].status # "QUEUED"
        BY <3>4 DEF SpoolerInvariant, MainOK, NoWorkLeft
      <4> QED
        BY <4>1, <2>queued
    <3> QED
      BY <3>1, <3>2, <3>3, <3>4, <2>main, <2>set DEF SpoolerInvariant, NoWorkLeft
  <2>5. ASSUME ~raced'
        PROVE  ~crashed' /\ Tracked(Tables') /\ BusyHaveProcess(Tables', InHand') /\ JobInHand'
    <3>1. ~raced /\ ~crashed /\ Tracked(Tables) /\ BusyHaveProcess(Tables, InHand) /\ JobInHand
      BY <2>5, <2>set DEF SpoolerInvariant, Consistent
    <3>2. Tracked(Tables')
      <4>1. ASSUME NEW d \in DOMAIN procs'
            PROVE  \E j \in DOMAIN jobs' :
                      /\ jobs'[j].pgid = d
                      /\ jobs'[j].status \in {"RUNNING", "PAUSED"}
                      /\ jobs'[j].chosen = procs'[d].printer
        <5>1. PICK j \in DOMAIN jobs :
                      /\ jobs[j].pgid = d
                      /\ jobs[j].status \in {"RUNNING", "PAUSED"}
                      /\ jobs[j].chosen = procs[d].printer
          BY <3>1, <2>same DEF Tracked, Tables, SameProcesses
        <5> QED
          BY <5>1, <2>jobs, <2>st, <2>same DEF SameProcesses
      <4>2. \A j \in DOMAIN jobs' : jobs'[j].status = "QUEUED" => jobs'[j].pgid = 0
        BY <3>1, <2>queued, <2>jobs DEF Tracked, Tables
      <4> QED
        BY <3>1, <4>1, <4>2, <2>set, <2>same DEF Tracked, Tables, SameProcesses
    <3>3. BusyHaveProcess(Tables', InHand')
      BY <3>1, <2>main, <2>set, <2>same DEF BusyHaveProcess, Tables, SameProcesses
    <3>4. c # 0
      BY DEF SpoolerInvariant, WellFormed, PidsAreForked, Tables
    <3>5. JobInHand'
      <4>1. ASSUME main.pc \in {"choose", "check", "mark", "busy", "fork"} PROVE jobs'[Pos] = jobs[Pos]
        <5>1. Pos \in DOMAIN jobs /\ jobs[Pos].pgid = 0
          BY <4>1, <3>1 DEF SpoolerInvariant, MainOK, JobInHand, Tracked, Tables
        <5> QED
          BY <5>1, <3>4, <2>k, <2>jobs
      <4> QED
        BY <3>1, <4>1, <2>main, <2>set, <2>same DEF JobInHand, SameProcesses
    <3> QED
      BY <3>1, <3>2, <3>3, <3>5, <2>set
  <2>6. EndedKept
    BY <2>st, <2>jobs, EndedKeptInPlace
  <2> QED
    BY <2>1, <2>2, <2>3, <2>4, <2>5, <2>6 DEF SpoolerInvariant, Consistent
<1> QED
  BY <1>1, <1>2

\* The end of a process: its job's status, freePrinter, and runJobs.
LEMMA HandleEndStep ==
    ASSUME SpoolerInvariant, NEW c \in DOMAIN procs, HandleEnd(c), Running, sigchld' \in BOOLEAN,
           UNCHANGED <<printed, enabled, main>>
    PROVE  SpoolerInvariant' /\ EndedKept
<1> DEFINE k == getJobByPID(c)
           st == statusAfterEnd(jobs[k].status, procs[c].life)
           q == getPrinter(jobs[k].chosen)
           js == WithStatus(k, st)
           ps == [d \in DOMAIN procs \ {c} |-> procs[d]]
           b == [on |-> enabled, busy |-> busy \ {q}, forks |-> forks, jobs |-> js, procs |-> ps]
           t == runJobs(b)
<1>type. /\ Tables \in TablesSet /\ enabled \in SUBSET Printers /\ busy \in SUBSET Printers
         /\ jobs \in Seq(Job) /\ Len(jobs) \in Nat /\ DOMAIN jobs = 1..Len(jobs)
         /\ procs \in UNION {[D -> Process] : D \in SUBSET Nat}
         /\ forks \in Nat /\ main \in Places
  BY VariablesTyped
<1>1. CASE k = 0
  BY <1>1, CrashStep DEF HandleEnd
<1>2. CASE k # 0
  <2>set. /\ jobs' = t.jobs /\ busy' = t.busy /\ procs' = t.procs /\ forks' = t.forks
          /\ raced' = (raced \/ InWindow) /\ crashed' = crashed
    BY <1>2 DEF HandleEnd, SetTables, afterEnd, WithStatus
  <2>k. k \in DOMAIN jobs /\ jobs[k].pgid = c /\ jobs[k] \in Job
    BY <1>2, <1>type, JobFound
  <2>found. ~raced => jobs[k].status \in {"RUNNING", "PAUSED"} /\ jobs[k].chosen = procs[c].printer
    BY JobFound
  <2> HIDE DEF k
  <2>st. /\ st \in Status /\ (st = "QUEUED" <=> jobs[k].status = "QUEUED")
         /\ jobs[k].status \in {"COMPLETED", "ABORTED"} => st = jobs[k].status
    <3>1. jobs[k].status \in Status
      BY <2>k DEF Job
    <3> QED
      BY <3>1, StatusChanges
  <2> HIDE DEF st, q
  <2>js. /\ js \in Seq(Job) /\ Len(js) = Len(jobs) /\ DOMAIN js = DOMAIN jobs
         /\ js[k].id = jobs[k].id /\ js[k].type = jobs[k].type /\ js[k].set = jobs[k].set
         /\ js[k].pgid = jobs[k].pgid /\ js[k].status = st
         /\ st = jobs[k].status => js[k] = jobs[k]
         /\ \A j \in DOMAIN jobs \ {k} : js[j] = jobs[j]
    BY <1>type, <2>k, <2>st, NewStatus
  <2> HIDE DEF js
  <2>ps. /\ ps \in UNION {[D -> Process] : D \in SUBSET Nat}
         /\ DOMAIN ps = DOMAIN procs \ {c} /\ \A d \in DOMAIN procs \ {c} : ps[d] = procs[d]
    <3>1. PICK D \in SUBSET Nat : procs \in [D -> Process]
      BY <1>type
    <3>2. ps \in [D \ {c} -> Process] /\ D \ {c} \in SUBSET Nat
      BY <3>1
    <3>3. ps \in UNION {[E -> Process] : E \in SUBSET Nat}
      BY <3>2
    <3> QED
      BY <3>3
  <2> HIDE DEF ps
  <2>b. /\ b.on = enabled /\ b.busy = busy \ {q} /\ b.forks = forks /\ b.jobs = js /\ b.procs = ps
        /\ b \in TablesSet
    BY <1>type, <2>js, <2>ps DEF TablesSet
  <2> HIDE DEF b
  <2>alike. Alike(Tables, b)
    BY <2>b, <2>js, <2>ps DEF Alike, Tables
  <2>well. WellFormed(b)
    BY <2>alike, <2>b, AlikeWellFormed DEF SpoolerInvariant
  <2>t. /\ WellFormed(t) /\ Kept(b, t)
        /\ \A j \in DOMAIN t.jobs : Waits(t, j)
        /\ Tracked(b) => Tracked(t)
        /\ \A X : BusyHaveProcess(b, X) => BusyHaveProcess(t, X)
    BY <2>well, RunJobsResult, Zenon
  <2> HIDE DEF t
  <2>tables. t \in TablesSet /\ Tables' = t
    <3>1. t \in TablesSet /\ t.on = enabled
      BY <2>t, <2>b DEF WellFormed, Kept
    <3> QED
      BY <2>set, <3>1 DEF Tables, TablesSet
  <2>jobs. /\ jobs' \in Seq(Job) /\ Len(jobs') = Len(jobs) /\ DOMAIN jobs' = DOMAIN jobs
           /\ \A j \in DOMAIN jobs :
                 /\ jobs'[j].id = jobs[j].id /\ jobs'[j].type = jobs[j].type
                 /\ jobs'[j].set = jobs[j].set
                 /\ jobs'[j].status = "QUEUED" => jobs[j].status = "QUEUED"
                 /\ j # k /\ jobs[j].status # "QUEUED" => jobs'[j] = jobs[j]
                 /\ jobs[j].status \in {"COMPLETED", "ABORTED"} => jobs'[j] = jobs[j]
    <3>1. jobs' \in Seq(Job) /\ Len(jobs') = Len(jobs)
      BY <2>set, <2>tables, <2>t, <2>b, <2>js DEF Kept, TablesSet
    <3>2. DOMAIN jobs' = DOMAIN jobs
      BY <3>1, <1>type
    <3>3. ASSUME NEW j \in DOMAIN jobs
          PROVE  /\ jobs'[j].id = js[j].id /\ jobs'[j].type = js[j].type /\ jobs'[j].set = js[j].set
                 /\ \/ jobs'[j] = js[j]
                    \/ js[j].status = "QUEUED" /\ jobs'[j].status = "RUNNING"
      BY <2>set, <2>t, <2>b, <2>js DEF Kept
    <3> QED
      BY <3>1, <3>2, <3>3, <2>js, <2>st
  <2>main. Pos' = Pos /\ Scanned' = Scanned /\ InHand' = InHand
    BY <2>jobs DEF Pos, Scanned, InHand
  <2>1. WellFormed(Tables)'
    BY <2>t, <2>tables
  <2>2. CountersOK'
    <3>1. {crashed', raced'} \subseteq BOOLEAN
      BY <2>set, Zenon DEF SpoolerInvariant, CountersOK
    <3> QED
      BY <3>1, <2>jobs DEF SpoolerInvariant, CountersOK
  <2>3. MainOK'
    BY <2>main, <2>jobs DEF SpoolerInvariant, MainOK, MayPrint
  <2>4. NoWorkLeft'
    <3>1. \A j \in DOMAIN jobs : Waits(Tables', j)
      BY <2>t, <2>tables, <2>set, <2>jobs
    <3>2. \A j \in 1..Scanned : j \in DOMAIN jobs
      BY <1>type DEF Scanned, SpoolerInvariant, MainOK, Pos, Places
    <3>3. main.pc = "check" => Pos \in DOMAIN jobs
      BY DEF SpoolerInvariant, MainOK
    <3>4. main.pc \in {"busy", "fork"} => jobs'[Pos].status # "QUEUED"
      BY <2>jobs DEF SpoolerInvariant, MainOK, NoWorkLeft
    <3> QED
      BY <3>1, <3>2, <3>3, <3>4, <2>main DEF NoWorkLeft
  <2>5. ASSUME ~raced'
        PROVE  ~crashed' /\ Tracked(Tables') /\ BusyHaveProcess(Tables', InHand') /\ JobInHand'
    <3>1. /\ ~raced /\ ~InWindow /\ ~crashed /\ Tracked(Tables)
          /\ BusyHaveProcess(Tables, InHand) /\ JobInHand
      BY <2>5, <2>set DEF SpoolerInvariant, Consistent
    <3>2. /\ jobs[k].status \in {"RUNNING", "PAUSED"} /\ q = procs[c].printer
      BY <3>1, <2>found DEF SpoolerInvariant, WellFormed, PrintersAreSuitable, Tables, q
    <3>3. Tracked(b)
      <4>1. ASSUME NEW d \in DOMAIN ps
            PROVE  /\ \E j \in DOMAIN js :
                          /\ js[j].pgid = d
                          /\ js[j].status \in {"RUNNING", "PAUSED"}
                          /\ js[j].chosen = ps[d].printer
                   /\ ps[d].printer \in busy \ {q}
        <5>1. d \in DOMAIN procs /\ d # c /\ ps[d] = procs[d]
          BY <2>ps
        <5>2. PICK j \in DOMAIN jobs :
                          /\ jobs[j].pgid = d
                          /\ jobs[j].status \in {"RUNNING", "PAUSED"}
                          /\ jobs[j].chosen = procs[d].printer
          BY <5>1, <3>1 DEF Tracked, Tables
        <5>3. j # k
          BY <5>1, <5>2, <2>k
        <5>4. procs[d].printer \in busy \ {q}
          BY <5>1, <3>1, <3>2 DEF Tracked, Tables
        <5> QED
          BY <5>1, <5>2, <5>3, <5>4, <2>js
      <4>2. ASSUME NEW d \in DOMAIN ps, NEW e \in DOMAIN ps, ps[d].printer = ps[e].printer
            PROVE  d = e
        BY <4>2, <3>1, <2>ps DEF Tracked, Tables
      <4>3. \A j \in DOMAIN js : js[j].status = "QUEUED" => js[j].pgid = 0
        BY <3>1, <2>js, <2>st DEF Tracked, Tables
      <4> QED
        BY <4>1, <4>2, <4>3, <2>b DEF Tracked
    <3>4. BusyHaveProcess(b, InHand)
      <4> SUFFICES ASSUME NEW p \in (busy \ {q}) \ InHand
                   PROVE  \E d \in DOMAIN ps : ps[d].printer = p
        BY <2>b DEF BusyHaveProcess
      <4>1. PICK d \in DOMAIN procs : procs[d].printer = p
        BY <3>1 DEF BusyHaveProcess, Tables
      <4>2. d # c
        BY <4>1, <3>2
      <4> QED
        BY <4>1, <4>2, <2>ps
    <3>5. Tracked(Tables') /\ BusyHaveProcess(Tables', InHand')
      BY <3>3, <3>4, <2>t, <2>tables, <2>main
    <3>6. JobInHand'
      <4>1. CASE main.pc = "fork"
        <5>1. /\ Pos \in DOMAIN jobs /\ jobs[Pos].status = "RUNNING" /\ jobs[Pos].pgid = 0
              /\ jobs[Pos].chosen = main.printer /\ main.printer \in busy
              /\ \A d \in DOMAIN procs : procs[d].printer # main.printer
          BY <4>1, <3>1 DEF SpoolerInvariant, MainOK, JobInHand
        <5>2. c # 0
          BY DEF SpoolerInvariant, WellFormed, PidsAreForked, Tables
        <5>3. Pos # k
          BY <5>1, <5>2, <2>k
        <5>4. jobs'[Pos] = jobs[Pos]
          BY <5>1, <5>3, <2>jobs
        <5>5. main.printer \in b.busy
          BY <5>1, <3>2, <2>b
        <5>6. main.printer \in busy'
          BY <5>5, <2>t, <2>set DEF Kept
        <5>7. \A d \in DOMAIN b.procs : b.procs[d].printer # main.printer
          BY <5>1, <2>b, <2>ps
        <5>8. \A d \in DOMAIN procs' : procs'[d].printer # main.printer
          BY <5>5, <5>7, <2>t, <2>set DEF Kept
        <5> QED
          BY <4>1, <5>1, <5>4, <5>6, <5>8, <2>main DEF JobInHand
      <4>2. CASE main.pc # "fork"
        BY <4>2, <3>1 DEF JobInHand, InWindow
      <4> QED
        BY <4>1, <4>2
    <3> QED
      BY <3>1, <3>5, <3>6, <2>set
  <2>6. EndedKept
    BY <2>jobs, EndedKeptInPlace
  <2> QED
    BY <2>1, <2>2, <2>3, <2>4, <2>5, <2>6 DEF SpoolerInvariant, Consistent
<1> QED
  BY <1>1, <1>2

\* printHandler, whatever waitpid reports.
LEMMA HandlerStep ==
    ASSUME SpoolerInvariant, printHandler
    PROVE  SpoolerInvariant' /\ EndedKept
<1>pc. sigchld' \in BOOLEAN /\ Running /\ UNCHANGED <<printed, enabled, main>>
  BY DEF printHandler
<1>1. ASSUME NEW c \in DOMAIN procs, HandleEnd(c) PROVE SpoolerInvariant' /\ EndedKept
  BY <1>1, <1>pc, HandleEndStep
<1>2. ASSUME NEW c \in DOMAIN procs, HandleNote(c) PROVE SpoolerInvariant' /\ EndedKept
  BY <1>2, <1>pc, HandleNoteStep
<1>3. CASE UNCHANGED <<jobs, busy, procs, forks, crashed, raced>>
  <2>1. SameProcesses
    BY <1>3, VariablesTyped DEF SameProcesses
  <2> QED
    BY <1>3, <1>pc, <2>1, ProcessStep, EndedKeptInPlace
<1> QED
  BY <1>1, <1>2, <1>3 DEF printHandler

\* Steps that change nothing the invariant is about.
LEMMA StutterStep ==
    ASSUME SpoolerInvariant, UNCHANGED vars
    PROVE  SpoolerInvariant'
<1>1. SameProcesses /\ sigchld' \in BOOLEAN
  BY VariablesTyped DEF vars, SameProcesses, SpoolerInvariant, CountersOK
<1> QED
  BY <1>1, ProcessStep DEF vars

-----------------------------------------------------------------------------
(* The theorems.                                                           *)

\* main starts with empty tables.
LEMMA InitInvariant == Init => SpoolerInvariant
<1> SUFFICES ASSUME Init PROVE SpoolerInvariant
  OBVIOUS
<1>1. /\ jobs = <<>> /\ printed = 0 /\ enabled = {} /\ busy = {} /\ forks = 0
      /\ sigchld = FALSE /\ crashed = FALSE /\ raced = FALSE /\ procs = [c \in {} |-> 0]
  BY DEF Init
<1>2. main \in Places /\ main.pc = "prompt" /\ main.job = 0
  BY DEF Init, At, Places
<1>3. DOMAIN jobs = {} /\ Len(jobs) = 0 /\ jobs \in Seq(Job) /\ DOMAIN procs = {}
  BY <1>1
<1>4. procs \in UNION {[D -> Process] : D \in SUBSET Nat}
  <2>1. procs \in [{} -> Process] /\ {} \in SUBSET Nat
    BY <1>1
  <2> QED
    BY <2>1
<1>5. WellFormed(Tables)
  <2>1. Tables \in TablesSet
    BY <1>1, <1>3, <1>4 DEF Tables, TablesSet
  <2> QED
    BY <2>1, <1>1, <1>3 DEF WellFormed, Tables, PidsAreForked, PrintersOwnTheirName, PgidsDiffer,
                            IdsIncrease, PrintersAreSuitable
<1>6. CountersOK
  <2>1. printed \in 0..MaxJobs /\ Len(jobs) <= printed /\ \A k \in DOMAIN jobs : jobs[k].id < printed
    BY <1>1, <1>3, ImprimerAssumption
  <2>2. {sigchld, crashed, raced} \subseteq BOOLEAN
    BY <1>1, Zenon
  <2> QED
    BY <2>1, <2>2 DEF CountersOK
<1>7. MainOK
  BY <1>2 DEF MainOK
<1>8. NoWorkLeft
  <2>1. Scanned = 0
    BY <1>2, <1>3 DEF Scanned
  <2> QED
    BY <2>1, <1>2 DEF NoWorkLeft
<1>9. Consistent
  BY <1>1, <1>2, <1>3 DEF Consistent, Tracked, BusyHaveProcess, JobInHand, Tables
<1> QED
  BY <1>5, <1>6, <1>7, <1>8, <1>9 DEF SpoolerInvariant

\* Every step keeps the invariant, and lets ended jobs be.
LEMMA StepInvariant == SpoolerInvariant /\ [Next]_vars => SpoolerInvariant' /\ EndedKept
<1> SUFFICES ASSUME SpoolerInvariant, [Next]_vars PROVE SpoolerInvariant' /\ EndedKept
  OBVIOUS
<1>0. ASSUME UNCHANGED jobs PROVE EndedKept
  BY <1>0, EndedKeptInPlace
<1>1. CASE Command
  <2>1. CASE \E type \in FileTypes, set \in PrinterSets : print(type, set)
    BY <2>1, PrintStep
  <2>2. CASE \E p \in Printers : enablePrinter(p) \/ disablePrinter(p)
    BY <2>2, <1>0, EnableStep DEF enablePrinter, disablePrinter
  <2>3. CASE pause \/ resume \/ cancel
    <3>1. PICK status \in Status, sig \in {"SIGTSTP", "SIGCONT", "SIGTERM"} : signalJob(status, sig)
      BY <2>3 DEF pause, resume, cancel, Status
    <3>2. UNCHANGED jobs
      BY <3>1 DEF signalJob
    <3> QED
      BY <3>1, <3>2, <1>0, SignalStep
  <2>4. CASE otherCommand \/ quit
    BY <2>4, <1>0, OtherCommandStep DEF otherCommand, quit
  <2> QED
    BY <1>1, <2>1, <2>2, <2>3, <2>4 DEF Command
<1>2. CASE MainStep
  <2>1. CASE Scan \/ Choose \/ Check \/ busyPrinter
    <3>1. UNCHANGED jobs
      BY <2>1 DEF Scan, Choose, Check, busyPrinter
    <3> QED
      BY <2>1, <3>1, <1>0, ScanStep, ChooseStep, CheckStep, BusyPrinterStep
  <2>2. CASE Mark \/ Fork \/ removeJobs
    BY <2>2, MarkStep, ForkStep, RemoveJobsStep
  <2> QED
    BY <1>2, <2>1, <2>2 DEF MainStep
<1>3. CASE \E c \in DOMAIN procs : Setpgid(c) \/ Exit(c)
  BY <1>3, <1>0, ChildStep DEF Setpgid, Exit
<1>4. CASE printHandler
  BY <1>4, HandlerStep
<1>5. CASE Halted \/ UNCHANGED vars
  BY <1>5, <1>0, StutterStep DEF Halted, vars
<1> QED
  BY <1>1, <1>2, <1>3, <1>4, <1>5 DEF Next

\* The invariant is inductive.
THEOREM InvariantHolds == Spec => []SpoolerInvariant
<1>1. SpoolerInvariant /\ [Next]_vars => SpoolerInvariant'
  BY StepInvariant
<1> QED
  BY <1>1, InitInvariant, PTL DEF Spec

\* Jobs, printers, processes and the place of main keep their types: main never
\* points behind the list, and no job knows a process that was not forked.
THEOREM TypeCorrect == Spec => []TypeOK
<1>1. SpoolerInvariant => TypeOK
  <2> SUFFICES ASSUME SpoolerInvariant PROVE TypeOK
    OBVIOUS
  <2>type. /\ enabled \in SUBSET Printers /\ busy \in SUBSET Printers
           /\ jobs \in Seq(Job) /\ Len(jobs) \in Nat /\ DOMAIN jobs = 1..Len(jobs)
           /\ \A c \in DOMAIN procs : procs[c] \in Process
           /\ forks \in Nat /\ main \in Places
    BY VariablesTyped
  <2>1. ASSUME NEW k \in DOMAIN jobs
        PROVE  jobs[k] \in [id : 0..MaxJobs, type : FileTypes, set : SUBSET Printers, status : Status,
                             chosen : Printers \cup {NoPrinter}, pgid : 0..forks]
    <3>1. jobs[k] \in Job /\ jobs[k].pgid <= forks
      BY <2>type DEF SpoolerInvariant, WellFormed, PidsAreForked, Tables
    <3>2. jobs[k].pgid \in 0..forks
      BY <3>1, <2>type DEF Job
    <3> QED
      BY <3>1, <3>2 DEF Job
  <2>2. \A c \in DOMAIN procs : c \in 1..forks
    BY DEF SpoolerInvariant, WellFormed, PidsAreForked, Tables
  <2>3. main.job \in -MaxJobs..(MaxJobs + 1)
    <3>1. Len(jobs) <= MaxJobs /\ main.job \in Int /\ MaxJobs \in Nat
      BY <2>type, ImprimerAssumption DEF SpoolerInvariant, CountersOK, Places
    <3>2. main.job \in -Len(jobs)..(Len(jobs) + 1)
      BY <2>type, <3>1 DEF SpoolerInvariant, MainOK, Pos, Places
    <3> QED
      BY <2>type, <3>1, <3>2
  <2>4. {sigchld, crashed, raced, main.batch} \subseteq BOOLEAN
    <3>1. main.batch \in BOOLEAN
      BY <2>type DEF Places
    <3> QED
      BY <3>1, Zenon DEF SpoolerInvariant, CountersOK
  <2>5. /\ main.pc \in {"prompt", "scan", "choose", "check", "mark", "busy", "fork", "exited"}
        /\ main.printer \in Printers \cup {NoPrinter}
    BY <2>type DEF Places
  <2>6. printed \in 0..MaxJobs
    BY DEF SpoolerInvariant, CountersOK
  <2>7. \A c \in DOMAIN procs : procs[c] \in Process
    BY <2>type
  <2> QED
    BY <2>type, <2>1, <2>2, <2>3, <2>4, <2>5, <2>6, <2>7 DEF TypeOK, Process
<1> QED
  BY <1>1, InvariantHolds, PTL

\* Whatever signals come and when, runJobs leaves no work behind: at the prompt
\* of the terminal every waiting job has no printer or a busy one.
THEOREM NoWorkIsLeftBehind == Spec => []QueuedJobsWaitForPrinter
<1>1. SpoolerInvariant => QueuedJobsWaitForPrinter
  <2> SUFFICES ASSUME SpoolerInvariant, main.pc = "prompt", ~main.batch,
                      NEW k \in DOMAIN jobs, jobs[k].status = "QUEUED"
               PROVE  LET p == getEligiblePrinter(enabled, jobs[k], busy)
                      IN  p = NoPrinter \/ getPrinter(p) \in busy
    BY DEF QueuedJobsWaitForPrinter
  <2>1. k \in 1..Scanned
    BY VariablesTyped DEF Scanned
  <2>2. Waits(Tables, k)
    BY <2>1 DEF SpoolerInvariant, NoWorkLeft
  <2> QED
    BY <2>2 DEF Waits, Tables
<1> QED
  BY <1>1, InvariantHolds, PTL

\* Without a signal in the window of runJob the handler never follows a NULL
\* pointer, and every process has its job and a printer to itself.
THEOREM ProcessesStayTracked == Spec => []ProcessesAreTracked
<1>1. SpoolerInvariant => ProcessesAreTracked
  <2> SUFFICES ASSUME SpoolerInvariant, ~raced
               PROVE  ~crashed /\ \A c \in DOMAIN procs :
                         /\ \E k \in DOMAIN jobs :
                               /\ jobs[k].pgid = c
                               /\ jobs[k].status \in {"RUNNING", "PAUSED"}
                               /\ jobs[k].chosen = procs[c].printer
                               /\ \A m \in DOMAIN jobs : jobs[m].pgid = c => m = k
                         /\ procs[c].printer \in busy
                         /\ \A d \in DOMAIN procs : procs[d].printer = procs[c].printer => d = c
    BY DEF ProcessesAreTracked
  <2>1. ~crashed /\ Tracked(Tables)
    BY DEF SpoolerInvariant, Consistent
  <2>2. ASSUME NEW c \in DOMAIN procs, NEW k \in DOMAIN jobs, NEW m \in DOMAIN jobs,
               jobs[k].pgid = c, jobs[m].pgid = c
        PROVE  m = k
    <3>1. c # 0
      BY DEF SpoolerInvariant, WellFormed, PidsAreForked, Tables
    <3> QED
      BY <2>2, <3>1 DEF SpoolerInvariant, WellFormed, PgidsDiffer, Tables
  <2> QED
    BY <2>1, <2>2 DEF Tracked, Tables
<1> QED
  BY <1>1, InvariantHolds, PTL

\* Without such a signal a busy printer has a process that will free it.
THEOREM BusyPrintersAreUsed == Spec => []BusyPrintersHaveProcess
<1>1. SpoolerInvariant => BusyPrintersHaveProcess
  BY DEF SpoolerInvariant, Consistent, BusyHaveProcess, InHand, Tables, BusyPrintersHaveProcess
<1> QED
  BY <1>1, InvariantHolds, PTL

\* A process prints on a printer that its job allows and can be converted for,
\* with or without a race.
THEOREM PrintersFitJobs == Spec => []ProcessesUseEligiblePrinters
<1>1. SpoolerInvariant => ProcessesUseEligiblePrinters
  BY DEF SpoolerInvariant, WellFormed, PrintersAreSuitable, MayPrint, Tables,
         ProcessesUseEligiblePrinters
<1> QED
  BY <1>1, InvariantHolds, PTL

\* A job that has been completed or aborted stays as it is, with or without a
\* race; only runJob's own write on its job in hand, after a race, changes it.
THEOREM EndedStaysEnded == Spec => EndedJobsStayEnded
<1>1. SpoolerInvariant /\ [Next]_vars =>
          [\A k \in DOMAIN jobs : jobs[k].status \in {"COMPLETED", "ABORTED"} =>
              \A m \in DOMAIN jobs' : jobs'[m].id = jobs[k].id =>
                  jobs'[m] = jobs[k] \/ (raced /\ k = Pos /\ (Mark \/ Fork))]_vars
  BY StepInvariant DEF EndedKept, LateWrite
<1> QED
  BY <1>1, InvariantHolds, PTL DEF Spec, EndedJobsStayEnded
=============================================================================
