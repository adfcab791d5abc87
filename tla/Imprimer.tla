------------------------------ MODULE Imprimer ------------------------------
(***************************************************************************)
(* Jobs, printers and processes of the spooler "Imprimer" (Printer/src:    *)
(* main.c, jobs.c, printers.c).                                            *)
(*                                                                         *)
(* The spooler has one thread.  It executes a command, starts the jobs     *)
(* that can be started and removes old ones; SIGCHLD interrupts it between *)
(* any two of its steps and runs printHandler, which nothing interrupts.   *)
(* Every started job is a process group of its own, which runs             *)
(* concurrently, stops, continues and ends.  The printers and conversions  *)
(* that earlier commands have defined are constants here.                  *)
(***************************************************************************)
EXTENDS Integers, FiniteSetsExt, SequencesExt

CONSTANTS
    NPrinters,    \* printers are 1..NPrinters, in the order of printerArray
    PrinterName,  \* printer -> name
    PrinterType,  \* printer -> type
    FileTypes,    \* the types of the files to print
    PrinterSets,  \* the sets of printers that print commands name
    Conversions,  \* <<from, to>> if getConversionPath finds a path
    MaxJobs       \* bound: how many print commands are given

Printers == 1..NPrinters
NoPrinter == 0

ASSUME ImprimerAssumption ==
    /\ NPrinters \in Nat \ {0} /\ MaxJobs \in Nat
    /\ DOMAIN PrinterName = Printers /\ DOMAIN PrinterType = Printers
    /\ PrinterSets \subseteq (SUBSET Printers) \ {{}}
    /\ \A c \in Conversions : c[1] # c[2]

VARIABLES
    jobs,       \* the list job_head
    printed,    \* static index of newJob: how many jobs there have been
    enabled,    \* printers with enabled # 0
    busy,       \* printers with busy # 0
    procs,      \* processes of the jobs, until waitpid has reported their end
    forks,      \* how many there have been; the next pid
    sigchld,    \* SIGCHLD is pending
    main,       \* what the thread is doing outside the handler
    crashed,    \* printHandler has followed a NULL pointer
    raced       \* history: the handler ran runJobs inside the window of a start

vars == <<jobs, printed, enabled, busy, procs, forks, sigchld, main, crashed, raced>>

Status == {"QUEUED", "RUNNING", "PAUSED", "COMPLETED", "ABORTED"}

\* pc, the list position of the job in hand, its printer, and whether the
\* commands still come from the script of -i.
At(pc, job, printer, batch) ==
    [pc |-> pc, job |-> job, printer |-> printer, batch |-> batch]

Init ==
    /\ jobs = <<>> /\ printed = 0
    /\ enabled = {} /\ busy = {}
    /\ procs = [c \in {} |-> 0] /\ forks = 0
    /\ sigchld = FALSE
    /\ \E b \in BOOLEAN : main = At("prompt", 0, NoPrinter, b)
    /\ crashed = FALSE /\ raced = FALSE

-----------------------------------------------------------------------------
(* Choosing a printer and starting a job.  A state of the tables is a      *)
(* record s of the enabled printers (on), jobs, busy, procs and forks.     *)

Tables == [on |-> enabled, jobs |-> jobs, busy |-> busy, procs |-> procs, forks |-> forks]

\* The first printer of that name.
getPrinter(p) == Min({q \in Printers : PrinterName[q] = PrinterName[p]})

\* Mutant: the printers that the print command names are not looked at.
getEligiblePrinterAny(on, job, taken) ==
    LET same == {p \in on : PrinterType[p] = job.type}
        path == {p \in on : <<job.type, PrinterType[p]>> \in Conversions}
    IN  IF same \ taken # {} THEN Min(same \ taken)
        ELSE IF path # {} THEN Min(path)
        ELSE IF same # {} THEN Min(same)
        ELSE NoPrinter

\* Of the printers that are on, a free printer of the file's type, else one
\* with a conversion path, else a busy one of the file's type: the first of its
\* kind in each case.
getEligiblePrinter(on, job, taken) ==
    LET may == on \cap job.set
        same == {p \in may : PrinterType[p] = job.type}
        path == {p \in may : <<job.type, PrinterType[p]>> \in Conversions}
    IN  IF same \ taken # {} THEN Min(same \ taken)
        ELSE IF path # {} THEN Min(path)
        ELSE IF same # {} THEN Min(same)
        ELSE NoPrinter

\* The parent's side of runJobProcess, with SIGCHLD blocked from before the
\* fork until the process is known by its job.
runJobProcess(s, k, p) ==
    LET c == s.forks + 1
        child == [printer |-> p, life |-> "starting", note |-> "none", term |-> FALSE]
    IN  [on |-> s.on, busy |-> s.busy, forks |-> c,
         jobs |-> [s.jobs EXCEPT ![k].pgid = c],
         procs |-> [d \in DOMAIN s.procs \cup {c} |->
                       IF d \in DOMAIN s.procs THEN s.procs[d] ELSE child]]

\* runJob without interruption.
runJob(s, k, p) ==
    runJobProcess(
        [on |-> s.on, busy |-> s.busy \cup {p}, forks |-> s.forks, procs |-> s.procs,
         jobs |-> [s.jobs EXCEPT ![k] = [@ EXCEPT !.status = "RUNNING", !.chosen = p]]], k, p)

\* The body of the loop of runJobs, at position k of the list.
startJob(s, k) ==
    LET p == getEligiblePrinter(s.on, s.jobs[k], s.busy) IN
    IF s.jobs[k].status = "QUEUED" /\ p # NoPrinter /\ getPrinter(p) \notin s.busy
    THEN runJob(s, k, getPrinter(p))
    ELSE s

\* runJobs as the handler executes it: one pass over the list.
runJobs(s) ==
    LET after[k \in 0..Len(s.jobs)] == IF k = 0 THEN s ELSE startJob(after[k - 1], k)
    IN  after[Len(s.jobs)]

SetTables(s) ==
    /\ jobs' = s.jobs /\ busy' = s.busy /\ procs' = s.procs /\ forks' = s.forks

-----------------------------------------------------------------------------
(* Commands.  After a command of the terminal main calls runJobs and       *)
(* removeJobs; after a line of the script it does not.                     *)

AtPrompt == main.pc = "prompt" /\ ~crashed

AfterCommand ==
    \/ main.batch /\ main' = main
    \/ main' = At("scan", 1, NoPrinter, FALSE)

\* print: the job joins the list before a printer is looked for.
print(type, set) ==
    /\ AtPrompt
    /\ printed < MaxJobs
    /\ jobs' = Append(jobs, [id |-> printed, type |-> type, set |-> set, status |-> "QUEUED",
                             chosen |-> NoPrinter, pgid |-> 0])
    /\ printed' = printed + 1
    /\ \E b \in {main.batch, FALSE} : main' = At("choose", -Len(jobs'), NoPrinter, b)
    /\ UNCHANGED <<enabled, busy, procs, forks, sigchld, crashed, raced>>

enablePrinter(p) ==
    /\ AtPrompt
    /\ enabled' = enabled \cup {getPrinter(p)}
    /\ AfterCommand
    /\ UNCHANGED <<jobs, printed, busy, procs, forks, sigchld, crashed, raced>>

disablePrinter(p) ==
    /\ AtPrompt
    /\ enabled' = enabled \ {getPrinter(p)}
    /\ AfterCommand
    /\ UNCHANGED <<jobs, printed, busy, procs, forks, sigchld, crashed, raced>>

\* killpg reaches a process once it has made itself a group, and until its end.
Reached(c) == c \in DOMAIN procs /\ procs[c].life \in {"running", "stopped"}

\* Default actions of the signals, and the SIGCHLD they cause.
Stopped(r) ==
    IF r.life = "stopped" THEN r ELSE [r EXCEPT !.life = "stopped", !.note = "stopped"]
Continued(r) ==
    IF r.life = "running" THEN r
    ELSE [r EXCEPT !.life = IF r.term THEN "killed" ELSE "running", !.note = "continued"]
Terminated(r) ==
    IF r.life = "running" THEN [r EXCEPT !.life = "killed"] ELSE [r EXCEPT !.term = TRUE]

Effect(sig, r) ==
    CASE sig = "SIGTSTP" -> Stopped(r)
      [] sig = "SIGCONT" -> Continued(r)
      [] sig = "SIGTERM" -> Terminated(r)

killpg(c, sig) ==
    /\ procs' = IF Reached(c) THEN [procs EXCEPT ![c] = Effect(sig, @)] ELSE procs
    /\ sigchld' = (sigchld \/ (Reached(c) /\ procs'[c].life # procs[c].life))

\* A command that signals a job of the given status.
signalJob(status, sig) ==
    /\ AtPrompt
    /\ \E k \in DOMAIN jobs : jobs[k].status = status /\ killpg(jobs[k].pgid, sig)
    /\ AfterCommand
    /\ UNCHANGED <<jobs, printed, enabled, busy, forks, crashed, raced>>

pause == signalJob("RUNNING", "SIGTSTP")
resume == signalJob("PAUSED", "SIGCONT")
cancel == signalJob("RUNNING", "SIGTERM")

\* help, jobs, printers and every command that only reports an error.
otherCommand ==
    /\ AtPrompt
    /\ AfterCommand
    /\ UNCHANGED <<jobs, printed, enabled, busy, procs, forks, sigchld, crashed, raced>>

\* enable, disable and print without an argument end the spooler too: they
\* follow the NULL pointer that strtok returns.
quit ==
    /\ AtPrompt
    /\ main' = [main EXCEPT !.pc = "exited"]
    /\ UNCHANGED <<jobs, printed, enabled, busy, procs, forks, sigchld, crashed, raced>>

-----------------------------------------------------------------------------
(* runJobs and runJob as main executes them, step by step.  A negative     *)
(* position is the job that print starts itself, without looking at its    *)
(* status.                                                                 *)

Here(pc) == main.pc = pc /\ ~crashed
Pos == IF main.job < 0 THEN -main.job ELSE main.job

\* On to the next job of the list, or back from print.
NextJob ==
    main' = IF main.job > 0 THEN At("scan", main.job + 1, NoPrinter, main.batch)
            ELSE IF main.batch THEN At("prompt", 0, NoPrinter, TRUE)
            ELSE At("scan", 1, NoPrinter, FALSE)

\* Mutant: runJobs does not look at the status.
ScanAll ==
    /\ Here("scan") /\ main.job <= Len(jobs)
    /\ main' = [main EXCEPT !.pc = "choose"]
    /\ UNCHANGED <<jobs, printed, enabled, busy, procs, forks, sigchld, crashed, raced>>

Scan ==
    /\ Here("scan") /\ main.job <= Len(jobs)
    /\ IF jobs[Pos].status = "QUEUED" THEN main' = [main EXCEPT !.pc = "choose"] ELSE NextJob
    /\ UNCHANGED <<jobs, printed, enabled, busy, procs, forks, sigchld, crashed, raced>>

\* Mutant: that there is no printer goes unnoticed.
ChooseNull ==
    /\ Here("choose")
    /\ main' = [main EXCEPT !.pc = "check", !.printer = getEligiblePrinter(enabled, jobs[Pos], busy)]
    /\ UNCHANGED <<jobs, printed, enabled, busy, procs, forks, sigchld, crashed, raced>>

Choose ==
    LET p == getEligiblePrinter(enabled, jobs[Pos], busy) IN
    /\ Here("choose")
    /\ IF p # NoPrinter
       THEN main' = [main EXCEPT !.pc = "check", !.printer = getPrinter(p)]
       ELSE NextJob
    /\ UNCHANGED <<jobs, printed, enabled, busy, procs, forks, sigchld, crashed, raced>>

\* Mutant: runJob does not look at busy.
CheckNothing ==
    /\ Here("check")
    /\ main' = [main EXCEPT !.pc = "mark"]
    /\ UNCHANGED <<jobs, printed, enabled, busy, procs, forks, sigchld, crashed, raced>>

Check ==
    /\ Here("check")
    /\ IF main.printer \in busy THEN NextJob ELSE main' = [main EXCEPT !.pc = "mark"]
    /\ UNCHANGED <<jobs, printed, enabled, busy, procs, forks, sigchld, crashed, raced>>

Mark ==
    /\ Here("mark")
    /\ jobs' = [jobs EXCEPT ![Pos] = [@ EXCEPT !.status = "RUNNING", !.chosen = main.printer]]
    /\ main' = [main EXCEPT !.pc = "busy"]
    /\ UNCHANGED <<printed, enabled, busy, procs, forks, sigchld, crashed, raced>>

busyPrinter ==
    /\ Here("busy")
    /\ busy' = busy \cup {main.printer}
    /\ main' = [main EXCEPT !.pc = "fork"]
    /\ UNCHANGED <<jobs, printed, enabled, procs, forks, sigchld, crashed, raced>>

Fork ==
    /\ Here("fork")
    /\ SetTables(runJobProcess(Tables, Pos, main.printer))
    /\ NextJob
    /\ UNCHANGED <<printed, enabled, sigchld, crashed, raced>>

\* The list without the old jobs, in one pass.
removeJob(old) ==
    LET kept[k \in 0..Len(jobs)] ==
            IF k = 0 THEN <<>>
            ELSE IF jobs[k] \in old THEN kept[k - 1] ELSE Append(kept[k - 1], jobs[k])
    IN  kept[Len(jobs)]

\* Jobs that ended 60 seconds ago or earlier leave the list.
removeJobs ==
    /\ Here("scan") /\ main.job > Len(jobs)
    /\ \E old \in SUBSET {j \in ToSet(jobs) : j.status \in {"COMPLETED", "ABORTED"}} :
          jobs' = removeJob(old)
    /\ main' = At("prompt", 0, NoPrinter, FALSE)
    /\ UNCHANGED <<printed, enabled, busy, procs, forks, sigchld, crashed, raced>>

-----------------------------------------------------------------------------
(* The processes.                                                          *)

Running == main.pc # "exited" /\ ~crashed

\* The child makes itself a process group.
Setpgid(c) ==
    /\ Running
    /\ procs[c].life = "starting"
    /\ procs' = [procs EXCEPT ![c].life = "running"]
    /\ UNCHANGED <<jobs, printed, enabled, busy, forks, sigchld, main, crashed, raced>>

\* The child has run its conversions and printed, or something of it failed.
Exit(c) ==
    /\ Running
    /\ procs[c].life = "running"
    /\ \E how \in {"success", "failure"} : procs' = [procs EXCEPT ![c].life = how]
    /\ sigchld' = TRUE
    /\ UNCHANGED <<jobs, printed, enabled, busy, forks, main, crashed, raced>>

-----------------------------------------------------------------------------
(* printHandler.  Its one waitpid reports the end of a process, or that a  *)
(* process has stopped or continued since the last report.                 *)

Ended(c) == procs[c].life \in {"success", "failure", "killed"}
Reportable(c) == Ended(c) \/ procs[c].note # "none"

getJobByPID(c) ==
    LET ks == {k \in DOMAIN jobs : jobs[k].pgid = c} IN IF ks = {} THEN 0 ELSE Min(ks)

\* completeJob and abortJob.
statusAfterEnd(status, life) ==
    IF life = "success" THEN (IF status = "RUNNING" THEN "COMPLETED" ELSE status)
    ELSE IF status \in {"RUNNING", "PAUSED"} THEN "ABORTED" ELSE status

\* pauseJob and resumeJob.
statusAfterNote(status, note) ==
    IF note = "stopped" /\ status = "RUNNING" THEN "PAUSED"
    ELSE IF note = "continued" /\ status = "PAUSED" THEN "RUNNING"
    ELSE status

\* The steps of main between reading a job's status and marking its printer.
InWindow == main.pc \in {"choose", "check", "mark", "busy"}

\* Mutant: the freed printer is not offered to the waiting jobs.
afterEndNoRunJobs(k, c) ==
    [on |-> enabled, busy |-> busy \ {getPrinter(jobs[k].chosen)}, forks |-> forks,
     jobs |-> [jobs EXCEPT ![k].status = statusAfterEnd(@, procs[c].life)],
     procs |-> [d \in DOMAIN procs \ {c} |-> procs[d]]]

\* Mutant: the printer is not freed.
afterEndStillBusy(k, c) ==
    runJobs([on |-> enabled, busy |-> busy, forks |-> forks,
             jobs |-> [jobs EXCEPT ![k].status = statusAfterEnd(@, procs[c].life)],
             procs |-> [d \in DOMAIN procs \ {c} |-> procs[d]]])

\* The job's new status, freePrinter and runJobs.
afterEnd(k, c) ==
    runJobs([on |-> enabled, busy |-> busy \ {getPrinter(jobs[k].chosen)}, forks |-> forks,
             jobs |-> [jobs EXCEPT ![k].status = statusAfterEnd(@, procs[c].life)],
             procs |-> [d \in DOMAIN procs \ {c} |-> procs[d]]])

HandleEnd(c) ==
    LET k == getJobByPID(c) IN
    /\ Ended(c)
    /\ IF k = 0
       THEN crashed' = TRUE /\ UNCHANGED <<jobs, busy, procs, forks, raced>>
       ELSE /\ SetTables(afterEnd(k, c))
            /\ raced' = (raced \/ InWindow)
            /\ UNCHANGED crashed

HandleNote(c) ==
    LET k == getJobByPID(c) IN
    /\ ~Ended(c)
    /\ IF k = 0
       THEN crashed' = TRUE /\ UNCHANGED <<jobs, procs>>
       ELSE /\ jobs' = [jobs EXCEPT ![k].status = statusAfterNote(@, procs[c].note)]
            /\ procs' = [procs EXCEPT ![c].note = "none"]
            /\ UNCHANGED crashed
    /\ UNCHANGED <<busy, forks, raced>>

printHandler ==
    /\ Running
    /\ sigchld
    /\ sigchld' = FALSE
    /\ \/ \E c \in DOMAIN procs : Reportable(c) /\ (HandleEnd(c) \/ HandleNote(c))
       \/ /\ \A c \in DOMAIN procs : ~Reportable(c)
          /\ UNCHANGED <<jobs, busy, procs, forks, crashed, raced>>
    /\ UNCHANGED <<printed, enabled, main>>

\* The spooler has exited or crashed.
Halted == ~Running /\ UNCHANGED vars

-----------------------------------------------------------------------------
Command ==
    \/ \E type \in FileTypes, set \in PrinterSets : print(type, set)
    \/ \E p \in Printers : enablePrinter(p) \/ disablePrinter(p)
    \/ pause \/ resume \/ cancel \/ otherCommand \/ quit

MainStep == Scan \/ Choose \/ Check \/ Mark \/ busyPrinter \/ Fork \/ removeJobs

Next ==
    \/ Command
    \/ MainStep
    \/ \E c \in DOMAIN procs : Setpgid(c) \/ Exit(c)
    \/ printHandler
    \/ Halted

Spec == Init /\ [][Next]_vars

-----------------------------------------------------------------------------
(* Properties.                                                             *)

\* Everything keeps its type, for every job, process and step of main.
TypeOK ==
    /\ \A k \in DOMAIN jobs : jobs[k] \in [id : 0..MaxJobs, type : FileTypes,
          set : SUBSET Printers, status : Status, chosen : Printers \cup {NoPrinter},
          pgid : 0..forks]
    /\ printed \in 0..MaxJobs /\ forks \in Nat
    /\ enabled \subseteq Printers /\ busy \subseteq Printers
    /\ \A c \in DOMAIN procs : c \in 1..forks /\ procs[c] \in [printer : Printers,
          life : {"starting", "running", "stopped", "success", "failure", "killed"},
          note : {"none", "stopped", "continued"}, term : BOOLEAN]
    /\ main.pc \in {"prompt", "scan", "choose", "check", "mark", "busy", "fork", "exited"}
    /\ main.job \in -MaxJobs..(MaxJobs + 1) /\ main.printer \in Printers \cup {NoPrinter}
    /\ {sigchld, crashed, raced, main.batch} \subseteq BOOLEAN

\* runJobs leaves no work behind: at the prompt of the terminal, whatever
\* signals came and when, the printer that getEligiblePrinter has for a
\* waiting job, if any, is busy.
QueuedJobsWaitForPrinter ==
    main.pc = "prompt" /\ ~main.batch /\ ~crashed =>
        \A k \in DOMAIN jobs : jobs[k].status = "QUEUED" =>
            LET p == getEligiblePrinter(enabled, jobs[k], busy) IN p = NoPrinter \/ getPrinter(p) \in busy

\* As long as no signal has come into the window of runJob: every process that
\* waitpid has not reported as ended is the process of exactly one job, known
\* by its pgid, which is running or paused, and has its printer, which is
\* busy, to itself.
ProcessesAreTracked ==
    ~raced =>
        /\ ~crashed
        /\ \A c \in DOMAIN procs :
              /\ \E k \in DOMAIN jobs :
                    /\ jobs[k].pgid = c
                    /\ jobs[k].status \in {"RUNNING", "PAUSED"}
                    /\ jobs[k].chosen = procs[c].printer
                    /\ \A m \in DOMAIN jobs : jobs[m].pgid = c => m = k
              /\ procs[c].printer \in busy
              /\ \A d \in DOMAIN procs : procs[d].printer = procs[c].printer => d = c

\* As long as no signal has come into the window of runJob, a busy printer is
\* not forgotten: it has a process whose end is still to be reported.
BusyPrintersHaveProcess ==
    ~raced /\ main.pc # "fork" =>
        \A p \in busy : \E c \in DOMAIN procs : procs[c].printer = p

\* A job that has been completed or aborted stays as it is until it leaves the
\* list, whatever the handler and the commands do.  The one exception is the
\* job in hand of runJob (jobs.c:121-128): if the handler has run inside its
\* window, that job may have been started by the handler and have ended, and
\* runJob makes it RUNNING again and gives it a second process.
EndedJobsStayEnded ==
    [][\A k \in DOMAIN jobs : jobs[k].status \in {"COMPLETED", "ABORTED"} =>
           \A m \in DOMAIN jobs' : jobs'[m].id = jobs[k].id =>
               jobs'[m] = jobs[k] \/ (raced /\ k = Pos /\ (Mark \/ Fork))]_vars

\* A process prints on a printer that its print command allows and whose type
\* the file has or can be converted to.
ProcessesUseEligiblePrinters ==
    ~crashed => \A c \in DOMAIN procs, k \in DOMAIN jobs : jobs[k].pgid = c =>
        LET p == procs[c].printer IN
        /\ p \in jobs[k].set
        /\ PrinterType[p] = jobs[k].type \/ <<jobs[k].type, PrinterType[p]>> \in Conversions

\* imprimer.h, JOB: "Process group ID of conversion pipeline."  If the handler
\* starts a job that main is about to start, the job gets a second pipeline
\* and nobody knows the first.
PgidNamesPipeline ==
    \A c \in DOMAIN procs : \E k \in DOMAIN jobs : jobs[k].pgid = c
=============================================================================
