--------------------------- MODULE ImprimerTables ---------------------------
(***************************************************************************)
(* The tables of the spooler "Imprimer" (Printer/src: types.c,             *)
(* conversions.c, printers.c): file types with their conversions, and      *)
(* printers.  The commands type, conversion, printer, enable, disable and  *)
(* print fill them, and getConversionPath and getEligiblePrinter search    *)
(* them.  When a job runs is the business of Imprimer.                     *)
(***************************************************************************)
EXTENDS Integers, FiniteSetsExt, SequencesExt

CONSTANTS
    TypeNames, PrinterNames,    \* the words of the commands
    Conversions,                \* the pairs of types of conversion commands
    PrinterTypes,               \* the types of the printers
    Prints,                     \* the types and lists of printers of print commands
    MAX_TYPES, MAX_CONVERSIONS, MAX_PRINTERS,
    MaxJobs                     \* bound on the jobs

ASSUME TablesAssumption ==
    MAX_TYPES \in Nat /\ MAX_CONVERSIONS \in Nat /\ MAX_PRINTERS \in Nat /\ MaxJobs \in Nat

VARIABLES
    typeArray,      \* of [type, conversions]; a conversion is its target type
    printerArray,   \* of [name, type, enabled]
    jobs            \* of [type, names, eligible_printers]; names as on the command line

vars == <<typeArray, printerArray, jobs>>

Init == typeArray = <<>> /\ printerArray = <<>> /\ jobs = <<>>

-----------------------------------------------------------------------------
(* The search operators return the first entry, or 0.                      *)

FirstOf(is) == IF is = {} THEN 0 ELSE Min(is)

getType(name) == FirstOf({i \in DOMAIN typeArray : typeArray[i].type = name})

\* Mutant: the last printer with the name.
getPrinterLast(name) ==
    Max({i \in DOMAIN printerArray : printerArray[i].name = name} \cup {0})

getPrinter(name) == FirstOf({i \in DOMAIN printerArray : printerArray[i].name = name})

\* The targets of the conversions of a defined type.
conversions(type) == typeArray[getType(type)].conversions

getConversion(type1, type2) == getType(type1) # 0 /\ type2 \in ToSet(conversions(type1))

Defined == {typeArray[i].type : i \in DOMAIN typeArray}

\* Mutant: a later conversion is tried with the same budget as the first.
getConversionPathUnshared(from, to) ==
    LET path[n \in 0..MAX_CONVERSIONS] ==
            [t \in Defined |->
                IF conversions(t) = <<>> \/ t = to \/ n = 0 THEN <<>>
                ELSE IF getConversion(t, to) THEN <<to>>
                ELSE LET i == FirstOf({j \in DOMAIN conversions(t) :
                                          path[n - 1][conversions(t)[j]] # <<>>})
                     IN  IF i = 0 THEN <<>>
                         ELSE <<conversions(t)[i]>> \o path[n - 1][conversions(t)[i]]]
    IN  path[MAX_CONVERSIONS][from]

\* The targets on the way from one type to another, empty if none is found.
\* The i-th conversion of a type is tried with a budget smaller by i.
getConversionPath(from, to) ==
    LET path[n \in 0..MAX_CONVERSIONS] ==
            [t \in Defined |->
                IF conversions(t) = <<>> \/ t = to \/ n = 0 THEN <<>>
                ELSE IF getConversion(t, to) THEN <<to>>
                ELSE LET i == FirstOf({j \in DOMAIN conversions(t) :
                                          j <= n /\ path[n - j][conversions(t)[j]] # <<>>})
                     IN  IF i = 0 THEN <<>>
                         ELSE <<conversions(t)[i]>> \o path[n - i][conversions(t)[i]]]
    IN  path[MAX_CONVERSIONS][from]

\* Mutant: a printer replaces the ones named before it.
getPrinterSetLast(names) ==
    IF names = <<>> THEN 1..MAX_PRINTERS
    ELSE IF \E k \in DOMAIN names : getPrinter(names[k]) = 0 THEN {}
    ELSE {getPrinter(Last(names))}

\* The bits of a PRINTER_SET: every bit if no printer is named, none if one of
\* the names is unknown.
getPrinterSet(names) ==
    IF names = <<>> THEN 1..MAX_PRINTERS
    ELSE IF \E k \in DOMAIN names : getPrinter(names[k]) = 0 THEN {}
    ELSE {getPrinter(names[k]) : k \in DOMAIN names}

\* The printer for a job while some are busy, or 0: an idle one of the job's
\* type, else one that a path leads to, else one of the job's type.
getEligiblePrinter(job, busy) ==
    LET usable == {i \in DOMAIN printerArray :
                      printerArray[i].enabled /\ i \in job.eligible_printers}
        direct == {i \in usable : printerArray[i].type = job.type}
        converted == {i \in usable : getConversionPath(job.type, printerArray[i].type) # <<>>}
    IN  IF direct \ busy # {} THEN FirstOf(direct \ busy)
        ELSE IF converted # {} THEN FirstOf(converted)
        ELSE FirstOf(direct)

-----------------------------------------------------------------------------
(* Commands.  A command that only reports an error changes nothing.        *)

\* newExtension complains about a known type and adds it again all the same.
newExtension(name) ==
    /\ Len(typeArray) < MAX_TYPES
    /\ typeArray' = Append(typeArray, [type |-> name, conversions |-> <<>>])
    /\ UNCHANGED <<printerArray, jobs>>

\* Mutant: nobody asks whether the target is a type.
newConversionUndefined(type1, type2) ==
    /\ getType(type1) # 0
    /\ ~getConversion(type1, type2)
    /\ Len(conversions(type1)) < MAX_CONVERSIONS
    /\ typeArray' = [typeArray EXCEPT ![getType(type1)].conversions = Append(@, type2)]
    /\ UNCHANGED <<printerArray, jobs>>

\* newConversion and addConversion.
newConversion(type1, type2) ==
    /\ getType(type1) # 0 /\ getType(type2) # 0
    /\ ~getConversion(type1, type2)
    /\ Len(conversions(type1)) < MAX_CONVERSIONS
    /\ typeArray' = [typeArray EXCEPT ![getType(type1)].conversions = Append(@, type2)]
    /\ UNCHANGED <<printerArray, jobs>>

\* newPrinter accepts a name that is taken.
newPrinter(name, type) ==
    /\ getType(type) # 0
    /\ Len(printerArray) < MAX_PRINTERS
    /\ printerArray' = Append(printerArray, [name |-> name, type |-> type, enabled |-> FALSE])
    /\ UNCHANGED <<typeArray, jobs>>

enablePrinter(name) ==
    /\ getPrinter(name) # 0 /\ ~printerArray[getPrinter(name)].enabled
    /\ printerArray' = [printerArray EXCEPT ![getPrinter(name)].enabled = TRUE]
    /\ UNCHANGED <<typeArray, jobs>>

disablePrinter(name) ==
    /\ getPrinter(name) # 0 /\ printerArray[getPrinter(name)].enabled
    /\ printerArray' = [printerArray EXCEPT ![getPrinter(name)].enabled = FALSE]
    /\ UNCHANGED <<typeArray, jobs>>

newJob(type, names) ==
    jobs' = Append(jobs, [type |-> type, names |-> names,
                          eligible_printers |-> getPrinterSet(names)])

print(type, names) ==
    /\ Len(jobs) < MaxJobs
    /\ getType(type) # 0 /\ getPrinterSet(names) # {}
    /\ newJob(type, names)
    /\ UNCHANGED <<typeArray, printerArray>>

Next ==
    \/ \E t \in TypeNames : newExtension(t)
    \/ \E c \in Conversions : newConversion(c[1], c[2])
    \/ \E n \in PrinterNames, t \in PrinterTypes : newPrinter(n, t)
    \/ \E n \in PrinterNames : enablePrinter(n) \/ disablePrinter(n)
    \/ \E p \in Prints : print(p.type, p.names)

Spec == Init /\ [][Next]_vars

-----------------------------------------------------------------------------
(* Properties.                                                             *)

\* getConversionPath follows conversion->type without asking whether getType
\* knows it: every conversion leads to a type that is in the table, and a type
\* that is in the table twice has its conversions in one place.
ConversionsAreFound ==
    \A i \in DOMAIN typeArray :
        /\ ToSet(typeArray[i].conversions) \subseteq Defined
        /\ typeArray[i].conversions # <<>> => getType(typeArray[i].type) = i

\* The ways from one type to another whose conversions, all but the last, have
\* positions in their tables that add up to less than MAX_CONVERSIONS.
Position(t, u) == FirstOf({j \in DOMAIN conversions(t) : conversions(t)[j] = u})
Positions(w) ==
    LET sum[i \in 0..(Len(w) - 2)] == IF i = 0 THEN 0 ELSE sum[i - 1] + Position(w[i], w[i + 1])
    IN  sum[Len(w) - 2]
Ways(from, to) ==
    {w \in {<<from>> \o s \o <<to>> : s \in BoundedSeq(Defined, MAX_CONVERSIONS - 1)} :
        /\ \A i \in 1..(Len(w) - 1) : getConversion(w[i], w[i + 1])
        /\ Positions(w) < MAX_CONVERSIONS}

\* The search misses no printer but for the budget, and the pipeline that
\* runJobProcess builds from what it returns ends in the printer's type, with
\* every program given the type it converts: a path is found exactly when there
\* is such a way, and is one.
PathsAreWays ==
    \A from, to \in Defined : from # to =>
        LET path == getConversionPath(from, to)
        IN  IF Ways(from, to) = {} THEN path = <<>> ELSE <<from>> \o path \in Ways(from, to)

\* Two printers may have one name, but only the first of them can ever be
\* enabled: the printer that getEligiblePrinter chooses is the one that runJob
\* finds again by its name.
EnabledPrintersOwnTheirName ==
    \A i \in DOMAIN printerArray : printerArray[i].enabled => getPrinter(printerArray[i].name) = i

\* Whether printer i is one the user meant and can serve the job.
Reachable(job, i) ==
    /\ printerArray[i].enabled
    /\ job.names = <<>> \/ \E k \in DOMAIN job.names : getPrinter(job.names[k]) = i
    /\ printerArray[i].type = job.type \/ Ways(job.type, printerArray[i].type) # {}

\* However the tables have changed since its print command, and whichever
\* printers are busy, a job finds a printer exactly if one of those it was
\* printed to (any, also a later one, if none was named) is enabled and can be
\* reached, and it gets an idle one that needs no conversion if there is one.
JobsFindTheirPrinters ==
    \A k \in DOMAIN jobs, busy \in SUBSET DOMAIN printerArray :
        LET job == jobs[k]
            reachable == {i \in DOMAIN printerArray : Reachable(job, i)}
            direct == {i \in reachable \ busy : printerArray[i].type = job.type}
            chosen == getEligiblePrinter(job, busy)
        IN  /\ chosen = 0 <=> reachable = {}
            /\ chosen # 0 => chosen \in reachable
            /\ direct # {} => chosen \in direct
=============================================================================
