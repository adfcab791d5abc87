------------------------ MODULE ImprimerTablesProofs ------------------------
(* Proofs about the tables of the spooler: the invariant of ImprimerTables *)
(* for tables of any size, and what the searches find in them.             *)
EXTENDS ImprimerTables, NaturalLemmas, SequenceTheorems

TypeEntry == [type : TypeNames, conversions : Seq(TypeNames)]
PrinterEntry == [name : PrinterNames, type : TypeNames, enabled : BOOLEAN]
JobEntry == [type : TypeNames, names : {p.names : p \in Prints}, eligible_printers : SUBSET Nat]

\* The searches, for any table.
TypeIn(ta, name) == FirstOf({i \in DOMAIN ta : ta[i].type = name})
PrinterIn(pa, name) == FirstOf({i \in DOMAIN pa : pa[i].name = name})

TypesOK ==
    \A i \in DOMAIN typeArray :
        /\ \A j \in DOMAIN typeArray[i].conversions :
              TypeIn(typeArray, typeArray[i].conversions[j]) # 0
        /\ typeArray[i].conversions # <<>> => TypeIn(typeArray, typeArray[i].type) = i

PrintersOK ==
    /\ Len(printerArray) <= MAX_PRINTERS
    /\ \A i \in DOMAIN printerArray :
          /\ TypeIn(typeArray, printerArray[i].type) # 0
          /\ printerArray[i].enabled => PrinterIn(printerArray, printerArray[i].name) = i

\* Whether a job has the printers that its list names now.
HasPrinters(pa, job) ==
    IF job.names = <<>> THEN job.eligible_printers = 1..MAX_PRINTERS
    ELSE /\ \A k \in DOMAIN job.names : PrinterIn(pa, job.names[k]) # 0
         /\ job.eligible_printers = {PrinterIn(pa, job.names[k]) : k \in DOMAIN job.names}

JobsOK ==
    \A k \in DOMAIN jobs :
        /\ TypeIn(typeArray, jobs[k].type) # 0
        /\ HasPrinters(printerArray, jobs[k])

TablesTyped ==
    /\ typeArray \in Seq(TypeEntry)
    /\ printerArray \in Seq(PrinterEntry)
    /\ jobs \in Seq(JobEntry)

\* The inductive invariant.
TablesInvariant == TablesTyped /\ TypesOK /\ PrintersOK /\ JobsOK

-----------------------------------------------------------------------------
(* The searches.                                                           *)

\* FirstOf is the smallest position, or 0 if there is none.
LEMMA FirstOfIsFirst ==
    ASSUME NEW is, is \subseteq Nat \ {0}
    PROVE  /\ FirstOf(is) \in is \cup {0}
           /\ FirstOf(is) = 0 <=> is = {}
           /\ \A j \in is : FirstOf(is) <= j
<1>1. CASE is = {}
  BY <1>1 DEF FirstOf
<1>2. CASE is # {}
  <2>1. is \subseteq Nat
    OBVIOUS
  <2>2. Min(is) \in is /\ \A y \in is : Min(is) <= y
    BY <1>2, <2>1, MinIsLeast
  <2> QED
    BY <1>2, <2>2 DEF FirstOf
<1> QED
  BY <1>1, <1>2

\* getType finds the first type of the name.
LEMMA TypeInFinds ==
    ASSUME NEW ta \in Seq(TypeEntry), NEW name
    PROVE  /\ TypeIn(ta, name) \in 0..Len(ta)
           /\ TypeIn(ta, name) # 0 => ta[TypeIn(ta, name)].type = name /\ name \in TypeNames
           /\ \A j \in DOMAIN ta : ta[j].type = name => TypeIn(ta, name) \in 1..j
<1> DEFINE is == {i \in DOMAIN ta : ta[i].type = name}
<1>1. is \subseteq Nat \ {0}
  OBVIOUS
<1>2. /\ FirstOf(is) \in is \cup {0}
      /\ FirstOf(is) = 0 <=> is = {}
      /\ \A j \in is : FirstOf(is) <= j
  <2> HIDE DEF is
  <2> QED
    BY <1>1, FirstOfIsFirst
<1>3. TypeIn(ta, name) = FirstOf(is)
  BY DEF TypeIn
<1> HIDE DEF is
<1>4. ASSUME NEW i \in is PROVE i \in 1..Len(ta) /\ ta[i].type = name /\ name \in TypeNames
  <2>1. i \in 1..Len(ta) /\ ta[i].type = name
    BY DEF is
  <2>2. ta[i] \in TypeEntry
    BY <2>1
  <2> QED
    BY <2>1, <2>2 DEF TypeEntry
<1>5. ASSUME NEW j \in DOMAIN ta, ta[j].type = name PROVE TypeIn(ta, name) \in 1..j
  <2>1. j \in is
    BY <1>5 DEF is
  <2> QED
    BY <1>2, <1>3, <1>4, <2>1
<1> QED
  BY <1>2, <1>3, <1>4, <1>5

\* getPrinter finds the first printer of the name.
LEMMA PrinterInFinds ==
    ASSUME NEW pa \in Seq(PrinterEntry), NEW name
    PROVE  /\ PrinterIn(pa, name) \in 0..Len(pa)
           /\ PrinterIn(pa, name) # 0 => pa[PrinterIn(pa, name)].name = name
           /\ \A j \in DOMAIN pa : pa[j].name = name => PrinterIn(pa, name) \in 1..j
<1> DEFINE is == {i \in DOMAIN pa : pa[i].name = name}
<1>1. is \subseteq Nat \ {0}
  OBVIOUS
<1>2. /\ FirstOf(is) \in is \cup {0}
      /\ FirstOf(is) = 0 <=> is = {}
      /\ \A j \in is : FirstOf(is) <= j
  <2> HIDE DEF is
  <2> QED
    BY <1>1, FirstOfIsFirst
<1>3. PrinterIn(pa, name) = FirstOf(is)
  BY DEF PrinterIn
<1> HIDE DEF is
<1>4. \A i \in is : i \in 1..Len(pa) /\ pa[i].name = name
  BY DEF is
<1>5. ASSUME NEW j \in DOMAIN pa, pa[j].name = name PROVE PrinterIn(pa, name) \in 1..j
  <2>1. j \in is
    BY <1>5 DEF is
  <2> QED
    BY <1>2, <1>3, <1>4, <2>1
<1> QED
  BY <1>2, <1>3, <1>4, <1>5

\* A table that keeps its types in place, and may grow, finds what it found.
LEMMA TypeInKept ==
    ASSUME NEW ta \in Seq(TypeEntry), NEW tb \in Seq(TypeEntry), Len(ta) <= Len(tb),
           \A i \in DOMAIN ta : tb[i].type = ta[i].type, NEW name, TypeIn(ta, name) # 0
    PROVE  TypeIn(tb, name) = TypeIn(ta, name)
<1> DEFINE i == TypeIn(ta, name)
           j == TypeIn(tb, name)
<1>1. i \in DOMAIN ta /\ ta[i].type = name
  BY TypeInFinds
<1>2. i \in DOMAIN tb /\ tb[i].type = name
  BY <1>1
<1>3. j \in 1..i /\ tb[j].type = name
  BY <1>2, TypeInFinds
<1>4. j \in DOMAIN ta /\ ta[j].type = name
  BY <1>1, <1>3
<1>5. i \in 1..j
  BY <1>4, TypeInFinds
<1> QED
  BY <1>3, <1>5

\* A printer that is added later hides no earlier one.
LEMMA PrinterInKept ==
    ASSUME NEW pa \in Seq(PrinterEntry), NEW pb \in Seq(PrinterEntry), Len(pa) <= Len(pb),
           \A i \in DOMAIN pa : pb[i].name = pa[i].name, NEW name, PrinterIn(pa, name) # 0
    PROVE  PrinterIn(pb, name) = PrinterIn(pa, name)
<1> DEFINE i == PrinterIn(pa, name)
           j == PrinterIn(pb, name)
<1>1. i \in DOMAIN pa /\ pa[i].name = name
  BY PrinterInFinds
<1>2. i \in DOMAIN pb /\ pb[i].name = name
  BY <1>1
<1>3. j \in 1..i /\ pb[j].name = name
  BY <1>2, PrinterInFinds
<1>4. j \in DOMAIN pa /\ pa[j].name = name
  BY <1>1, <1>3
<1>5. i \in 1..j
  BY <1>4, PrinterInFinds
<1> QED
  BY <1>3, <1>5

-----------------------------------------------------------------------------
(* The invariant.                                                          *)

\* The tables are empty at first.
LEMMA InitOK == Init => TablesInvariant
BY TablesAssumption DEF Init, TablesInvariant, TablesTyped, TypesOK, PrintersOK, JobsOK

\* A command that keeps the types in place keeps the rest of the tables sound.
LEMMA RestKept ==
    ASSUME TablesInvariant, typeArray' \in Seq(TypeEntry), Len(typeArray) <= Len(typeArray'),
           \A i \in DOMAIN typeArray : typeArray'[i].type = typeArray[i].type,
           UNCHANGED <<printerArray, jobs>>
    PROVE  (PrintersOK /\ JobsOK)'
<1> USE DEF TablesInvariant, TablesTyped
<1>1. \A name : TypeIn(typeArray, name) # 0 => TypeIn(typeArray', name) = TypeIn(typeArray, name)
  BY TypeInKept
<1>2. PrintersOK'
  BY <1>1 DEF PrintersOK
<1>3. JobsOK'
  BY <1>1 DEF JobsOK
<1> QED
  BY <1>2, <1>3

\* Enabling and disabling keep the names.
LEMMA JobsKept ==
    ASSUME TablesInvariant, printerArray' \in Seq(PrinterEntry),
           Len(printerArray) <= Len(printerArray'),
           \A i \in DOMAIN printerArray : printerArray'[i].name = printerArray[i].name,
           UNCHANGED <<typeArray, jobs>>
    PROVE  JobsOK'
<1> USE DEF TablesInvariant, TablesTyped
<1>1. \A name : PrinterIn(printerArray, name) # 0
                    => PrinterIn(printerArray', name) = PrinterIn(printerArray, name)
  BY PrinterInKept
<1>2. ASSUME NEW k \in DOMAIN jobs PROVE HasPrinters(printerArray', jobs[k])
  <2>1. HasPrinters(printerArray, jobs[k])
    BY DEF JobsOK
  <2>2. CASE jobs[k].names = <<>>
    BY <2>1, <2>2 DEF HasPrinters
  <2>3. CASE jobs[k].names # <<>>
    <3>1. \A m \in DOMAIN jobs[k].names :
             /\ PrinterIn(printerArray, jobs[k].names[m]) # 0
             /\ PrinterIn(printerArray', jobs[k].names[m]) = PrinterIn(printerArray, jobs[k].names[m])
      BY <1>1, <2>1, <2>3 DEF HasPrinters
    <3> QED
      BY <2>1, <2>3, <3>1 DEF HasPrinters
  <2> QED
    BY <2>2, <2>3
<1> QED
  BY <1>2 DEF JobsOK

\* newExtension adds a type, also one that is there already.
LEMMA NewExtensionKeeps ==
    ASSUME TablesInvariant, NEW t \in TypeNames, newExtension(t)
    PROVE  TablesInvariant'
<1> USE DEF TablesInvariant
<1> DEFINE e == [type |-> t, conversions |-> <<>>]
<1>1. typeArray' = Append(typeArray, e) /\ UNCHANGED <<printerArray, jobs>>
  BY DEF newExtension
<1>2. e \in TypeEntry /\ e.conversions = <<>>
  BY DEF TypeEntry
<1> HIDE DEF e
<1>3. /\ TablesTyped'
      /\ Len(typeArray') = Len(typeArray) + 1
      /\ typeArray'[Len(typeArray) + 1] = e
      /\ \A i \in DOMAIN typeArray : typeArray'[i] = typeArray[i]
  BY <1>1, <1>2 DEF TablesTyped
<1>4. \A name : TypeIn(typeArray, name) # 0 => TypeIn(typeArray', name) = TypeIn(typeArray, name)
  <2>1. typeArray \in Seq(TypeEntry) /\ typeArray' \in Seq(TypeEntry)
    BY <1>3 DEF TablesTyped
  <2>2. Len(typeArray) <= Len(typeArray')
    BY <1>3, <2>1
  <2>3. \A i \in DOMAIN typeArray : typeArray'[i].type = typeArray[i].type
    BY <1>3
  <2> QED
    BY <2>1, <2>2, <2>3, TypeInKept
<1>5. TypesOK'
  <2> SUFFICES ASSUME NEW i \in DOMAIN typeArray'
               PROVE  /\ \A j \in DOMAIN typeArray'[i].conversions :
                             TypeIn(typeArray', typeArray'[i].conversions[j]) # 0
                      /\ typeArray'[i].conversions # <<>> => TypeIn(typeArray', typeArray'[i].type) = i
    BY DEF TypesOK
  <2>1. CASE i = Len(typeArray) + 1
    BY <1>2, <1>3, <2>1
  <2>2. CASE i # Len(typeArray) + 1
    <3>1. i \in DOMAIN typeArray
      BY <1>3, <2>2 DEF TablesTyped
    <3> QED
      BY <1>3, <1>4, <3>1 DEF TypesOK
  <2> QED
    BY <2>1, <2>2
<1>6. (PrintersOK /\ JobsOK)'
  BY <1>1, <1>3, RestKept DEF TablesTyped
<1> QED
  BY <1>3, <1>5, <1>6

\* newConversion adds its target to the first entry of the type.
LEMMA NewConversionKeeps ==
    ASSUME TablesInvariant, NEW type1, NEW type2, newConversion(type1, type2)
    PROVE  TablesInvariant'
<1> USE DEF TablesInvariant
<1> DEFINE p == TypeIn(typeArray, type1)
           cs == Append(typeArray[p].conversions, type2)
<1>1. /\ p # 0 /\ TypeIn(typeArray, type2) # 0
      /\ typeArray' = [typeArray EXCEPT ![p].conversions = cs]
      /\ UNCHANGED <<printerArray, jobs>>
  BY DEF newConversion, getType, TypeIn
<1>2. p \in DOMAIN typeArray /\ typeArray[p].type = type1 /\ type2 \in TypeNames
  BY <1>1, TypeInFinds DEF TablesTyped
<1>3. typeArray[p] \in TypeEntry
  BY <1>2 DEF TablesTyped
<1>4. typeArray[p].conversions \in Seq(TypeNames)
  BY <1>3 DEF TypeEntry
<1>5. cs \in Seq(TypeNames)
  BY <1>2, <1>4
<1>6. \A j \in DOMAIN cs : cs[j] = type2 \/ (j \in DOMAIN typeArray[p].conversions
                                               /\ cs[j] = typeArray[p].conversions[j])
  BY <1>4, <1>5
<1> HIDE DEF p, cs
<1>7. [typeArray[p] EXCEPT !.conversions = cs] \in TypeEntry
  BY <1>3, <1>5 DEF TypeEntry
<1>8. /\ TablesTyped'
      /\ Len(typeArray') = Len(typeArray)
  BY <1>1, <1>2, <1>7 DEF TablesTyped
<1>9. ASSUME NEW i \in DOMAIN typeArray
      PROVE  /\ typeArray'[i].type = typeArray[i].type
             /\ i # p => typeArray'[i] = typeArray[i]
             /\ i = p => typeArray'[i].conversions = cs
  <2>1. typeArray[i] \in TypeEntry
    BY DEF TablesTyped
  <2> QED
    BY <1>1, <1>2, <2>1 DEF TablesTyped, TypeEntry
<1>10. \A name : TypeIn(typeArray, name) # 0 => TypeIn(typeArray', name) = TypeIn(typeArray, name)
  <2>1. typeArray \in Seq(TypeEntry) /\ typeArray' \in Seq(TypeEntry)
    BY <1>8, <1>9 DEF TablesTyped
  <2>2. Len(typeArray) <= Len(typeArray')
    BY <1>8, <1>9, <2>1
  <2>3. \A i \in DOMAIN typeArray : typeArray'[i].type = typeArray[i].type
    BY <1>8, <1>9
  <2> QED
    BY <2>1, <2>2, <2>3, TypeInKept
<1>11. TypesOK'
  <2> SUFFICES ASSUME NEW i \in DOMAIN typeArray'
               PROVE  /\ \A j \in DOMAIN typeArray'[i].conversions :
                             TypeIn(typeArray', typeArray'[i].conversions[j]) # 0
                      /\ typeArray'[i].conversions # <<>> => TypeIn(typeArray', typeArray'[i].type) = i
    BY DEF TypesOK
  <2>1. i \in DOMAIN typeArray
    BY <1>8 DEF TablesTyped
  <2>2. CASE i = p
    <3>1. TypeIn(typeArray', typeArray'[i].type) = i
      BY <1>1, <1>2, <1>9, <1>10, <2>1, <2>2 DEF p
    <3>2. ASSUME NEW j \in DOMAIN cs PROVE TypeIn(typeArray', cs[j]) # 0
      BY <1>1, <1>2, <1>6, <1>10 DEF TypesOK
    <3> QED
      BY <1>9, <2>1, <2>2, <3>1, <3>2
  <2>3. CASE i # p
    <3>1. i # 0 /\ typeArray'[i] = typeArray[i]
      BY <1>9, <2>1, <2>3 DEF TablesTyped
    <3>2. /\ \A j \in DOMAIN typeArray[i].conversions :
                TypeIn(typeArray, typeArray[i].conversions[j]) # 0
          /\ typeArray[i].conversions # <<>> => TypeIn(typeArray, typeArray[i].type) = i
      BY <2>1 DEF TypesOK
    <3> QED
      BY <1>10, <3>1, <3>2
  <2> QED
    BY <2>2, <2>3
<1>12. (PrintersOK /\ JobsOK)'
  BY <1>1, <1>8, <1>9, RestKept DEF TablesTyped
<1> QED
  BY <1>8, <1>11, <1>12

\* newPrinter adds a printer that is not enabled, perhaps with a name that is taken.
LEMMA NewPrinterKeeps ==
    ASSUME TablesInvariant, NEW name \in PrinterNames, NEW type, newPrinter(name, type)
    PROVE  TablesInvariant'
<1> USE DEF TablesInvariant
<1> DEFINE e == [name |-> name, type |-> type, enabled |-> FALSE]
<1>1. /\ TypeIn(typeArray, type) # 0 /\ Len(printerArray) < MAX_PRINTERS
      /\ printerArray' = Append(printerArray, e)
      /\ UNCHANGED <<typeArray, jobs>>
  BY DEF newPrinter, getType, TypeIn
<1>2. type \in TypeNames
  BY <1>1, TypeInFinds DEF TablesTyped
<1>3. e \in PrinterEntry /\ e.type = type /\ ~e.enabled
  BY <1>2 DEF PrinterEntry
<1> HIDE DEF e
<1>4. /\ TablesTyped'
      /\ Len(printerArray') = Len(printerArray) + 1
      /\ printerArray'[Len(printerArray) + 1] = e
      /\ \A i \in DOMAIN printerArray : printerArray'[i] = printerArray[i]
  BY <1>1, <1>3 DEF TablesTyped
<1>5. \A m : PrinterIn(printerArray, m) # 0 => PrinterIn(printerArray', m) = PrinterIn(printerArray, m)
  <2>1. printerArray \in Seq(PrinterEntry) /\ printerArray' \in Seq(PrinterEntry)
    BY <1>4 DEF TablesTyped
  <2>2. Len(printerArray) <= Len(printerArray')
    BY <1>4, <2>1
  <2>3. \A i \in DOMAIN printerArray : printerArray'[i].name = printerArray[i].name
    BY <1>4
  <2> QED
    BY <2>1, <2>2, <2>3, PrinterInKept
<1>6. TypesOK'
  BY <1>1 DEF TypesOK
<1>7. PrintersOK'
  <2>1. Len(printerArray') <= MAX_PRINTERS
    BY <1>1, <1>4, TablesAssumption DEF TablesTyped
  <2>2. ASSUME NEW i \in DOMAIN printerArray'
        PROVE  /\ TypeIn(typeArray', printerArray'[i].type) # 0
               /\ printerArray'[i].enabled => PrinterIn(printerArray', printerArray'[i].name) = i
    <3>1. CASE i = Len(printerArray) + 1
      BY <1>1, <1>3, <1>4, <3>1
    <3>2. CASE i # Len(printerArray) + 1
      <4>1. i \in DOMAIN printerArray
        BY <1>4, <3>2 DEF TablesTyped
      <4>2. printerArray[i].enabled => PrinterIn(printerArray, printerArray[i].name) = i /\ i # 0
        BY <4>1 DEF PrintersOK, TablesTyped
      <4> QED
        BY <1>1, <1>4, <1>5, <4>1, <4>2 DEF PrintersOK
    <3> QED
      BY <3>1, <3>2
  <2> QED
    BY <2>1, <2>2 DEF PrintersOK
<1>8. JobsOK'
  BY <1>1, <1>4, JobsKept DEF TablesTyped
<1> QED
  BY <1>4, <1>6, <1>7, <1>8

\* enablePrinter and disablePrinter change the first printer of the name.
LEMMA SwitchKeeps ==
    ASSUME TablesInvariant, NEW name, NEW p, p = PrinterIn(printerArray, name), p # 0,
           NEW b \in BOOLEAN,
           \E e : e = [printerArray[p] EXCEPT !.enabled = b]
                  /\ printerArray' = [printerArray EXCEPT ![p] = e],
           UNCHANGED <<typeArray, jobs>>
    PROVE  TablesInvariant'
<1> USE DEF TablesInvariant
<1>1. p \in DOMAIN printerArray /\ printerArray[p].name = name
  BY PrinterInFinds DEF TablesTyped
<1>2. PrinterIn(printerArray, name) = p
  OBVIOUS
<1>3. PICK e : e = [printerArray[p] EXCEPT !.enabled = b]
               /\ printerArray' = [printerArray EXCEPT ![p] = e]
  OBVIOUS
<1>4. \A i \in DOMAIN printerArray : printerArray[i] \in PrinterEntry
  BY DEF TablesTyped
<1>5. e \in PrinterEntry /\ e.name = printerArray[p].name /\ e.type = printerArray[p].type
  BY <1>1, <1>3, <1>4 DEF PrinterEntry
<1>6. TablesTyped' /\ Len(printerArray') = Len(printerArray)
  BY <1>1, <1>3, <1>5 DEF TablesTyped
<1>7. ASSUME NEW i \in DOMAIN printerArray
      PROVE  /\ printerArray'[i].name = printerArray[i].name
             /\ printerArray'[i].type = printerArray[i].type
             /\ i # p => printerArray'[i] = printerArray[i]
  BY <1>1, <1>3, <1>5 DEF TablesTyped
<1>8. \A m : PrinterIn(printerArray, m) # 0 => PrinterIn(printerArray', m) = PrinterIn(printerArray, m)
  <2>1. printerArray \in Seq(PrinterEntry) /\ printerArray' \in Seq(PrinterEntry)
    BY <1>6, <1>7 DEF TablesTyped
  <2>2. Len(printerArray) <= Len(printerArray')
    BY <1>6, <1>7, <2>1
  <2>3. \A i \in DOMAIN printerArray : printerArray'[i].name = printerArray[i].name
    BY <1>6, <1>7
  <2> QED
    BY <2>1, <2>2, <2>3, PrinterInKept
<1>9. TypesOK'
  BY DEF TypesOK
<1>10. PrintersOK'
  <2>1. Len(printerArray') <= MAX_PRINTERS
    BY <1>6 DEF PrintersOK
  <2>2. ASSUME NEW i \in DOMAIN printerArray'
        PROVE  /\ TypeIn(typeArray', printerArray'[i].type) # 0
               /\ printerArray'[i].enabled => PrinterIn(printerArray', printerArray'[i].name) = i
    <3>1. i \in DOMAIN printerArray
      BY <1>6 DEF TablesTyped
    <3>2. CASE i = p
      BY <1>1, <1>2, <1>7, <1>8, <3>1, <3>2, ZenonT(40) DEF PrintersOK
    <3>3. CASE i # p
      <4>1. printerArray[i].enabled => PrinterIn(printerArray, printerArray[i].name) = i /\ i # 0
        BY <3>1 DEF PrintersOK, TablesTyped
      <4>2. TypeIn(typeArray, printerArray[i].type) # 0 /\ printerArray'[i] = printerArray[i]
        BY <1>7, <3>1, <3>3 DEF PrintersOK
      <4> QED
        BY <1>8, <4>1, <4>2
    <3> QED
      BY <3>2, <3>3
  <2> QED
    BY <2>1, <2>2 DEF PrintersOK
<1>11. JobsOK'
  BY <1>6, <1>7, JobsKept DEF TablesTyped
<1> QED
  BY <1>6, <1>9, <1>10, <1>11

\* print takes the printers that its list names at that moment.
LEMMA PrintKeeps ==
    ASSUME TablesInvariant, NEW p \in Prints, print(p.type, p.names)
    PROVE  TablesInvariant'
<1> USE DEF TablesInvariant
<1> DEFINE job == [type |-> p.type, names |-> p.names, eligible_printers |-> getPrinterSet(p.names)]
<1>1. /\ TypeIn(typeArray, p.type) # 0 /\ getPrinterSet(p.names) # {}
      /\ jobs' = Append(jobs, job)
      /\ UNCHANGED <<typeArray, printerArray>>
  BY DEF print, newJob, getType, TypeIn
<1>2. p.type \in TypeNames
  BY <1>1, TypeInFinds DEF TablesTyped
<1>3. \A m : getPrinter(m) = PrinterIn(printerArray, m)
  BY DEF getPrinter, PrinterIn
<1>4. \A m : PrinterIn(printerArray, m) \in Nat
  BY PrinterInFinds DEF TablesTyped
<1>5. getPrinterSet(p.names) \subseteq Nat
  BY <1>3, <1>4, TablesAssumption DEF getPrinterSet
<1>6. HasPrinters(printerArray, job)
  BY <1>1, <1>3 DEF HasPrinters, getPrinterSet
<1>7. job \in JobEntry
  BY <1>2, <1>5 DEF JobEntry
<1>8. job.type = p.type
  OBVIOUS
<1> HIDE DEF job
<1>9. TablesTyped'
  BY <1>1, <1>7 DEF TablesTyped
<1>10. JobsOK'
  <2> SUFFICES ASSUME NEW k \in DOMAIN jobs'
               PROVE  TypeIn(typeArray, jobs'[k].type) # 0 /\ HasPrinters(printerArray, jobs'[k])
    BY <1>1 DEF JobsOK
  <2>1. k = Len(jobs) + 1 \/ k \in DOMAIN jobs
    BY <1>1 DEF TablesTyped
  <2>2. CASE k = Len(jobs) + 1
    BY <1>1, <1>6, <1>8, <2>2 DEF TablesTyped
  <2>3. CASE k \in DOMAIN jobs
    <3>1. jobs'[k] = jobs[k]
      BY <1>1, <2>3 DEF TablesTyped
    <3> QED
      BY <2>3, <3>1 DEF JobsOK
  <2> QED
    BY <2>1, <2>2, <2>3
<1>11. TypesOK' /\ PrintersOK'
  BY <1>1 DEF TypesOK, PrintersOK
<1> QED
  BY <1>9, <1>10, <1>11

\* The tables stay sound: conversions lead to known types and are all in the
\* first entry of their type, only the first printer of a name is enabled, and
\* a job has the printers that its list names.
THEOREM InvariantHolds == Spec => []TablesInvariant
<1>1. Init => TablesInvariant
  BY InitOK
<1>2. TablesInvariant /\ [Next]_vars => TablesInvariant'
  <2> SUFFICES ASSUME TablesInvariant, [Next]_vars PROVE TablesInvariant'
    OBVIOUS
  <2>1. ASSUME NEW t \in TypeNames, newExtension(t) PROVE TablesInvariant'
    BY <2>1, NewExtensionKeeps
  <2>2. ASSUME NEW c \in Conversions, newConversion(c[1], c[2]) PROVE TablesInvariant'
    BY <2>2, NewConversionKeeps
  <2>3. ASSUME NEW m \in PrinterNames, NEW t \in PrinterTypes, newPrinter(m, t) PROVE TablesInvariant'
    BY <2>3, NewPrinterKeeps
  <2>4. ASSUME NEW m \in PrinterNames, enablePrinter(m) PROVE TablesInvariant'
    <3> DEFINE q == PrinterIn(printerArray, m)
               e == [printerArray[q] EXCEPT !.enabled = TRUE]
    <3>1. q # 0 /\ printerArray' = [printerArray EXCEPT ![q] = e] /\ UNCHANGED <<typeArray, jobs>>
      BY <2>4 DEF enablePrinter, getPrinter, PrinterIn
    <3> QED
      BY <3>1, SwitchKeeps
  <2>5. ASSUME NEW m \in PrinterNames, disablePrinter(m) PROVE TablesInvariant'
    <3> DEFINE q == PrinterIn(printerArray, m)
               e == [printerArray[q] EXCEPT !.enabled = FALSE]
    <3>1. q # 0 /\ printerArray' = [printerArray EXCEPT ![q] = e] /\ UNCHANGED <<typeArray, jobs>>
      BY <2>5 DEF disablePrinter, getPrinter, PrinterIn
    <3> QED
      BY <3>1, SwitchKeeps
  <2>6. ASSUME NEW p \in Prints, print(p.type, p.names) PROVE TablesInvariant'
    BY <2>6, PrintKeeps
  <2>7. CASE UNCHANGED vars
    BY <2>7 DEF vars, TablesInvariant, TablesTyped, TypesOK, PrintersOK, JobsOK
  <2> QED
    BY <2>1, <2>2, <2>3, <2>4, <2>5, <2>6, <2>7 DEF Next
<1> QED
  BY <1>1, <1>2, PTL DEF Spec

\* getConversionPath never follows a conversion to an unknown type.
THEOREM ConversionsLeadToTypes == Spec => []ConversionsAreFound
<1>1. TablesInvariant => ConversionsAreFound
  <2> SUFFICES ASSUME TablesInvariant, NEW i \in DOMAIN typeArray
               PROVE  /\ ToSet(typeArray[i].conversions) \subseteq Defined
                      /\ typeArray[i].conversions # <<>> => getType(typeArray[i].type) = i
    BY DEF ConversionsAreFound
  <2>1. ASSUME NEW j \in DOMAIN typeArray[i].conversions
        PROVE  typeArray[i].conversions[j] \in Defined
    <3> DEFINE u == typeArray[i].conversions[j]
    <3>1. TypeIn(typeArray, u) # 0
      BY DEF TablesInvariant, TypesOK
    <3> HIDE DEF u
    <3>2. TypeIn(typeArray, u) \in DOMAIN typeArray /\ typeArray[TypeIn(typeArray, u)].type = u
      BY <3>1, TypeInFinds DEF TablesInvariant, TablesTyped
    <3>3. u \in Defined
      BY <3>2 DEF Defined
    <3> QED
      BY <3>3 DEF u
  <2>2. typeArray[i].conversions # <<>> => getType(typeArray[i].type) = i
    BY DEF TablesInvariant, TypesOK, getType, TypeIn
  <2> QED
    BY <2>1, <2>2 DEF ToSet
<1> QED
  BY <1>1, InvariantHolds, PTL

\* The printer that getEligiblePrinter chooses is the one its name leads to.
THEOREM EnabledPrintersAreFirst == Spec => []EnabledPrintersOwnTheirName
<1>1. TablesInvariant => EnabledPrintersOwnTheirName
  BY DEF TablesInvariant, PrintersOK, EnabledPrintersOwnTheirName, getPrinter, PrinterIn
<1> QED
  BY <1>1, InvariantHolds, PTL

-----------------------------------------------------------------------------
(* Paths.                                                                  *)

\* The types that are in the table have conversions to such types.
LEMMA ConversionsOfDefined ==
    ASSUME TablesInvariant, NEW t \in Defined
    PROVE  /\ getType(t) # 0
           /\ conversions(t) \in Seq(Defined)
<1> USE DEF TablesInvariant
<1>1. PICK k \in DOMAIN typeArray : typeArray[k].type = t
  BY DEF Defined
<1> DEFINE i == TypeIn(typeArray, t)
<1>2. i \in DOMAIN typeArray /\ i # 0
  BY <1>1, TypeInFinds DEF TablesTyped
<1>3. getType(t) = i /\ conversions(t) = typeArray[i].conversions
  BY DEF getType, TypeIn, conversions
<1> HIDE DEF i
<1>4. typeArray[i] \in TypeEntry
  BY <1>2 DEF TablesTyped
<1> DEFINE cs == typeArray[i].conversions
<1>5. cs \in Seq(TypeNames)
  BY <1>4 DEF TypeEntry
<1>6. ASSUME NEW j \in DOMAIN cs PROVE cs[j] \in Defined
  <2> DEFINE u == cs[j]
  <2>1. TypeIn(typeArray, u) # 0
    BY <1>2 DEF TypesOK
  <2> HIDE DEF u
  <2>2. TypeIn(typeArray, u) \in DOMAIN typeArray /\ typeArray[TypeIn(typeArray, u)].type = u
    BY <2>1, TypeInFinds DEF TablesTyped
  <2>3. u \in Defined
    BY <2>2 DEF Defined
  <2> QED
    BY <2>3 DEF u
<1> HIDE DEF cs
<1>7. cs \in Seq(Defined)
  BY <1>5, <1>6
<1> QED
  BY <1>2, <1>3, <1>7 DEF cs

\* The conversions that getConversionPath can go on with, and what it returns
\* for a type and a budget, when f has what it returns for smaller budgets.
Tries(f, n, t) == {j \in DOMAIN conversions(t) : j <= n /\ f[n - j][conversions(t)[j]] # <<>>}
PathAt(f, n, t, to) ==
    IF conversions(t) = <<>> \/ t = to \/ n = 0 THEN <<>>
    ELSE IF getConversion(t, to) THEN <<to>>
    ELSE IF FirstOf(Tries(f, n, t)) = 0 THEN <<>>
    ELSE <<conversions(t)[FirstOf(Tries(f, n, t))]>>
         \o f[n - FirstOf(Tries(f, n, t))][conversions(t)[FirstOf(Tries(f, n, t))]]

PathTables == [Defined -> Seq(Defined)]

\* f has what getConversionPath returns for every budget.
IsPaths(f, to) ==
    /\ f \in [0..MAX_CONVERSIONS -> PathTables]
    /\ \A n \in 0..MAX_CONVERSIONS, t \in Defined : f[n][t] = PathAt(f, n, t, to)

\* The branch that the search takes is within the budget and leads somewhere.
LEMMA TriesAre ==
    ASSUME TablesInvariant, NEW f, NEW n \in 0..MAX_CONVERSIONS, NEW t \in Defined,
           NEW i, i = FirstOf(Tries(f, n, t))
    PROVE  /\ i = 0 <=> Tries(f, n, t) = {}
           /\ i # 0 => /\ i \in 1..n /\ i \in DOMAIN conversions(t)
                       /\ f[n - i][conversions(t)[i]] # <<>>
<1>1. conversions(t) \in Seq(Defined)
  BY ConversionsOfDefined
<1>2. Tries(f, n, t) \subseteq Nat \ {0}
  BY <1>1 DEF Tries
<1>3. i = 0 <=> Tries(f, n, t) = {}
  BY <1>2, FirstOfIsFirst
<1>4. i # 0 => i \in Tries(f, n, t)
  BY <1>2, FirstOfIsFirst
<1>5. i # 0 => i \in Nat \ {0}
  BY <1>2, <1>4
<1>6. i # 0 => i \in DOMAIN conversions(t) /\ i <= n /\ f[n - i][conversions(t)[i]] # <<>>
  BY <1>4 DEF Tries
<1> QED
  BY <1>3, <1>5, <1>6, TablesAssumption

\* A step of the search makes a path of paths.
LEMMA PathAtTyped ==
    ASSUME TablesInvariant, NEW to \in Defined, NEW f \in [0..MAX_CONVERSIONS -> PathTables],
           NEW n \in 0..MAX_CONVERSIONS, NEW t \in Defined
    PROVE  PathAt(f, n, t, to) \in Seq(Defined)
<1> DEFINE i == FirstOf(Tries(f, n, t))
           u == conversions(t)[i]
           r == f[n - i][u]
<1>1. conversions(t) \in Seq(Defined)
  BY ConversionsOfDefined
<1>2. i # 0 => i \in 1..n /\ i \in DOMAIN conversions(t)
  BY TriesAre
<1>3. PathAt(f, n, t, to) \in {<<>>, <<to>>} \/ (i # 0 /\ PathAt(f, n, t, to) = <<u>> \o r)
  BY DEF PathAt
<1> HIDE DEF i
<1>4. i # 0 => u \in Defined
  BY <1>1, <1>2
<1>5. i # 0 => n - i \in 0..MAX_CONVERSIONS
  BY <1>2, TablesAssumption
<1> HIDE DEF u
<1>6. i # 0 => r \in Seq(Defined)
  BY <1>4, <1>5 DEF PathTables
<1> HIDE DEF r
<1>7. i # 0 => <<u>> \o r \in Seq(Defined)
  BY <1>4, <1>6
<1>8. <<>> \in Seq(Defined) /\ <<to>> \in Seq(Defined)
  OBVIOUS
<1> QED
  BY <1>3, <1>7, <1>8

\* The recursion of getConversionPath has a function, and it returns its values.
LEMMA PathsExist ==
    ASSUME TablesInvariant, NEW to \in Defined
    PROVE  \E f : IsPaths(f, to) /\ \A from \in Defined :
                     getConversionPath(from, to) = f[MAX_CONVERSIONS][from]
<1> DEFINE N == MAX_CONVERSIONS
           step(f, n) == [t \in Defined |-> PathAt(f, n, t, to)]
           F == [x \in [0..N -> PathTables] \X (0..N) |-> step(x[1], x[2])]
           path == CHOOSE f : f = [n \in 0..N |-> step(f, n)]
<1>N. N \in Nat
  BY TablesAssumption
<1>1. \A f \in [0..N -> PathTables], n \in 0..N : step(f, n) \in PathTables
  BY PathAtTyped DEF PathTables
<1>2. ASSUME NEW g, NEW h, NEW n \in 0..N, \A m \in 0..(n - 1) : g[m] = h[m]
      PROVE  step(g, n) = step(h, n)
  <2> SUFFICES ASSUME NEW t \in Defined PROVE PathAt(g, n, t, to) = PathAt(h, n, t, to)
    OBVIOUS
  <2>1. conversions(t) \in Seq(Defined)
    BY ConversionsOfDefined
  <2>2. \A j \in DOMAIN conversions(t) : j <= n => n - j \in 0..(n - 1)
    BY <1>N, <2>1
  <2>3. Tries(g, n, t) = Tries(h, n, t)
    BY <1>2, <2>2 DEF Tries
  <2> DEFINE i == FirstOf(Tries(g, n, t))
  <2>4. i = FirstOf(Tries(h, n, t))
    BY <2>3
  <2>5. i # 0 => i \in 1..n
    BY TriesAre
  <2> HIDE DEF i
  <2>6. i # 0 => g[n - i] = h[n - i]
    BY <1>2, <2>5, <1>N
  <2> QED
    BY <2>4, <2>6 DEF PathAt, i
<1>4. ASSUME NEW from PROVE getConversionPath(from, to) = path[N][from]
  BY DEF getConversionPath, PathAt, Tries
<1> HIDE DEF step, N
<1>5. LooksBack(F, N, PathTables)
  <2>1. F \in [[0..N -> PathTables] \X (0..N) -> PathTables]
    BY <1>1
  <2>2. ASSUME NEW g \in [0..N -> PathTables], NEW h \in [0..N -> PathTables], NEW n \in 0..N,
               \A m \in 0..(n - 1) : g[m] = h[m]
        PROVE  F[<<g, n>>] = F[<<h, n>>]
    BY <1>2, <2>2
  <2> QED
    BY <2>1, <2>2 DEF LooksBack
<1>6. PathTables # {}
  <2>1. [t \in Defined |-> <<>>] \in PathTables
    BY DEF PathTables
  <2> QED
    BY <2>1
<1>7. PICK f \in [0..N -> PathTables] : FollowsUpTo(f, N, F)
  <2> HIDE DEF F
  <2> QED
    BY <1>N, <1>5, <1>6, StrongRecursionExists
<1>8. f = [n \in 0..N |-> step(f, n)]
  <2>1. \A n \in 0..N : f[n] = F[<<f, n>>]
    BY <1>7 DEF FollowsUpTo
  <2>2. \A n \in 0..N : F[<<f, n>>] = step(f, n)
    OBVIOUS
  <2> QED
    BY <2>1, <2>2
<1>9. path = [n \in 0..N |-> step(path, n)]
  <2> HIDE DEF F
  <2> QED
    BY <1>8
<1> HIDE DEF path, F
<1>10. \A n \in 0..N : path[n] = f[n]
  <2> DEFINE T == {n \in 0..N : \A m \in 0..n : path[m] = f[m]}
  <2>1. ASSUME NEW n \in 0..N, \A m \in 0..(n - 1) : path[m] = f[m] PROVE path[n] = f[n]
    <3>1. step(path, n) = step(f, n)
      BY <1>2, <2>1
    <3>2. path[n] = step(path, n)
      BY <1>9
    <3>3. f[n] = step(f, n)
      BY <1>8
    <3> QED
      BY <3>1, <3>2, <3>3
  <2>2. 0 \in T
    <3>1. path[0] = f[0]
      BY <1>N, <2>1
    <3> QED
      BY <1>N, <3>1
  <2>3. ASSUME NEW n \in 1..N, n - 1 \in T PROVE n \in T
    <3>1. \A m \in 0..(n - 1) : path[m] = f[m]
      BY <2>3
    <3>2. n \in 0..N
      OBVIOUS
    <3>3. path[n] = f[n]
      BY <2>1, <3>1, <3>2
    <3>4. \A m \in 0..n : m \in 0..(n - 1) \/ m = n
      OBVIOUS
    <3> QED
      BY <3>1, <3>2, <3>3, <3>4
  <2> HIDE DEF T
  <2>4. \A n \in 0..N : n \in T
    BY <1>N, <2>2, <2>3, BoundedInduction
  <2> QED
    BY <2>4 DEF T
<1>11. path = f
  BY <1>9, <1>10
<1>12. \A n \in 0..N, t \in Defined : f[n][t] = PathAt(f, n, t, to)
  <2> SUFFICES ASSUME NEW n \in 0..N, NEW t \in Defined PROVE f[n][t] = PathAt(f, n, t, to)
    OBVIOUS
  <2>1. f[n] = step(f, n)
    BY <1>8
  <2> QED
    BY <2>1 DEF step
<1>13. IsPaths(f, to)
  BY <1>12 DEF IsPaths, N
<1>14. \A from \in Defined : getConversionPath(from, to) = f[MAX_CONVERSIONS][from]
  BY <1>4, <1>11 DEF N
<1> QED
  BY <1>13, <1>14

-----------------------------------------------------------------------------
(* Ways.                                                                   *)

\* A way of any cost.
IsWay(w, t, to) ==
    /\ w \in Seq(Defined) /\ Len(w) >= 2
    /\ w[1] = t /\ w[Len(w)] = to
    /\ \A i \in 1..(Len(w) - 1) : getConversion(w[i], w[i + 1])

\* A conversion has a position in the table of its type.
LEMMA PositionFinds ==
    ASSUME TablesInvariant, NEW t \in Defined, NEW u
    PROVE  /\ Position(t, u) \in Nat
           /\ getConversion(t, u) <=> Position(t, u) # 0
           /\ Position(t, u) # 0 => /\ Position(t, u) \in DOMAIN conversions(t)
                                    /\ conversions(t)[Position(t, u)] = u
           /\ \A j \in DOMAIN conversions(t) : conversions(t)[j] = u => Position(t, u) <= j
<1> DEFINE js == {j \in DOMAIN conversions(t) : conversions(t)[j] = u}
<1>1. conversions(t) \in Seq(Defined) /\ getType(t) # 0
  BY ConversionsOfDefined
<1>2. js \subseteq Nat \ {0}
  BY <1>1
<1>3. Position(t, u) = FirstOf(js)
  BY DEF Position
<1>4. getConversion(t, u) <=> js # {}
  BY <1>1 DEF getConversion, ToSet
<1>5. \A j : j \in js <=> j \in DOMAIN conversions(t) /\ conversions(t)[j] = u
  OBVIOUS
<1> HIDE DEF js
<1>6. /\ FirstOf(js) \in js \cup {0}
      /\ FirstOf(js) = 0 <=> js = {}
      /\ \A j \in js : FirstOf(js) <= j
  BY <1>2, FirstOfIsFirst
<1> DEFINE p == Position(t, u)
<1>7. p \in Nat /\ (p # 0 => p \in js) /\ (p = 0 <=> js = {}) /\ \A j \in js : p <= j
  <2>1. p = FirstOf(js)
    BY <1>3
  <2> HIDE DEF p
  <2>2. (p \in js \/ p = 0) /\ (p = 0 <=> js = {}) /\ \A j \in js : p <= j
    BY <1>6, <2>1, Zenon
  <2>3. p \in Nat
    <3>1. CASE p = 0
      BY <3>1
    <3>2. CASE p \in js
      BY <1>2, <3>2, Zenon
    <3> QED
      BY <2>2, <3>1, <3>2
  <2> QED
    BY <2>2, <2>3
<1> HIDE DEF p
<1>8. /\ p \in Nat
      /\ getConversion(t, u) <=> p # 0
      /\ p # 0 => p \in DOMAIN conversions(t) /\ conversions(t)[p] = u
      /\ \A j \in DOMAIN conversions(t) : conversions(t)[j] = u => p <= j
  BY <1>4, <1>5, <1>7
<1> QED
  BY <1>8 DEF p

\* f has the sums of the positions of the first steps of w.
IsSum(f, w) ==
    /\ f \in [0..(Len(w) - 2) -> Nat]
    /\ f[0] = 0
    /\ \A k \in 1..(Len(w) - 2) : f[k] = f[k - 1] + Position(w[k], w[k + 1])

\* The positions of a way add up.
LEMMA SumExists ==
    ASSUME TablesInvariant, NEW w \in Seq(Defined), Len(w) >= 2
    PROVE  \E f : IsSum(f, w) /\ Positions(w) = f[Len(w) - 2]
<1> DEFINE N == Len(w) - 2
           step(x, k) == x + Position(w[k], w[k + 1])
           F == [x \in Nat \X (1..N) |-> step(x[1], x[2])]
           sum == CHOOSE f : f = [k \in 0..N |-> IF k = 0 THEN 0 ELSE step(f[k - 1], k)]
<1>N. N \in Nat
  OBVIOUS
<1>1. ASSUME NEW x \in Nat, NEW k \in 1..N PROVE step(x, k) \in Nat
  <2>1. w[k] \in Defined
    OBVIOUS
  <2>2. Position(w[k], w[k + 1]) \in Nat
    BY <2>1, PositionFinds
  <2> QED
    BY <2>2
<1>2. Positions(w) = sum[N]
  BY DEF Positions
<1> HIDE DEF step, N
<1>3. StepsWithin(Nat, N, F)
  BY <1>1 DEF StepsWithin
<1>4. PICK f \in [0..N -> Nat] : FollowsSteps(f, N, 0, F)
  <2> HIDE DEF F
  <2> QED
    BY <1>N, <1>3, RecursionExists
<1>5. ASSUME NEW k \in 1..N PROVE f[k] = step(f[k - 1], k)
  <2>1. <<f[k - 1], k>> \in Nat \X (1..N)
    BY <1>N
  <2>2. f[k] = F[<<f[k - 1], k>>]
    BY <1>4 DEF FollowsSteps
  <2> QED
    BY <2>1, <2>2
<1>6. f = [k \in 0..N |-> IF k = 0 THEN 0 ELSE step(f[k - 1], k)]
  BY <1>4, <1>5, <1>N DEF FollowsSteps
<1>7. sum = [k \in 0..N |-> IF k = 0 THEN 0 ELSE step(sum[k - 1], k)]
  <2> HIDE DEF F
  <2> QED
    BY <1>6
<1> HIDE DEF sum, F
<1>8. \A k \in 0..N : sum[k] \in Nat
  <2> DEFINE T == {k \in 0..N : sum[k] \in Nat}
  <2>1. 0 \in T
    BY <1>7, <1>N
  <2>2. ASSUME NEW k \in 1..N, k - 1 \in T PROVE k \in T
    <3>1. k \in 0..N /\ sum[k] = step(sum[k - 1], k)
      BY <1>7, <1>N
    <3> QED
      BY <1>1, <2>2, <3>1
  <2> HIDE DEF T
  <2>3. \A k \in 0..N : k \in T
    BY <1>N, <2>1, <2>2, BoundedInduction
  <2> QED
    BY <2>3 DEF T
<1>9. sum[0] = 0 /\ \A k \in 1..N : sum[k] = step(sum[k - 1], k)
  BY <1>7, <1>N
<1>10. sum \in [0..N -> Nat]
  BY <1>7, <1>8
<1>11. IsSum(sum, w)
  BY <1>9, <1>10 DEF IsSum, step, N
<1> QED
  BY <1>2, <1>11 DEF N

\* x is w with t in front.
Prefixed(x, t, w) == x = <<t>> \o w

\* A way with one more conversion in front costs the position of that conversion.
LEMMA LongerWay ==
    ASSUME TablesInvariant, NEW t \in Defined, NEW u, NEW to, NEW w, IsWay(w, u, to),
           NEW x, Prefixed(x, t, w)
    PROVE  /\ x \in Seq(Defined) /\ Len(x) = Len(w) + 1 /\ x[1] = t /\ x[2] = u
           /\ Positions(w) \in Nat
           /\ Positions(x) = Position(t, u) + Positions(w)
           /\ getConversion(t, u) => IsWay(x, t, to)
<1>1. /\ w \in Seq(Defined) /\ Len(w) >= 2 /\ w[1] = u /\ w[Len(w)] = to
      /\ \A i \in 1..(Len(w) - 1) : getConversion(w[i], w[i + 1])
  BY DEF IsWay
<1>2. /\ x \in Seq(Defined) /\ Len(x) = Len(w) + 1 /\ x[1] = t
      /\ \A i \in 1..Len(w) : x[i + 1] = w[i]
  BY <1>1 DEF Prefixed
<1>3. PICK f : IsSum(f, w) /\ Positions(w) = f[Len(w) - 2]
  BY <1>1, SumExists
<1>4. PICK g : IsSum(g, x) /\ Positions(x) = g[Len(x) - 2]
  <2>1. x \in Seq(Defined) /\ Len(x) >= 2
    BY <1>1, <1>2
  <2> QED
    BY <2>1, SumExists
<1> DEFINE N == Len(w) - 2
           P == Position(t, u)
<1>N. N \in Nat /\ Len(x) - 2 = N + 1
  BY <1>1, <1>2
<1>P. P \in Nat
  BY PositionFinds
<1>5. /\ f \in [0..N -> Nat] /\ f[0] = 0
      /\ \A k \in 1..N : f[k] = f[k - 1] + Position(w[k], w[k + 1])
  BY <1>3 DEF IsSum
<1>6. /\ g \in [0..(N + 1) -> Nat] /\ g[0] = 0
      /\ \A k \in 1..(N + 1) : g[k] = g[k - 1] + Position(x[k], x[k + 1])
  BY <1>4, <1>N DEF IsSum
<1>7. x[2] = u
  BY <1>1, <1>2
<1> DEFINE T == {k \in 0..N : g[k + 1] = P + f[k]}
<1>8. 0 \in T
  <2>1. 1 \in 1..(N + 1)
    BY <1>N
  <2>2. g[1] = g[0] + Position(x[1], x[2])
    BY <1>6, <2>1
  <2>3. g[1] = P
    BY <1>2, <1>6, <1>7, <1>P, <2>2
  <2> HIDE DEF P
  <2> QED
    BY <1>5, <1>N, <1>P, <2>3
<1>9. ASSUME NEW k \in 1..N, k - 1 \in T PROVE k \in T
  <2>1. x[k + 1] = w[k] /\ x[k + 2] = w[k + 1]
    BY <1>2, <1>N
  <2>2. g[k + 1] = g[k] + Position(x[k + 1], x[k + 2])
    <3>1. k + 1 \in 1..(N + 1) /\ (k + 1) - 1 = k /\ (k + 1) + 1 = k + 2
      BY <1>N
    <3> QED
      BY <1>6, <3>1
  <2>3. f[k] = f[k - 1] + Position(w[k], w[k + 1])
    BY <1>5
  <2>4. g[k] = P + f[k - 1]
    BY <1>9, <1>N
  <2>5. w[k] \in Defined
    BY <1>1
  <2>6. Position(w[k], w[k + 1]) \in Nat /\ f[k - 1] \in Nat
    <3>1. Position(w[k], w[k + 1]) \in Nat
      BY <2>5, PositionFinds
    <3>2. k - 1 \in 0..N
      BY <1>N
    <3> QED
      BY <1>5, <3>1, <3>2
  <2> HIDE DEF P
  <2>7. g[k + 1] = P + f[k]
    BY <1>P, <2>1, <2>2, <2>3, <2>4, <2>6
  <2> QED
    BY <2>7, <1>N
<1> HIDE DEF T
<1>10. N \in T
  <2> HIDE DEF N
  <2>1. \A k \in 0..N : k \in T
    BY <1>8, <1>9, <1>N, BoundedInduction
  <2> QED
    BY <2>1, <1>N
<1>11. Positions(x) = P + Positions(w)
  BY <1>3, <1>4, <1>N, <1>10 DEF T
<1>12. Positions(w) \in Nat
  BY <1>3, <1>5, <1>N
<1>13. ASSUME getConversion(t, u) PROVE IsWay(x, t, to)
  <2>1. x[Len(x)] = to
    BY <1>1, <1>2
  <2>2. ASSUME NEW i \in 1..(Len(x) - 1) PROVE getConversion(x[i], x[i + 1])
    <3>1. CASE i = 1
      BY <1>2, <1>7, <1>13, <3>1
    <3>2. CASE i # 1
      <4>1. i - 1 \in 1..(Len(w) - 1) /\ (i - 1) + 1 = i
        BY <1>1, <1>2, <3>2
      <4>2. x[i] = w[i - 1] /\ x[i + 1] = w[(i - 1) + 1]
        BY <1>1, <1>2, <4>1
      <4> QED
        BY <1>1, <4>1, <4>2
    <3> QED
      BY <3>1, <3>2
  <2> QED
    BY <1>1, <1>2, <2>1, <2>2 DEF IsWay
<1> QED
  BY <1>2, <1>7, <1>11, <1>12, <1>13

\* One conversion is a way that costs nothing.
LEMMA DirectWay ==
    ASSUME TablesInvariant, NEW t \in Defined, NEW to \in Defined, getConversion(t, to)
    PROVE  IsWay(<<t, to>>, t, to) /\ Positions(<<t, to>>) = 0
<1> DEFINE w == <<t, to>>
<1>1. w \in Seq(Defined) /\ Len(w) = 2 /\ w[1] = t /\ w[2] = to
  OBVIOUS
<1> HIDE DEF w
<1>2. Len(w) >= 2
  BY <1>1
<1>3. PICK f : IsSum(f, w) /\ Positions(w) = f[Len(w) - 2]
  BY <1>1, <1>2, SumExists
<1>4. Positions(w) = 0
  BY <1>1, <1>3 DEF IsSum
<1>5. IsWay(w, t, to)
  BY <1>1 DEF IsWay
<1> QED
  BY <1>4, <1>5 DEF w

\* A way costs at least one for each of its conversions but the last.
LEMMA WaysCost ==
    ASSUME TablesInvariant, NEW w, NEW t, NEW to, IsWay(w, t, to)
    PROVE  Positions(w) \in Nat /\ Len(w) - 2 <= Positions(w)
<1>1. /\ w \in Seq(Defined) /\ Len(w) >= 2
      /\ \A i \in 1..(Len(w) - 1) : getConversion(w[i], w[i + 1])
  BY DEF IsWay
<1>2. PICK f : IsSum(f, w) /\ Positions(w) = f[Len(w) - 2]
  BY <1>1, SumExists
<1> DEFINE N == Len(w) - 2
           T == {k \in 0..N : k <= f[k]}
<1>N. N \in Nat
  BY <1>1
<1>3. /\ f \in [0..N -> Nat] /\ f[0] = 0
      /\ \A k \in 1..N : f[k] = f[k - 1] + Position(w[k], w[k + 1])
  BY <1>2 DEF IsSum
<1>4. 0 \in T
  BY <1>3, <1>N
<1>5. ASSUME NEW k \in 1..N, k - 1 \in T PROVE k \in T
  <2>1. w[k] \in Defined /\ getConversion(w[k], w[k + 1])
    BY <1>1
  <2>2. Position(w[k], w[k + 1]) \in Nat /\ Position(w[k], w[k + 1]) # 0
    BY <2>1, PositionFinds
  <2>3. f[k] = f[k - 1] + Position(w[k], w[k + 1]) /\ f[k - 1] \in Nat /\ k - 1 <= f[k - 1]
    BY <1>3, <1>5, <1>N
  <2>4. k <= f[k] /\ k \in 0..N
    BY <2>2, <2>3, <1>N
  <2> QED
    BY <2>4
<1> HIDE DEF T
<1>6. N \in T
  <2> HIDE DEF N
  <2>1. \A k \in 0..N : k \in T
    BY <1>4, <1>5, <1>N, BoundedInduction
  <2> QED
    BY <2>1, <1>N
<1> QED
  BY <1>2, <1>3, <1>N, <1>6 DEF T

\* Ways are the ways within the budget: a longer one would cost too much.
LEMMA WaysWithinBudget ==
    ASSUME TablesInvariant, NEW from \in Defined, NEW to \in Defined, NEW w
    PROVE  w \in Ways(from, to) <=> IsWay(w, from, to) /\ Positions(w) < MAX_CONVERSIONS
<1>1. ASSUME w \in Ways(from, to)
      PROVE  IsWay(w, from, to) /\ Positions(w) < MAX_CONVERSIONS
  <2>1. /\ \A i \in 1..(Len(w) - 1) : getConversion(w[i], w[i + 1])
        /\ Positions(w) < MAX_CONVERSIONS
    BY <1>1 DEF Ways
  <2>2. PICK s \in BoundedSeq(Defined, MAX_CONVERSIONS - 1) : w = <<from>> \o s \o <<to>>
    BY <1>1 DEF Ways
  <2>3. s \in Seq(Defined)
    BY TablesAssumption DEF BoundedSeq, SeqOf
  <2>4. w \in Seq(Defined) /\ Len(w) >= 2 /\ w[1] = from /\ w[Len(w)] = to
    BY <2>2, <2>3
  <2> QED
    BY <2>1, <2>4 DEF IsWay
<1>2. ASSUME IsWay(w, from, to), Positions(w) < MAX_CONVERSIONS
      PROVE  w \in Ways(from, to)
  <2>1. /\ w \in Seq(Defined) /\ Len(w) >= 2 /\ w[1] = from /\ w[Len(w)] = to
        /\ \A i \in 1..(Len(w) - 1) : getConversion(w[i], w[i + 1])
    BY <1>2 DEF IsWay
  <2> DEFINE m == Len(w) - 2
             s == [i \in 1..m |-> w[i + 1]]
  <2>2. Positions(w) \in Nat /\ m <= Positions(w)
    BY <1>2, WaysCost
  <2>3. m \in 0..(MAX_CONVERSIONS - 1)
    BY <1>2, <2>1, <2>2, TablesAssumption
  <2>4. s \in [1..m -> Defined]
    BY <2>1
  <2>5. s \in Seq(Defined) /\ Len(s) = m
    BY <2>1, <2>4
  <2>6. w = <<from>> \o s \o <<to>>
    <3> DEFINE x == <<from>> \o s \o <<to>>
    <3>1. x \in Seq(Defined) /\ Len(x) = Len(w)
      BY <2>1, <2>5
    <3>2. ASSUME NEW i \in 1..Len(w) PROVE x[i] = w[i]
      BY <2>1, <2>5
    <3> HIDE DEF x
    <3>3. x = w
      BY <2>1, <3>1, <3>2
    <3> QED
      BY <3>3 DEF x
  <2> HIDE DEF s, m
  <2>7. s \in BoundedSeq(Defined, MAX_CONVERSIONS - 1)
    BY <2>3, <2>4 DEF BoundedSeq, SeqOf
  <2> QED
    BY <1>2, <2>1, <2>6, <2>7 DEF Ways
<1> QED
  BY <1>1, <1>2

\* A way of one conversion.
LEMMA PairOf ==
    ASSUME NEW S, NEW t \in S, NEW u \in S
    PROVE  <<t>> \o <<u>> = <<t, u>>
<1> DEFINE x == <<t>> \o <<u>>
           y == <<t, u>>
<1>1. y \in Seq(S) /\ Len(y) = 2 /\ y[1] = t /\ y[2] = u
  OBVIOUS
<1>2. x \in Seq(S) /\ Len(x) = 2
  <2>1. <<t>> \in Seq(S) /\ <<u>> \in Seq(S) /\ Len(<<t>>) = 1 /\ Len(<<u>>) = 1
    OBVIOUS
  <2> QED
    BY <2>1, ConcatProperties
<1>3. x[1] = t /\ x[2] = u
  OBVIOUS
<1> HIDE DEF x, y
<1>4. x = y
  BY <1>1, <1>2, <1>3
<1> QED
  BY <1>4 DEF x, y

\* What the values for a budget n are: ways that cost less, whenever there is one.
PathsFor(f, n, to) ==
    \A t \in Defined : t # to =>
        /\ f[n][t] # <<>> => /\ IsWay(<<t>> \o f[n][t], t, to)
                             /\ Positions(<<t>> \o f[n][t]) < n
        /\ \A w \in Seq(Defined) : IsWay(w, t, to) /\ Positions(w) < n => f[n][t] # <<>>

\* A path is found from the paths with smaller budgets.
LEMMA PathFound ==
    ASSUME TablesInvariant, NEW to \in Defined, NEW f, IsPaths(f, to),
           NEW n \in 0..MAX_CONVERSIONS, \A m \in 0..(n - 1) : PathsFor(f, m, to),
           NEW t \in Defined, t # to, f[n][t] # <<>>
    PROVE  IsWay(<<t>> \o f[n][t], t, to) /\ Positions(<<t>> \o f[n][t]) < n
<1>1. f[n][t] = PathAt(f, n, t, to) /\ n # 0
  BY DEF IsPaths, PathAt
<1>2. CASE getConversion(t, to)
  <2>1. f[n][t] = <<to>>
    BY <1>1, <1>2 DEF PathAt
  <2>2. <<t>> \o f[n][t] = <<t, to>>
    <3>1. <<t>> \o <<to>> = <<t, to>>
      BY PairOf
    <3> QED
      BY <2>1, <3>1
  <2>3. 0 < n
    BY <1>1
  <2> QED
    BY <1>2, <2>2, <2>3, DirectWay
<1>3. CASE ~getConversion(t, to)
  <2> DEFINE i == FirstOf(Tries(f, n, t))
             u == conversions(t)[i]
             r == f[n - i][u]
             w == <<u>> \o r
             x == <<t>> \o w
  <2>1. i # 0 /\ f[n][t] = w
    BY <1>1, <1>3 DEF PathAt
  <2>2. i \in 1..n /\ i \in DOMAIN conversions(t) /\ r # <<>>
    BY <2>1, TriesAre
  <2>3. conversions(t) \in Seq(Defined)
    BY ConversionsOfDefined
  <2> HIDE DEF i
  <2>4. u \in Defined /\ getConversion(t, u) /\ Position(t, u) \in Nat /\ Position(t, u) <= i
    <3>1. u \in Defined /\ u = conversions(t)[i]
      BY <2>2, <2>3
    <3> HIDE DEF u
    <3>2. Position(t, u) \in Nat /\ Position(t, u) <= i
      BY <2>2, <3>1, PositionFinds
    <3>3. getConversion(t, u)
      BY <2>2, <3>1, ConversionsOfDefined DEF getConversion, ToSet
    <3> QED
      BY <3>1, <3>2, <3>3
  <2> HIDE DEF u
  <2>5. u # to
    BY <1>3, <2>4
  <2>6. n - i \in 0..(n - 1)
    BY <2>2, TablesAssumption
  <2>7. IsWay(w, u, to) /\ Positions(w) < n - i
    BY <2>2, <2>4, <2>5, <2>6 DEF PathsFor
  <2> HIDE DEF w
  <2>8. /\ Positions(w) \in Nat
        /\ Positions(x) = Position(t, u) + Positions(w)
        /\ IsWay(x, t, to)
    <3>1. Prefixed(x, t, w)
      BY DEF Prefixed
    <3> HIDE DEF x
    <3> QED
      BY <2>4, <2>7, <3>1, LongerWay
  <2>9. Positions(x) < n
    BY <2>2, <2>4, <2>7, <2>8, TablesAssumption
  <2> QED
    BY <2>1, <2>8, <2>9
<1> QED
  BY <1>2, <1>3

\* No way is missed.
LEMMA NoWayMissed ==
    ASSUME TablesInvariant, NEW to \in Defined, NEW f, IsPaths(f, to),
           NEW n \in 0..MAX_CONVERSIONS, \A m \in 0..(n - 1) : PathsFor(f, m, to),
           NEW t \in Defined, t # to, NEW x \in Seq(Defined), IsWay(x, t, to), Positions(x) < n
    PROVE  f[n][t] # <<>>
<1> DEFINE u == x[2]
<1>1. /\ Len(x) >= 2 /\ x[1] = t /\ x[Len(x)] = to
      /\ \A i \in 1..(Len(x) - 1) : getConversion(x[i], x[i + 1])
  BY DEF IsWay
<1>2. getConversion(t, u) /\ u \in Defined
  <2>1. 1 \in 1..(Len(x) - 1) /\ 1 + 1 = 2 /\ 2 \in DOMAIN x
    BY <1>1
  <2>2. getConversion(x[1], x[1 + 1])
    BY <1>1, <2>1
  <2> QED
    BY <1>1, <2>1, <2>2
<1>3. n # 0
  BY WaysCost
<1>4. conversions(t) # <<>>
  BY <1>2 DEF getConversion, ToSet
<1>5. f[n][t] = PathAt(f, n, t, to)
  BY DEF IsPaths
<1>6. CASE getConversion(t, to)
  BY <1>3, <1>4, <1>5, <1>6 DEF PathAt
<1>7. CASE ~getConversion(t, to)
  <2> DEFINE w == [i \in 1..(Len(x) - 1) |-> x[i + 1]]
             j == Position(t, u)
  <2>1. u # to /\ Len(x) >= 3
    BY <1>1, <1>2, <1>7
  <2>2. w \in Seq(Defined) /\ Len(w) = Len(x) - 1
    BY <2>1
  <2>3. \A i \in 1..Len(w) : w[i] = x[i + 1]
    BY <2>2
  <2> HIDE DEF w
  <2>4. IsWay(w, u, to)
    <3>1. w[1] = u /\ w[Len(w)] = to /\ Len(w) >= 2
      BY <1>1, <2>1, <2>2, <2>3
    <3>2. ASSUME NEW i \in 1..(Len(w) - 1) PROVE getConversion(w[i], w[i + 1])
      <4>1. w[i] = x[i + 1] /\ w[i + 1] = x[(i + 1) + 1] /\ i + 1 \in 1..(Len(x) - 1)
        BY <2>2, <2>3
      <4> QED
        BY <1>1, <4>1
    <3> QED
      BY <2>2, <3>1, <3>2 DEF IsWay
  <2>5. x = <<t>> \o w
    BY <1>1, <2>1, <2>2, <2>3
  <2> HIDE DEF u
  <2>6. Positions(w) \in Nat /\ Positions(x) = j + Positions(w)
    <3>1. Prefixed(x, t, w)
      BY <2>5 DEF Prefixed
    <3> QED
      BY <2>4, <3>1, LongerWay
  <2>7. j \in Nat /\ j # 0 /\ j \in DOMAIN conversions(t) /\ conversions(t)[j] = u
    BY <1>2, PositionFinds
  <2> HIDE DEF j
  <2>8. j <= n /\ n - j \in 0..(n - 1) /\ Positions(w) < n - j
    BY <2>6, <2>7, TablesAssumption
  <2>9. f[n - j][u] # <<>>
    BY <1>2, <2>1, <2>2, <2>4, <2>8 DEF PathsFor
  <2>10. j \in Tries(f, n, t)
    BY <2>7, <2>8, <2>9 DEF Tries
  <2> DEFINE i == FirstOf(Tries(f, n, t))
  <2>11. i # 0
    BY <2>10, TriesAre
  <2>12. f[n][t] = <<conversions(t)[i]>> \o f[n - i][conversions(t)[i]]
    BY <1>3, <1>4, <1>5, <1>7, <2>11 DEF PathAt
  <2>13. conversions(t)[i] \in Defined /\ f[n - i][conversions(t)[i]] \in Seq(Defined)
    <3>1. i \in 1..n /\ i \in DOMAIN conversions(t)
      BY <2>11, TriesAre
    <3>2. conversions(t) \in Seq(Defined)
      BY ConversionsOfDefined
    <3> HIDE DEF i
    <3>3. conversions(t)[i] \in Defined /\ n - i \in 0..MAX_CONVERSIONS
      BY <3>1, <3>2, TablesAssumption
    <3> QED
      BY <3>3 DEF IsPaths, PathTables
  <2> HIDE DEF i
  <2> QED
    BY <2>12, <2>13
<1> QED
  BY <1>6, <1>7

\* For every budget the search finds the ways within the budget: strong induction.
LEMMA PathsForBudget ==
    ASSUME TablesInvariant, NEW to \in Defined, NEW f, IsPaths(f, to)
    PROVE  PathsFor(f, MAX_CONVERSIONS, to)
<1> DEFINE N == MAX_CONVERSIONS
           T == {n \in 0..N : \A m \in 0..n : PathsFor(f, m, to)}
<1>N. N \in Nat
  BY TablesAssumption
<1>1. ASSUME NEW n \in 0..N, \A m \in 0..(n - 1) : PathsFor(f, m, to)
      PROVE  PathsFor(f, n, to)
  BY <1>1, PathFound, NoWayMissed DEF PathsFor
<1> HIDE DEF N
<1>2. 0 \in T
  <2>1. PathsFor(f, 0, to)
    BY <1>1, <1>N
  <2> QED
    BY <1>N, <2>1
<1>3. ASSUME NEW n \in 1..N, n - 1 \in T PROVE n \in T
  <2>1. \A m \in 0..(n - 1) : PathsFor(f, m, to)
    BY <1>3
  <2>2. n \in 0..N
    BY <1>N
  <2>3. PathsFor(f, n, to)
    BY <1>1, <2>1, <2>2
  <2>4. \A m \in 0..n : m \in 0..(n - 1) \/ m = n
    BY <1>N
  <2> QED
    BY <2>1, <2>2, <2>3, <2>4
<1> HIDE DEF T
<1>4. \A n \in 0..N : n \in T
  BY <1>2, <1>3, <1>N, BoundedInduction
<1>5. N \in T
  BY <1>4, <1>N
<1> QED
  BY <1>5, <1>N DEF T, N

\* getConversionPath finds a way if there is one, and only then.
LEMMA PathsAreWaysLemma ==
    ASSUME TablesInvariant, NEW from \in Defined, NEW to \in Defined, from # to,
           NEW path, path = getConversionPath(from, to)
    PROVE  /\ Ways(from, to) = {} => path = <<>>
           /\ Ways(from, to) # {} => path # <<>> /\ <<from>> \o path \in Ways(from, to)
<1>1. PICK f : IsPaths(f, to) /\ \A t \in Defined :
                  getConversionPath(t, to) = f[MAX_CONVERSIONS][t]
  BY PathsExist
<1>2. path = f[MAX_CONVERSIONS][from]
  BY <1>1
<1>3. PathsFor(f, MAX_CONVERSIONS, to)
  BY <1>1, PathsForBudget
<1>4. path # <<>> => /\ IsWay(<<from>> \o path, from, to)
                     /\ Positions(<<from>> \o path) < MAX_CONVERSIONS
  BY <1>2, <1>3 DEF PathsFor
<1>5. path # <<>> => <<from>> \o path \in Ways(from, to)
  BY <1>4, WaysWithinBudget
<1>6. ASSUME NEW w \in Ways(from, to) PROVE path # <<>>
  <2>1. IsWay(w, from, to) /\ Positions(w) < MAX_CONVERSIONS
    BY WaysWithinBudget
  <2>2. w \in Seq(Defined)
    BY <2>1 DEF IsWay
  <2> QED
    BY <1>2, <1>3, <2>1, <2>2 DEF PathsFor
<1> QED
  BY <1>5, <1>6

\* getConversionPath finds a path exactly when there is a way within its
\* budget, and the path is one, in tables of any size.
THEOREM PathsFollowConversions == Spec => []PathsAreWays
<1>1. TablesInvariant => PathsAreWays
  BY PathsAreWaysLemma DEF PathsAreWays
<1> QED
  BY <1>1, InvariantHolds, PTL

\* There is a path to a printer of another type exactly when there is a way,
\* and none to one of the same type.
LEMMA PathIffWay ==
    ASSUME TablesInvariant, NEW from \in Defined, NEW to \in Defined
    PROVE  getConversionPath(from, to) # <<>> <=> from # to /\ Ways(from, to) # {}
<1>1. CASE from = to
  <2>1. PICK f : IsPaths(f, to) /\ \A t \in Defined :
                    getConversionPath(t, to) = f[MAX_CONVERSIONS][t]
    BY PathsExist
  <2>2. getConversionPath(from, to) = PathAt(f, MAX_CONVERSIONS, from, to)
    BY <2>1, TablesAssumption DEF IsPaths
  <2> QED
    BY <1>1, <2>2 DEF PathAt
<1>2. CASE from # to
  BY <1>2, PathsAreWaysLemma
<1> QED
  BY <1>1, <1>2

\* The bits of a job's set are those of the printers its user meant.
LEMMA EligibleAreMeant ==
    ASSUME TablesInvariant, NEW k \in DOMAIN jobs, NEW i \in DOMAIN printerArray
    PROVE  i \in jobs[k].eligible_printers <=>
               \/ jobs[k].names = <<>>
               \/ \E m \in DOMAIN jobs[k].names : getPrinter(jobs[k].names[m]) = i
<1>1. HasPrinters(printerArray, jobs[k])
  BY DEF TablesInvariant, JobsOK
<1>2. \A m : getPrinter(m) = PrinterIn(printerArray, m)
  BY DEF getPrinter, PrinterIn
<1>3. i \in 1..MAX_PRINTERS
  BY TablesAssumption DEF TablesInvariant, TablesTyped, PrintersOK
<1>4. CASE jobs[k].names = <<>>
  BY <1>1, <1>3, <1>4 DEF HasPrinters
<1>5. CASE jobs[k].names # <<>>
  BY <1>1, <1>2, <1>5 DEF HasPrinters
<1> QED
  BY <1>4, <1>5

\* A job finds a printer exactly if an enabled one of those it was printed to
\* can be reached, an idle one of its type first, whatever has been added to
\* the tables since, in tables of any size.
THEOREM JobsFindPrinters == Spec => []JobsFindTheirPrinters
<1>1. ASSUME TablesInvariant, NEW k \in DOMAIN jobs, NEW busy \in SUBSET DOMAIN printerArray
      PROVE  LET job == jobs[k]
                 reachable == {i \in DOMAIN printerArray : Reachable(job, i)}
                 direct == {i \in reachable \ busy : printerArray[i].type = job.type}
                 chosen == getEligiblePrinter(job, busy)
             IN  /\ chosen = 0 <=> reachable = {}
                 /\ chosen # 0 => chosen \in reachable
                 /\ direct # {} => chosen \in direct
  <2> DEFINE job == jobs[k]
             reachable == {i \in DOMAIN printerArray : Reachable(job, i)}
             direct == {i \in reachable \ busy : printerArray[i].type = job.type}
             chosen == getEligiblePrinter(job, busy)
             usable == {i \in DOMAIN printerArray :
                           printerArray[i].enabled /\ i \in job.eligible_printers}
             same == {i \in usable : printerArray[i].type = job.type}
             converted == {i \in usable :
                              getConversionPath(job.type, printerArray[i].type) # <<>>}
             idle == same \ busy
  <2>1. chosen = IF idle # {} THEN FirstOf(idle)
                 ELSE IF converted # {} THEN FirstOf(converted) ELSE FirstOf(same)
    BY DEF getEligiblePrinter
  <2>2. ASSUME NEW name, TypeIn(typeArray, name) # 0 PROVE name \in Defined
    <3>1. TypeIn(typeArray, name) \in DOMAIN typeArray
          /\ typeArray[TypeIn(typeArray, name)].type = name
      BY <1>1, <2>2, TypeInFinds DEF TablesInvariant, TablesTyped
    <3> QED
      BY <3>1 DEF Defined
  <2>3. job.type \in Defined
    BY <1>1, <2>2 DEF TablesInvariant, JobsOK
  <2>4. ASSUME NEW i \in DOMAIN printerArray
        PROVE  Reachable(job, i) <=> i \in same \/ i \in converted
    <3>1. printerArray[i].type \in Defined
      BY <1>1, <2>2 DEF TablesInvariant, PrintersOK
    <3>2. getConversionPath(job.type, printerArray[i].type) # <<>>
             <=> job.type # printerArray[i].type /\ Ways(job.type, printerArray[i].type) # {}
      BY <1>1, <2>3, <3>1, PathIffWay
    <3>3. i \in job.eligible_printers <=>
              \/ job.names = <<>>
              \/ \E m \in DOMAIN job.names : getPrinter(job.names[m]) = i
      BY <1>1, EligibleAreMeant
    <3> HIDE DEF job
    <3> QED
      BY <3>2, <3>3 DEF Reachable
  <2>5. /\ same \subseteq DOMAIN printerArray /\ converted \subseteq DOMAIN printerArray
        /\ reachable = same \cup converted
        /\ DOMAIN printerArray \subseteq Nat \ {0}
    <3>1. same \subseteq DOMAIN printerArray /\ converted \subseteq DOMAIN printerArray
      OBVIOUS
    <3>2. reachable = same \cup converted
      <4> HIDE DEF same, converted
      <4> QED
        BY <2>4, <3>1
    <3>3. DOMAIN printerArray \subseteq Nat \ {0}
      BY <1>1 DEF TablesInvariant, TablesTyped
    <3> QED
      BY <3>1, <3>2, <3>3
  <2>6. direct = idle
    <3>1. \A i \in converted : printerArray[i].type # job.type
      <4> SUFFICES ASSUME NEW i \in converted PROVE printerArray[i].type # job.type
        OBVIOUS
      <4>1. i \in DOMAIN printerArray /\ getConversionPath(job.type, printerArray[i].type) # <<>>
        OBVIOUS
      <4>2. printerArray[i].type \in Defined
        BY <1>1, <2>2, <4>1 DEF TablesInvariant, PrintersOK
      <4> QED
        BY <1>1, <2>3, <4>1, <4>2, PathIffWay
    <3>2. \A i \in same : printerArray[i].type = job.type
      OBVIOUS
    <3> HIDE DEF same, converted, reachable, job
    <3> QED
      BY <2>5, <3>1, <3>2
  <2> HIDE DEF same, converted, reachable, job, direct, chosen
  <2>7. idle \subseteq Nat \ {0} /\ converted \subseteq Nat \ {0} /\ same \subseteq Nat \ {0}
    BY <2>5
  <2>8. \A is : is \subseteq Nat \ {0} =>
            /\ FirstOf(is) = 0 <=> is = {}
            /\ is # {} => FirstOf(is) \in is
    BY FirstOfIsFirst
  <2>9. CASE idle # {}
    <3>1. chosen \in idle /\ chosen # 0
      BY <2>1, <2>7, <2>8, <2>9
    <3> QED
      BY <2>5, <2>6, <3>1 DEF job, reachable, direct, chosen
  <2>10. CASE idle = {} /\ converted # {}
    <3>1. chosen \in converted /\ chosen # 0
      BY <2>1, <2>7, <2>8, <2>10
    <3> QED
      BY <2>5, <2>6, <2>10, <3>1 DEF job, reachable, direct, chosen
  <2>11. CASE idle = {} /\ converted = {}
    <3>1. chosen = FirstOf(same)
      BY <2>1, <2>11
    <3>2. (chosen = 0 <=> same = {}) /\ (chosen # 0 => chosen \in same)
      BY <2>7, <2>8, <3>1
    <3> QED
      BY <2>5, <2>6, <2>11, <3>2 DEF job, reachable, direct, chosen
  <2> QED
    BY <2>9, <2>10, <2>11
<1>2. TablesInvariant => JobsFindTheirPrinters
  BY <1>1 DEF JobsFindTheirPrinters
<1> QED
  BY <1>2, InvariantHolds, PTL
=============================================================================
