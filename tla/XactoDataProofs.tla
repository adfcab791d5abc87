--------------------------- MODULE XactoDataProofs ---------------------------
(* Proofs about the blobs, keys and versions of the Xacto server, for any  *)
(* clients, requests and contents: who holds which reference and which     *)
(* mutex, that what is sent is alive, and that a key has one entry.        *)
EXTENDS XactoData, NaturalLemmas, SequenceTheorems

Labels == {"recv", "lock", "find", "compare", "compared", "collect", "relink", "doomed",
           "replaced", "unlock", "reply", "show", "done"}
InMap == {"find", "compare", "compared", "collect", "relink", "doomed", "replaced", "unlock"}
HasKey == {"lock", "find", "compare", "compared"}
HasValue == {"lock", "find", "compare", "compared", "collect", "relink", "doomed"}
HasEntry == {"collect", "relink", "doomed", "replaced"}

Contents == KeyContents \cup Values \cup {Null}
Blob == [content : Contents, refcnt : Int, live : BOOLEAN, for : KeyContents \cup {Null}]
Version == [creator : Clients \cup {Null}, blob : Blobs \cup {Null}, live : BOOLEAN]
Entry == [key : Blobs, versions : Seq(Requests)]

Typed ==
    /\ blob \in [Blobs -> Blob]
    /\ mutex \in [Blobs -> Clients \cup {Null}]
    /\ version \in [Requests -> Version]
    /\ entries \in Seq(Entry)
    /\ mapLock \in Clients \cup {Null}
    /\ pc \in [Clients -> Labels]
    /\ n \in [Clients -> Nat]
    /\ kind \in [Clients -> {"GET", "PUT", "LAST"}]
    /\ pos \in [Clients -> Int]
    /\ cur \in [Clients -> Int \cup Requests \cup {Null}]
    /\ entry \in [Clients -> Int]
    /\ result \in [Clients -> Blobs \cup {Null}]
    /\ kept \in [Blobs -> Nat]

\* A thread is in the store exactly if it has the_map.mutex.
Locking == \A c \in Clients : pc[c] \in InMap <=> mapLock = c

\* The request a thread works on, and where it is in the table.
PlaceOf(c) ==
    /\ n[c] \in 0..Len(Access[c])
    /\ pc[c] \notin {"recv", "reply", "show", "done"} => n[c] # 0
    /\ pc[c] = "find" => pos[c] \in 0..Len(entries)
    /\ pc[c] \in {"compare", "compared"} => pos[c] \in 1..Len(entries)
    /\ pc[c] \in HasEntry => entry[c] \in 1..Len(entries)
    /\ pc[c] = "collect" => pos[c] \in 1..(Len(VersionsOf(c)) + 1)
    /\ pc[c] = "relink" => pos[c] \in 2..Len(VersionsOf(c))
    /\ pc[c] = "doomed" => /\ pos[c] \in 1..Len(VersionsOf(c))
                           /\ cur[c] \in pos[c]..(Len(VersionsOf(c)) + 1)
Places == \A c \in Clients : PlaceOf(c)

\* Only the two blobs of a comparison are locked, one after the other.
Mutexes ==
    \A b \in Blobs : mutex[b] # Null =>
        LET c == mutex[b] IN
        \/ pc[c] \in {"compare", "compared"} /\ b = entries[pos[c]].key
        \/ pc[c] = "compared" /\ b = KeyOf(c)

\* What keeps alive the blob that store_get returns.
Results ==
    \A c \in Clients : result[c] # Null =>
        \/ /\ pc[c] \in {"replaced", "unlock"}
           /\ version[Request(c)].live /\ version[Request(c)].blob = result[c]
        \/ pc[c] = "reply" /\ n[c] # 0 /\ kept[result[c]] > 0

\* A version is made by its request, once, and blobs of later requests are not
\* there yet.
Creation ==
    \A r \in Requests :
        /\ version[r].live => version[r].creator # Null
        /\ version[r].creator # Null =>
              \/ r[2] < n[r[1]]
              \/ r[2] = n[r[1]] /\ pc[r[1]] \notin HasValue
        /\ n[r[1]] < r[2] => blob[<<r, "key">>].refcnt = 0 /\ blob[<<r, "value">>].refcnt = 0

\* The i-th version of entry e is freed and about to be unlinked.
Dying(e, i) ==
    \E c \in Clients : entry[c] = e /\
        \/ pc[c] = "relink" /\ i = pos[c] - 1
        \/ pc[c] = "doomed" /\ i \in pos[c]..(cur[c] - 1)

\* A version is in one place of one list and is alive, but for those that are
\* being collected; one that was replaced is alive and in no list.
Lists ==
    /\ \A e \in DOMAIN entries : \A i \in DOMAIN entries[e].versions :
          /\ version[entries[e].versions[i]].creator # Null
          /\ version[entries[e].versions[i]].live \/ Dying(e, i)
    /\ \A d, e \in DOMAIN entries :
          \A i \in DOMAIN entries[d].versions, j \in DOMAIN entries[e].versions :
              entries[d].versions[i] = entries[e].versions[j] => d = e /\ i = j
    /\ \A c \in Clients : pc[c] = "replaced" =>
          /\ cur[c] \in Requests /\ version[cur[c]].live /\ cur[c] # Request(c)
          /\ \A e \in DOMAIN entries : \A i \in DOMAIN entries[e].versions :
                entries[e].versions[i] # cur[c]

\* The keys in the table differ, and the search has passed only other keys.
Keys ==
    /\ \A e \in DOMAIN entries : blob[entries[e].key].content \in KeyContents
    /\ \A c \in Clients : pc[c] \in HasKey => blob[KeyOf(c)].content \in KeyContents
    /\ \A c \in Clients : pc[c] \in {"find", "compare", "compared"} =>
          \A e \in DOMAIN entries : e > pos[c] =>
              blob[entries[e].key].content # blob[KeyOf(c)].content
    /\ OneEntryPerKey

\* The inductive invariant.
DataInvariant ==
    /\ Typed /\ Locking /\ Places /\ Mutexes /\ Results
    /\ Creation /\ Lists /\ Keys /\ ReferencesAreExact

-----------------------------------------------------------------------------
(* Requests and blobs.                                                     *)

\* A request is a client and the number of one of its accesses.
LEMMA RequestParts ==
    ASSUME NEW r \in Requests
    PROVE  r[1] \in Clients /\ r[2] \in 1..Len(Access[r[1]]) /\ r = <<r[1], r[2]>>
<1>1. PICK c \in Clients : r \in {c} \X DOMAIN Access[c]
  BY DEF Requests
<1>2. DOMAIN Access[c] = 1..Len(Access[c])
  BY DataAssumption
<1> QED
  BY <1>1, <1>2

\* Every access of a client is a request.
LEMMA RequestIn ==
    ASSUME NEW c \in Clients, NEW i \in 1..Len(Access[c])
    PROVE  <<c, i>> \in Requests
<1>1. DOMAIN Access[c] = 1..Len(Access[c])
  BY DataAssumption
<1>2. <<c, i>> \in {c} \X DOMAIN Access[c]
  BY <1>1
<1> QED
  BY <1>2 DEF Requests

\* There are finitely many requests, so versions can be counted.
LEMMA RequestsFinite == IsFiniteSet(Requests)
<1> DEFINE S(c) == {c} \X DOMAIN Access[c]
<1>1. ASSUME NEW c \in Clients PROVE IsFiniteSet(S(c))
  <2>1. Len(Access[c]) \in Nat /\ DOMAIN Access[c] = 1..Len(Access[c])
    BY DataAssumption
  <2>2. IsFiniteSet(1..Len(Access[c]))
    BY <2>1, FS_Interval
  <2>3. IsFiniteSet({c})
    BY FS_Singleton
  <2> QED
    BY <2>1, <2>2, <2>3, FS_Product
<1>2. IsFiniteSet({S(c) : c \in Clients})
  <2>1. IsFiniteSet(Clients)
    BY DataAssumption
  <2> DEFINE f == [c \in Clients |-> S(c)]
  <2>2. IsFiniteSet({f[c] : c \in Clients})
    <3>1. f \in Surjection(Clients, {f[c] : c \in Clients})
      BY DEF Surjection
    <3> QED
      BY <2>1, <3>1, FS_Surjection
  <2>3. {f[c] : c \in Clients} = {S(c) : c \in Clients}
    OBVIOUS
  <2> QED
    BY <2>2, <2>3
<1>3. IsFiniteSet(UNION {S(c) : c \in Clients})
  BY <1>1, <1>2, FS_UNION
<1> QED
  BY <1>3 DEF Requests

\* The objects of the request a thread works on.
LEMMA OwnObjects ==
    ASSUME DataInvariant, NEW c \in Clients,
           pc[c] \notin {"recv", "reply", "show", "done"} \/ result[c] # Null
    PROVE  Request(c) \in Requests /\ KeyOf(c) \in Blobs /\ ValueOf(c) \in Blobs
<1>a. n[c] # 0
  <2>1. CASE pc[c] \notin {"recv", "reply", "show", "done"}
    BY <2>1 DEF DataInvariant, Places, PlaceOf
  <2>2. CASE result[c] # Null
    BY <2>1, <2>2 DEF DataInvariant, Results
  <2> QED
    BY <2>1, <2>2
<1>1. n[c] \in 1..Len(Access[c])
  BY <1>a, DataAssumption DEF DataInvariant, Typed, Places, PlaceOf
<1>2. Request(c) \in Requests
  BY <1>1, RequestIn DEF Request
<1> QED
  BY <1>2 DEF KeyOf, ValueOf, Blobs

\* What creating, referencing and dereferencing a blob does.
LEMMA CreateEffect ==
    ASSUME NEW bs \in [Blobs -> Blob], NEW b \in Blobs, NEW x \in Contents,
           NEW k \in KeyContents \cup {Null}, NEW r, r = blob_create(bs, b, x, k)
    PROVE  /\ r \in [Blobs -> Blob]
           /\ r[b].refcnt = 1 /\ r[b].live /\ r[b].content = x
           /\ \A a \in Blobs : a # b => r[a] = bs[a]
BY DEF blob_create, Blob

\* blob_ref counts one reference more.
LEMMA RefEffect ==
    ASSUME NEW bs \in [Blobs -> Blob], NEW b \in Blobs, NEW r, r = blob_ref(bs, b)
    PROVE  /\ r \in [Blobs -> Blob]
           /\ r[b].refcnt = bs[b].refcnt + 1 /\ r[b].live = bs[b].live /\ r[b].content = bs[b].content
           /\ \A a \in Blobs : a # b => r[a] = bs[a]
<1> DEFINE e == [bs[b] EXCEPT !.refcnt = bs[b].refcnt + 1]
<1>1. r = [bs EXCEPT ![b] = e]
  BY NullAssumption DEF blob_ref
<1>2. bs[b] \in Blob
  OBVIOUS
<1>3. e \in Blob /\ e.refcnt = bs[b].refcnt + 1 /\ e.live = bs[b].live /\ e.content = bs[b].content
  BY <1>2 DEF Blob
<1> HIDE DEF e
<1> QED
  BY <1>1, <1>3

\* blob_unref counts one less, and frees the blob with the last one.
LEMMA UnrefEffect ==
    ASSUME NEW bs \in [Blobs -> Blob], NEW b \in Blobs, NEW r, r = blob_unref(bs, b)
    PROVE  /\ r \in [Blobs -> Blob]
           /\ r[b].refcnt = bs[b].refcnt - 1 /\ (r[b].live <=> bs[b].refcnt > 1)
           /\ r[b].content = bs[b].content
           /\ \A a \in Blobs : a # b => r[a] = bs[a]
<1> DEFINE alive == bs[b].refcnt > 1
           e == [content |-> bs[b].content, refcnt |-> bs[b].refcnt - 1,
                 live |-> alive, for |-> bs[b].for]
<1>1. r = [bs EXCEPT ![b] = e]
  BY NullAssumption DEF blob_unref
<1>2. bs[b] \in Blob
  OBVIOUS
<1>3. alive \in BOOLEAN
  OBVIOUS
<1> HIDE DEF alive
<1>4. /\ e \in Blob /\ e.refcnt = bs[b].refcnt - 1 /\ e.live = alive
      /\ e.content = bs[b].content
  BY <1>2, <1>3 DEF Blob
<1> HIDE DEF e
<1>5. /\ r \in [Blobs -> Blob] /\ r[b] = e
      /\ \A a \in Blobs : a # b => r[a] = bs[a]
  BY <1>1, <1>4
<1> QED
  BY <1>4, <1>5 DEF alive

-----------------------------------------------------------------------------
(* Counting.                                                               *)

\* The entries that have a blob as their key, and the versions that have one
\* as their value.
EntriesOf(es, b) == {e \in DOMAIN es : es[e].key = b}
KeysOn(es, b) == Cardinality(EntriesOf(es, b))
LiveOf(ver, b) == {v \in Requests : ver[v].live /\ ver[v].blob = b}
VersionsOn(ver, b) == Cardinality(LiveOf(ver, b))

\* The entries of a key can be counted, and there is one if the key has an entry.
LEMMA KeysOnNat ==
    ASSUME NEW es \in Seq(Entry), NEW b
    PROVE  /\ IsFiniteSet(EntriesOf(es, b)) /\ KeysOn(es, b) \in Nat
           /\ \A e \in DOMAIN es : es[e].key = b => KeysOn(es, b) > 0
<1>1. EntriesOf(es, b) \subseteq 1..Len(es) /\ Len(es) \in Nat
  BY DEF EntriesOf
<1>2. IsFiniteSet(EntriesOf(es, b))
  <2>1. IsFiniteSet(1..Len(es))
    BY <1>1, FS_Interval
  <2> QED
    BY <1>1, <2>1, FS_Subset
<1>3. KeysOn(es, b) \in Nat
  BY <1>2, FS_CardinalityType DEF KeysOn
<1>4. ASSUME NEW e \in DOMAIN es, es[e].key = b PROVE KeysOn(es, b) > 0
  <2>1. EntriesOf(es, b) # {}
    BY <1>4 DEF EntriesOf
  <2>2. KeysOn(es, b) # 0
    BY <1>2, <2>1, FS_EmptySet DEF KeysOn
  <2> QED
    BY <1>3, <2>2
<1> QED
  BY <1>2, <1>3, <1>4

Appended(es, x, fs) == fs = Append(es, x)

\* The new entry counts for its own key.
LEMMA KeysOnAppend ==
    ASSUME NEW es \in Seq(Entry), NEW x \in Entry, NEW b, NEW fs, Appended(es, x, fs)
    PROVE  KeysOn(fs, b) = IF x.key = b THEN KeysOn(es, b) + 1 ELSE KeysOn(es, b)
<1>1. /\ Len(fs) = Len(es) + 1 /\ DOMAIN fs = 1..Len(fs) /\ fs[Len(es) + 1] = x
      /\ DOMAIN es = 1..Len(es) /\ Len(es) \in Nat
      /\ \A e \in DOMAIN es : fs[e] = es[e]
  BY DEF Appended
<1>2. EntriesOf(fs, b) = IF x.key = b THEN EntriesOf(es, b) \cup {Len(es) + 1} ELSE EntriesOf(es, b)
  <2>1. DOMAIN fs = DOMAIN es \cup {Len(es) + 1}
    BY <1>1
  <2> QED
    BY <1>1, <2>1 DEF EntriesOf
<1>3. Len(es) + 1 \notin EntriesOf(es, b)
  BY <1>1 DEF EntriesOf
<1>4. IsFiniteSet(EntriesOf(es, b)) /\ KeysOn(es, b) \in Nat
  BY KeysOnNat
<1>5. Cardinality(EntriesOf(es, b) \cup {Len(es) + 1}) = Cardinality(EntriesOf(es, b)) + 1
  BY <1>3, <1>4, FS_AddElement
<1> QED
  BY <1>2, <1>5 DEF KeysOn

\* The count looks only at the keys of the entries.
LEMMA KeysOnSame ==
    ASSUME NEW es, NEW fs, DOMAIN fs = DOMAIN es, \A e \in DOMAIN es : fs[e].key = es[e].key, NEW b
    PROVE  KeysOn(fs, b) = KeysOn(es, b)
BY DEF KeysOn, EntriesOf

\* The versions of a value can be counted, and there is one if the value has a version.
LEMMA VersionsOnNat ==
    ASSUME NEW ver, NEW b
    PROVE  /\ IsFiniteSet(LiveOf(ver, b)) /\ VersionsOn(ver, b) \in Nat
           /\ \A v \in Requests : ver[v].live /\ ver[v].blob = b => VersionsOn(ver, b) > 0
<1>1. LiveOf(ver, b) \subseteq Requests
  BY DEF LiveOf
<1>2. IsFiniteSet(LiveOf(ver, b))
  BY <1>1, RequestsFinite, FS_Subset
<1>3. VersionsOn(ver, b) \in Nat
  BY <1>2, FS_CardinalityType DEF VersionsOn
<1>4. ASSUME NEW v \in Requests, ver[v].live, ver[v].blob = b PROVE VersionsOn(ver, b) > 0
  <2>1. LiveOf(ver, b) # {}
    BY <1>4 DEF LiveOf
  <2>2. VersionsOn(ver, b) # 0
    BY <1>2, <2>1, FS_EmptySet DEF VersionsOn
  <2> QED
    BY <1>3, <2>2
<1> QED
  BY <1>2, <1>3, <1>4

\* One version comes, or goes.
LEMMA VersionsOnAdd ==
    ASSUME NEW ver, NEW wer, NEW v \in Requests, ~ver[v].live, wer[v].live,
           \A u \in Requests : u # v => wer[u] = ver[u], NEW b
    PROVE  VersionsOn(wer, b) = IF wer[v].blob = b THEN VersionsOn(ver, b) + 1 ELSE VersionsOn(ver, b)
<1>1. LiveOf(wer, b) = IF wer[v].blob = b THEN LiveOf(ver, b) \cup {v} ELSE LiveOf(ver, b)
  BY DEF LiveOf
<1>2. v \notin LiveOf(ver, b)
  BY DEF LiveOf
<1>3. Cardinality(LiveOf(ver, b) \cup {v}) = Cardinality(LiveOf(ver, b)) + 1
  BY <1>2, VersionsOnNat, FS_AddElement
<1> QED
  BY <1>1, <1>3 DEF VersionsOn

\* A version that is disposed of counts no more.
LEMMA VersionsOnRemove ==
    ASSUME NEW ver, NEW wer, NEW v \in Requests, ver[v].live, ~wer[v].live,
           \A u \in Requests : u # v => wer[u] = ver[u], NEW b
    PROVE  VersionsOn(wer, b) = IF ver[v].blob = b THEN VersionsOn(ver, b) - 1 ELSE VersionsOn(ver, b)
<1>1. VersionsOn(ver, b) = IF ver[v].blob = b THEN VersionsOn(wer, b) + 1 ELSE VersionsOn(wer, b)
  <2>1. \A u \in Requests : u # v => ver[u] = wer[u]
    OBVIOUS
  <2> QED
    BY <2>1, VersionsOnAdd
<1>2. VersionsOn(wer, b) \in Nat /\ VersionsOn(ver, b) \in Nat
  BY VersionsOnNat
<1> QED
  BY <1>1, <1>2

-----------------------------------------------------------------------------
(* key_compare.                                                            *)

\* The characters of a key are numbers.
LEMMA CharIsNumber ==
    ASSUME NEW x \in KeyContents, NEW j \in 1..Len(x)
    PROVE  x[j] \in Int
<1> DEFINE S == 0..255
<1>1. x \in Seq(S)
  BY DataAssumption
<1>2. S \subseteq Int
  OBVIOUS
<1> HIDE DEF S
<1>3. x[j] \in S
  BY <1>1, ElementOfSeq
<1> QED
  BY <1>2, <1>3

\* The conversion to int gives a number, and leaves zero alone.
LEMMA ToIntIsNumber ==
    ASSUME NEW i \in Int
    PROVE  ToInt(i) \in Int
BY IntAssumption DEF ToInt

LEMMA ToIntOfZero == ToInt(0) = 0
<1> DEFINE half == IntSize \div 2
<1>1. IntSize \in Nat \ {0}
  BY IntAssumption
<1>2. half \in 0..(IntSize - 1)
  BY <1>1
<1>3. half % IntSize = half
  BY <1>1, <1>2, RemainderOfSmall
<1> QED
  BY <1>2, <1>3 DEF ToInt

\* The string in a key packet ends within the packet.
LEMMA TextIsWithin ==
    ASSUME NEW x \in KeyContents
    PROVE  TextLen(x) \in 0..Len(x)
<1> DEFINE nuls == {j \in DOMAIN x : x[j] = 0}
<1>1. Len(x) \in Nat /\ DOMAIN x = 1..Len(x)
  BY DataAssumption
<1>2. TextLen(x) = IF nuls = {} THEN Len(x) ELSE Min(nuls) - 1
  BY DEF TextLen
<1>3. nuls \subseteq 1..Len(x)
  BY <1>1
<1>4. nuls \subseteq Nat
  BY <1>1, <1>3
<1> HIDE DEF nuls
<1>5. CASE nuls = {}
  BY <1>1, <1>2, <1>5
<1>6. CASE nuls # {}
  <2>1. Min(nuls) \in 1..Len(x)
    BY <1>3, <1>4, <1>6, MinIsLeast
  <2>2. TextLen(x) = Min(nuls) - 1
    BY <1>2, <1>6
  <2> QED
    BY <1>1, <2>1, <2>2
<1> QED
  BY <1>5, <1>6

\* The hash of a key is a number: induction on the characters.
LEMMA HashIsNumber ==
    ASSUME NEW x \in KeyContents
    PROVE  blob_hash(x) \in Int
<1> DEFINE N == TextLen(x)
           start == 5381
           char(j) == IF x[j] < 128 THEN x[j] ELSE x[j] - 256
           step(h, j) == (h * 33 + char(j)) % IntSize
           F == [y \in Int \X (1..N) |-> step(y[1], y[2])]
           hash == CHOOSE f : f = [j \in 0..N |-> IF j = 0 THEN start ELSE step(f[j - 1], j)]
<1>x. Len(x) \in Nat /\ N \in 0..Len(x) /\ N \in Nat
  BY DataAssumption, TextIsWithin
<1>1. ASSUME NEW h \in Int, NEW j \in 1..N PROVE step(h, j) \in Int
  <2> HIDE DEF N
  <2>1. x[j] \in Int
    BY <1>x, CharIsNumber
  <2>2. char(j) \in Int
    BY <2>1
  <2> HIDE DEF char
  <2>3. h * 33 + char(j) \in Int
    BY <2>2
  <2> QED
    BY <2>3, IntAssumption, Division
<1>2. blob_hash(x) = ToInt(hash[N])
  BY DEF blob_hash
<1>s. start \in Int
  OBVIOUS
<1> HIDE DEF N, step, start
<1>3. StepsWithin(Int, N, F)
  BY <1>1 DEF StepsWithin
<1>4. PICK f \in [0..N -> Int] : FollowsSteps(f, N, start, F)
  <2> HIDE DEF F
  <2> QED
    BY <1>x, <1>s, <1>3, RecursionExists
<1>5. ASSUME NEW j \in 1..N PROVE f[j] = step(f[j - 1], j)
  <2>1. <<f[j - 1], j>> \in Int \X (1..N)
    BY <1>x
  <2>2. f[j] = F[<<f[j - 1], j>>]
    BY <1>4 DEF FollowsSteps
  <2> QED
    BY <2>1, <2>2
<1>6. f = [j \in 0..N |-> IF j = 0 THEN start ELSE step(f[j - 1], j)]
  BY <1>4, <1>5, <1>x DEF FollowsSteps
<1>7. hash = [j \in 0..N |-> IF j = 0 THEN start ELSE step(hash[j - 1], j)]
  <2> HIDE DEF F
  <2> QED
    BY <1>6
<1> HIDE DEF hash, F
<1>8. \A j \in 0..N : hash[j] \in Int
  <2> DEFINE T == {j \in 0..N : hash[j] \in Int}
  <2>1. 0 \in T
    BY <1>7, <1>s, <1>x
  <2>2. ASSUME NEW j \in 1..N, j - 1 \in T PROVE j \in T
    <3>1. j \in 0..N /\ hash[j] = step(hash[j - 1], j)
      BY <1>7, <1>x
    <3> QED
      BY <1>1, <2>2, <3>1
  <2> HIDE DEF T
  <2>3. \A j \in 0..N : j \in T
    BY <1>x, <2>1, <2>2, BoundedInduction
  <2> QED
    BY <2>3 DEF T
<1>9. hash[N] \in Int
  BY <1>8, <1>x
<1> QED
  BY <1>2, <1>9, ToIntIsNumber

\* A key is found equal to itself.
LEMMA KeyEqualsItself ==
    ASSUME NEW x \in KeyContents
    PROVE  key_compare(x, x) = 0
<1>1. blob_compare(x, x) = 0
  BY DEF blob_compare
<1>2. blob_hash(x) - blob_hash(x) = 0
  BY HashIsNumber
<1> QED
  BY <1>1, <1>2, ToIntOfZero DEF key_compare

-----------------------------------------------------------------------------
(* References.                                                             *)

KeyHand(b) == IF KeyInHand(b) THEN 1 ELSE 0
ValueHand(b) == IF ValueInHand(b) THEN 1 ELSE 0

ExactAt(b) ==
    /\ blob[b].live <=> blob[b].refcnt > 0
    /\ blob[b].refcnt = kept[b] + KeyHand(b) + ValueHand(b)
                        + KeysOn(entries, b) + VersionsOn(version, b)

\* ReferencesAreExact, blob by blob.
LEMMA ExactEverywhere == ReferencesAreExact <=> \A b \in Blobs : ExactAt(b)
BY DEF ReferencesAreExact, ExactAt, KeyHand, ValueHand, KeysOn, EntriesOf, VersionsOn, LiveOf

\* The same of the next state.
LEMMA ExactEverywhereNext == ReferencesAreExact' <=> \A b \in Blobs : ExactAt(b)'
BY DEF ReferencesAreExact, ExactAt, KeyHand, ValueHand, KeysOn, EntriesOf, VersionsOn, LiveOf

\* The parts of a reference count.
LEMMA Counts ==
    ASSUME DataInvariant, NEW b \in Blobs
    PROVE  /\ blob[b].refcnt \in Nat /\ (blob[b].live <=> blob[b].refcnt > 0)
           /\ kept[b] \in Nat /\ KeysOn(entries, b) \in Nat /\ VersionsOn(version, b) \in Nat
           /\ KeyHand(b) \in 0..1 /\ ValueHand(b) \in 0..1
           /\ blob[b].refcnt = kept[b] + KeyHand(b) + ValueHand(b)
                               + KeysOn(entries, b) + VersionsOn(version, b)
<1>1. ExactAt(b)
  BY ExactEverywhere DEF DataInvariant
<1>2. kept[b] \in Nat
  BY DEF DataInvariant, Typed
<1>3. KeysOn(entries, b) \in Nat
  BY KeysOnNat DEF DataInvariant, Typed
<1>4. VersionsOn(version, b) \in Nat
  BY VersionsOnNat
<1>5. KeyHand(b) \in 0..1 /\ ValueHand(b) \in 0..1
  BY DEF KeyHand, ValueHand
<1> QED
  BY <1>1, <1>2, <1>3, <1>4, <1>5 DEF ExactAt

\* Nobody points to a blob without references.
LEMMA Unreferenced ==
    ASSUME DataInvariant, NEW b \in Blobs, blob[b].refcnt = 0
    PROVE  /\ kept[b] = 0 /\ KeysOn(entries, b) = 0 /\ VersionsOn(version, b) = 0
           /\ ~KeyInHand(b) /\ ~ValueInHand(b)
<1>1. /\ kept[b] = 0 /\ KeysOn(entries, b) = 0 /\ VersionsOn(version, b) = 0
      /\ KeyHand(b) = 0 /\ ValueHand(b) = 0
  <2> DEFINE k == kept[b]
             h == KeyHand(b)
             v == ValueHand(b)
             e == KeysOn(entries, b)
             m == VersionsOn(version, b)
  <2>1. k \in Nat /\ h \in 0..1 /\ v \in 0..1 /\ e \in Nat /\ m \in Nat /\ 0 = k + h + v + e + m
    BY Counts
  <2> HIDE DEF k, h, v, e, m
  <2>2. k = 0 /\ h = 0 /\ v = 0 /\ e = 0 /\ m = 0
    BY <2>1
  <2> QED
    BY <2>2 DEF k, h, v, e, m
<1> QED
  BY <1>1 DEF KeyHand, ValueHand

\* Who points to a blob keeps it alive.
LEMMA Alive ==
    ASSUME DataInvariant
    PROVE  /\ \A e \in DOMAIN entries : entries[e].key \in Blobs /\ blob[entries[e].key].refcnt > 0
           /\ \A v \in Requests : version[v].live /\ version[v].blob # Null =>
                 version[v].blob \in Blobs /\ blob[version[v].blob].refcnt > 0
           /\ \A c \in Clients : pc[c] \in HasKey => KeyOf(c) \in Blobs /\ blob[KeyOf(c)].refcnt > 0
           /\ \A c \in Clients : pc[c] \in HasValue /\ kind[c] = "PUT" =>
                 ValueOf(c) \in Blobs /\ blob[ValueOf(c)].refcnt > 0
           /\ \A b \in Blobs : kept[b] > 0 => blob[b].refcnt > 0
<1>1. ASSUME NEW e \in DOMAIN entries
      PROVE  entries[e].key \in Blobs /\ blob[entries[e].key].refcnt > 0
  <2>1. entries \in Seq(Entry)
    BY DEF DataInvariant, Typed
  <2>2. entries[e] \in Entry
    BY <2>1
  <2>3. entries[e].key \in Blobs
    BY <2>2 DEF Entry
  <2>4. KeysOn(entries, entries[e].key) > 0
    BY <2>1, KeysOnNat
  <2> QED
    BY <2>3, <2>4, Counts
<1>2. ASSUME NEW v \in Requests, version[v].live, version[v].blob # Null
      PROVE  version[v].blob \in Blobs /\ blob[version[v].blob].refcnt > 0
  <2>1. version[v].blob \in Blobs
    BY <1>2 DEF DataInvariant, Typed, Version
  <2>2. VersionsOn(version, version[v].blob) > 0
    BY <1>2, VersionsOnNat
  <2> QED
    BY <2>1, <2>2, Counts
<1>3. ASSUME NEW c \in Clients, pc[c] \in HasKey
      PROVE  KeyOf(c) \in Blobs /\ blob[KeyOf(c)].refcnt > 0
  <2>1. KeyOf(c) \in Blobs
    BY <1>3, OwnObjects DEF HasKey
  <2>2. KeyHand(KeyOf(c)) = 1
    BY <1>3 DEF KeyHand, KeyInHand, HasKey
  <2> QED
    BY <2>1, <2>2, Counts
<1>4. ASSUME NEW c \in Clients, pc[c] \in HasValue, kind[c] = "PUT"
      PROVE  ValueOf(c) \in Blobs /\ blob[ValueOf(c)].refcnt > 0
  <2>1. ValueOf(c) \in Blobs
    BY <1>4, OwnObjects DEF HasValue
  <2>2. ValueHand(ValueOf(c)) = 1
    BY <1>4 DEF ValueHand, ValueInHand, HasValue
  <2> QED
    BY <2>1, <2>2, Counts
<1>5. ASSUME NEW b \in Blobs, kept[b] > 0 PROVE blob[b].refcnt > 0
  BY <1>5, Counts
<1> QED
  BY <1>1, <1>2, <1>3, <1>4, <1>5

-----------------------------------------------------------------------------
(* What the steps of a thread that has the_map.mutex leave as it is.       *)

\* The other threads are outside.
LEMMA OthersOutside ==
    ASSUME DataInvariant, NEW c \in Clients, pc[c] \in InMap
    PROVE  /\ mapLock = c
           /\ \A d \in Clients : d # c => pc[d] \notin InMap
BY DEF DataInvariant, Locking

\* A step within the store, or outside of it.
LEMMA LockingFrame ==
    ASSUME DataInvariant, mapLock' = mapLock,
           \A d \in Clients : pc'[d] \in InMap <=> pc[d] \in InMap
    PROVE  Locking'
BY DEF DataInvariant, Locking

\* The thread in the store moves; the others have no place in the table.
LEMMA PlacesFrame ==
    ASSUME DataInvariant, NEW c \in Clients, pc[c] \in InMap, n' = n,
           \A d \in Clients : d # c => pc'[d] = pc[d], PlaceOf(c)'
    PROVE  Places'
<1> SUFFICES ASSUME NEW d \in Clients, d # c PROVE PlaceOf(d)'
  BY DEF Places
<1>1. pc'[d] = pc[d] /\ pc[d] \notin InMap
  BY OthersOutside
<1>2. n[d] \in 0..Len(Access[d]) /\ (pc[d] \notin {"recv", "reply", "show", "done"} => n[d] # 0)
  BY DEF DataInvariant, Places, PlaceOf
<1> QED
  BY <1>1, <1>2 DEF PlaceOf, InMap, HasEntry

\* Outside of a comparison no mutex is held.
LEMMA NoMutex ==
    ASSUME DataInvariant, NEW c \in Clients, pc[c] \in InMap, pc[c] \notin {"compare", "compared"},
           NEW b \in Blobs
    PROVE  mutex[b] = Null
<1> SUFFICES ASSUME mutex[b] # Null PROVE FALSE
  OBVIOUS
<1>1. mutex[b] \in Clients
  BY DEF DataInvariant, Typed
<1>2. pc[mutex[b]] \in {"compare", "compared"}
  BY DEF DataInvariant, Mutexes
<1>3. mutex[b] = c
  BY <1>1, <1>2, OthersOutside DEF InMap
<1> QED
  BY <1>2, <1>3

\* Mutexes of the next state, holder by holder.
LEMMA MutexesNext ==
    ASSUME mutex' \in [Blobs -> Clients \cup {Null}],
           \A b \in Blobs, x \in Clients : mutex'[b] = x =>
               \/ pc'[x] \in {"compare", "compared"} /\ b = entries'[pos'[x]].key
               \/ pc'[x] = "compared" /\ b = KeyOf(x)'
    PROVE  Mutexes'
<1>1. \A b \in Blobs, x \in Clients : mutex'[b] = x =>
          \/ pc'[x] \in {"compare", "compared"} /\ b = entries'[pos'[x]].key
          \/ pc'[x] = "compared" /\ b = <<<<x, n'[x]>>, "key">>
  BY DEF KeyOf, Request
<1>2. \A b \in Blobs : mutex'[b] # Null => mutex'[b] \in Clients
  OBVIOUS
<1>3. \A b \in Blobs : mutex'[b] # Null =>
          \/ pc'[mutex'[b]] \in {"compare", "compared"} /\ b = entries'[pos'[mutex'[b]]].key
          \/ pc'[mutex'[b]] = "compared" /\ b = <<<<mutex'[b], n'[mutex'[b]]>>, "key">>
  BY <1>1, <1>2
<1> QED
  BY <1>3 DEF Mutexes, KeyOf, Request

\* A step that is no part of a comparison.
LEMMA MutexesFrame ==
    ASSUME DataInvariant, NEW c \in Clients, pc[c] \in InMap, pc[c] \notin {"compare", "compared"},
           mutex' = mutex
    PROVE  Mutexes'
BY NoMutex DEF Mutexes

\* A step before the result is known.
LEMMA ResultsFrame ==
    ASSUME DataInvariant, NEW c \in Clients, pc[c] \in InMap, pc[c] \notin {"replaced", "unlock"},
           result' = result, n' = n, \A d \in Clients : d # c => pc'[d] = pc[d],
           kept' \in [Blobs -> Nat], \A b \in Blobs : kept'[b] >= kept[b]
    PROVE  Results'
<1> SUFFICES ASSUME NEW d \in Clients, result[d] # Null
             PROVE  pc'[d] = "reply" /\ n'[d] # 0 /\ kept'[result[d]] > 0
  BY DEF Results
<1>1. d # c /\ pc[d] = "reply" /\ n[d] # 0 /\ kept[result[d]] > 0
  BY OthersOutside DEF DataInvariant, Results, InMap
<1>2. result[d] \in Blobs
  BY DEF DataInvariant, Typed
<1>3. kept[result[d]] \in Nat /\ kept'[result[d]] \in Nat
  BY <1>2 DEF DataInvariant, Typed
<1> QED
  BY <1>1, <1>2, <1>3

\* A step that makes no version.
LEMMA CreationFrame ==
    ASSUME DataInvariant, n' = n,
           \A d \in Clients : pc'[d] \in HasValue => pc[d] \in HasValue,
           \A r \in Requests : /\ version'[r].creator = version[r].creator
                               /\ version'[r].live => version[r].live,
           \A b \in Blobs : blob[b].refcnt = 0 => blob'[b].refcnt = 0
    PROVE  Creation'
<1> SUFFICES ASSUME NEW r \in Requests
             PROVE  /\ version'[r].live => version'[r].creator # Null
                    /\ version'[r].creator # Null =>
                          \/ r[2] < n[r[1]]
                          \/ r[2] = n[r[1]] /\ pc'[r[1]] \notin HasValue
                    /\ n[r[1]] < r[2] => blob'[<<r, "key">>].refcnt = 0 /\ blob'[<<r, "value">>].refcnt = 0
  BY DEF Creation
<1>1. /\ version[r].live => version[r].creator # Null
      /\ version[r].creator # Null =>
            \/ r[2] < n[r[1]]
            \/ r[2] = n[r[1]] /\ pc[r[1]] \notin HasValue
      /\ n[r[1]] < r[2] => blob[<<r, "key">>].refcnt = 0 /\ blob[<<r, "value">>].refcnt = 0
  BY DEF DataInvariant, Creation
<1>2. r[1] \in Clients
  BY RequestParts
<1>3. <<r, "key">> \in Blobs /\ <<r, "value">> \in Blobs
  BY DEF Blobs
<1> QED
  BY <1>1, <1>2, <1>3

\* While nothing is being collected every version in the table is alive.
LEMMA ListsAlive ==
    ASSUME DataInvariant, NEW c \in Clients, pc[c] \in InMap, pc[c] \notin {"relink", "doomed"},
           NEW e \in DOMAIN entries, NEW i \in DOMAIN entries[e].versions
    PROVE  version[entries[e].versions[i]].live
<1>1. ~Dying(e, i)
  BY OthersOutside DEF Dying, InMap
<1> QED
  BY <1>1 DEF DataInvariant, Lists

\* A step that leaves lists and versions as they are.
LEMMA ListsFrame ==
    ASSUME DataInvariant, NEW c \in Clients, pc[c] \in InMap,
           pc[c] \notin {"relink", "doomed", "replaced"}, pc'[c] # "replaced",
           \A d \in Clients : d # c => pc'[d] = pc[d],
           entries' = entries, version' = version
    PROVE  Lists'
<1>1. \A d \in Clients : pc'[d] # "replaced"
  BY OthersOutside DEF InMap
<1>2. ASSUME NEW e \in DOMAIN entries, NEW i \in DOMAIN entries[e].versions
      PROVE  version[entries[e].versions[i]].live /\ version[entries[e].versions[i]].creator # Null
  BY ListsAlive DEF DataInvariant, Lists
<1>3. \A d, e \in DOMAIN entries :
         \A i \in DOMAIN entries[d].versions, j \in DOMAIN entries[e].versions :
             entries[d].versions[i] = entries[e].versions[j] => d = e /\ i = j
  BY DEF DataInvariant, Lists
<1> QED
  BY <1>1, <1>2, <1>3 DEF Lists

\* A step that keeps the keys of the table and leaves the search.
LEMMA KeysFrame ==
    ASSUME DataInvariant, NEW c \in Clients, pc[c] \in InMap, n' = n,
           \A d \in Clients : d # c => pc'[d] = pc[d], pc'[c] \notin HasKey,
           \A b \in Blobs : blob'[b].content = blob[b].content,
           DOMAIN entries' = DOMAIN entries, \A e \in DOMAIN entries : entries'[e].key = entries[e].key
    PROVE  Keys'
<1>1. \A e \in DOMAIN entries : entries[e].key \in Blobs
  BY Alive
<1>2. \A e \in DOMAIN entries' : blob'[entries'[e].key].content = blob[entries[e].key].content
  BY <1>1
<1>3. ASSUME NEW d \in Clients, pc'[d] \in HasKey
      PROVE  blob'[KeyOf(d)'].content \in KeyContents /\ pc'[d] \notin {"find", "compare", "compared"}
  <2>1. d # c /\ pc'[d] = pc[d] /\ pc[d] \notin InMap
    BY <1>3, OthersOutside
  <2>2. KeyOf(d) \in Blobs /\ KeyOf(d)' = KeyOf(d)
    BY <1>3, <2>1, OwnObjects DEF HasKey, KeyOf, Request
  <2> QED
    BY <1>3, <2>1, <2>2 DEF DataInvariant, Keys, InMap
<1>4. OneEntryPerKey'
  BY <1>2 DEF DataInvariant, Keys, OneEntryPerKey
<1>5. \A e \in DOMAIN entries' : blob'[entries'[e].key].content \in KeyContents
  BY <1>2 DEF DataInvariant, Keys
<1> QED
  BY <1>3, <1>4, <1>5 DEF Keys, HasKey

\* The hands a step does not touch.
LEMMA HandsFrame ==
    ASSUME n' = n,
           \A d \in Clients : /\ pc'[d] \in HasKey <=> pc[d] \in HasKey
                              /\ pc'[d] \in HasValue <=> pc[d] \in HasValue
                              /\ pc[d] \in HasValue => kind'[d] = kind[d],
           NEW b
    PROVE  KeyHand(b)' = KeyHand(b) /\ ValueHand(b)' = ValueHand(b)
<1>1. KeyInHand(b)' <=> KeyInHand(b)
  BY DEF KeyInHand, HasKey, KeyOf, Request
<1>2. ValueInHand(b)' <=> ValueInHand(b)
  BY DEF ValueInHand, HasValue, ValueOf, Request
<1> QED
  BY <1>1, <1>2 DEF KeyHand, ValueHand

\* A step that moves no reference.
LEMMA ExactFrame ==
    ASSUME DataInvariant, blob' = blob, version' = version, kept' = kept, n' = n,
           \A d \in Clients : /\ pc'[d] \in HasKey <=> pc[d] \in HasKey
                              /\ pc'[d] \in HasValue <=> pc[d] \in HasValue
                              /\ pc[d] \in HasValue => kind'[d] = kind[d],
           DOMAIN entries' = DOMAIN entries, \A e \in DOMAIN entries : entries'[e].key = entries[e].key
    PROVE  ReferencesAreExact'
<1> SUFFICES ASSUME NEW b \in Blobs PROVE ExactAt(b)'
  BY ExactEverywhereNext
<1>1. KeyHand(b)' = KeyHand(b) /\ ValueHand(b)' = ValueHand(b)
  BY HandsFrame
<1>2. KeysOn(entries', b) = KeysOn(entries, b)
  BY KeysOnSame
<1>3. ExactAt(b)
  BY ExactEverywhere DEF DataInvariant
<1> QED
  BY <1>1, <1>2, <1>3 DEF ExactAt

-----------------------------------------------------------------------------
(* The invariant.                                                          *)

\* The store is empty at first.
LEMMA InitOK == Init => DataInvariant
<1> SUFFICES ASSUME Init PROVE DataInvariant
  OBVIOUS
<1>1. NoBlob \in Blob /\ NoVersion \in Version
  BY DEF NoBlob, NoVersion, Blob, Version, Contents
<1>2. Typed
  BY <1>1 DEF Init, Typed, Labels
<1>3. Locking /\ Mutexes /\ Results
  BY NullAssumption DEF Init, Locking, InMap, Mutexes, Results
<1>4. Places
  BY DataAssumption DEF Init, Places, PlaceOf, HasEntry
<1>5. Creation
  BY DEF Init, Creation, NoVersion, NoBlob, Blobs
<1>6. Lists /\ Keys
  BY DEF Init, Lists, Keys, OneEntryPerKey, HasKey
<1>7. ASSUME NEW b \in Blobs PROVE ExactAt(b)
  <2>1. EntriesOf(entries, b) = {} /\ LiveOf(version, b) = {}
    BY DEF Init, EntriesOf, LiveOf, NoVersion
  <2>2. KeysOn(entries, b) = 0 /\ VersionsOn(version, b) = 0
    BY <2>1, FS_EmptySet DEF KeysOn, VersionsOn
  <2>3. KeyHand(b) = 0 /\ ValueHand(b) = 0
    BY DEF Init, KeyHand, ValueHand, KeyInHand, ValueInHand
  <2>4. blob[b].refcnt = 0 /\ ~blob[b].live /\ kept[b] = 0
    BY DEF Init, NoBlob
  <2> QED
    BY <2>2, <2>3, <2>4 DEF ExactAt
<1> QED
  BY <1>2, <1>3, <1>4, <1>5, <1>6, <1>7, ExactEverywhere DEF DataInvariant

\* Steps of a thread that is not in the store: they may clear its result and
\* move it from entry to entry, or to its next request.
LEMMA OutsideKeeps ==
    ASSUME DataInvariant, NEW c \in Clients,
           UNCHANGED <<blob, mutex, version, entries, mapLock, n, pos, cur, kept>>,
           kind' \in [Clients -> {"GET", "PUT", "LAST"}],
           pc' \in [Clients -> Labels], entry' \in [Clients -> Int],
           result' \in [Clients -> Blobs \cup {Null}],
           \A d \in Clients : d # c => /\ pc'[d] = pc[d] /\ kind'[d] = kind[d]
                                      /\ entry'[d] = entry[d] /\ result'[d] = result[d],
           \/ pc'[c] = pc[c] /\ kind'[c] = kind[c] /\ entry'[c] = entry[c] /\ result'[c] = result[c]
           \/ /\ pc[c] \in {"recv", "reply", "show"} /\ pc'[c] \in {"recv", "reply", "show", "done"}
              /\ pc'[c] = "reply" => pc[c] = "recv"
              /\ pc[c] = "reply" => result'[c] = Null
              /\ pc[c] # "reply" => result'[c] = result[c]
    PROVE  DataInvariant'
<1>1. Typed'
  BY DEF DataInvariant, Typed
<1>2. Locking'
  BY LockingFrame DEF InMap
<1>3. Places'
  <2> SUFFICES ASSUME NEW d \in Clients PROVE PlaceOf(d)'
    BY DEF Places
  <2>1. PlaceOf(d)
    BY DEF DataInvariant, Places
  <2>2. CASE pc'[d] = pc[d] /\ entry'[d] = entry[d]
    BY <2>1, <2>2 DEF PlaceOf, VersionsOf
  <2>3. CASE d = c /\ pc[c] \in {"recv", "reply", "show"} /\ pc'[c] \in {"recv", "reply", "show", "done"}
    BY <2>1, <2>3 DEF PlaceOf, HasEntry
  <2> QED
    BY <2>2, <2>3
<1>4. Mutexes'
  <2> SUFFICES ASSUME NEW b \in Blobs, mutex[b] # Null
               PROVE  \/ pc'[mutex[b]] \in {"compare", "compared"} /\ b = entries[pos[mutex[b]]].key
                      \/ pc'[mutex[b]] = "compared" /\ b = KeyOf(mutex[b])'
    BY DEF Mutexes
  <2>1. \/ pc[mutex[b]] \in {"compare", "compared"} /\ b = entries[pos[mutex[b]]].key
        \/ pc[mutex[b]] = "compared" /\ b = KeyOf(mutex[b])
    BY DEF DataInvariant, Mutexes
  <2>2. mutex[b] \in Clients
    BY DEF DataInvariant, Typed
  <2> QED
    BY <2>1, <2>2 DEF KeyOf, Request
<1>5. Results'
  <2> SUFFICES ASSUME NEW d \in Clients, result'[d] # Null
               PROVE  \/ /\ pc'[d] \in {"replaced", "unlock"}
                         /\ version[Request(d)].live /\ version[Request(d)].blob = result'[d]
                      \/ pc'[d] = "reply" /\ n'[d] # 0 /\ kept[result'[d]] > 0
    BY DEF Results, Request
  <2>1. result'[d] = result[d] /\ pc'[d] = pc[d]
    BY DEF DataInvariant, Results
  <2> QED
    BY <2>1 DEF DataInvariant, Results
<1>6. Creation'
  BY CreationFrame DEF HasValue
<1>7. Lists'
  <2>1. ASSUME NEW e \in DOMAIN entries, NEW i \in DOMAIN entries[e].versions, Dying(e, i)
        PROVE  Dying(e, i)'
    BY <2>1 DEF Dying
  <2>2. \A d \in Clients : pc'[d] = "replaced" => pc[d] = "replaced"
    OBVIOUS
  <2> QED
    BY <2>1, <2>2 DEF DataInvariant, Lists, Request
<1>8. Keys'
  <2>1. \A d \in Clients : pc'[d] \in HasKey => pc[d] = pc'[d]
    BY DEF HasKey
  <2> QED
    BY <2>1 DEF DataInvariant, Keys, OneEntryPerKey, KeyOf, Request, HasKey
<1>9. ReferencesAreExact'
  <2>1. \A d \in Clients : /\ pc'[d] \in HasKey <=> pc[d] \in HasKey
                           /\ pc'[d] \in HasValue <=> pc[d] \in HasValue
                           /\ pc[d] \in HasValue => kind'[d] = kind[d]
    BY DEF HasKey, HasValue
  <2> QED
    BY <2>1, ExactFrame
<1> QED
  BY <1>1, <1>2, <1>3, <1>4, <1>5, <1>6, <1>7, <1>8, <1>9 DEF DataInvariant

\* xacto_commit.
LEMMA CommitKeeps ==
    ASSUME DataInvariant, NEW c \in Clients, Commit(c) PROVE DataInvariant'
<1> USE DEF DataInvariant, Typed
<1>1. /\ UNCHANGED <<blob, mutex, version, entries, mapLock, n, pos, cur, kept, entry, result>>
      /\ pc[c] = "recv" /\ pc' = [pc EXCEPT ![c] = "reply"] /\ kind' = [kind EXCEPT ![c] = "LAST"]
  BY DEF Commit, At, Goto, storeVars
<1>2. pc' \in [Clients -> Labels] /\ kind' \in [Clients -> {"GET", "PUT", "LAST"}]
  BY <1>1 DEF Labels
<1>3. pc'[c] = "reply" /\ \A d \in Clients : d # c => pc'[d] = pc[d] /\ kind'[d] = kind[d]
  BY <1>1
<1> QED
  BY <1>1, <1>2, <1>3, OutsideKeeps

\* The connection of the thread has ended.
LEMMA RecvFailsKeeps ==
    ASSUME DataInvariant, NEW c \in Clients, RecvFails(c) PROVE DataInvariant'
<1> USE DEF DataInvariant, Typed
<1>1. /\ UNCHANGED <<blob, mutex, version, entries, mapLock, n, kind, pos, cur, kept, entry, result>>
      /\ pc[c] = "recv" /\ pc' = [pc EXCEPT ![c] = "done"]
  BY DEF RecvFails, At, Goto, storeVars, localVars
<1>2. pc' \in [Clients -> Labels]
  BY <1>1 DEF Labels
<1> QED
  BY <1>1, <1>2, OutsideKeeps

\* xacto_reply.
LEMMA ReplyKeeps ==
    ASSUME DataInvariant, NEW c \in Clients, xacto_reply(c) PROVE DataInvariant'
<1> USE DEF DataInvariant, Typed
<1>1. /\ UNCHANGED <<blob, mutex, version, entries, mapLock, n, pos, cur, kept>>
      /\ pc[c] = "reply"
      /\ \/ UNCHANGED <<pc, kind, result, entry>>
         \/ /\ \E q \in {"LAST", kind[c]} : kind' = [kind EXCEPT ![c] = q]
            /\ result' = [result EXCEPT ![c] = Null]
            /\ entry' = [entry EXCEPT ![c] = Len(entries)]
            /\ pc' = [pc EXCEPT ![c] = "show"]
  BY DEF xacto_reply, At, Goto, storeVars
<1>2. pc' \in [Clients -> Labels] /\ entry' \in [Clients -> Int] /\ result' \in [Clients -> Blobs \cup {Null}]
  <2>1. "show" \in Labels /\ Len(entries) \in Int
    BY DEF Labels
  <2> QED
    BY <1>1, <2>1, ZenonT(40)
<1>3. /\ kind' \in [Clients -> {"GET", "PUT", "LAST"}]
      /\ \A d \in Clients : d # c => kind'[d] = kind[d]
  BY <1>1
<1> QED
  BY <1>1, <1>2, <1>3, OutsideKeeps

\* store_show.
LEMMA ShowKeeps ==
    ASSUME DataInvariant, NEW c \in Clients, ShowVersion(c) \/ ShowEntry(c) PROVE DataInvariant'
<1> USE DEF DataInvariant, Typed
<1>1. /\ UNCHANGED <<blob, mutex, version, entries, mapLock, n, kind, pos, cur, kept, result>>
      /\ pc[c] = "show"
      /\ UNCHANGED entry \/ \E e \in {entry[c] - 1, 0} : entry' = [entry EXCEPT ![c] = e]
      /\ UNCHANGED pc \/ \E l \in {"done", "recv"} : pc' = [pc EXCEPT ![c] = l]
  BY DEF ShowVersion, ShowEntry, At, Goto, storeVars
<1>2. pc' \in [Clients -> Labels] /\ entry' \in [Clients -> Int]
  <2>1. "done" \in Labels /\ "recv" \in Labels
    BY DEF Labels
  <2>2. pc' \in [Clients -> Labels]
    <3>1. CASE UNCHANGED pc
      BY <3>1
    <3>2. ASSUME NEW l \in {"done", "recv"}, pc' = [pc EXCEPT ![c] = l] PROVE pc' \in [Clients -> Labels]
      BY <2>1, <3>2
    <3> QED
      BY <1>1, <3>1, <3>2
  <2>3. entry[c] - 1 \in Int /\ 0 \in Int
    OBVIOUS
  <2>4. entry' \in [Clients -> Int]
    BY <1>1, <2>3
  <2> QED
    BY <2>2, <2>4
<1>3. \A d \in Clients : d # c => pc'[d] = pc[d] /\ entry'[d] = entry[d]
  BY <1>1
<1>4. pc'[c] \in {"recv", "show", "done"}
  BY <1>1
<1> QED
  BY <1>1, <1>2, <1>3, <1>4, OutsideKeeps

\* A request arrives: its key and, of a PUT, its value come into being.
LEMMA ArriveKeeps ==
    ASSUME DataInvariant, NEW c \in Clients, NEW k \in KeyContents, NEW q \in {"GET", "PUT"},
           NEW r, r = <<c, n[c] + 1>>,
           pc[c] = "recv", n[c] < Len(Access[c]),
           n' = [n EXCEPT ![c] = @ + 1], kind' = [kind EXCEPT ![c] = q], pc' = [pc EXCEPT ![c] = "lock"],
           UNCHANGED <<mutex, version, entries, mapLock, pos, cur, entry, result, kept>>,
           blob' \in [Blobs -> Blob],
           blob'[<<r, "key">>].refcnt = 1, blob'[<<r, "key">>].live, blob'[<<r, "key">>].content = k,
           q = "PUT" => blob'[<<r, "value">>].refcnt = 1 /\ blob'[<<r, "value">>].live,
           \A b \in Blobs : b # <<r, "key">> /\ (q = "PUT" => b # <<r, "value">>) => blob'[b] = blob[b]
    PROVE  DataInvariant'
<1> DEFINE K == <<r, "key">>
           V == <<r, "value">>
<1>n. n[c] \in Nat /\ Len(Access[c]) \in Nat /\ n'[c] = n[c] + 1 /\ n \in [Clients -> Nat]
      /\ pc \in [Clients -> Labels]
  BY DataAssumption DEF DataInvariant, Typed
<1>r. r \in Requests /\ r[1] = c /\ r[2] = n[c] + 1
  <2>1. n[c] + 1 \in 1..Len(Access[c])
    BY <1>n
  <2> QED
    BY <2>1, RequestIn
<1>b. K \in Blobs /\ V \in Blobs /\ K # V
  BY <1>r DEF Blobs
<1>own. KeyOf(c)' = K /\ ValueOf(c)' = V
  BY <1>n DEF KeyOf, ValueOf, Request
<1>others. ASSUME NEW d \in Clients, d # c
           PROVE  /\ pc'[d] = pc[d] /\ n'[d] = n[d] /\ kind'[d] = kind[d]
                  /\ KeyOf(d)' = KeyOf(d) /\ ValueOf(d)' = ValueOf(d) /\ Request(d)' = Request(d)
                  /\ KeyOf(d) # K /\ ValueOf(d) # V
  BY <1>others, <1>n, <1>r DEF KeyOf, ValueOf, Request, DataInvariant, Typed
<1>self. pc'[c] = "lock" /\ kind'[c] = q
  BY DEF DataInvariant, Typed
<1>fresh. blob[K].refcnt = 0 /\ blob[V].refcnt = 0
  <2>1. n[r[1]] < r[2]
    BY <1>r, <1>n
  <2> QED
    BY <1>r, <2>1 DEF DataInvariant, Creation
<1>1. Typed'
  <2>1. n' \in [Clients -> Nat] /\ kind' \in [Clients -> {"GET", "PUT", "LAST"}]
    BY <1>n DEF DataInvariant, Typed
  <2>2. pc' \in [Clients -> Labels]
    BY <1>n DEF Labels
  <2> QED
    BY <2>1, <2>2 DEF DataInvariant, Typed
<1>2. Locking'
  <2>1. \A d \in Clients : pc'[d] \in InMap <=> pc[d] \in InMap
    BY <1>others, <1>self DEF InMap
  <2> QED
    BY <2>1, LockingFrame
<1>3. Places'
  <2> SUFFICES ASSUME NEW d \in Clients PROVE PlaceOf(d)'
    BY DEF Places
  <2>1. PlaceOf(d)
    BY DEF DataInvariant, Places
  <2>2. CASE d = c
    BY <1>n, <1>self, <2>2 DEF PlaceOf, HasEntry
  <2>3. CASE d # c
    BY <1>others, <2>1, <2>3 DEF PlaceOf, VersionsOf
  <2> QED
    BY <2>2, <2>3
<1>4. Mutexes'
  <2> SUFFICES ASSUME NEW b \in Blobs, mutex[b] # Null
               PROVE  \/ pc'[mutex[b]] \in {"compare", "compared"} /\ b = entries[pos[mutex[b]]].key
                      \/ pc'[mutex[b]] = "compared" /\ b = KeyOf(mutex[b])'
    BY DEF Mutexes
  <2>1. \/ pc[mutex[b]] \in {"compare", "compared"} /\ b = entries[pos[mutex[b]]].key
        \/ pc[mutex[b]] = "compared" /\ b = KeyOf(mutex[b])
    BY DEF DataInvariant, Mutexes
  <2>2. mutex[b] \in Clients /\ mutex[b] # c
    BY <2>1 DEF DataInvariant, Typed
  <2> QED
    BY <1>others, <2>1, <2>2
<1>5. Results'
  <2> SUFFICES ASSUME NEW d \in Clients, result[d] # Null
               PROVE  \/ /\ pc'[d] \in {"replaced", "unlock"}
                         /\ version[Request(d)'].live /\ version[Request(d)'].blob = result[d]
                      \/ pc'[d] = "reply" /\ n'[d] # 0 /\ kept[result[d]] > 0
    BY DEF Results
  <2>1. d # c
    BY DEF DataInvariant, Results
  <2> QED
    BY <1>others, <2>1 DEF DataInvariant, Results
<1>6. Creation'
  <2> SUFFICES ASSUME NEW s \in Requests
               PROVE  /\ version[s].live => version[s].creator # Null
                      /\ version[s].creator # Null =>
                            \/ s[2] < n'[s[1]]
                            \/ s[2] = n'[s[1]] /\ pc'[s[1]] \notin HasValue
                      /\ n'[s[1]] < s[2] => blob'[<<s, "key">>].refcnt = 0 /\ blob'[<<s, "value">>].refcnt = 0
    BY DEF Creation
  <2>1. /\ version[s].live => version[s].creator # Null
        /\ version[s].creator # Null =>
              \/ s[2] < n[s[1]]
              \/ s[2] = n[s[1]] /\ pc[s[1]] \notin HasValue
        /\ n[s[1]] < s[2] => blob[<<s, "key">>].refcnt = 0 /\ blob[<<s, "value">>].refcnt = 0
    BY DEF DataInvariant, Creation
  <2>2. s[1] \in Clients /\ s[2] \in Nat /\ n[s[1]] \in Nat
    BY <1>n, RequestParts, DataAssumption
  <2>3. CASE s[1] # c
    <3>1. s # r
      BY <1>r, <2>3
    <3>2. blob'[<<s, "key">>] = blob[<<s, "key">>] /\ blob'[<<s, "value">>] = blob[<<s, "value">>]
      BY <3>1 DEF Blobs
    <3> QED
      BY <1>others, <2>1, <2>2, <2>3, <3>2
  <2>4. CASE s[1] = c
    <3>1. n'[s[1]] < s[2] => s # r /\ n[s[1]] < s[2]
      BY <1>n, <1>r, <2>2, <2>4
    <3>2. s # r => blob'[<<s, "key">>] = blob[<<s, "key">>] /\ blob'[<<s, "value">>] = blob[<<s, "value">>]
      BY DEF Blobs
    <3>3. version[s].creator # Null => s[2] < n'[s[1]]
      BY <1>n, <2>1, <2>2, <2>4
    <3> QED
      BY <2>1, <3>1, <3>2, <3>3
  <2> QED
    BY <2>3, <2>4
<1>7. Lists'
  <2>1. ASSUME NEW e \in DOMAIN entries, NEW i \in DOMAIN entries[e].versions, Dying(e, i)
        PROVE  Dying(e, i)'
    BY <1>others, <2>1 DEF Dying
  <2>2. \A d \in Clients : pc'[d] = "replaced" => pc[d] = "replaced" /\ Request(d)' = Request(d)
    BY <1>others, <1>self
  <2> QED
    BY <2>1, <2>2 DEF DataInvariant, Lists
<1>8. \A b \in Blobs : blob[b].refcnt > 0 => blob'[b] = blob[b]
  <2> SUFFICES ASSUME NEW b \in Blobs, blob[b].refcnt > 0 PROVE blob'[b] = blob[b]
    OBVIOUS
  <2>1. b # K /\ b # V
    BY <1>fresh
  <2> QED
    BY <2>1
<1>9. Keys'
  <2>1. \A e \in DOMAIN entries : blob'[entries[e].key] = blob[entries[e].key]
    BY <1>8, Alive
  <2>2. \A d \in Clients : d # c /\ pc'[d] \in HasKey => blob'[KeyOf(d)'] = blob[KeyOf(d)]
    BY <1>8, <1>others, Alive
  <2>3. ASSUME NEW d \in Clients, pc'[d] \in HasKey PROVE blob'[KeyOf(d)'].content \in KeyContents
    <3>1. CASE d = c
      BY <1>own, <3>1
    <3>2. CASE d # c
      BY <1>others, <2>2, <2>3, <3>2 DEF DataInvariant, Keys
    <3> QED
      BY <3>1, <3>2
  <2>4. ASSUME NEW d \in Clients, pc'[d] \in {"find", "compare", "compared"},
               NEW e \in DOMAIN entries, e > pos[d]
        PROVE  blob'[entries[e].key].content # blob'[KeyOf(d)'].content
    <3>1. d # c
      BY <1>self, <2>4
    <3> QED
      BY <1>others, <2>1, <2>2, <2>4, <3>1 DEF DataInvariant, Keys, HasKey
  <2>5. OneEntryPerKey'
    BY <2>1 DEF DataInvariant, Keys, OneEntryPerKey
  <2>6. \A e \in DOMAIN entries : blob'[entries[e].key].content \in KeyContents
    BY <2>1 DEF DataInvariant, Keys
  <2> QED
    BY <2>3, <2>4, <2>5, <2>6 DEF Keys
<1>10. ReferencesAreExact'
  <2> SUFFICES ASSUME NEW b \in Blobs PROVE ExactAt(b)'
    BY ExactEverywhereNext
  <2>1. ~KeyInHand(K) /\ ~ValueInHand(V) /\ ~KeyInHand(V) /\ ~ValueInHand(K)
    BY <1>b, <1>fresh, Unreferenced
  <2>2. KeyInHand(b)' <=> b = K \/ KeyInHand(b)
    <3>1. \A d \in Clients : (b = KeyOf(d)' /\ pc'[d] \in HasKey)
             <=> (d = c /\ b = K) \/ (d # c /\ b = KeyOf(d) /\ pc[d] \in HasKey)
      BY <1>own, <1>others, <1>self DEF HasKey
    <3>2. pc[c] \notin HasKey
      BY DEF HasKey
    <3> QED
      BY <3>1, <3>2 DEF KeyInHand, HasKey
  <2>3. ValueInHand(b)' <=> (q = "PUT" /\ b = V) \/ ValueInHand(b)
    <3>1. \A d \in Clients : (b = ValueOf(d)' /\ kind'[d] = "PUT" /\ pc'[d] \in HasValue)
             <=> (d = c /\ b = V /\ q = "PUT")
                 \/ (d # c /\ b = ValueOf(d) /\ kind[d] = "PUT" /\ pc[d] \in HasValue)
      BY <1>own, <1>others, <1>self DEF HasValue
    <3>2. pc[c] \notin HasValue
      BY DEF HasValue
    <3> QED
      BY <3>1, <3>2 DEF ValueInHand, HasValue
  <2>4. CASE b = K \/ (q = "PUT" /\ b = V)
    <3>1. /\ blob[b].refcnt = 0 /\ kept[b] = 0 /\ KeysOn(entries, b) = 0 /\ VersionsOn(version, b) = 0
          /\ ~KeyInHand(b) /\ ~ValueInHand(b)
      <4>1. blob[b].refcnt = 0
        BY <1>fresh, <2>4
      <4> QED
        BY <4>1, Unreferenced
    <3>2. blob'[b].refcnt = 1 /\ blob'[b].live
      BY <2>4
    <3>3. KeyHand(b)' + ValueHand(b)' = 1
      BY <1>b, <2>2, <2>3, <2>4, <3>1 DEF KeyHand, ValueHand
    <3>4. KeyHand(b)' \in 0..1 /\ ValueHand(b)' \in 0..1
      BY DEF KeyHand, ValueHand
    <3> QED
      BY <3>1, <3>2, <3>3, <3>4 DEF ExactAt
  <2>5. CASE ~(b = K \/ (q = "PUT" /\ b = V))
    <3>1. blob'[b] = blob[b]
      BY <2>5
    <3>2. KeyHand(b)' = KeyHand(b) /\ ValueHand(b)' = ValueHand(b)
      BY <2>2, <2>3, <2>5 DEF KeyHand, ValueHand
    <3>3. ExactAt(b)
      BY ExactEverywhere DEF DataInvariant
    <3> QED
      BY <3>1, <3>2, <3>3 DEF ExactAt
  <2> QED
    BY <2>4, <2>5
<1> QED
  BY <1>1, <1>2, <1>3, <1>4, <1>5, <1>6, <1>7, <1>9, <1>10 DEF DataInvariant

\* The key of a GET arrives.
LEMMA GetKeeps ==
    ASSUME DataInvariant, NEW c \in Clients, xacto_get(c) PROVE DataInvariant'
<1>1. PICK k \in Access[c][n[c] + 1] : blob' = blob_create(blob, <<<<c, n[c] + 1>>, "key">>, k, Null)
  BY DEF xacto_get
<1>2. /\ pc[c] = "recv" /\ n[c] < Len(Access[c])
      /\ n' = [n EXCEPT ![c] = @ + 1] /\ kind' = [kind EXCEPT ![c] = "GET"]
      /\ pc' = [pc EXCEPT ![c] = "lock"]
      /\ UNCHANGED <<mutex, version, entries, mapLock, pos, cur, entry, result, kept>>
  BY DEF xacto_get, At, Goto, storeVars
<1> DEFINE r == <<c, n[c] + 1>>
           K == <<r, "key">>
<1>3. n[c] + 1 \in 1..Len(Access[c]) /\ Access[c] \in Seq(SUBSET KeyContents)
  BY <1>2, DataAssumption DEF DataInvariant, Typed
<1>4. k \in KeyContents /\ k \in Contents
  <2>1. Access[c][n[c] + 1] \in SUBSET KeyContents
    BY <1>3, ElementOfSeq
  <2> QED
    BY <2>1 DEF Contents
<1>5. r \in Requests
  BY <1>3, RequestIn
<1>6. K \in Blobs
  BY <1>5 DEF Blobs
<1>7. blob \in [Blobs -> Blob]
  BY DEF DataInvariant, Typed
<1> HIDE DEF r, K
<1>8. blob' = blob_create(blob, K, k, Null)
  BY <1>1 DEF r, K
<1>9. /\ blob' \in [Blobs -> Blob]
      /\ blob'[K].refcnt = 1 /\ blob'[K].live /\ blob'[K].content = k
      /\ \A b \in Blobs : b # K => blob'[b] = blob[b]
  BY <1>4, <1>6, <1>7, <1>8, CreateEffect
<1>10. r = <<c, n[c] + 1>> /\ K = <<r, "key">>
  BY DEF r, K
<1> QED
  BY <1>2, <1>4, <1>9, <1>10, ArriveKeeps, ZenonT(40)

\* The key and the value of a PUT arrive.
LEMMA PutKeeps ==
    ASSUME DataInvariant, NEW c \in Clients, xacto_put(c) PROVE DataInvariant'
<1> DEFINE r == <<c, n[c] + 1>>
           K == <<r, "key">>
           V == <<r, "value">>
<1>1. PICK k \in Access[c][n[c] + 1], v \in Values :
         blob' = blob_create(blob_create(blob, K, k, Null), V, v, k)
  BY DEF xacto_put
<1>2. /\ pc[c] = "recv" /\ n[c] < Len(Access[c])
      /\ n' = [n EXCEPT ![c] = @ + 1] /\ kind' = [kind EXCEPT ![c] = "PUT"]
      /\ pc' = [pc EXCEPT ![c] = "lock"]
      /\ UNCHANGED <<mutex, version, entries, mapLock, pos, cur, entry, result, kept>>
  BY DEF xacto_put, At, Goto, storeVars
<1>3. n[c] + 1 \in 1..Len(Access[c]) /\ Access[c] \in Seq(SUBSET KeyContents)
  BY <1>2, DataAssumption DEF DataInvariant, Typed
<1>4. k \in KeyContents /\ k \in Contents /\ v \in Contents
  <2>1. Access[c][n[c] + 1] \in SUBSET KeyContents
    BY <1>3, ElementOfSeq
  <2> QED
    BY <2>1 DEF Contents
<1>5. r \in Requests
  BY <1>3, RequestIn
<1>6. K \in Blobs /\ V \in Blobs /\ K # V
  BY <1>5 DEF Blobs
<1>7. blob \in [Blobs -> Blob]
  BY DEF DataInvariant, Typed
<1>8. r = <<c, n[c] + 1>> /\ K = <<r, "key">> /\ V = <<r, "value">>
  OBVIOUS
<1> HIDE DEF r, K, V
<1> DEFINE bs == blob_create(blob, K, k, Null)
<1>9. /\ bs \in [Blobs -> Blob]
      /\ bs[K].refcnt = 1 /\ bs[K].live /\ bs[K].content = k
      /\ \A b \in Blobs : b # K => bs[b] = blob[b]
  BY <1>4, <1>6, <1>7, CreateEffect
<1>10. blob' = blob_create(bs, V, v, k)
  BY <1>1
<1> HIDE DEF bs
<1>11. /\ blob' \in [Blobs -> Blob]
       /\ blob'[V].refcnt = 1 /\ blob'[V].live
       /\ \A b \in Blobs : b # V => blob'[b] = bs[b]
  BY <1>4, <1>6, <1>9, <1>10, CreateEffect
<1>12. /\ blob'[K].refcnt = 1 /\ blob'[K].live /\ blob'[K].content = k
       /\ \A b \in Blobs : b # K /\ b # V => blob'[b] = blob[b]
  BY <1>6, <1>9, <1>11
<1>13. /\ blob'[<<r, "key">>].refcnt = 1 /\ blob'[<<r, "key">>].live /\ blob'[<<r, "key">>].content = k
       /\ blob'[<<r, "value">>].refcnt = 1 /\ blob'[<<r, "value">>].live
       /\ \A b \in Blobs : b # <<r, "key">> /\ ("PUT" = "PUT" => b # <<r, "value">>) => blob'[b] = blob[b]
  BY <1>8, <1>11, <1>12
<1>14. blob' \in [Blobs -> Blob] /\ "PUT" \in {"GET", "PUT"} /\ r = <<c, n[c] + 1>>
  BY <1>8, <1>11
<1> QED
  BY <1>2, <1>4, <1>13, <1>14, ArriveKeeps, ZenonT(40)

\* A thread enters the store.
LEMMA LockMapKeeps ==
    ASSUME DataInvariant, NEW c \in Clients, LockMap(c) PROVE DataInvariant'
<1>1. /\ pc[c] = "lock" /\ mapLock = Null /\ mapLock' = c
      /\ pos' = [pos EXCEPT ![c] = Len(entries)] /\ pc' = [pc EXCEPT ![c] = "find"]
      /\ UNCHANGED <<blob, mutex, version, entries, n, kind, cur, entry, result, kept>>
  BY DEF LockMap, At, Goto
<1>2. \A d \in Clients : pc[d] \notin InMap
  BY <1>1, NullAssumption DEF DataInvariant, Locking
<1>3. /\ pc'[c] = "find" /\ pos'[c] = Len(entries) /\ Len(entries) \in Nat
      /\ \A d \in Clients : d # c => pc'[d] = pc[d] /\ pos'[d] = pos[d]
      /\ \A d \in Clients : KeyOf(d)' = KeyOf(d) /\ Request(d)' = Request(d)
  BY <1>1 DEF DataInvariant, Typed, KeyOf, Request
<1>4. Typed'
  <2>1. "find" \in Labels /\ Len(entries) \in Int
    BY <1>3 DEF Labels
  <2> QED
    BY <1>1, <2>1 DEF DataInvariant, Typed
<1>5. Locking'
  BY <1>1, <1>2, <1>3 DEF Locking, InMap
<1>6. Places'
  <2> SUFFICES ASSUME NEW d \in Clients PROVE PlaceOf(d)'
    BY DEF Places
  <2>1. n[d] \in 0..Len(Access[d]) /\ (pc[d] \notin {"recv", "reply", "show", "done"} => n[d] # 0)
    BY DEF DataInvariant, Places, PlaceOf
  <2>2. CASE d = c
    BY <1>1, <1>3, <2>1, <2>2 DEF PlaceOf, HasEntry
  <2>3. CASE d # c
    BY <1>1, <1>2, <1>3, <2>1, <2>3 DEF PlaceOf, HasEntry, InMap
  <2> QED
    BY <2>2, <2>3
<1>7. Mutexes'
  <2> SUFFICES ASSUME NEW b \in Blobs PROVE mutex[b] = Null
    BY <1>1 DEF Mutexes
  <2>1. mutex[b] \in Clients \cup {Null}
    BY DEF DataInvariant, Typed
  <2> QED
    BY <1>2, <2>1 DEF DataInvariant, Mutexes, InMap
<1>8. Results'
  <2> SUFFICES ASSUME NEW d \in Clients, result[d] # Null
               PROVE  pc'[d] = "reply" /\ n'[d] # 0 /\ kept[result[d]] > 0
    BY <1>1 DEF Results
  <2>1. pc[d] = "reply" /\ n[d] # 0 /\ kept[result[d]] > 0
    BY <1>2 DEF DataInvariant, Results, InMap
  <2> QED
    BY <1>1, <1>3, <2>1
<1>9. Creation'
  <2>1. \A d \in Clients : pc'[d] \in HasValue => pc[d] \in HasValue
    BY <1>1, <1>3 DEF HasValue
  <2> QED
    BY <1>1, <2>1, CreationFrame
<1>10. Lists'
  <2>1. \A d \in Clients : pc'[d] # "replaced"
    BY <1>2, <1>3 DEF InMap
  <2>2. \A e \in DOMAIN entries : \A i \in DOMAIN entries[e].versions : ~Dying(e, i)
    BY <1>2 DEF Dying, InMap
  <2> QED
    BY <1>1, <2>1, <2>2 DEF DataInvariant, Lists
<1>11. Keys'
  <2>1. \A d \in Clients : pc'[d] \in HasKey => pc[d] \in HasKey
    BY <1>1, <1>3 DEF HasKey
  <2>2. \A d \in Clients : pc'[d] \in {"find", "compare", "compared"} => pos'[d] = Len(entries)
    BY <1>2, <1>3 DEF InMap
  <2>3. \A e \in DOMAIN entries : ~(e > Len(entries))
    BY DEF DataInvariant, Typed
  <2> QED
    BY <1>1, <1>3, <2>1, <2>2, <2>3 DEF DataInvariant, Keys, OneEntryPerKey
<1>12. ReferencesAreExact'
  <2>1. \A d \in Clients : (pc'[d] \in HasKey <=> pc[d] \in HasKey)
                            /\ (pc'[d] \in HasValue <=> pc[d] \in HasValue)
    BY <1>1, <1>3 DEF HasKey, HasValue
  <2> QED
    BY <1>1, <2>1, ExactFrame
<1> QED
  BY <1>4, <1>5, <1>6, <1>7, <1>8, <1>9, <1>10, <1>11, <1>12 DEF DataInvariant

\* find_map_entry passes an entry of another bucket or length.
LEMMA FindOtherKeeps ==
    ASSUME DataInvariant, NEW c \in Clients, FindOther(c) PROVE DataInvariant'
<1>1. /\ pc[c] = "find" /\ pos[c] > 0 /\ ~Comparable(c, pos[c])
      /\ pos' = [pos EXCEPT ![c] = @ - 1]
      /\ UNCHANGED <<blob, mutex, version, entries, mapLock, pc, n, kind, cur, entry, result, kept>>
  BY DEF FindOther, At, storeVars
<1>2. pc[c] \in InMap /\ pos[c] \in 1..Len(entries) /\ Len(entries) \in Nat
  BY <1>1 DEF DataInvariant, Typed, Places, PlaceOf, InMap
<1>3. pos'[c] = pos[c] - 1 /\ \A d \in Clients : KeyOf(d)' = KeyOf(d)
  BY <1>1 DEF DataInvariant, Typed, KeyOf, Request
<1>4. Typed'
  <2>1. pos[c] - 1 \in Int
    BY <1>2
  <2> QED
    BY <1>1, <2>1 DEF DataInvariant, Typed
<1>5. Locking'
  BY <1>1, LockingFrame
<1>6. Places'
  <2>1. PlaceOf(c)'
    BY <1>1, <1>2, <1>3 DEF DataInvariant, Places, PlaceOf, HasEntry
  <2> QED
    BY <1>1, <1>2, <2>1, PlacesFrame
<1>7. Mutexes'
  BY <1>1, <1>2, MutexesFrame
<1>8. Results'
  <2>1. kept' \in [Blobs -> Nat] /\ \A b \in Blobs : kept'[b] >= kept[b]
    BY <1>1 DEF DataInvariant, Typed
  <2> QED
    BY <1>1, <1>2, <2>1, ResultsFrame
<1>9. Creation'
  BY <1>1, CreationFrame
<1>10. Lists'
  BY <1>1, <1>2, ListsFrame
<1>11. Keys'
  <2>1. ASSUME NEW d \in Clients, pc[d] \in {"find", "compare", "compared"}
        PROVE  \A e \in DOMAIN entries : e > pos'[d] => blob[entries[e].key].content # blob[KeyOf(d)].content
    <3>1. d = c
      BY <1>2, <2>1, OthersOutside DEF InMap
    <3>2. \A e \in DOMAIN entries : e > pos[c] => blob[entries[e].key].content # blob[KeyOf(c)].content
      BY <1>1 DEF DataInvariant, Keys
    <3>3. blob[entries[pos[c]].key].content # blob[KeyOf(c)].content
      BY <1>1 DEF Comparable
    <3>4. \A e \in DOMAIN entries : e > pos[c] - 1 => e > pos[c] \/ e = pos[c]
      BY <1>2 DEF DataInvariant, Typed
    <3> QED
      BY <1>3, <3>1, <3>2, <3>3, <3>4
  <2> QED
    BY <1>1, <1>3, <2>1 DEF DataInvariant, Keys, OneEntryPerKey
<1>12. ReferencesAreExact'
  BY <1>1, ExactFrame
<1> QED
  BY <1>4, <1>5, <1>6, <1>7, <1>8, <1>9, <1>10, <1>11, <1>12 DEF DataInvariant

\* key_compare locks a blob: first that of the entry, then that of the request.
LEMMA CompareKeeps ==
    ASSUME DataInvariant, NEW c \in Clients, NEW l, NEW a \in Blobs,
           \/ pc[c] = "find" /\ pos[c] # 0 /\ a = entries[pos[c]].key /\ l = "compare"
           \/ pc[c] = "compare" /\ a = KeyOf(c) /\ l = "compared",
           mutex' = [mutex EXCEPT ![a] = c], pc' = [pc EXCEPT ![c] = l],
           UNCHANGED <<blob, version, entries, mapLock, n, kind, pos, cur, entry, result, kept>>
    PROVE  DataInvariant'
<1>2. /\ pc[c] \in InMap /\ l \in InMap /\ l \in Labels
      /\ pc[c] \in HasKey /\ l \in HasKey /\ pc[c] \in HasValue /\ l \in HasValue
  BY DEF InMap, Labels, HasKey, HasValue
<1>3. /\ pc'[c] = l /\ \A d \in Clients : d # c => pc'[d] = pc[d]
      /\ \A d \in Clients : KeyOf(d)' = KeyOf(d)
  BY DEF DataInvariant, Typed, KeyOf, Request
<1>4. Typed'
  BY <1>2 DEF DataInvariant, Typed
<1>5. Locking'
  <2>1. \A d \in Clients : pc'[d] \in InMap <=> pc[d] \in InMap
    BY <1>2, <1>3
  <2> QED
    BY <2>1, LockingFrame
<1>6. Places'
  <2>1. PlaceOf(c)'
    <3>1. PlaceOf(c) /\ pos[c] \in Int /\ Len(entries) \in Nat
      BY DEF DataInvariant, Typed, Places
    <3>2. pos[c] \in 1..Len(entries) /\ n[c] \in 0..Len(Access[c]) /\ n[c] # 0
      BY <3>1 DEF PlaceOf
    <3>3. pc'[c] \in {"compare", "compared"}
      BY <1>3
    <3> QED
      BY <3>2, <3>3 DEF PlaceOf, HasEntry
  <2> QED
    BY <1>2, <1>3, <2>1, PlacesFrame
<1>7. Mutexes'
  <2> SUFFICES ASSUME NEW b \in Blobs, NEW x \in Clients, mutex'[b] = x
               PROVE  \/ pc'[x] \in {"compare", "compared"} /\ b = entries[pos[x]].key
                      \/ pc'[x] = "compared" /\ b = KeyOf(x)
    BY <1>3, <1>4, MutexesNext DEF Typed
  <2>1. CASE b = a
    <3>1. mutex'[b] = c
      BY <2>1 DEF DataInvariant, Typed
    <3> QED
      BY <1>3, <2>1, <3>1
  <2>2. CASE b # a
    <3>1. mutex[b] = x /\ x # Null
      BY <2>2, NullAssumption DEF DataInvariant, Typed
    <3>2. \/ pc[x] \in {"compare", "compared"} /\ b = entries[pos[x]].key
          \/ pc[x] = "compared" /\ b = KeyOf(x)
      BY <3>1 DEF DataInvariant, Mutexes
    <3>3. x = c
      BY <1>2, <3>1, <3>2, OthersOutside DEF InMap
    <3> QED
      BY <1>3, <3>1, <3>2, <3>3
  <2> QED
    BY <2>1, <2>2
<1>8. Results'
  <2>1. kept' \in [Blobs -> Nat] /\ \A b \in Blobs : kept'[b] >= kept[b]
    BY DEF DataInvariant, Typed
  <2> QED
    BY <1>2, <1>3, <2>1, ResultsFrame
<1>9. Creation'
  <2>1. \A d \in Clients : pc'[d] \in HasValue => pc[d] \in HasValue
    BY <1>2, <1>3
  <2> QED
    BY <2>1, CreationFrame
<1>10. Lists'
  BY <1>2, <1>3, ListsFrame
<1>11. Keys'
  <2>1. \A d \in Clients : pc'[d] \in HasKey => pc[d] \in HasKey
    BY <1>2, <1>3
  <2>2. \A d \in Clients : pc'[d] \in {"find", "compare", "compared"} => pc[d] \in {"find", "compare", "compared"}
    BY <1>3
  <2> QED
    BY <1>3, <2>1, <2>2 DEF DataInvariant, Keys, OneEntryPerKey
<1>12. ReferencesAreExact'
  <2>1. \A d \in Clients : (pc'[d] \in HasKey <=> pc[d] \in HasKey)
                            /\ (pc'[d] \in HasValue <=> pc[d] \in HasValue)
    BY <1>2, <1>3
  <2> QED
    BY <2>1, ExactFrame
<1> QED
  BY <1>4, <1>5, <1>6, <1>7, <1>8, <1>9, <1>10, <1>11, <1>12 DEF DataInvariant

\* blob_compare locks its first argument.
LEMMA CompareFirstKeeps ==
    ASSUME DataInvariant, NEW c \in Clients, CompareFirst(c) PROVE DataInvariant'
<1>1. /\ pc[c] = "find" /\ pos[c] > 0
      /\ mutex' = [mutex EXCEPT ![entries[pos[c]].key] = c] /\ pc' = [pc EXCEPT ![c] = "compare"]
      /\ UNCHANGED <<blob, version, entries, mapLock, n, kind, pos, cur, entry, result, kept>>
  BY DEF CompareFirst, At, Goto, localVars
<1>2. pos[c] \in DOMAIN entries /\ pos[c] # 0
  BY <1>1 DEF DataInvariant, Typed, Places, PlaceOf
<1>3. entries[pos[c]].key \in Blobs
  BY <1>2, Alive
<1> QED
  BY <1>1, <1>2, <1>3, CompareKeeps

\* blob_compare locks its second argument.
LEMMA CompareSecondKeeps ==
    ASSUME DataInvariant, NEW c \in Clients, CompareSecond(c) PROVE DataInvariant'
<1>1. /\ pc[c] = "compare"
      /\ mutex' = [mutex EXCEPT ![KeyOf(c)] = c] /\ pc' = [pc EXCEPT ![c] = "compared"]
      /\ UNCHANGED <<blob, version, entries, mapLock, n, kind, pos, cur, entry, result, kept>>
  BY DEF CompareSecond, At, Goto, localVars
<1>2. KeyOf(c) \in Blobs
  BY <1>1, OwnObjects
<1> QED
  BY <1>1, <1>2, CompareKeeps

-----------------------------------------------------------------------------
(* Steps that move references.                                             *)

\* A thread gives away the key of its request.
LEMMA KeyGiven ==
    ASSUME DataInvariant, NEW c \in Clients, pc[c] \in HasKey, pc'[c] = "collect", n' = n, kind' = kind,
           \A d \in Clients : d # c => pc'[d] = pc[d], NEW b
    PROVE  /\ b = KeyOf(c) => KeyHand(b) = 1
           /\ KeyHand(b)' = IF b = KeyOf(c) THEN 0 ELSE KeyHand(b)
           /\ ValueHand(b)' = ValueHand(b)
<1>1. \A d \in Clients : KeyOf(d)' = KeyOf(d) /\ ValueOf(d)' = ValueOf(d)
                         /\ (KeyOf(d) = KeyOf(c) => d = c)
  BY DEF KeyOf, ValueOf, Request
<1>2. KeyInHand(b)' <=> KeyInHand(b) /\ b # KeyOf(c)
  BY <1>1 DEF KeyInHand, HasKey
<1>3. b = KeyOf(c) => KeyInHand(b)
  BY DEF KeyInHand, HasKey
<1>4. ValueInHand(b)' <=> ValueInHand(b)
  BY <1>1 DEF ValueInHand, HasKey
<1> QED
  BY <1>2, <1>3, <1>4 DEF KeyHand, ValueHand

\* A thread gives away the value of its PUT.
LEMMA ValueGiven ==
    ASSUME DataInvariant, NEW c \in Clients, pc[c] = "collect", pc'[c] \in {"unlock", "replaced"},
           n' = n, kind' = kind, \A d \in Clients : d # c => pc'[d] = pc[d], NEW b
    PROVE  /\ b = ValueOf(c) /\ kind[c] = "PUT" => ValueHand(b) = 1
           /\ ValueHand(b)' = IF b = ValueOf(c) /\ kind[c] = "PUT" THEN 0 ELSE ValueHand(b)
           /\ KeyHand(b)' = KeyHand(b)
<1>1. \A d \in Clients : KeyOf(d)' = KeyOf(d) /\ ValueOf(d)' = ValueOf(d)
                         /\ (ValueOf(d) = ValueOf(c) => d = c)
  BY DEF KeyOf, ValueOf, Request
<1>2. ValueInHand(b)' <=> ValueInHand(b) /\ ~(b = ValueOf(c) /\ kind[c] = "PUT")
  BY <1>1 DEF ValueInHand
<1>3. b = ValueOf(c) /\ kind[c] = "PUT" => ValueInHand(b)
  BY DEF ValueInHand
<1>4. KeyInHand(b)' <=> KeyInHand(b)
  BY <1>1 DEF KeyInHand
<1> QED
  BY <1>2, <1>3, <1>4 DEF KeyHand, ValueHand

\* A version that is alive is disposed of.
LEMMA DisposeEffect ==
    ASSUME DataInvariant, NEW v \in Requests, version[v].live, version_dispose(v)
    PROVE  /\ version' \in [Requests -> Version] /\ ~version'[v].live
           /\ version'[v].creator = version[v].creator /\ version'[v].blob = version[v].blob
           /\ \A u \in Requests : u # v => version'[u] = version[u]
           /\ blob' \in [Blobs -> Blob]
           /\ \A b \in Blobs :
                 /\ blob'[b].content = blob[b].content
                 /\ blob[b].refcnt = 0 => blob'[b].refcnt = 0
                 /\ blob'[b].live <=> blob'[b].refcnt > 0
                 /\ blob'[b].refcnt - VersionsOn(version', b) = blob[b].refcnt - VersionsOn(version, b)
<1> DEFINE e == [version[v] EXCEPT !.live = FALSE]
           B == version[v].blob
<1>1. version' = [version EXCEPT ![v] = e] /\ blob' = blob_unref(blob, B)
  BY DEF version_dispose
<1>2. version[v] \in Version /\ version \in [Requests -> Version] /\ blob \in [Blobs -> Blob]
  BY DEF DataInvariant, Typed
<1>3. e \in Version /\ ~e.live /\ e.creator = version[v].creator /\ e.blob = version[v].blob
  BY <1>2 DEF Version
<1> HIDE DEF e
<1>4. /\ version' \in [Requests -> Version] /\ version'[v] = e
      /\ \A u \in Requests : u # v => version'[u] = version[u]
  BY <1>1, <1>2, <1>3
<1>5. ASSUME NEW b
      PROVE  VersionsOn(version', b) = IF B = b THEN VersionsOn(version, b) - 1 ELSE VersionsOn(version, b)
  BY <1>3, <1>4, VersionsOnRemove
<1>6. \A b : VersionsOn(version, b) \in Nat
  BY VersionsOnNat
<1>7. \A b \in Blobs : blob[b].refcnt \in Nat /\ (blob[b].live <=> blob[b].refcnt > 0)
  BY Counts
<1>8. CASE B = Null
  <2>1. blob' = blob
    BY <1>1, <1>8 DEF blob_unref
  <2>2. \A b \in Blobs : VersionsOn(version', b) = VersionsOn(version, b)
    BY <1>5, <1>8, NullAssumption
  <2> QED
    BY <1>2, <1>3, <1>4, <1>6, <1>7, <2>1, <2>2
<1>9. CASE B # Null
  <2>1. B \in Blobs /\ blob[B].refcnt > 0
    BY <1>9, Alive
  <2> HIDE DEF B
  <2>2. /\ blob' \in [Blobs -> Blob]
        /\ blob'[B].refcnt = blob[B].refcnt - 1 /\ (blob'[B].live <=> blob[B].refcnt > 1)
        /\ blob'[B].content = blob[B].content
        /\ \A a \in Blobs : a # B => blob'[a] = blob[a]
    BY <1>1, <1>2, <2>1, UnrefEffect
  <2>3. ASSUME NEW b \in Blobs
        PROVE  /\ blob'[b].content = blob[b].content
               /\ blob[b].refcnt = 0 => blob'[b].refcnt = 0
               /\ blob'[b].live <=> blob'[b].refcnt > 0
               /\ blob'[b].refcnt - VersionsOn(version', b) = blob[b].refcnt - VersionsOn(version, b)
    <3>1. CASE b = B
      <4>1. VersionsOn(version', b) = VersionsOn(version, b) - 1
        BY <1>5, <3>1
      <4> QED
        BY <1>6, <1>7, <2>1, <2>2, <3>1, <4>1
    <3>2. CASE b # B
      <4>1. VersionsOn(version', b) = VersionsOn(version, b) /\ blob'[b] = blob[b]
        BY <1>5, <2>2, <3>2
      <4> QED
        BY <1>6, <1>7, <4>1
    <3> QED
      BY <3>1, <3>2
  <2> QED
    BY <1>3, <1>4, <2>2, <2>3
<1> QED
  BY <1>8, <1>9

\* Nothing else happens to references when a version is disposed of.
LEMMA DisposeExact ==
    ASSUME DataInvariant, NEW v \in Requests, version[v].live, version_dispose(v),
           kept' = kept, n' = n, kind' = kind, entries' = entries,
           \A d \in Clients : (pc'[d] \in HasKey <=> pc[d] \in HasKey)
                              /\ (pc'[d] \in HasValue <=> pc[d] \in HasValue)
    PROVE  ReferencesAreExact'
<1> SUFFICES ASSUME NEW b \in Blobs PROVE ExactAt(b)'
  BY ExactEverywhereNext
<1>1. KeyHand(b)' = KeyHand(b) /\ ValueHand(b)' = ValueHand(b)
  BY HandsFrame
<1>2. /\ blob'[b].live <=> blob'[b].refcnt > 0
      /\ blob'[b].refcnt - VersionsOn(version', b) = blob[b].refcnt - VersionsOn(version, b)
      /\ blob'[b].refcnt \in Int
  BY DisposeEffect DEF Blob
<1>3. VersionsOn(version', b) \in Nat
  BY VersionsOnNat
<1> QED
  BY <1>1, <1>2, <1>3, Counts DEF ExactAt

\* SetVersions replaces one list.
LEMMA SetVersionsEffect ==
    ASSUME DataInvariant, NEW c \in Clients, entry[c] \in 1..Len(entries), NEW vs \in Seq(Requests),
           SetVersions(c, vs)
    PROVE  /\ entries' \in Seq(Entry) /\ Len(entries') = Len(entries) /\ DOMAIN entries' = DOMAIN entries
           /\ \A e \in DOMAIN entries : entries'[e].key = entries[e].key
           /\ entries'[entry[c]].versions = vs
           /\ \A e \in DOMAIN entries : e # entry[c] => entries'[e] = entries[e]
<1> DEFINE i == entry[c]
           x == [entries[i] EXCEPT !.versions = vs]
<1>1. entries' = [entries EXCEPT ![i] = x]
  BY DEF SetVersions
<1>2. entries \in Seq(Entry) /\ entries[i] \in Entry
  BY DEF DataInvariant, Typed
<1>3. x \in Entry /\ x.key = entries[i].key /\ x.versions = vs
  BY <1>2 DEF Entry
<1> HIDE DEF i, x
<1>4. i \in 1..Len(entries)
  BY DEF i
<1>5. /\ entries' \in Seq(Entry) /\ Len(entries') = Len(entries) /\ DOMAIN entries' = DOMAIN entries
      /\ entries'[i] = x /\ \A e \in DOMAIN entries : e # i => entries'[e] = entries[e]
  BY <1>1, <1>2, <1>3, <1>4
<1> QED
  BY <1>3, <1>5 DEF i

\* A count stays exact if it changes as its parts do.
LEMMA ExactNext ==
    ASSUME DataInvariant, NEW b \in Blobs, blob'[b].live <=> blob'[b].refcnt > 0,
           blob'[b].refcnt \in Int, kept'[b] \in Nat, entries' \in Seq(Entry),
           blob'[b].refcnt - blob[b].refcnt =
               (kept'[b] - kept[b]) + (KeyHand(b)' - KeyHand(b)) + (ValueHand(b)' - ValueHand(b))
               + (KeysOn(entries', b) - KeysOn(entries, b))
               + (VersionsOn(version', b) - VersionsOn(version, b))
    PROVE  ExactAt(b)'
<1> DEFINE r == blob[b].refcnt
           k == kept[b]
           h == KeyHand(b)
           v == ValueHand(b)
           e == KeysOn(entries, b)
           m == VersionsOn(version, b)
           r1 == blob'[b].refcnt
           k1 == kept'[b]
           h1 == KeyHand(b)'
           v1 == ValueHand(b)'
           e1 == KeysOn(entries', b)
           m1 == VersionsOn(version', b)
<1>1. /\ r \in Nat /\ k \in Nat /\ h \in Int /\ v \in Int /\ e \in Int /\ m \in Int
      /\ r = k + h + v + e + m
  BY Counts, SMTT(40)
<1>2. h1 \in Int /\ v1 \in Int
  BY DEF KeyHand, ValueHand
<1>3. e1 \in Int /\ m1 \in Int
  BY KeysOnNat, VersionsOnNat
<1>4. r1 - r = (k1 - k) + (h1 - h) + (v1 - v) + (e1 - e) + (m1 - m)
  OBVIOUS
<1>5. r1 \in Int /\ k1 \in Int
  OBVIOUS
<1>6. r1 = k1 + h1 + v1 + e1 + m1
  <2> HIDE DEF r, k, h, v, e, m, r1, k1, h1, v1, e1, m1
  <2> QED
    BY <1>1, <1>2, <1>3, <1>4, <1>5
<1> QED
  BY <1>6 DEF ExactAt

\* The key of the request goes to its new entry.
LEMMA FindNoneKeeps ==
    ASSUME DataInvariant, NEW c \in Clients, FindNone(c) PROVE DataInvariant'
<1> DEFINE x == [key |-> KeyOf(c), versions |-> <<>>]
           L == Len(entries)
<1>1. /\ pc[c] = "find" /\ pos[c] = 0 /\ entries' = Append(entries, x)
      /\ entry' = [entry EXCEPT ![c] = L + 1] /\ pos' = [pos EXCEPT ![c] = 1]
      /\ pc' = [pc EXCEPT ![c] = "collect"]
      /\ UNCHANGED <<blob, mutex, version, mapLock, n, kind, cur, result, kept>>
  BY DEF FindNone, At, Goto
<1>2. pc[c] \in InMap /\ pc[c] \in HasKey /\ KeyOf(c) \in Blobs
  BY <1>1, OwnObjects DEF InMap, HasKey
<1>3. /\ pc'[c] = "collect" /\ pos'[c] = 1 /\ entry'[c] = L + 1
      /\ \A d \in Clients : d # c => pc'[d] = pc[d]
      /\ \A d \in Clients : KeyOf(d)' = KeyOf(d)
  BY <1>1 DEF DataInvariant, Typed, KeyOf, Request
<1>x. x \in Entry /\ x.key = KeyOf(c) /\ x.versions = <<>>
  BY <1>2 DEF Entry
<1> HIDE DEF x
<1>e. /\ entries \in Seq(Entry) /\ entries' \in Seq(Entry) /\ L \in Nat /\ Len(entries') = L + 1
      /\ DOMAIN entries = 1..L /\ DOMAIN entries' = 1..(L + 1)
      /\ entries'[L + 1] = x /\ \A e \in 1..L : entries'[e] = entries[e]
  BY <1>1, <1>x DEF DataInvariant, Typed
<1> HIDE DEF L
<1>4. Typed'
  <2>1. "collect" \in Labels /\ L + 1 \in Int /\ 1 \in Int
    BY <1>e DEF Labels
  <2> QED
    BY <1>1, <1>e, <2>1 DEF DataInvariant, Typed
<1>5. Locking'
  <2>1. \A d \in Clients : pc'[d] \in InMap <=> pc[d] \in InMap
    BY <1>1, <1>3 DEF InMap
  <2> QED
    BY <1>1, <2>1, LockingFrame
<1>6. Places'
  <2>1. VersionsOf(c)' = <<>>
    BY <1>3, <1>e, <1>x DEF VersionsOf
  <2>2. n[c] \in 0..Len(Access[c]) /\ n[c] # 0
    BY <1>1 DEF DataInvariant, Places, PlaceOf
  <2>3. PlaceOf(c)'
    BY <1>1, <1>3, <1>e, <2>1, <2>2 DEF PlaceOf, HasEntry
  <2> QED
    BY <1>1, <1>2, <1>3, <2>3, PlacesFrame
<1>7. Mutexes'
  BY <1>1, <1>2, MutexesFrame
<1>8. Results'
  <2>1. kept' \in [Blobs -> Nat] /\ \A b \in Blobs : kept'[b] >= kept[b]
    BY <1>1 DEF DataInvariant, Typed
  <2> QED
    BY <1>1, <1>2, <1>3, <2>1, ResultsFrame
<1>9. Creation'
  <2>1. \A d \in Clients : pc'[d] \in HasValue => pc[d] \in HasValue
    BY <1>1, <1>3 DEF HasValue
  <2> QED
    BY <1>1, <2>1, CreationFrame
<1>10. Lists'
  <2>1. \A d \in Clients : pc'[d] # "replaced"
    BY <1>2, <1>3, OthersOutside DEF InMap
  <2>2. ASSUME NEW e \in DOMAIN entries', NEW i \in DOMAIN entries'[e].versions
        PROVE  e \in DOMAIN entries /\ entries'[e] = entries[e]
    <3>1. e # L + 1
      BY <1>e, <1>x
    <3> QED
      BY <1>e, <3>1
  <2>3. ASSUME NEW e \in DOMAIN entries, NEW i \in DOMAIN entries[e].versions
        PROVE  version[entries[e].versions[i]].live /\ version[entries[e].versions[i]].creator # Null
    BY <1>1, <1>2, ListsAlive DEF DataInvariant, Lists
  <2>4. \A e \in DOMAIN entries' : \A i \in DOMAIN entries'[e].versions :
           /\ version'[entries'[e].versions[i]].creator # Null
           /\ version'[entries'[e].versions[i]].live
    BY <1>1, <2>2, <2>3
  <2>5. \A d, e \in DOMAIN entries :
           \A i \in DOMAIN entries[d].versions, j \in DOMAIN entries[e].versions :
               entries[d].versions[i] = entries[e].versions[j] => d = e /\ i = j
    BY DEF DataInvariant, Lists
  <2>6. \A d, e \in DOMAIN entries' :
           \A i \in DOMAIN entries'[d].versions, j \in DOMAIN entries'[e].versions :
               entries'[d].versions[i] = entries'[e].versions[j] => d = e /\ i = j
    BY <2>2, <2>5
  <2> QED
    BY <2>1, <2>4, <2>6 DEF Lists
<1>11. Keys'
  <2>1. \A d \in Clients : pc'[d] \in HasKey => pc[d] \in HasKey /\ pc[d] \notin InMap
    BY <1>2, <1>3, OthersOutside DEF HasKey
  <2>2. \A e \in DOMAIN entries : blob[entries[e].key].content # blob[KeyOf(c)].content
    <3>1. \A e \in DOMAIN entries : e > 0
      BY <1>e
    <3> QED
      BY <1>1, <3>1 DEF DataInvariant, Keys
  <2>3. \A e \in DOMAIN entries' : e \in DOMAIN entries \/ e = L + 1
    BY <1>e
  <2>4. blob[KeyOf(c)].content \in KeyContents
    BY <1>2 DEF DataInvariant, Keys
  <2>5. \A e \in DOMAIN entries' : blob'[entries'[e].key].content \in KeyContents
    BY <1>1, <1>e, <1>x, <2>3, <2>4 DEF DataInvariant, Keys
  <2>6. OneEntryPerKey'
    BY <1>1, <1>e, <1>x, <2>2, <2>3 DEF DataInvariant, Keys, OneEntryPerKey
  <2> QED
    BY <1>1, <1>3, <2>1, <2>5, <2>6 DEF DataInvariant, Keys, InMap, HasKey
<1>12. ReferencesAreExact'
  <2> SUFFICES ASSUME NEW b \in Blobs PROVE ExactAt(b)'
    BY ExactEverywhereNext
  <2>1. /\ b = KeyOf(c) => KeyHand(b) = 1
        /\ KeyHand(b)' = IF b = KeyOf(c) THEN 0 ELSE KeyHand(b)
        /\ ValueHand(b)' = ValueHand(b)
    BY <1>1, <1>2, <1>3, KeyGiven
  <2>2. KeysOn(entries', b) = IF x.key = b THEN KeysOn(entries, b) + 1 ELSE KeysOn(entries, b)
    <3>1. Appended(entries, x, entries') /\ entries \in Seq(Entry) /\ x \in Entry
      BY <1>1, <1>e, <1>x DEF Appended
    <3> QED
      BY <3>1, KeysOnAppend
  <2>3. blob[b].refcnt \in Nat /\ (blob[b].live <=> blob[b].refcnt > 0) /\ kept[b] \in Nat
        /\ KeysOn(entries, b) \in Nat /\ VersionsOn(version, b) \in Nat
        /\ KeyHand(b) \in Int /\ ValueHand(b) \in Int
    BY Counts
  <2>4. 0 = (kept[b] - kept[b]) + (KeyHand(b)' - KeyHand(b)) + (ValueHand(b)' - ValueHand(b))
            + (KeysOn(entries', b) - KeysOn(entries, b)) + (VersionsOn(version, b) - VersionsOn(version, b))
    BY <1>x, <2>1, <2>2, <2>3
  <2>5. blob'[b].refcnt - blob[b].refcnt = 0
    BY <1>1, <2>3
  <2> QED
    BY <1>1, <1>e, <2>3, <2>4, <2>5, ExactNext
<1> QED
  BY <1>4, <1>5, <1>6, <1>7, <1>8, <1>9, <1>10, <1>11, <1>12 DEF DataInvariant

\* Nobody has a mutex any more after a comparison.
LEMMA ComparedMutexes ==
    ASSUME DataInvariant, NEW c \in Clients, pc[c] = "compared",
           mutex' = [mutex EXCEPT ![entries[pos[c]].key] = Null, ![KeyOf(c)] = Null]
    PROVE  mutex' \in [Blobs -> Clients \cup {Null}] /\ Mutexes'
<1>1. mutex' \in [Blobs -> Clients \cup {Null}]
  BY DEF DataInvariant, Typed
<1>2. ASSUME NEW b \in Blobs PROVE mutex'[b] = Null
  <2>1. CASE b = entries[pos[c]].key \/ b = KeyOf(c)
    BY <2>1 DEF DataInvariant, Typed
  <2>2. CASE b # entries[pos[c]].key /\ b # KeyOf(c)
    <3>1. mutex'[b] = mutex[b] /\ mutex[b] \in Clients \cup {Null}
      BY <2>2 DEF DataInvariant, Typed
    <3>2. ASSUME mutex[b] # Null PROVE FALSE
      <4>1. /\ mutex[b] \in Clients /\ pc[mutex[b]] \in {"compare", "compared"}
            /\ b = entries[pos[mutex[b]]].key \/ b = KeyOf(mutex[b])
        BY <3>1, <3>2 DEF DataInvariant, Mutexes
      <4>2. mutex[b] = c
        BY <4>1, OthersOutside DEF InMap
      <4> QED
        BY <2>2, <4>1, <4>2
    <3> QED
      BY <3>1, <3>2
  <2> QED
    BY <2>1, <2>2
<1> QED
  BY <1>1, <1>2 DEF Mutexes

\* The key has an entry: the key of the request is disposed of.
LEMMA ComparedEqualKeeps ==
    ASSUME DataInvariant, NEW c \in Clients, pc[c] = "compared",
           mutex' = [mutex EXCEPT ![entries[pos[c]].key] = Null, ![KeyOf(c)] = Null],
           blob' = key_dispose(blob, KeyOf(c)), entry' = [entry EXCEPT ![c] = pos[c]],
           pos' = [pos EXCEPT ![c] = 1], pc' = [pc EXCEPT ![c] = "collect"],
           UNCHANGED <<version, entries, mapLock, n, kind, cur, result, kept>>
    PROVE  DataInvariant'
<1> DEFINE K == KeyOf(c)
<1>2. pc[c] \in InMap /\ pc[c] \in HasKey /\ K \in Blobs /\ blob \in [Blobs -> Blob]
  BY OwnObjects DEF InMap, HasKey, DataInvariant, Typed
<1>3. /\ pc'[c] = "collect" /\ pos'[c] = 1 /\ entry'[c] = pos[c]
      /\ \A d \in Clients : d # c => pc'[d] = pc[d]
      /\ \A d \in Clients : KeyOf(d)' = KeyOf(d)
  BY DEF DataInvariant, Typed, KeyOf, Request
<1>4. mutex' \in [Blobs -> Clients \cup {Null}] /\ Mutexes'
  BY ComparedMutexes
<1>5. /\ blob' \in [Blobs -> Blob]
      /\ blob'[K].refcnt = blob[K].refcnt - 1 /\ (blob'[K].live <=> blob[K].refcnt > 1)
      /\ blob'[K].content = blob[K].content
      /\ \A a \in Blobs : a # K => blob'[a] = blob[a]
  <2>1. blob' = blob_unref(blob, K)
    BY DEF key_dispose
  <2> HIDE DEF K
  <2> QED
    BY <1>2, <2>1, UnrefEffect
<1>6. blob[K].refcnt \in Nat /\ blob[K].refcnt > 0
  BY <1>2, Counts, Alive
<1>7. Typed'
  <2>1. "collect" \in Labels /\ pos[c] \in Int /\ 1 \in Int
    BY DEF Labels, DataInvariant, Typed
  <2> QED
    BY <1>4, <1>5, <2>1 DEF DataInvariant, Typed
<1>8. Locking'
  <2>1. \A d \in Clients : pc'[d] \in InMap <=> pc[d] \in InMap
    BY <1>3 DEF InMap
  <2> QED
    BY <2>1, LockingFrame
<1>9. Places'
  <2>1. pos[c] \in 1..Len(entries) /\ n[c] \in 0..Len(Access[c]) /\ n[c] # 0
    BY DEF DataInvariant, Places, PlaceOf
  <2>2. entries[pos[c]] \in Entry
    BY <2>1 DEF DataInvariant, Typed
  <2>3. entries[pos[c]].versions \in Seq(Requests)
    BY <2>2 DEF Entry
  <2>4. Len(VersionsOf(c)') \in Nat
    BY <1>3, <2>3 DEF VersionsOf
  <2>5. PlaceOf(c)'
    BY <1>3, <2>1, <2>4 DEF PlaceOf, HasEntry
  <2> QED
    BY <1>2, <1>3, <2>5, PlacesFrame
<1>10. Results'
  <2>1. kept' \in [Blobs -> Nat] /\ \A b \in Blobs : kept'[b] >= kept[b]
    BY DEF DataInvariant, Typed
  <2> QED
    BY <1>2, <1>3, <2>1, ResultsFrame
<1>11. Creation'
  <2>1. \A d \in Clients : pc'[d] \in HasValue => pc[d] \in HasValue
    BY <1>3 DEF HasValue
  <2>2. \A b \in Blobs : blob[b].refcnt = 0 => blob'[b].refcnt = 0
    <3> HIDE DEF K
    <3> QED
      BY <1>5, <1>6
  <2> QED
    BY <2>1, <2>2, CreationFrame
<1>12. Lists'
  BY <1>2, <1>3, ListsFrame
<1>13. Keys'
  <2>1. \A b \in Blobs : blob'[b].content = blob[b].content
    <3> HIDE DEF K
    <3> QED
      BY <1>5
  <2>2. pc'[c] \notin HasKey
    BY <1>3 DEF HasKey
  <2> QED
    BY <1>2, <1>3, <2>1, <2>2, KeysFrame
<1>14. ReferencesAreExact'
  <2> SUFFICES ASSUME NEW b \in Blobs PROVE ExactAt(b)'
    BY ExactEverywhereNext
  <2>1. /\ b = K => KeyHand(b) = 1
        /\ KeyHand(b)' = IF b = K THEN 0 ELSE KeyHand(b)
        /\ ValueHand(b)' = ValueHand(b)
    BY <1>2, <1>3, KeyGiven
  <2> HIDE DEF K
  <2>3. blob[b].refcnt \in Nat /\ (blob[b].live <=> blob[b].refcnt > 0) /\ kept[b] \in Nat
        /\ KeysOn(entries, b) \in Nat /\ VersionsOn(version, b) \in Nat
        /\ KeyHand(b) \in Int /\ ValueHand(b) \in Int
    BY Counts
  <2>4. blob'[b].refcnt - blob[b].refcnt =
           (kept[b] - kept[b]) + (KeyHand(b)' - KeyHand(b)) + (ValueHand(b)' - ValueHand(b))
           + (KeysOn(entries, b) - KeysOn(entries, b)) + (VersionsOn(version, b) - VersionsOn(version, b))
    <3>1. blob'[b].refcnt - blob[b].refcnt = IF b = K THEN -1 ELSE 0
      BY <1>5, <1>6, <2>3
    <3> QED
      BY <2>1, <2>3, <3>1
  <2>5. blob'[b].live <=> blob'[b].refcnt > 0
    BY <1>5, <1>6, <2>3
  <2>6. blob'[b].refcnt \in Int /\ kept'[b] \in Nat /\ entries' \in Seq(Entry)
    BY <1>5, <2>3 DEF Blob, DataInvariant, Typed
  <2> QED
    BY <2>4, <2>5, <2>6, ExactNext
<1> QED
  BY <1>4, <1>7, <1>8, <1>9, <1>10, <1>11, <1>12, <1>13, <1>14 DEF DataInvariant

\* The entry has another key: by KeyEqualsItself the contents differ.
LEMMA ComparedOtherKeeps ==
    ASSUME DataInvariant, NEW c \in Clients, pc[c] = "compared",
           mutex' = [mutex EXCEPT ![entries[pos[c]].key] = Null, ![KeyOf(c)] = Null],
           key_compare(blob[entries[pos[c]].key].content, blob[KeyOf(c)].content) # 0,
           pos' = [pos EXCEPT ![c] = @ - 1], pc' = [pc EXCEPT ![c] = "find"],
           UNCHANGED <<blob, entry, version, entries, mapLock, n, kind, cur, result, kept>>
    PROVE  DataInvariant'
<1>2. pc[c] \in InMap /\ pc[c] \in HasKey
  BY DEF InMap, HasKey
<1>3. /\ pc'[c] = "find" /\ pos'[c] = pos[c] - 1
      /\ \A d \in Clients : d # c => pc'[d] = pc[d]
      /\ \A d \in Clients : KeyOf(d)' = KeyOf(d)
  BY DEF DataInvariant, Typed, KeyOf, Request
<1>4. mutex' \in [Blobs -> Clients \cup {Null}] /\ Mutexes'
  BY ComparedMutexes
<1>5. pos[c] \in 1..Len(entries) /\ n[c] \in 0..Len(Access[c]) /\ n[c] # 0 /\ Len(entries) \in Nat
  <2>1. pos[c] \in 1..Len(entries) /\ n[c] \in 0..Len(Access[c]) /\ n[c] # 0
    BY DEF DataInvariant, Places, PlaceOf
  <2> QED
    BY <2>1 DEF DataInvariant, Typed
<1>7. Typed'
  <2>1. "find" \in Labels /\ pos[c] - 1 \in Int
    BY <1>5 DEF Labels
  <2> QED
    BY <1>4, <2>1 DEF DataInvariant, Typed
<1>8. Locking'
  <2>1. \A d \in Clients : pc'[d] \in InMap <=> pc[d] \in InMap
    BY <1>3 DEF InMap
  <2> QED
    BY <2>1, LockingFrame
<1>9. Places'
  <2>1. PlaceOf(c)'
    BY <1>3, <1>5 DEF PlaceOf, HasEntry
  <2> QED
    BY <1>2, <1>3, <2>1, PlacesFrame
<1>10. Results'
  <2>1. kept' \in [Blobs -> Nat] /\ \A b \in Blobs : kept'[b] >= kept[b]
    BY DEF DataInvariant, Typed
  <2> QED
    BY <1>2, <1>3, <2>1, ResultsFrame
<1>11. Creation'
  <2>1. \A d \in Clients : pc'[d] \in HasValue => pc[d] \in HasValue
    BY <1>3 DEF HasValue
  <2> QED
    BY <2>1, CreationFrame
<1>12. Lists'
  BY <1>2, <1>3, ListsFrame
<1>13. Keys'
  <2>1. blob[entries[pos[c]].key].content # blob[KeyOf(c)].content
    <3>1. blob[KeyOf(c)].content \in KeyContents
      BY <1>2 DEF DataInvariant, Keys
    <3> QED
      BY <3>1, KeyEqualsItself
  <2>2. ASSUME NEW d \in Clients, pc'[d] \in {"find", "compare", "compared"}
        PROVE  \A e \in DOMAIN entries : e > pos'[d] => blob[entries[e].key].content # blob[KeyOf(d)].content
    <3>1. d = c
      BY <1>2, <1>3, <2>2, OthersOutside DEF InMap
    <3>2. \A e \in DOMAIN entries : e > pos[c] => blob[entries[e].key].content # blob[KeyOf(c)].content
      BY DEF DataInvariant, Keys
    <3>3. \A e \in DOMAIN entries : e > pos[c] - 1 => e > pos[c] \/ e = pos[c]
      BY <1>5 DEF DataInvariant, Typed
    <3> QED
      BY <1>3, <2>1, <3>1, <3>2, <3>3
  <2>3. \A d \in Clients : pc'[d] \in HasKey => pc[d] \in HasKey
    BY <1>2, <1>3
  <2> QED
    BY <1>3, <2>2, <2>3 DEF DataInvariant, Keys, OneEntryPerKey
<1>14. ReferencesAreExact'
  <2>1. \A d \in Clients : (pc'[d] \in HasKey <=> pc[d] \in HasKey)
                            /\ (pc'[d] \in HasValue <=> pc[d] \in HasValue)
    BY <1>3 DEF HasKey, HasValue
  <2> QED
    BY <2>1, ExactFrame
<1> QED
  BY <1>4, <1>7, <1>8, <1>9, <1>10, <1>11, <1>12, <1>13, <1>14 DEF DataInvariant

\* blob_compare unlocks both arguments.
LEMMA ComparedKeeps ==
    ASSUME DataInvariant, NEW c \in Clients, Compared(c) PROVE DataInvariant'
BY ComparedEqualKeeps, ComparedOtherKeeps DEF Compared, At, Goto

-----------------------------------------------------------------------------
(* Garbage collection.                                                     *)

\* The list a thread works on.
LEMMA OwnList ==
    ASSUME DataInvariant, NEW c \in Clients, pc[c] \in HasEntry
    PROVE  /\ entry[c] \in 1..Len(entries) /\ entry[c] \in DOMAIN entries
           /\ entries[entry[c]].versions = VersionsOf(c)
           /\ VersionsOf(c) \in Seq(Requests) /\ Len(VersionsOf(c)) \in Nat
           /\ DOMAIN VersionsOf(c) = 1..Len(VersionsOf(c))
           /\ \A i \in 1..Len(VersionsOf(c)) : VersionsOf(c)[i] \in Requests
<1>1. entry[c] \in 1..Len(entries) /\ entries \in Seq(Entry)
  BY DEF DataInvariant, Typed, Places, PlaceOf
<1>2. entries[entry[c]] \in Entry /\ entry[c] \in DOMAIN entries
  BY <1>1
<1>3. VersionsOf(c) \in Seq(Requests)
  BY <1>2 DEF Entry, VersionsOf
<1>4. \A i \in 1..Len(VersionsOf(c)) : VersionsOf(c)[i] \in Requests
  BY <1>3, ElementOfSeq
<1> QED
  BY <1>1, <1>2, <1>3, <1>4 DEF VersionsOf

\* Every version in the table is one.
LEMMA ListElements ==
    ASSUME DataInvariant, NEW e \in DOMAIN entries, NEW i \in DOMAIN entries[e].versions
    PROVE  entries[e].versions[i] \in Requests
<1>1. entries[e] \in Entry
  BY DEF DataInvariant, Typed
<1>2. entries[e].versions \in Seq(Requests)
  BY <1>1 DEF Entry
<1> QED
  BY <1>2, ElementOfSeq

\* Only the thread in the store is collecting.
LEMMA DyingHere ==
    ASSUME DataInvariant, NEW c \in Clients, pc[c] \in InMap, NEW e, NEW i, Dying(e, i)
    PROVE  /\ entry[c] = e
           /\ \/ pc[c] = "relink" /\ i = pos[c] - 1
              \/ pc[c] = "doomed" /\ i \in pos[c]..(cur[c] - 1)
BY OthersOutside DEF Dying, InMap

\* A step of the collection, up to its own place, its list and its references.
LEMMA CollectFrame ==
    ASSUME DataInvariant, NEW c \in Clients, pc[c] \in {"collect", "relink", "doomed"},
           NEW l \in {"collect", "relink", "doomed"}, pc' = [pc EXCEPT ![c] = l],
           UNCHANGED <<mutex, mapLock, n, kind, entry, result, kept>>,
           pos' \in [Clients -> Int], cur' \in [Clients -> Int \cup Requests \cup {Null}],
           blob' \in [Blobs -> Blob], version' \in [Requests -> Version], entries' \in Seq(Entry),
           DOMAIN entries' = DOMAIN entries, \A e \in DOMAIN entries : entries'[e].key = entries[e].key,
           \A b \in Blobs : blob'[b].content = blob[b].content /\ (blob[b].refcnt = 0 => blob'[b].refcnt = 0),
           \A r \in Requests : /\ version'[r].creator = version[r].creator
                               /\ version'[r].live => version[r].live,
           PlaceOf(c)', Lists', ReferencesAreExact'
    PROVE  DataInvariant'
<1>2. /\ pc[c] \in InMap /\ l \in InMap /\ l \in Labels /\ l \notin HasKey
      /\ pc[c] \in HasValue /\ l \in HasValue
  BY DEF InMap, Labels, HasKey, HasValue
<1>3. pc'[c] = l /\ \A d \in Clients : d # c => pc'[d] = pc[d]
  BY DEF DataInvariant, Typed
<1>4. Typed'
  BY <1>2 DEF DataInvariant, Typed
<1>5. Locking'
  <2>1. \A d \in Clients : pc'[d] \in InMap <=> pc[d] \in InMap
    BY <1>2, <1>3
  <2> QED
    BY <2>1, LockingFrame
<1>6. Places'
  BY <1>2, <1>3, PlacesFrame
<1>7. Mutexes'
  BY <1>2, MutexesFrame
<1>8. Results'
  <2>1. kept' \in [Blobs -> Nat] /\ \A b \in Blobs : kept'[b] >= kept[b]
    BY DEF DataInvariant, Typed
  <2> QED
    BY <1>2, <1>3, <2>1, ResultsFrame
<1>9. Creation'
  <2>1. \A d \in Clients : pc'[d] \in HasValue => pc[d] \in HasValue
    BY <1>2, <1>3
  <2> QED
    BY <2>1, CreationFrame
<1>10. Keys'
  BY <1>2, <1>3, KeysFrame
<1> QED
  BY <1>4, <1>5, <1>6, <1>7, <1>8, <1>9, <1>10 DEF DataInvariant

\* Garbage collection passes a version.
LEMMA CollectNextKeeps ==
    ASSUME DataInvariant, NEW c \in Clients, CollectNext(c) PROVE DataInvariant'
<1>1. /\ pc[c] = "collect" /\ pos[c] <= Len(VersionsOf(c))
      /\ pos' = [pos EXCEPT ![c] = pos[c] + 1]
      /\ UNCHANGED <<blob, mutex, version, entries, mapLock, pc, n, kind, cur, entry, result, kept>>
  BY DEF CollectNext, At, storeVars
<1>2. pc' = [pc EXCEPT ![c] = "collect"] /\ pc[c] \in InMap /\ pc[c] \in HasEntry
  BY <1>1 DEF InMap, HasEntry, DataInvariant, Typed
<1>3. pos[c] \in Int /\ pos'[c] = pos[c] + 1
  BY <1>1 DEF DataInvariant, Typed
<1>4. PlaceOf(c)'
  <2>1. PlaceOf(c) /\ Len(VersionsOf(c)) \in Nat
    BY <1>2, OwnList DEF DataInvariant, Places
  <2> QED
    BY <1>1, <1>3, <2>1 DEF PlaceOf, VersionsOf
<1>5. Lists'
  BY <1>1, <1>2, ListsFrame
<1>6. ReferencesAreExact'
  BY <1>1, ExactFrame
<1>7. /\ pos' \in [Clients -> Int] /\ cur' \in [Clients -> Int \cup Requests \cup {Null}]
      /\ blob' \in [Blobs -> Blob] /\ version' \in [Requests -> Version] /\ entries' \in Seq(Entry)
  <2>1. pos[c] + 1 \in Int
    BY <1>3
  <2> QED
    BY <1>1, <2>1 DEF DataInvariant, Typed
<1> QED
  BY <1>1, <1>2, <1>4, <1>5, <1>6, <1>7, CollectFrame

\* Garbage collection meets an aborted version.
LEMMA CollectAbortedKeeps ==
    ASSUME DataInvariant, NEW c \in Clients, CollectAborted(c) PROVE DataInvariant'
<1>1. /\ pc[c] = "collect" /\ pos[c] <= Len(VersionsOf(c))
      /\ cur' = [cur EXCEPT ![c] = pos[c]] /\ pc' = [pc EXCEPT ![c] = "doomed"]
      /\ UNCHANGED <<blob, mutex, version, entries, mapLock, n, kind, pos, entry, result, kept>>
  BY DEF CollectAborted, At, Goto, storeVars
<1>2. /\ pc[c] \in InMap /\ pc[c] \in HasEntry /\ pc'[c] = "doomed" /\ cur'[c] = pos[c] /\ pos[c] \in Int
      /\ \A d \in Clients : d # c => pc'[d] = pc[d]
  BY <1>1 DEF InMap, HasEntry, DataInvariant, Typed
<1>4. PlaceOf(c)'
  <2>1. PlaceOf(c) /\ Len(VersionsOf(c)) \in Nat
    BY <1>2, OwnList DEF DataInvariant, Places
  <2>2. pos[c] \in 1..Len(VersionsOf(c)) /\ VersionsOf(c)' = VersionsOf(c)
    BY <1>1, <2>1 DEF PlaceOf, VersionsOf
  <2>3. cur'[c] \in pos[c]..(Len(VersionsOf(c)) + 1)
    BY <1>2, <2>1, <2>2
  <2>4. n[c] \in 0..Len(Access[c]) /\ n[c] # 0 /\ entry[c] \in 1..Len(entries)
    BY <1>1, <1>2, <2>1 DEF PlaceOf
  <2> QED
    BY <1>1, <1>2, <2>2, <2>3, <2>4 DEF PlaceOf
<1>5. Lists'
  BY <1>1, <1>2, ListsFrame
<1>6. ReferencesAreExact'
  <2>1. \A d \in Clients : (pc'[d] \in HasKey <=> pc[d] \in HasKey)
                            /\ (pc'[d] \in HasValue <=> pc[d] \in HasValue)
    BY <1>1, <1>2 DEF HasKey, HasValue
  <2> QED
    BY <1>1, <2>1, ExactFrame
<1>7. /\ pos' \in [Clients -> Int] /\ cur' \in [Clients -> Int \cup Requests \cup {Null}]
      /\ blob' \in [Blobs -> Blob] /\ version' \in [Requests -> Version] /\ entries' \in Seq(Entry)
  BY <1>1, <1>2 DEF DataInvariant, Typed
<1> QED
  BY <1>1, <1>4, <1>5, <1>6, <1>7, CollectFrame

\* The thread in the store disposes of the i-th version of its list.
LEMMA DisposeLists ==
    ASSUME DataInvariant, NEW c \in Clients, pc[c] \in InMap, pc[c] \in HasEntry,
           NEW k \in 1..Len(VersionsOf(c)), ~Dying(entry[c], k),
           version_dispose(VersionsOf(c)[k]), entries' = entries, entry' = entry,
           \A d \in Clients : pc'[d] # "replaced", \A i : i = k => Dying(entry[c], i)',
           \A e \in DOMAIN entries : \A i \in DOMAIN entries[e].versions : Dying(e, i) => Dying(e, i)'
    PROVE  /\ VersionsOf(c)[k] \in Requests /\ version[VersionsOf(c)[k]].live
           /\ Lists'
<1> DEFINE v == VersionsOf(c)[k]
           x == entry[c]
<1>1. /\ x \in DOMAIN entries /\ k \in DOMAIN entries[x].versions /\ entries[x].versions[k] = v
      /\ v \in Requests
  BY OwnList
<1>2. version[v].live
  BY <1>1 DEF DataInvariant, Lists
<1>3. /\ \A u \in Requests : u # v => version'[u] = version[u]
      /\ version'[v].creator = version[v].creator
  BY <1>1, <1>2, DisposeEffect
<1> HIDE DEF v, x
<1>4. ASSUME NEW e \in DOMAIN entries, NEW i \in DOMAIN entries[e].versions
      PROVE  /\ version'[entries[e].versions[i]].creator # Null
             /\ version'[entries[e].versions[i]].live \/ Dying(e, i)'
  <2>1. version[entries[e].versions[i]].creator # Null
    BY DEF DataInvariant, Lists
  <2>2. CASE entries[e].versions[i] = v
    <3>1. e = x /\ i = k
      BY <1>1, <2>2 DEF DataInvariant, Lists
    <3> QED
      BY <1>1, <1>3, <2>1, <2>2, <3>1 DEF x
  <2>3. CASE entries[e].versions[i] # v
    <3>1. entries[e].versions[i] \in Requests
      BY ListElements
    <3>2. version'[entries[e].versions[i]] = version[entries[e].versions[i]]
      BY <1>3, <2>3, <3>1
    <3>3. version[entries[e].versions[i]].live \/ Dying(e, i)
      BY DEF DataInvariant, Lists
    <3> QED
      BY <2>1, <3>2, <3>3
  <2> QED
    BY <2>2, <2>3
<1>5. \A d, e \in DOMAIN entries :
         \A i \in DOMAIN entries[d].versions, j \in DOMAIN entries[e].versions :
             entries[d].versions[i] = entries[e].versions[j] => d = e /\ i = j
  BY DEF DataInvariant, Lists
<1>6. Lists'
  BY <1>4, <1>5 DEF Lists
<1> QED
  BY <1>1, <1>2, <1>6 DEF v

\* A superseded committed version is disposed of.
LEMMA CollectCommittedKeeps ==
    ASSUME DataInvariant, NEW c \in Clients, CollectCommitted(c) PROVE DataInvariant'
<1> DEFINE vs == VersionsOf(c)
           k == pos[c] - 1
           v == vs[k]
<1>1. /\ pc[c] = "collect" /\ pos[c] \in 2..Len(vs) /\ version_dispose(v)
      /\ pc' = [pc EXCEPT ![c] = "relink"]
      /\ UNCHANGED <<mutex, entries, mapLock, n, kind, pos, cur, entry, result, kept>>
  BY DEF CollectCommitted, At, Goto, localVars
<1>2. /\ pc[c] \in InMap /\ pc[c] \in HasEntry /\ pc'[c] = "relink"
      /\ \A d \in Clients : d # c => pc'[d] = pc[d]
  BY <1>1 DEF InMap, HasEntry, DataInvariant, Typed
<1>3. Len(vs) \in Nat
  BY <1>2, OwnList
<1>4. k \in 1..Len(vs)
  BY <1>1, <1>3
<1>5. \A e, i : ~Dying(e, i)
  BY <1>1, <1>2, DyingHere
<1>6. \A i : i = k => Dying(entry[c], i)'
  BY <1>1, <1>2 DEF Dying
<1>7. \A d \in Clients : pc'[d] # "replaced"
  BY <1>2, OthersOutside DEF InMap
<1>8. v \in Requests /\ version[v].live /\ Lists'
  BY <1>1, <1>2, <1>4, <1>5, <1>6, <1>7, DisposeLists
<1>9. PlaceOf(c)'
  <2>1. PlaceOf(c) /\ VersionsOf(c)' = VersionsOf(c)
    BY <1>1 DEF DataInvariant, Places, VersionsOf
  <2> QED
    BY <1>1, <1>2, <2>1 DEF PlaceOf
<1>10. ReferencesAreExact'
  <2>1. \A d \in Clients : (pc'[d] \in HasKey <=> pc[d] \in HasKey)
                            /\ (pc'[d] \in HasValue <=> pc[d] \in HasValue)
    BY <1>1, <1>2 DEF HasKey, HasValue
  <2> QED
    BY <1>1, <1>8, <2>1, DisposeExact
<1> HIDE DEF vs, k, v
<1>11. /\ version' \in [Requests -> Version] /\ blob' \in [Blobs -> Blob]
       /\ \A b \in Blobs : blob'[b].content = blob[b].content /\ (blob[b].refcnt = 0 => blob'[b].refcnt = 0)
       /\ \A r \in Requests : /\ version'[r].creator = version[r].creator
                              /\ version'[r].live => version[r].live
  BY <1>1, <1>8, DisposeEffect
<1>12. /\ pos' \in [Clients -> Int] /\ cur' \in [Clients -> Int \cup Requests \cup {Null}]
       /\ entries' \in Seq(Entry)
  BY <1>1 DEF DataInvariant, Typed
<1> QED
  BY <1>1, <1>8, <1>9, <1>10, <1>11, <1>12, CollectFrame

\* An aborted or a later version is disposed of.
LEMMA DisposeDoomedKeeps ==
    ASSUME DataInvariant, NEW c \in Clients, DisposeDoomed(c) PROVE DataInvariant'
<1> DEFINE vs == VersionsOf(c)
           k == cur[c]
           v == vs[k]
<1>1. /\ pc[c] = "doomed" /\ k <= Len(vs)
      /\ UNCHANGED <<mutex, entries, mapLock, pc, n, kind, pos, entry, result, kept>>
      /\ version_dispose(v) /\ cur' = [cur EXCEPT ![c] = k + 1]
  BY DEF DisposeDoomed, At
<1>2. pc[c] \in InMap /\ pc[c] \in HasEntry /\ pc' = [pc EXCEPT ![c] = "doomed"]
  BY <1>1 DEF InMap, HasEntry, DataInvariant, Typed
<1>3. Len(vs) \in Nat
  BY <1>2, OwnList
<1>4. pos[c] \in 1..Len(vs) /\ k \in pos[c]..(Len(vs) + 1) /\ pos[c] \in Int /\ k \in Int
  <2>1. pos[c] \in 1..Len(vs) /\ k \in pos[c]..(Len(vs) + 1)
    BY <1>1 DEF DataInvariant, Places, PlaceOf
  <2> QED
    BY <1>3, <2>1
<1>5. k \in 1..Len(vs)
  BY <1>1, <1>3, <1>4
<1>6. cur'[c] = k + 1 /\ \A d \in Clients : d # c => cur'[d] = cur[d]
  BY <1>1 DEF DataInvariant, Typed
<1>7. ~Dying(entry[c], k)
  <2>1. k \notin pos[c]..(k - 1)
    BY <1>4
  <2> QED
    BY <1>1, <1>2, <2>1, DyingHere
<1>8. \A i : i = k => Dying(entry[c], i)'
  <2>1. k \in pos[c]..((k + 1) - 1)
    BY <1>4
  <2> QED
    BY <1>1, <1>6, <2>1 DEF Dying
<1>9. \A d \in Clients : pc'[d] # "replaced"
  BY <1>1, <1>2, OthersOutside DEF InMap
<1>10. ASSUME NEW e, NEW i, Dying(e, i) PROVE Dying(e, i)'
  <2>1. entry[c] = e /\ i \in pos[c]..(k - 1)
    BY <1>1, <1>2, <1>10, DyingHere
  <2>2. i \in pos[c]..((k + 1) - 1)
    BY <1>4, <2>1
  <2> QED
    BY <1>1, <1>6, <2>1, <2>2 DEF Dying
<1>11. v \in Requests /\ version[v].live /\ Lists'
  BY <1>1, <1>2, <1>5, <1>7, <1>8, <1>9, <1>10, DisposeLists
<1>12. PlaceOf(c)'
  <2>1. PlaceOf(c) /\ VersionsOf(c)' = VersionsOf(c)
    BY <1>1 DEF DataInvariant, Places, VersionsOf
  <2>2. k + 1 \in pos[c]..(Len(vs) + 1)
    BY <1>3, <1>4, <1>5
  <2> QED
    BY <1>1, <1>6, <2>1, <2>2 DEF PlaceOf
<1>13. ReferencesAreExact'
  BY <1>1, <1>11, DisposeExact
<1> HIDE DEF vs, k, v
<1>14. /\ version' \in [Requests -> Version] /\ blob' \in [Blobs -> Blob]
       /\ \A b \in Blobs : blob'[b].content = blob[b].content /\ (blob[b].refcnt = 0 => blob'[b].refcnt = 0)
       /\ \A r \in Requests : /\ version'[r].creator = version[r].creator
                              /\ version'[r].live => version[r].live
  BY <1>1, <1>11, DisposeEffect
<1>15. /\ pos' \in [Clients -> Int] /\ cur' \in [Clients -> Int \cup Requests \cup {Null}]
       /\ entries' \in Seq(Entry)
  <2>1. k + 1 \in Int \cup Requests \cup {Null}
    BY <1>4
  <2> QED
    BY <1>1, <2>1 DEF DataInvariant, Typed
<1>16. pc[c] = "doomed" /\ UNCHANGED <<mutex, entries, mapLock, n, kind, entry, result, kept>>
  BY <1>1
<1> QED
  BY <1>2, <1>11, <1>12, <1>13, <1>14, <1>15, <1>16, CollectFrame

\* The collected versions are unlinked: what is left of the list is alive.
LEMMA UnlinkLists ==
    ASSUME DataInvariant, NEW c \in Clients, pc[c] \in {"relink", "doomed"},
           NEW vs \in Seq(Requests), NEW k \in Nat, SetVersions(c, vs), version' = version,
           k + Len(vs) <= Len(VersionsOf(c)),
           \A i \in 1..Len(vs) : vs[i] = VersionsOf(c)[k + i] /\ ~Dying(entry[c], k + i),
           \A d \in Clients : pc'[d] # "replaced"
    PROVE  Lists'
<1> DEFINE x == entry[c]
           ws == VersionsOf(c)
<1>1. pc[c] \in InMap /\ pc[c] \in HasEntry
  BY DEF InMap, HasEntry
<1>2. /\ x \in DOMAIN entries /\ entries[x].versions = ws /\ DOMAIN ws = 1..Len(ws) /\ Len(ws) \in Nat
      /\ x \in 1..Len(entries)
  BY <1>1, OwnList
<1>3. /\ DOMAIN entries' = DOMAIN entries /\ entries'[x].versions = vs
      /\ \A e \in DOMAIN entries : e # x => entries'[e] = entries[e]
  BY <1>2, SetVersionsEffect
<1>4. Len(vs) \in Nat /\ DOMAIN vs = 1..Len(vs)
  OBVIOUS
<1>5. \A i \in DOMAIN vs : /\ k + i \in DOMAIN ws /\ vs[i] = ws[k + i] /\ ~Dying(x, k + i)
  BY <1>2, <1>4
<1>6. \A e, i : Dying(e, i) => e = x
  BY <1>1, DyingHere
<1>7. \A e \in DOMAIN entries : \A i \in DOMAIN entries[e].versions :
         /\ version[entries[e].versions[i]].creator # Null
         /\ version[entries[e].versions[i]].live \/ Dying(e, i)
  BY DEF DataInvariant, Lists
<1>8. \A d, e \in DOMAIN entries :
         \A i \in DOMAIN entries[d].versions, j \in DOMAIN entries[e].versions :
             entries[d].versions[i] = entries[e].versions[j] => d = e /\ i = j
  BY DEF DataInvariant, Lists
<1>a. /\ \A i \in DOMAIN ws : version[ws[i]].creator # Null /\ (version[ws[i]].live \/ Dying(x, i))
      /\ \A i, j \in DOMAIN ws : ws[i] = ws[j] => i = j
      /\ \A e \in DOMAIN entries : e # x =>
            \A i \in DOMAIN ws, j \in DOMAIN entries[e].versions : ws[i] # entries[e].versions[j]
  <2> HIDE DEF x, ws
  <2>1. \A i \in DOMAIN ws : version[ws[i]].creator # Null /\ (version[ws[i]].live \/ Dying(x, i))
    BY <1>2, <1>7
  <2>2. \A i, j \in DOMAIN ws : ws[i] = ws[j] => i = j
    BY <1>2, <1>8
  <2>3. \A e \in DOMAIN entries : e # x =>
            \A i \in DOMAIN ws, j \in DOMAIN entries[e].versions : ws[i] # entries[e].versions[j]
    BY <1>2, <1>8
  <2> QED
    BY <2>1, <2>2, <2>3
<1> HIDE DEF x, ws
<1>9. ASSUME NEW e \in DOMAIN entries, NEW i \in DOMAIN entries'[e].versions
      PROVE  /\ version[entries'[e].versions[i]].creator # Null
             /\ version[entries'[e].versions[i]].live
  <2>1. CASE e = x
    BY <1>3, <1>5, <1>a, <2>1
  <2>2. CASE e # x
    BY <1>3, <1>6, <1>7, <2>2
  <2> QED
    BY <2>1, <2>2
<1>10. ASSUME NEW d \in DOMAIN entries, NEW e \in DOMAIN entries,
              NEW i \in DOMAIN entries'[d].versions, NEW j \in DOMAIN entries'[e].versions,
              entries'[d].versions[i] = entries'[e].versions[j]
       PROVE  d = e /\ i = j
  <2>1. CASE d = x /\ e = x
    <3>1. i \in 1..Len(vs) /\ j \in 1..Len(vs) /\ ws[k + i] = ws[k + j]
          /\ k + i \in DOMAIN ws /\ k + j \in DOMAIN ws
      BY <1>3, <1>4, <1>5, <1>10, <2>1
    <3>2. k + i = k + j
      BY <1>a, <3>1
    <3> QED
      BY <1>4, <2>1, <3>1, <3>2
  <2>2. CASE d = x /\ e # x
    BY <1>3, <1>5, <1>10, <1>a, <2>2
  <2>3. CASE d # x /\ e = x
    BY <1>3, <1>5, <1>10, <1>a, <2>3
  <2>4. CASE d # x /\ e # x
    BY <1>3, <1>8, <1>10, <2>4
  <2> QED
    BY <2>1, <2>2, <2>3, <2>4
<1> QED
  BY <1>3, <1>9, <1>10 DEF Lists

\* The list starts behind the superseded version.
LEMMA RelinkKeeps ==
    ASSUME DataInvariant, NEW c \in Clients, Relink(c) PROVE DataInvariant'
<1> DEFINE ws == VersionsOf(c)
           vs == SubSeq(ws, pos[c], Len(ws))
           k == pos[c] - 1
<1>1. /\ pc[c] = "relink" /\ SetVersions(c, vs)
      /\ pos' = [pos EXCEPT ![c] = 2] /\ pc' = [pc EXCEPT ![c] = "collect"]
      /\ UNCHANGED <<blob, mutex, version, mapLock, n, kind, cur, entry, result, kept>>
  BY DEF Relink, At, Goto
<1>2. /\ pc[c] \in InMap /\ pc[c] \in HasEntry /\ pc'[c] = "collect" /\ pos'[c] = 2
      /\ \A d \in Clients : d # c => pc'[d] = pc[d]
  BY <1>1 DEF InMap, HasEntry, DataInvariant, Typed
<1>3. ws \in Seq(Requests) /\ Len(ws) \in Nat /\ entry[c] \in 1..Len(entries)
  BY <1>2, OwnList
<1>4. pos[c] \in 2..Len(ws) /\ n[c] \in 0..Len(Access[c]) /\ n[c] # 0
  BY <1>1 DEF DataInvariant, Places, PlaceOf
<1>s. SetVersions(c, vs)
  BY <1>1
<1> HIDE DEF ws
<1>5. /\ vs \in Seq(Requests) /\ Len(vs) = Len(ws) - k /\ k \in Nat
      /\ \A i \in 1..Len(vs) : vs[i] = ws[k + i]
  <2>1. vs \in Seq(Requests) /\ Len(vs) = Len(ws) - k
    BY <1>3, <1>4
  <2>2. \A i \in 1..Len(vs) : vs[i] = ws[k + i]
    BY <1>3, <1>4
  <2> QED
    BY <1>4, <2>1, <2>2
<1>6. \A i \in 1..Len(vs) : ~Dying(entry[c], k + i)
  <2> SUFFICES ASSUME NEW i \in 1..Len(vs), Dying(entry[c], k + i) PROVE FALSE
    OBVIOUS
  <2>1. k + i = pos[c] - 1
    BY <1>1, <1>2, DyingHere
  <2> QED
    BY <1>5, <2>1
<1>7. \A d \in Clients : pc'[d] # "replaced"
  BY <1>2, OthersOutside DEF InMap
<1> HIDE DEF vs
<1>8. Lists'
  <2>1. k + Len(vs) <= Len(ws)
    BY <1>3, <1>4, <1>5
  <2> HIDE DEF k
  <2> QED
    BY <1>1, <1>5, <1>6, <1>7, <1>s, <2>1, UnlinkLists DEF ws
<1>9. /\ entries' \in Seq(Entry) /\ Len(entries') = Len(entries) /\ DOMAIN entries' = DOMAIN entries
      /\ \A e \in DOMAIN entries : entries'[e].key = entries[e].key
      /\ entries'[entry[c]].versions = vs
  BY <1>3, <1>5, <1>s, SetVersionsEffect
<1>10. PlaceOf(c)'
  <2>1. VersionsOf(c)' = vs
    BY <1>1, <1>9 DEF VersionsOf
  <2>2. 2 \in 1..(Len(vs) + 1)
    BY <1>3, <1>4, <1>5
  <2> QED
    BY <1>1, <1>2, <1>3, <1>4, <1>9, <2>1, <2>2 DEF PlaceOf
<1>11. ReferencesAreExact'
  <2>1. \A d \in Clients : (pc'[d] \in HasKey <=> pc[d] \in HasKey)
                            /\ (pc'[d] \in HasValue <=> pc[d] \in HasValue)
    BY <1>1, <1>2 DEF HasKey, HasValue
  <2> QED
    BY <1>1, <1>9, <2>1, ExactFrame
<1>12. /\ pos' \in [Clients -> Int] /\ cur' \in [Clients -> Int \cup Requests \cup {Null}]
       /\ blob' \in [Blobs -> Blob] /\ version' \in [Requests -> Version]
  BY <1>1 DEF DataInvariant, Typed
<1> QED
  BY <1>1, <1>8, <1>9, <1>10, <1>11, <1>12, CollectFrame

\* The list ends before the aborted version.
LEMMA DoomedEndKeeps ==
    ASSUME DataInvariant, NEW c \in Clients, DoomedEnd(c) PROVE DataInvariant'
<1> DEFINE ws == VersionsOf(c)
           vs == SubSeq(ws, 1, pos[c] - 1)
<1>1. /\ pc[c] = "doomed" /\ SetVersions(c, vs)
      /\ cur' = [cur EXCEPT ![c] = Null] /\ pc' = [pc EXCEPT ![c] = "collect"]
      /\ UNCHANGED <<blob, mutex, version, mapLock, n, kind, pos, entry, result, kept>>
  BY DEF DoomedEnd, At, Goto
<1>2. /\ pc[c] \in InMap /\ pc[c] \in HasEntry /\ pc'[c] = "collect"
      /\ \A d \in Clients : d # c => pc'[d] = pc[d]
  BY <1>1 DEF InMap, HasEntry, DataInvariant, Typed
<1>3. ws \in Seq(Requests) /\ Len(ws) \in Nat /\ entry[c] \in 1..Len(entries)
  BY <1>2, OwnList
<1>4. pos[c] \in 1..Len(ws) /\ n[c] \in 0..Len(Access[c]) /\ n[c] # 0
  BY <1>1 DEF DataInvariant, Places, PlaceOf
<1>s. SetVersions(c, vs)
  BY <1>1
<1> HIDE DEF ws
<1>5. /\ vs \in Seq(Requests) /\ Len(vs) = pos[c] - 1
      /\ \A i \in 1..Len(vs) : vs[i] = ws[0 + i]
  <2>1. vs \in Seq(Requests) /\ Len(vs) = pos[c] - 1
    BY <1>3, <1>4
  <2>2. \A i \in 1..Len(vs) : vs[i] = ws[0 + i]
    BY <1>3, <1>4
  <2> QED
    BY <2>1, <2>2
<1>6. \A i \in 1..Len(vs) : ~Dying(entry[c], 0 + i)
  <2> SUFFICES ASSUME NEW i \in 1..Len(vs), Dying(entry[c], 0 + i) PROVE FALSE
    OBVIOUS
  <2>1. 0 + i \in pos[c]..(cur[c] - 1)
    BY <1>1, <1>2, DyingHere
  <2>2. 0 + i >= pos[c]
    BY <2>1
  <2> QED
    BY <1>4, <1>5, <2>2
<1>7. \A d \in Clients : pc'[d] # "replaced"
  BY <1>2, OthersOutside DEF InMap
<1> HIDE DEF vs
<1>8. Lists'
  <2> DEFINE k == 0
  <2>1. k \in Nat /\ k + Len(vs) <= Len(ws)
    BY <1>3, <1>4, <1>5
  <2>2. \A i \in 1..Len(vs) : vs[i] = ws[k + i] /\ ~Dying(entry[c], k + i)
    BY <1>5, <1>6
  <2> HIDE DEF k
  <2> QED
    BY <1>1, <1>5, <1>7, <1>s, <2>1, <2>2, UnlinkLists DEF ws
<1>9. /\ entries' \in Seq(Entry) /\ Len(entries') = Len(entries) /\ DOMAIN entries' = DOMAIN entries
      /\ \A e \in DOMAIN entries : entries'[e].key = entries[e].key
      /\ entries'[entry[c]].versions = vs
  BY <1>3, <1>5, <1>s, SetVersionsEffect
<1>10. PlaceOf(c)'
  <2>1. VersionsOf(c)' = vs
    BY <1>1, <1>9 DEF VersionsOf
  <2>2. pos[c] \in 1..(Len(vs) + 1)
    BY <1>3, <1>4, <1>5
  <2> QED
    BY <1>1, <1>2, <1>3, <1>4, <1>9, <2>1, <2>2 DEF PlaceOf
<1>11. ReferencesAreExact'
  <2>1. \A d \in Clients : (pc'[d] \in HasKey <=> pc[d] \in HasKey)
                            /\ (pc'[d] \in HasValue <=> pc[d] \in HasValue)
    BY <1>1, <1>2 DEF HasKey, HasValue
  <2> QED
    BY <1>1, <1>9, <2>1, ExactFrame
<1>12. /\ pos' \in [Clients -> Int] /\ cur' \in [Clients -> Int \cup Requests \cup {Null}]
       /\ blob' \in [Blobs -> Blob] /\ version' \in [Requests -> Version]
  BY <1>1 DEF DataInvariant, Typed
<1> QED
  BY <1>1, <1>8, <1>9, <1>10, <1>11, <1>12, CollectFrame

-----------------------------------------------------------------------------
(* The version of a request takes its place, and the thread leaves.        *)

\* What the steps that end a request in the store have in common.
LEMMA PlaceFrame ==
    ASSUME DataInvariant, NEW c \in Clients, pc[c] \in {"collect", "replaced"},
           NEW l \in {"replaced", "unlock"}, pc' = [pc EXCEPT ![c] = l],
           UNCHANGED <<mutex, mapLock, n, kind, pos, entry>>,
           cur' \in [Clients -> Int \cup Requests \cup {Null}], result' \in [Clients -> Blobs \cup {Null}],
           kept' \in [Blobs -> Nat],
           blob' \in [Blobs -> Blob], version' \in [Requests -> Version], entries' \in Seq(Entry),
           DOMAIN entries' = DOMAIN entries, Len(entries') = Len(entries),
           \A e \in DOMAIN entries : entries'[e].key = entries[e].key,
           \A b \in Blobs : blob'[b].content = blob[b].content,
           Results', Creation', Lists', ReferencesAreExact'
    PROVE  DataInvariant'
<1>2. pc[c] \in InMap /\ l \in InMap /\ l \in Labels /\ l \notin HasKey /\ pc[c] \in HasEntry
  BY DEF InMap, Labels, HasKey, HasEntry
<1>3. pc'[c] = l /\ \A d \in Clients : d # c => pc'[d] = pc[d]
  BY DEF DataInvariant, Typed
<1>4. Typed'
  BY <1>2 DEF DataInvariant, Typed
<1>5. Locking'
  <2>1. \A d \in Clients : pc'[d] \in InMap <=> pc[d] \in InMap
    BY <1>2, <1>3
  <2> QED
    BY <2>1, LockingFrame
<1>6. Places'
  <2>1. n[c] \in 0..Len(Access[c]) /\ n[c] # 0 /\ entry[c] \in 1..Len(entries)
    BY <1>2 DEF DataInvariant, Places, PlaceOf
  <2>2. PlaceOf(c)'
    BY <1>3, <2>1 DEF PlaceOf
  <2> QED
    BY <1>2, <1>3, <2>2, PlacesFrame
<1>7. Mutexes'
  BY <1>2, MutexesFrame
<1>8. Keys'
  BY <1>2, <1>3, KeysFrame
<1> QED
  BY <1>4, <1>5, <1>6, <1>7, <1>8 DEF DataInvariant

\* add_version refuses an outdated transaction.
LEMMA PlaceConflictKeeps ==
    ASSUME DataInvariant, NEW c \in Clients, PlaceConflict(c) PROVE DataInvariant'
<1> DEFINE V == ValueOf(c)
<1>1. /\ pc[c] = "collect" /\ pc' = [pc EXCEPT ![c] = "unlock"]
      /\ kept' = IF kind[c] = "PUT" THEN [kept EXCEPT ![V] = kept[V] + 1] ELSE kept
      /\ UNCHANGED <<blob, mutex, version, entries, mapLock, n, kind, pos, cur, entry, result>>
  BY DEF PlaceConflict, Collected, At, Goto, storeVars, localVars
<1>2. /\ pc[c] \in InMap /\ pc'[c] = "unlock" /\ \A d \in Clients : d # c => pc'[d] = pc[d]
      /\ V \in Blobs
  BY <1>1, OwnObjects DEF InMap, DataInvariant, Typed
<1>3. /\ kept' \in [Blobs -> Nat]
      /\ \A b \in Blobs : kept'[b] = IF b = V /\ kind[c] = "PUT" THEN kept[b] + 1 ELSE kept[b]
      /\ \A b \in Blobs : kept[b] \in Nat
  <2>1. kept \in [Blobs -> Nat] /\ kept[V] + 1 \in Nat
    BY <1>2 DEF DataInvariant, Typed
  <2> HIDE DEF V
  <2> QED
    BY <1>1, <1>2, <2>1
<1>4. Results'
  <2>1. \A b \in Blobs : kept'[b] >= kept[b]
    BY <1>3
  <2> QED
    BY <1>1, <1>2, <1>3, <2>1, ResultsFrame
<1>5. Creation'
  <2>1. \A d \in Clients : pc'[d] \in HasValue => pc[d] \in HasValue
    BY <1>1, <1>2 DEF HasValue
  <2> QED
    BY <1>1, <2>1, CreationFrame
<1>6. Lists'
  BY <1>1, <1>2, ListsFrame
<1>7. ReferencesAreExact'
  <2> SUFFICES ASSUME NEW b \in Blobs PROVE ExactAt(b)'
    BY ExactEverywhereNext
  <2>1. /\ b = V /\ kind[c] = "PUT" => ValueHand(b) = 1
        /\ ValueHand(b)' = IF b = V /\ kind[c] = "PUT" THEN 0 ELSE ValueHand(b)
        /\ KeyHand(b)' = KeyHand(b)
    BY <1>1, <1>2, ValueGiven
  <2> HIDE DEF V
  <2>2. blob[b].refcnt \in Nat /\ (blob[b].live <=> blob[b].refcnt > 0) /\ kept[b] \in Nat
        /\ KeysOn(entries, b) \in Nat /\ VersionsOn(version, b) \in Nat
        /\ KeyHand(b) \in Int /\ ValueHand(b) \in Int
    BY Counts
  <2>3. 0 = (kept'[b] - kept[b]) + (KeyHand(b)' - KeyHand(b)) + (ValueHand(b)' - ValueHand(b))
            + (KeysOn(entries, b) - KeysOn(entries, b)) + (VersionsOn(version, b) - VersionsOn(version, b))
    BY <1>3, <2>1, <2>2
  <2>4. blob'[b].refcnt - blob[b].refcnt = 0 /\ blob' = blob /\ entries' = entries /\ version' = version
    BY <1>1, <2>2
  <2>5. kept'[b] \in Nat /\ entries' \in Seq(Entry)
    BY <1>3, <2>4 DEF DataInvariant, Typed
  <2> QED
    BY <2>2, <2>3, <2>4, <2>5, ExactNext
<1>8. /\ cur' \in [Clients -> Int \cup Requests \cup {Null}] /\ result' \in [Clients -> Blobs \cup {Null}]
      /\ blob' \in [Blobs -> Blob] /\ version' \in [Requests -> Version] /\ entries' \in Seq(Entry)
  BY <1>1 DEF DataInvariant, Typed
<1> QED
  BY <1>1, <1>3, <1>4, <1>5, <1>6, <1>7, <1>8, PlaceFrame

\* The version that add_version replaced is disposed of.
LEMMA DisposeReplacedKeeps ==
    ASSUME DataInvariant, NEW c \in Clients, DisposeReplaced(c) PROVE DataInvariant'
<1> DEFINE v == cur[c]
<1>1. /\ pc[c] = "replaced" /\ version_dispose(v)
      /\ cur' = [cur EXCEPT ![c] = Null] /\ pc' = [pc EXCEPT ![c] = "unlock"]
      /\ UNCHANGED <<mutex, entries, mapLock, n, kind, pos, entry, result, kept>>
  BY DEF DisposeReplaced, At, Goto
<1>2. pc[c] \in InMap /\ pc'[c] = "unlock" /\ \A d \in Clients : d # c => pc'[d] = pc[d]
  BY <1>1 DEF InMap, DataInvariant, Typed
<1>3. /\ v \in Requests /\ version[v].live /\ v # Request(c)
      /\ \A e \in DOMAIN entries : \A i \in DOMAIN entries[e].versions : entries[e].versions[i] # v
  BY <1>1 DEF DataInvariant, Lists
<1>4. ReferencesAreExact'
  <2>1. \A d \in Clients : (pc'[d] \in HasKey <=> pc[d] \in HasKey)
                            /\ (pc'[d] \in HasValue <=> pc[d] \in HasValue)
    BY <1>1, <1>2 DEF HasKey, HasValue
  <2> QED
    BY <1>1, <1>3, <2>1, DisposeExact
<1> HIDE DEF v
<1>5. /\ version' \in [Requests -> Version] /\ blob' \in [Blobs -> Blob]
      /\ \A u \in Requests : u # v => version'[u] = version[u]
      /\ \A b \in Blobs : blob'[b].content = blob[b].content /\ (blob[b].refcnt = 0 => blob'[b].refcnt = 0)
      /\ \A r \in Requests : /\ version'[r].creator = version[r].creator
                             /\ version'[r].live => version[r].live
  BY <1>1, <1>3, DisposeEffect
<1>6. Results'
  <2> SUFFICES ASSUME NEW d \in Clients, result[d] # Null
               PROVE  \/ /\ pc'[d] \in {"replaced", "unlock"}
                         /\ version'[Request(d)].live /\ version'[Request(d)].blob = result[d]
                      \/ pc'[d] = "reply" /\ n'[d] # 0 /\ kept[result[d]] > 0
    BY <1>1 DEF Results, Request
  <2>1. \/ /\ pc[d] \in {"replaced", "unlock"}
           /\ version[Request(d)].live /\ version[Request(d)].blob = result[d]
        \/ pc[d] = "reply" /\ n[d] # 0 /\ kept[result[d]] > 0
    BY DEF DataInvariant, Results
  <2>2. CASE d = c
    <3>1. Request(c) \in Requests
      BY <1>1, OwnObjects
    <3>2. version'[Request(c)] = version[Request(c)]
      BY <1>3, <1>5, <3>1
    <3> QED
      BY <1>1, <1>2, <2>1, <2>2, <3>2
  <2>3. CASE d # c
    <3>1. pc[d] \notin InMap /\ pc'[d] = pc[d]
      BY <1>2, <2>3, OthersOutside
    <3> QED
      BY <1>1, <2>1, <3>1 DEF InMap
  <2> QED
    BY <2>2, <2>3
<1>7. Creation'
  <2>1. \A d \in Clients : pc'[d] \in HasValue => pc[d] \in HasValue
    BY <1>2 DEF HasValue
  <2> QED
    BY <1>1, <1>5, <2>1, CreationFrame
<1>8. Lists'
  <2>1. \A d \in Clients : pc'[d] # "replaced"
    BY <1>2, OthersOutside DEF InMap
  <2>2. ASSUME NEW e \in DOMAIN entries, NEW i \in DOMAIN entries[e].versions
        PROVE  version'[entries[e].versions[i]].live /\ version'[entries[e].versions[i]].creator # Null
    <3>1. entries[e].versions[i] \in Requests
      BY ListElements
    <3>2. version'[entries[e].versions[i]] = version[entries[e].versions[i]]
      BY <1>3, <1>5, <3>1
    <3> QED
      BY <1>1, <1>2, <3>2, ListsAlive DEF DataInvariant, Lists
  <2>3. \A d, e \in DOMAIN entries :
           \A i \in DOMAIN entries[d].versions, j \in DOMAIN entries[e].versions :
               entries[d].versions[i] = entries[e].versions[j] => d = e /\ i = j
    BY DEF DataInvariant, Lists
  <2> QED
    BY <1>1, <2>1, <2>2, <2>3 DEF Lists
<1>9. /\ cur' \in [Clients -> Int \cup Requests \cup {Null}] /\ result' \in [Clients -> Blobs \cup {Null}]
      /\ kept' \in [Blobs -> Nat] /\ entries' \in Seq(Entry)
  BY <1>1 DEF DataInvariant, Typed
<1> QED
  BY <1>1, <1>4, <1>5, <1>6, <1>7, <1>8, <1>9, PlaceFrame

\* store_get references its result, and the thread leaves the store.
LEMMA UnlockMapKeeps ==
    ASSUME DataInvariant, NEW c \in Clients, UnlockMap(c) PROVE DataInvariant'
<1> DEFINE B == result[c]
<1>1. /\ pc[c] = "unlock" /\ blob' = blob_ref(blob, B)
      /\ kept' = IF B = Null THEN kept ELSE [kept EXCEPT ![B] = kept[B] + 1]
      /\ mapLock' = Null /\ pos' = [pos EXCEPT ![c] = 0] /\ pc' = [pc EXCEPT ![c] = "reply"]
      /\ UNCHANGED <<mutex, version, entries, n, kind, cur, entry, result>>
  BY DEF UnlockMap, At, Goto
<1>2. /\ pc[c] \in InMap /\ pc'[c] = "reply"
      /\ \A d \in Clients : d # c => pc'[d] = pc[d] /\ pos'[d] = pos[d]
  BY <1>1 DEF InMap, DataInvariant, Typed
<1>3. \A d \in Clients : pc'[d] \notin InMap
  BY <1>2, OthersOutside DEF InMap
<1>o. blob \in [Blobs -> Blob] /\ kept \in [Blobs -> Nat] /\ B \in Blobs \cup {Null}
  BY DEF DataInvariant, Typed
<1>c. \A b \in Blobs : blob[b].refcnt \in Nat /\ (blob[b].live <=> blob[b].refcnt > 0) /\ kept[b] \in Nat
  BY Counts
<1>p. B # Null => blob[B].refcnt > 0
  <2>1. B # Null => version[Request(c)].live /\ version[Request(c)].blob = B
    BY <1>1 DEF DataInvariant, Results
  <2>2. Request(c) \in Requests
    BY <1>1, OwnObjects
  <2> QED
    BY <2>1, <2>2, Alive
<1>4. /\ blob' \in [Blobs -> Blob] /\ kept' \in [Blobs -> Nat]
      /\ \A b \in Blobs : /\ blob'[b].content = blob[b].content /\ blob'[b].live = blob[b].live
                          /\ blob'[b].refcnt = IF b = B THEN blob[b].refcnt + 1 ELSE blob[b].refcnt
                          /\ kept'[b] = IF b = B THEN kept[b] + 1 ELSE kept[b]
  <2> HIDE DEF B
  <2>1. CASE B = Null
    <3>1. blob' = blob /\ kept' = kept
      BY <1>1, <2>1 DEF blob_ref
    <3>2. \A b \in Blobs : b # B
      BY <2>1, NullAssumption
    <3> QED
      BY <1>o, <3>1, <3>2
  <2>2. CASE B # Null
    <3>1. B \in Blobs
      BY <1>o, <2>2
    <3>2. /\ blob' \in [Blobs -> Blob]
          /\ blob'[B].refcnt = blob[B].refcnt + 1 /\ blob'[B].live = blob[B].live
          /\ blob'[B].content = blob[B].content
          /\ \A a \in Blobs : a # B => blob'[a] = blob[a]
      BY <1>1, <1>o, <3>1, RefEffect
    <3>3. kept[B] + 1 \in Nat
      BY <1>c, <3>1
    <3>4. kept' \in [Blobs -> Nat] /\ \A b \in Blobs : kept'[b] = IF b = B THEN kept[b] + 1 ELSE kept[b]
      BY <1>1, <1>o, <2>2, <3>1, <3>3
    <3> QED
      BY <3>1, <3>2, <3>4
  <2> QED
    BY <2>1, <2>2
<1>5. Typed'
  <2>1. "reply" \in Labels /\ 0 \in Int
    BY DEF Labels
  <2> QED
    BY <1>1, <1>4, <2>1 DEF DataInvariant, Typed
<1>6. Locking'
  BY <1>1, <1>3, NullAssumption DEF Locking
<1>7. Places'
  <2> SUFFICES ASSUME NEW d \in Clients PROVE PlaceOf(d)'
    BY DEF Places
  <2>1. n[d] \in 0..Len(Access[d]) /\ (pc[d] \notin {"recv", "reply", "show", "done"} => n[d] # 0)
    BY DEF DataInvariant, Places, PlaceOf
  <2>2. pc'[d] \notin {"recv", "reply", "show", "done"} => pc[d] \notin {"recv", "reply", "show", "done"}
    BY <1>1, <1>2
  <2> QED
    BY <1>1, <1>3, <2>1, <2>2 DEF PlaceOf, HasEntry, InMap
<1>8. Mutexes'
  BY <1>1, <1>2, MutexesFrame
<1>9. Results'
  <2> SUFFICES ASSUME NEW d \in Clients, result[d] # Null
               PROVE  pc'[d] = "reply" /\ n'[d] # 0 /\ kept'[result[d]] > 0
    BY <1>1 DEF Results
  <2>1. result[d] \in Blobs
    BY DEF DataInvariant, Typed
  <2>2. CASE d = c
    <3>1. n[c] # 0
      BY <1>2 DEF DataInvariant, Places, PlaceOf, InMap
    <3> QED
      BY <1>1, <1>2, <1>4, <1>c, <2>1, <2>2, <3>1
  <2>3. CASE d # c
    <3>1. pc[d] = "reply" /\ n[d] # 0 /\ kept[result[d]] > 0 /\ pc'[d] = pc[d]
      BY <1>2, <2>3, OthersOutside DEF DataInvariant, Results, InMap
    <3>2. kept'[result[d]] >= kept[result[d]] /\ kept'[result[d]] \in Nat /\ kept[result[d]] \in Nat
      <4> HIDE DEF B
      <4> QED
        BY <1>4, <1>c, <2>1
    <3> QED
      BY <1>1, <3>1, <3>2
  <2> QED
    BY <2>2, <2>3
<1>10. Creation'
  <2>1. \A d \in Clients : pc'[d] \in HasValue => pc[d] \in HasValue
    BY <1>2 DEF HasValue
  <2>2. \A b \in Blobs : blob[b].refcnt = 0 => blob'[b].refcnt = 0
    <3> HIDE DEF B
    <3> QED
      BY <1>4, <1>c, <1>p, NullAssumption
  <2> QED
    BY <1>1, <2>1, <2>2, CreationFrame
<1>11. Lists'
  BY <1>1, <1>2, ListsFrame
<1>12. Keys'
  <2>1. \A b \in Blobs : blob'[b].content = blob[b].content
    BY <1>4
  <2>2. pc'[c] \notin HasKey
    BY <1>2 DEF HasKey
  <2> QED
    BY <1>1, <1>2, <2>1, <2>2, KeysFrame
<1>13. ReferencesAreExact'
  <2> SUFFICES ASSUME NEW b \in Blobs PROVE ExactAt(b)'
    BY ExactEverywhereNext
  <2>1. KeyHand(b)' = KeyHand(b) /\ ValueHand(b)' = ValueHand(b)
    <3>1. \A d \in Clients : (pc'[d] \in HasKey <=> pc[d] \in HasKey)
                              /\ (pc'[d] \in HasValue <=> pc[d] \in HasValue)
      BY <1>1, <1>2 DEF HasKey, HasValue
    <3> QED
      BY <1>1, <3>1, HandsFrame
  <2> HIDE DEF B
  <2>2. /\ KeysOn(entries, b) \in Nat /\ VersionsOn(version, b) \in Nat
        /\ KeyHand(b) \in Int /\ ValueHand(b) \in Int
    BY Counts
  <2>3. blob'[b].refcnt - blob[b].refcnt =
            (kept'[b] - kept[b]) + (KeyHand(b)' - KeyHand(b)) + (ValueHand(b)' - ValueHand(b))
            + (KeysOn(entries, b) - KeysOn(entries, b)) + (VersionsOn(version, b) - VersionsOn(version, b))
    <3>1. blob'[b].refcnt - blob[b].refcnt = kept'[b] - kept[b] /\ kept'[b] - kept[b] \in Int
      BY <1>4, <1>c
    <3> QED
      BY <2>1, <2>2, <3>1
  <2>4. blob'[b].live <=> blob'[b].refcnt > 0
    <3>1. b # Null /\ blob[b].refcnt \in Nat /\ (blob[b].live <=> blob[b].refcnt > 0)
      BY <1>c, NullAssumption
    <3>2. blob'[b].live = blob[b].live
          /\ blob'[b].refcnt = IF b = B THEN blob[b].refcnt + 1 ELSE blob[b].refcnt
      BY <1>4
    <3> QED
      BY <1>p, <3>1, <3>2
  <2>5. blob'[b].refcnt \in Int /\ kept'[b] \in Nat /\ entries' \in Seq(Entry)
        /\ entries' = entries /\ version' = version
    <3>1. blob'[b].refcnt \in Int
      BY <1>4 DEF Blob
    <3>2. kept'[b] \in Nat
      BY <1>4
    <3> QED
      BY <1>1, <3>1, <3>2 DEF DataInvariant, Typed
  <2> QED
    BY <2>3, <2>4, <2>5, ExactNext
<1> QED
  BY <1>5, <1>6, <1>7, <1>8, <1>9, <1>10, <1>11, <1>12, <1>13 DEF DataInvariant

\* store_fini: no thread is left, and the table gives back its references.
LEMMA FiniKeeps ==
    ASSUME DataInvariant, Fini PROVE DataInvariant'
<1> DEFINE held(b) == KeysOn(entries, b) + VersionsOn(version, b)
           left(b) == [content |-> blob[b].content, refcnt |-> blob[b].refcnt - held(b),
                       live |-> blob[b].live /\ blob[b].refcnt > held(b), for |-> blob[b].for]
           dead(v) == [version[v] EXCEPT !.live = FALSE]
<1>1. /\ \A c \in Clients : pc[c] = "done"
      /\ version' = [v \in Requests |-> dead(v)] /\ entries' = <<>>
      /\ UNCHANGED <<mutex, mapLock, pc, n, kind, pos, cur, entry, result, kept>>
  BY DEF Fini, At, localVars
<1>2. blob' = [b \in Blobs |-> left(b)]
  BY DEF Fini, KeysOn, EntriesOf, VersionsOn, LiveOf
<1>3. ASSUME NEW b \in Blobs
      PROVE  /\ left(b) \in Blob /\ left(b).refcnt = kept[b] /\ (left(b).live <=> kept[b] > 0)
             /\ kept[b] \in Nat /\ (blob[b].refcnt = 0 => kept[b] = 0)
  <2> DEFINE r == blob[b].refcnt
             h == held(b)
             rest == blob[b].live /\ r > h
  <2>1. KeyHand(b) = 0 /\ ValueHand(b) = 0
    BY <1>1 DEF KeyHand, ValueHand, KeyInHand, ValueInHand
  <2>2. /\ r \in Nat /\ (blob[b].live <=> r > 0) /\ kept[b] \in Nat /\ KeysOn(entries, b) \in Nat
        /\ VersionsOn(version, b) \in Nat /\ r = kept[b] + 0 + 0 + KeysOn(entries, b) + VersionsOn(version, b)
    BY <2>1, Counts
  <2>3. r - h = kept[b] /\ (rest <=> kept[b] > 0) /\ rest \in BOOLEAN /\ h \in Nat /\ (r = 0 => kept[b] = 0)
    BY <2>2
  <2>4. blob[b] \in Blob
    BY DEF DataInvariant, Typed
  <2>5. left(b) = [content |-> blob[b].content, refcnt |-> r - h, live |-> rest, for |-> blob[b].for]
    OBVIOUS
  <2> HIDE DEF rest, h, held, left
  <2>6. r - h \in Int
    BY <2>2, <2>3
  <2>7. left(b) \in Blob
    BY <2>3, <2>4, <2>5, <2>6 DEF Blob
  <2>8. left(b).refcnt = r - h /\ left(b).live = rest
    BY <2>5
  <2> QED
    BY <2>2, <2>3, <2>7, <2>8
<1>4. ASSUME NEW v \in Requests
      PROVE  dead(v) \in Version /\ ~dead(v).live /\ dead(v).creator = version[v].creator
  <2>1. version[v] \in Version
    BY DEF DataInvariant, Typed
  <2> QED
    BY <2>1 DEF Version
<1> HIDE DEF left, dead
<1>5. /\ blob' \in [Blobs -> Blob]
      /\ \A b \in Blobs : blob'[b].refcnt = kept[b] /\ (blob'[b].live <=> kept[b] > 0)
      /\ version' \in [Requests -> Version]
      /\ \A v \in Requests : ~version'[v].live /\ version'[v].creator = version[v].creator
  <2>1. blob' \in [Blobs -> Blob]
    BY <1>2, <1>3
  <2>2. version' \in [Requests -> Version]
    BY <1>1, <1>4
  <2> QED
    BY <1>1, <1>2, <1>3, <1>4, <2>1, <2>2
<1>6. Typed'
  BY <1>1, <1>5 DEF DataInvariant, Typed
<1>7. Locking' /\ Places'
  <2>1. Locking'
    BY <1>1 DEF DataInvariant, Locking
  <2>2. Places'
    BY <1>1 DEF DataInvariant, Places, PlaceOf, HasEntry
  <2> QED
    BY <2>1, <2>2
<1>8. Mutexes'
  <2> SUFFICES ASSUME NEW b \in Blobs PROVE mutex[b] = Null
    BY <1>1 DEF Mutexes
  <2>1. mutex[b] \in Clients \cup {Null}
    BY DEF DataInvariant, Typed
  <2> QED
    BY <1>1, <2>1 DEF DataInvariant, Mutexes
<1>9. Results'
  BY <1>1 DEF DataInvariant, Results
<1>10. Creation'
  <2>1. \A b \in Blobs : blob[b].refcnt = 0 => blob'[b].refcnt = 0
    BY <1>3, <1>5
  <2> QED
    BY <1>1, <1>5, <2>1, CreationFrame
<1>11. Lists' /\ Keys'
  BY <1>1 DEF Lists, Keys, OneEntryPerKey, HasKey
<1>12. ReferencesAreExact'
  <2> SUFFICES ASSUME NEW b \in Blobs PROVE ExactAt(b)'
    BY ExactEverywhereNext
  <2>1. EntriesOf(entries', b) = {} /\ LiveOf(version', b) = {}
    BY <1>1, <1>5 DEF EntriesOf, LiveOf
  <2>2. KeysOn(entries', b) = 0 /\ VersionsOn(version', b) = 0
    BY <2>1, FS_EmptySet DEF KeysOn, VersionsOn
  <2>3. KeyHand(b)' = 0 /\ ValueHand(b)' = 0
    BY <1>1 DEF KeyHand, ValueHand, KeyInHand, ValueInHand
  <2>4. kept'[b] = kept[b] /\ kept[b] \in Nat
    BY <1>1, <1>3
  <2> QED
    BY <1>5, <2>2, <2>3, <2>4 DEF ExactAt
<1> QED
  BY <1>6, <1>7, <1>8, <1>9, <1>10, <1>11, <1>12 DEF DataInvariant

\* The new version comes last in its list, behind the first m versions.
LEMMA AppendLists ==
    ASSUME DataInvariant, NEW c \in Clients, pc[c] = "collect",
           NEW R \in Requests, R = Request(c), version[R].creator = Null,
           NEW ws \in Seq(Requests), NEW m \in Nat, m <= Len(VersionsOf(c)), Len(ws) = m + 1,
           \A i \in 1..m : ws[i] = VersionsOf(c)[i], ws[m + 1] = R, SetVersions(c, ws),
           version'[R].creator # Null, version'[R].live,
           \A u \in Requests : u # R => version'[u] = version[u],
           n' = n, \A d \in Clients : d # c => pc'[d] = pc[d],
           pc'[c] = "replaced" => Len(VersionsOf(c)) = m + 1 /\ cur'[c] = VersionsOf(c)[m + 1]
    PROVE  Lists'
<1> DEFINE x == entry[c]
           vs == VersionsOf(c)
<1>1. pc[c] \in InMap /\ pc[c] \in HasEntry
  BY DEF InMap, HasEntry
<1>2. /\ x \in DOMAIN entries /\ entries[x].versions = vs /\ DOMAIN vs = 1..Len(vs) /\ Len(vs) \in Nat
      /\ x \in 1..Len(entries) /\ \A i \in DOMAIN vs : vs[i] \in Requests
  BY <1>1, OwnList
<1>3. /\ DOMAIN entries' = DOMAIN entries /\ entries'[x].versions = ws
      /\ \A e \in DOMAIN entries : e # x => entries'[e] = entries[e]
  BY <1>2, SetVersionsEffect
<1>4. DOMAIN ws = 1..(m + 1)
  OBVIOUS
<1>5. \A e \in DOMAIN entries : \A i \in DOMAIN entries[e].versions :
         /\ version[entries[e].versions[i]].creator # Null /\ version[entries[e].versions[i]].live
         /\ entries[e].versions[i] \in Requests
  BY <1>1, ListsAlive, ListElements DEF DataInvariant, Lists
<1>6. \A e \in DOMAIN entries : \A i \in DOMAIN entries[e].versions :
         /\ entries[e].versions[i] # R
         /\ version'[entries[e].versions[i]] = version[entries[e].versions[i]]
  BY <1>5
<1>7. \A d, e \in DOMAIN entries :
         \A i \in DOMAIN entries[d].versions, j \in DOMAIN entries[e].versions :
             entries[d].versions[i] = entries[e].versions[j] => d = e /\ i = j
  BY DEF DataInvariant, Lists
<1>m. m <= Len(vs) /\ \A i \in 1..m : ws[i] = vs[i]
  OBVIOUS
<1>r. pc'[c] = "replaced" => Len(vs) = m + 1 /\ cur'[c] = vs[m + 1]
  OBVIOUS
<1> HIDE DEF vs
<1>w. \A i \in 1..m : i \in DOMAIN vs /\ ws[i] = vs[i]
  <2>1. \A i \in 1..m : i \in 1..Len(vs)
    BY <1>2, <1>m
  <2> QED
    BY <1>2, <1>m, <2>1
<1>a. /\ \A i, j \in DOMAIN vs : vs[i] = vs[j] => i = j
      /\ \A i \in DOMAIN vs : version'[vs[i]].creator # Null /\ version'[vs[i]].live /\ vs[i] # R
      /\ \A e \in DOMAIN entries : e # x =>
            \A i \in DOMAIN vs, j \in DOMAIN entries[e].versions : vs[i] # entries[e].versions[j]
  <2> HIDE DEF x
  <2>1. \A i, j \in DOMAIN vs : vs[i] = vs[j] => i = j
    BY <1>2, <1>7, SMTT(40)
  <2>2. \A i \in DOMAIN vs : version'[vs[i]].creator # Null /\ version'[vs[i]].live /\ vs[i] # R
    BY <1>2, <1>5, <1>6
  <2>3. \A e \in DOMAIN entries : e # x =>
            \A i \in DOMAIN vs, j \in DOMAIN entries[e].versions : vs[i] # entries[e].versions[j]
    BY <1>2, <1>7
  <2> QED
    BY <2>1, <2>2, <2>3
<1>8. \A i \in DOMAIN ws : i \in 1..m \/ i = m + 1
  BY <1>4
<1> HIDE DEF x
<1>9. ASSUME NEW e \in DOMAIN entries, NEW i \in DOMAIN entries'[e].versions
      PROVE  /\ version'[entries'[e].versions[i]].creator # Null
             /\ version'[entries'[e].versions[i]].live
  <2>1. CASE e = x
    BY <1>3, <1>8, <1>a, <1>w, <2>1
  <2>2. CASE e # x
    BY <1>3, <1>5, <1>6, <2>2
  <2> QED
    BY <2>1, <2>2
<1>b. \A i, j \in DOMAIN ws : ws[i] = ws[j] => i = j
  BY <1>8, <1>a, <1>w
<1>c. \A e \in DOMAIN entries : e # x =>
          \A i \in DOMAIN ws, j \in DOMAIN entries[e].versions : ws[i] # entries[e].versions[j]
  BY <1>6, <1>8, <1>a, <1>w
<1>10. ASSUME NEW d \in DOMAIN entries, NEW e \in DOMAIN entries,
              NEW i \in DOMAIN entries'[d].versions, NEW j \in DOMAIN entries'[e].versions,
              entries'[d].versions[i] = entries'[e].versions[j]
       PROVE  d = e /\ i = j
  <2>1. CASE d = x /\ e = x
    BY <1>3, <1>10, <1>b, <2>1
  <2>2. CASE d = x /\ e # x
    BY <1>3, <1>10, <1>c, <2>2
  <2>3. CASE d # x /\ e = x
    BY <1>3, <1>10, <1>c, <2>3
  <2>4. CASE d # x /\ e # x
    BY <1>3, <1>7, <1>10, <2>4
  <2> QED
    BY <2>1, <2>2, <2>3, <2>4
<1>11. ASSUME NEW d \in Clients, pc'[d] = "replaced"
       PROVE  /\ cur'[d] \in Requests /\ version'[cur'[d]].live /\ cur'[d] # Request(d)'
              /\ \A e \in DOMAIN entries : \A i \in DOMAIN entries'[e].versions :
                    entries'[e].versions[i] # cur'[d]
  <2>1. d = c
    BY <1>1, <1>11, OthersOutside DEF InMap
  <2>2. Len(vs) = m + 1 /\ cur'[d] = vs[m + 1] /\ m + 1 \in DOMAIN vs
    <3>1. Len(vs) = m + 1 /\ cur'[d] = vs[m + 1]
      BY <1>11, <1>r, <2>1
    <3>2. m + 1 \in 1..Len(vs)
      BY <3>1
    <3> QED
      BY <1>2, <3>1, <3>2
  <2>3. Request(d)' = R
    BY <2>1 DEF Request
  <2>4. \A i \in DOMAIN ws : ws[i] # vs[m + 1]
    <3>1. \A i \in 1..m : i # m + 1
      OBVIOUS
    <3> QED
      BY <1>8, <1>a, <1>w, <2>2, <3>1
  <2>5. ASSUME NEW e \in DOMAIN entries, NEW i \in DOMAIN entries'[e].versions
        PROVE  entries'[e].versions[i] # vs[m + 1]
    <3>1. CASE e = x
      BY <1>3, <2>4, <3>1
    <3>2. CASE e # x
      BY <1>3, <1>a, <2>2, <3>2
    <3> QED
      BY <3>1, <3>2
  <2> QED
    BY <1>2, <1>a, <2>2, <2>3, <2>5
<1> QED
  BY <1>3, <1>9, <1>10, <1>11 DEF Lists

\* The previous version, if there is one, is alive; the new one is not there yet.
LEMMA PreviousAlive ==
    ASSUME DataInvariant, NEW c \in Clients, pc[c] = "collect"
    PROVE  /\ Request(c) \in Requests /\ version[Request(c)].creator = Null /\ ~version[Request(c)].live
           /\ Previous(c).blob \in Blobs \cup {Null}
           /\ Previous(c).blob # Null => blob[Previous(c).blob].refcnt > 0
           /\ Previous(c).creator # Null => VersionsOf(c) # <<>>
<1> DEFINE vs == VersionsOf(c)
           R == Request(c)
<1>1. pc[c] \in InMap /\ pc[c] \in HasEntry /\ pc[c] \in HasValue
  BY DEF InMap, HasEntry, HasValue
<1>2. R \in Requests /\ R[1] = c /\ R[2] = n[c]
  BY OwnObjects DEF Request
<1>3. version[R].creator = Null /\ ~version[R].live
  <2>1. ~(n[c] < n[c])
    BY DEF DataInvariant, Typed
  <2> QED
    BY <1>1, <1>2, <2>1 DEF DataInvariant, Creation
<1>4. CASE vs = <<>>
  BY <1>2, <1>3, <1>4 DEF Previous, NoVersion
<1>5. CASE vs # <<>>
  <2>1. /\ vs \in Seq(Requests) /\ Len(vs) \in Nat /\ entry[c] \in DOMAIN entries
        /\ entries[entry[c]].versions = vs
    BY <1>1, OwnList
  <2>2. Len(vs) \in DOMAIN vs /\ Last(vs) = vs[Len(vs)]
    BY <1>5, <2>1 DEF Last
  <2>3. version[Last(vs)].live /\ Last(vs) \in Requests
    BY <1>1, <2>1, <2>2, ListsAlive, ListElements
  <2>4. version[Last(vs)] \in Version
    BY <2>3 DEF DataInvariant, Typed
  <2>5. Previous(c) = version[Last(vs)]
    BY <1>5 DEF Previous
  <2>6. Previous(c).blob \in Blobs \cup {Null}
    BY <2>4, <2>5 DEF Version
  <2>7. Previous(c).blob # Null => blob[Previous(c).blob].refcnt > 0
    BY <2>3, <2>5, Alive
  <2> QED
    BY <1>2, <1>3, <1>5, <2>6, <2>7
<1> QED
  BY <1>4, <1>5

\* add_version adds or replaces a version.
LEMMA PlaceVersionKeeps ==
    ASSUME DataInvariant, NEW c \in Clients, PlaceVersion(c) PROVE DataInvariant'
<1> DEFINE vs == VersionsOf(c)
           R == Request(c)
           V == ValueOf(c)
           put == kind[c] = "PUT"
           B == IF put THEN V ELSE Previous(c).blob
           W == [creator |-> c, blob |-> B, live |-> TRUE]
<1>1. /\ pc[c] = "collect" /\ version' = [version EXCEPT ![R] = W]
      /\ \/ put /\ UNCHANGED <<blob, result>>
         \/ ~put /\ blob' = blob_ref(blob, B) /\ result' = [result EXCEPT ![c] = B]
      /\ UNCHANGED <<mutex, mapLock, n, kind, pos, entry, kept>>
  BY DEF PlaceVersion, Collected, At, version_create
<1>2. \/ /\ Previous(c).creator = c /\ SetVersions(c, Append(Front(vs), R))
         /\ cur' = [cur EXCEPT ![c] = Last(vs)] /\ pc' = [pc EXCEPT ![c] = "replaced"]
      \/ /\ SetVersions(c, Append(vs, R))
         /\ cur' = cur /\ pc' = [pc EXCEPT ![c] = "unlock"]
  BY DEF PlaceVersion, Goto
<1>3. /\ R \in Requests /\ version[R].creator = Null /\ ~version[R].live
      /\ Previous(c).creator # Null => vs # <<>>
  BY <1>1, PreviousAlive
<1>4. B \in Blobs \cup {Null} /\ (~put /\ B # Null => blob[B].refcnt > 0)
  <2>1. V \in Blobs
    BY <1>1, OwnObjects
  <2> QED
    BY <1>1, <2>1, PreviousAlive
<1>5. /\ vs \in Seq(Requests) /\ Len(vs) \in Nat /\ entry[c] \in 1..Len(entries)
      /\ \A i \in 1..Len(vs) : vs[i] \in Requests
  BY <1>1, OwnList DEF HasEntry
<1>6. pc[c] \in InMap /\ pc \in [Clients -> Labels] /\ version \in [Requests -> Version]
  BY <1>1 DEF InMap, DataInvariant, Typed
<1>b. put => B = V
  OBVIOUS
<1>q. c \in Clients /\ c # Null
  BY NullAssumption
<1>rq. R = Request(c) /\ R[1] = c /\ R[2] = n[c] /\ n[c] \in Nat
  BY DEF Request, DataInvariant, Typed
<1> HIDE DEF B, R
\* The list.
<1>7. PICK l \in {"replaced", "unlock"}, ws \in Seq(Requests), m \in Nat :
         /\ pc' = [pc EXCEPT ![c] = l] /\ SetVersions(c, ws)
         /\ m <= Len(vs) /\ Len(ws) = m + 1 /\ ws[m + 1] = R
         /\ \A i \in 1..m : ws[i] = vs[i]
         /\ l = "replaced" => Len(vs) = m + 1 /\ cur' = [cur EXCEPT ![c] = vs[m + 1]]
         /\ l = "unlock" => cur' = cur
  <2>1. CASE /\ Previous(c).creator = c /\ SetVersions(c, Append(Front(vs), R))
             /\ cur' = [cur EXCEPT ![c] = Last(vs)] /\ pc' = [pc EXCEPT ![c] = "replaced"]
    <3> DEFINE us == SubSeq(vs, 1, Len(vs) - 1)
               m == Len(vs) - 1
    <3>1. vs # <<>>
      BY <1>3, <1>q, <2>1
    <3>s. SetVersions(c, Append(us, R)) /\ cur' = [cur EXCEPT ![c] = vs[Len(vs)]]
      BY <2>1 DEF Front, Last
    <3> HIDE DEF vs
    <3>2. m \in Nat /\ Len(vs) = m + 1
      BY <1>5, <3>1
    <3>3. us \in Seq(Requests) /\ Len(us) = m /\ \A i \in 1..m : us[i] = vs[i]
      BY <1>5, <3>2
    <3> HIDE DEF us, m
    <3>4. /\ Append(us, R) \in Seq(Requests) /\ Len(Append(us, R)) = m + 1 /\ Append(us, R)[m + 1] = R
          /\ \A i \in 1..m : Append(us, R)[i] = us[i]
      BY <1>3, <3>2, <3>3
    <3>5. m <= Len(vs) /\ cur' = [cur EXCEPT ![c] = vs[m + 1]]
      BY <3>2, <3>s
    <3>6. \A i \in 1..m : Append(us, R)[i] = vs[i]
      BY <3>3, <3>4
    <3> DEFINE ws == Append(us, R)
    <3>7. ws \in Seq(Requests) /\ Len(ws) = m + 1 /\ ws[m + 1] = R /\ SetVersions(c, ws)
          /\ \A i \in 1..m : ws[i] = vs[i]
      BY <3>4, <3>6, <3>s
    <3> HIDE DEF ws
    <3> QED
      BY <2>1, <3>2, <3>5, <3>7
  <2>2. CASE /\ SetVersions(c, Append(vs, R))
             /\ cur' = cur /\ pc' = [pc EXCEPT ![c] = "unlock"]
    <3> DEFINE ws == Append(vs, R)
               m == Len(vs)
    <3>1. SetVersions(c, ws)
      BY <2>2
    <3> HIDE DEF vs
    <3>2. /\ ws \in Seq(Requests) /\ Len(ws) = m + 1 /\ ws[m + 1] = R
          /\ \A i \in 1..m : ws[i] = vs[i]
      BY <1>3, <1>5
    <3>3. m \in Nat /\ m <= Len(vs)
      BY <1>5
    <3> HIDE DEF ws, m
    <3> QED
      BY <2>2, <3>1, <3>2, <3>3
  <2> QED
    BY <1>2, <2>1, <2>2
<1>8. pc'[c] = l /\ \A d \in Clients : d # c => pc'[d] = pc[d]
  BY <1>6, <1>7
<1>9. /\ entries' \in Seq(Entry) /\ Len(entries') = Len(entries) /\ DOMAIN entries' = DOMAIN entries
      /\ \A e \in DOMAIN entries : entries'[e].key = entries[e].key
  BY <1>5, <1>7, SetVersionsEffect
<1>10. cur' \in [Clients -> Int \cup Requests \cup {Null}]
  <2>1. cur \in [Clients -> Int \cup Requests \cup {Null}]
    BY DEF DataInvariant, Typed
  <2>2. l = "replaced" => vs[m + 1] \in Requests
    BY <1>5, <1>7
  <2> HIDE DEF vs
  <2>3. CASE l = "replaced"
    <3>1. cur' = [cur EXCEPT ![c] = vs[m + 1]]
      BY <1>7, <2>3
    <3> QED
      BY <2>1, <2>2, <2>3, <3>1
  <2>4. CASE l = "unlock"
    BY <1>7, <2>1, <2>4
  <2> QED
    BY <2>3, <2>4
\* The version.
<1>11. /\ version' \in [Requests -> Version]
       /\ version'[R].creator = c /\ version'[R].blob = B /\ version'[R].live
       /\ \A u \in Requests : u # R => version'[u] = version[u]
  <2>1. W \in Version /\ W.creator = c /\ W.blob = B /\ W.live
    BY <1>4 DEF Version
  <2> HIDE DEF W
  <2> QED
    BY <1>1, <1>3, <1>6, <2>1
\* The blob.
<1>c. \A b \in Blobs : blob[b].refcnt \in Nat /\ (blob[b].live <=> blob[b].refcnt > 0)
  BY Counts
<1>12. /\ blob' \in [Blobs -> Blob]
       /\ \A b \in Blobs :
             /\ blob'[b].content = blob[b].content /\ blob'[b].live = blob[b].live
             /\ blob'[b].refcnt = IF ~put /\ b = B THEN blob[b].refcnt + 1 ELSE blob[b].refcnt
  <2>1. blob \in [Blobs -> Blob]
    BY DEF DataInvariant, Typed
  <2>2. CASE put \/ B = Null
    <3>1. blob' = blob
      BY <1>1, <2>2 DEF blob_ref
    <3>2. \A b \in Blobs : ~(~put /\ b = B)
      BY <2>2, NullAssumption
    <3> QED
      BY <2>1, <3>1, <3>2
  <2>3. CASE ~put /\ B # Null
    <3>1. B \in Blobs /\ blob' = blob_ref(blob, B)
      BY <1>1, <1>4, <2>3
    <3>2. /\ blob' \in [Blobs -> Blob]
          /\ blob'[B].refcnt = blob[B].refcnt + 1 /\ blob'[B].live = blob[B].live
          /\ blob'[B].content = blob[B].content
          /\ \A a \in Blobs : a # B => blob'[a] = blob[a]
      BY <2>1, <3>1, RefEffect
    <3> QED
      BY <2>3, <3>1, <3>2
  <2> QED
    BY <2>2, <2>3
<1>13. /\ result' \in [Clients -> Blobs \cup {Null}]
       /\ \A d \in Clients : d # c => result'[d] = result[d]
       /\ result'[c] # Null => result'[c] = B
  <2>1. result \in [Clients -> Blobs \cup {Null}]
    BY DEF DataInvariant, Typed
  <2>2. result[c] = Null
    BY <1>1 DEF DataInvariant, Results
  <2> QED
    BY <1>1, <1>4, <2>1, <2>2
<1>14. Results'
  <2> SUFFICES ASSUME NEW d \in Clients, result'[d] # Null
               PROVE  \/ /\ pc'[d] \in {"replaced", "unlock"}
                         /\ version'[Request(d)].live /\ version'[Request(d)].blob = result'[d]
                      \/ pc'[d] = "reply" /\ n'[d] # 0 /\ kept[result'[d]] > 0
    BY <1>1 DEF Results, Request
  <2>1. CASE d = c
    BY <1>8, <1>11, <1>13, <1>rq, <2>1
  <2>2. CASE d # c
    BY <1>1, <1>6, <1>8, <1>13, <2>2, OthersOutside DEF DataInvariant, Results, InMap
  <2> QED
    BY <2>1, <2>2
<1>15. Creation'
  <2> SUFFICES ASSUME NEW r \in Requests
               PROVE  /\ version'[r].live => version'[r].creator # Null
                      /\ version'[r].creator # Null =>
                            \/ r[2] < n[r[1]]
                            \/ r[2] = n[r[1]] /\ pc'[r[1]] \notin HasValue
                      /\ n[r[1]] < r[2] => blob'[<<r, "key">>].refcnt = 0 /\ blob'[<<r, "value">>].refcnt = 0
    BY <1>1 DEF Creation
  <2>1. /\ version[r].live => version[r].creator # Null
        /\ version[r].creator # Null =>
              \/ r[2] < n[r[1]]
              \/ r[2] = n[r[1]] /\ pc[r[1]] \notin HasValue
        /\ n[r[1]] < r[2] => blob[<<r, "key">>].refcnt = 0 /\ blob[<<r, "value">>].refcnt = 0
    BY DEF DataInvariant, Creation
  <2>2. r[1] \in Clients
    BY RequestParts
  <2>3. <<r, "key">> \in Blobs /\ <<r, "value">> \in Blobs
    BY DEF Blobs
  <2>4. \A b \in Blobs : blob[b].refcnt = 0 => blob'[b].refcnt = 0
    BY <1>4, <1>12, <1>c, NullAssumption
  <2>5. pc'[c] \notin HasValue
    BY <1>8 DEF HasValue
  <2>6. CASE r = R
    BY <1>11, <1>q, <1>rq, <2>1, <2>3, <2>4, <2>5, <2>6
  <2>7. CASE r # R
    BY <1>8, <1>11, <2>1, <2>2, <2>3, <2>4, <2>5, <2>7
  <2> QED
    BY <2>6, <2>7
<1>16. Lists'
  <2>1. pc'[c] = "replaced" => Len(vs) = m + 1 /\ cur'[c] = vs[m + 1]
    <3> SUFFICES ASSUME l = "replaced" PROVE Len(vs) = m + 1 /\ cur'[c] = vs[m + 1]
      BY <1>8
    <3>1. cur \in [Clients -> Int \cup Requests \cup {Null}]
      BY DEF DataInvariant, Typed
    <3> QED
      BY <1>7, <3>1
  <2>2. version'[R].creator # Null
    BY <1>11, <1>q
  <2> QED
    BY <1>1, <1>3, <1>7, <1>8, <1>11, <1>rq, <2>1, <2>2, AppendLists
<1>17. ReferencesAreExact'
  <2> SUFFICES ASSUME NEW b \in Blobs PROVE ExactAt(b)'
    BY ExactEverywhereNext
  <2>1. /\ b = V /\ put => ValueHand(b) = 1
        /\ ValueHand(b)' = IF b = V /\ put THEN 0 ELSE ValueHand(b)
        /\ KeyHand(b)' = KeyHand(b)
    BY <1>1, <1>8, ValueGiven
  <2> HIDE DEF V, put, vs
  <2>2. blob[b].refcnt \in Nat /\ (blob[b].live <=> blob[b].refcnt > 0) /\ kept[b] \in Nat
        /\ KeysOn(entries, b) \in Nat /\ VersionsOn(version, b) \in Nat
        /\ KeyHand(b) \in Int /\ ValueHand(b) \in Int
    BY Counts
  <2>3. VersionsOn(version', b) = IF B = b THEN VersionsOn(version, b) + 1 ELSE VersionsOn(version, b)
    <3>1. VersionsOn(version', b) =
              IF version'[R].blob = b THEN VersionsOn(version, b) + 1 ELSE VersionsOn(version, b)
      BY <1>3, <1>11, VersionsOnAdd
    <3> QED
      BY <1>11, <3>1
  <2>4. KeysOn(entries', b) = KeysOn(entries, b)
    BY <1>9, KeysOnSame
  <2>5. blob'[b].refcnt - blob[b].refcnt =
            (kept[b] - kept[b]) + (KeyHand(b)' - KeyHand(b)) + (ValueHand(b)' - ValueHand(b))
            + (KeysOn(entries', b) - KeysOn(entries, b))
            + (VersionsOn(version', b) - VersionsOn(version, b))
    <3>1. blob'[b].refcnt - blob[b].refcnt = IF ~put /\ b = B THEN 1 ELSE 0
      BY <1>12, <2>2
    <3>2. ValueHand(b)' - ValueHand(b) = IF put /\ b = V THEN -1 ELSE 0
      BY <2>1, <2>2
    <3>3. VersionsOn(version', b) - VersionsOn(version, b) = IF b = B THEN 1 ELSE 0
      BY <2>2, <2>3
    <3>4. KeyHand(b)' - KeyHand(b) = 0 /\ kept[b] - kept[b] = 0 /\ KeysOn(entries', b) - KeysOn(entries, b) = 0
      BY <2>1, <2>2, <2>4
    <3> QED
      BY <1>b, <3>1, <3>2, <3>3, <3>4
  <2>6. blob'[b].live <=> blob'[b].refcnt > 0
    <3>1. b # Null
      BY NullAssumption
    <3> QED
      BY <1>4, <1>12, <2>2, <3>1
  <2>7. blob'[b].refcnt \in Int /\ kept'[b] \in Nat /\ kept'[b] = kept[b]
    <3>1. blob'[b].refcnt \in Int
      BY <1>12 DEF Blob
    <3> QED
      BY <1>1, <2>2, <3>1
  <2> QED
    BY <1>9, <2>5, <2>6, <2>7, ExactNext
<1>18. kept' \in [Blobs -> Nat] /\ \A b \in Blobs : blob'[b].content = blob[b].content
  BY <1>1, <1>12 DEF DataInvariant, Typed
<1> QED
  BY <1>1, <1>7, <1>9, <1>10, <1>11, <1>12, <1>13, <1>14, <1>15, <1>16, <1>17, <1>18, PlaceFrame

\* A step that leaves the blobs, the table and the threads' places alone.
LEMMA StutterKeeps ==
    ASSUME DataInvariant,
           UNCHANGED <<blob, mutex, version, entries, mapLock, pc, n, kind, pos, cur, entry, result, kept>>
    PROVE  DataInvariant'
<1>1. Typed' /\ Locking' /\ Mutexes'
  BY DEF DataInvariant, Typed, Locking, Mutexes, KeyOf, Request
<1>2. Places' /\ Results' /\ Creation'
  BY DEF DataInvariant, Places, PlaceOf, VersionsOf, Results, Creation, Request
<1>3. Lists' /\ Keys'
  BY DEF DataInvariant, Lists, Dying, Keys, OneEntryPerKey, KeyOf, Request
<1>4. ReferencesAreExact'
  BY ExactFrame
<1> QED
  BY <1>1, <1>2, <1>3, <1>4 DEF DataInvariant

\* Every step keeps the invariant.
LEMMA NextKeeps == DataInvariant /\ [Next]_vars => DataInvariant'
<1> SUFFICES ASSUME DataInvariant, [Next]_vars PROVE DataInvariant'
  OBVIOUS
<1>1. CASE UNCHANGED vars
  BY <1>1, StutterKeeps DEF vars, storeVars, localVars
<1>2. CASE Fini
  BY <1>2, FiniKeeps
<1>3. CASE Halted
  BY <1>3, StutterKeeps DEF Halted, vars, storeVars, localVars
<1>4. ASSUME NEW c \in Clients,
             \/ xacto_get(c) \/ xacto_put(c) \/ NullKey(c) \/ Commit(c) \/ RecvFails(c)
             \/ AbortReads(c) \/ AbortWrites(c)
             \/ StoreStep(c) \/ xacto_reply(c) \/ ShowVersion(c) \/ ShowEntry(c)
      PROVE  DataInvariant'
  <2>1. CASE xacto_get(c)
    BY <2>1, GetKeeps
  <2>2. CASE xacto_put(c)
    BY <2>2, PutKeeps
  <2>3. CASE NullKey(c)
    BY <2>3, StutterKeeps DEF NullKey, storeVars, localVars
  <2>4. CASE Commit(c) \/ RecvFails(c)
    BY <2>4, CommitKeeps, RecvFailsKeeps
  <2>5. CASE AbortReads(c) \/ AbortWrites(c)
    BY <2>5, StutterKeeps DEF AbortReads, AbortWrites, storeVars, localVars
  <2>6. CASE StoreStep(c)
    <3>1. CASE LockMap(c) \/ FindNone(c) \/ FindOther(c)
      BY <3>1, LockMapKeeps, FindNoneKeeps, FindOtherKeeps
    <3>2. CASE CompareFirst(c) \/ CompareSecond(c) \/ Compared(c)
      BY <3>2, CompareFirstKeeps, CompareSecondKeeps, ComparedKeeps
    <3>3. CASE CollectNext(c) \/ CollectCommitted(c) \/ Relink(c) \/ CollectAborted(c)
      BY <3>3, CollectNextKeeps, CollectCommittedKeeps, RelinkKeeps, CollectAbortedKeeps
    <3>4. CASE DisposeDoomed(c) \/ DoomedEnd(c)
      BY <3>4, DisposeDoomedKeeps, DoomedEndKeeps
    <3>6. CASE AbortDoomed(c)
      BY <3>6, StutterKeeps DEF AbortDoomed, storeVars, localVars
    <3>5. CASE PlaceConflict(c) \/ PlaceVersion(c) \/ DisposeReplaced(c) \/ UnlockMap(c)
      BY <3>5, PlaceConflictKeeps, PlaceVersionKeeps, DisposeReplacedKeeps, UnlockMapKeeps
    <3> QED
      BY <2>6, <3>1, <3>2, <3>3, <3>4, <3>5, <3>6 DEF StoreStep
  <2>7. CASE xacto_reply(c)
    BY <2>7, ReplyKeeps
  <2>8. CASE ShowVersion(c) \/ ShowEntry(c)
    BY <2>8, ShowKeeps
  <2> QED
    BY <1>4, <2>1, <2>2, <2>3, <2>4, <2>5, <2>6, <2>7, <2>8
<1> QED
  BY <1>1, <1>2, <1>3, <1>4 DEF Next

-----------------------------------------------------------------------------
(* Theorems.                                                               *)

\* The inductive invariant holds in every state the server can be in.
THEOREM InvariantHolds == Spec => []DataInvariant
<1>1. Init => DataInvariant
  BY InitOK
<1>2. DataInvariant /\ [Next]_vars => DataInvariant'
  BY NextKeeps
<1> QED
  BY <1>1, <1>2, PTL DEF Spec

\* blob_ref and blob_unref keep exact counts: a blob has as many references as
\* there are keys, entries, versions and requests that point to it, and those
\* that are never given back, and it is freed exactly when its count reaches
\* zero, for any number of clients, requests and keys.
THEOREM CountsAreExact == Spec => []ReferencesAreExact
<1>1. DataInvariant => ReferencesAreExact
  BY DEF DataInvariant
<1> QED
  BY <1>1, InvariantHolds, PTL

\* A blob's mutex is held only by the thread that has the_map.mutex, and only
\* while the blob is alive: key_compare never deadlocks with another one and
\* never locks freed memory.
THEOREM ComparisonsNeverMeet == Spec => []MutexesAreUnderMapLock
<1>1. DataInvariant => MutexesAreUnderMapLock
  <2> SUFFICES ASSUME DataInvariant, NEW b \in Blobs, mutex[b] # Null
               PROVE  mutex[b] = mapLock /\ blob[b].live
    BY DEF MutexesAreUnderMapLock
  <2> DEFINE c == mutex[b]
  <2>1. /\ c \in Clients
        /\ \/ pc[c] \in {"compare", "compared"} /\ b = entries[pos[c]].key
           \/ pc[c] = "compared" /\ b = KeyOf(c)
    BY DEF DataInvariant, Typed, Mutexes
  <2> HIDE DEF c
  <2>2. mapLock = c
    BY <2>1 DEF DataInvariant, Locking, InMap
  <2>3. pos[c] \in 1..Len(entries)
    BY <2>1 DEF DataInvariant, Places, PlaceOf
  <2>4. pos[c] \in DOMAIN entries
    BY <2>3 DEF DataInvariant, Typed
  <2>5. blob[b].refcnt > 0
    BY <2>1, <2>4, Alive DEF HasKey
  <2> QED
    BY <2>2, <2>5, Counts DEF c
<1> QED
  BY <1>1, InvariantHolds, PTL

\* What store_get returns is alive until xacto_reply has sent it, whoever
\* disposes of the version it came from in the meantime.
THEOREM RepliesAreAlive == Spec => []ReplyIsAlive
<1>1. DataInvariant => ReplyIsAlive
  <2> SUFFICES ASSUME DataInvariant, NEW c \in Clients, result[c] # Null,
                      pc[c] \in {"replaced", "unlock", "reply"}
               PROVE  blob[result[c]].live
    BY DEF ReplyIsAlive
  <2>1. result[c] \in Blobs
    BY DEF DataInvariant, Typed
  <2>2. Request(c) \in Requests
    BY OwnObjects
  <2>3. blob[result[c]].refcnt > 0
    BY <2>1, <2>2, Alive DEF DataInvariant, Results
  <2> QED
    BY <2>1, <2>3, Counts
<1> QED
  BY <1>1, InvariantHolds, PTL

\* find_map_entry and its caller never make a second entry for a key, although
\* key_compare also finds some different keys equal.
THEOREM EntriesHaveTheirOwnKeys == Spec => []OneEntryPerKey
<1>1. DataInvariant => OneEntryPerKey
  BY DEF DataInvariant, Keys
<1> QED
  BY <1>1, InvariantHolds, PTL

-----------------------------------------------------------------------------
(* The values a GET returns.                                              *)

\* What a key and a value say, and what has to agree with the key of a request.
KeyText(c) == blob[KeyOf(c)].content
EntryFits(c) == blob[entries[entry[c]].key].content = KeyText(c)
ValueFits(c) == blob[ValueOf(c)].for = KeyText(c)
VersionFits(e, v) ==
    version[v].live /\ version[v].blob # Null =>
        blob[version[v].blob].for = blob[entries[e].key].content
ResultFits(c) == blob[result[c]].for = KeyText(c)

\* A thread works on the entry of its key, and the versions in an entry have
\* values that were put under the entry's key.
ValuesFit ==
    /\ \A c \in Clients : pc[c] \in HasEntry => EntryFits(c)
    /\ \A c \in Clients : pc[c] \in HasValue /\ kind[c] = "PUT" => ValueFits(c)
    /\ \A e \in DOMAIN entries : \A i \in DOMAIN entries[e].versions :
          VersionFits(e, entries[e].versions[i])
    /\ \A c \in Clients : result[c] # Null => ResultFits(c)

\* No two keys of the clients are equal for key_compare.
KeysAreToldApart == \A x, y \in KeyContents : key_compare(x, y) = 0 => x = y

\* The blobs that have been made keep what is in them.
TextKept ==
    \A b \in Blobs : b[1][2] <= n[b[1][1]] =>
        blob'[b].content = blob[b].content /\ blob'[b].for = blob[b].for

\* A blob that is referenced has been made.
LEMMA Made ==
    ASSUME DataInvariant, NEW b \in Blobs, blob[b].refcnt > 0
    PROVE  b[1][2] <= n[b[1][1]]
<1>1. PICK r \in Requests, t \in {"key", "value"} : b = <<r, t>>
  BY DEF Blobs
<1>2. b[1] = r
  BY <1>1
<1>3. n[r[1]] < r[2] => blob[<<r, t>>].refcnt = 0
  BY DEF DataInvariant, Creation
<1>4. r[1] \in Clients /\ r[2] \in Nat
  BY RequestParts, DataAssumption
<1>5. n[r[1]] \in Nat
  BY <1>4 DEF DataInvariant, Typed
<1>6. ~(n[r[1]] < r[2])
  BY <1>1, <1>3
<1> QED
  BY <1>2, <1>4, <1>5, <1>6

\* The result of a request is referenced until the reply.
LEMMA ResultMade ==
    ASSUME DataInvariant, NEW c \in Clients, result[c] # Null
    PROVE  /\ result[c] \in Blobs /\ blob[result[c]].refcnt > 0
           /\ pc[c] \in {"replaced", "unlock", "reply"}
<1>1. result[c] \in Blobs
  BY DEF DataInvariant, Typed
<1>2. pc[c] \in {"replaced", "unlock", "reply"}
  BY DEF DataInvariant, Results
<1>3. Request(c) \in Requests
  BY OwnObjects
<1> QED
  BY <1>1, <1>2, <1>3, Alive DEF DataInvariant, Results

\* A version that was in entry e before.
StaysIn(e, v) ==
    /\ \E j \in DOMAIN entries[e].versions : entries[e].versions[j] = v
    /\ version'[v].live => version[v].live /\ version'[v].blob = version[v].blob

\* What has to be shown of a step: what is new fits.
LEMMA FitFrame ==
    ASSUME DataInvariant, ValuesFit, TextKept,
           \A e \in DOMAIN entries : e \in DOMAIN entries' => entries'[e].key = entries[e].key,
           \A c \in Clients : pc'[c] \in HasEntry =>
               \/ EntryFits(c)'
               \/ /\ pc[c] \in HasEntry /\ entry'[c] = entry[c] /\ n'[c] = n[c]
                  /\ entry[c] \in DOMAIN entries',
           \A c \in Clients : pc'[c] \in HasValue /\ kind'[c] = "PUT" =>
               \/ ValueFits(c)'
               \/ pc[c] \in HasValue /\ kind[c] = "PUT" /\ n'[c] = n[c],
           \A e \in DOMAIN entries' : \A i \in DOMAIN entries'[e].versions :
               \/ VersionFits(e, entries[e].versions[i])'
               \/ /\ e \in DOMAIN entries
                  /\ StaysIn(e, entries'[e].versions[i]),
           \A c \in Clients : result'[c] # Null =>
               \/ ResultFits(c)'
               \/ result'[c] = result[c] /\ n'[c] = n[c]
    PROVE  ValuesFit'
<1>1. ASSUME NEW c \in Clients, n'[c] = n[c],
             pc[c] \notin {"recv", "reply", "show", "done"} \/ result[c] # Null
      PROVE  /\ KeyOf(c)' = KeyOf(c) /\ ValueOf(c)' = ValueOf(c)
             /\ KeyText(c)' = KeyText(c)
             /\ blob'[ValueOf(c)].for = blob[ValueOf(c)].for
  <2>1. KeyOf(c) \in Blobs /\ ValueOf(c) \in Blobs
    BY <1>1, OwnObjects
  <2>2. /\ KeyOf(c)[1][1] = c /\ KeyOf(c)[1][2] = n[c] /\ ValueOf(c)[1][1] = c /\ ValueOf(c)[1][2] = n[c]
        /\ n[c] \in Nat
    BY DEF KeyOf, ValueOf, Request, DataInvariant, Typed
  <2>3. KeyOf(c)' = KeyOf(c) /\ ValueOf(c)' = ValueOf(c)
    BY <1>1 DEF KeyOf, ValueOf, Request
  <2>4. n[c] <= n[c]
    BY <2>2
  <2> QED
    BY <2>1, <2>2, <2>3, <2>4 DEF TextKept, KeyText
<1>2. \A e \in DOMAIN entries : blob'[entries[e].key].content = blob[entries[e].key].content
  BY Alive, Made DEF TextKept
<1>3. ASSUME NEW c \in Clients, pc'[c] \in HasEntry PROVE EntryFits(c)'
  <2> SUFFICES ASSUME pc[c] \in HasEntry, entry'[c] = entry[c], n'[c] = n[c], entry[c] \in DOMAIN entries'
               PROVE  EntryFits(c)'
    BY <1>3
  <2>1. entry[c] \in DOMAIN entries
    BY OwnList
  <2>2. EntryFits(c)
    BY DEF ValuesFit
  <2>3. KeyText(c)' = KeyText(c)
    BY <1>1 DEF HasEntry
  <2> QED
    BY <1>2, <2>1, <2>2, <2>3 DEF EntryFits
<1>4. ASSUME NEW c \in Clients, pc'[c] \in HasValue, kind'[c] = "PUT" PROVE ValueFits(c)'
  <2> SUFFICES ASSUME pc[c] \in HasValue, kind[c] = "PUT", n'[c] = n[c] PROVE ValueFits(c)'
    BY <1>4
  <2>1. ValueFits(c)
    BY DEF ValuesFit
  <2> QED
    BY <1>1, <2>1 DEF ValueFits, HasValue
<1>5. ASSUME NEW e \in DOMAIN entries', NEW i \in DOMAIN entries'[e].versions
      PROVE  VersionFits(e, entries[e].versions[i])'
  <2> DEFINE v == entries'[e].versions[i]
  <2> SUFFICES ASSUME e \in DOMAIN entries, StaysIn(e, v), version'[v].live, version'[v].blob # Null
               PROVE  blob'[version'[v].blob].for = blob'[entries'[e].key].content
    BY DEF VersionFits
  <2>1. PICK j \in DOMAIN entries[e].versions : entries[e].versions[j] = v
    BY DEF StaysIn
  <2>2. v \in Requests
    BY <2>1, ListElements
  <2>3. version[v].live /\ version'[v].blob = version[v].blob
    BY DEF StaysIn
  <2>4. version[v].blob \in Blobs /\ blob[version[v].blob].refcnt > 0
    BY <2>2, <2>3, Alive
  <2>5. blob[version[v].blob].for = blob[entries[e].key].content
    BY <2>1, <2>3 DEF ValuesFit, VersionFits
  <2> HIDE DEF v
  <2>6. blob'[version[v].blob].for = blob[version[v].blob].for
    BY <2>4, Made DEF TextKept
  <2>7. blob'[entries[e].key].content = blob[entries[e].key].content
    BY <1>2
  <2> QED
    BY <2>3, <2>5, <2>6, <2>7
<1>6. ASSUME NEW c \in Clients, result'[c] # Null PROVE ResultFits(c)'
  <2> SUFFICES ASSUME result'[c] = result[c], n'[c] = n[c] PROVE ResultFits(c)'
    BY <1>6
  <2>1. result[c] # Null
    BY <1>6
  <2>2. /\ result[c] \in Blobs /\ blob[result[c]].refcnt > 0
        /\ ResultFits(c)
    BY <2>1, ResultMade DEF ValuesFit
  <2> QED
    BY <1>1, <2>1, <2>2, Made DEF ResultFits, TextKept
<1> QED
  BY <1>3, <1>4, <1>5, <1>6 DEF ValuesFit

\* Counting a reference does not change what a blob says.
LEMMA RefText ==
    ASSUME DataInvariant, NEW b, blob' = blob_ref(blob, b) \/ blob' = blob_unref(blob, b) \/ blob' = blob
    PROVE  TextKept
<1>1. blob \in [Blobs -> Blob]
  BY DEF DataInvariant, Typed
<1>2. CASE blob' = blob
  BY <1>2 DEF TextKept
<1>3. CASE blob' = [blob EXCEPT ![b].refcnt = @ + 1]
  <2> SUFFICES ASSUME NEW a \in Blobs PROVE blob'[a].content = blob[a].content /\ blob'[a].for = blob[a].for
    BY DEF TextKept
  <2>1. blob[a] \in Blob
    BY <1>1
  <2> QED
    BY <1>1, <1>3, <2>1 DEF Blob
<1>4. CASE blob' = [blob EXCEPT ![b] = [content |-> blob[b].content, refcnt |-> blob[b].refcnt - 1,
                                        live |-> blob[b].refcnt > 1, for |-> blob[b].for]]
  BY <1>1, <1>4 DEF TextKept
<1> QED
  BY <1>2, <1>3, <1>4 DEF blob_ref, blob_unref

\* A step that leaves the table and the requests alone.
LEMMA QuietFits ==
    ASSUME DataInvariant, ValuesFit, TextKept, UNCHANGED <<version, entries, n>>,
           \A c \in Clients : /\ pc'[c] \in HasEntry => pc[c] \in HasEntry /\ entry'[c] = entry[c]
                              /\ pc'[c] \in HasValue => pc[c] \in HasValue /\ kind'[c] = kind[c]
                              /\ result'[c] # Null => result'[c] = result[c]
    PROVE  ValuesFit'
<1>1. \A c \in Clients : pc[c] \in HasEntry => entry[c] \in DOMAIN entries
  BY OwnList
<1>2. \A e \in DOMAIN entries' : \A i \in DOMAIN entries'[e].versions :
         e \in DOMAIN entries /\ StaysIn(e, entries'[e].versions[i])
  BY DEF StaysIn
<1> QED
  BY <1>1, <1>2, FitFrame

\* A step outside of the store.
OutsideStep(c) ==
    \/ NullKey(c) \/ Commit(c) \/ RecvFails(c) \/ AbortReads(c) \/ AbortWrites(c)
    \/ AbortDoomed(c) \/ xacto_reply(c) \/ ShowVersion(c) \/ ShowEntry(c)

LEMMA OutsideFits ==
    ASSUME DataInvariant, ValuesFit, NEW c \in Clients, OutsideStep(c)
    PROVE  ValuesFit'
<1>1. TextKept /\ UNCHANGED <<version, entries, n>>
  BY DEF OutsideStep, NullKey, Commit, RecvFails, AbortReads, AbortWrites, AbortDoomed,
         xacto_reply, ShowVersion, ShowEntry, TextKept, storeVars, localVars
<1>2. /\ \A d \in Clients : d # c => /\ pc'[d] = pc[d] /\ entry'[d] = entry[d]
                                    /\ result'[d] = result[d] /\ kind'[d] = kind[d]
      /\ result'[c] \in {result[c], Null}
      /\ \/ pc'[c] = pc[c] /\ entry'[c] = entry[c] /\ kind'[c] = kind[c]
         \/ pc'[c] \in {"done", "recv", "reply", "show"}
  <2>1. /\ pc \in [Clients -> Labels] /\ entry \in [Clients -> Int]
        /\ result \in [Clients -> Blobs \cup {Null}]
        /\ kind \in [Clients -> {"GET", "PUT", "LAST"}]
    BY DEF DataInvariant, Typed
  <2>2. CASE NullKey(c) \/ AbortReads(c) \/ AbortWrites(c) \/ AbortDoomed(c)
    BY <2>2 DEF NullKey, AbortReads, AbortWrites, AbortDoomed, localVars
  <2>3. CASE Commit(c) \/ RecvFails(c)
    BY <2>1, <2>3 DEF Commit, RecvFails, Goto, localVars
  <2>4. CASE xacto_reply(c)
    BY <2>1, <2>4 DEF xacto_reply, Goto
  <2>5. CASE ShowVersion(c)
    BY <2>5 DEF ShowVersion
  <2>6. CASE ShowEntry(c)
    BY <2>1, <2>6 DEF ShowEntry, Goto, At
  <2> QED
    BY <2>2, <2>3, <2>4, <2>5, <2>6 DEF OutsideStep
<1>3. \A d \in Clients : /\ pc'[d] \in HasEntry => pc[d] \in HasEntry /\ entry'[d] = entry[d]
                         /\ pc'[d] \in HasValue => pc[d] \in HasValue /\ kind'[d] = kind[d]
                         /\ result'[d] # Null => result'[d] = result[d]
  BY <1>2 DEF HasEntry, HasValue
<1> QED
  BY <1>1, <1>3, QuietFits

\* A request arrives with a key and, if it is a PUT, with a value for this key.
LEMMA ArriveFits ==
    ASSUME DataInvariant, ValuesFit, NEW c \in Clients, xacto_get(c) \/ xacto_put(c)
    PROVE  ValuesFit'
<1> DEFINE r == <<c, n[c] + 1>>
           K == <<r, "key">>
           V == <<r, "value">>
<1>1. /\ pc[c] = "recv" /\ n' = [n EXCEPT ![c] = @ + 1] /\ pc' = [pc EXCEPT ![c] = "lock"]
      /\ n[c] < Len(Access[c])
      /\ UNCHANGED <<version, entries, entry, result>>
  BY DEF xacto_get, xacto_put, At, Goto, storeVars
<1>2. /\ pc \in [Clients -> Labels] /\ n \in [Clients -> Nat] /\ kind \in [Clients -> {"GET", "PUT", "LAST"}]
      /\ blob \in [Blobs -> Blob] /\ Len(Access[c]) \in Nat
  BY DataAssumption DEF DataInvariant, Typed
<1>3. /\ pc'[c] = "lock" /\ n'[c] = n[c] + 1
      /\ \A d \in Clients : d # c => pc'[d] = pc[d] /\ n'[d] = n[d] /\ kind'[d] = kind[d]
  <2>1. PICK q \in {"GET", "PUT"} : kind' = [kind EXCEPT ![c] = q]
    BY DEF xacto_get, xacto_put
  <2> QED
    BY <1>1, <1>2, <2>1
<1>4. K \in Blobs /\ V \in Blobs /\ K # V /\ KeyOf(c)' = K /\ ValueOf(c)' = V
  <2>1. n[c] + 1 \in 1..Len(Access[c])
    BY <1>1, <1>2
  <2>2. r \in Requests
    BY <2>1, RequestIn
  <2> QED
    BY <1>3, <2>2 DEF Blobs, KeyOf, ValueOf, Request
<1>5. ASSUME NEW b \in Blobs, b[1][2] <= n[b[1][1]] PROVE b # K /\ b # V
  <2> SUFFICES ASSUME b[1] = r PROVE FALSE
    OBVIOUS
  <2>1. n[c] + 1 <= n[c]
    BY <1>5
  <2> QED
    BY <1>2, <2>1
<1>6. /\ \A b \in Blobs : b # K /\ b # V => blob'[b] = blob[b]
      /\ kind'[c] = "PUT" => blob'[V].for = blob'[K].content
  <2> HIDE DEF K, V
  <2>1. CASE xacto_get(c)
    <3>1. PICK k \in Access[c][n[c] + 1] : blob' = blob_create(blob, K, k, Null)
      BY <2>1 DEF xacto_get, K
    <3>2. kind'[c] = "GET"
      BY <1>2, <2>1 DEF xacto_get
    <3> QED
      BY <1>2, <3>1, <3>2 DEF blob_create
  <2>2. CASE xacto_put(c)
    <3>1. PICK k \in Access[c][n[c] + 1], v \in Values :
             blob' = blob_create(blob_create(blob, K, k, Null), V, v, k)
      BY <2>2 DEF xacto_put, K, V
    <3> DEFINE bs == blob_create(blob, K, k, Null)
    <3>2. /\ bs[K].content = k /\ DOMAIN bs = Blobs
          /\ \A b \in Blobs : b # K => bs[b] = blob[b]
      BY <1>2, <1>4 DEF blob_create
    <3> HIDE DEF bs
    <3>3. blob' = blob_create(bs, V, v, k)
      BY <3>1 DEF bs
    <3>4. /\ blob'[V].for = k /\ blob'[K] = bs[K]
          /\ \A b \in Blobs : b # V => blob'[b] = bs[b]
      BY <1>4, <3>2, <3>3 DEF blob_create
    <3> QED
      BY <3>2, <3>4
  <2> QED
    BY <2>1, <2>2
<1>7. TextKept
  <2> HIDE DEF K, V
  <2> QED
    BY <1>5, <1>6 DEF TextKept
<1>8. kind'[c] = "PUT" => ValueFits(c)'
  BY <1>4, <1>6 DEF ValueFits, KeyText
<1>9. \A d \in Clients : pc'[d] \in HasEntry => /\ pc[d] \in HasEntry /\ entry'[d] = entry[d] /\ n'[d] = n[d]
                                                /\ entry[d] \in DOMAIN entries'
  <2>1. \A d \in Clients : pc[d] \in HasEntry => entry[d] \in DOMAIN entries
    BY OwnList
  <2> QED
    BY <1>1, <1>3, <2>1 DEF HasEntry
<1>10. \A d \in Clients : result'[d] # Null => result'[d] = result[d] /\ n'[d] = n[d]
  BY <1>1, <1>3, ResultMade
<1>11. \A e \in DOMAIN entries' : \A i \in DOMAIN entries'[e].versions :
         e \in DOMAIN entries /\ StaysIn(e, entries'[e].versions[i])
  BY <1>1 DEF StaysIn
<1>12. \A d \in Clients : pc'[d] \in HasValue /\ kind'[d] = "PUT" =>
         \/ ValueFits(d)'
         \/ pc[d] \in HasValue /\ kind[d] = "PUT" /\ n'[d] = n[d]
  BY <1>3, <1>8
<1>13. \A e \in DOMAIN entries : e \in DOMAIN entries' => entries'[e].key = entries[e].key
  BY <1>1
<1> HIDE DEF K, V, r
<1> QED
  BY <1>7, <1>9, <1>10, <1>11, <1>12, <1>13, FitFrame

\* Steps of a search that goes on.
LEMMA SearchFits ==
    ASSUME DataInvariant, ValuesFit, NEW c \in Clients,
           \/ LockMap(c) \/ FindOther(c) \/ CompareFirst(c) \/ CompareSecond(c)
           \/ CollectNext(c) \/ CollectAborted(c)
    PROVE  ValuesFit'
<1>1. TextKept /\ UNCHANGED <<version, entries, n, kind, entry, result>>
  BY DEF LockMap, FindOther, CompareFirst, CompareSecond, CollectNext, CollectAborted, TextKept,
         storeVars, localVars
<1>2. /\ \A d \in Clients : d # c => pc'[d] = pc[d]
      /\ \/ pc'[c] = pc[c]
         \/ pc[c] \in HasKey /\ pc'[c] \in HasKey
         \/ pc[c] = "collect" /\ pc'[c] = "doomed"
  <2>1. pc \in [Clients -> Labels]
    BY DEF DataInvariant, Typed
  <2>2. CASE LockMap(c) \/ CompareFirst(c) \/ CompareSecond(c)
    BY <2>1, <2>2 DEF LockMap, CompareFirst, CompareSecond, At, Goto, HasKey
  <2>3. CASE FindOther(c) \/ CollectNext(c)
    BY <2>1, <2>3 DEF FindOther, CollectNext
  <2>4. CASE CollectAborted(c)
    BY <2>1, <2>4 DEF CollectAborted, At, Goto
  <2> QED
    BY <2>2, <2>3, <2>4
<1>3. \A d \in Clients : /\ pc'[d] \in HasEntry => pc[d] \in HasEntry
                         /\ pc'[d] \in HasValue => pc[d] \in HasValue
  BY <1>2 DEF HasEntry, HasValue, HasKey
<1> QED
  BY <1>1, <1>3, QuietFits

\* A step of a thread c in the store that goes on with its entry.
LEMMA OwnFits ==
    ASSUME DataInvariant, ValuesFit, TextKept, NEW c \in Clients, UNCHANGED <<n, kind, entry>>,
           pc[c] \in InMap, \A d \in Clients : d # c => pc'[d] = pc[d] /\ result'[d] = result[d],
           pc[c] \in HasEntry, pc'[c] \in HasValue => pc[c] \in HasValue,
           DOMAIN entries' = DOMAIN entries, \A e \in DOMAIN entries : entries'[e].key = entries[e].key,
           \A e \in DOMAIN entries : \A i \in DOMAIN entries'[e].versions :
               \/ VersionFits(e, entries[e].versions[i])'
               \/ StaysIn(e, entries'[e].versions[i]),
           result'[c] # Null => result'[c] = result[c] \/ ResultFits(c)'
    PROVE  ValuesFit'
<1>1. \A d \in Clients : pc'[d] \in HasEntry => pc[d] \in HasEntry /\ entry[d] \in DOMAIN entries'
  BY OwnList
<1>2. \A d \in Clients : pc'[d] \in HasValue => pc[d] \in HasValue
  OBVIOUS
<1> QED
  BY <1>1, <1>2, FitFrame

\* The new entry has the key of the request.
LEMMA FindNoneFits ==
    ASSUME DataInvariant, ValuesFit, NEW c \in Clients, FindNone(c)
    PROVE  ValuesFit'
<1> DEFINE x == [key |-> KeyOf(c), versions |-> <<>>]
           m == Len(entries) + 1
<1>1. /\ pc[c] = "find" /\ entries' = Append(entries, x) /\ entry' = [entry EXCEPT ![c] = m]
      /\ pc' = [pc EXCEPT ![c] = "collect"]
      /\ UNCHANGED <<blob, version, n, kind, result>>
  BY DEF FindNone, At, Goto
<1>2. /\ pc \in [Clients -> Labels] /\ entry \in [Clients -> Int] /\ entries \in Seq(Entry)
  BY DEF DataInvariant, Typed
<1>3. x \in Entry /\ x.key = KeyOf(c) /\ x.versions = <<>>
  BY <1>1, OwnObjects DEF Entry
<1> HIDE DEF x
<1>4. /\ DOMAIN entries' = DOMAIN entries \cup {m} /\ entries'[m] = x /\ m \notin DOMAIN entries
      /\ \A e \in DOMAIN entries : entries'[e] = entries[e]
  BY <1>1, <1>2, <1>3
<1> HIDE DEF m
<1>5. /\ pc'[c] = "collect" /\ entry'[c] = m /\ KeyOf(c)' = KeyOf(c)
      /\ \A d \in Clients : d # c => pc'[d] = pc[d] /\ entry'[d] = entry[d]
  BY <1>1, <1>2 DEF KeyOf, Request
<1>6. EntryFits(c)'
  BY <1>1, <1>3, <1>4, <1>5 DEF EntryFits, KeyText
<1>7. TextKept
  BY <1>1 DEF TextKept
<1>8. \A d \in Clients : pc'[d] \in HasEntry =>
         \/ EntryFits(d)'
         \/ pc[d] \in HasEntry /\ entry'[d] = entry[d] /\ n'[d] = n[d] /\ entry[d] \in DOMAIN entries'
  BY <1>1, <1>4, <1>5, <1>6, OwnList
<1>9. \A d \in Clients : pc'[d] \in HasValue => pc[d] \in HasValue
  BY <1>1, <1>5 DEF HasValue
<1>10. \A e \in DOMAIN entries' : \A i \in DOMAIN entries'[e].versions :
         e \in DOMAIN entries /\ StaysIn(e, entries'[e].versions[i])
  BY <1>1, <1>3, <1>4 DEF StaysIn
<1> QED
  BY <1>1, <1>4, <1>7, <1>8, <1>9, <1>10, FitFrame

\* A key that compares equal to the key of the request is this key.
LEMMA ComparedFits ==
    ASSUME DataInvariant, ValuesFit, KeysAreToldApart, NEW c \in Clients, Compared(c)
    PROVE  ValuesFit'
<1> DEFINE e == pos[c]
           equal == key_compare(blob[entries[e].key].content, blob[KeyOf(c)].content) = 0
<1>1. /\ pc[c] = "compared" /\ UNCHANGED <<version, entries, n, kind, result>>
      /\ equal => blob' = blob_unref(blob, KeyOf(c)) /\ entry' = [entry EXCEPT ![c] = e]
                  /\ pc' = [pc EXCEPT ![c] = "collect"]
      /\ ~equal => blob' = blob /\ entry' = entry /\ pc' = [pc EXCEPT ![c] = "find"]
  BY DEF Compared, At, Goto, key_dispose
<1>2. /\ pc \in [Clients -> Labels] /\ entry \in [Clients -> Int] /\ entries \in Seq(Entry)
      /\ e \in DOMAIN entries
  BY <1>1 DEF DataInvariant, Typed, Places, PlaceOf
<1>3. TextKept
  BY <1>1, RefText
<1>4. pc[c] \in HasKey /\ pc[c] \in HasValue /\ pc[c] \notin HasEntry
  BY <1>1 DEF HasKey, HasValue, HasEntry
<1>5. CASE ~equal
  <2>1. /\ pc'[c] = "find" /\ \A d \in Clients : d # c => pc'[d] = pc[d]
    BY <1>1, <1>2, <1>5
  <2>2. \A d \in Clients : /\ pc'[d] \in HasEntry => pc[d] \in HasEntry
                           /\ pc'[d] \in HasValue => pc[d] \in HasValue
    BY <1>4, <2>1 DEF HasEntry
  <2> QED
    BY <1>1, <1>3, <1>5, <2>2, QuietFits
<1>6. CASE equal
  <2>1. blob[entries[e].key].content \in KeyContents /\ blob[KeyOf(c)].content \in KeyContents
    BY <1>2, <1>4 DEF DataInvariant, Keys
  <2>2. blob[entries[e].key].content = blob[KeyOf(c)].content
    BY <1>6, <2>1 DEF KeysAreToldApart
  <2>3. /\ blob'[entries[e].key].content = blob[entries[e].key].content
        /\ blob'[KeyOf(c)].content = blob[KeyOf(c)].content
    BY <1>2, <1>3, <1>4, Alive, Made DEF TextKept
  <2> HIDE DEF equal
  <2>4. /\ pc'[c] = "collect" /\ entry'[c] = e /\ KeyOf(c)' = KeyOf(c)
        /\ \A d \in Clients : d # c => pc'[d] = pc[d] /\ entry'[d] = entry[d]
    BY <1>1, <1>2, <1>6 DEF KeyOf, Request
  <2>5. EntryFits(c)'
    BY <1>1, <2>2, <2>3, <2>4 DEF EntryFits, KeyText
  <2>6. \A d \in Clients : pc'[d] \in HasEntry =>
           \/ EntryFits(d)'
           \/ pc[d] \in HasEntry /\ entry'[d] = entry[d] /\ n'[d] = n[d] /\ entry[d] \in DOMAIN entries'
    BY <1>1, <2>4, <2>5, OwnList
  <2>7. \A d \in Clients : pc'[d] \in HasValue => pc[d] \in HasValue
    BY <1>4, <2>4
  <2>8. \A d \in DOMAIN entries' : \A i \in DOMAIN entries'[d].versions :
           d \in DOMAIN entries /\ StaysIn(d, entries'[d].versions[i])
    BY <1>1 DEF StaysIn
  <2> QED
    BY <1>1, <1>3, <2>6, <2>7, <2>8, FitFrame
<1> QED
  BY <1>5, <1>6

\* Disposing of a version takes it away.
LEMMA DisposeFits ==
    ASSUME DataInvariant, ValuesFit, NEW c \in Clients,
           CollectCommitted(c) \/ DisposeDoomed(c) \/ DisposeReplaced(c)
    PROVE  ValuesFit'
<1>1. \E v : version_dispose(v)
  BY DEF CollectCommitted, DisposeDoomed, DisposeReplaced
<1>2. TextKept
  BY <1>1, RefText DEF version_dispose
<1>3. \A v \in Requests : version'[v].live => version[v].live /\ version'[v].blob = version[v].blob
  <2>1. ASSUME NEW v, version' = [version EXCEPT ![v].live = FALSE]
        PROVE  \A u \in Requests : version'[u].live => version[u].live /\ version'[u].blob = version[u].blob
    <3> SUFFICES ASSUME NEW u \in Requests
                 PROVE  version'[u].live => version[u].live /\ version'[u].blob = version[u].blob
      OBVIOUS
    <3>1. version \in [Requests -> Version] /\ version[u] \in Version
      BY DEF DataInvariant, Typed
    <3> QED
      BY <2>1, <3>1 DEF Version
  <2> QED
    BY <1>1, <2>1 DEF version_dispose
<1>4. /\ UNCHANGED <<entries, n, kind, entry, result>>
      /\ \A d \in Clients : d # c => pc'[d] = pc[d]
      /\ pc[c] \in HasEntry /\ pc[c] \in InMap /\ (pc'[c] \in HasValue => pc[c] \in HasValue)
  <2>1. pc \in [Clients -> Labels]
    BY DEF DataInvariant, Typed
  <2>2. CASE CollectCommitted(c)
    BY <2>1, <2>2 DEF CollectCommitted, At, Goto, HasEntry, HasValue, InMap, localVars
  <2>3. CASE DisposeDoomed(c)
    BY <2>1, <2>3 DEF DisposeDoomed, At, HasEntry, HasValue, InMap
  <2>4. CASE DisposeReplaced(c)
    BY <2>1, <2>4 DEF DisposeReplaced, At, Goto, HasEntry, HasValue, InMap
  <2> QED
    BY <2>2, <2>3, <2>4
<1>5. \A e \in DOMAIN entries : \A i \in DOMAIN entries'[e].versions : StaysIn(e, entries'[e].versions[i])
  BY <1>3, <1>4, ListElements DEF StaysIn
<1> QED
  BY <1>2, <1>4, <1>5, OwnFits

\* Unlinking takes versions out of the list of the entry.
LEMMA UnlinkFits ==
    ASSUME DataInvariant, ValuesFit, NEW c \in Clients, Relink(c) \/ DoomedEnd(c)
    PROVE  ValuesFit'
<1> DEFINE vs == VersionsOf(c)
<1>1. /\ pc[c] \in {"relink", "doomed"} /\ pc' = [pc EXCEPT ![c] = "collect"]
      /\ UNCHANGED <<blob, version, n, kind, entry, result>>
  BY DEF Relink, DoomedEnd, At, Goto
<1>2. /\ \A d \in Clients : d # c => pc'[d] = pc[d]
      /\ pc[c] \in HasEntry /\ pc[c] \in InMap /\ pc[c] \in HasValue
  BY <1>1 DEF DataInvariant, Typed, HasEntry, HasValue, InMap
<1>3. /\ entry[c] \in 1..Len(entries) /\ vs \in Seq(Requests) /\ Len(vs) \in Nat
      /\ entries[entry[c]].versions = vs /\ DOMAIN vs = 1..Len(vs)
  BY <1>2, OwnList
<1>4. PICK ws \in Seq(Requests) :
         /\ SetVersions(c, ws)
         /\ \A i \in DOMAIN ws : \E j \in DOMAIN vs : vs[j] = ws[i]
  <2>1. CASE Relink(c)
    <3> DEFINE ws == SubSeq(vs, pos[c], Len(vs))
    <3>1. pos[c] \in 2..Len(vs) /\ SetVersions(c, ws)
      BY <2>1 DEF Relink, At, DataInvariant, Places, PlaceOf
    <3> HIDE DEF vs
    <3>2. /\ ws \in Seq(Requests) /\ DOMAIN ws = 1..((Len(vs) - pos[c]) + 1)
          /\ \A i \in 1..((Len(vs) - pos[c]) + 1) : ws[i] = vs[(pos[c] + i) - 1]
      BY <1>3, <3>1
    <3>3. \A i \in DOMAIN ws : (pos[c] + i) - 1 \in DOMAIN vs
      BY <1>3, <3>1, <3>2
    <3> QED
      BY <3>1, <3>2, <3>3
  <2>2. CASE DoomedEnd(c)
    <3> DEFINE ws == SubSeq(vs, 1, pos[c] - 1)
    <3>1. pos[c] \in 1..Len(vs) /\ SetVersions(c, ws)
      BY <2>2 DEF DoomedEnd, At, DataInvariant, Places, PlaceOf
    <3> HIDE DEF vs
    <3>2. /\ ws \in Seq(Requests) /\ DOMAIN ws = 1..(pos[c] - 1)
          /\ \A i \in 1..(pos[c] - 1) : ws[i] = vs[i] /\ i \in DOMAIN vs
      BY <1>3, <3>1
    <3> QED
      BY <3>1, <3>2
  <2> QED
    BY <2>1, <2>2
<1>5. /\ DOMAIN entries' = DOMAIN entries /\ \A e \in DOMAIN entries : entries'[e].key = entries[e].key
      /\ entries'[entry[c]].versions = ws
      /\ \A e \in DOMAIN entries : e # entry[c] => entries'[e] = entries[e]
  BY <1>3, <1>4, SetVersionsEffect
<1>6. \A e \in DOMAIN entries : \A i \in DOMAIN entries'[e].versions : StaysIn(e, entries'[e].versions[i])
  <2> SUFFICES ASSUME NEW e \in DOMAIN entries, NEW i \in DOMAIN entries'[e].versions
               PROVE  \E j \in DOMAIN entries[e].versions : entries[e].versions[j] = entries'[e].versions[i]
    BY <1>1 DEF StaysIn
  <2> HIDE DEF vs
  <2>1. CASE e = entry[c]
    BY <1>3, <1>4, <1>5, <2>1
  <2>2. CASE e # entry[c]
    BY <1>5, <2>2
  <2> QED
    BY <2>1, <2>2
<1>7. TextKept
  BY <1>1 DEF TextKept
<1> QED
  BY <1>1, <1>2, <1>5, <1>6, <1>7, OwnFits

\* A refused version changes no list, and neither does the unlocking.
LEMMA PlaceConflictFits ==
    ASSUME DataInvariant, ValuesFit, NEW c \in Clients, PlaceConflict(c) \/ UnlockMap(c)
    PROVE  ValuesFit'
<1>1. UNCHANGED <<version, entries, n, kind, entry, result>>
  BY DEF PlaceConflict, UnlockMap, storeVars, localVars
<1>2. TextKept
  BY RefText DEF PlaceConflict, UnlockMap
<1>3. pc'[c] \in {"unlock", "reply"} /\ \A d \in Clients : d # c => pc'[d] = pc[d]
  BY DEF PlaceConflict, UnlockMap, Goto, DataInvariant, Typed
<1>4. \A d \in Clients : /\ pc'[d] \in HasEntry => pc[d] \in HasEntry
                         /\ pc'[d] \in HasValue => pc[d] \in HasValue
  BY <1>3 DEF HasEntry, HasValue
<1> QED
  BY <1>1, <1>2, <1>4, QuietFits

\* The new version has the value of the PUT, or that of the version before it
\* in the entry of the key.
LEMMA PlaceVersionFits ==
    ASSUME DataInvariant, ValuesFit, NEW c \in Clients, PlaceVersion(c)
    PROVE  ValuesFit'
<1> DEFINE vs == VersionsOf(c)
           R == Request(c)
           V == ValueOf(c)
           put == kind[c] = "PUT"
           B == IF put THEN V ELSE Previous(c).blob
<1>1. /\ pc[c] = "collect" /\ version_create(c, B) /\ UNCHANGED <<n, kind, entry>>
      /\ put => blob' = blob /\ result' = result
      /\ ~put => blob' = blob_ref(blob, B) /\ result' = [result EXCEPT ![c] = B]
  BY DEF PlaceVersion, Collected, At
<1>2. \E l \in {"replaced", "unlock"} : pc' = [pc EXCEPT ![c] = l]
  BY DEF PlaceVersion, Goto
<1>3. /\ vs # <<>> /\ SetVersions(c, Append(Front(vs), R))
      \/ SetVersions(c, Append(vs, R))
  BY <1>1, PreviousAlive, NullAssumption DEF PlaceVersion
<1>4. /\ pc[c] \in HasEntry /\ pc[c] \in HasValue /\ pc[c] \in InMap
      /\ pc'[c] \notin HasValue /\ \A d \in Clients : d # c => pc'[d] = pc[d]
  BY <1>1, <1>2 DEF DataInvariant, Typed, HasEntry, HasValue, InMap
<1>5. /\ entry[c] \in 1..Len(entries) /\ vs \in Seq(Requests) /\ Len(vs) \in Nat
      /\ entry[c] \in DOMAIN entries
      /\ entries[entry[c]].versions = vs /\ DOMAIN vs = 1..Len(vs)
  BY <1>4, OwnList
<1>6. R \in Requests /\ V \in Blobs /\ KeyOf(c) \in Blobs /\ n[c] \in Nat
      /\ version[R].creator = Null /\ ~version[R].live
  BY <1>1, OwnObjects, PreviousAlive DEF DataInvariant, Typed
\* The list.
<1>7. PICK ws \in Seq(Requests) :
         /\ SetVersions(c, ws)
         /\ \A i \in DOMAIN ws : ws[i] = R \/ \E j \in DOMAIN vs : vs[j] = ws[i]
  <2> HIDE DEF vs, R
  <2>1. CASE vs # <<>> /\ SetVersions(c, Append(Front(vs), R))
    <3> DEFINE us == SubSeq(vs, 1, Len(vs) - 1)
    <3>1. us \in Seq(Requests) /\ DOMAIN us = 1..(Len(vs) - 1) /\ Len(us) = Len(vs) - 1
          /\ \A i \in 1..(Len(vs) - 1) : us[i] = vs[i] /\ i \in DOMAIN vs
      BY <1>5, <2>1
    <3>2. SetVersions(c, Append(us, R))
      BY <2>1 DEF Front
    <3> HIDE DEF us
    <3>3. /\ Append(us, R) \in Seq(Requests) /\ DOMAIN Append(us, R) = 1..(Len(us) + 1)
          /\ Append(us, R)[Len(us) + 1] = R
          /\ \A i \in 1..Len(us) : Append(us, R)[i] = us[i]
      BY <1>6, <3>1
    <3> DEFINE m == Len(us)
    <3>4. m \in Nat /\ DOMAIN Append(us, R) = 1..(m + 1)
      BY <3>1, <3>3, LenProperties
    <3> HIDE DEF m
    <3>5. \A i \in DOMAIN Append(us, R) : i = m + 1 \/ i \in 1..m
      BY <3>4
    <3> QED
      BY <3>1, <3>2, <3>3, <3>5 DEF m
  <2>2. CASE SetVersions(c, Append(vs, R))
    <3>1. /\ Append(vs, R) \in Seq(Requests) /\ DOMAIN Append(vs, R) = 1..(Len(vs) + 1)
          /\ Append(vs, R)[Len(vs) + 1] = R
          /\ \A i \in 1..Len(vs) : Append(vs, R)[i] = vs[i]
      BY <1>5, <1>6
    <3>2. \A i \in DOMAIN Append(vs, R) : i = Len(vs) + 1 \/ i \in 1..Len(vs)
      BY <1>5, <3>1
    <3> QED
      BY <1>5, <2>2, <3>1, <3>2
  <2> QED
    BY <1>3, <2>1, <2>2
<1>8. /\ DOMAIN entries' = DOMAIN entries /\ \A e \in DOMAIN entries : entries'[e].key = entries[e].key
      /\ entries'[entry[c]].versions = ws
      /\ \A e \in DOMAIN entries : e # entry[c] => entries'[e] = entries[e]
  BY <1>5, <1>7, SetVersionsEffect
\* The blob.
<1>9. TextKept
  BY <1>1, RefText
<1>10. B # Null => B \in Blobs /\ blob[B].refcnt > 0 /\ blob[B].for = KeyText(c)
  <2>1. CASE put
    BY <1>4, <2>1, Alive DEF ValuesFit, ValueFits
  <2>2. CASE ~put /\ vs = <<>>
    BY <2>2 DEF Previous, NoVersion
  <2>3. CASE ~put /\ vs # <<>>
    <3>1. /\ Len(vs) \in DOMAIN vs /\ Previous(c) = version[vs[Len(vs)]]
      BY <1>5, <2>3 DEF Previous, Last
    <3>2. vs[Len(vs)] \in Requests
      BY <1>5, <3>1, ListElements
    <3>3. version[vs[Len(vs)]].live
      BY <1>1, <1>4, <1>5, <3>1, ListsAlive
    <3>4. VersionFits(entry[c], vs[Len(vs)]) /\ EntryFits(c)
      BY <1>4, <1>5, <3>1 DEF ValuesFit
    <3> QED
      BY <2>3, <3>1, <3>2, <3>3, <3>4, Alive DEF VersionFits, EntryFits
  <2> QED
    BY <2>1, <2>2, <2>3
<1>11. blob[entries[entry[c]].key].content = KeyText(c)
  BY <1>4 DEF ValuesFit, EntryFits
<1> HIDE DEF B
<1>12. /\ KeyText(c)' = KeyText(c)
       /\ blob'[entries'[entry[c]].key].content = KeyText(c)
       /\ B # Null => blob'[B].for = KeyText(c)
  <2>1. KeyOf(c)[1][1] = c /\ KeyOf(c)[1][2] = n[c] /\ KeyOf(c)' = KeyOf(c)
    BY <1>1 DEF KeyOf, Request
  <2>2. n[c] <= n[c]
    BY <1>6
  <2>3. blob'[KeyOf(c)].content = blob[KeyOf(c)].content
    BY <1>6, <1>9, <2>1, <2>2 DEF TextKept
  <2>4. blob'[entries[entry[c]].key].content = blob[entries[entry[c]].key].content
    BY <1>5, <1>9, Alive, Made DEF TextKept
  <2>5. B # Null => blob'[B].for = blob[B].for
    BY <1>9, <1>10, Made DEF TextKept
  <2> QED
    BY <1>5, <1>8, <1>10, <1>11, <2>1, <2>3, <2>4, <2>5 DEF KeyText
\* The version.
<1>13. version'[R].blob = B /\ \A u \in Requests : u # R => version'[u] = version[u]
  BY <1>1, <1>6 DEF version_create, DataInvariant, Typed
<1>14. \A e \in DOMAIN entries : \A i \in DOMAIN entries'[e].versions :
           \/ VersionFits(e, entries[e].versions[i])'
           \/ StaysIn(e, entries'[e].versions[i])
  <2> SUFFICES ASSUME NEW e \in DOMAIN entries, NEW i \in DOMAIN entries'[e].versions
               PROVE  \/ VersionFits(e, entries[e].versions[i])'
                      \/ StaysIn(e, entries'[e].versions[i])
    OBVIOUS
  <2> HIDE DEF vs, R
  <2>1. CASE e # entry[c]
    <3>1. entries'[e].versions[i] \in Requests /\ entries'[e] = entries[e]
      BY <1>8, <2>1, ListElements
    <3>2. entries[e].versions[i] # R
      BY <1>6, <3>1 DEF DataInvariant, Lists
    <3> QED
      BY <1>13, <3>1, <3>2 DEF StaysIn
  <2>2. CASE e = entry[c]
    <3>1. CASE ws[i] = R
      BY <1>8, <1>12, <1>13, <2>2, <3>1 DEF VersionFits
    <3>2. CASE ws[i] # R
      <4>1. PICK j \in DOMAIN vs : vs[j] = ws[i]
        BY <1>7, <1>8, <2>2, <3>2
      <4>2. ws[i] \in Requests
        BY <1>7, <1>8, <2>2
      <4> QED
        BY <1>5, <1>8, <1>13, <2>2, <3>2, <4>1, <4>2 DEF StaysIn
    <3> QED
      BY <3>1, <3>2
  <2> QED
    BY <2>1, <2>2
\* The result.
<1>15. /\ \A d \in Clients : d # c => result'[d] = result[d]
       /\ result'[c] # Null => result'[c] = result[c] \/ ResultFits(c)'
  <2>1. result \in [Clients -> Blobs \cup {Null}]
    BY DEF DataInvariant, Typed
  <2>2. CASE put
    BY <1>1, <2>2
  <2>3. CASE ~put
    BY <1>1, <1>12, <2>1, <2>3 DEF ResultFits
  <2> QED
    BY <2>2, <2>3
<1> HIDE DEF vs, R
<1> QED
  BY <1>1, <1>4, <1>8, <1>9, <1>14, <1>15, OwnFits

\* Nothing is left in the table.
LEMMA FiniFits ==
    ASSUME DataInvariant, ValuesFit, Fini PROVE ValuesFit'
<1>1. /\ \A c \in Clients : pc[c] = "done"
      /\ entries' = <<>> /\ UNCHANGED <<pc, n, kind, entry, result>>
  BY DEF Fini, At, localVars
<1>2. TextKept
  BY DEF Fini, TextKept
<1>3. \A e \in DOMAIN entries' : FALSE
  BY <1>1
<1> QED
  BY <1>1, <1>2, <1>3, FitFrame DEF HasEntry, HasValue

LEMMA InitFits == Init => ValuesFit
BY DEF Init, ValuesFit, HasEntry, HasValue

\* Every step keeps the values with their keys.
LEMMA NextFits ==
    ASSUME DataInvariant, ValuesFit, KeysAreToldApart, [Next]_vars
    PROVE  ValuesFit'
<1>1. CASE UNCHANGED vars
  BY <1>1, QuietFits DEF vars, storeVars, localVars, TextKept
<1>2. CASE Fini
  BY <1>2, FiniFits
<1>3. CASE Halted
  BY <1>1, <1>3 DEF Halted
<1>4. ASSUME NEW c \in Clients,
             \/ xacto_get(c) \/ xacto_put(c) \/ NullKey(c) \/ Commit(c) \/ RecvFails(c)
             \/ AbortReads(c) \/ AbortWrites(c)
             \/ StoreStep(c) \/ xacto_reply(c) \/ ShowVersion(c) \/ ShowEntry(c)
      PROVE  ValuesFit'
  <2>1. CASE xacto_get(c) \/ xacto_put(c)
    BY <2>1, ArriveFits
  <2>2. CASE OutsideStep(c)
    BY <2>2, OutsideFits
  <2>3. CASE StoreStep(c)
    <3>1. CASE \/ LockMap(c) \/ FindOther(c) \/ CompareFirst(c) \/ CompareSecond(c)
               \/ CollectNext(c) \/ CollectAborted(c)
      BY <3>1, SearchFits
    <3>2. CASE FindNone(c) \/ Compared(c)
      BY <3>2, FindNoneFits, ComparedFits
    <3>3. CASE CollectCommitted(c) \/ DisposeDoomed(c) \/ DisposeReplaced(c)
      BY <3>3, DisposeFits
    <3>4. CASE Relink(c) \/ DoomedEnd(c)
      BY <3>4, UnlinkFits
    <3>5. CASE PlaceConflict(c) \/ PlaceVersion(c) \/ UnlockMap(c)
      BY <3>5, PlaceConflictFits, PlaceVersionFits
    <3> QED
      BY <2>2, <2>3, <3>1, <3>2, <3>3, <3>4, <3>5 DEF StoreStep, OutsideStep
  <2> QED
    BY <1>4, <2>1, <2>2, <2>3 DEF OutsideStep
<1> QED
  BY <1>1, <1>2, <1>3, <1>4 DEF Next

\* If key_compare tells the clients' keys apart, a GET returns a value that was
\* put under its own key, whatever the other threads replace, abort and collect
\* in the meantime.
THEOREM GetsReturnTheirKeys ==
    ASSUME KeysAreToldApart
    PROVE  Spec => []GetReturnsValueOfKey
<1>1. Init => ValuesFit
  BY InitFits
<1>2. DataInvariant /\ ValuesFit /\ [Next]_vars => ValuesFit'
  BY NextFits
<1>3. DataInvariant /\ ValuesFit => GetReturnsValueOfKey
  BY DEF ValuesFit, ResultFits, KeyText, GetReturnsValueOfKey
<1> QED
  BY <1>1, <1>2, <1>3, InvariantHolds, PTL DEF Spec
=============================================================================
