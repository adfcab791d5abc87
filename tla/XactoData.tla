------------------------------ MODULE XactoData ------------------------------
(***************************************************************************)
(* The blobs, keys and versions of the Xacto server (data.c), as the       *)
(* service threads (xacto_get, xacto_put and xacto_reply of server.c) and  *)
(* the object store of lib/xacto.a use them.                               *)
(*                                                                         *)
(* The store calls data.c with the_map.mutex held, but xacto_reply and     *)
(* store_show read blobs and versions without any lock: a blob lives as    *)
(* long as its reference count, and a freed object that is read ends the   *)
(* behaviour as UNDEFINED.  Of a transaction only its status is kept; when *)
(* it is decided is the business of XactoTransaction.                      *)
(***************************************************************************)
EXTENDS Integers, FiniteSets, SequencesExt

CONSTANTS
    Clients,        \* service threads, named by the ids of their transactions
    KeyContents,    \* key packets: sequences of bytes
    Access,         \* the keys that the GETs and PUTs of a client may name, in order
    Values,         \* contents of values
    Null,           \* the null pointer
    NUM_BUCKETS,    \* of the store's table: 8
    IntSize         \* the number of values of an int: 2^32

ASSUME DataAssumption ==
    /\ Clients \subseteq Nat /\ IsFiniteSet(Clients)
    /\ \A c \in Clients : Access[c] \in Seq(SUBSET KeyContents)
    /\ NUM_BUCKETS \in Nat \ {0}
    /\ KeyContents \subseteq Seq(0..255)

\* An int has an even number of values, and the store's 15 bits of a hash fit.
ASSUME IntAssumption == IntSize \in Nat \ {0} /\ IntSize % 2 ^ 15 = 0

Requests == UNION {{c} \X DOMAIN Access[c] : c \in Clients}
Blobs == Requests \X {"key", "value"}

\* The null pointer points to nothing.
ASSUME NullAssumption == Null \notin Clients /\ Null \notin Requests /\ Null \notin Blobs

VARIABLES
    blob,       \* [content, refcnt, live]; a value also has the key it was put under
    mutex,      \* holder of a blob's mutex
    version,    \* [creator, blob, live], named by the request that made it
    entries,    \* [key, versions] of the table, the newest last
    mapLock,
    status,     \* of the transactions
    aborting,   \* calls of trans_abort that have read PENDING, before their write:
                \* the thread (Null for one outside this module) and the transaction
    pc, n, kind, pos, cur, entry, result, shown,  \* locals of the threads
    kept,       \* references that nobody will give back, per blob
    exited

storeVars == <<mutex, version, entries, mapLock>>
transVars == <<status, aborting>>
localVars == <<n, kind, pos, cur, entry, result, shown>>
vars == <<blob, storeVars, transVars, pc, localVars, kept, exited>>

NoBlob == [content |-> Null, refcnt |-> 0, live |-> FALSE, for |-> Null]
NoVersion == [creator |-> Null, blob |-> Null, live |-> FALSE]

Init ==
    /\ blob = [b \in Blobs |-> NoBlob]
    /\ mutex = [b \in Blobs |-> Null]
    /\ version = [r \in Requests |-> NoVersion]
    /\ entries = <<>>
    /\ mapLock = Null
    /\ status = [c \in Clients |-> "PENDING"]
    /\ aborting = {}
    /\ pc = [c \in Clients |-> "recv"]
    /\ n = [c \in Clients |-> 0]
    /\ kind = [c \in Clients |-> "GET"]
    /\ pos = [c \in Clients |-> 0]
    /\ cur = [c \in Clients |-> Null]
    /\ entry = [c \in Clients |-> 0]
    /\ result = [c \in Clients |-> Null]
    /\ shown = [c \in Clients |-> Null]
    /\ kept = [b \in Blobs |-> 0]
    /\ exited = "running"

At(c, l) == exited = "running" /\ pc[c] = l
Goto(c, l) == pc' = [pc EXCEPT ![c] = l]

\* The objects of the request that client c works on.
Request(c) == <<c, n[c]>>
KeyOf(c) == <<Request(c), "key">>
ValueOf(c) == <<Request(c), "value">>

-----------------------------------------------------------------------------
(* data.c.  These operators map blobs to blobs.                            *)

blob_create(bs, b, content, for) ==
    [bs EXCEPT ![b] = [content |-> content, refcnt |-> 1, live |-> TRUE, for |-> for]]

blob_ref(bs, b) == IF b = Null THEN bs ELSE [bs EXCEPT ![b].refcnt = @ + 1]

\* Mutant: the count is tested before it is decreased.
blob_unrefEarly(bs, b) ==
    IF b = Null THEN bs
    ELSE [bs EXCEPT ![b] = [content |-> bs[b].content, refcnt |-> bs[b].refcnt - 1,
                            live |-> bs[b].refcnt > 2, for |-> bs[b].for]]

blob_unref(bs, b) ==
    IF b = Null THEN bs
    ELSE [bs EXCEPT ![b] = [content |-> bs[b].content, refcnt |-> bs[b].refcnt - 1,
                            live |-> bs[b].refcnt > 1, for |-> bs[b].for]]

\* Conversion to int.
ToInt(x) == ((x + IntSize \div 2) % IntSize) - IntSize \div 2

\* strndup: the string of a blob ends before the first NUL of the packet.
TextLen(content) ==
    LET nuls == {j \in DOMAIN content : content[j] = 0}
    IN  IF nuls = {} THEN Len(content) ELSE Min(nuls) - 1

\* The sum is an unsigned long, of which the result keeps the bits of an int; a
\* char is signed.
blob_hash(content) ==
    LET char(j) == IF content[j] < 128 THEN content[j] ELSE content[j] - 256
        hash[j \in 0..TextLen(content)] ==
            IF j = 0 THEN 5381 ELSE (hash[j - 1] * 33 + char(j)) % IntSize
    IN  ToInt(hash[TextLen(content)])

\* strcmp: the difference of the first bytes that differ, unsigned.
blob_compare(x, y) ==
    LET char(s, j) == IF j <= TextLen(s) THEN s[j] ELSE 0
        differing == {j \in 1..(TextLen(x) + 1) : char(x, j) # char(y, j)}
    IN  IF differing = {} THEN 0 ELSE char(x, Min(differing)) - char(y, Min(differing))

\* Mutant: the remainders of the hashes are compared.
key_compareBucket(x, y) == (blob_hash(x) % NUM_BUCKETS) - (blob_hash(y) % NUM_BUCKETS)

\* Mutant: never equal, as pointers are compared.
key_comparePointers(x, y) == 1

\* abs(hash difference) + strcmp, all of it in an int that wraps.
key_compare(x, y) ==
    LET difference == ToInt(blob_hash(x) - blob_hash(y))
    IN  ToInt(ToInt(IF difference < 0 THEN -difference ELSE difference) + blob_compare(x, y))

key_dispose(bs, b) == blob_unref(bs, b)

version_create(c, b) ==
    version' = [version EXCEPT ![Request(c)] = [creator |-> c, blob |-> b, live |-> TRUE]]

\* Mutant: the blob keeps the reference of the version.
version_disposeKeep(v) ==
    /\ version' = [version EXCEPT ![v].live = FALSE]
    /\ UNCHANGED blob

version_dispose(v) ==
    /\ version' = [version EXCEPT ![v].live = FALSE]
    /\ blob' = blob_unref(blob, version[v].blob)

-----------------------------------------------------------------------------
(* Requests.                                                               *)

\* The key packet of a GET arrives: key_create(blob_create(...)).
xacto_get(c) ==
    /\ At(c, "recv") /\ n[c] < Len(Access[c])
    /\ n' = [n EXCEPT ![c] = @ + 1]
    /\ kind' = [kind EXCEPT ![c] = "GET"]
    /\ \E k \in Access[c][n[c] + 1] :
          blob' = blob_create(blob, <<<<c, n[c] + 1>>, "key">>, k, Null)
    /\ Goto(c, "lock")
    /\ UNCHANGED <<storeVars, transVars, pos, cur, entry, result, shown, kept, exited>>

\* The key and value packets of a PUT arrive.
xacto_put(c) ==
    /\ At(c, "recv") /\ n[c] < Len(Access[c])
    /\ n' = [n EXCEPT ![c] = @ + 1]
    /\ kind' = [kind EXCEPT ![c] = "PUT"]
    /\ \E k \in Access[c][n[c] + 1], v \in Values :
          blob' = blob_create(blob_create(blob, <<<<c, n[c] + 1>>, "key">>, k, Null),
                              <<<<c, n[c] + 1>>, "value">>, v, k)
    /\ Goto(c, "lock")
    /\ UNCHANGED <<storeVars, transVars, pos, cur, entry, result, shown, kept, exited>>

\* A key packet without content: blob_hash copies from the null pointer.
NullKey(c) ==
    /\ At(c, "recv") /\ n[c] < Len(Access[c])
    /\ exited' = "SIGSEGV"
    /\ UNCHANGED <<blob, storeVars, transVars, pc, localVars, kept>>

\* trans_commit, once the creators of the earlier versions of its keys are
\* decided.  It decides ABORTED if it has read an older transaction as ABORTED;
\* the aborted_dependency run shows that it can miss that.  Its decision replaces
\* the status the transaction has, ABORTED too.
Commit(c) ==
    /\ At(c, "recv")
    /\ \A e \in DOMAIN entries : \A i, j \in DOMAIN entries[e].versions :
          version[entries[e].versions[j]].creator = c /\ i < j =>
              \/ version[entries[e].versions[i]].creator = c
              \/ status[version[entries[e].versions[i]].creator] # "PENDING"
    /\ \E s \in {"COMMITTED", "ABORTED"} :
          /\ s = "ABORTED" => \E d \in Clients : d < c /\ n[d] > 0
          /\ status' = [status EXCEPT ![c] = s]
    /\ kind' = [kind EXCEPT ![c] = "LAST"]
    /\ Goto(c, "reply")
    /\ UNCHANGED <<blob, storeVars, aborting, n, pos, cur, entry, result, shown, kept, exited>>

\* End of file on the connection: the thread aborts its transaction and returns.
RecvFails(c) ==
    /\ At(c, "recv")
    /\ status' = [status EXCEPT ![c] = "ABORTED"]
    /\ Goto(c, "done")
    /\ UNCHANGED <<blob, storeVars, aborting, localVars, kept, exited>>

\* trans_abort called from outside, in a cascade: it reads PENDING (one such
\* call at a time for a transaction) ...
AbortReads(c) ==
    /\ exited = "running" /\ status[c] = "PENDING" /\ <<Null, c>> \notin aborting
    /\ aborting' = aborting \cup {<<Null, c>>}
    /\ UNCHANGED <<blob, storeVars, status, pc, localVars, kept, exited>>

\* ... and writes ABORTED later, even over a COMMITTED.
AbortWrites(c) ==
    /\ exited = "running" /\ <<Null, c>> \in aborting
    /\ status' = [status EXCEPT ![c] = "ABORTED"]
    /\ aborting' = aborting \ {<<Null, c>>}
    /\ UNCHANGED <<blob, storeVars, pc, localVars, kept, exited>>

-----------------------------------------------------------------------------
(* store_get and store_put of lib/xacto.a, under the_map.mutex.            *)

LockMap(c) ==
    /\ At(c, "lock") /\ mapLock = Null
    /\ mapLock' = c
    /\ pos' = [pos EXCEPT ![c] = Len(entries)]
    /\ Goto(c, "find")
    /\ UNCHANGED <<blob, mutex, version, entries, transVars, n, kind, cur, entry, result, shown,
                   kept, exited>>

Bucket(content) == (blob_hash(content) % 2 ^ 15) % NUM_BUCKETS

\* Whether find_map_entry compares the key of entry e.
Comparable(c, e) ==
    LET k1 == blob[entries[e].key].content
        k2 == blob[KeyOf(c)].content
    IN  Bucket(k1) = Bucket(k2) /\ Len(k1) = Len(k2)

\* find_map_entry: no entry is left, and a new one inherits the key.
FindNone(c) ==
    /\ At(c, "find") /\ pos[c] = 0
    /\ entries' = Append(entries, [key |-> KeyOf(c), versions |-> <<>>])
    /\ entry' = [entry EXCEPT ![c] = Len(entries) + 1]
    /\ pos' = [pos EXCEPT ![c] = 1]
    /\ Goto(c, "collect")
    /\ UNCHANGED <<blob, mutex, version, mapLock, transVars, n, kind, cur, result, shown,
                   kept, exited>>

FindOther(c) ==
    /\ At(c, "find") /\ pos[c] > 0 /\ ~Comparable(c, pos[c])
    /\ pos' = [pos EXCEPT ![c] = @ - 1]
    /\ UNCHANGED <<blob, storeVars, transVars, pc, n, kind, cur, entry, result, shown,
                   kept, exited>>

\* key_compare locks the blob of the entry's key ...
CompareFirst(c) ==
    /\ At(c, "find") /\ pos[c] > 0 /\ Comparable(c, pos[c])
    /\ mutex[entries[pos[c]].key] = Null
    /\ mutex' = [mutex EXCEPT ![entries[pos[c]].key] = c]
    /\ Goto(c, "compare")
    /\ UNCHANGED <<blob, version, entries, mapLock, transVars, localVars, kept, exited>>

\* ... and that of the new key, ...
CompareSecond(c) ==
    /\ At(c, "compare") /\ mutex[KeyOf(c)] = Null
    /\ mutex' = [mutex EXCEPT ![KeyOf(c)] = c]
    /\ Goto(c, "compared")
    /\ UNCHANGED <<blob, version, entries, mapLock, transVars, localVars, kept, exited>>

\* Mutant: the second mutex stays locked.
ComparedLocked(c) ==
    /\ At(c, "compared")
    /\ mutex' = [mutex EXCEPT ![entries[pos[c]].key] = Null]
    /\ IF key_compare(blob[entries[pos[c]].key].content, blob[KeyOf(c)].content) = 0
       THEN /\ blob' = key_dispose(blob, KeyOf(c))
            /\ entry' = [entry EXCEPT ![c] = pos[c]]
            /\ pos' = [pos EXCEPT ![c] = 1]
            /\ Goto(c, "collect")
       ELSE /\ pos' = [pos EXCEPT ![c] = @ - 1]
            /\ Goto(c, "find")
            /\ UNCHANGED <<blob, entry>>
    /\ UNCHANGED <<version, entries, mapLock, transVars, n, kind, cur, result, shown, kept, exited>>

\* ... and unlocks both.  A key that is in the table already is disposed of.
Compared(c) ==
    /\ At(c, "compared")
    /\ mutex' = [mutex EXCEPT ![entries[pos[c]].key] = Null, ![KeyOf(c)] = Null]
    /\ IF key_compare(blob[entries[pos[c]].key].content, blob[KeyOf(c)].content) = 0
       THEN /\ blob' = key_dispose(blob, KeyOf(c))
            /\ entry' = [entry EXCEPT ![c] = pos[c]]
            /\ pos' = [pos EXCEPT ![c] = 1]
            /\ Goto(c, "collect")
       ELSE /\ pos' = [pos EXCEPT ![c] = @ - 1]
            /\ Goto(c, "find")
            /\ UNCHANGED <<blob, entry>>
    /\ UNCHANGED <<version, entries, mapLock, transVars, n, kind, cur, result, shown, kept, exited>>

VersionsOf(c) == entries[entry[c]].versions
SetVersions(c, vs) == entries' = [entries EXCEPT ![entry[c]].versions = vs]
StatusAt(c, j) == status[version[VersionsOf(c)[j]].creator]

\* Garbage collection passes a version: pending, or the only committed one.
CollectNext(c) ==
    /\ At(c, "collect") /\ pos[c] <= Len(VersionsOf(c))
    /\ \/ StatusAt(c, pos[c]) = "PENDING"
       \/ /\ StatusAt(c, pos[c]) = "COMMITTED"
          /\ pos[c] > 1 => StatusAt(c, pos[c] - 1) # "COMMITTED"
    /\ pos' = [pos EXCEPT ![c] = @ + 1]
    /\ UNCHANGED <<blob, storeVars, transVars, pc, n, kind, cur, entry, result, shown, kept, exited>>

\* A superseded committed version is disposed of, and only then unlinked.
CollectCommitted(c) ==
    /\ At(c, "collect") /\ pos[c] \in 2..Len(VersionsOf(c))
    /\ StatusAt(c, pos[c]) = "COMMITTED" /\ StatusAt(c, pos[c] - 1) = "COMMITTED"
    /\ version_dispose(VersionsOf(c)[pos[c] - 1])
    /\ Goto(c, "relink")
    /\ UNCHANGED <<mutex, entries, mapLock, transVars, localVars, kept, exited>>

Relink(c) ==
    /\ At(c, "relink")
    /\ SetVersions(c, SubSeq(VersionsOf(c), pos[c], Len(VersionsOf(c))))
    /\ pos' = [pos EXCEPT ![c] = 2]
    /\ Goto(c, "collect")
    /\ UNCHANGED <<blob, mutex, version, mapLock, transVars, n, kind, cur, entry, result, shown,
                   kept, exited>>

\* An aborted version and all later ones: the creator is aborted, the version
\* disposed of.
CollectAborted(c) ==
    /\ At(c, "collect") /\ pos[c] <= Len(VersionsOf(c))
    /\ StatusAt(c, pos[c]) = "ABORTED"
    /\ cur' = [cur EXCEPT ![c] = pos[c]]
    /\ Goto(c, "doomed")
    /\ UNCHANGED <<blob, storeVars, transVars, n, kind, pos, entry, result, shown, kept, exited>>

\* trans_abort reads the status of the creator: COMMITTED ends the process, and
\* for PENDING it goes on ...
AbortDoomed(c) ==
    LET tp == version[VersionsOf(c)[cur[c]]].creator IN
    /\ At(c, "doomed") /\ cur[c] <= Len(VersionsOf(c)) /\ <<c, tp>> \notin aborting
    /\ \/ status[tp] = "COMMITTED" /\ exited' = "FATAL" /\ UNCHANGED aborting
       \/ status[tp] = "PENDING" /\ aborting' = aborting \cup {<<c, tp>>} /\ UNCHANGED exited
    /\ UNCHANGED <<blob, storeVars, status, pc, localVars, kept>>

\* ... to write ABORTED, unless it reads COMMITTED when it asks for PENDING again.
DisposeDoomed(c) ==
    LET tp == version[VersionsOf(c)[cur[c]]].creator IN
    /\ At(c, "doomed") /\ cur[c] <= Len(VersionsOf(c))
    /\ <<c, tp>> \in aborting \/ status[tp] = "ABORTED"
    /\ \/ status' = [status EXCEPT ![tp] = "ABORTED"]
       \/ status[tp] = "COMMITTED" /\ UNCHANGED status
    /\ aborting' = aborting \ {<<c, tp>>}
    /\ version_dispose(VersionsOf(c)[cur[c]])
    /\ cur' = [cur EXCEPT ![c] = @ + 1]
    /\ UNCHANGED <<mutex, entries, mapLock, pc, n, kind, pos, entry, result, shown, kept, exited>>

DoomedEnd(c) ==
    /\ At(c, "doomed") /\ cur[c] > Len(VersionsOf(c))
    /\ SetVersions(c, SubSeq(VersionsOf(c), 1, pos[c] - 1))
    /\ cur' = [cur EXCEPT ![c] = Null]
    /\ Goto(c, "collect")
    /\ UNCHANGED <<blob, mutex, version, mapLock, transVars, n, kind, pos, entry, result, shown,
                   kept, exited>>

Collected(c) == At(c, "collect") /\ pos[c] > Len(VersionsOf(c))
Previous(c) == IF VersionsOf(c) = <<>> THEN NoVersion ELSE version[Last(VersionsOf(c))]

\* add_version for an outdated transaction: it is aborted, and the value of a
\* PUT keeps its reference.
PlaceConflict(c) ==
    /\ Collected(c) /\ Previous(c).creator # Null /\ c < Previous(c).creator
    /\ status' = [status EXCEPT ![c] = "ABORTED"]
    /\ kept' = IF kind[c] = "PUT" THEN [kept EXCEPT ![ValueOf(c)] = @ + 1] ELSE kept
    /\ Goto(c, "unlock")
    /\ UNCHANGED <<blob, storeVars, aborting, localVars, exited>>

\* add_version: a GET copies and references the blob of the previous version.
\* A version of the same creator is replaced, and disposed of afterwards.
PlaceVersion(c) ==
    /\ Collected(c) /\ (Previous(c).creator # Null => c >= Previous(c).creator)
    /\ IF kind[c] = "PUT"
       THEN version_create(c, ValueOf(c)) /\ UNCHANGED <<blob, result>>
       ELSE /\ version_create(c, Previous(c).blob)
            /\ blob' = blob_ref(blob, Previous(c).blob)
            /\ result' = [result EXCEPT ![c] = Previous(c).blob]
    /\ IF Previous(c).creator = c
       THEN /\ SetVersions(c, Append(Front(VersionsOf(c)), Request(c)))
            /\ cur' = [cur EXCEPT ![c] = Last(VersionsOf(c))]
            /\ Goto(c, "replaced")
       ELSE /\ SetVersions(c, Append(VersionsOf(c), Request(c)))
            /\ Goto(c, "unlock")
            /\ UNCHANGED cur
    /\ UNCHANGED <<mutex, mapLock, transVars, n, kind, pos, entry, shown, kept, exited>>

DisposeReplaced(c) ==
    /\ At(c, "replaced")
    /\ version_dispose(cur[c])
    /\ cur' = [cur EXCEPT ![c] = Null]
    /\ Goto(c, "unlock")
    /\ UNCHANGED <<mutex, entries, mapLock, transVars, n, kind, pos, entry, result, shown,
                   kept, exited>>

\* store_get takes a reference for its caller, who never gives it back.
UnlockMap(c) ==
    /\ At(c, "unlock")
    /\ blob' = blob_ref(blob, result[c])
    /\ kept' = IF result[c] = Null THEN kept ELSE [kept EXCEPT ![result[c]] = @ + 1]
    /\ mapLock' = Null
    /\ pos' = [pos EXCEPT ![c] = 0]
    /\ Goto(c, "reply")
    /\ UNCHANGED <<mutex, version, entries, transVars, n, kind, cur, entry, result, shown, exited>>

-----------------------------------------------------------------------------
(* After the request: xacto_reply and store_show, without a lock.          *)

\* The first version store_show sees in entry e.
HeadOf(e) ==
    IF e = 0 THEN Null
    ELSE IF entries[e].versions = <<>> THEN Null ELSE Head(entries[e].versions)

\* After a COMMIT or an ABORTED status the thread will leave its loop.
xacto_reply(c) ==
    /\ At(c, "reply")
    /\ IF result[c] # Null /\ ~blob[result[c]].live
       THEN exited' = "UNDEFINED" /\ UNCHANGED <<pc, kind, result, entry, shown>>
       ELSE /\ kind' = [kind EXCEPT ![c] = IF status[c] = "ABORTED" THEN "LAST" ELSE @]
            /\ result' = [result EXCEPT ![c] = Null]
            /\ entry' = [entry EXCEPT ![c] = Len(entries)]
            /\ shown' = [shown EXCEPT ![c] = HeadOf(Len(entries))]
            /\ Goto(c, "show")
            /\ UNCHANGED exited
    /\ UNCHANGED <<blob, storeVars, transVars, n, pos, cur, kept>>

\* store_show prints the version it points to and follows its next pointer.
ShowVersion(c) ==
    LET v == shown[c]
        vs == VersionsOf(c)
    IN
    /\ At(c, "show") /\ v # Null
    /\ IF ~version[v].live \/ (version[v].blob # Null /\ ~blob[version[v].blob].live)
       THEN exited' = "UNDEFINED" /\ UNCHANGED shown
       ELSE /\ shown' = [shown EXCEPT ![c] =
                    IF \E j \in 1..(Len(vs) - 1) : vs[j] = v
                    THEN vs[1 + (CHOOSE j \in 1..(Len(vs) - 1) : vs[j] = v)] ELSE Null]
            /\ UNCHANGED exited
    /\ UNCHANGED <<blob, storeVars, transVars, pc, n, kind, pos, cur, entry, result, kept>>

ShowEntry(c) ==
    /\ At(c, "show") /\ shown[c] = Null
    /\ entry' = [entry EXCEPT ![c] = IF @ > 1 THEN @ - 1 ELSE 0]
    /\ IF entry[c] > 1
       THEN shown' = [shown EXCEPT ![c] = HeadOf(entry[c] - 1)] /\ UNCHANGED pc
       ELSE Goto(c, IF kind[c] = "LAST" THEN "done" ELSE "recv") /\ UNCHANGED shown
    /\ UNCHANGED <<blob, storeVars, transVars, n, kind, pos, cur, result, kept, exited>>

\* store_fini, once every service thread is gone.
Fini ==
    /\ \A c \in Clients : At(c, "done")
    /\ LET held(b) == Cardinality({e \in DOMAIN entries : entries[e].key = b})
                      + Cardinality({v \in Requests : version[v].live /\ version[v].blob = b})
       IN  blob' = [b \in Blobs |->
                       [content |-> blob[b].content, refcnt |-> blob[b].refcnt - held(b),
                        live |-> blob[b].live /\ blob[b].refcnt > held(b), for |-> blob[b].for]]
    /\ version' = [v \in Requests |-> [version[v] EXCEPT !.live = FALSE]]
    /\ entries' = <<>>
    /\ exited' = "SUCCESS"
    /\ UNCHANGED <<mutex, mapLock, transVars, pc, localVars, kept>>

Halted == exited # "running" /\ UNCHANGED vars

StoreStep(c) ==
    \/ LockMap(c) \/ FindNone(c) \/ FindOther(c) \/ CompareFirst(c) \/ CompareSecond(c)
    \/ Compared(c) \/ CollectNext(c) \/ CollectCommitted(c) \/ Relink(c) \/ CollectAborted(c)
    \/ AbortDoomed(c) \/ DisposeDoomed(c) \/ DoomedEnd(c) \/ PlaceConflict(c)
    \/ PlaceVersion(c) \/ DisposeReplaced(c) \/ UnlockMap(c)

Next ==
    \/ \E c \in Clients :
          \/ xacto_get(c) \/ xacto_put(c) \/ NullKey(c) \/ Commit(c) \/ RecvFails(c)
          \/ AbortReads(c) \/ AbortWrites(c)
          \/ StoreStep(c) \/ xacto_reply(c) \/ ShowVersion(c) \/ ShowEntry(c)
    \/ Fini \/ Halted

Spec == Init /\ [][Next]_vars

-----------------------------------------------------------------------------
(* Properties.                                                             *)

\* The thread still has the reference its request created.
KeyInHand(b) ==
    \E c \in Clients : b = KeyOf(c) /\ pc[c] \in {"lock", "find", "compare", "compared"}
ValueInHand(b) ==
    \E c \in Clients : b = ValueOf(c) /\ kind[c] = "PUT"
        /\ pc[c] \in {"lock", "find", "compare", "compared", "collect", "relink", "doomed"}

\* The reference count of a blob is the number of keys, entries, versions and
\* requests that point to it, plus the references that are never given back
\* (of the values of GETs and of refused PUTs); and a blob is freed exactly
\* when its count reaches zero.
ReferencesAreExact ==
    \A b \in Blobs :
        /\ blob[b].live <=> blob[b].refcnt > 0
        /\ blob[b].refcnt =
              kept[b] + (IF KeyInHand(b) THEN 1 ELSE 0) + (IF ValueInHand(b) THEN 1 ELSE 0)
              + Cardinality({e \in DOMAIN entries : entries[e].key = b})
              + Cardinality({v \in Requests : version[v].live /\ version[v].blob = b})

\* Nobody waits for, or holds, the mutex of a blob that has been freed, and
\* only the thread that has the_map.mutex holds one: comparisons never meet,
\* in whatever order they lock their two blobs.
MutexesAreUnderMapLock ==
    \A b \in Blobs : mutex[b] # Null => mutex[b] = mapLock /\ blob[b].live

\* What store_get returns stays alive until xacto_reply has sent it, although
\* the version it came from may be disposed of before: the reply never reads
\* freed memory.
ReplyIsAlive ==
    \A c \in Clients :
        pc[c] \in {"replaced", "unlock", "reply"} /\ result[c] # Null => blob[result[c]].live

\* A key has one entry in the table, however many threads bring it at once.
OneEntryPerKey ==
    \A d, e \in DOMAIN entries :
        blob[entries[d].key].content = blob[entries[e].key].content => d = e

\* A GET returns a value that was put under its own key.
GetReturnsValueOfKey ==
    \A c \in Clients :
        pc[c] = "reply" /\ result[c] # Null => blob[result[c]].for = blob[KeyOf(c)].content

-----------------------------------------------------------------------------
(* What a header of the server says and its code does not do.              *)

\* data.h, key_compare: "0 if the keys are equal, otherwise nonzero.", so the
\* entry a request goes on with has the key of the request.  The absolute
\* difference of the hashes and the negative result of strcmp cancel when only
\* the last characters differ.
KeyFindsItsEntry ==
    \A c \in Clients :
        pc[c] = "collect" => blob[entries[entry[c]].key].content = blob[KeyOf(c)].content
=============================================================================
