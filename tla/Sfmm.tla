-------------------------------- MODULE Sfmm --------------------------------
(***************************************************************************)
(* The dynamic memory allocator of "Memory Manager" (sfmm.c): sf_malloc,   *)
(* sf_free and sf_realloc over a heap of headers, footers and free lists.  *)
(*                                                                         *)
(* Block sizes and addresses are in rows of 16 bytes, the alignment, and   *)
(* the first block is at address 0, behind the prologue.  The node of the  *)
(* list of free lists for size s has its sentinel at address -s; the list  *)
(* of free lists only grows, and of it the code needs the largest size (a  *)
(* list without a node is one whose sentinel links to itself).  The words  *)
(* inside a block, which belong to the program or to nobody, are Unset: an *)
(* operation that read one would read what the program or an earlier block *)
(* left there.  A call that has to grow the heap takes one step per turn   *)
(* of its loop.                                                            *)
(***************************************************************************)
EXTENDS Integers, FiniteSetsExt

CONSTANTS
    PAGE_SZ,    \* bytes that sf_mem_grow adds
    MaxPages,   \* the pages sf_mem_grow has to give
    IntSize,    \* values of an int and of the field requested_size: 2^32
    Requests,   \* the sizes in bytes the program asks for
    Handles,    \* the variables in which the program keeps its pointers
    NoHandle

ASSUME HeapAssumption ==
    /\ PAGE_SZ \in Nat /\ PAGE_SZ >= 80 /\ PAGE_SZ % 16 = 0
    /\ MaxPages \in Nat \ {0}
    /\ IntSize \in Nat \ {0} /\ IntSize % 32 = 0 /\ MaxPages * PAGE_SZ < IntSize \div 2
    /\ Requests \subseteq Nat
    /\ NoHandle \notin Handles

VARIABLES
    heap,       \* memory: pages, headers, footers, links, largest list
    live,       \* the program's pointers: handle -> address and request
    call,       \* the sf_malloc call under way
    exited,     \* whether the process still runs
    damaged     \* history: sf_malloc has listed a block that was listed already

vars == <<heap, live, call, exited, damaged>>

MIN_SZ == 2
PageRows == PAGE_SZ \div 16
\* The prologue takes 40 bytes and the epilogue 8.
Limit == MaxPages * PageRows - 3
Addr == 0..Limit
Links == -Limit..Limit

\* Memory that holds neither a tag nor a link.
Unset == [size |-> 0, alloc |-> FALSE, prev |-> FALSE, req |-> 0]
NoLink == Limit + 1

NoCall == [size |-> 0, old |-> NoHandle, cur |-> -1, held |-> FALSE]

Init ==
    /\ heap = [pages |-> 0,
               hdr |-> [a \in Addr |-> Unset],
               ftr |-> [a \in Addr |-> 0],
               nx |-> [l \in Links |-> IF l < 0 THEN l ELSE NoLink],
               pv |-> [l \in Links |-> IF l < 0 THEN l ELSE NoLink],
               largest |-> 0]
    /\ live = [i \in {} |-> NoCall]
    /\ call = NoCall
    /\ exited = "running"
    /\ damaged = FALSE

-----------------------------------------------------------------------------
(* Helpers.                                                                *)

\* Conversion of an unsigned long to int, which has IntSize values.
ToInt(n) ==
    LET m == n % IntSize IN IF m >= IntSize \div 2 THEN m - IntSize ELSE m

\* Mutant: no padding to the alignment.
getNewSizeTruncated(size) ==
    LET n == ToInt(8 + size) IN IF n > 32 THEN n \div 16 ELSE MIN_SZ

\* Rows of the block for a request: header, payload and padding.  The padding
\* takes the 15 largest int values behind the last multiple of 16 past the
\* largest int: the number of rows is then negative.
getNewSize(size) ==
    LET n == ToInt(8 + size)
    IN  IF n > 32 THEN ToInt(((n + 15) \div 16) * 16) \div 16 ELSE MIN_SZ

\* The rows left of a block of old rows behind the first n: again an int.
splitSize(old, n) == ToInt(16 * (old - n)) \div 16

\* The address of the epilogue.
End(h) == h.pages * PageRows - 3

getNextHeaderPointer(h, a) == a + h.hdr[a].size

\* The words inside the block at a that hold no tag or link any more.
forget(h, a) ==
    LET n == getNextHeaderPointer(h, a)
        inside == (a + 1)..(n - 1)
        words == inside \cup (IF h.hdr[a].alloc THEN {a} ELSE {})
        ends == inside \cup (IF h.hdr[a].alloc THEN {n} ELSE {})
    IN  [pages |-> h.pages, largest |-> h.largest,
         hdr |-> [x \in Addr |-> IF x \in inside THEN Unset ELSE h.hdr[x]],
         ftr |-> [x \in Addr |-> IF x \in ends THEN 0 ELSE h.ftr[x]],
         nx |-> [x \in Links |-> IF x \in words THEN NoLink ELSE h.nx[x]],
         pv |-> [x \in Links |-> IF x \in words THEN NoLink ELSE h.pv[x]]]

setFreeHeader(h, a, size) ==
    [h EXCEPT !.hdr[a] = [size |-> size, alloc |-> FALSE, prev |-> TRUE, req |-> 0]]

\* The footer of the block at a is the word in front of the next header.
setFooter(h, a, size) == [h EXCEPT !.ftr[getNextHeaderPointer(h, a)] = size]

\* Mutant: the footer keeps the old size.
coalesceHeaderOnly(h, a, size) == setFreeHeader(h, a, h.hdr[a].size + size)

coalesce(h, a, size) ==
    LET n == h.hdr[a].size + size IN setFooter(setFreeHeader(h, a, n), a, n)

removeHeader(h, a) ==
    LET g == [h EXCEPT !.nx[h.pv[a]] = h.nx[a]] IN [g EXCEPT !.pv[g.nx[a]] = g.pv[a]]

\* getSentinelOfSize, which adds a node if there is none, and
\* addHeaderToFreeList, the four assignments in their order.
addHeaderToFreeList(h, a) ==
    LET s == -h.hdr[a].size
        g == [h EXCEPT !.largest = Max({@, -s})]
        g1 == [[g EXCEPT !.nx[a] = g.nx[s]] EXCEPT !.pv[a] = s]
    IN  [[g1 EXCEPT !.pv[g1.nx[s]] = a] EXCEPT !.nx[s] = a]

createEpilogue(h) ==
    [h EXCEPT !.hdr[End(h)] = [size |-> 0, alloc |-> TRUE, prev |-> FALSE, req |-> @.req]]

\* mem_init: the first page becomes one free block, which no list holds.
mem_init(h) ==
    LET g == createEpilogue([h EXCEPT !.pages = 1])
    IN  setFooter(setFreeHeader(g, 0, End(g)), 0, End(g))

\* The block in front of the epilogue, found through its footer.
lastFree(h) == End(h) - h.ftr[End(h)]

\* Mutant: the last block is not taken off its list before it grows.
mem_growListed(h) ==
    LET e == End(h)
        a == IF h.hdr[e].prev THEN e ELSE lastFree(h)
    IN  forget(coalesce(createEpilogue([h EXCEPT !.pages = @ + 1]), a, PageRows), a)

\* mem_grow when there is a page left; grownHeader is what it returns.
grownHeader(h) == IF h.hdr[End(h)].prev THEN End(h) ELSE lastFree(h)

mem_grow(h) ==
    LET e == End(h)
        a == grownHeader(h)
        g == IF ~h.hdr[e].prev /\ h.largest > 0 THEN removeHeader(h, a) ELSE h
    IN  forget(coalesce(createEpilogue([g EXCEPT !.pages = @ + 1]), a, PageRows), a)

\* Splits size rows off the end of the block at a.
splitBlock(h, a, size) ==
    LET f == getNextHeaderPointer(h, a)
        g == setFreeHeader(h, f, size)
        n == getNextHeaderPointer(g, f)
    IN  IF ~g.hdr[n].alloc
        THEN addHeaderToFreeList(coalesce(removeHeader(g, n), f, g.hdr[n].size), f)
        ELSE setFooter(addHeaderToFreeList(g, f), f, size)

\* Mutant: the block behind a freed block does not learn of it.
setPrevForgotten(h, a, b) == h

setPrev(h, a, b) == [h EXCEPT !.hdr[getNextHeaderPointer(h, a)].prev = b]

\* The end of sf_malloc: the block at a, on no list, serves the request.
allocate(h, a, request) ==
    LET old == h.hdr[a].size
        n == getNewSize(request)
        split == splitSize(old, n)
        used == IF split < MIN_SZ THEN old ELSE n
        g == [h EXCEPT !.hdr[a] = [size |-> used, alloc |-> TRUE, prev |-> TRUE,
                                   req |-> request % IntSize]]
        f == IF split >= MIN_SZ THEN splitBlock(g, a, split) ELSE g
    IN  forget(setPrev(f, a, TRUE), a)

\* sf_free of the block at a, after sf_abort has accepted it.
release(h, a) ==
    LET b == IF h.hdr[a].prev THEN a ELSE a - h.ftr[a]
        g == IF h.hdr[a].prev THEN h
             ELSE coalesce(removeHeader(h, b), b, h.hdr[a].size)
        n == getNextHeaderPointer(g, a)
        f == IF g.hdr[n].alloc THEN g
             ELSE coalesce(removeHeader(g, n), b, g.hdr[n].size)
    IN  forget(setPrev(addHeaderToFreeList(coalesce(f, b, 0), b), b, FALSE), b)

\* sf_realloc of the block at a to a smaller request: the tail becomes a free
\* block if it is large enough.
shrink(h, a, size) ==
    LET n == getNewSize(size)
        split == splitSize(h.hdr[a].size, n)
        h1 == [h EXCEPT !.hdr[a].req = size]
        g == splitBlock([h1 EXCEPT !.hdr[a].size = n], a, split)
        f == getNextHeaderPointer(g, a)
    IN  IF split >= MIN_SZ THEN forget(setPrev(g, f, FALSE), f) ELSE h1

\* sf_abort returns.  (No step sets the allocated bit of a footer.)
accepted(h, a) ==
    /\ a < End(h)
    /\ h.hdr[a].alloc
    /\ h.hdr[a].size >= MIN_SZ
    /\ h.hdr[a].size * 16 >= h.hdr[a].req + 8

-----------------------------------------------------------------------------
(* The calls of the program.                                               *)

Idle == exited = "running" /\ call = NoCall

\* Mutant: > for >=.
FitsStrict(n) == {s \in 1..Limit : 0 <= n /\ n < s /\ heap.nx[-s] # -s}

\* The lists that can serve a request for n rows.  The search compares as
\* unsigned long, where a negative n is larger than every block.
Fits(n) == {s \in 1..Limit : 0 <= n /\ n <= s /\ heap.nx[-s] # -s}

\* The first half of sf_malloc: choose a block, or find that there is none.
\* old is the handle of the pointer that sf_realloc replaces, or NoHandle.
\* Without a list of n rows or more the pointer header is uninitialised when
\* line 38 writes through it: the write goes where it does no harm, or
\* anywhere.  For a negative n that pointer then is the result.
StartMalloc(size, old) ==
    LET n == getNewSize(size)
        fits == Fits(n)
        enter(a, held) == call' = [size |-> size, old |-> old, cur |-> a, held |-> held]
    IN
    /\ UNCHANGED <<live, damaged>>
    /\ \/ /\ heap.pages = 0
          /\ heap' = mem_init(heap)
          /\ enter(0, TRUE)
          /\ UNCHANGED exited
       \/ /\ heap.pages > 0 /\ fits # {}
          /\ LET a == heap.nx[-(CHOOSE s \in fits : \A r \in fits : s <= r)] IN
                heap' = removeHeader(heap, a) /\ enter(a, TRUE)
          /\ UNCHANGED exited
       \/ /\ heap.pages > 0 /\ n < 0
          /\ exited' = "undefined"
          /\ UNCHANGED <<heap, call>>
       \/ /\ heap.pages > 0 /\ n >= 0 /\ fits = {}
          /\ enter(-1, FALSE)
          /\ exited' \in IF heap.largest >= n THEN {"running"}
                         ELSE {"running", "undefined"}
          /\ UNCHANGED heap

Malloc(size) ==
    /\ Idle
    /\ size > 0
    /\ DOMAIN live # Handles
    /\ StartMalloc(size, NoHandle)

\* The block in hand is too small for the request.
TooSmall ==
    /\ exited = "running" /\ call # NoCall
    /\ (IF call.cur = -1 THEN 0 ELSE heap.hdr[call.cur].size) < getNewSize(call.size)

\* One turn of the loop of sf_malloc in which mem_grow succeeds.  In a second
\* turn mem_grow takes the block in hand off a list once more; if that block
\* began as the epilogue, nobody has written its links.
Grow ==
    /\ TooSmall
    /\ heap.pages < MaxPages
    /\ IF ~heap.hdr[End(heap)].prev /\ heap.largest > 0 /\ heap.nx[lastFree(heap)] = NoLink
       THEN exited' = "undefined" /\ UNCHANGED <<heap, call>>
       ELSE /\ heap' = mem_grow(heap)
            /\ call' = [size |-> call.size, old |-> call.old, cur |-> grownHeader(heap), held |-> TRUE]
            /\ UNCHANGED exited
    /\ UNCHANGED <<live, damaged>>

\* mem_grow fails: it lists the last block, found through the word in front
\* of the epilogue, whether that block is free or not and whether it is on a
\* list already or not.  sf_malloc and sf_realloc return NULL.
GrowFails ==
    /\ TooSmall
    /\ heap.pages = MaxPages
    /\ IF heap.hdr[End(heap)].prev
       THEN exited' = "undefined" /\ UNCHANGED <<heap, damaged>>
       ELSE /\ heap' = addHeaderToFreeList(heap, lastFree(heap))
            /\ damaged' = (damaged \/ ~call.held)
            /\ UNCHANGED exited
    /\ call' = NoCall
    /\ UNCHANGED live

\* The block in hand is large enough.  sf_realloc then frees the old one.
Place ==
    LET a == call.cur
        h == allocate(heap, a, call.size)
        freed == call.old # NoHandle
        ok == freed => accepted(h, live[call.old].at)
    IN
    /\ exited = "running" /\ call # NoCall /\ ~TooSmall
    /\ heap' = IF freed /\ ok THEN release(h, live[call.old].at) ELSE h
    /\ exited' = IF ok THEN exited ELSE "abort"
    /\ \E i \in IF freed THEN {call.old} ELSE Handles \ DOMAIN live :
          live' = [j \in DOMAIN live \cup {i} |->
                      IF j = i THEN [at |-> a, req |-> call.size] ELSE live[j]]
    /\ call' = NoCall
    /\ UNCHANGED damaged

\* sf_free of a pointer the program owns.
Free(i) ==
    LET a == live[i].at IN
    /\ IF accepted(heap, a)
       THEN /\ heap' = release(heap, a)
            /\ live' = [j \in DOMAIN live \ {i} |-> live[j]]
            /\ UNCHANGED exited
       ELSE exited' = "abort" /\ UNCHANGED <<heap, live>>
    /\ UNCHANGED <<call, damaged>>

SfFree(i) == Idle /\ i \in DOMAIN live /\ Free(i)

Shrink(i, size) ==
    /\ heap' = shrink(heap, live[i].at, size)
    /\ live' = [live EXCEPT ![i].req = size]
    /\ UNCHANGED <<call, exited, damaged>>

\* Mutant: a size of 0 is not told apart from other smaller sizes.
ReallocWithoutZero(i, size) ==
    /\ Idle
    /\ i \in DOMAIN live
    /\ heap.hdr[live[i].at].req > size
    /\ Shrink(i, size)

\* sf_realloc: a failed sf_abort, a size of 0, a larger and a smaller request.
\* (For the same request it returns the pointer.)
Realloc(i, size) ==
    LET a == live[i].at IN
    /\ Idle
    /\ i \in DOMAIN live
    /\ \/ ~accepted(heap, a) /\ exited' = "abort" /\ UNCHANGED <<heap, live, call, damaged>>
       \/ accepted(heap, a) /\ size = 0 /\ Free(i)
       \/ accepted(heap, a) /\ heap.hdr[a].req < size /\ StartMalloc(size, i)
       \/ accepted(heap, a) /\ size > 0 /\ heap.hdr[a].req > size /\ Shrink(i, size)

\* A process that has ended takes no further step.
Halted == exited # "running" /\ UNCHANGED vars

Next ==
    \/ \E size \in Requests : Malloc(size)
    \/ Grow \/ GrowFails \/ Place
    \/ \E i \in Handles : SfFree(i) \/ \E size \in Requests \cup {0} : Realloc(i, size)
    \/ Halted

Spec == Init /\ [][Next]_vars

-----------------------------------------------------------------------------
(* Properties.                                                             *)

\* Headers, footers and links stay inside the heap, and a pointer the program
\* keeps is the address of a block with the request it was made for.
TypeOK ==
    /\ heap.pages \in 0..MaxPages
    /\ heap.hdr \in [Addr -> [size : Nat, alloc : BOOLEAN, prev : BOOLEAN, req : Nat]]
    /\ heap.ftr \in [Addr -> Nat]
    /\ heap.nx \in [Links -> Links \cup {NoLink}] /\ heap.pv \in [Links -> Links \cup {NoLink}]
    /\ heap.largest \in 0..Limit
    /\ DOMAIN live \subseteq Handles
    /\ \A i \in DOMAIN live : live[i] \in [at : Addr, req : Requests]
    /\ call \in [size : Requests \cup {0}, old : Handles \cup {NoHandle}, cur : Addr \cup {-1},
                 held : BOOLEAN]
    /\ exited \in {"running", "abort", "undefined"}
    /\ damaged \in BOOLEAN

\* The claims below are about the heap between two calls, as long as the
\* process runs and no failed sf_malloc has damaged a list.
Settled == Idle /\ ~damaged /\ heap.pages > 0

\* The first k blocks behind the prologue, as their headers chain them, and the
\* address that follows them.
Walk[k \in 0..Limit] ==
    IF k = 0 THEN {0}
    ELSE LET w == Walk[k - 1]
             a == Max(w)
         IN  IF a >= End(heap) THEN w ELSE w \cup {getNextHeaderPointer(heap, a)}

Blocks == Walk[Limit] \ {Max(Walk[Limit])}

\* Blocks in use and free blocks follow each other from the prologue to the
\* epilogue without gap or overlap, and the blocks in use are exactly the ones
\* whose pointers the program has.
BlocksTileHeap ==
    Settled =>
        /\ Max(Walk[Limit]) = End(heap)
        /\ {b \in Blocks : heap.hdr[b].alloc} = {live[i].at : i \in DOMAIN live}
        /\ \A i, j \in DOMAIN live : i # j => live[i].at # live[j].at

\* The boundary tags tell the truth: a header knows whether the block in front
\* of it is in use, a free block has a footer of its size, and no two free
\* blocks are neighbours.
BoundaryTags ==
    Settled => \A b \in Blocks :
        LET n == getNextHeaderPointer(heap, b) IN
        /\ heap.hdr[n].prev = heap.hdr[b].alloc
        /\ ~heap.hdr[b].alloc => heap.ftr[n] = heap.hdr[b].size /\ heap.hdr[n].alloc

\* The free list for s is a circle through its sentinel and exactly the free
\* blocks of size s: each of them is linked once, and no free block is lost.
FreeListsAreExact ==
    LET free == {b \in Blocks : ~heap.hdr[b].alloc} IN
    Settled => \A s \in 1..Limit :
        LET list == {b \in free : heap.hdr[b].size = s} \cup {-s} IN
        /\ list # {-s} => s <= heap.largest
        /\ \A l \in list :
              /\ heap.nx[l] \in list
              /\ heap.pv[heap.nx[l]] = l
              /\ heap.nx[l] = l => list = {-s}

\* The block of a request for r bytes is larger than an int can say.
Overflows(r) == r + 8 + 15 >= IntSize \div 2

\* Every block in use holds the bytes that were asked for, unless the size of
\* the block does not fit into an int.
PayloadHoldsRequest ==
    Settled => \A i \in DOMAIN live :
        Overflows(live[i].req) \/ heap.hdr[live[i].at].size * 16 >= live[i].req + 8

\* sf_abort accepts every pointer that sf_malloc or sf_realloc has returned: it
\* ends the process only for a block that an overflow has made too small.
OwnPointersAreAccepted ==
    ~damaged /\ exited = "abort" =>
        \E i \in DOMAIN live : Overflows(live[i].req) /\ ~accepted(heap, live[i].at)

\* A call grows the heap, reads the word in front of the epilogue as a footer
\* or writes through the uninitialised pointer of line 38 only when no free
\* block of the heap could serve its request: a block that fits is on a list
\* where the search finds it.
GrowsOnlyWithoutFit ==
    call # NoCall /\ call.cur = -1 /\ ~damaged =>
        \A b \in Blocks : ~heap.hdr[b].alloc => heap.hdr[b].size < getNewSize(call.size)
=============================================================================
