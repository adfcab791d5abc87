----------------------------- MODULE SfmmProofs -----------------------------
(* Proofs about the allocator, for every page size, number of pages, width *)
(* of int, set of requests and number of pointers.                         *)
EXTENDS Sfmm, NaturalLemmas

Header == [size : Nat, alloc : BOOLEAN, prev : BOOLEAN, req : Nat]

HeapType ==
    [pages : 0..MaxPages, hdr : [Addr -> Header], ftr : [Addr -> Nat],
     nx : [Links -> Links \cup {NoLink}], pv : [Links -> Links \cup {NoLink}],
     largest : 0..Limit]

-----------------------------------------------------------------------------
(* A heap as sizes, sets of flags, footers and links.                      *)

Sizes(h) == [x \in Addr |-> h.hdr[x].size]
Allocs(h) == {x \in Addr : h.hdr[x].alloc}
Prevs(h) == {x \in Addr : h.hdr[x].prev}

\* The sizes of the heap.
LEMMA Bounds ==
    /\ PageRows \in Nat /\ PageRows >= 5
    /\ Limit \in Nat /\ Limit >= 2
    /\ \A p \in 1..MaxPages : p * PageRows - 3 \in 2..Limit
    /\ \A p \in 1..(MaxPages - 1) : (p + 1) * PageRows - 3 = p * PageRows - 3 + PageRows
<1>1. PageRows \in Nat /\ PageRows >= 5 /\ MaxPages \in Nat \ {0}
  BY HeapAssumption DEF PageRows
<1>2. \A p \in 1..MaxPages : p * PageRows >= 5 /\ p * PageRows <= MaxPages * PageRows
  BY <1>1
<1>3. \A p \in Nat : (p + 1) * PageRows = p * PageRows + PageRows /\ p * PageRows \in Nat
  BY <1>1
<1> QED
  BY <1>1, <1>2, <1>3 DEF Limit

-----------------------------------------------------------------------------
(* The inductive invariant.  The blocks of a heap are the places where it  *)
(* has a size: everything inside a block is Unset.                         *)

Starts(sz, e) == {x \in 0..(e - 1) : sz[x] # 0}

\* The block at x in a heap that ends at e.
TilesAt(sz, A, P, ftr, e, x) ==
    LET n == x + sz[x] IN
    /\ sz[x] >= MIN_SZ
    /\ n \in Starts(sz, e) \cup {e}
    /\ \A y \in (x + 1)..(n - 1) : sz[y] = 0
    /\ n \in P <=> x \in A
    /\ x \notin A => ftr[n] = sz[x] /\ n \in A

Tiling(sz, A, P, ftr, e) ==
    /\ sz[0] # 0 /\ 0 \in P /\ e \in A
    /\ \A x \in e..Limit : sz[x] = 0
    /\ \A x \in Starts(sz, e) : TilesAt(sz, A, P, ftr, e, x)
    /\ \A x \in Starts(sz, e) \cup {e} : x # 0 => \E y \in Starts(sz, e) : y + sz[y] = x

\* The free lists: the links nx and pv are inverse to each other on the
\* sentinels and the blocks N, and never leave a list.
Sentinels == -Limit..-1
Class(sz, l) == IF l < 0 THEN -l ELSE sz[l]

Ring(nx, pv, N, sz) ==
    \A l \in N \cup Sentinels :
        /\ nx[l] \in N \cup Sentinels /\ pv[nx[l]] = l /\ Class(sz, nx[l]) = Class(sz, l)
        /\ pv[l] \in N \cup Sentinels /\ nx[pv[l]] = l

\* Every list goes through its sentinel: along the links the blocks have
\* increasing ranks.
Ranked(pv, N) == \E r \in [Addr -> Nat] : \A l \in N : pv[l] \in N => r[pv[l]] < r[l]

Lists(nx, pv, N, sz) == Ring(nx, pv, N, sz) /\ Ranked(pv, N)

FreeBlocks(h) == Starts(Sizes(h), End(h)) \ Allocs(h)
Used(h) == Starts(Sizes(h), End(h)) \cap Allocs(h)

\* A heap whose lists hold all free blocks but c.
Listed(h, c) ==
    /\ Lists(h.nx, h.pv, FreeBlocks(h) \ {c}, Sizes(h))
    /\ \A x \in FreeBlocks(h) \ {c} : Sizes(h)[x] <= h.largest
    /\ \A x \in Addr : x \notin FreeBlocks(h) => h.nx[x] = NoLink

\* The heap before the first call.
Untouched(h) ==
    /\ h.largest = 0
    /\ \A x \in Addr : Sizes(h)[x] = 0 /\ h.nx[x] = NoLink
    /\ \A l \in Sentinels : h.nx[l] = l /\ h.pv[l] = l

HeapOK(h, c) ==
    /\ h \in HeapType
    /\ h.pages = 0 => Untouched(h)
    /\ h.pages > 0 => /\ Tiling(Sizes(h), Allocs(h), Prevs(h), h.ftr, End(h))
                      /\ Listed(h, c)

\* The links of a block that is on no list any more still point to its old
\* neighbours.
Unlinked(h, a) ==
    LET N == (FreeBlocks(h) \ {a}) \cup Sentinels IN
    /\ h.nx[a] \in N /\ h.pv[a] \in N
    /\ h.nx[h.pv[a]] = h.nx[a] /\ h.pv[h.nx[a]] = h.pv[a]

\* The free block a that a call has in hand is the last one, and if mem_grow
\* takes it off a list, that changes nothing.
LastInHand(h, a) ==
    /\ a \in FreeBlocks(h) /\ a + h.hdr[a].size = End(h)
    /\ h.largest = 0 \/ h.nx[a] = NoLink \/ Unlinked(h, a)

CallType ==
    [size : Requests \cup {0}, old : Handles \cup {NoHandle}, cur : Addr \cup {-1}, held : BOOLEAN]

\* The call c of sf_malloc has searched the lists of the heap h.
CallOK(h, c) ==
    /\ c \in CallType
    /\ c # NoCall => c.size \in Requests /\ h.pages > 0
    /\ c # NoCall /\ c.cur = -1 =>
          /\ ~c.held /\ getNewSize(c.size) >= 2
          /\ \A s \in getNewSize(c.size)..Limit : h.nx[-s] = -s
    /\ c # NoCall /\ c.cur # -1 =>
          /\ c.held /\ c.cur \in FreeBlocks(h)
          /\ h.hdr[c.cur].size < getNewSize(c.size) => LastInHand(h, c.cur)

LiveType(l) == l \in [DOMAIN l -> [at : Addr, req : Requests]] /\ DOMAIN l \subseteq Handles

\* The pointers l of the program are those of the blocks in use.
LiveOK(h, c, l) ==
    /\ {l[i].at : i \in DOMAIN l} = Used(h)
    /\ \A i, j \in DOMAIN l : i # j => l[i].at # l[j].at
    /\ c # NoCall => c.old \in DOMAIN l \cup {NoHandle}

StateOK(h, c, l, x) ==
    /\ HeapOK(h, c.cur) /\ CallOK(h, c) /\ LiveType(l)
    /\ x \in {"running", "abort", "undefined"}
    /\ x = "running" => LiveOK(h, c, l)

HeapInvariant == damaged \in BOOLEAN /\ (~damaged => StateOK(heap, call, live, exited))

-----------------------------------------------------------------------------
(* What the helpers write: g is what one of them makes of h.               *)

Removed(g, h, a) ==
    /\ g \in HeapType
    /\ g.pages = h.pages /\ g.hdr = h.hdr /\ g.ftr = h.ftr /\ g.largest = h.largest
    /\ \A l \in Links : g.nx[l] = IF l = h.pv[a] THEN h.nx[a] ELSE h.nx[l]
    /\ \A l \in Links : g.pv[l] = IF l = h.nx[a] THEN h.pv[a] ELSE h.pv[l]

\* removeHeader writes two links.
LEMMA RemoveEffect ==
    ASSUME NEW h \in HeapType, NEW a \in Addr, h.nx[a] \in Links, h.pv[a] \in Links, h.pv[a] # a
    PROVE  Removed(removeHeader(h, a), h, a)
<1> DEFINE g == removeHeader(h, a)
<1>1. /\ g.pages = h.pages /\ g.hdr = h.hdr /\ g.ftr = h.ftr /\ g.largest = h.largest
      /\ g.nx = [h.nx EXCEPT ![h.pv[a]] = h.nx[a]]
      /\ g.pv = [h.pv EXCEPT ![g.nx[a]] = h.pv[a]]
  BY DEF HeapType, removeHeader
<1>2. g.nx[a] = h.nx[a]
  BY <1>1 DEF HeapType, Addr, Links
<1>3. g \in HeapType
  BY <1>1, <1>2 DEF HeapType, removeHeader
<1>4. h.nx \in [Links -> Links \cup {NoLink}] /\ h.pv \in [Links -> Links \cup {NoLink}]
  BY DEF HeapType
<1> HIDE DEF g
<1>5. /\ \A l \in Links : g.nx[l] = IF l = h.pv[a] THEN h.nx[a] ELSE h.nx[l]
      /\ \A l \in Links : g.pv[l] = IF l = h.nx[a] THEN h.pv[a] ELSE h.pv[l]
  BY <1>1, <1>2, <1>4
<1> QED
  BY <1>1, <1>3, <1>5 DEF Removed, g

FreeHeader(n) == [size |-> n, alloc |-> FALSE, prev |-> TRUE, req |-> 0]

\* Only the header of a is new.
NewHeader(g, h, a, hd) ==
    /\ g \in HeapType
    /\ g.pages = h.pages /\ g.ftr = h.ftr /\ g.nx = h.nx /\ g.pv = h.pv /\ g.largest = h.largest
    /\ \A x \in Addr : g.hdr[x] = IF x = a THEN hd ELSE h.hdr[x]

\* Writing one header.
LEMMA HeaderEffect ==
    ASSUME NEW h \in HeapType, NEW a \in Addr, NEW hd \in Header
    PROVE  NewHeader([h EXCEPT !.hdr[a] = hd], h, a, hd)
<1> DEFINE g == [h EXCEPT !.hdr[a] = hd]
<1>1. /\ g \in HeapType
      /\ g.pages = h.pages /\ g.ftr = h.ftr /\ g.nx = h.nx /\ g.pv = h.pv /\ g.largest = h.largest
      /\ g.hdr = [h.hdr EXCEPT ![a] = hd]
  BY DEF HeapType
<1>2. h.hdr \in [Addr -> Header]
  BY DEF HeapType
<1> HIDE DEF g
<1>3. \A x \in Addr : g.hdr[x] = IF x = a THEN hd ELSE h.hdr[x]
  BY <1>1, <1>2
<1> QED
  BY <1>1, <1>3 DEF NewHeader, g

\* setFreeHeader writes one header.
LEMMA FreeHeaderEffect ==
    ASSUME NEW h \in HeapType, NEW a \in Addr, NEW s \in Nat
    PROVE  NewHeader(setFreeHeader(h, a, s), h, a, FreeHeader(s))
<1>1. FreeHeader(s) \in Header
  BY DEF Header, FreeHeader
<1>2. setFreeHeader(h, a, s) = [h EXCEPT !.hdr[a] = FreeHeader(s)]
  BY DEF setFreeHeader, FreeHeader
<1> QED
  BY <1>1, <1>2, HeaderEffect

\* createEpilogue writes the header of the epilogue.
LEMMA EpilogueEffect ==
    ASSUME NEW h \in HeapType, End(h) \in Addr
    PROVE  NewHeader(createEpilogue(h), h, End(h),
                     [size |-> 0, alloc |-> TRUE, prev |-> FALSE, req |-> h.hdr[End(h)].req])
<1> DEFINE e == End(h)
           hd == [size |-> 0, alloc |-> TRUE, prev |-> FALSE, req |-> h.hdr[e].req]
<1>1. hd \in Header
  BY DEF HeapType, Header
<1>2. createEpilogue(h) = [h EXCEPT !.hdr[e] = hd]
  BY DEF createEpilogue, HeapType
<1>3. e \in Addr
  OBVIOUS
<1> HIDE DEF hd, e
<1>4. NewHeader(createEpilogue(h), h, e, hd)
  BY <1>1, <1>2, <1>3, HeaderEffect
<1> QED
  BY <1>4 DEF hd, e

NewFooter(g, h, n, s) ==
    /\ g \in HeapType
    /\ g.pages = h.pages /\ g.hdr = h.hdr /\ g.nx = h.nx /\ g.pv = h.pv /\ g.largest = h.largest
    /\ \A x \in Addr : g.ftr[x] = IF x = n THEN s ELSE h.ftr[x]

\* setFooter writes one footer, in front of the next header.
LEMMA FooterEffect ==
    ASSUME NEW h \in HeapType, NEW a \in Addr, NEW s \in Nat, NEW n, n = a + h.hdr[a].size
    PROVE  NewFooter(setFooter(h, a, s), h, n, s)
<1> DEFINE g == setFooter(h, a, s)
<1>1. /\ g \in HeapType
      /\ g.pages = h.pages /\ g.hdr = h.hdr /\ g.nx = h.nx /\ g.pv = h.pv
      /\ g.largest = h.largest
      /\ g.ftr = [h.ftr EXCEPT ![n] = s]
  BY DEF HeapType, setFooter, getNextHeaderPointer
<1>2. h.ftr \in [Addr -> Nat]
  BY DEF HeapType
<1> HIDE DEF g
<1>3. \A x \in Addr : g.ftr[x] = IF x = n THEN s ELSE h.ftr[x]
  BY <1>1, <1>2
<1> QED
  BY <1>1, <1>3 DEF NewFooter, g

\* The block at a has become a free block of size k.
Coalesced(g, h, a, k) ==
    /\ g \in HeapType
    /\ g.pages = h.pages /\ g.nx = h.nx /\ g.pv = h.pv /\ g.largest = h.largest
    /\ \A x \in Addr : g.hdr[x] = IF x = a THEN FreeHeader(k) ELSE h.hdr[x]
    /\ \A x \in Addr : g.ftr[x] = IF x = a + k THEN k ELSE h.ftr[x]
    /\ g.hdr[a].size = k

\* coalesce writes a header and a footer.
LEMMA CoalesceEffect ==
    ASSUME NEW h \in HeapType, NEW a \in Addr, NEW s \in Nat, NEW k, k = h.hdr[a].size + s
    PROVE  Coalesced(coalesce(h, a, s), h, a, k)
<1> DEFINE f == setFreeHeader(h, a, k)
           g == setFooter(f, a, k)
<1>1. k \in Nat
  BY DEF HeapType, Header
<1>2. coalesce(h, a, s) = g
  BY DEF coalesce
<1>3. NewHeader(f, h, a, FreeHeader(k))
  BY <1>1, FreeHeaderEffect
<1> HIDE DEF f
<1>4. f.hdr[a] = FreeHeader(k) /\ f \in HeapType
  BY <1>3 DEF NewHeader
<1>5. f.hdr[a].size = k
  BY <1>4 DEF FreeHeader
<1>6. a + k = a + f.hdr[a].size
  BY <1>5
<1>7. NewFooter(g, f, a + k, k)
  BY <1>1, <1>4, <1>6, FooterEffect
<1> HIDE DEF g
<1> QED
  BY <1>2, <1>3, <1>5, <1>7 DEF Coalesced, NewHeader, NewFooter

\* The block at a, of size k, is the first of its list.
Added(g, h, a, k) ==
    /\ g \in HeapType
    /\ g.pages = h.pages /\ g.hdr = h.hdr /\ g.ftr = h.ftr
    /\ g.largest >= h.largest /\ g.largest >= k
    /\ \A l \in Links : g.nx[l] = IF l = -k THEN a ELSE IF l = a THEN h.nx[-k] ELSE h.nx[l]
    /\ \A l \in Links : g.pv[l] = IF l = h.nx[-k] THEN a ELSE IF l = a THEN -k ELSE h.pv[l]

\* addHeaderToFreeList writes four links and the largest size.
LEMMA AddEffect ==
    ASSUME NEW h \in HeapType, NEW a \in Addr, NEW k \in 1..Limit, h.hdr[a].size = k,
           h.nx[-k] \in Links, h.nx[-k] # a
    PROVE  Added(addHeaderToFreeList(h, a), h, a, k)
<1> DEFINE s == -k
           f == h.nx[s]
           m == Max({h.largest, -s})
           g0 == [h EXCEPT !.largest = Max({@, -s})]
           g1 == [g0 EXCEPT !.nx[a] = g0.nx[s]]
           g2 == [g1 EXCEPT !.pv[a] = s]
           g3 == [g2 EXCEPT !.pv[g2.nx[s]] = a]
           g4 == [g3 EXCEPT !.nx[s] = a]
<1>0. s \in Links /\ a \in Links /\ s < 0 /\ a >= 0 /\ -s \in 1..Limit /\ -s = k /\ h.largest \in 0..Limit
  <2>1. Limit \in Nat
    BY Bounds
  <2>2. s \in Links /\ a \in Links /\ s < 0 /\ a >= 0 /\ -s \in 1..Limit /\ -s = k
    BY <2>1 DEF Links, Addr
  <2> QED
    BY <2>2 DEF HeapType
<1>1. m \in {h.largest, -s} /\ m >= h.largest /\ m >= -s
  <2>1. -s \in 0..Limit /\ h.largest \in 0..Limit
    BY <1>0
  <2> HIDE DEF s
  <2>2. {h.largest, -s} \subseteq 0..Limit /\ {h.largest, -s} # {}
    BY <2>1
  <2> QED
    BY <2>2, Bounds, MaxIsGreatest
<1>2. m \in 0..Limit
  BY <1>0, <1>1
<1>3. addHeaderToFreeList(h, a) = g4
  BY DEF addHeaderToFreeList
<1> HIDE DEF s, m
<1>4. /\ g0 \in HeapType /\ g0.pages = h.pages /\ g0.hdr = h.hdr /\ g0.ftr = h.ftr
      /\ g0.nx = h.nx /\ g0.pv = h.pv /\ g0.largest = m
  BY <1>2 DEF HeapType, m
<1> HIDE DEF g0
<1>5. /\ g1 \in HeapType /\ g1.pages = h.pages /\ g1.hdr = h.hdr /\ g1.ftr = h.ftr
      /\ g1.nx = [h.nx EXCEPT ![a] = f] /\ g1.pv = h.pv /\ g1.largest = m
  BY <1>0, <1>4 DEF HeapType, s
<1> HIDE DEF g1
<1>6. /\ g2 \in HeapType /\ g2.pages = h.pages /\ g2.hdr = h.hdr /\ g2.ftr = h.ftr
      /\ g2.nx = g1.nx /\ g2.pv = [h.pv EXCEPT ![a] = s] /\ g2.largest = m
  BY <1>0, <1>5 DEF HeapType
<1>7. g2.nx[s] = f
  BY <1>0, <1>5, <1>6 DEF HeapType
<1> HIDE DEF g2
<1>8. /\ g3 \in HeapType /\ g3.pages = h.pages /\ g3.hdr = h.hdr /\ g3.ftr = h.ftr
      /\ g3.nx = g1.nx /\ g3.pv = [g2.pv EXCEPT ![f] = a] /\ g3.largest = m
  BY <1>0, <1>6, <1>7 DEF HeapType
<1> HIDE DEF g3
<1>9. /\ g4 \in HeapType /\ g4.pages = h.pages /\ g4.hdr = h.hdr /\ g4.ftr = h.ftr
      /\ g4.nx = [g1.nx EXCEPT ![s] = a] /\ g4.pv = g3.pv /\ g4.largest = m
  BY <1>0, <1>8 DEF HeapType
<1> HIDE DEF g4
<1>10. h.nx \in [Links -> Links \cup {NoLink}] /\ h.pv \in [Links -> Links \cup {NoLink}]
  BY DEF HeapType
<1>13. f # a
  BY DEF s
<1> HIDE DEF f
<1>11. \A l \in Links : g4.nx[l] = IF l = s THEN a ELSE IF l = a THEN f ELSE h.nx[l]
  BY <1>0, <1>5, <1>9, <1>10
<1>12. \A l \in Links : g4.pv[l] = IF l = f THEN a ELSE IF l = a THEN s ELSE h.pv[l]
  BY <1>0, <1>6, <1>8, <1>9, <1>10
<1> QED
  BY <1>0, <1>1, <1>3, <1>9, <1>11, <1>12 DEF Added, s, f

\* setPrev changes one bit of the header at n.
PrevSet(g, h, n, b) ==
    /\ g \in HeapType
    /\ g.pages = h.pages /\ g.ftr = h.ftr /\ g.nx = h.nx /\ g.pv = h.pv /\ g.largest = h.largest
    /\ \A x \in Addr : x # n => g.hdr[x] = h.hdr[x]
    /\ g.hdr[n].size = h.hdr[n].size /\ g.hdr[n].alloc = h.hdr[n].alloc
    /\ g.hdr[n].prev = b /\ g.hdr[n].req = h.hdr[n].req

\* setPrev writes one bit of the next header.
LEMMA PrevEffect ==
    ASSUME NEW h \in HeapType, NEW a \in Addr, NEW b \in BOOLEAN, NEW n \in Addr,
           n = a + h.hdr[a].size
    PROVE  PrevSet(setPrev(h, a, b), h, n, b)
<1> DEFINE hd == [size |-> h.hdr[n].size, alloc |-> h.hdr[n].alloc, prev |-> b, req |-> h.hdr[n].req]
           g == [h EXCEPT !.hdr[n] = hd]
<1>1. setPrev(h, a, b) = [h EXCEPT !.hdr[n].prev = b]
  BY DEF setPrev, getNextHeaderPointer
<1>3. h.hdr \in [Addr -> Header] /\ h.hdr[n] \in Header
  BY DEF HeapType
<1>4. hd \in Header
  BY <1>3 DEF Header
<1>5. [h.hdr[n] EXCEPT !.prev = b] = hd
  BY <1>3 DEF Header
<1>6. setPrev(h, a, b) = g
  BY <1>1, <1>5
<1>7. hd.size = h.hdr[n].size /\ hd.alloc = h.hdr[n].alloc /\ hd.prev = b /\ hd.req = h.hdr[n].req
  OBVIOUS
<1> HIDE DEF hd
<1>8. NewHeader(g, h, n, hd)
  BY <1>4, HeaderEffect
<1> HIDE DEF g
<1>9. g.hdr[n] = hd
  BY <1>8 DEF NewHeader
<1> QED
  BY <1>6, <1>7, <1>8, <1>9 DEF NewHeader, PrevSet

\* The words in ins hold no header, the words in words no links, and the
\* words in ends no footer any more.
Forgotten(g, h, ins, words, ends) ==
    /\ g \in HeapType
    /\ g.pages = h.pages /\ g.largest = h.largest
    /\ \A x \in Addr : g.hdr[x] = IF x \in ins THEN Unset ELSE h.hdr[x]
    /\ \A x \in Addr : g.ftr[x] = IF x \in ends THEN 0 ELSE h.ftr[x]
    /\ \A x \in Links : g.nx[x] = IF x \in words THEN NoLink ELSE h.nx[x]
    /\ \A x \in Links : g.pv[x] = IF x \in words THEN NoLink ELSE h.pv[x]

\* forget clears what is inside a block.
LEMMA ForgetEffect ==
    ASSUME NEW h \in HeapType, NEW a \in Addr, NEW m \in Nat, a < m, m = a + h.hdr[a].size
    PROVE  /\ ~h.hdr[a].alloc =>
                Forgotten(forget(h, a), h, (a + 1)..(m - 1), (a + 1)..(m - 1), (a + 1)..(m - 1))
           /\ h.hdr[a].alloc =>
                Forgotten(forget(h, a), h, (a + 1)..(m - 1), a..(m - 1), (a + 1)..m)
<1> DEFINE inside == (a + 1)..(m - 1)
           words == inside \cup (IF h.hdr[a].alloc THEN {a} ELSE {})
           ends == inside \cup (IF h.hdr[a].alloc THEN {m} ELSE {})
           hdr == [x \in Addr |-> IF x \in inside THEN Unset ELSE h.hdr[x]]
           ftr == [x \in Addr |-> IF x \in ends THEN 0 ELSE h.ftr[x]]
           nx == [x \in Links |-> IF x \in words THEN NoLink ELSE h.nx[x]]
           pv == [x \in Links |-> IF x \in words THEN NoLink ELSE h.pv[x]]
<1>1. forget(h, a) = [pages |-> h.pages, largest |-> h.largest,
                      hdr |-> hdr, ftr |-> ftr, nx |-> nx, pv |-> pv]
  BY DEF forget, getNextHeaderPointer
<1>8. /\ ~h.hdr[a].alloc => words = inside /\ ends = inside
      /\ h.hdr[a].alloc => words = a..(m - 1) /\ ends = (a + 1)..m
  <2>1. a..(m - 1) = inside \cup {a} /\ (a + 1)..m = inside \cup {m}
    BY DEF Addr
  <2> HIDE DEF inside
  <2> QED
    BY <2>1
<1> HIDE DEF inside, words, ends
<1>2. hdr \in [Addr -> Header]
  BY DEF HeapType, Header, Unset
<1>3. ftr \in [Addr -> Nat]
  BY DEF HeapType
<1>4. nx \in [Links -> Links \cup {NoLink}] /\ pv \in [Links -> Links \cup {NoLink}]
  BY DEF HeapType
<1>5. h.pages \in 0..MaxPages /\ h.largest \in 0..Limit
  BY DEF HeapType
<1>6. /\ \A x \in Addr : hdr[x] = IF x \in inside THEN Unset ELSE h.hdr[x]
      /\ \A x \in Addr : ftr[x] = IF x \in ends THEN 0 ELSE h.ftr[x]
      /\ \A x \in Links : nx[x] = IF x \in words THEN NoLink ELSE h.nx[x]
      /\ \A x \in Links : pv[x] = IF x \in words THEN NoLink ELSE h.pv[x]
  OBVIOUS
<1> HIDE DEF hdr, ftr, nx, pv
<1>7. forget(h, a) \in HeapType
  BY <1>1, <1>2, <1>3, <1>4, <1>5 DEF HeapType
<1>9. Forgotten(forget(h, a), h, inside, words, ends)
  BY <1>1, <1>6, <1>7 DEF Forgotten
<1> QED
  BY <1>8, <1>9 DEF inside

-----------------------------------------------------------------------------
(* Replacing blocks.                                                       *)

\* Outside of b..m - 1 a heap is what another one was, but that the flag and
\* the footer of b that stand for the block behind it may be new.
AgreeOutside(sz, A, P, ftr, sz2, A2, P2, ftr2, b, m) ==
    /\ \A x \in Addr : x \notin b..(m - 1) => sz2[x] = sz[x] /\ (x \in A2 <=> x \in A)
    /\ \A x \in Addr : x \notin (b + 1)..m => ftr2[x] = ftr[x] /\ (x \in P2 <=> x \in P)

\* Blocks do not overlap.
LEMMA NoOverlap ==
    ASSUME NEW e \in 2..Limit, NEW sz \in [Addr -> Nat], NEW A, NEW P, NEW ftr,
           Tiling(sz, A, P, ftr, e),
           NEW x \in Starts(sz, e), NEW y \in Starts(sz, e) \cup {e}, x < y
    PROVE  x + sz[x] <= y
<1>1. x \in Nat /\ y \in Nat /\ sz[x] \in Nat /\ e \in Nat /\ x \in Addr /\ y \in Addr
  BY Bounds DEF Starts, Addr
<1>2. x + sz[x] <= e
  BY <1>1 DEF Tiling, TilesAt, Starts
<1>3. CASE y = e
  BY <1>2, <1>3
<1>4. CASE y \in Starts(sz, e)
  <2>1. sz[y] # 0 /\ \A z \in (x + 1)..(x + sz[x] - 1) : sz[z] = 0
    <3>1. sz[y] # 0
      BY <1>4 DEF Starts
    <3>2. TilesAt(sz, A, P, ftr, e, x)
      BY DEF Tiling
    <3> QED
      BY <1>1, <3>1, <3>2 DEF TilesAt
  <2> QED
    BY <2>1, <1>1
<1> QED
  BY <1>3, <1>4

\* The blocks from b to m become one block.
LEMMA RetileOne ==
    ASSUME NEW e \in 2..Limit, NEW sz \in [Addr -> Nat], NEW A, NEW P, NEW ftr,
           Tiling(sz, A, P, ftr, e),
           NEW b \in Starts(sz, e), NEW m \in Starts(sz, e) \cup {e}, m - b >= 2,
           NEW sz2 \in [Addr -> Nat], NEW A2, NEW P2, NEW ftr2,
           AgreeOutside(sz, A, P, ftr, sz2, A2, P2, ftr2, b, m),
           sz2[b] = m - b, \A x \in (b + 1)..(m - 1) : sz2[x] = 0,
           m \in P2 <=> b \in A2,
           b \notin A2 => b \in P /\ m \in A /\ ftr2[m] = m - b
    PROVE  /\ Tiling(sz2, A2, P2, ftr2, e)
           /\ Starts(sz2, e) = (Starts(sz, e) \ (b..(m - 1))) \cup {b}
<1> DEFINE T == Starts(sz, e)
           T2 == Starts(sz2, e)
<1>1. /\ e \in Nat /\ e >= 2 /\ b \in 0..(e - 1) /\ m \in 0..e /\ Limit \in Nat /\ e <= Limit
      /\ b \in Addr /\ m \in Addr /\ e \in Addr
  BY Bounds DEF Starts, Addr
<1>2. \A x \in 0..(e - 1) : x \in Addr /\ sz[x] \in Nat /\ sz2[x] \in Nat /\ x \in Nat
  <2>1. \A x \in 0..(e - 1) : x \in Addr /\ x \in Nat
    BY <1>1 DEF Addr
  <2> QED
    BY <2>1
<1>3. \A x \in Addr : x \notin b..(m - 1) => sz2[x] = sz[x] /\ (x \in A2 <=> x \in A)
  BY DEF AgreeOutside
<1>4. \A x \in Addr : x \notin (b + 1)..m => ftr2[x] = ftr[x] /\ (x \in P2 <=> x \in P)
  BY DEF AgreeOutside
<1>5. T2 = (T \ (b..(m - 1))) \cup {b}
  <2>1. \A x \in 0..(e - 1) : x \in b..(m - 1) => (sz2[x] # 0 <=> x = b)
    BY <1>1
  <2>2. \A x \in 0..(e - 1) : x \notin b..(m - 1) => (sz2[x] # 0 <=> sz[x] # 0)
    BY <1>2, <1>3
  <2>3. b \in b..(m - 1) /\ b \in 0..(e - 1)
    BY <1>1
  <2> QED
    BY <2>1, <2>2, <2>3 DEF Starts
<1>6. \A x \in T : TilesAt(sz, A, P, ftr, e, x)
  BY DEF Tiling
<1>7. \A x \in T : x < b => x + sz[x] <= b
  BY NoOverlap
<1>8. \A x \in T : x < m => x + sz[x] <= m
  BY NoOverlap
<1> HIDE DEF T, T2
<1>9. T \subseteq 0..(e - 1) /\ T2 \subseteq 0..(e - 1)
  BY DEF T, T2, Starts
<1>10. sz2[0] # 0 /\ 0 \in P2 /\ e \in A2
  <2>1. sz[0] # 0 /\ 0 \in P /\ e \in A
    BY DEF Tiling
  <2>2. 0 \in T /\ (b = 0 \/ 0 \notin b..(m - 1)) /\ 0 \notin (b + 1)..m /\ e \notin b..(m - 1) /\ 0 \in Addr
    BY <1>1, <2>1 DEF T, Starts, Addr
  <2> QED
    BY <1>1, <1>3, <1>4, <2>1, <2>2
<1>11. \A x \in e..Limit : sz2[x] = 0
  <2>1. \A x \in e..Limit : sz[x] = 0 /\ x \in Addr /\ x \notin b..(m - 1)
    BY <1>1 DEF Tiling, Addr
  <2> QED
    BY <1>3, <2>1
<1>12. ASSUME NEW x \in T2 PROVE TilesAt(sz2, A2, P2, ftr2, e, x)
  <2>1. CASE x = b
    <3>1. x + sz2[x] = m
      BY <2>1, <1>1
    <3>2. m \in T2 \cup {e}
      BY <1>1, <1>5 DEF T
    <3>3. m \in A2 <=> m \in A
      BY <1>1, <1>3
    <3> QED
      BY <2>1, <3>1, <3>2, <3>3, <1>1 DEF TilesAt, MIN_SZ, T2
  <2>2. CASE x # b
    <3> DEFINE n == x + sz[x]
    <3>1. x \in T /\ x \notin b..(m - 1) /\ x \in Addr /\ x \in 0..(e - 1)
      BY <1>2, <1>5, <1>9, <2>2
    <3>2. sz2[x] = sz[x] /\ (x \in A2 <=> x \in A) /\ sz[x] \in Nat
      BY <1>2, <1>3, <3>1
    <3>3. /\ sz[x] >= 2 /\ n \in T \cup {e} /\ (\A y \in (x + 1)..(n - 1) : sz[y] = 0)
          /\ (n \in P <=> x \in A) /\ (x \notin A => ftr[n] = sz[x] /\ n \in A)
      BY <1>6, <3>1 DEF TilesAt, MIN_SZ, T
    <3>4. n \in Addr /\ n \in Nat /\ n > x /\ n <= e /\ x \in Nat
      <4>1. n = x + sz[x] /\ x \in Nat
        BY <3>1
      <4> HIDE DEF n
      <4>2. n \in 0..e
        BY <1>1, <1>9, <3>3
      <4>3. n > x
        BY <3>2, <3>3, <4>1
      <4>4. n \in Addr /\ n \in Nat /\ n <= e
        BY <1>1, <4>2 DEF Addr
      <4> QED
        BY <4>1, <4>3, <4>4
    <3> HIDE DEF n
    <3>5. (x < b /\ n <= b) \/ (x >= m /\ n > m)
      <4>1. x < b => n <= b
        BY <1>7, <3>1 DEF n
      <4> QED
        BY <1>1, <3>1, <3>4, <4>1
    <3>6. n \notin (b + 1)..m /\ (n \in b..(m - 1) => n = b)
      BY <1>1, <3>1, <3>4, <3>5
    <3>7. n \in T2 \cup {e} /\ (n \in P2 <=> n \in P) /\ ftr2[n] = ftr[n]
      BY <1>4, <1>5, <3>3, <3>4, <3>6
    <3>8. \A y \in (x + 1)..(n - 1) : sz2[y] = 0
      <4>1. ASSUME NEW y \in (x + 1)..(n - 1) PROVE y \in Addr /\ y \notin b..(m - 1)
        <5>1. y \in Nat /\ y > x /\ y < n
          BY <3>4
        <5>2. y <= Limit /\ (y < b \/ y >= m)
          BY <1>1, <3>4, <3>5, <5>1
        <5>3. y \in Addr
          BY <1>1, <5>1, <5>2 DEF Addr
        <5> QED
          BY <1>1, <5>1, <5>2, <5>3
      <4> QED
        BY <1>3, <3>3, <4>1
    <3>9. n \in A /\ x \notin A => n \in A2
      <4>1. n # b => (n \in A2 <=> n \in A)
        BY <1>3, <3>4, <3>6
      <4>2. CASE n = b /\ x \notin A
        BY <4>2, <3>3
      <4> QED
        BY <4>1, <4>2
    <3> QED
      BY <3>2, <3>3, <3>7, <3>8, <3>9 DEF TilesAt, MIN_SZ, T2, n
  <2> QED
    BY <2>1, <2>2
<1>13. ASSUME NEW x \in T2 \cup {e}, x # 0 PROVE \E y \in T2 : y + sz2[y] = x
  <2>1. x \in T \cup {e} /\ x \in 0..e
    BY <1>1, <1>5, <1>9 DEF T
  <2>2. PICK y \in T : y + sz[y] = x
    BY <1>13, <2>1 DEF Tiling, T
  <2>3. y \in 0..(e - 1) /\ sz[y] \in Nat /\ sz[y] >= 2 /\ y \in Addr
    BY <1>2, <1>6, <1>9 DEF TilesAt, MIN_SZ
  <2>4. CASE x = m
    <3>1. b + sz2[b] = x /\ b \in T2
      BY <1>1, <1>5, <2>4
    <3> QED
      BY <3>1
  <2>5. CASE x # m
    <3>1. x <= b \/ x > m
      BY <1>1, <1>5, <2>1, <2>5
    <3>2. y \notin b..(m - 1)
      BY <1>1, <1>8, <2>1, <2>2, <2>3, <3>1
    <3>3. y \in T2 /\ sz2[y] = sz[y]
      BY <1>3, <1>5, <2>3, <3>2
    <3> QED
      BY <2>2, <3>3
  <2> QED
    BY <2>4, <2>5
<1> QED
  BY <1>5, <1>10, <1>11, <1>12, <1>13 DEF Tiling, T, T2

\* The blocks from b to m become a block in use and, from c on, a free one.
LEMMA RetileTwo ==
    ASSUME NEW e \in 2..Limit, NEW sz \in [Addr -> Nat], NEW A, NEW P, NEW ftr,
           Tiling(sz, A, P, ftr, e),
           NEW b \in Starts(sz, e), NEW m \in Starts(sz, e) \cup {e},
           NEW c \in Nat, c - b >= 2, m - c >= 2,
           NEW sz2 \in [Addr -> Nat], NEW A2, NEW P2, NEW ftr2,
           AgreeOutside(sz, A, P, ftr, sz2, A2, P2, ftr2, b, m),
           sz2[b] = c - b, sz2[c] = m - c, \A x \in (b + 1)..(m - 1) : x # c => sz2[x] = 0,
           b \in A2, c \in P2, c \notin A2, m \notin P2, m \in A, ftr2[m] = m - c
    PROVE  /\ Tiling(sz2, A2, P2, ftr2, e)
           /\ Starts(sz2, e) = (Starts(sz, e) \ (b..(m - 1))) \cup {b, c}
<1> DEFINE T == Starts(sz, e)
           T2 == Starts(sz2, e)
<1>1. /\ e \in Nat /\ e >= 2 /\ b \in 0..(e - 1) /\ m \in 0..e /\ Limit \in Nat /\ e <= Limit
      /\ b \in Addr /\ m \in Addr /\ e \in Addr /\ c \in Addr /\ c \in Nat
  BY Bounds, SMTT(40) DEF Starts, Addr
<1>2. \A x \in 0..(e - 1) : x \in Addr /\ sz[x] \in Nat /\ sz2[x] \in Nat /\ x \in Nat
  <2>1. \A x \in 0..(e - 1) : x \in Addr /\ x \in Nat
    BY <1>1 DEF Addr
  <2> QED
    BY <2>1
<1>3. \A x \in Addr : x \notin b..(m - 1) => sz2[x] = sz[x] /\ (x \in A2 <=> x \in A)
  BY DEF AgreeOutside
<1>4. \A x \in Addr : x \notin (b + 1)..m => ftr2[x] = ftr[x] /\ (x \in P2 <=> x \in P)
  BY DEF AgreeOutside
<1>5. T2 = (T \ (b..(m - 1))) \cup {b, c}
  <2>1. \A x \in 0..(e - 1) : x \in b..(m - 1) => (sz2[x] # 0 <=> x = b \/ x = c)
    BY <1>1
  <2>2. \A x \in 0..(e - 1) : x \notin b..(m - 1) => (sz2[x] # 0 <=> sz[x] # 0)
    BY <1>2, <1>3
  <2>3. {b, c} \subseteq b..(m - 1) /\ {b, c} \subseteq 0..(e - 1)
    BY <1>1
  <2> QED
    BY <2>1, <2>2, <2>3 DEF Starts
<1>6. \A x \in T : TilesAt(sz, A, P, ftr, e, x)
  BY DEF Tiling
<1>7. \A x \in T : x < b => x + sz[x] <= b
  BY NoOverlap
<1>8. \A x \in T : x < m => x + sz[x] <= m
  BY NoOverlap
<1> HIDE DEF T, T2
<1>9. T \subseteq 0..(e - 1) /\ T2 \subseteq 0..(e - 1)
  BY DEF T, T2, Starts
<1>10. sz2[0] # 0 /\ 0 \in P2 /\ e \in A2
  <2>1. sz[0] # 0 /\ 0 \in P /\ e \in A
    BY DEF Tiling
  <2>2. 0 \in T /\ (b = 0 \/ 0 \notin b..(m - 1)) /\ 0 \notin (b + 1)..m /\ e \notin b..(m - 1) /\ 0 \in Addr
    BY <1>1, <2>1 DEF T, Starts, Addr
  <2> QED
    BY <1>1, <1>3, <1>4, <2>1, <2>2
<1>11. \A x \in e..Limit : sz2[x] = 0
  <2>1. \A x \in e..Limit : sz[x] = 0 /\ x \in Addr /\ x \notin b..(m - 1)
    BY <1>1 DEF Tiling, Addr
  <2> QED
    BY <1>3, <2>1
<1>12. ASSUME NEW x \in T2 PROVE TilesAt(sz2, A2, P2, ftr2, e, x)
  <2>1. CASE x = b
    <3>1. x + sz2[x] = c /\ \A y \in (x + 1)..(c - 1) : sz2[y] = 0
      BY <2>1, <1>1
    <3>2. c \in T2
      BY <1>5
    <3> QED
      BY <2>1, <3>1, <3>2, <1>1 DEF TilesAt, MIN_SZ, T2
  <2>3. CASE x = c
    <3>1. x + sz2[x] = m /\ \A y \in (x + 1)..(m - 1) : sz2[y] = 0
      BY <2>3, <1>1
    <3>2. m \in T2 \cup {e}
      BY <1>1, <1>5 DEF T
    <3>3. m \in A2 <=> m \in A
      BY <1>1, <1>3
    <3> QED
      BY <2>3, <3>1, <3>2, <3>3, <1>1 DEF TilesAt, MIN_SZ, T2
  <2>2. CASE x # b /\ x # c
    <3> DEFINE n == x + sz[x]
    <3>1. x \in T /\ x \notin b..(m - 1) /\ x \in Addr /\ x \in 0..(e - 1)
      BY <1>2, <1>5, <1>9, <2>2
    <3>2. sz2[x] = sz[x] /\ (x \in A2 <=> x \in A) /\ sz[x] \in Nat
      BY <1>2, <1>3, <3>1
    <3>3. /\ sz[x] >= 2 /\ n \in T \cup {e} /\ (\A y \in (x + 1)..(n - 1) : sz[y] = 0)
          /\ (n \in P <=> x \in A) /\ (x \notin A => ftr[n] = sz[x] /\ n \in A)
      BY <1>6, <3>1 DEF TilesAt, MIN_SZ, T
    <3>4. n \in Addr /\ n \in Nat /\ n > x /\ n <= e /\ x \in Nat
      <4>1. n = x + sz[x] /\ x \in Nat
        BY <3>1
      <4> HIDE DEF n
      <4>2. n \in 0..e
        BY <1>1, <1>9, <3>3
      <4>3. n > x
        BY <3>2, <3>3, <4>1
      <4>4. n \in Addr /\ n \in Nat /\ n <= e
        BY <1>1, <4>2 DEF Addr
      <4> QED
        BY <4>1, <4>3, <4>4
    <3> HIDE DEF n
    <3>5. (x < b /\ n <= b) \/ (x >= m /\ n > m)
      <4>1. x < b => n <= b
        BY <1>7, <3>1 DEF n
      <4> QED
        BY <1>1, <3>1, <3>4, <4>1
    <3>6. n \notin (b + 1)..m /\ (n \in b..(m - 1) => n = b)
      BY <1>1, <3>1, <3>4, <3>5
    <3>7. n \in T2 \cup {e} /\ (n \in P2 <=> n \in P) /\ ftr2[n] = ftr[n]
      BY <1>4, <1>5, <3>3, <3>4, <3>6
    <3>8. \A y \in (x + 1)..(n - 1) : sz2[y] = 0
      <4>1. ASSUME NEW y \in (x + 1)..(n - 1) PROVE y \in Addr /\ y \notin b..(m - 1)
        <5>1. y \in Nat /\ y > x /\ y < n
          BY <3>4
        <5>2. y <= Limit /\ (y < b \/ y >= m)
          BY <1>1, <3>4, <3>5, <5>1
        <5>3. y \in Addr
          BY <1>1, <5>1, <5>2 DEF Addr
        <5> QED
          BY <1>1, <5>1, <5>2, <5>3
      <4> QED
        BY <1>3, <3>3, <4>1
    <3>9. n \in A /\ x \notin A => n \in A2
      <4>1. n # b => (n \in A2 <=> n \in A)
        BY <1>3, <3>4, <3>6
      <4>2. CASE n = b /\ x \notin A
        BY <4>2, <3>3
      <4> QED
        BY <4>1, <4>2
    <3> QED
      BY <3>2, <3>3, <3>7, <3>8, <3>9 DEF TilesAt, MIN_SZ, T2, n
  <2> QED
    BY <2>1, <2>2, <2>3
<1>13. ASSUME NEW x \in T2 \cup {e}, x # 0 PROVE \E y \in T2 : y + sz2[y] = x
  <2>6. CASE x = c
    <3>1. b + sz2[b] = x /\ b \in T2
      BY <1>1, <1>5, <2>6
    <3> QED
      BY <3>1
  <2>7. CASE x = m
    <3>1. c + sz2[c] = x /\ c \in T2
      BY <1>1, <1>5, <2>7
    <3> QED
      BY <3>1
  <2> SUFFICES ASSUME x # c, x # m PROVE \E y \in T2 : y + sz2[y] = x
    BY <2>6, <2>7
  <2>1. x \in T \cup {e} /\ x \in 0..e
    BY <1>1, <1>5, <1>9 DEF T
  <2>2. PICK y \in T : y + sz[y] = x
    BY <1>13, <2>1 DEF Tiling, T
  <2>3. y \in 0..(e - 1) /\ sz[y] \in Nat /\ sz[y] >= 2 /\ y \in Addr
    BY <1>2, <1>6, <1>9 DEF TilesAt, MIN_SZ
  <2>4. x <= b \/ x > m
    BY <1>1, <1>5, <2>1
  <2>5. y \notin b..(m - 1)
    BY <1>1, <1>8, <2>1, <2>2, <2>3, <2>4
  <2>8. y \in T2 /\ sz2[y] = sz[y]
    BY <1>3, <1>5, <2>3, <2>5
  <2> QED
    BY <2>2, <2>8
<1> QED
  BY <1>5, <1>10, <1>11, <1>12, <1>13 DEF Tiling, T, T2

\* A heap that ends at e becomes one that ends at e2: the block b reaches
\* to the new end.
ExtendedAt(b, sz, A, P, ftr, e, sz2, A2, P2, ftr2, e2) ==
    /\ b \in Starts(sz, e) \cup {e} /\ (b # e => b + sz[b] = e) /\ b \in P
    /\ e2 - e >= 2
    /\ \A x \in Addr : x < b => sz2[x] = sz[x] /\ (x \in A2 <=> x \in A)
    /\ \A x \in Addr : x <= b => ftr2[x] = ftr[x] /\ (x \in P2 <=> x \in P)
    /\ sz2[b] = e2 - b /\ \A x \in Addr : x > b => sz2[x] = 0
    /\ b \notin A2 /\ e2 \in A2 /\ e2 \notin P2 /\ ftr2[e2] = e2 - b

\* The heap grows from e to e2: the last block from b on is free, where b was
\* the last block and free, or the epilogue.
LEMMA RetileGrown ==
    ASSUME NEW e \in 2..Limit, NEW sz \in [Addr -> Nat], NEW A, NEW P, NEW ftr,
           Tiling(sz, A, P, ftr, e),
           NEW b, NEW e2 \in 2..Limit,
           NEW sz2 \in [Addr -> Nat], NEW A2, NEW P2, NEW ftr2,
           ExtendedAt(b, sz, A, P, ftr, e, sz2, A2, P2, ftr2, e2)
    PROVE  /\ Tiling(sz2, A2, P2, ftr2, e2)
           /\ Starts(sz2, e2) = Starts(sz, e) \cup {b}
<1> USE DEF ExtendedAt
<1> DEFINE T == Starts(sz, e)
           T2 == Starts(sz2, e2)
<1>1. /\ e \in Nat /\ e >= 2 /\ b \in 0..e /\ Limit \in Nat /\ e <= Limit
      /\ b \in Addr /\ e \in Addr /\ e2 \in Nat /\ e2 \in Addr /\ e2 <= Limit /\ b <= e2 - 2
  BY Bounds DEF Starts, Addr
<1>2. \A x \in 0..(e2 - 1) : x \in Addr /\ x \in Nat
  BY <1>1 DEF Addr
<1>3. T \subseteq 0..(e - 1) /\ T2 \subseteq 0..(e2 - 1)
  BY DEF Starts
<1>4. \A x \in T : TilesAt(sz, A, P, ftr, e, x)
  BY DEF Tiling
<1>5. \A x \in T : x < b => x + sz[x] <= b
  BY NoOverlap
<1>6. \A x \in T : x <= b /\ sz[x] \in Nat
  <2> SUFFICES ASSUME NEW x \in T PROVE x <= b /\ sz[x] \in Nat
    OBVIOUS
  <2>1. x \in 0..(e - 1) /\ x \in Addr
    BY <1>1, <1>2, <1>3
  <2>2. CASE b = e
    BY <2>1, <2>2
  <2>3. CASE b # e /\ x > b
    <3>1. b \in T /\ sz[b] \in Nat
      BY <1>1, <2>3
    <3>2. b + sz[b] <= x
      BY <2>3, <3>1, NoOverlap
    <3> QED
      BY <2>1, <2>3, <3>2
  <2> QED
    BY <1>1, <2>1, <2>2, <2>3
<1>7. T2 = T \cup {b}
  <2>1. \A x \in 0..(e2 - 1) : x > b => x \notin T /\ sz2[x] = 0
    BY <1>1, <1>2, <1>3, <1>6
  <2>2. \A x \in 0..(e2 - 1) : x < b => (sz2[x] # 0 <=> x \in T)
    <3>1. \A x \in 0..(e2 - 1) : x < b => x \in 0..(e - 1) /\ sz2[x] = sz[x]
      BY <1>1, <1>2
    <3> QED
      BY <3>1 DEF Starts
  <2>3. b \in 0..(e2 - 1) /\ sz2[b] # 0
    BY <1>1
  <2>4. T \subseteq 0..(e2 - 1)
    BY <1>1, <1>3
  <2>5. \A x \in 0..(e2 - 1) : x < b \/ x = b \/ x > b
    BY <1>1
  <2> QED
    BY <2>1, <2>2, <2>3, <2>4, <2>5 DEF Starts
<1> HIDE DEF T, T2
<1>10. sz2[0] # 0 /\ 0 \in P2
  <2>1. sz[0] # 0 /\ 0 \in P /\ 0 \in Addr
    BY <1>1 DEF Tiling, Addr
  <2> QED
    BY <1>1, <2>1
<1>11. \A x \in e2..Limit : sz2[x] = 0
  <2>1. \A x \in e2..Limit : x \in Addr /\ x > b
    BY <1>1 DEF Addr
  <2> QED
    BY <2>1
<1>12. ASSUME NEW x \in T2 PROVE TilesAt(sz2, A2, P2, ftr2, e2, x)
  <2>1. CASE x = b
    <3>1. x + sz2[x] = e2
      BY <1>1, <2>1
    <3>2. \A y \in (x + 1)..(e2 - 1) : sz2[y] = 0
      <4>1. \A y \in (x + 1)..(e2 - 1) : y \in Addr /\ y > b
        BY <1>1, <2>1 DEF Addr
      <4> QED
        BY <4>1
    <3> QED
      BY <1>1, <2>1, <3>1, <3>2 DEF TilesAt, MIN_SZ
  <2>2. CASE x # b
    <3> DEFINE n == x + sz[x]
    <3>1. x \in T /\ x < b /\ x \in Addr /\ x \in Nat /\ sz[x] \in Nat
      BY <1>1, <1>2, <1>3, <1>6, <1>7, <2>2
    <3>2. sz2[x] = sz[x] /\ (x \in A2 <=> x \in A)
      BY <3>1
    <3>3. /\ sz[x] >= 2 /\ n \in T \cup {e} /\ (\A y \in (x + 1)..(n - 1) : sz[y] = 0)
          /\ (n \in P <=> x \in A) /\ (x \notin A => ftr[n] = sz[x] /\ n \in A)
      BY <1>4, <3>1 DEF TilesAt, MIN_SZ, T
    <3>4. n <= b
      BY <1>5, <3>1
    <3>5. n \in Nat /\ n > x
      <4> DEFINE z == sz[x]
      <4>1. z \in Nat /\ z >= 2 /\ n = x + z
        BY <3>1, <3>3
      <4> HIDE DEF z, n
      <4> QED
        BY <3>1, <4>1
    <3> HIDE DEF n
    <3>6. n \in Addr /\ n \in T2
      <4>1. n = e => n = b
        BY <1>1, <3>4, <3>5
      <4>2. n \in T2
        BY <1>7, <3>3, <4>1
      <4> QED
        BY <1>2, <1>3, <4>2
    <3>7. (n \in P2 <=> n \in P) /\ ftr2[n] = ftr[n]
      BY <3>4, <3>6
    <3>8. \A y \in (x + 1)..(n - 1) : sz2[y] = 0
      <4>1. ASSUME NEW y \in (x + 1)..(n - 1) PROVE y \in Addr /\ y < b
        <5>1. y \in Nat /\ y < n
          BY <3>1, <3>5
        <5> QED
          BY <1>1, <3>4, <3>5, <5>1 DEF Addr
      <4> QED
        BY <3>3, <4>1
    <3>9. x \notin A => n \in A2
      <4>1. CASE n = b
        BY <3>3, <4>1
      <4>2. CASE n < b
        BY <3>3, <3>6, <4>2
      <4> QED
        BY <1>1, <3>4, <3>5, <4>1, <4>2
    <3> QED
      BY <3>2, <3>3, <3>6, <3>7, <3>8, <3>9 DEF TilesAt, MIN_SZ, T2, n
  <2> QED
    BY <2>1, <2>2
<1>13. ASSUME NEW x \in T2 \cup {e2}, x # 0 PROVE \E y \in T2 : y + sz2[y] = x
  <2>1. CASE x = e2
    <3>1. b \in T2 /\ b + sz2[b] = x
      BY <1>1, <1>7, <2>1
    <3> QED
      BY <3>1
  <2>2. CASE x # e2
    <3>1. x \in T \cup {e} /\ x <= b
      <4>1. x \in T \/ x = b
        BY <1>7, <2>2
      <4>2. CASE x = b
        BY <1>1, <4>2 DEF T
      <4> QED
        BY <1>6, <4>1, <4>2
    <3>2. PICK y \in T : y + sz[y] = x
      BY <1>13, <3>1 DEF Tiling, T
    <3>3. y \in Nat /\ y \in Addr /\ sz[y] \in Nat /\ sz[y] >= 2
      <4>1. y \in 0..(e - 1) /\ TilesAt(sz, A, P, ftr, e, y)
        BY <1>3, <1>4
      <4>2. y \in Nat /\ y \in Addr
        BY <1>1, <4>1 DEF Addr
      <4> QED
        BY <1>6, <4>1, <4>2 DEF TilesAt, MIN_SZ
    <3>4. y < b
      BY <1>1, <3>1, <3>2, <3>3
    <3>5. y \in T2 /\ sz2[y] = sz[y]
      BY <1>7, <3>3, <3>4
    <3> QED
      BY <3>2, <3>5
  <2> QED
    BY <2>1, <2>2
<1> QED
  BY <1>7, <1>10, <1>11, <1>12, <1>13 DEF Tiling, T, T2

\* The heap of one free block.
LEMMA TileFirst ==
    ASSUME NEW e \in 2..Limit, NEW sz \in [Addr -> Nat], NEW A, NEW P, NEW ftr,
           sz[0] = e, \A x \in Addr : x # 0 => sz[x] = 0,
           0 \notin A, 0 \in P, e \in A, e \notin P, ftr[e] = e
    PROVE  Tiling(sz, A, P, ftr, e) /\ Starts(sz, e) = {0}
<1>1. \A x \in 0..Limit : x \in Addr
  BY DEF Addr
<1>2. e \in Nat /\ e >= 2 /\ e <= Limit /\ Limit \in Nat
  BY Bounds
<1>3. \A x \in 0..(e - 1) : x # 0 => sz[x] = 0
  BY <1>1, <1>2
<1>4. Starts(sz, e) = {0}
  BY <1>2, <1>3 DEF Starts
<1>5. \A x \in e..Limit : sz[x] = 0
  BY <1>1, <1>2
<1>6. TilesAt(sz, A, P, ftr, e, 0)
  <2>1. 0 + sz[0] = e /\ \A y \in (0 + 1)..(e - 1) : sz[y] = 0
    BY <1>2, <1>3
  <2> QED
    BY <1>2, <2>1 DEF TilesAt, MIN_SZ
<1> QED
  BY <1>2, <1>4, <1>5, <1>6 DEF Tiling

-----------------------------------------------------------------------------
(* Free lists.                                                             *)

\* The links have the sentinels and the addresses.
LEMMA NodesAreLinks ==
    /\ Addr \subseteq Links /\ Sentinels \subseteq Links /\ Addr \cap Sentinels = {}
    /\ Links = Addr \cup Sentinels /\ NoLink \notin Links
    /\ \A x \in Addr : x \in Nat
    /\ \A s \in 1..Limit : -s \in Sentinels
  BY Bounds DEF Addr, Links, Sentinels, NoLink

\* removeHeader takes the block a off its list.
UnlinkedFrom(nx, pv, a, nx2, pv2) ==
    /\ \A l \in Links : nx2[l] = IF l = pv[a] THEN nx[a] ELSE nx[l]
    /\ \A l \in Links : pv2[l] = IF l = nx[a] THEN pv[a] ELSE pv[l]

\* removeHeader leaves the other lists as they were, and the list without a.
LEMMA Unlink ==
    ASSUME NEW nx, NEW pv, NEW sz, NEW N, N \subseteq Addr, Lists(nx, pv, N, sz), NEW a \in N,
           NEW nx2, NEW pv2, UnlinkedFrom(nx, pv, a, nx2, pv2)
    PROVE  /\ Lists(nx2, pv2, N \ {a}, sz)
           /\ nx[a] \in (N \ {a}) \cup Sentinels /\ pv[a] \in (N \ {a}) \cup Sentinels
           /\ nx2[pv[a]] = nx[a] /\ pv2[nx[a]] = pv[a]
           /\ nx2[a] = nx[a] /\ pv2[a] = pv[a]
<1> DEFINE M == (N \ {a}) \cup Sentinels
           p == pv[a]
           q == nx[a]
<1>1. PICK r \in [Addr -> Nat] : \A l \in N : pv[l] \in N => r[pv[l]] < r[l]
  BY DEF Lists, Ranked
<1>2. \A l \in N \cup Sentinels :
        /\ nx[l] \in N \cup Sentinels /\ pv[nx[l]] = l /\ Class(sz, nx[l]) = Class(sz, l)
        /\ pv[l] \in N \cup Sentinels /\ nx[pv[l]] = l
  BY DEF Lists, Ring
<1>3. a \in Addr /\ a \notin Sentinels /\ M \subseteq Links /\ a \in Links
  BY NodesAreLinks
<1>4. p \in N \cup Sentinels /\ q \in N \cup Sentinels /\ nx[p] = a /\ pv[q] = a
      /\ Class(sz, q) = Class(sz, a) /\ Class(sz, p) = Class(sz, a)
  BY <1>2
<1>5. \A l \in N : r[l] \in Nat
  OBVIOUS
<1>6. p # a /\ q # a
  <2>1. p # a
    BY <1>1, <1>5
  <2> QED
    BY <1>4, <2>1
<1>7. p \in M /\ q \in M
  BY <1>4, <1>6
<1> HIDE DEF p, q
<1>8. /\ \A l \in Links : nx2[l] = IF l = p THEN q ELSE nx[l]
      /\ \A l \in Links : pv2[l] = IF l = q THEN p ELSE pv[l]
  BY DEF p, q, UnlinkedFrom
<1>9. \A l \in M : l # p => nx[l] # a /\ nx[l] # q
  BY <1>2, <1>3, <1>4, <1>6 DEF p
<1>10. \A l \in M : l # q => pv[l] # a /\ pv[l] # p
  BY <1>2, <1>3, <1>4, <1>6 DEF q
<1>11. ASSUME NEW l \in M
       PROVE  /\ nx2[l] \in M /\ pv2[nx2[l]] = l /\ Class(sz, nx2[l]) = Class(sz, l)
              /\ pv2[l] \in M /\ nx2[pv2[l]] = l
  <2>1. nx2[l] \in M /\ pv2[nx2[l]] = l /\ Class(sz, nx2[l]) = Class(sz, l)
    <3>1. CASE l = p
      BY <1>3, <1>4, <1>7, <1>8, <3>1
    <3>2. CASE l # p
      BY <1>2, <1>3, <1>8, <1>9, <3>2
    <3> QED
      BY <3>1, <3>2
  <2>2. pv2[l] \in M /\ nx2[pv2[l]] = l
    <3>1. CASE l = q
      BY <1>3, <1>7, <1>8, <3>1
    <3>2. CASE l # q
      BY <1>2, <1>3, <1>8, <1>10, <3>2
    <3> QED
      BY <3>1, <3>2
  <2> QED
    BY <2>1, <2>2
<1>12. ASSUME NEW l \in N \ {a}, pv2[l] \in N \ {a} PROVE r[pv2[l]] < r[l]
  <2>1. CASE l = q
    <3>1. pv2[l] = p /\ p \in N
      BY <1>3, <1>8, <1>12, <2>1
    <3>2. r[p] < r[a] /\ r[a] < r[q]
      BY <1>1, <1>4, <2>1, <3>1 DEF p
    <3> QED
      BY <1>5, <2>1, <3>1, <3>2
  <2>2. CASE l # q
    <3>1. pv2[l] = pv[l]
      BY <1>3, <1>8, <2>2
    <3> QED
      BY <1>1, <1>12, <3>1
  <2> QED
    BY <2>1, <2>2
<1>13. Ranked(pv2, N \ {a})
  BY <1>12 DEF Ranked
<1>14. Ring(nx2, pv2, N \ {a}, sz)
  BY <1>11 DEF Ring
<1>15. nx2[p] = q /\ pv2[q] = p /\ nx2[a] = q /\ pv2[a] = p
  BY <1>3, <1>6, <1>7, <1>8 DEF p, q
<1> QED
  BY <1>7, <1>13, <1>14, <1>15 DEF Lists, p, q

\* addHeaderToFreeList puts the block a behind the sentinel of its size.
LinkedBehind(nx, pv, a, s, nx2, pv2) ==
    /\ \A l \in Links : nx2[l] = IF l = s THEN a ELSE IF l = a THEN nx[s] ELSE nx[l]
    /\ \A l \in Links : pv2[l] = IF l = nx[s] THEN a ELSE IF l = a THEN s ELSE pv[l]

\* addHeaderToFreeList adds the block a to the list of its size only.
LEMMA Insert ==
    ASSUME NEW nx, NEW pv, NEW sz, NEW N, N \subseteq Addr, Lists(nx, pv, N, sz),
           NEW a \in Addr, a \notin N, NEW s \in Sentinels, sz[a] = -s,
           NEW nx2, NEW pv2, LinkedBehind(nx, pv, a, s, nx2, pv2)
    PROVE  Lists(nx2, pv2, N \cup {a}, sz)
<1> DEFINE M == N \cup Sentinels
           M2 == (N \cup {a}) \cup Sentinels
           f == nx[s]
<1>1. PICK r \in [Addr -> Nat] : \A l \in N : pv[l] \in N => r[pv[l]] < r[l]
  BY DEF Lists, Ranked
<1>2. \A l \in M :
        /\ nx[l] \in M /\ pv[nx[l]] = l /\ Class(sz, nx[l]) = Class(sz, l)
        /\ pv[l] \in M /\ nx[pv[l]] = l
  BY DEF Lists, Ring
<1>3. a \notin M /\ M \subseteq Links /\ a \in Links /\ s \in M /\ s # a
  BY NodesAreLinks
<1>4. f \in M /\ pv[f] = s /\ Class(sz, f) = Class(sz, s)
  BY <1>2, <1>3
<1>5. Class(sz, a) = Class(sz, s)
  BY Bounds DEF Class, Addr, Sentinels
<1> HIDE DEF f
<1>6. /\ \A l \in Links : nx2[l] = IF l = s THEN a ELSE IF l = a THEN f ELSE nx[l]
      /\ \A l \in Links : pv2[l] = IF l = f THEN a ELSE IF l = a THEN s ELSE pv[l]
  BY DEF f, LinkedBehind
<1>7. \A l \in M : (l # s => nx[l] # f) /\ (l # f => pv[l] # s)
  BY <1>2, <1>3, <1>4 DEF f
<1> HIDE DEF M, M2
<1>8. \A l \in M2 : l = a \/ l \in M
  BY DEF M, M2
<1>9. M \subseteq M2 /\ a \in M2
  BY DEF M, M2
<1>10. ASSUME NEW l \in M2
       PROVE  /\ nx2[l] \in M2 /\ pv2[nx2[l]] = l /\ Class(sz, nx2[l]) = Class(sz, l)
              /\ pv2[l] \in M2 /\ nx2[pv2[l]] = l
  <2>1. CASE l = a
    <3>1. nx2[l] = f /\ pv2[f] = a /\ pv2[l] = s /\ nx2[s] = a
      BY <1>3, <1>4, <1>6, <2>1
    <3> QED
      BY <1>3, <1>4, <1>5, <1>9, <2>1, <3>1
  <2>2. CASE l \in M
    <3>1. nx2[l] \in M2 /\ pv2[nx2[l]] = l /\ Class(sz, nx2[l]) = Class(sz, l)
      <4>1. CASE l = s
        <5>1. nx2[l] = a /\ pv2[a] = s
          BY <1>3, <1>4, <1>6, <4>1
        <5> QED
          BY <1>5, <1>9, <4>1, <5>1
      <4>2. CASE l # s
        <5>1. nx2[l] = nx[l] /\ nx[l] \in M /\ nx[l] # f
          BY <1>2, <1>3, <1>6, <1>7, <2>2, <4>2
        <5>2. pv2[nx[l]] = pv[nx[l]]
          BY <1>3, <1>6, <5>1
        <5> QED
          BY <1>2, <1>9, <2>2, <5>1, <5>2
      <4> QED
        BY <4>1, <4>2
    <3>2. pv2[l] \in M2 /\ nx2[pv2[l]] = l
      <4>1. CASE l = f
        <5>1. pv2[l] = a /\ nx2[a] = f
          BY <1>3, <1>4, <1>6, <4>1
        <5> QED
          BY <1>9, <4>1, <5>1
      <4>2. CASE l # f
        <5>1. pv2[l] = pv[l] /\ pv[l] \in M /\ pv[l] # s
          BY <1>2, <1>3, <1>6, <1>7, <2>2, <4>2
        <5>2. nx2[pv[l]] = nx[pv[l]]
          BY <1>3, <1>6, <5>1
        <5> QED
          BY <1>2, <1>9, <2>2, <5>1, <5>2
      <4> QED
        BY <4>1, <4>2
    <3> QED
      BY <3>1, <3>2
  <2> QED
    BY <1>8, <2>1, <2>2
<1>11. Ring(nx2, pv2, N \cup {a}, sz)
  BY <1>10 DEF Ring, M2
<1>12. Ranked(pv2, N \cup {a})
  <2> DEFINE r2 == [x \in Addr |-> IF x = a THEN 0 ELSE r[x] + 1]
  <2>1. r2 \in [Addr -> Nat]
    OBVIOUS
  <2>2. ASSUME NEW l \in N \cup {a}, pv2[l] \in N \cup {a} PROVE r2[pv2[l]] < r2[l]
    <3>1. l # a
      <4>1. CASE l = a
        <5>1. pv2[a] = s /\ s \notin N /\ s # a
          BY <1>3, <1>4, <1>6, NodesAreLinks
        <5> QED
          BY <2>2, <4>1, <5>1
      <4> QED
        BY <4>1
    <3>2. l \in N /\ l \in M /\ r[l] \in Nat /\ r2[l] = r[l] + 1
      BY <3>1 DEF M
    <3>3. CASE l = f
      <4>1. pv2[l] = a /\ r2[a] = 0
        BY <1>3, <1>4, <1>6, <3>3
      <4> QED
        BY <3>2, <4>1
    <3>4. CASE l # f
      <4>1. pv2[l] = pv[l] /\ pv[l] \in N
        BY <1>2, <1>3, <1>6, <2>2, <3>1, <3>2, <3>4
      <4>2. r[pv[l]] < r[l] /\ r2[pv[l]] = r[pv[l]] + 1 /\ r[pv[l]] \in Nat
        BY <1>1, <3>2, <4>1
      <4> QED
        BY <3>2, <4>1, <4>2
    <3> QED
      BY <3>3, <3>4
  <2> HIDE DEF r2
  <2> QED
    BY <2>1, <2>2 DEF Ranked
<1> QED
  BY <1>11, <1>12 DEF Lists

\* Lists only depend on the links of their members, and on the sizes.
SameOn(N, nx, pv, sz, nx2, pv2, sz2) ==
    /\ \A l \in N \cup Sentinels : nx2[l] = nx[l] /\ pv2[l] = pv[l]
    /\ \A l \in N : sz2[l] = sz[l]

\* A write outside the lists changes none of them.
LEMMA SameLists ==
    ASSUME NEW nx, NEW pv, NEW sz, NEW N, N \subseteq Addr, Lists(nx, pv, N, sz),
           NEW nx2, NEW pv2, NEW sz2, SameOn(N, nx, pv, sz, nx2, pv2, sz2)
    PROVE  Lists(nx2, pv2, N, sz2)
<1>1. \A l \in N \cup Sentinels : Class(sz2, l) = Class(sz, l)
  BY Bounds DEF Class, Addr, Sentinels, SameOn
<1>2. Ring(nx2, pv2, N, sz2)
  BY <1>1 DEF Lists, Ring, SameOn
<1>3. Ranked(pv2, N)
  BY DEF Lists, Ranked, SameOn
<1> QED
  BY <1>2, <1>3 DEF Lists

\* A sentinel that links to itself stands for an empty list.
LEMMA EmptyList ==
    ASSUME NEW nx, NEW pv, NEW sz, NEW N, N \subseteq Addr, Lists(nx, pv, N, sz),
           NEW s \in 1..Limit, nx[-s] = -s
    PROVE  \A x \in N : sz[x] # s
<1> SUFFICES ASSUME NEW y \in N, sz[y] = s PROVE FALSE
  OBVIOUS
<1>1. PICK r \in [Addr -> Nat] : \A l \in N : pv[l] \in N => r[pv[l]] < r[l]
  BY DEF Lists, Ranked
<1>2. \A l \in N \cup Sentinels :
        /\ nx[l] \in N \cup Sentinels /\ pv[nx[l]] = l /\ Class(sz, nx[l]) = Class(sz, l)
        /\ pv[l] \in N \cup Sentinels /\ nx[pv[l]] = l
  BY DEF Lists, Ring
<1> DEFINE R == {r[x] : x \in {z \in N : sz[z] = s}}
<1>3. R \subseteq Nat /\ R # {}
  OBVIOUS
<1>4. PICK k \in R : \A j \in R : k <= j
  BY <1>3, LeastNat
<1>5. PICK x \in N : sz[x] = s /\ r[x] = k
  OBVIOUS
<1>6. pv[x] \in N \cup Sentinels /\ nx[pv[x]] = x /\ Class(sz, pv[x]) = Class(sz, x)
  BY <1>2
<1>7. Class(sz, x) = s /\ x \in Addr /\ x >= 0
  BY <1>5, Bounds DEF Class, Addr
<1>8. CASE pv[x] \in N
  <2>1. sz[pv[x]] = s
    <3> DEFINE w == pv[x]
    <3>1. w \in Addr /\ Class(sz, w) = s
      BY <1>6, <1>7, <1>8
    <3> HIDE DEF w
    <3>2. Class(sz, w) = sz[w]
      BY <3>1 DEF Class, Addr
    <3> QED
      BY <3>1, <3>2 DEF w
  <2>2. r[pv[x]] \in R /\ r[pv[x]] < r[x] /\ r[pv[x]] \in Nat /\ r[x] \in Nat
    BY <1>1, <1>8, <2>1
  <2> QED
    BY <1>4, <1>5, <2>2, SMTT(40)
<1>9. CASE pv[x] \in Sentinels
  <2>1. pv[x] = -s
    BY <1>6, <1>7, <1>9, Bounds DEF Class, Sentinels
  <2> QED
    BY <1>6, <1>7, <2>1
<1> QED
  BY <1>6, <1>8, <1>9

-----------------------------------------------------------------------------
(* What the operations make of a heap.                                     *)

\* The types of the views of a heap.
LEMMA Views ==
    ASSUME NEW h \in HeapType
    PROVE  /\ Sizes(h) \in [Addr -> Nat] /\ Allocs(h) \subseteq Addr /\ Prevs(h) \subseteq Addr
           /\ \A x \in Addr : Sizes(h)[x] = h.hdr[x].size /\ h.hdr[x].size \in Nat
           /\ h.ftr \in [Addr -> Nat]
           /\ h.pages \in 0..MaxPages
           /\ h.pages > 0 => End(h) \in 2..Limit /\ End(h) \in Addr
           /\ FreeBlocks(h) \subseteq Addr
<1>1. \A x \in Addr : h.hdr[x].size \in Nat
  BY DEF HeapType, Header
<1>2. Sizes(h) \in [Addr -> Nat] /\ \A x \in Addr : Sizes(h)[x] = h.hdr[x].size
  BY <1>1 DEF Sizes
<1>3. h.pages \in 0..MaxPages /\ h.ftr \in [Addr -> Nat]
  BY DEF HeapType
<1>4. h.pages > 0 => End(h) \in 2..Limit
  <2> DEFINE n == h.pages
  <2>1. n \in 0..MaxPages /\ MaxPages \in Nat
    BY <1>3, HeapAssumption
  <2> HIDE DEF n
  <2>2. n > 0 => n \in 1..MaxPages
    BY <2>1
  <2>3. n > 0 => n * PageRows - 3 \in 2..Limit
    BY <2>2, Bounds
  <2> QED
    BY <2>3 DEF End, n
<1>5. h.pages > 0 => End(h) \in Addr
  BY <1>4, Bounds DEF Addr
<1>6. FreeBlocks(h) \subseteq Addr
  <2>1. CASE h.pages > 0
    BY <1>4, <2>1, Bounds DEF FreeBlocks, Starts, Addr
  <2>2. CASE h.pages = 0
    <3>1. End(h) = -3
      BY <2>2, Bounds DEF End
    <3>2. FreeBlocks(h) = {}
      BY <3>1 DEF FreeBlocks, Starts
    <3> QED
      BY <3>2
  <2> QED
    BY <1>3, <2>1, <2>2, HeapAssumption
<1> QED
  BY <1>1, <1>2, <1>3, <1>4, <1>5, <1>6 DEF Allocs, Prevs

\* The blocks from b to m of the heap h0 are about to become one: h may
\* differ from h0 between b and m, and its lists hold the free blocks of h0
\* outside.
Between(h0, h, b, m) ==
    LET N == FreeBlocks(h0) \ (b..(m - 1)) IN
    /\ h \in HeapType /\ h.pages = h0.pages /\ h.largest = h0.largest
    /\ \A x \in Addr : x \notin b..(m - 1) => h.hdr[x] = h0.hdr[x]
    /\ \A x \in Addr : x \notin (b + 1)..m => h.ftr[x] = h0.ftr[x]
    /\ Lists(h.nx, h.pv, N, Sizes(h0))
    /\ \A x \in N : Sizes(h0)[x] <= h.largest
    /\ \A x \in Addr : x \notin N /\ x \notin b..(m - 1) => h.nx[x] = NoLink

\* The blocks from b to m of h0 are a free block in g, the others are as they
\* were.
Merged(g, h0, b, m) ==
    /\ g.pages = h0.pages
    /\ Starts(Sizes(g), End(g)) = (Starts(Sizes(h0), End(h0)) \ (b..(m - 1))) \cup {b}
    /\ \A x \in Addr : x \notin b..(m - 1) =>
          /\ x \in Allocs(g) <=> x \in Allocs(h0)
          /\ Sizes(g)[x] = Sizes(h0)[x] /\ g.hdr[x].req = h0.hdr[x].req
    /\ b \notin Allocs(g)

\* The end of sf_free: what lies between b and m becomes a free block.
LEMMA FinishFree ==
    ASSUME NEW h0 \in HeapType, h0.pages > 0,
           Tiling(Sizes(h0), Allocs(h0), Prevs(h0), h0.ftr, End(h0)),
           NEW b \in Starts(Sizes(h0), End(h0)), NEW m \in Starts(Sizes(h0), End(h0)) \cup {End(h0)},
           m - b >= 2, b \in Prevs(h0), m \in Allocs(h0),
           NEW h, Between(h0, h, b, m), h.hdr[b].size = m - b
    PROVE  LET g == forget(setPrev(addHeaderToFreeList(coalesce(h, b, 0), b), b, FALSE), b) IN
           HeapOK(g, -1) /\ Merged(g, h0, b, m)
<1> DEFINE e == End(h0)
           N == FreeBlocks(h0) \ (b..(m - 1))
           k == m - b
           fr == FreeHeader(k)
           k1 == coalesce(h, b, 0)
           k2 == addHeaderToFreeList(k1, b)
           k3 == setPrev(k2, b, FALSE)
           k4 == forget(k3, b)
<1>1. /\ e \in 2..Limit /\ e \in Nat /\ Limit \in Nat /\ b \in Nat /\ m \in Nat /\ b < m /\ m <= e
      /\ b \in Addr /\ m \in Addr /\ e \in Addr
      /\ k \in Nat /\ k >= 2 /\ k \in 1..Limit /\ b + k = m /\ k + 0 = k
  <2>1. e \in 2..Limit /\ Limit \in Nat
    BY Views, Bounds
  <2>2. b \in 0..(e - 1) /\ m \in 0..(e - 1) \cup {e}
    BY DEF Starts
  <2> HIDE DEF e
  <2>3. b \in Nat /\ m \in Nat /\ e \in Nat /\ m <= e /\ b < m /\ m <= Limit
    BY <2>1, <2>2
  <2> QED
    BY <2>1, <2>3 DEF Addr
<1>2. /\ h \in HeapType /\ h.pages = h0.pages /\ h.largest = h0.largest
      /\ \A x \in Addr : x \notin b..(m - 1) => h.hdr[x] = h0.hdr[x]
      /\ \A x \in Addr : x \notin (b + 1)..m => h.ftr[x] = h0.ftr[x]
      /\ Lists(h.nx, h.pv, N, Sizes(h0))
      /\ \A x \in N : Sizes(h0)[x] <= h.largest
      /\ \A x \in Addr : x \notin N /\ x \notin b..(m - 1) => h.nx[x] = NoLink
  BY DEF Between
<1>3. k = h.hdr[b].size + 0
  BY <1>1
<1> HIDE DEF e, k, N
<1>4. Coalesced(k1, h, b, k)
  BY <1>1, <1>2, <1>3, CoalesceEffect
<1> HIDE DEF k1
<1>5. /\ k1 \in HeapType /\ k1.pages = h.pages /\ k1.nx = h.nx /\ k1.pv = h.pv
      /\ k1.largest = h.largest
      /\ k1.hdr[b] = fr /\ k1.hdr[b].size = k /\ \A x \in Addr : x # b => k1.hdr[x] = h.hdr[x]
  BY <1>1, <1>4 DEF Coalesced
<1>6. \A x \in Addr : k1.ftr[x] = IF x = m THEN k ELSE h.ftr[x]
  BY <1>1, <1>4 DEF Coalesced
<1>7. -k \in Sentinels /\ N \subseteq Addr /\ b \notin N
  <2>1. N \subseteq Addr
    BY Views DEF N
  <2> QED
    BY <1>1, <2>1, NodesAreLinks DEF N
<1>8. h.nx[-k] \in Links /\ h.nx[-k] # b
  <2>1. h.nx[-k] \in N \cup Sentinels
    BY <1>2, <1>7 DEF Lists, Ring
  <2> QED
    BY <1>1, <1>7, <2>1, NodesAreLinks
<1> HIDE DEF fr
<1>9. Added(k2, k1, b, k)
  BY <1>1, <1>5, <1>8, AddEffect
<1> HIDE DEF k2
<1>10. k2 \in HeapType /\ k2.hdr = k1.hdr /\ m = b + k2.hdr[b].size /\ fr.size = k /\ fr.alloc = FALSE /\ fr.prev = TRUE
  BY <1>1, <1>5, <1>9 DEF Added, fr, FreeHeader
<1>32. PrevSet(k3, k2, m, FALSE)
  BY <1>1, <1>10, PrevEffect
<1> HIDE DEF k3
<1>11. /\ k3 \in HeapType
       /\ k3.pages = h0.pages /\ k3.ftr = k1.ftr /\ k3.nx = k2.nx /\ k3.pv = k2.pv
       /\ k3.largest = k2.largest
       /\ \A x \in Addr : x # m => k3.hdr[x] = k1.hdr[x]
       /\ k3.hdr[m].size = k1.hdr[m].size /\ k3.hdr[m].alloc = k1.hdr[m].alloc
       /\ k3.hdr[m].prev = FALSE /\ k3.hdr[m].req = k1.hdr[m].req
  BY <1>2, <1>5, <1>9, <1>32 DEF Added, PrevSet
<1>12. k3.hdr[b] = fr /\ ~k3.hdr[b].alloc /\ m = b + k3.hdr[b].size
  BY <1>1, <1>5, <1>10, <1>11
<1> DEFINE inside == (b + 1)..(m - 1)
<1>33. Forgotten(k4, k3, inside, inside, inside)
  BY <1>1, <1>11, <1>12, ForgetEffect
<1> HIDE DEF k4, inside
<1>13. /\ k4 \in HeapType
       /\ k4.pages = h0.pages /\ k4.largest = k2.largest
       /\ \A x \in Addr : k4.hdr[x] = IF x \in inside THEN Unset ELSE k3.hdr[x]
       /\ \A x \in Addr : k4.ftr[x] = IF x \in inside THEN 0 ELSE k3.ftr[x]
       /\ \A x \in Links : k4.nx[x] = IF x \in inside THEN NoLink ELSE k3.nx[x]
       /\ \A x \in Links : k4.pv[x] = IF x \in inside THEN NoLink ELSE k3.pv[x]
  BY <1>11, <1>33 DEF Forgotten
<1>14. b \notin inside /\ m \notin inside /\ \A x \in Addr : x \notin b..(m - 1) => x \notin inside /\ x # b
  BY <1>1 DEF inside
<1>15. /\ k4.hdr[b] = fr
       /\ k4.hdr[m].size = h0.hdr[m].size /\ k4.hdr[m].alloc = h0.hdr[m].alloc
       /\ k4.hdr[m].prev = FALSE /\ k4.hdr[m].req = h0.hdr[m].req
       /\ \A x \in inside : k4.hdr[x] = Unset
       /\ \A x \in Addr : x \notin b..(m - 1) /\ x # m => k4.hdr[x] = h0.hdr[x]
  <2>1. m \notin b..(m - 1) /\ m # b
    BY <1>1
  <2>2. inside \subseteq Addr
    BY <1>1 DEF inside, Addr
  <2>3. k1.hdr[m] = h0.hdr[m] /\ k4.hdr[m] = k3.hdr[m]
    BY <1>1, <1>2, <1>5, <1>13, <1>14, <2>1
  <2>4. k4.hdr[b] = fr
    BY <1>1, <1>12, <1>13, <1>14
  <2>5. \A x \in Addr : x \notin b..(m - 1) /\ x # m => k4.hdr[x] = h0.hdr[x]
    BY <1>2, <1>5, <1>11, <1>13, <1>14
  <2> QED
    BY <1>11, <1>13, <2>2, <2>3, <2>4, <2>5
<1>16. k4.ftr[m] = k /\ \A x \in Addr : x \notin (b + 1)..m => k4.ftr[x] = h0.ftr[x]
  <2>1. \A x \in Addr : x \notin (b + 1)..m => x \notin inside /\ x # m
    BY <1>1 DEF inside
  <2> QED
    BY <1>1, <1>2, <1>6, <1>11, <1>13, <1>14, <2>1
<1> DEFINE sz == Sizes(h0)
           sz2 == Sizes(k4)
<1>17. /\ sz \in [Addr -> Nat] /\ sz2 \in [Addr -> Nat]
       /\ \A x \in Addr : sz[x] = h0.hdr[x].size /\ sz2[x] = k4.hdr[x].size
  BY <1>13, Views
<1>18. sz2[b] = m - b /\ (\A x \in (b + 1)..(m - 1) : sz2[x] = 0)
       /\ \A x \in Addr : x \notin b..(m - 1) => sz2[x] = sz[x]
  <2>1. sz2[b] = m - b
    BY <1>1, <1>10, <1>15, <1>17 DEF k
  <2>2. \A x \in (b + 1)..(m - 1) : sz2[x] = 0
    <3>1. inside \subseteq Addr
      BY <1>1 DEF inside, Addr
    <3> QED
      BY <1>15, <1>17, <3>1 DEF inside, Unset
  <2>3. ASSUME NEW x \in Addr, x \notin b..(m - 1) PROVE sz2[x] = sz[x]
    <3>1. CASE x = m
      BY <1>15, <1>17, <3>1
    <3>2. CASE x # m
      BY <1>15, <1>17, <2>3, <3>2
    <3> QED
      BY <3>1, <3>2
  <2> QED
    BY <2>1, <2>2, <2>3
<1>19. /\ b \notin Allocs(k4)
       /\ \A x \in Addr : x \notin b..(m - 1) => (x \in Allocs(k4) <=> x \in Allocs(h0))
  <2>1. b \notin Allocs(k4)
    BY <1>10, <1>15 DEF Allocs
  <2>2. ASSUME NEW x \in Addr, x \notin b..(m - 1) PROVE k4.hdr[x].alloc = h0.hdr[x].alloc
    <3>1. CASE x = m
      BY <1>15, <3>1
    <3>2. CASE x # m
      BY <1>15, <2>2, <3>2
    <3> QED
      BY <3>1, <3>2
  <2> QED
    BY <2>1, <2>2 DEF Allocs
<1>20. /\ m \notin Prevs(k4)
       /\ \A x \in Addr : x \notin (b + 1)..m => (x \in Prevs(k4) <=> x \in Prevs(h0))
  <2>1. m \notin Prevs(k4)
    BY <1>15 DEF Prevs
  <2>2. b \in Prevs(k4)
    BY <1>1, <1>10, <1>15 DEF Prevs
  <2>3. ASSUME NEW x \in Addr, x \notin (b + 1)..m, x # b PROVE k4.hdr[x] = h0.hdr[x]
    <3>1. x \notin b..(m - 1) /\ x # m
      BY <1>1, <2>3 DEF Addr
    <3> QED
      BY <1>15, <3>1
  <2> QED
    BY <1>1, <2>1, <2>2, <2>3 DEF Prevs
<1>21. AgreeOutside(sz, Allocs(h0), Prevs(h0), h0.ftr, sz2, Allocs(k4), Prevs(k4), k4.ftr, b, m)
  BY <1>16, <1>18, <1>19, <1>20 DEF AgreeOutside
<1>22. End(k4) = e
  BY <1>13 DEF End, e
<1> HIDE DEF sz, sz2
<1>23. /\ Tiling(sz2, Allocs(k4), Prevs(k4), k4.ftr, e)
       /\ Starts(sz2, e) = (Starts(sz, e) \ (b..(m - 1))) \cup {b}
  <2>1. b \in Starts(sz, e) /\ m \in Starts(sz, e) \cup {e} /\ Tiling(sz, Allocs(h0), Prevs(h0), h0.ftr, e)
    BY DEF sz, e
  <2> QED
    BY <1>1, <1>16, <1>17, <1>18, <1>19, <1>20, <1>21, <2>1, RetileOne, SMTT(40) DEF k
<1>24. FreeBlocks(k4) = N \cup {b}
  <2>1. FreeBlocks(h0) = Starts(sz, e) \ Allocs(h0) /\ FreeBlocks(k4) = Starts(sz2, e) \ Allocs(k4)
    BY <1>22 DEF FreeBlocks, sz, sz2, e
  <2>2. \A x \in Starts(sz, e) : x \in Addr
    BY <1>1 DEF Starts, Addr
  <2> QED
    BY <1>19, <1>23, <2>1, <2>2 DEF N
<1>25. Lists(k4.nx, k4.pv, N \cup {b}, sz2)
  <2>1. \A x \in N : x \notin inside /\ x \notin b..(m - 1) /\ x \in Addr
    BY <1>7, <1>14 DEF N
  <2>2. Lists(h.nx, h.pv, N, sz2)
    <3>1. SameOn(N, h.nx, h.pv, sz, h.nx, h.pv, sz2)
      BY <1>18, <2>1 DEF SameOn
    <3>2. Lists(h.nx, h.pv, N, sz)
      BY <1>2 DEF sz
    <3> QED
      BY <1>7, <3>1, <3>2, SameLists
  <2>3. sz2[b] = -(-k)
    BY <1>1, <1>18 DEF k
  <2>4. Lists(k2.nx, k2.pv, N \cup {b}, sz2)
    <3>1. LinkedBehind(h.nx, h.pv, b, -k, k2.nx, k2.pv)
      BY <1>5, <1>9 DEF Added, LinkedBehind
    <3> QED
      BY <1>1, <1>7, <2>2, <2>3, <3>1, Insert
  <2>5. \A l \in (N \cup {b}) \cup Sentinels : l \notin inside /\ l \in Links
    <3>1. \A l \in Sentinels : l \notin inside
      BY <1>1 DEF inside, Sentinels
    <3> QED
      BY <1>1, <1>7, <1>14, <2>1, <3>1, NodesAreLinks
  <2>6. SameOn(N \cup {b}, k2.nx, k2.pv, sz2, k4.nx, k4.pv, sz2)
    BY <1>11, <1>13, <2>5 DEF SameOn
  <2>7. N \cup {b} \subseteq Addr
    BY <1>1, <1>7
  <2> QED
    BY <2>4, <2>6, <2>7, SameLists
<1>26. \A x \in N \cup {b} : sz2[x] <= k4.largest
  <2>1. h.largest \in Nat /\ k4.largest \in Nat /\ k4.largest >= h.largest /\ k4.largest >= k
    BY <1>2, <1>5, <1>9, <1>13 DEF HeapType, Added
  <2>2. \A x \in N : sz2[x] = sz[x] /\ sz[x] \in Nat /\ sz[x] <= h.largest
    BY <1>2, <1>7, <1>17, <1>18 DEF N, sz
  <2> QED
    BY <1>1, <1>18, <2>1, <2>2 DEF k
<1>27. \A x \in Addr : x \notin N \cup {b} => k4.nx[x] = NoLink
  <2> SUFFICES ASSUME NEW x \in Addr, x \notin N, x # b PROVE k4.nx[x] = NoLink
    OBVIOUS
  <2>1. x \in Links /\ x # -k
    BY <1>7, NodesAreLinks
  <2>2. CASE x \in inside
    BY <1>13, <2>1, <2>2
  <2>3. CASE x \notin inside
    <3>1. x \notin b..(m - 1)
      BY <1>1, <2>3 DEF inside, Addr
    <3> QED
      BY <1>2, <1>5, <1>9, <1>11, <1>13, <2>1, <2>3, <3>1 DEF Added
  <2> QED
    BY <2>2, <2>3
<1>28. b # -1 /\ \A x \in N : x # -1
  BY <1>1, <1>7, NodesAreLinks
<1>29. FreeBlocks(k4) \ {-1} = N \cup {b}
  BY <1>24, <1>28
<1>30. HeapOK(k4, -1)
  <2>1. Listed(k4, -1)
    BY <1>24, <1>25, <1>26, <1>27, <1>29 DEF Listed, sz2
  <2>2. k4.pages # 0
    BY <1>13, Views
  <2> QED
    BY <1>13, <1>22, <1>23, <2>1, <2>2 DEF HeapOK, sz2
<1>31. \A x \in Addr : x \notin b..(m - 1) => k4.hdr[x].req = h0.hdr[x].req
  BY <1>15
<1> QED
  <2>1. Merged(k4, h0, b, m)
    BY <1>13, <1>18, <1>19, <1>22, <1>23, <1>31 DEF Merged, sz, sz2, e
  <2> QED
    BY <1>30, <2>1 DEF k1, k2, k3, k4

-----------------------------------------------------------------------------
(* sf_free.                                                                *)

\* removeHeader of a block that is on a list: the block still points to its
\* old neighbours.
Delisted(g, h, a, N, sz) ==
    /\ Removed(g, h, a)
    /\ Lists(g.nx, g.pv, N \ {a}, sz)
    /\ g.nx[a] \in (N \ {a}) \cup Sentinels /\ g.pv[a] \in (N \ {a}) \cup Sentinels
    /\ g.nx[g.pv[a]] = g.nx[a] /\ g.pv[g.nx[a]] = g.pv[a]

\* removeHeader in a heap with the lists of N.
LEMMA ListRemove ==
    ASSUME NEW h \in HeapType, NEW N, N \subseteq Addr, NEW sz, Lists(h.nx, h.pv, N, sz),
           NEW a \in N
    PROVE  Delisted(removeHeader(h, a), h, a, N, sz)
<1>1. PICK r \in [Addr -> Nat] : \A l \in N : h.pv[l] \in N => r[h.pv[l]] < r[l]
  BY DEF Lists, Ranked
<1>2. h.nx[a] \in N \cup Sentinels /\ h.pv[a] \in N \cup Sentinels
  BY DEF Lists, Ring
<1>3. h.pv[a] # a
  <2>1. r[a] \in Nat
    OBVIOUS
  <2> QED
    BY <1>1, <2>1
<1>4. h.nx[a] \in Links /\ h.pv[a] \in Links
  BY <1>2, NodesAreLinks
<1> DEFINE g == removeHeader(h, a)
<1>5. Removed(g, h, a)
  BY <1>3, <1>4, RemoveEffect
<1> HIDE DEF g
<1>6. UnlinkedFrom(h.nx, h.pv, a, g.nx, g.pv)
  BY <1>5 DEF Removed, UnlinkedFrom
<1>7. /\ Lists(g.nx, g.pv, N \ {a}, sz)
      /\ h.nx[a] \in (N \ {a}) \cup Sentinels /\ h.pv[a] \in (N \ {a}) \cup Sentinels
      /\ g.nx[h.pv[a]] = h.nx[a] /\ g.pv[h.nx[a]] = h.pv[a]
      /\ g.nx[a] = h.nx[a] /\ g.pv[a] = h.pv[a]
  <2> DEFINE u == h.nx
             v == h.pv
             u2 == g.nx
             v2 == g.pv
  <2>1. Lists(u, v, N, sz) /\ UnlinkedFrom(u, v, a, u2, v2)
    BY <1>6
  <2> HIDE DEF u, v, u2, v2
  <2>2. /\ Lists(u2, v2, N \ {a}, sz)
        /\ u[a] \in (N \ {a}) \cup Sentinels /\ v[a] \in (N \ {a}) \cup Sentinels
        /\ u2[v[a]] = u[a] /\ v2[u[a]] = v[a]
        /\ u2[a] = u[a] /\ v2[a] = v[a]
    BY <2>1, Unlink
  <2> QED
    BY <2>2 DEF u, v, u2, v2
<1> QED
  BY <1>5, <1>7 DEF g, Delisted, Removed

\* The block in front of a free block is in use, and so is the block behind.
LEMMA FreeNeighbours ==
    ASSUME NEW e \in 2..Limit, NEW sz \in [Addr -> Nat], NEW A, NEW P, NEW ftr,
           Tiling(sz, A, P, ftr, e), NEW x \in Starts(sz, e), x \notin A
    PROVE  x \in P /\ x + sz[x] \in A /\ x + sz[x] \notin P /\ ftr[x + sz[x]] = sz[x]
<1>1. TilesAt(sz, A, P, ftr, e, x) /\ 0 \in P
  BY DEF Tiling
<1>2. x + sz[x] \in A /\ x + sz[x] \notin P /\ ftr[x + sz[x]] = sz[x]
  BY <1>1 DEF TilesAt
<1>3. CASE x # 0
  <2>1. PICK y \in Starts(sz, e) : y + sz[y] = x
    BY <1>3 DEF Tiling
  <2>2. TilesAt(sz, A, P, ftr, e, y)
    BY DEF Tiling
  <2> QED
    BY <1>2, <2>1, <2>2 DEF TilesAt
<1> QED
  BY <1>1, <1>2, <1>3

\* A block in use whose header says that the block in front is free finds it
\* through the footer.
LEMMA FreeBefore ==
    ASSUME NEW e \in 2..Limit, NEW sz \in [Addr -> Nat], NEW A, NEW P, NEW ftr,
           Tiling(sz, A, P, ftr, e), NEW x \in Starts(sz, e) \cup {e}, x \notin P
    PROVE  LET y == x - ftr[x] IN
           /\ y \in Starts(sz, e) /\ y \notin A /\ y + sz[y] = x /\ y < x /\ ftr[x] = sz[y]
<1>1. x # 0
  BY DEF Tiling
<1>2. PICK y \in Starts(sz, e) : y + sz[y] = x
  BY <1>1 DEF Tiling
<1>3. TilesAt(sz, A, P, ftr, e, y)
  BY DEF Tiling
<1>4. y \notin A /\ ftr[x] = sz[y] /\ sz[y] >= 2
  BY <1>2, <1>3 DEF TilesAt, MIN_SZ
<1>5. y \in Nat /\ y \in Addr /\ sz[y] \in Nat
  BY Bounds DEF Starts, Addr
<1>6. x - ftr[x] = y /\ y < x
  <2> DEFINE z == sz[y]
  <2>1. z \in Nat /\ z >= 2 /\ y + z = x /\ ftr[x] = z /\ y \in Nat
    BY <1>2, <1>4, <1>5
  <2> HIDE DEF z
  <2>2. (y + z) - z = y /\ y < y + z
    BY <2>1
  <2> QED
    BY <2>1, <2>2
<1> QED
  BY <1>2, <1>4, <1>6

\* A free block behind the blocks that become one becomes part of them.
LEMMA MergeRight ==
    ASSUME NEW h0 \in HeapType, h0.pages > 0,
           Tiling(Sizes(h0), Allocs(h0), Prevs(h0), h0.ftr, End(h0)),
           NEW g, NEW b \in Addr, NEW n \in FreeBlocks(h0), b < n, Between(h0, g, b, n),
           g.hdr[b].size = n - b
    PROVE  LET f == coalesce(removeHeader(g, n), b, g.hdr[n].size)
               m == n + Sizes(h0)[n]
           IN  Between(h0, f, b, m) /\ f.hdr[b].size = m - b
<1> DEFINE sz == Sizes(h0)
           e == End(h0)
           m == n + sz[n]
           N == FreeBlocks(h0) \ (b..(n - 1))
           r == removeHeader(g, n)
           f == coalesce(r, b, g.hdr[n].size)
<1>1. /\ n \in Starts(sz, e) /\ n \notin Allocs(h0) /\ e \in 2..Limit /\ sz \in [Addr -> Nat]
      /\ FreeBlocks(h0) \subseteq Addr /\ n \in Addr /\ n \in Nat /\ b \in Nat /\ sz[n] \in Nat
      /\ Limit \in Nat
  <2>1. /\ n \in Starts(sz, e) /\ n \notin Allocs(h0) /\ e \in 2..Limit /\ sz \in [Addr -> Nat]
        /\ FreeBlocks(h0) \subseteq Addr
    BY Views DEF FreeBlocks
  <2>2. n \in Addr /\ Limit \in Nat
    BY <2>1, Bounds
  <2>3. sz[n] \in Nat
    BY <2>1, <2>2
  <2> QED
    BY <2>1, <2>2, <2>3 DEF Addr
<1>2. TilesAt(sz, Allocs(h0), Prevs(h0), h0.ftr, e, n)
  BY <1>1 DEF Tiling
<1>3. sz[n] >= 2 /\ m \in Starts(sz, e) \cup {e} /\ \A y \in (n + 1)..(m - 1) : sz[y] = 0
  BY <1>1, <1>2 DEF TilesAt, MIN_SZ
<1>4. m \in Nat /\ m > n /\ m <= Limit /\ m \in Addr
  <2> DEFINE z == sz[n]
  <2>1. z \in Nat /\ z >= 2 /\ m = n + z /\ n \in Nat
    BY <1>1, <1>3
  <2>2. m \in 0..Limit
    BY <1>1, <1>3 DEF Starts
  <2> HIDE DEF z, m
  <2> QED
    BY <2>1, <2>2, <1>1 DEF Addr
<1>5. /\ g \in HeapType /\ g.pages = h0.pages /\ g.largest = h0.largest
      /\ \A x \in Addr : x \notin b..(n - 1) => g.hdr[x] = h0.hdr[x]
      /\ \A x \in Addr : x \notin (b + 1)..n => g.ftr[x] = h0.ftr[x]
      /\ Lists(g.nx, g.pv, N, sz)
      /\ \A x \in N : sz[x] <= g.largest
      /\ \A x \in Addr : x \notin N /\ x \notin b..(n - 1) => g.nx[x] = NoLink
  BY DEF Between
<1>6. n \in N /\ N \subseteq Addr
  BY <1>1
<1>7. g.hdr[n].size = sz[n]
  <2>1. n \notin b..(n - 1)
    BY <1>1
  <2> QED
    BY <1>1, <1>5, <2>1, Views
<1>8. FreeBlocks(h0) \ (b..(m - 1)) = N \ {n}
  <2>1. \A y \in (n + 1)..(m - 1) : y \notin FreeBlocks(h0)
    BY <1>3 DEF FreeBlocks, Starts
  <2>2. b..(m - 1) = (b..(n - 1)) \cup {n} \cup ((n + 1)..(m - 1))
    BY <1>1, <1>4
  <2> QED
    BY <2>1, <2>2
<1> HIDE DEF N, m, sz
<1>9. Removed(r, g, n) /\ Lists(r.nx, r.pv, N \ {n}, sz)
  BY <1>5, <1>6, ListRemove DEF Delisted
<1> HIDE DEF r
<1>10. r \in HeapType /\ r.hdr = g.hdr /\ r.ftr = g.ftr /\ r.pages = g.pages /\ r.largest = g.largest
  BY <1>9 DEF Removed
<1>11. m - b = r.hdr[b].size + g.hdr[n].size /\ g.hdr[n].size \in Nat
  BY <1>1, <1>7, <1>10 DEF m
<1>12. Coalesced(f, r, b, m - b)
  BY <1>10, <1>11, CoalesceEffect
<1> HIDE DEF f
<1>13. b + (m - b) = m
  BY <1>1, <1>4
<1>14. /\ f \in HeapType /\ f.pages = h0.pages /\ f.largest = h0.largest /\ f.nx = r.nx /\ f.pv = r.pv
       /\ f.hdr[b].size = m - b
       /\ \A x \in Addr : x # b => f.hdr[x] = g.hdr[x]
       /\ \A x \in Addr : x # m => f.ftr[x] = g.ftr[x]
  BY <1>5, <1>10, <1>12, <1>13 DEF Coalesced
<1>15. \A x \in Addr : x \notin b..(m - 1) => f.hdr[x] = h0.hdr[x]
  <2>1. \A x \in Addr : x \notin b..(m - 1) => x # b /\ x \notin b..(n - 1)
    BY <1>1, <1>4
  <2> QED
    BY <1>5, <1>14, <2>1
<1>16. \A x \in Addr : x \notin (b + 1)..m => f.ftr[x] = h0.ftr[x]
  <2>1. \A x \in Addr : x \notin (b + 1)..m => x # m /\ x \notin (b + 1)..n
    BY <1>1, <1>4
  <2> QED
    BY <1>5, <1>14, <2>1
<1>17. \A x \in Addr : x \notin N \ {n} /\ x \notin b..(m - 1) => f.nx[x] = NoLink
  <2> SUFFICES ASSUME NEW x \in Addr, x \notin N \ {n}, x \notin b..(m - 1) PROVE f.nx[x] = NoLink
    OBVIOUS
  <2>1. x # n /\ x \notin b..(n - 1) /\ x \in Links
    BY <1>1, <1>4, NodesAreLinks
  <2>2. x \notin N /\ g.nx[x] = NoLink
    BY <1>5, <2>1
  <2>3. x # g.pv[n]
    <3>1. g.pv[n] \in N \cup Sentinels
      BY <1>5, <1>6 DEF Lists, Ring
    <3> QED
      BY <2>2, <3>1, NodesAreLinks
  <2> QED
    BY <1>9, <1>14, <2>1, <2>2, <2>3 DEF Removed
<1>18. \A x \in N \ {n} : sz[x] <= f.largest
  BY <1>5, <1>14
<1>19. Between(h0, f, b, m)
  BY <1>8, <1>9, <1>14, <1>15, <1>16, <1>17, <1>18 DEF Between, sz
<1> QED
  BY <1>14, <1>19 DEF f, m, r, sz

\* The block a in use becomes part of the free block b in front of it.
LEMMA MergeLeft ==
    ASSUME NEW h0, HeapOK(h0, -1), h0.pages > 0,
           NEW a \in Used(h0), NEW b \in FreeBlocks(h0), b + Sizes(h0)[b] = a
    PROVE  LET g == coalesce(removeHeader(h0, b), b, h0.hdr[a].size)
               n == a + Sizes(h0)[a]
           IN  Between(h0, g, b, n) /\ g.hdr[b].size = n - b /\ g.hdr[a] = h0.hdr[a]
<1> DEFINE sz == Sizes(h0)
           e == End(h0)
           n == a + sz[a]
           N == FreeBlocks(h0)
           r == removeHeader(h0, b)
           g == coalesce(r, b, h0.hdr[a].size)
<1>1. /\ h0 \in HeapType /\ Tiling(sz, Allocs(h0), Prevs(h0), h0.ftr, e) /\ Listed(h0, -1)
  BY DEF HeapOK
<1>2. /\ e \in 2..Limit /\ sz \in [Addr -> Nat] /\ N \subseteq Addr /\ Limit \in Nat
      /\ \A x \in Addr : sz[x] = h0.hdr[x].size
  BY <1>1, Views, Bounds
<1>3. /\ b \in Starts(sz, e) /\ b \notin Allocs(h0) /\ a \in Starts(sz, e) /\ a \in Allocs(h0)
      /\ a \in Addr /\ b \in Addr /\ a \in Nat /\ b \in Nat
  BY <1>2 DEF FreeBlocks, Used, Starts, Addr
<1>4. sz[a] \in Nat /\ sz[b] \in Nat
  BY <1>2, <1>3
<1>5. TilesAt(sz, Allocs(h0), Prevs(h0), h0.ftr, e, a) /\ TilesAt(sz, Allocs(h0), Prevs(h0), h0.ftr, e, b)
  BY <1>1, <1>3 DEF Tiling
<1>6. /\ sz[a] >= 2 /\ n \in Starts(sz, e) \cup {e} /\ \A y \in (a + 1)..(n - 1) : sz[y] = 0
      /\ sz[b] >= 2 /\ \A y \in (b + 1)..(a - 1) : sz[y] = 0
  BY <1>4, <1>5 DEF TilesAt, MIN_SZ
<1>7. b < a /\ a < n /\ n \in Nat /\ n - b = sz[b] + sz[a]
  <2> DEFINE y == sz[a]
             z == sz[b]
  <2>1. y \in Nat /\ z \in Nat /\ y >= 2 /\ z >= 2 /\ n = a + y /\ a = b + z
    BY <1>4, <1>6
  <2> HIDE DEF y, z, n
  <2> QED
    BY <2>1, <1>3 DEF y, z
<1>8. N \ {-1} = N
  BY <1>2 DEF Addr
<1>9. /\ Lists(h0.nx, h0.pv, N, sz)
      /\ \A x \in N : sz[x] <= h0.largest
      /\ \A x \in Addr : x \notin N => h0.nx[x] = NoLink
  BY <1>1, <1>8 DEF Listed
<1>10. N \ (b..(n - 1)) = N \ {b}
  <2>1. a \notin N /\ (\A y \in (a + 1)..(n - 1) : y \notin N) /\ \A y \in (b + 1)..(a - 1) : y \notin N
    BY <1>3, <1>6 DEF FreeBlocks, Starts
  <2>2. b..(n - 1) = {b} \cup ((b + 1)..(a - 1)) \cup {a} \cup ((a + 1)..(n - 1))
    BY <1>3, <1>7
  <2> HIDE DEF N, n
  <2> QED
    BY <2>1, <2>2
<1> HIDE DEF N, n, sz
<1>11. Removed(r, h0, b) /\ Lists(r.nx, r.pv, N \ {b}, sz)
  <2>1. b \in N
    BY DEF N
  <2> QED
    BY <1>1, <1>2, <1>9, <2>1, ListRemove DEF Delisted
<1> HIDE DEF r
<1>12. r \in HeapType /\ r.hdr = h0.hdr /\ r.ftr = h0.ftr /\ r.pages = h0.pages /\ r.largest = h0.largest
  BY <1>11 DEF Removed
<1>13. n - b = r.hdr[b].size + h0.hdr[a].size /\ h0.hdr[a].size \in Nat
  BY <1>2, <1>3, <1>4, <1>7, <1>12
<1>14. Coalesced(g, r, b, n - b)
  BY <1>3, <1>12, <1>13, CoalesceEffect
<1> HIDE DEF g
<1>15. b + (n - b) = n
  BY <1>3, <1>7
<1>16. /\ g \in HeapType /\ g.pages = h0.pages /\ g.largest = h0.largest /\ g.nx = r.nx /\ g.pv = r.pv
       /\ g.hdr[b].size = n - b
       /\ \A x \in Addr : x # b => g.hdr[x] = h0.hdr[x]
       /\ \A x \in Addr : x # n => g.ftr[x] = h0.ftr[x]
  BY <1>12, <1>14, <1>15 DEF Coalesced
<1>17. \A x \in Addr : x \notin b..(n - 1) => g.hdr[x] = h0.hdr[x]
  <2>1. \A x \in Addr : x \notin b..(n - 1) => x # b
    BY <1>3, <1>7
  <2> QED
    BY <1>16, <2>1
<1>18. \A x \in Addr : x \notin (b + 1)..n => g.ftr[x] = h0.ftr[x]
  <2>1. \A x \in Addr : x \notin (b + 1)..n => x # n
    BY <1>3, <1>7
  <2> QED
    BY <1>16, <2>1
<1>19. \A x \in Addr : x \notin N \ {b} /\ x \notin b..(n - 1) => g.nx[x] = NoLink
  <2> SUFFICES ASSUME NEW x \in Addr, x \notin N \ {b}, x \notin b..(n - 1) PROVE g.nx[x] = NoLink
    OBVIOUS
  <2>1. x # b /\ x \in Links
    BY <1>3, <1>7, NodesAreLinks
  <2>2. x \notin N /\ h0.nx[x] = NoLink
    BY <1>9, <2>1
  <2>3. x # h0.pv[b]
    <3>1. h0.pv[b] \in N \cup Sentinels
      BY <1>9 DEF Lists, Ring, N
    <3> QED
      BY <2>2, <3>1, NodesAreLinks
  <2> QED
    BY <1>11, <1>16, <2>1, <2>2, <2>3 DEF Removed
<1>20. \A x \in N \ {b} : sz[x] <= g.largest
  BY <1>9, <1>16
<1>21. Between(h0, g, b, n)
  BY <1>10, <1>11, <1>16, <1>17, <1>18, <1>19, <1>20 DEF Between, sz, N
<1>22. g.hdr[a] = h0.hdr[a]
  BY <1>3, <1>7, <1>16
<1> QED
  BY <1>16, <1>21, <1>22 DEF g, n, r, sz

\* The block a is free in g, and all other blocks in use are as they were.
Released(g, h, a) ==
    /\ g.pages = h.pages
    /\ Used(g) = Used(h) \ {a}
    /\ \A x \in Used(h) \ {a} : Sizes(g)[x] = Sizes(h)[x] /\ g.hdr[x].req = h.hdr[x].req

\* sf_free of a block in use, with a free block on either side or not.
LEMMA ReleaseOK ==
    ASSUME NEW h, HeapOK(h, -1), h.pages > 0, NEW a \in Used(h)
    PROVE  HeapOK(release(h, a), -1) /\ Released(release(h, a), h, a)
<1> DEFINE sz == Sizes(h)
           e == End(h)
           A == Allocs(h)
           P == Prevs(h)
           n == a + sz[a]
<1>1. /\ h \in HeapType /\ Tiling(sz, A, P, h.ftr, e) /\ Listed(h, -1)
  BY DEF HeapOK
<1>2. /\ e \in 2..Limit /\ sz \in [Addr -> Nat] /\ FreeBlocks(h) \subseteq Addr /\ Limit \in Nat
      /\ A \subseteq Addr /\ e \in Addr
      /\ \A x \in Addr : sz[x] = h.hdr[x].size
  BY <1>1, Views, Bounds
<1>3. a \in Starts(sz, e) /\ a \in A /\ a \in Addr /\ a \in Nat
  BY <1>2 DEF Used, Starts, Addr
<1>4. sz[a] \in Nat /\ TilesAt(sz, A, P, h.ftr, e, a)
  BY <1>1, <1>2, <1>3 DEF Tiling
<1>5. sz[a] >= 2 /\ n \in Starts(sz, e) \cup {e} /\ \A y \in (a + 1)..(n - 1) : sz[y] = 0
  BY <1>4 DEF TilesAt, MIN_SZ
<1>6. \A x \in Starts(sz, e) : x \in Addr /\ x \in Nat
  BY <1>2 DEF Starts, Addr
<1>7. n \in Nat /\ n > a /\ n \in Addr /\ n - a >= 2 /\ sz[a] = n - a
  <2> DEFINE z == sz[a]
  <2>1. z \in Nat /\ z >= 2 /\ n = a + z
    BY <1>4, <1>5
  <2>2. n \in Addr
    BY <1>2, <1>5, <1>6
  <2> HIDE DEF z, n
  <2> QED
    BY <1>3, <2>1, <2>2 DEF z
<1> HIDE DEF sz, e, A, P, n
<1> DEFINE b == IF h.hdr[a].prev THEN a ELSE a - h.ftr[a]
           g == IF h.hdr[a].prev THEN h ELSE coalesce(removeHeader(h, b), b, h.hdr[a].size)
<1>8. /\ b \in Starts(sz, e) /\ b \in P /\ b <= a /\ Between(h, g, b, n)
      /\ g.hdr[b].size = n - b /\ g.hdr[a] = h.hdr[a]
      /\ \A x \in Starts(sz, e) : x \in b..(n - 1) => x \notin A \/ x = a
  <2>1. \A x \in Starts(sz, e) : x \notin (a + 1)..(n - 1)
    BY <1>5 DEF Starts
  <2>2. CASE h.hdr[a].prev
    <3>1. b = a /\ g = h /\ a \in P
      BY <1>3, <2>2 DEF P, Prevs
    <3> HIDE DEF b, g
    <3>2. FreeBlocks(h) \ (a..(n - 1)) = FreeBlocks(h) /\ FreeBlocks(h) \ {-1} = FreeBlocks(h)
      <4>1. FreeBlocks(h) \subseteq Starts(sz, e) /\ a \notin FreeBlocks(h)
        BY <1>3 DEF FreeBlocks, sz, e, A
      <4>2. \A x \in a..(n - 1) : x = a \/ x \in (a + 1)..(n - 1)
        BY <1>3, <1>7
      <4> QED
        BY <1>6, <2>1, <4>1, <4>2
    <3>3. Between(h, h, a, n)
      BY <1>1, <3>2 DEF Between, Listed
    <3>4. \A x \in a..(n - 1) : x = a \/ x \in (a + 1)..(n - 1)
      BY <1>3, <1>7
    <3>5. h.hdr[a].size = n - a
      BY <1>2, <1>3, <1>7
    <3> QED
      BY <1>3, <2>1, <3>1, <3>3, <3>4, <3>5
  <2>3. CASE ~h.hdr[a].prev
    <3> DEFINE y == a - h.ftr[a]
    <3>1. a \notin P
      BY <1>3, <2>3 DEF P, Prevs
    <3>2. y \in Starts(sz, e) /\ y \notin A /\ y + sz[y] = a /\ y < a
      BY <1>1, <1>2, <1>3, <3>1, FreeBefore
    <3>3. b = y /\ g = coalesce(removeHeader(h, y), y, h.hdr[a].size)
      BY <2>3
    <3> HIDE DEF b, g, y
    <3>4. y \in FreeBlocks(h) /\ a \in Used(h)
      BY <3>2 DEF FreeBlocks, sz, e, A
    <3>5. Between(h, g, y, n) /\ g.hdr[y].size = n - y /\ g.hdr[a] = h.hdr[a]
      BY <3>2, <3>3, <3>4, MergeLeft DEF n, sz
    <3>6. y \in P
      BY <1>1, <1>2, <3>2, FreeNeighbours
    <3>7. TilesAt(sz, A, P, h.ftr, e, y)
      BY <1>1, <3>2 DEF Tiling
    <3>8. \A x \in Starts(sz, e) : x \notin (y + 1)..(a - 1)
      BY <3>2, <3>7 DEF TilesAt, Starts
    <3>9. y \in Nat
      BY <1>6, <3>2
    <3>10. \A x \in y..(n - 1) : x = y \/ x \in (y + 1)..(a - 1) \/ x = a \/ x \in (a + 1)..(n - 1)
      BY <1>3, <1>7, <3>2, <3>9
    <3>11. \A x \in Starts(sz, e) : x \in y..(n - 1) => x \notin A \/ x = a
      BY <2>1, <3>2, <3>8, <3>10
    <3>12. y <= a
      BY <1>3, <3>2, <3>9
    <3> QED
      BY <3>2, <3>3, <3>5, <3>6, <3>11, <3>12
  <2> QED
    BY <2>2, <2>3
<1> DEFINE f == IF g.hdr[n].alloc THEN g ELSE coalesce(removeHeader(g, n), b, g.hdr[n].size)
<1>9. release(h, a) = forget(setPrev(addHeaderToFreeList(coalesce(f, b, 0), b), b, FALSE), b)
  <2>1. getNextHeaderPointer(g, a) = n
    BY <1>2, <1>3, <1>8 DEF getNextHeaderPointer, n
  <2> QED
    BY <2>1 DEF release
<1> HIDE DEF b, g
<1>10. b \in Nat /\ b \in Addr /\ b < n
  <2>1. b \in Nat /\ b \in Addr /\ b <= a
    BY <1>6, <1>8
  <2> QED
    BY <1>3, <1>7, <2>1
<1>11. g.hdr[n] = h.hdr[n]
  <2>1. n \notin b..(n - 1)
    BY <1>7, <1>10
  <2> QED
    BY <1>7, <1>8, <2>1 DEF Between
<1>12. \E m \in Starts(sz, e) \cup {e} :
          /\ m - b >= 2 /\ m \in A /\ Between(h, f, b, m) /\ f.hdr[b].size = m - b
          /\ \A x \in Starts(sz, e) : x \in b..(m - 1) => x \notin A \/ x = a
          /\ a \in b..(m - 1)
  <2>1. a \in b..(n - 1) /\ n - b >= 2
    BY <1>3, <1>7, <1>8, <1>10
  <2>2. CASE g.hdr[n].alloc
    <3>1. f = g /\ n \in A
      BY <1>7, <1>11, <2>2 DEF A, Allocs
    <3> HIDE DEF f
    <3> QED
      BY <1>5, <1>8, <2>1, <3>1
  <2>3. CASE ~g.hdr[n].alloc
    <3> DEFINE m == n + sz[n]
    <3>1. n \notin A /\ f = coalesce(removeHeader(g, n), b, g.hdr[n].size)
      BY <1>11, <2>3 DEF A, Allocs
    <3> HIDE DEF f
    <3>2. n \in Starts(sz, e)
      BY <1>1, <1>5, <3>1 DEF Tiling
    <3>3. n \in FreeBlocks(h)
      BY <3>1, <3>2 DEF FreeBlocks, sz, e, A
    <3>4. Between(h, f, b, m) /\ f.hdr[b].size = m - b
      BY <1>1, <1>8, <1>10, <3>1, <3>3, MergeRight DEF sz, e, A, P
    <3>5. TilesAt(sz, A, P, h.ftr, e, n) /\ sz[n] \in Nat
      BY <1>1, <1>2, <1>7, <3>2 DEF Tiling
    <3>6. m \in Starts(sz, e) \cup {e} /\ m \in A /\ sz[n] >= 2 /\ \A y \in (n + 1)..(m - 1) : sz[y] = 0
      BY <3>1, <3>5 DEF TilesAt, MIN_SZ
    <3>7. m \in Nat /\ m > n
      <4> DEFINE z == sz[n]
      <4>1. z \in Nat /\ z >= 2 /\ m = n + z
        BY <3>5, <3>6
      <4> HIDE DEF z, m
      <4> QED
        BY <1>7, <4>1
    <3> HIDE DEF m
    <3>8. m - b >= 2 /\ a \in b..(m - 1)
      BY <1>7, <1>10, <2>1, <3>7
    <3>9. \A x \in b..(m - 1) : x \in b..(n - 1) \/ x = n \/ x \in (n + 1)..(m - 1)
      BY <1>7, <1>10, <3>7
    <3>10. \A x \in Starts(sz, e) : x \in b..(m - 1) => x \notin A \/ x = a
      BY <1>8, <3>1, <3>6, <3>9 DEF Starts
    <3> QED
      BY <3>4, <3>6, <3>8, <3>10
  <2> QED
    BY <2>2, <2>3
<1> HIDE DEF f
<1>13. PICK m \in Starts(sz, e) \cup {e} :
          /\ m - b >= 2 /\ m \in A /\ Between(h, f, b, m) /\ f.hdr[b].size = m - b
          /\ \A x \in Starts(sz, e) : x \in b..(m - 1) => x \notin A \/ x = a
          /\ a \in b..(m - 1)
  BY <1>12
<1>14. HeapOK(release(h, a), -1) /\ Merged(release(h, a), h, b, m)
  <2>1. /\ Tiling(Sizes(h), Allocs(h), Prevs(h), h.ftr, End(h))
        /\ b \in Starts(Sizes(h), End(h)) /\ m \in Starts(Sizes(h), End(h)) \cup {End(h)}
        /\ m - b >= 2 /\ b \in Prevs(h) /\ m \in Allocs(h)
    BY <1>1, <1>8, <1>13 DEF sz, e, A, P
  <2> QED
    BY <1>1, <1>9, <1>13, <2>1, FinishFree
<1> DEFINE q == release(h, a)
<1> HIDE DEF q
<1>15. /\ q.pages = h.pages
       /\ Starts(Sizes(q), End(q)) = (Starts(sz, e) \ (b..(m - 1))) \cup {b}
       /\ \A x \in Addr : x \notin b..(m - 1) =>
             /\ x \in Allocs(q) <=> x \in A
             /\ Sizes(q)[x] = sz[x] /\ q.hdr[x].req = h.hdr[x].req
       /\ b \notin Allocs(q)
  BY <1>14 DEF Merged, q, sz, e, A
<1>16. Used(h) = Starts(sz, e) \cap A
  BY DEF Used, sz, e, A
<1>17. Used(q) = Used(h) \ {a}
  BY <1>6, <1>13, <1>15, <1>16 DEF Used
<1>18. \A x \in Used(h) \ {a} : x \in Addr /\ x \notin b..(m - 1)
  BY <1>6, <1>13, <1>16
<1>19. Released(q, h, a)
  BY <1>15, <1>17, <1>18 DEF Released, sz
<1> QED
  BY <1>14, <1>19 DEF q

-----------------------------------------------------------------------------
(* sf_malloc and sf_realloc.                                               *)

\* The blocks of h0 from a to m are, in g, a block in use and a free block
\* from c on.
SplitInto(g, h0, a, c, m) ==
    LET N == FreeBlocks(h0) \ (a..(m - 1)) IN
    /\ g \in HeapType /\ g.pages = h0.pages
    /\ \A x \in Addr : x \notin a..(m - 1) /\ x # m => g.hdr[x] = h0.hdr[x]
    /\ g.hdr[m].size = h0.hdr[m].size /\ g.hdr[m].alloc = h0.hdr[m].alloc
    /\ g.hdr[m].prev = FALSE /\ g.hdr[m].req = h0.hdr[m].req
    /\ g.hdr[a].size = c - a /\ g.hdr[a].alloc /\ (g.hdr[a].prev = h0.hdr[a].prev)
    /\ g.hdr[c].size = m - c /\ ~g.hdr[c].alloc /\ g.hdr[c].prev
    /\ \A x \in (a + 1)..(m - 1) : x # c => g.hdr[x].size = 0
    /\ g.ftr[m] = m - c
    /\ \A x \in Addr : x \notin (a + 1)..m => g.ftr[x] = h0.ftr[x]
    /\ Lists(g.nx, g.pv, N \cup {c}, Sizes(g))
    /\ \A x \in N \cup {c} : Sizes(g)[x] <= g.largest
    /\ \A x \in Addr : x \notin N \cup {c} => g.nx[x] = NoLink

\* The block a of g is in use, and what was in use in h0 still is.
Allocated(g, h0, a) ==
    /\ g.pages = h0.pages
    /\ Used(g) = Used(h0) \cup {a}
    /\ \A x \in Used(h0) \ {a} : Sizes(g)[x] = Sizes(h0)[x] /\ g.hdr[x].req = h0.hdr[x].req

\* A block cut in two, the second part free and listed.
LEMMA SplitOK ==
    ASSUME NEW h0 \in HeapType, h0.pages > 0,
           Tiling(Sizes(h0), Allocs(h0), Prevs(h0), h0.ftr, End(h0)),
           NEW a \in Starts(Sizes(h0), End(h0)), NEW m \in Starts(Sizes(h0), End(h0)) \cup {End(h0)},
           NEW c \in Nat, c - a >= 2, m - c >= 2, m \in Allocs(h0),
           \A x \in Used(h0) : x \in a..(m - 1) => x = a,
           NEW g, SplitInto(g, h0, a, c, m)
    PROVE  HeapOK(g, -1) /\ Allocated(g, h0, a)
<1> DEFINE sz == Sizes(h0)
           sz2 == Sizes(g)
           e == End(h0)
           N == FreeBlocks(h0) \ (a..(m - 1))
<1>1. /\ sz \in [Addr -> Nat] /\ e \in 2..Limit /\ e \in Addr
      /\ \A x \in Addr : sz[x] = h0.hdr[x].size
  BY Views
<1>2. g \in HeapType /\ g.pages = h0.pages
  BY DEF SplitInto
<1>3. sz2 \in [Addr -> Nat] /\ \A x \in Addr : sz2[x] = g.hdr[x].size
  BY <1>2, Views
<1>4. \A x \in Starts(sz, e) : x \in Addr /\ x \in Nat
  BY <1>1, Bounds DEF Starts, Addr
<1>5. a \in Addr /\ a \in Nat /\ m \in Addr /\ m \in Nat /\ c \in Addr /\ a < c /\ c < m
  <2>1. a \in Addr /\ a \in Nat /\ m \in Addr /\ m \in Nat
    BY <1>1, <1>4 DEF Addr
  <2> QED
    BY <2>1, Bounds DEF Addr
<1>6. \A x \in (a + 1)..(m - 1) : x \in Addr
  BY <1>5, Bounds DEF Addr
<1>7. \A x \in Addr : x \notin a..(m - 1) =>
        g.hdr[x].size = h0.hdr[x].size /\ g.hdr[x].alloc = h0.hdr[x].alloc /\ g.hdr[x].req = h0.hdr[x].req
  BY DEF SplitInto
<1>8. /\ sz2[a] = c - a /\ sz2[c] = m - c
      /\ (\A x \in (a + 1)..(m - 1) : x # c => sz2[x] = 0)
      /\ \A x \in Addr : x \notin a..(m - 1) => sz2[x] = sz[x]
  <2>1. g.hdr[a].size = c - a /\ g.hdr[c].size = m - c /\ \A x \in (a + 1)..(m - 1) : x # c => g.hdr[x].size = 0
    BY DEF SplitInto
  <2> QED
    BY <1>1, <1>3, <1>5, <1>6, <1>7, <2>1
<1>9. /\ a \in Allocs(g) /\ c \notin Allocs(g)
      /\ \A x \in Addr : x \notin a..(m - 1) => (x \in Allocs(g) <=> x \in Allocs(h0))
  BY <1>5, <1>7 DEF Allocs, SplitInto
<1>10. /\ c \in Prevs(g) /\ m \notin Prevs(g)
       /\ \A x \in Addr : x \notin (a + 1)..m => (x \in Prevs(g) <=> x \in Prevs(h0))
  <2>1. c \in Prevs(g) /\ m \notin Prevs(g) /\ (a \in Prevs(g) <=> a \in Prevs(h0))
    BY <1>5 DEF Prevs, SplitInto
  <2>2. ASSUME NEW x \in Addr, x \notin (a + 1)..m, x # a PROVE g.hdr[x] = h0.hdr[x]
    <3>1. x \notin a..(m - 1) /\ x # m
      BY <1>5, <2>2 DEF Addr
    <3> QED
      BY <3>1 DEF SplitInto
  <2> QED
    BY <2>1, <2>2 DEF Prevs
<1>11. g.ftr[m] = m - c /\ \A x \in Addr : x \notin (a + 1)..m => g.ftr[x] = h0.ftr[x]
  BY DEF SplitInto
<1>12. AgreeOutside(sz, Allocs(h0), Prevs(h0), h0.ftr, sz2, Allocs(g), Prevs(g), g.ftr, a, m)
  BY <1>8, <1>9, <1>10, <1>11 DEF AgreeOutside
<1>13. End(g) = e
  BY <1>2 DEF End
<1> HIDE DEF sz, sz2, e
<1>14. /\ Tiling(sz2, Allocs(g), Prevs(g), g.ftr, e)
       /\ Starts(sz2, e) = (Starts(sz, e) \ (a..(m - 1))) \cup {a, c}
  <2>1. a \in Starts(sz, e) /\ m \in Starts(sz, e) \cup {e} /\ Tiling(sz, Allocs(h0), Prevs(h0), h0.ftr, e)
    BY DEF sz, e
  <2> QED
    BY <1>1, <1>3, <1>8, <1>9, <1>10, <1>11, <1>12, <2>1, RetileTwo
<1>15. FreeBlocks(h0) = Starts(sz, e) \ Allocs(h0) /\ FreeBlocks(g) = Starts(sz2, e) \ Allocs(g)
       /\ Used(h0) = Starts(sz, e) \cap Allocs(h0) /\ Used(g) = Starts(sz2, e) \cap Allocs(g)
  BY <1>13 DEF FreeBlocks, Used, sz, sz2, e
<1>16. FreeBlocks(g) = N \cup {c}
  BY <1>4, <1>5, <1>9, <1>14, <1>15
<1>17. Used(g) = Used(h0) \cup {a}
  BY <1>4, <1>5, <1>9, <1>14, <1>15
<1>18. FreeBlocks(g) \ {-1} = N \cup {c}
  <2>1. c # -1 /\ \A x \in N : x # -1
    BY <1>4, <1>15
  <2> QED
    BY <1>16, <2>1
<1> HIDE DEF N
<1>19. Listed(g, -1)
  <2>1. /\ Lists(g.nx, g.pv, N \cup {c}, Sizes(g))
        /\ \A x \in N \cup {c} : Sizes(g)[x] <= g.largest
        /\ \A x \in Addr : x \notin N \cup {c} => g.nx[x] = NoLink
    BY DEF SplitInto, N
  <2> QED
    BY <1>16, <1>18, <2>1 DEF Listed
<1>20. HeapOK(g, -1)
  <2>1. g.pages # 0
    BY <1>2, Views
  <2> QED
    BY <1>2, <1>13, <1>14, <1>19, <2>1 DEF HeapOK, sz2
<1>21. \A x \in Used(h0) \ {a} : x \in Addr /\ x \notin a..(m - 1)
  BY <1>4, <1>15
<1>22. Allocated(g, h0, a)
  BY <1>2, <1>7, <1>8, <1>17, <1>21 DEF Allocated, sz, sz2
<1> QED
  BY <1>20, <1>22

\* Numbers of rows whose bytes fit into an int, and what their conversion does
\* to larger ones.
LEMMA IntRows ==
    /\ IntSize \div 32 \in Nat /\ IntSize = 32 * (IntSize \div 32) /\ IntSize \div 32 >= 6
    /\ IntSize \div 2 = 16 * (IntSize \div 32) /\ Limit < IntSize \div 32
<1>1. IntSize \in Nat \ {0} /\ IntSize % 32 = 0 /\ MaxPages \in Nat \ {0} /\ PAGE_SZ \in Nat
      /\ MaxPages * PAGE_SZ < IntSize \div 2 /\ PAGE_SZ >= 80 /\ PAGE_SZ % 16 = 0
  BY HeapAssumption
<1>2. IntSize \div 32 \in Nat /\ IntSize = 32 * (IntSize \div 32)
      /\ IntSize \div 2 = 16 * (IntSize \div 32)
  BY <1>1
<1>3. PAGE_SZ = 16 * PageRows /\ PageRows \in Nat /\ PageRows >= 5
  BY <1>1 DEF PageRows
<1> DEFINE r == MaxPages * PageRows
           q == IntSize \div 32
<1>4. r \in Nat /\ r >= 5 /\ MaxPages * PAGE_SZ = 16 * r
  BY <1>1, <1>3
<1>5. Limit = r - 3
  BY DEF Limit
<1>6. 16 * r < 16 * q
  BY <1>1, <1>2, <1>4
<1> HIDE DEF r, q
<1>7. r < q /\ q \in Nat /\ q >= 6
  BY <1>2, <1>4, <1>6 DEF q
<1> QED
  BY <1>2, <1>4, <1>5, <1>7 DEF q

\* What a conversion to int does in the range of the sums and differences here.
LEMMA ConvertRows ==
    ASSUME NEW z \in Int, NEW q \in Nat, q = IntSize \div 32
    PROVE  /\ z \in (-16 * q)..(16 * q - 1) => ToInt(z) = z
           /\ z \in (16 * q)..(32 * q - 1) => ToInt(z) = z - 32 * q
<1>1. IntSize = 32 * q /\ IntSize \div 2 = 16 * q /\ q >= 6 /\ IntSize \in Nat \ {0}
  BY IntRows, HeapAssumption
<1>2. ASSUME NEW k \in 0..(IntSize - 1) PROVE k % IntSize = k
  BY <1>1
<1>3. ASSUME z < 0, z >= -16 * q PROVE z % IntSize = z + IntSize
  BY <1>1, <1>3
<1> QED
  BY <1>1, <1>2, <1>3 DEF ToInt

\* The block size for a request is at least the smallest, or it has left the
\* range of int.
LEMMA NewSizeBound ==
    ASSUME NEW size \in Nat
    PROVE  /\ getNewSize(size) \in Int
           /\ \/ getNewSize(size) >= 2 /\ getNewSize(size) < IntSize \div 32
              \/ getNewSize(size) = -(IntSize \div 32) /\ getNewSize(size) < 0
<1> DEFINE n == ToInt(8 + size)
           q == IntSize \div 32
           d == (n + 15) \div 16
<1>1. q \in Nat /\ q >= 6 /\ IntSize = 32 * q /\ IntSize \div 2 = 16 * q
  BY IntRows
<1>2. n \in Int /\ n <= 16 * q - 1
  <2>1. (8 + size) % IntSize \in 0..(IntSize - 1)
    BY HeapAssumption
  <2> QED
    BY <1>1, <2>1 DEF ToInt
<1> HIDE DEF n, q
<1>3. n > 32 => d \in Nat /\ d >= 3 /\ d <= q
  BY <1>1, <1>2
<1> HIDE DEF d
<1>4. CASE n > 32 /\ d < q
  <2>1. d * 16 \in (-16 * q)..(16 * q - 1)
    BY <1>1, <1>3, <1>4
  <2>2. ToInt(d * 16) = d * 16
    BY <1>1, <1>3, <1>4, <2>1, ConvertRows DEF q
  <2>3. (d * 16) \div 16 = d
    BY <1>3, <1>4
  <2>4. getNewSize(size) = d
    BY <1>4, <2>2, <2>3 DEF getNewSize, n, d
  <2> QED
    BY <1>3, <1>4, <2>4 DEF q
<1>5. CASE n > 32 /\ d = q
  <2>1. d * 16 \in (16 * q)..(32 * q - 1)
    BY <1>1, <1>5
  <2>2. ToInt(d * 16) = d * 16 - 32 * q
    BY <1>1, <1>3, <1>5, <2>1, ConvertRows DEF q
  <2>3. (d * 16 - 32 * q) \div 16 = -q
    BY <1>1, <1>5
  <2>4. getNewSize(size) = -q
    BY <1>5, <2>2, <2>3 DEF getNewSize, n, d
  <2> QED
    BY <1>1, <2>4 DEF q
<1>6. CASE ~(n > 32)
  <2>1. getNewSize(size) = 2
    BY <1>6 DEF getNewSize, n, MIN_SZ
  <2> QED
    BY <1>1, <2>1 DEF q
<1> QED
  BY <1>1, <1>3, <1>4, <1>5, <1>6

\* What is left of a block is a block only if it is really there.
LEMMA SplitBound ==
    ASSUME NEW size \in Nat, NEW old \in 0..Limit
    PROVE  /\ splitSize(old, getNewSize(size)) \in Int
           /\ splitSize(old, getNewSize(size)) >= MIN_SZ =>
                 /\ getNewSize(size) \in Nat /\ getNewSize(size) >= 2
                 /\ splitSize(old, getNewSize(size)) = old - getNewSize(size)
<1> DEFINE n == getNewSize(size)
           q == IntSize \div 32
           s == splitSize(old, n)
<1>1. q \in Nat /\ q >= 6 /\ Limit < q /\ old \in Nat /\ old < q
  BY IntRows, Bounds
<1>2. n \in Int /\ ((n >= 2 /\ n < q) \/ (n = -q /\ n < 0))
  BY NewSizeBound
<1> HIDE DEF n, q
<1>3. CASE n >= 2 /\ n < q
  <2>1. 16 * (old - n) \in (-16 * q)..(16 * q - 1)
    BY <1>1, <1>2, <1>3
  <2>2. ToInt(16 * (old - n)) = 16 * (old - n)
    BY <1>1, <1>2, <2>1, ConvertRows DEF q
  <2>3. (16 * (old - n)) \div 16 = old - n
    BY <1>1, <1>2
  <2>4. s = old - n
    BY <2>2, <2>3 DEF splitSize
  <2> HIDE DEF s
  <2> QED
    BY <1>1, <1>2, <1>3, <2>4 DEF n, s
<1>4. CASE n = -q
  <2>1. 16 * (old - n) \in (16 * q)..(32 * q - 1)
    BY <1>1, <1>4
  <2>2. ToInt(16 * (old - n)) = 16 * (old - n) - 32 * q
    BY <1>1, <1>2, <2>1, ConvertRows DEF q
  <2>3. (16 * (old - n) - 32 * q) \div 16 = old - q
    BY <1>1, <1>4
  <2>4. s = old - q
    BY <2>2, <2>3 DEF splitSize
  <2> HIDE DEF s
  <2> QED
    BY <1>1, <2>4 DEF n, s, MIN_SZ
<1> QED
  BY <1>2, <1>3, <1>4

\* The block a of h serves the request.
Serves(g, h, a, request) ==
    /\ Allocated(g, h, a)
    /\ Sizes(g)[a] >= getNewSize(request) /\ g.hdr[a].req = request % IntSize

\* allocate uses the whole block.
LEMMA AllocateWhole ==
    ASSUME NEW h, NEW a \in FreeBlocks(h), HeapOK(h, a), h.pages > 0, NEW request \in Nat,
           Sizes(h)[a] >= getNewSize(request),
           ~(splitSize(Sizes(h)[a], getNewSize(request)) >= MIN_SZ)
    PROVE  HeapOK(allocate(h, a, request), -1) /\ Serves(allocate(h, a, request), h, a, request)
<1> DEFINE sz == Sizes(h)
           e == End(h)
           A == Allocs(h)
           P == Prevs(h)
           k == sz[a]
           m == a + k
           N == FreeBlocks(h) \ {a}
           hd == [size |-> k, alloc |-> TRUE, prev |-> TRUE, req |-> request % IntSize]
           k1 == [h EXCEPT !.hdr[a] = hd]
           k2 == setPrev(k1, a, TRUE)
           k3 == forget(k2, a)
<1>1. /\ h \in HeapType /\ Tiling(sz, A, P, h.ftr, e)
      /\ Lists(h.nx, h.pv, N, sz)
      /\ \A x \in N : sz[x] <= h.largest
      /\ \A x \in Addr : x \notin FreeBlocks(h) => h.nx[x] = NoLink
  BY DEF HeapOK, Listed
<1>2. /\ e \in 2..Limit /\ sz \in [Addr -> Nat] /\ FreeBlocks(h) \subseteq Addr /\ e \in Addr
      /\ \A x \in Addr : sz[x] = h.hdr[x].size
  BY <1>1, Views
<1>3. a \in Starts(sz, e) /\ a \notin A /\ a \in Addr /\ a \in Nat /\ k \in Nat
  BY <1>2 DEF FreeBlocks, Addr
<1>4. TilesAt(sz, A, P, h.ftr, e, a)
  BY <1>1, <1>3 DEF Tiling
<1>5. k >= 2 /\ m \in Starts(sz, e) \cup {e} /\ \A y \in (a + 1)..(m - 1) : sz[y] = 0
  BY <1>4 DEF TilesAt, MIN_SZ
<1>6. \A x \in Starts(sz, e) : x \in Addr /\ x \in Nat
  BY <1>2, Bounds DEF Starts, Addr
<1>7. m \in Addr
  BY <1>2, <1>5, <1>6
<1>8. a \in P
  BY <1>1, <1>2, <1>3, FreeNeighbours
<1>9. allocate(h, a, request) = k3
  <2>1. h.hdr[a].size = k
    BY <1>2, <1>3
  <2>2. k \in 0..Limit
    BY <1>3, <1>5, <1>7, Bounds DEF Addr
  <2> DEFINE s == splitSize(k, getNewSize(request))
  <2>3. s \in Int
    BY <2>2, SplitBound
  <2>4. s < MIN_SZ /\ ~(s >= MIN_SZ)
    <3> HIDE DEF s
    <3>1. ~(s >= MIN_SZ)
      BY DEF s
    <3> QED
      BY <2>3, <3>1 DEF MIN_SZ
  <2> QED
    BY <2>1, <2>4 DEF allocate
<1> HIDE DEF sz, e, A, P, k, m, N
<1>10. m \in Nat /\ m > a /\ m - a >= 2 /\ m = a + k /\ k = m - a
  BY <1>3, <1>5 DEF m
<1>11. hd \in Header
  <2>1. request % IntSize \in Nat
    BY HeapAssumption
  <2> QED
    BY <1>3, <2>1 DEF Header
<1>12. hd.size = k /\ hd.alloc = TRUE /\ hd.prev = TRUE /\ hd.req = request % IntSize
  OBVIOUS
<1> HIDE DEF hd
<1>13. NewHeader(k1, h, a, hd)
  BY <1>1, <1>3, <1>11, HeaderEffect
<1> HIDE DEF k1
<1>14. k1 \in HeapType /\ k1.hdr[a] = hd /\ m = a + k1.hdr[a].size
  BY <1>3, <1>10, <1>12, <1>13 DEF NewHeader
<1>15. PrevSet(k2, k1, m, TRUE)
  BY <1>3, <1>7, <1>14, PrevEffect
<1> HIDE DEF k2
<1>16. k2 \in HeapType /\ k2.hdr[a] = hd /\ k2.hdr[a].alloc /\ m = a + k2.hdr[a].size
  BY <1>3, <1>10, <1>12, <1>14, <1>15 DEF PrevSet
<1>17. Forgotten(k3, k2, (a + 1)..(m - 1), a..(m - 1), (a + 1)..m)
  BY <1>3, <1>10, <1>16, ForgetEffect
<1> HIDE DEF k3
<1> DEFINE inside == (a + 1)..(m - 1)
<1>18. /\ k3 \in HeapType /\ k3.pages = h.pages /\ k3.largest = h.largest
       /\ \A x \in Addr : k3.hdr[x] = IF x \in inside THEN Unset ELSE k2.hdr[x]
       /\ \A x \in Addr : x \notin (a + 1)..m => k3.ftr[x] = h.ftr[x]
       /\ \A x \in Links : k3.nx[x] = IF x \in a..(m - 1) THEN NoLink ELSE h.nx[x]
       /\ \A x \in Links : k3.pv[x] = IF x \in a..(m - 1) THEN NoLink ELSE h.pv[x]
  BY <1>13, <1>15, <1>17 DEF NewHeader, PrevSet, Forgotten
<1>19. /\ inside \subseteq Addr /\ a \notin inside /\ m \notin inside
       /\ \A x \in Addr : x \notin a..(m - 1) => x \notin inside /\ x # a
  <2>1. inside \subseteq Addr
    BY <1>3, <1>7, <1>10, Bounds DEF Addr
  <2> QED
    BY <1>3, <1>10, <2>1
<1> HIDE DEF inside
<1>20. k3.hdr[a] = hd /\ \A x \in inside : k3.hdr[x] = Unset
  BY <1>3, <1>16, <1>18, <1>19
<1>21. /\ \A x \in Addr : x \notin a..(m - 1) /\ x # m => k3.hdr[x] = h.hdr[x]
       /\ k3.hdr[m].size = h.hdr[m].size /\ k3.hdr[m].alloc = h.hdr[m].alloc
       /\ k3.hdr[m].prev = TRUE /\ k3.hdr[m].req = h.hdr[m].req
  <2>1. m # a
    BY <1>3, <1>10
  <2> QED
    BY <1>7, <1>13, <1>15, <1>18, <1>19, <2>1 DEF NewHeader, PrevSet
<1> DEFINE sz2 == Sizes(k3)
<1>22. sz2 \in [Addr -> Nat] /\ \A x \in Addr : sz2[x] = k3.hdr[x].size
  BY <1>18, Views
<1>23. \A x \in Addr : x \notin a..(m - 1) =>
        k3.hdr[x].size = h.hdr[x].size /\ k3.hdr[x].alloc = h.hdr[x].alloc /\ k3.hdr[x].req = h.hdr[x].req
  BY <1>21
<1>24. /\ sz2[a] = m - a
       /\ (\A x \in (a + 1)..(m - 1) : sz2[x] = 0)
       /\ \A x \in Addr : x \notin a..(m - 1) => sz2[x] = sz[x]
  <2>1. \A x \in inside : sz2[x] = 0
    BY <1>19, <1>20, <1>22 DEF Unset
  <2> QED
    BY <1>2, <1>3, <1>10, <1>12, <1>20, <1>22, <1>23, <2>1 DEF inside
<1>25. a \in Allocs(k3) /\ \A x \in Addr : x \notin a..(m - 1) => (x \in Allocs(k3) <=> x \in A)
  BY <1>3, <1>12, <1>20, <1>23 DEF Allocs, A
<1>26. m \in Prevs(k3) /\ \A x \in Addr : x \notin (a + 1)..m => (x \in Prevs(k3) <=> x \in P)
  <2>1. m \in Prevs(k3) /\ a \in Prevs(k3)
    BY <1>3, <1>7, <1>12, <1>20, <1>21 DEF Prevs
  <2>2. ASSUME NEW x \in Addr, x \notin (a + 1)..m, x # a PROVE k3.hdr[x] = h.hdr[x]
    <3>1. x \notin a..(m - 1) /\ x # m
      BY <1>3, <1>10, <2>2 DEF Addr
    <3> QED
      BY <1>21, <3>1
  <2> QED
    BY <1>8, <2>1, <2>2 DEF Prevs, P
<1>27. AgreeOutside(sz, A, P, h.ftr, sz2, Allocs(k3), Prevs(k3), k3.ftr, a, m)
  BY <1>18, <1>24, <1>25, <1>26 DEF AgreeOutside
<1> HIDE DEF sz2
<1>28. /\ Tiling(sz2, Allocs(k3), Prevs(k3), k3.ftr, e)
       /\ Starts(sz2, e) = (Starts(sz, e) \ (a..(m - 1))) \cup {a}
  BY <1>1, <1>2, <1>3, <1>5, <1>10, <1>22, <1>24, <1>25, <1>26, <1>27, RetileOne DEF m
<1>29. End(k3) = e
  BY <1>18 DEF End, e
<1>30. /\ FreeBlocks(h) = Starts(sz, e) \ A /\ FreeBlocks(k3) = Starts(sz2, e) \ Allocs(k3)
       /\ Used(h) = Starts(sz, e) \cap A /\ Used(k3) = Starts(sz2, e) \cap Allocs(k3)
  BY <1>29 DEF FreeBlocks, Used, sz, sz2, e, A
<1>31. \A x \in Starts(sz, e) : x \in a..(m - 1) => x = a
  <2>1. \A x \in a..(m - 1) : x = a \/ x \in (a + 1)..(m - 1)
    BY <1>3, <1>10
  <2>2. \A x \in (a + 1)..(m - 1) : sz[x] = 0
    BY <1>5 DEF m
  <2> QED
    BY <2>1, <2>2 DEF Starts
<1>32. FreeBlocks(k3) = N /\ Used(k3) = Used(h) \cup {a}
  BY <1>3, <1>6, <1>25, <1>28, <1>30, <1>31 DEF N
<1>33. FreeBlocks(k3) \ {-1} = N
  BY <1>6, <1>30, <1>32 DEF N
<1>34. \A x \in N : x \in Addr /\ x \notin a..(m - 1)
  BY <1>6, <1>30, <1>31 DEF N
<1>35. Listed(k3, -1)
  <2>1. \A x \in Sentinels : x \notin a..(m - 1)
    BY <1>3, <1>10, Bounds DEF Sentinels
  <2>2. SameOn(N, h.nx, h.pv, sz, k3.nx, k3.pv, sz2)
    BY <1>18, <1>24, <1>34, <2>1, NodesAreLinks DEF SameOn
  <2>3. N \subseteq Addr
    BY <1>34
  <2>4. Lists(k3.nx, k3.pv, N, sz2)
    BY <1>1, <2>2, <2>3, SameLists
  <2>5. \A x \in N : sz2[x] <= k3.largest
    BY <1>1, <1>18, <1>24, <1>34
  <2>6. ASSUME NEW x \in Addr, x \notin N PROVE k3.nx[x] = NoLink
    <3>1. x \in a..(m - 1) \/ x \notin FreeBlocks(h)
      BY <1>3, <1>10, <2>6 DEF N
    <3> QED
      BY <1>1, <1>18, <3>1, NodesAreLinks
  <2> QED
    BY <1>32, <1>33, <2>4, <2>5, <2>6 DEF Listed, sz2
<1>36. HeapOK(k3, -1)
  <2>1. k3.pages # 0
    BY <1>1, <1>18, Views
  <2> QED
    BY <1>18, <1>28, <1>29, <1>35, <2>1 DEF HeapOK, sz2
<1>37. \A x \in Used(h) \ {a} : x \in Addr /\ x \notin a..(m - 1)
  BY <1>6, <1>30, <1>31
<1>38. Allocated(k3, h, a)
  BY <1>18, <1>23, <1>24, <1>32, <1>37 DEF Allocated, sz, sz2
<1>39. sz2[a] >= getNewSize(request) /\ k3.hdr[a].req = request % IntSize
  BY <1>10, <1>12, <1>20, <1>24 DEF k, sz
<1> QED
  BY <1>9, <1>36, <1>38, <1>39 DEF Serves, sz2

\* allocate splits the block: the rest becomes a free block.
LEMMA AllocatePart ==
    ASSUME NEW h, NEW a \in FreeBlocks(h), HeapOK(h, a), h.pages > 0, NEW request \in Nat,
           splitSize(Sizes(h)[a], getNewSize(request)) >= MIN_SZ
    PROVE  HeapOK(allocate(h, a, request), -1) /\ Serves(allocate(h, a, request), h, a, request)
<1> DEFINE sz == Sizes(h)
           e == End(h)
           A == Allocs(h)
           P == Prevs(h)
           n == getNewSize(request)
           m == a + sz[a]
           c == a + n
           k == sz[a] - n
           N == FreeBlocks(h) \ {a}
           hd == [size |-> n, alloc |-> TRUE, prev |-> TRUE, req |-> request % IntSize]
           k1 == [h EXCEPT !.hdr[a] = hd]
           g == setFreeHeader(k1, c, k)
           k2 == addHeaderToFreeList(g, c)
           k3 == setFooter(k2, c, k)
           k4 == setPrev(k3, a, TRUE)
           k5 == forget(k4, a)
<1>1. /\ h \in HeapType /\ Tiling(sz, A, P, h.ftr, e)
      /\ Lists(h.nx, h.pv, N, sz)
      /\ \A x \in N : sz[x] <= h.largest
      /\ \A x \in Addr : x \notin FreeBlocks(h) => h.nx[x] = NoLink
  BY DEF HeapOK, Listed
<1>2. /\ e \in 2..Limit /\ sz \in [Addr -> Nat] /\ FreeBlocks(h) \subseteq Addr /\ e \in Addr
      /\ \A x \in Addr : sz[x] = h.hdr[x].size
  BY <1>1, Views
<1>3. a \in Starts(sz, e) /\ a \notin A /\ a \in Addr /\ a \in Nat /\ sz[a] \in Nat
  BY <1>2 DEF FreeBlocks, Addr
<1>4. TilesAt(sz, A, P, h.ftr, e, a)
  BY <1>1, <1>3 DEF Tiling
<1>5. m \in Starts(sz, e) \cup {e} /\ \A y \in (a + 1)..(m - 1) : sz[y] = 0
  BY <1>4 DEF TilesAt, MIN_SZ
<1>6. \A x \in Starts(sz, e) : x \in Addr /\ x \in Nat
  BY <1>2, Bounds DEF Starts, Addr
<1>7. m \in Addr
  BY <1>2, <1>5, <1>6
<1>8. a \in P /\ m \in A /\ m \notin P
  BY <1>1, <1>2, <1>3, FreeNeighbours
<1>9. n \in Nat /\ n >= 2 /\ splitSize(sz[a], n) = k /\ k >= 2
  <2>1. sz[a] \in 0..Limit
    BY <1>3, <1>7, Bounds DEF Addr
  <2> HIDE DEF sz
  <2> QED
    BY <2>1, SplitBound DEF MIN_SZ, sz
<1>10. /\ m \in Nat /\ c \in Nat /\ k \in Nat /\ a < c /\ c < m /\ c - a >= 2 /\ m - c >= 2
       /\ m = c + k /\ k = m - c /\ k >= 2 /\ c = a + n /\ n = c - a /\ c \in Addr /\ k \in 1..Limit
       /\ Limit \in Nat
  <2> DEFINE z == sz[a]
  <2>1. z \in Nat /\ z - n >= 2 /\ m = a + z /\ c = a + n /\ k = z - n
    BY <1>3, <1>9
  <2> HIDE DEF z, m, c, k, n
  <2>2. /\ m \in Nat /\ c \in Nat /\ k \in Nat /\ a < c /\ c < m /\ c - a >= 2 /\ m - c >= 2
        /\ m = c + k /\ k = m - c /\ k >= 2 /\ c = a + n /\ n = c - a
    BY <1>3, <1>9, <2>1
  <2>3. m <= Limit /\ Limit \in Nat
    BY <1>7, Bounds DEF Addr
  <2> QED
    BY <2>2, <2>3 DEF Addr
<1>11. hd \in Header
  <2>1. request % IntSize \in Nat
    BY HeapAssumption
  <2> QED
    BY <1>9, <2>1 DEF Header
<1>12. hd.size = n /\ hd.alloc = TRUE /\ hd.prev = TRUE /\ hd.req = request % IntSize
  OBVIOUS
<1>13. h.hdr[a].size = sz[a] /\ ~(splitSize(sz[a], n) < 2) /\ splitSize(sz[a], n) >= 2
  <2> HIDE DEF k
  <2> QED
    BY <1>2, <1>3, <1>9, <1>10
<1>14. allocate(h, a, request) = forget(setPrev(splitBlock(k1, a, k), a, TRUE), a)
  <2> HIDE DEF k
  <2> QED
    BY <1>9, <1>13 DEF allocate, MIN_SZ
<1> HIDE DEF sz, e, A, P, n, m, c, k, N, hd
<1>15. NewHeader(k1, h, a, hd)
  BY <1>1, <1>3, <1>11, HeaderEffect
<1> HIDE DEF k1
<1>16. k1 \in HeapType /\ k1.hdr[a] = hd /\ k1.hdr[a].size = n
  BY <1>3, <1>12, <1>15 DEF NewHeader
<1>17. NewHeader(g, k1, c, FreeHeader(k))
  BY <1>10, <1>16, FreeHeaderEffect
<1>18. FreeHeader(k).size = k /\ FreeHeader(k).alloc = FALSE /\ FreeHeader(k).prev = TRUE
  BY DEF FreeHeader
<1>19. splitBlock(k1, a, k) = k3
  <2>1. getNextHeaderPointer(k1, a) = c
    BY <1>10, <1>16 DEF getNextHeaderPointer
  <2> HIDE DEF g
  <2>2. getNextHeaderPointer(g, c) = m
    BY <1>10, <1>17, <1>18 DEF getNextHeaderPointer, NewHeader
  <2>3. m # c /\ m # a
    BY <1>3, <1>10
  <2>4. g.hdr[m] = h.hdr[m]
    BY <1>7, <1>15, <1>17, <2>3 DEF NewHeader
  <2>5. g.hdr[m].alloc
    BY <1>8, <2>4 DEF A, Allocs
  <2> QED
    BY <2>1, <2>2, <2>5 DEF splitBlock, g
<1> HIDE DEF g
<1>20. /\ g \in HeapType /\ g.pages = h.pages /\ g.ftr = h.ftr /\ g.nx = h.nx /\ g.pv = h.pv
       /\ g.largest = h.largest /\ g.hdr[a] = hd /\ g.hdr[c] = FreeHeader(k) /\ g.hdr[c].size = k
       /\ \A x \in Addr : x # a /\ x # c => g.hdr[x] = h.hdr[x]
  <2>1. a # c
    BY <1>3, <1>10
  <2> QED
    BY <1>3, <1>10, <1>15, <1>16, <1>17, <1>18, <2>1 DEF NewHeader
<1>21. -k \in Sentinels /\ N \subseteq Addr /\ c \notin N
  <2>1. -k \in Sentinels
    BY <1>10, NodesAreLinks
  <2>2. c \in (a + 1)..(m - 1)
    BY <1>3, <1>10
  <2>3. sz[c] = 0
    BY <1>5, <2>2 DEF m
  <2> QED
    BY <1>2, <2>1, <2>3 DEF N, FreeBlocks, Starts, sz
<1>22. h.nx[-k] \in Links /\ h.nx[-k] # c
  <2>1. h.nx[-k] \in N \cup Sentinels
    BY <1>1, <1>21 DEF Lists, Ring
  <2> QED
    BY <1>10, <1>21, <2>1, NodesAreLinks
<1>23. Added(k2, g, c, k)
  BY <1>10, <1>20, <1>22, AddEffect
<1> HIDE DEF k2
<1>24. k2 \in HeapType /\ k2.hdr = g.hdr /\ m = c + k2.hdr[c].size
  BY <1>10, <1>20, <1>23 DEF Added
<1>25. NewFooter(k3, k2, m, k)
  BY <1>10, <1>24, FooterEffect
<1> HIDE DEF k3
<1>26. k3 \in HeapType /\ k3.hdr = g.hdr /\ c = a + k3.hdr[a].size
  BY <1>10, <1>12, <1>20, <1>24, <1>25 DEF NewFooter
<1>27. PrevSet(k4, k3, c, TRUE)
  BY <1>3, <1>10, <1>26, PrevEffect
<1> HIDE DEF k4
<1>28. k4 \in HeapType /\ k4.hdr[a] = hd /\ k4.hdr[a].alloc /\ c = a + k4.hdr[a].size
  <2>1. a # c
    BY <1>3, <1>10
  <2> QED
    BY <1>3, <1>10, <1>12, <1>20, <1>26, <1>27, <2>1 DEF PrevSet
<1>29. Forgotten(k5, k4, (a + 1)..(c - 1), a..(c - 1), (a + 1)..c)
  BY <1>3, <1>10, <1>28, ForgetEffect
<1> HIDE DEF k5
<1>30. /\ k5 \in HeapType /\ k5.pages = h.pages /\ k5.largest = k2.largest
       /\ \A x \in Addr : k5.hdr[x] = IF x \in (a + 1)..(c - 1) THEN Unset ELSE k4.hdr[x]
       /\ \A x \in Addr : k5.ftr[x] = IF x \in (a + 1)..c THEN 0 ELSE IF x = m THEN k ELSE h.ftr[x]
       /\ \A x \in Links : k5.nx[x] = IF x \in a..(c - 1) THEN NoLink ELSE k2.nx[x]
       /\ \A x \in Links : k5.pv[x] = IF x \in a..(c - 1) THEN NoLink ELSE k2.pv[x]
  BY <1>20, <1>23, <1>25, <1>27, <1>29 DEF Added, NewFooter, PrevSet, Forgotten
<1>31. /\ a \notin (a + 1)..(c - 1) /\ c \notin (a + 1)..(c - 1) /\ m \notin (a + 1)..c /\ m # c /\ m # a
       /\ m \notin (a + 1)..(c - 1) /\ a # c
       /\ \A x \in Addr : x \notin a..(m - 1) => x \notin (a + 1)..(c - 1) /\ x # a /\ x # c
  BY <1>3, <1>10
<1>32. /\ k5.hdr[a] = hd
       /\ k5.hdr[c].size = k /\ k5.hdr[c].alloc = FALSE /\ k5.hdr[c].prev = TRUE
       /\ \A x \in (a + 1)..(c - 1) : k5.hdr[x] = Unset
       /\ \A x \in Addr : x \notin (a + 1)..(c - 1) /\ x # a /\ x # c => k5.hdr[x] = h.hdr[x]
  <2>1. (a + 1)..(c - 1) \subseteq Addr
    BY <1>3, <1>10 DEF Addr
  <2>2. k4.hdr[c].size = k /\ k4.hdr[c].alloc = FALSE /\ k4.hdr[c].prev = TRUE
    BY <1>18, <1>20, <1>26, <1>27 DEF PrevSet
  <2>3. \A x \in Addr : x # c /\ x # a => k4.hdr[x] = h.hdr[x]
    BY <1>20, <1>26, <1>27 DEF PrevSet
  <2> QED
    BY <1>3, <1>10, <1>28, <1>30, <1>31, <2>1, <2>2, <2>3
<1> DEFINE sz2 == Sizes(k5)
<1>33. sz2 \in [Addr -> Nat] /\ \A x \in Addr : sz2[x] = k5.hdr[x].size
  BY <1>30, Views
<1>34. \A x \in (a + 1)..(m - 1) : x # c => k5.hdr[x].size = 0
  <2> SUFFICES ASSUME NEW x \in (a + 1)..(m - 1), x # c PROVE k5.hdr[x].size = 0
    OBVIOUS
  <2>1. x \in Addr /\ x # a
    <3>1. m <= Limit
      BY <1>7, <1>10 DEF Addr
    <3>2. x \in Nat /\ x > a /\ x < m
      BY <1>3, <1>10
    <3> QED
      BY <1>3, <1>10, <3>1, <3>2 DEF Addr
  <2>2. CASE x \in (a + 1)..(c - 1)
    BY <1>32, <2>2 DEF Unset
  <2>3. CASE x \notin (a + 1)..(c - 1)
    <3>1. k5.hdr[x] = h.hdr[x] /\ sz[x] = 0
      BY <1>5, <1>32, <2>1, <2>3 DEF m
    <3> QED
      BY <1>2, <2>1, <3>1
  <2> QED
    BY <2>2, <2>3
<1>35. \A x \in Starts(sz, e) : x \in a..(m - 1) => x = a
  <2>1. \A x \in a..(m - 1) : x = a \/ x \in (a + 1)..(m - 1)
    BY <1>3, <1>10
  <2>2. \A x \in (a + 1)..(m - 1) : sz[x] = 0
    BY <1>5 DEF m
  <2> QED
    BY <2>1, <2>2 DEF Starts
<1>36. FreeBlocks(h) \ (a..(m - 1)) = N /\ FreeBlocks(h) \subseteq Starts(sz, e)
  <2>1. FreeBlocks(h) \subseteq Starts(sz, e) /\ a \in a..(m - 1)
    BY <1>3, <1>10 DEF FreeBlocks, sz, e
  <2> QED
    BY <1>35, <2>1 DEF N
<1>37. \A x \in N : x \in Addr /\ x \notin a..(m - 1) /\ sz2[x] = sz[x]
  <2>1. \A x \in N : x \in Addr /\ x \notin a..(m - 1)
    BY <1>6, <1>36
  <2> QED
    BY <1>2, <1>31, <1>32, <1>33, <2>1
<1> HIDE DEF sz2
<1>38. Lists(k5.nx, k5.pv, N \cup {c}, sz2)
  <2>1. SameOn(N, h.nx, h.pv, sz, h.nx, h.pv, sz2)
    BY <1>37 DEF SameOn
  <2>2. Lists(h.nx, h.pv, N, sz2)
    BY <1>1, <1>21, <2>1, SameLists
  <2>3. sz2[c] = -(-k)
    BY <1>10, <1>32, <1>33
  <2>4. LinkedBehind(h.nx, h.pv, c, -k, k2.nx, k2.pv)
    BY <1>20, <1>23 DEF Added, LinkedBehind
  <2>5. Lists(k2.nx, k2.pv, N \cup {c}, sz2)
    BY <1>10, <1>21, <2>2, <2>3, <2>4, Insert
  <2>6. \A l \in (N \cup {c}) \cup Sentinels : l \notin a..(c - 1) /\ l \in Links
    <3>1. \A l \in Sentinels : l \notin a..(c - 1)
      BY <1>3, <1>10 DEF Sentinels
    <3>2. \A l \in a..(c - 1) : l \in a..(m - 1) /\ l # c
      BY <1>3, <1>10
    <3> QED
      BY <1>10, <1>37, <3>1, <3>2, NodesAreLinks
  <2>7. SameOn(N \cup {c}, k2.nx, k2.pv, sz2, k5.nx, k5.pv, sz2)
    BY <1>30, <2>6 DEF SameOn
  <2>8. N \cup {c} \subseteq Addr
    BY <1>10, <1>21
  <2> QED
    BY <2>5, <2>7, <2>8, SameLists
<1>39. \A x \in N \cup {c} : sz2[x] <= k5.largest
  <2>1. h.largest \in Nat /\ k5.largest \in Nat /\ k5.largest >= h.largest /\ k5.largest >= k
    BY <1>1, <1>20, <1>23, <1>30 DEF HeapType, Added
  <2>2. \A x \in N : sz2[x] = sz[x] /\ sz[x] \in Nat /\ sz[x] <= h.largest
    BY <1>1, <1>2, <1>37
  <2>3. sz2[c] = k
    BY <1>10, <1>32, <1>33
  <2> QED
    BY <1>10, <2>1, <2>2, <2>3
<1>40. \A x \in Addr : x \notin N \cup {c} => k5.nx[x] = NoLink
  <2> SUFFICES ASSUME NEW x \in Addr, x \notin N, x # c PROVE k5.nx[x] = NoLink
    OBVIOUS
  <2>1. x \in Links /\ x # -k
    BY <1>21, NodesAreLinks
  <2>2. CASE x \in a..(c - 1)
    BY <1>30, <2>1, <2>2
  <2>3. CASE x \notin a..(c - 1)
    <3>1. x # a
      BY <1>3, <1>10, <2>3
    <3>2. h.nx[x] = NoLink
      BY <1>1, <3>1 DEF N
    <3> QED
      BY <1>20, <1>23, <1>30, <2>1, <2>3, <3>2 DEF Added
  <2> QED
    BY <2>2, <2>3
<1>41. /\ k5.ftr[m] = m - c
       /\ \A x \in Addr : x \notin (a + 1)..m => k5.ftr[x] = h.ftr[x]
  <2>1. \A x \in Addr : x \notin (a + 1)..m => x \notin (a + 1)..c /\ x # m
    BY <1>3, <1>10
  <2> QED
    BY <1>7, <1>10, <1>30, <1>31, <2>1
<1>42. /\ k5.hdr[m].prev = FALSE
       /\ \A x \in Addr : x \notin a..(m - 1) => k5.hdr[x] = h.hdr[x]
  <2>1. \A x \in Addr : x \notin a..(m - 1) => k5.hdr[x] = h.hdr[x]
    BY <1>31, <1>32
  <2>2. m \notin a..(m - 1)
    BY <1>3, <1>10
  <2>3. k5.hdr[m] = h.hdr[m]
    BY <1>7, <2>1, <2>2
  <2>4. h.hdr[m].prev \in BOOLEAN /\ ~h.hdr[m].prev
    BY <1>1, <1>7, <1>8 DEF P, Prevs, HeapType, Header
  <2> QED
    BY <2>1, <2>3, <2>4
<1>43. k5.hdr[a].prev = h.hdr[a].prev
  <2>1. h.hdr[a].prev \in BOOLEAN /\ h.hdr[a].prev
    BY <1>1, <1>3, <1>8 DEF P, Prevs, HeapType, Header
  <2> QED
    BY <1>12, <1>32, <2>1
<1>44. SplitInto(k5, h, a, c, m)
  <2>1. m \notin a..(m - 1)
    BY <1>3, <1>10
  <2>2. /\ k5.hdr[m].size = h.hdr[m].size /\ k5.hdr[m].alloc = h.hdr[m].alloc
        /\ k5.hdr[m].prev = FALSE /\ k5.hdr[m].req = h.hdr[m].req
    BY <1>7, <1>42, <2>1
  <2>3. /\ k5.hdr[a].size = c - a /\ k5.hdr[a].alloc
        /\ k5.hdr[c].size = m - c /\ ~k5.hdr[c].alloc /\ k5.hdr[c].prev
    BY <1>10, <1>12, <1>32
  <2>4. k5 \in HeapType /\ k5.pages = h.pages
    BY <1>30
  <2>5. /\ Lists(k5.nx, k5.pv, (FreeBlocks(h) \ (a..(m - 1))) \cup {c}, Sizes(k5))
        /\ \A x \in (FreeBlocks(h) \ (a..(m - 1))) \cup {c} : Sizes(k5)[x] <= k5.largest
        /\ \A x \in Addr : x \notin (FreeBlocks(h) \ (a..(m - 1))) \cup {c} => k5.nx[x] = NoLink
    BY <1>36, <1>38, <1>39, <1>40 DEF sz2
  <2> QED
    BY <1>34, <1>41, <1>42, <1>43, <2>2, <2>3, <2>4, <2>5 DEF SplitInto
<1>45. HeapOK(k5, -1) /\ Allocated(k5, h, a)
  <2>1. \A x \in Used(h) : x \in a..(m - 1) => x = a
    BY <1>35 DEF Used, sz, e
  <2>2. a \in Starts(Sizes(h), End(h)) /\ m \in Starts(Sizes(h), End(h)) \cup {End(h)} /\ m \in Allocs(h)
        /\ Tiling(Sizes(h), Allocs(h), Prevs(h), h.ftr, End(h))
    BY <1>1, <1>3, <1>5, <1>8 DEF sz, e, A, P, m
  <2> QED
    BY <1>1, <1>10, <1>44, <2>1, <2>2, SplitOK
<1>46. sz2[a] >= n /\ k5.hdr[a].req = request % IntSize
  BY <1>3, <1>9, <1>12, <1>32, <1>33
<1> QED
  BY <1>14, <1>19, <1>45, <1>46 DEF Serves, sz2, n, k4, k5

\* splitBlock has made g of the block a of h, which now has the header hd:
\* behind it is a free block from c to m, on its list, and the words inside
\* that block are still what they were.
SplitOff(g, h, a, hd, c, m) ==
    LET N == FreeBlocks(h) \ (a..(m - 1)) IN
    /\ g \in HeapType /\ g.pages = h.pages
    /\ g.hdr[a] = hd /\ g.hdr[c] = FreeHeader(m - c)
    /\ \A x \in Addr : x # a /\ x # c => g.hdr[x] = h.hdr[x]
    /\ g.ftr[m] = m - c /\ \A x \in Addr : x # m => g.ftr[x] = h.ftr[x]
    /\ \A sz : (sz[c] = m - c /\ \A x \in N : sz[x] = Sizes(h)[x]) => Lists(g.nx, g.pv, N \cup {c}, sz)
    /\ g.largest >= h.largest /\ g.largest >= m - c
    /\ \A x \in Addr : x \notin N \cup {c} /\ x \notin (c + 1)..(m - 1) => g.nx[x] = NoLink

\* The block a in use ends before c, and between c and m is no block in use.
Spans(h, a, c, m) ==
    /\ c \in Nat /\ c - a >= 2 /\ m - c >= 2
    /\ m \in Starts(Sizes(h), End(h)) \cup {End(h)} /\ m \in Allocs(h)
    /\ \A x \in Used(h) : x \in a..(m - 1) => x = a
    /\ \A x \in Starts(Sizes(h), End(h)) : x \in (a + 1)..(m - 1) => x \in (c + 1)..(m - 1)

\* The header of a with the size that it has up to c.
Shortened(hd, h, a, c) ==
    hd \in Header /\ hd.size = c - a /\ hd.alloc /\ hd.prev = h.hdr[a].prev

Shortens(g, h, a, hd) == HeapOK(g, -1) /\ Allocated(g, h, a) /\ g.hdr[a] = hd

\* The end of sf_realloc to a smaller request.
LEMMA FinishShrink ==
    ASSUME NEW h, HeapOK(h, -1), h.pages > 0, NEW a \in Used(h),
           NEW m, NEW c, Spans(h, a, c, m),
           NEW hd, Shortened(hd, h, a, c), NEW g, SplitOff(g, h, a, hd, c, m)
    PROVE  Shortens(forget(setPrev(g, c, FALSE), c), h, a, hd)
<1> DEFINE sz == Sizes(h)
           e == End(h)
           k == m - c
           N == FreeBlocks(h) \ (a..(m - 1))
           k1 == setPrev(g, c, FALSE)
           k2 == forget(k1, c)
<1> USE DEF Spans, Shortened
<1>1. /\ h \in HeapType /\ Tiling(sz, Allocs(h), Prevs(h), h.ftr, e) /\ Listed(h, -1)
  BY DEF HeapOK
<1>2. /\ e \in 2..Limit /\ sz \in [Addr -> Nat] /\ FreeBlocks(h) \subseteq Addr /\ e \in Addr
      /\ \A x \in Addr : sz[x] = h.hdr[x].size
  BY <1>1, Views
<1>3. \A x \in Starts(sz, e) : x \in Addr /\ x \in Nat
  BY <1>2, Bounds DEF Starts, Addr
<1>4. a \in Starts(sz, e) /\ a \in Addr /\ a \in Nat /\ m \in Addr /\ m \in Nat /\ m <= Limit /\ Limit \in Nat
  BY <1>2, <1>3, Bounds DEF Used, Addr
<1>5. a < c /\ c < m /\ c \in Addr /\ k \in Nat /\ k >= 2 /\ m = c + k
  BY <1>4 DEF Addr
<1>6. /\ g \in HeapType /\ g.pages = h.pages
      /\ g.hdr[a] = hd /\ g.hdr[c] = FreeHeader(k)
      /\ \A x \in Addr : x # a /\ x # c => g.hdr[x] = h.hdr[x]
      /\ g.ftr[m] = k /\ \A x \in Addr : x # m => g.ftr[x] = h.ftr[x]
      /\ \A s : (s[c] = k /\ \A x \in N : s[x] = sz[x]) => Lists(g.nx, g.pv, N \cup {c}, s)
      /\ g.largest >= h.largest /\ g.largest >= k
      /\ \A x \in Addr : x \notin N \cup {c} /\ x \notin (c + 1)..(m - 1) => g.nx[x] = NoLink
  BY DEF SplitOff
<1>7. FreeHeader(k).size = k /\ FreeHeader(k).alloc = FALSE /\ FreeHeader(k).prev = TRUE
  BY DEF FreeHeader
<1> HIDE DEF k, N
<1>8. m = c + g.hdr[c].size
  BY <1>5, <1>6, <1>7
<1>9. PrevSet(k1, g, m, FALSE)
  BY <1>4, <1>5, <1>6, <1>8, PrevEffect
<1> HIDE DEF k1
<1>10. k1 \in HeapType /\ k1.hdr[c] = FreeHeader(k) /\ ~k1.hdr[c].alloc /\ m = c + k1.hdr[c].size
  <2>1. c # m
    BY <1>4, <1>5
  <2> QED
    BY <1>5, <1>6, <1>7, <1>8, <1>9, <2>1 DEF PrevSet
<1> DEFINE ins == (c + 1)..(m - 1)
<1>11. Forgotten(k2, k1, ins, ins, ins)
  BY <1>4, <1>5, <1>10, ForgetEffect
<1> HIDE DEF k2, ins
<1>12. /\ k2 \in HeapType /\ k2.pages = h.pages /\ k2.largest = g.largest
       /\ \A x \in Addr : k2.hdr[x] = IF x \in ins THEN Unset ELSE k1.hdr[x]
       /\ \A x \in Addr : k2.ftr[x] = IF x \in ins THEN 0 ELSE g.ftr[x]
       /\ \A x \in Links : k2.nx[x] = IF x \in ins THEN NoLink ELSE g.nx[x]
       /\ \A x \in Links : k2.pv[x] = IF x \in ins THEN NoLink ELSE g.pv[x]
  BY <1>6, <1>9, <1>11 DEF PrevSet, Forgotten
<1>13. /\ a \notin ins /\ c \notin ins /\ m \notin ins /\ m # c /\ m # a /\ a # c
       /\ \A x \in Addr : x \notin a..(m - 1) => x \notin ins /\ x # a /\ x # c
  BY <1>4, <1>5 DEF ins
<1>14. ins \subseteq Addr
  BY <1>4, <1>5 DEF Addr, ins
<1>15. /\ k2.hdr[a] = hd /\ k2.hdr[c] = FreeHeader(k)
       /\ \A x \in ins : k2.hdr[x] = Unset
       /\ \A x \in Addr : x \notin ins /\ x # a /\ x # c /\ x # m => k2.hdr[x] = h.hdr[x]
  <2>1. k1.hdr[a] = hd
    BY <1>4, <1>6, <1>9, <1>13 DEF PrevSet
  <2>2. \A x \in Addr : x # a /\ x # c /\ x # m => k1.hdr[x] = h.hdr[x]
    BY <1>6, <1>9 DEF PrevSet
  <2> QED
    BY <1>4, <1>5, <1>10, <1>12, <1>13, <1>14, <2>1, <2>2
<1>16. /\ k2.hdr[m].size = h.hdr[m].size /\ k2.hdr[m].alloc = h.hdr[m].alloc
       /\ k2.hdr[m].prev = FALSE /\ k2.hdr[m].req = h.hdr[m].req
  BY <1>4, <1>6, <1>9, <1>12, <1>13 DEF PrevSet
<1> DEFINE sz2 == Sizes(k2)
<1>17. sz2 \in [Addr -> Nat] /\ \A x \in Addr : sz2[x] = k2.hdr[x].size
  BY <1>12, Views
<1>18. \A x \in (a + 1)..(m - 1) : x # c => k2.hdr[x].size = 0
  <2> SUFFICES ASSUME NEW x \in (a + 1)..(m - 1), x # c PROVE k2.hdr[x].size = 0
    OBVIOUS
  <2>1. x \in Addr /\ x # a /\ x # m
    BY <1>4, <1>5 DEF Addr
  <2>2. CASE x \in ins
    BY <1>15, <2>2 DEF Unset
  <2>3. CASE x \notin ins
    <3>1. x \notin Starts(sz, e)
      BY <2>3 DEF ins
    <3>2. x \in 0..(e - 1)
      <4>1. m <= e /\ e \in Nat
        BY <1>2, <1>3 DEF Starts
      <4> QED
        BY <1>4, <4>1
    <3>3. sz[x] = 0
      BY <3>1, <3>2 DEF Starts
    <3>4. k2.hdr[x] = h.hdr[x]
      BY <1>15, <2>1, <2>3
    <3> QED
      BY <1>2, <2>1, <3>3, <3>4
  <2> QED
    BY <2>2, <2>3
<1>19. \A x \in N : x \in Addr /\ x \notin a..(m - 1) /\ sz2[x] = sz[x]
  <2> SUFFICES ASSUME NEW x \in N PROVE x \in Addr /\ x \notin a..(m - 1) /\ sz2[x] = sz[x]
    OBVIOUS
  <2>1. x \in Addr /\ x \notin a..(m - 1)
    BY <1>2 DEF N
  <2>2. k2.hdr[x].size = h.hdr[x].size
    <3>1. CASE x = m
      BY <1>16, <3>1
    <3>2. CASE x # m
      BY <1>13, <1>15, <2>1, <3>2
    <3> QED
      BY <3>1, <3>2
  <2> QED
    BY <1>2, <1>17, <2>1, <2>2
<1>20. sz2[c] = k
  BY <1>5, <1>7, <1>15, <1>17
<1> HIDE DEF sz2, sz
<1>21. Lists(k2.nx, k2.pv, N \cup {c}, sz2)
  <2>1. Lists(g.nx, g.pv, N \cup {c}, sz2)
    BY <1>6, <1>19, <1>20
  <2>2. \A l \in (N \cup {c}) \cup Sentinels : l \notin ins /\ l \in Links
    <3>1. \A l \in Sentinels : l \notin ins
      BY <1>5 DEF Sentinels, ins
    <3> QED
      BY <1>5, <1>13, <1>19, <3>1, NodesAreLinks
  <2>3. SameOn(N \cup {c}, g.nx, g.pv, sz2, k2.nx, k2.pv, sz2)
    BY <1>12, <2>2 DEF SameOn
  <2>4. N \cup {c} \subseteq Addr
    BY <1>5, <1>19
  <2> QED
    BY <2>1, <2>3, <2>4, SameLists
<1>22. \A x \in N \cup {c} : sz2[x] <= k2.largest
  <2>1. h.largest \in Nat /\ k2.largest \in Nat /\ k2.largest >= h.largest /\ k2.largest >= k
    BY <1>1, <1>6, <1>12 DEF HeapType
  <2>2. \A x \in N : sz2[x] = sz[x] /\ sz[x] \in Nat /\ sz[x] <= h.largest
    <3>1. \A x \in N : x \in FreeBlocks(h) \ {-1}
      BY <1>19 DEF N, Addr
    <3>2. \A x \in FreeBlocks(h) \ {-1} : sz[x] <= h.largest
      BY <1>1 DEF Listed, sz
    <3> QED
      BY <1>2, <1>19, <3>1, <3>2
  <2> QED
    BY <1>5, <1>20, <2>1, <2>2
<1>23. \A x \in Addr : x \notin N \cup {c} => k2.nx[x] = NoLink
  BY <1>6, <1>12, NodesAreLinks DEF ins
<1>24. k2.ftr[m] = k /\ \A x \in Addr : x \notin (a + 1)..m => k2.ftr[x] = h.ftr[x]
  <2>1. \A x \in Addr : x \notin (a + 1)..m => x \notin ins /\ x # m
    BY <1>4, <1>5 DEF ins
  <2> QED
    BY <1>4, <1>6, <1>12, <1>13, <2>1
<1>25. \A x \in Addr : x \notin a..(m - 1) /\ x # m => k2.hdr[x] = h.hdr[x]
  BY <1>13, <1>15
<1>26. SplitInto(k2, h, a, c, m)
  BY <1>7, <1>12, <1>15, <1>16, <1>18, <1>21, <1>22, <1>23, <1>24, <1>25 DEF SplitInto, sz2, k, N
<1>27. HeapOK(k2, -1) /\ Allocated(k2, h, a)
  <2>1. Tiling(Sizes(h), Allocs(h), Prevs(h), h.ftr, End(h)) /\ a \in Starts(Sizes(h), End(h))
    BY <1>1, <1>4 DEF sz
  <2> QED
    BY <1>1, <1>26, <2>1, SplitOK
<1> QED
  BY <1>15, <1>27 DEF k1, k2, Shortens

\* addHeaderToFreeList of a block that is on no list.
Inserted(g, h, N, c, k, sz) ==
    /\ Added(g, h, c, k)
    /\ \A s : (s[c] = k /\ \A x \in N : s[x] = sz[x]) => Lists(g.nx, g.pv, N \cup {c}, s)
    /\ \A x \in Addr : x # c => g.nx[x] = h.nx[x]

\* addHeaderToFreeList in a heap with the lists of N.
LEMMA ListAdd ==
    ASSUME NEW h \in HeapType, NEW N, N \subseteq Addr, NEW sz, Lists(h.nx, h.pv, N, sz),
           NEW c \in Addr, c \notin N, NEW k \in 1..Limit, h.hdr[c].size = k
    PROVE  Inserted(addHeaderToFreeList(h, c), h, N, c, k, sz)
<1> DEFINE g == addHeaderToFreeList(h, c)
<1>1. -k \in Sentinels /\ k \in Nat /\ k = -(-k)
  BY NodesAreLinks, Bounds
<1>2. h.nx[-k] \in N \cup Sentinels
  BY <1>1 DEF Lists, Ring
<1>3. h.nx[-k] \in Links /\ h.nx[-k] # c
  BY <1>2, NodesAreLinks
<1>4. Added(g, h, c, k)
  BY <1>3, AddEffect
<1> HIDE DEF g
<1>5. LinkedBehind(h.nx, h.pv, c, -k, g.nx, g.pv)
  BY <1>4 DEF Added, LinkedBehind
<1>6. ASSUME NEW s, s[c] = k, \A x \in N : s[x] = sz[x]
      PROVE  Lists(g.nx, g.pv, N \cup {c}, s)
  <2>1. SameOn(N, h.nx, h.pv, sz, h.nx, h.pv, s)
    BY <1>6 DEF SameOn
  <2>2. Lists(h.nx, h.pv, N, s)
    BY <2>1, SameLists
  <2>3. s[c] = -(-k)
    BY <1>1, <1>6
  <2> QED
    BY <1>1, <1>5, <2>2, <2>3, Insert
<1>7. \A x \in Addr : x # c => g.nx[x] = h.nx[x]
  BY <1>1, <1>4, NodesAreLinks DEF Added
<1> QED
  BY <1>4, <1>6, <1>7 DEF Inserted, g

\* The block a of h has the header hd in g, and at c a free block of size k
\* begins.
Prepared(g, h, a, hd, c, k) ==
    /\ g \in HeapType /\ g.pages = h.pages /\ g.ftr = h.ftr /\ g.nx = h.nx /\ g.pv = h.pv
    /\ g.largest = h.largest /\ g.hdr[a] = hd /\ g.hdr[c] = FreeHeader(k) /\ g.hdr[c].size = k
    /\ \A x \in Addr : x # a /\ x # c => g.hdr[x] = h.hdr[x]

\* splitBlock in front of a block in use.
LEMMA SplitUsed ==
    ASSUME NEW h, HeapOK(h, -1), h.pages > 0, NEW a \in Used(h),
           NEW m, m = a + Sizes(h)[a],
           NEW c \in Nat, c - a >= 2, m - c >= 2, NEW hd,
           NEW g, Prepared(g, h, a, hd, c, m - c)
    PROVE  SplitOff(setFooter(addHeaderToFreeList(g, c), c, m - c), h, a, hd, c, m)
<1> DEFINE sz == Sizes(h)
           e == End(h)
           k == m - c
           N == FreeBlocks(h)
           k2 == addHeaderToFreeList(g, c)
           k3 == setFooter(k2, c, k)
<1>1. /\ h \in HeapType /\ Tiling(sz, Allocs(h), Prevs(h), h.ftr, e)
      /\ Lists(h.nx, h.pv, N \ {-1}, sz)
      /\ \A x \in Addr : x \notin N => h.nx[x] = NoLink
  BY DEF HeapOK, Listed
<1>2. /\ e \in 2..Limit /\ sz \in [Addr -> Nat] /\ N \subseteq Addr
      /\ a \in Starts(sz, e) /\ a \in Allocs(h)
  BY <1>1, Views DEF Used
<1>3. TilesAt(sz, Allocs(h), Prevs(h), h.ftr, e, a)
  BY <1>1, <1>2 DEF Tiling
<1>4. m \in Starts(sz, e) \cup {e} /\ \A y \in (a + 1)..(m - 1) : sz[y] = 0
  BY <1>3 DEF TilesAt
<1>5. a \in Addr /\ a \in Nat /\ m \in Nat /\ m <= Limit /\ Limit \in Nat
  <2>1. Starts(sz, e) \cup {e} \subseteq 0..Limit /\ Limit \in Nat
    BY <1>2, Bounds DEF Starts
  <2> HIDE DEF sz, e
  <2>2. a \in 0..Limit /\ m \in 0..Limit
    BY <1>2, <1>4, <2>1
  <2> QED
    BY <2>1, <2>2 DEF Addr
<1> HIDE DEF sz, e, N
<1>6. c \in Addr /\ k \in 1..Limit /\ k \in Nat /\ m = c + k /\ m \in Addr /\ a < c /\ c < m
  BY <1>5 DEF Addr
<1>7. N \ {-1} = N
  BY <1>2 DEF Addr
<1>8. N \ (a..(m - 1)) = N /\ c \notin N
  <2>1. \A x \in (a + 1)..(m - 1) : x \notin N
    BY <1>4 DEF N, FreeBlocks, Starts, sz
  <2>2. a \notin N
    BY <1>2 DEF N, FreeBlocks
  <2>3. \A x \in a..(m - 1) : x = a \/ x \in (a + 1)..(m - 1)
    BY <1>5
  <2>4. c \in (a + 1)..(m - 1)
    BY <1>5, <1>6
  <2> QED
    BY <2>1, <2>2, <2>3, <2>4
<1>9. /\ g \in HeapType /\ g.pages = h.pages /\ g.ftr = h.ftr /\ g.nx = h.nx /\ g.pv = h.pv
      /\ g.largest = h.largest /\ g.hdr[a] = hd /\ g.hdr[c] = FreeHeader(k) /\ g.hdr[c].size = k
      /\ \A x \in Addr : x # a /\ x # c => g.hdr[x] = h.hdr[x]
  BY DEF Prepared
<1> HIDE DEF k
<1>10. Inserted(k2, g, N, c, k, sz)
  BY <1>1, <1>2, <1>6, <1>7, <1>8, <1>9, ListAdd
<1> HIDE DEF k2
<1>11. /\ k2 \in HeapType /\ k2.pages = h.pages /\ k2.hdr = g.hdr /\ k2.ftr = h.ftr
       /\ k2.largest >= h.largest /\ k2.largest >= k
       /\ \A s : (s[c] = k /\ \A x \in N : s[x] = sz[x]) => Lists(k2.nx, k2.pv, N \cup {c}, s)
       /\ \A x \in Addr : x # c => k2.nx[x] = h.nx[x]
  BY <1>9, <1>10 DEF Inserted, Added
<1>12. m = c + k2.hdr[c].size
  BY <1>6, <1>9, <1>11
<1>13. NewFooter(k3, k2, m, k)
  BY <1>6, <1>11, <1>12, FooterEffect
<1> HIDE DEF k3
<1>14. /\ k3 \in HeapType /\ k3.pages = h.pages /\ k3.hdr = g.hdr /\ k3.largest = k2.largest
       /\ k3.nx = k2.nx /\ k3.pv = k2.pv
       /\ k3.ftr[m] = k /\ \A x \in Addr : x # m => k3.ftr[x] = h.ftr[x]
  BY <1>6, <1>11, <1>13 DEF NewFooter
<1>15. \A x \in Addr : x \notin N \cup {c} => k3.nx[x] = NoLink
  BY <1>1, <1>11, <1>14
<1>16. SplitOff(k3, h, a, hd, c, m)
  BY <1>8, <1>9, <1>11, <1>14, <1>15 DEF SplitOff, k, N, sz
<1> QED
  BY <1>16 DEF k3, k2, k

\* splitBlock in front of the free block n.
LEMMA SplitFree ==
    ASSUME NEW h, HeapOK(h, -1), h.pages > 0, NEW a \in Used(h),
           NEW n \in FreeBlocks(h), n = a + Sizes(h)[a], NEW m, m = n + Sizes(h)[n],
           NEW c \in Nat, c - a >= 2, n - c >= 2, NEW hd,
           NEW g, Prepared(g, h, a, hd, c, n - c)
    PROVE  /\ SplitOff(addHeaderToFreeList(coalesce(removeHeader(g, n), c, g.hdr[n].size), c),
                       h, a, hd, c, m)
           /\ m \in Starts(Sizes(h), End(h)) \cup {End(h)} /\ m \in Allocs(h) /\ m - n >= 2
           /\ \A x \in Starts(Sizes(h), End(h)) : x \in (a + 1)..(m - 1) => x = n
<1> DEFINE sz == Sizes(h)
           e == End(h)
           k == m - c
           F == FreeBlocks(h)
           N == F \ {n}
           k1 == removeHeader(g, n)
           k2 == coalesce(k1, c, g.hdr[n].size)
           k3 == addHeaderToFreeList(k2, c)
<1>1. /\ h \in HeapType /\ Tiling(sz, Allocs(h), Prevs(h), h.ftr, e)
      /\ Lists(h.nx, h.pv, F \ {-1}, sz)
      /\ \A x \in Addr : x \notin F => h.nx[x] = NoLink
  BY DEF HeapOK, Listed
<1>2. /\ e \in 2..Limit /\ sz \in [Addr -> Nat] /\ F \subseteq Addr
      /\ a \in Starts(sz, e) /\ a \in Allocs(h) /\ n \in Starts(sz, e) /\ n \notin Allocs(h)
      /\ \A x \in Addr : sz[x] = h.hdr[x].size
  BY <1>1, Views DEF Used, FreeBlocks
<1>3. TilesAt(sz, Allocs(h), Prevs(h), h.ftr, e, a) /\ TilesAt(sz, Allocs(h), Prevs(h), h.ftr, e, n)
  BY <1>1, <1>2 DEF Tiling
<1>4. /\ \A y \in (a + 1)..(n - 1) : sz[y] = 0
      /\ m \in Starts(sz, e) \cup {e} /\ \A y \in (n + 1)..(m - 1) : sz[y] = 0
      /\ m \in Allocs(h) /\ sz[n] >= 2
  BY <1>2, <1>3 DEF TilesAt, MIN_SZ
<1>5. a \in Nat /\ n \in Nat /\ n \in Addr /\ m \in Nat /\ m <= Limit /\ Limit \in Nat /\ a \in Addr
  <2>1. Starts(sz, e) \cup {e} \subseteq 0..Limit /\ Limit \in Nat
    BY <1>2, Bounds DEF Starts
  <2> HIDE DEF sz, e
  <2>2. a \in 0..Limit /\ n \in 0..Limit /\ m \in 0..Limit
    BY <1>2, <1>4, <2>1
  <2> QED
    BY <2>1, <2>2 DEF Addr
<1>6. sz[n] \in Nat /\ m = n + sz[n]
  BY <1>2, <1>5
<1> DEFINE z == sz[n]
<1>7. z \in Nat /\ z >= 2 /\ m = n + z
  BY <1>4, <1>6
<1> HIDE DEF sz, e, F, z
<1>8. /\ c \in Addr /\ k \in 1..Limit /\ k \in Nat /\ m = c + k /\ m \in Addr /\ a < c /\ c < n /\ n < m
      /\ m - n >= 2 /\ n - c \in Nat /\ k = (n - c) + z
  BY <1>5, <1>7 DEF Addr
<1>9. F \ {-1} = F
  BY <1>2 DEF Addr
<1>10. \A x \in (a + 1)..(m - 1) : x # n => sz[x] = 0
  <2>1. \A x \in (a + 1)..(m - 1) : x = n \/ x \in (a + 1)..(n - 1) \/ x \in (n + 1)..(m - 1)
    BY <1>5, <1>8
  <2> QED
    BY <1>4, <2>1
<1>11. F \ (a..(m - 1)) = N /\ c \notin N /\ n \in F /\ c # n
  <2>1. \A x \in (a + 1)..(m - 1) : x # n => x \notin F
    BY <1>10 DEF F, FreeBlocks, Starts, sz
  <2>2. a \notin F
    BY <1>2 DEF F, FreeBlocks
  <2>3. \A x \in a..(m - 1) : x = a \/ x \in (a + 1)..(m - 1)
    BY <1>5, <1>8
  <2>4. c \in (a + 1)..(m - 1) /\ n \in a..(m - 1) /\ c # n
    BY <1>5, <1>8
  <2>5. n \in F
    BY DEF F
  <2> QED
    BY <2>1, <2>2, <2>3, <2>4, <2>5
<1>12. /\ g \in HeapType /\ g.pages = h.pages /\ g.ftr = h.ftr /\ g.nx = h.nx /\ g.pv = h.pv
       /\ g.largest = h.largest /\ g.hdr[a] = hd /\ g.hdr[c].size = n - c
       /\ \A x \in Addr : x # a /\ x # c => g.hdr[x] = h.hdr[x]
  BY DEF Prepared
<1>13. g.hdr[n].size = z
  <2>1. n # a /\ n # c
    BY <1>5, <1>8
  <2> QED
    BY <1>2, <1>5, <1>12, <2>1 DEF z
<1> HIDE DEF k, N
<1>14. /\ Removed(k1, g, n) /\ Lists(k1.nx, k1.pv, N, sz)
  <2>1. Lists(g.nx, g.pv, F, sz)
    BY <1>1, <1>9, <1>12
  <2> HIDE DEF F
  <2> QED
    BY <1>2, <1>11, <1>12, <2>1, ListRemove DEF N, Delisted
<1>15. \A x \in Addr : x \notin N => x = n \/ k1.nx[x] = NoLink
  <2> SUFFICES ASSUME NEW x \in Addr, x \notin N, x # n PROVE k1.nx[x] = NoLink
    OBVIOUS
  <2>1. x \notin F /\ x \in Links /\ g.nx[x] = NoLink
    BY <1>1, <1>12, NodesAreLinks DEF N
  <2>2. g.pv[n] \in F \cup Sentinels
    BY <1>1, <1>9, <1>11, <1>12 DEF Lists, Ring
  <2>3. x # g.pv[n]
    BY <2>1, <2>2, NodesAreLinks
  <2> QED
    BY <1>14, <2>1, <2>3 DEF Removed
<1> HIDE DEF k1
<1>16. k1 \in HeapType /\ k1.pages = h.pages /\ k1.hdr = g.hdr /\ k1.ftr = h.ftr /\ k1.largest = h.largest
  BY <1>12, <1>14 DEF Removed
<1>17. k = k1.hdr[c].size + g.hdr[n].size /\ g.hdr[n].size \in Nat
  BY <1>7, <1>8, <1>12, <1>13, <1>16
<1>18. Coalesced(k2, k1, c, k)
  BY <1>8, <1>16, <1>17, CoalesceEffect
<1> HIDE DEF k2
<1>19. /\ k2 \in HeapType /\ k2.pages = h.pages /\ k2.nx = k1.nx /\ k2.pv = k1.pv
       /\ k2.largest = h.largest /\ k2.hdr[c] = FreeHeader(k) /\ k2.hdr[c].size = k
       /\ k2.hdr[a] = hd /\ \A x \in Addr : x # a /\ x # c => k2.hdr[x] = h.hdr[x]
       /\ k2.ftr[m] = k /\ \A x \in Addr : x # m => k2.ftr[x] = h.ftr[x]
  <2>1. a # c
    BY <1>5, <1>8
  <2> QED
    BY <1>5, <1>8, <1>12, <1>16, <1>18, <2>1 DEF Coalesced
<1>20. Inserted(k3, k2, N, c, k, sz)
  <2>1. N \subseteq Addr
    BY <1>2 DEF N
  <2> QED
    BY <1>8, <1>11, <1>14, <1>19, <2>1, ListAdd
<1> HIDE DEF k3
<1>21. /\ k3 \in HeapType /\ k3.pages = h.pages /\ k3.hdr = k2.hdr /\ k3.ftr = k2.ftr
       /\ k3.largest >= h.largest /\ k3.largest >= k
       /\ \A s : (s[c] = k /\ \A x \in N : s[x] = sz[x]) => Lists(k3.nx, k3.pv, N \cup {c}, s)
       /\ \A x \in Addr : x # c => k3.nx[x] = k1.nx[x]
  BY <1>19, <1>20 DEF Inserted, Added
<1>22. \A x \in Addr : x \notin N \cup {c} /\ x \notin (c + 1)..(m - 1) => k3.nx[x] = NoLink
  <2>1. n \in (c + 1)..(m - 1)
    BY <1>5, <1>8
  <2> QED
    BY <1>15, <1>21, <2>1
<1>23. SplitOff(k3, h, a, hd, c, m)
  BY <1>11, <1>19, <1>21, <1>22 DEF SplitOff, k, N, F, sz
<1>24. \A x \in Starts(sz, e) : x \in (a + 1)..(m - 1) => x = n
  BY <1>10 DEF Starts
<1> QED
  BY <1>4, <1>8, <1>23, <1>24 DEF k1, k2, k3, sz, e

\* The block a of g has the request size, the other blocks are as in h.
Shrunk(g, h, a, size) ==
    /\ g.pages = h.pages
    /\ Used(g) = Used(h)
    /\ \A x \in Used(h) \ {a} : Sizes(g)[x] = Sizes(h)[x] /\ g.hdr[x].req = h.hdr[x].req
    /\ g.hdr[a].req = size
    /\ Sizes(g)[a] = Sizes(h)[a] \/ Sizes(g)[a] = getNewSize(size)

\* Writing the request of a header.
LEMMA ReqEffect ==
    ASSUME NEW h \in HeapType, NEW a \in Addr, NEW size \in Nat,
           NEW hd, hd = [size |-> h.hdr[a].size, alloc |-> h.hdr[a].alloc,
                         prev |-> h.hdr[a].prev, req |-> size]
    PROVE  hd \in Header /\ NewHeader([h EXCEPT !.hdr[a].req = size], h, a, hd)
<1>1. h.hdr \in [Addr -> Header] /\ h.hdr[a] \in Header
  BY DEF HeapType
<1>2. hd \in Header
  BY <1>1 DEF Header
<1>3. [h.hdr[a] EXCEPT !.req = size] = hd
  BY <1>1 DEF Header
<1>4. [h EXCEPT !.hdr[a].req = size] = [h EXCEPT !.hdr[a] = hd]
  BY <1>3
<1> QED
  BY <1>2, <1>4, HeaderEffect

\* Writing the size of a header.
LEMMA SizeEffect ==
    ASSUME NEW h \in HeapType, NEW a \in Addr, NEW n \in Nat,
           NEW hd, hd = [size |-> n, alloc |-> h.hdr[a].alloc,
                         prev |-> h.hdr[a].prev, req |-> h.hdr[a].req]
    PROVE  hd \in Header /\ NewHeader([h EXCEPT !.hdr[a].size = n], h, a, hd)
<1>1. h.hdr \in [Addr -> Header] /\ h.hdr[a] \in Header
  BY DEF HeapType
<1>2. hd \in Header
  BY <1>1 DEF Header
<1>3. [h.hdr[a] EXCEPT !.size = n] = hd
  BY <1>1 DEF Header
<1>4. [h EXCEPT !.hdr[a].size = n] = [h EXCEPT !.hdr[a] = hd]
  BY <1>3
<1> QED
  BY <1>2, <1>4, HeaderEffect

\* sf_realloc to a smaller request.
LEMMA ShrinkOK ==
    ASSUME NEW h, HeapOK(h, -1), h.pages > 0, NEW a \in Used(h), NEW size \in Nat
    PROVE  HeapOK(shrink(h, a, size), -1) /\ Shrunk(shrink(h, a, size), h, a, size)
<1> DEFINE sz == Sizes(h)
           e == End(h)
           k == getNewSize(size)
           h1 == [h EXCEPT !.hdr[a].req = size]
           h2 == [h1 EXCEPT !.hdr[a].size = k]
           hd1 == [size |-> h.hdr[a].size, alloc |-> h.hdr[a].alloc, prev |-> h.hdr[a].prev, req |-> size]
           hd == [size |-> k, alloc |-> h1.hdr[a].alloc, prev |-> h1.hdr[a].prev, req |-> h1.hdr[a].req]
<1>1. h \in HeapType /\ Tiling(sz, Allocs(h), Prevs(h), h.ftr, e)
  BY DEF HeapOK
<1>2. /\ e \in 2..Limit /\ sz \in [Addr -> Nat] /\ Limit \in Nat
      /\ a \in Starts(sz, e) /\ a \in Allocs(h)
      /\ \A x \in Addr : sz[x] = h.hdr[x].size
  BY <1>1, Views, Bounds DEF Used
<1>3. a \in Addr /\ a \in Nat /\ sz[a] \in Nat
  BY <1>2 DEF Starts, Addr
<1>4. /\ splitSize(sz[a], k) \in Int
      /\ splitSize(sz[a], k) >= MIN_SZ =>
            k \in Nat /\ k >= 2 /\ splitSize(sz[a], k) = sz[a] - k
  <2>1. TilesAt(sz, Allocs(h), Prevs(h), h.ftr, e, a)
    BY <1>1, <1>2 DEF Tiling
  <2>2. a + sz[a] \in Starts(sz, e) \cup {e}
    BY <2>1 DEF TilesAt
  <2>3. a + sz[a] <= Limit
    <3>1. Starts(sz, e) \cup {e} \subseteq 0..Limit
      BY <1>2 DEF Starts
    <3> HIDE DEF sz, e
    <3> QED
      BY <1>2, <2>2, <3>1
  <2>4. sz[a] \in 0..Limit
    <3> HIDE DEF sz
    <3> QED
      BY <1>2, <1>3, <2>3
  <2> HIDE DEF sz
  <2> QED
    BY <2>4, SplitBound
<1>5. hd1 \in Header /\ NewHeader(h1, h, a, hd1)
  BY <1>1, <1>3, ReqEffect
<1>6. hd1.size = h.hdr[a].size /\ hd1.alloc = h.hdr[a].alloc /\ hd1.prev = h.hdr[a].prev /\ hd1.req = size
  OBVIOUS
<1>7. CASE ~(splitSize(sz[a], k) >= MIN_SZ)
  <2>1. shrink(h, a, size) = h1
    BY <1>2, <1>3, <1>7 DEF shrink
  <2> HIDE DEF h1, hd1, k
  <2>2. /\ h1 \in HeapType /\ h1.pages = h.pages /\ h1.ftr = h.ftr /\ h1.nx = h.nx /\ h1.pv = h.pv
        /\ h1.largest = h.largest /\ h1.hdr[a] = hd1 /\ \A x \in Addr : x # a => h1.hdr[x] = h.hdr[x]
    BY <1>3, <1>5 DEF NewHeader
  <2>3. \A x \in Addr : h1.hdr[x].size = h.hdr[x].size /\ h1.hdr[x].alloc = h.hdr[x].alloc
                        /\ h1.hdr[x].prev = h.hdr[x].prev
    BY <1>6, <2>2
  <2>4. Sizes(h1) = Sizes(h) /\ Allocs(h1) = Allocs(h) /\ Prevs(h1) = Prevs(h) /\ End(h1) = End(h)
    BY <2>2, <2>3 DEF Sizes, Allocs, Prevs, End
  <2>5. FreeBlocks(h1) = FreeBlocks(h) /\ Used(h1) = Used(h)
    BY <2>4 DEF FreeBlocks, Used
  <2>6. Listed(h, -1)
    BY DEF HeapOK
  <2>7. Listed(h1, -1)
    BY <2>2, <2>4, <2>5, <2>6 DEF Listed
  <2>8. h1.pages # 0
    BY <2>2, <1>1, Views
  <2>9. HeapOK(h1, -1)
    BY <1>1, <2>2, <2>4, <2>7, <2>8 DEF HeapOK
  <2>10. \A x \in Used(h) : x \in Addr
    BY <1>2 DEF Used, Starts, Addr
  <2>11. Shrunk(h1, h, a, size)
    BY <1>6, <2>2, <2>4, <2>5, <2>10 DEF Shrunk
  <2> QED
    BY <2>1, <2>9, <2>11
<1>8. CASE splitSize(sz[a], k) >= MIN_SZ
  <2> DEFINE n == a + sz[a]
             c == a + k
             g0 == setFreeHeader(h2, c, n - c)
  <2>1. TilesAt(sz, Allocs(h), Prevs(h), h.ftr, e, a)
    BY <1>1, <1>2 DEF Tiling
  <2>2. n \in Starts(sz, e) \cup {e} /\ \A y \in (a + 1)..(n - 1) : sz[y] = 0
    BY <2>1 DEF TilesAt
  <2>3. n \in Nat /\ n <= Limit /\ n \in Addr
    <3>1. Starts(sz, e) \cup {e} \subseteq 0..Limit
      BY <1>2 DEF Starts
    <3> HIDE DEF sz, e, n
    <3> QED
      BY <1>2, <2>2, <3>1 DEF Addr
  <2>4. /\ c \in Nat /\ a < c /\ c - a >= 2 /\ n - c >= 2 /\ n - c \in Nat /\ c < n /\ c \in Addr
        /\ sz[a] - k = n - c /\ k = c - a /\ n = c + (n - c)
    <3> DEFINE z == sz[a]
    <3>1. z \in Nat /\ z - k >= 2 /\ n = a + z /\ c = a + k /\ k \in Nat /\ k >= 2
      <4> HIDE DEF k, sz
      <4> QED
        BY <1>3, <1>4, <1>8 DEF MIN_SZ
    <3> HIDE DEF z, n, c, k
    <3>2. /\ c \in Nat /\ a < c /\ c - a >= 2 /\ n - c >= 2 /\ n - c \in Nat /\ c < n
          /\ z - k = n - c /\ k = c - a /\ n = c + (n - c)
      BY <1>3, <3>1
    <3>3. c <= Limit
      BY <1>2, <2>3, <3>2
    <3> QED
      BY <3>2, <3>3 DEF Addr, z
  <2>5. h1 \in HeapType /\ h1.hdr[a] = hd1 /\ hd1 \in Header
    BY <1>3, <1>5 DEF NewHeader
  <2>6. hd \in Header /\ NewHeader(h2, h1, a, hd)
    <3> HIDE DEF h1, k
    <3> QED
      BY <1>3, <1>4, <1>8, <2>5, SizeEffect
  <2>7. hd.size = k /\ hd.alloc = h.hdr[a].alloc /\ hd.prev = h.hdr[a].prev /\ hd.req = size
    <3> HIDE DEF h1, hd1, k
    <3> QED
      BY <1>6, <2>5
  <2>8. hd.alloc
    BY <1>2, <2>7 DEF Allocs
  <2>9. shrink(h, a, size) = LET G == splitBlock(h2, a, n - c)
                                 f == getNextHeaderPointer(G, a)
                             IN  forget(setPrev(G, f, FALSE), f)
    <3>1. splitSize(h.hdr[a].size, k) = n - c /\ splitSize(h.hdr[a].size, k) >= MIN_SZ
      <4>1. h.hdr[a].size = sz[a]
        BY <1>2, <1>3
      <4> HIDE DEF k, sz, n, c
      <4> QED
        BY <1>4, <1>8, <2>4, <4>1
    <3> HIDE DEF n, c
    <3> QED
      BY <3>1 DEF shrink
  <2> HIDE DEF hd, h2, h1, hd1, k, n, c, sz, e
  <2>10. h2 \in HeapType /\ h2.hdr[a] = hd
    BY <1>3, <2>6 DEF NewHeader
  <2>11. NewHeader(g0, h2, c, FreeHeader(n - c)) /\ FreeHeader(n - c).size = n - c
    BY <2>4, <2>10, FreeHeaderEffect DEF FreeHeader
  <2>12. Prepared(g0, h, a, hd, c, n - c)
    <3> HIDE DEF g0
    <3>1. a # c
      BY <1>3, <2>4
    <3> QED
      BY <1>3, <1>5, <2>4, <2>6, <2>10, <2>11, <3>1 DEF NewHeader, Prepared
  <2>13. /\ getNextHeaderPointer(h2, a) = c
    BY <2>4, <2>7, <2>10 DEF getNextHeaderPointer, c
  <2>14. getNextHeaderPointer(g0, c) = n /\ g0.hdr[n].alloc = h.hdr[n].alloc
    <3> HIDE DEF g0
    <3>1. n # a /\ n # c
      BY <1>3, <2>3, <2>4
    <3> QED
      BY <2>3, <2>4, <2>12, <3>1 DEF Prepared, getNextHeaderPointer
  <2> DEFINE G == splitBlock(h2, a, n - c)
             r == forget(setPrev(G, c, FALSE), c)
  <2>15. \A m : SplitOff(G, h, a, hd, c, m) => getNextHeaderPointer(G, a) = c
    <3> HIDE DEF G
    <3> QED
      BY <2>7 DEF SplitOff, getNextHeaderPointer, c
  <2>16. ASSUME HeapOK(r, -1), Allocated(r, h, a), r.hdr[a] = hd, getNextHeaderPointer(G, a) = c
         PROVE  HeapOK(shrink(h, a, size), -1) /\ Shrunk(shrink(h, a, size), h, a, size)
    <3>1. shrink(h, a, size) = r
      BY <2>9, <2>16
    <3> HIDE DEF r
    <3>2. r \in HeapType
      BY <2>16 DEF HeapOK
    <3>3. Sizes(r)[a] = k /\ r.hdr[a].req = size
      BY <1>3, <2>7, <2>16, <3>2, Views
    <3>4. Used(h) \cup {a} = Used(h)
      OBVIOUS
    <3>5. Shrunk(r, h, a, size)
      BY <2>16, <3>3, <3>4 DEF Allocated, Shrunk, k
    <3> QED
      BY <2>16, <3>1, <3>5
  <2>17. \A x \in Starts(sz, e) : x \notin (a + 1)..(n - 1)
    BY <2>2 DEF Starts, n
  <2>18. CASE n \in Allocs(h)
    <3>1. G = setFooter(addHeaderToFreeList(g0, c), c, n - c)
      <4>1. g0.hdr[n].alloc
        BY <2>14, <2>18 DEF Allocs
      <4> QED
        BY <2>13, <2>14, <4>1 DEF splitBlock
    <3> HIDE DEF g0
    <3>2. SplitOff(G, h, a, hd, c, n)
      <4> HIDE DEF G
      <4> QED
        BY <2>4, <2>12, <3>1, SplitUsed DEF n, sz
    <3>3. n \in Starts(Sizes(h), End(h)) \cup {End(h)}
      BY <2>2 DEF sz, e, n
    <3>4. \A x \in Starts(Sizes(h), End(h)) : x \notin (a + 1)..(n - 1)
      BY <2>17 DEF sz, e
    <3>5. \A x \in Used(h) : x \in a..(n - 1) => x = a
      <4>1. \A x \in a..(n - 1) : x = a \/ x \in (a + 1)..(n - 1)
        BY <1>3, <2>3
      <4> QED
        BY <3>4, <4>1 DEF Used
    <3>6. Shortens(r, h, a, hd)
      <4> HIDE DEF G
      <4>1. hd.size = c - a
        BY <2>4, <2>7
      <4>2. Shortened(hd, h, a, c)
        BY <2>6, <2>7, <2>8, <4>1 DEF Shortened
      <4>3. Spans(h, a, c, n)
        BY <2>4, <2>18, <3>3, <3>4, <3>5 DEF Spans
      <4> QED
        BY <3>2, <4>2, <4>3, FinishShrink
    <3> HIDE DEF G, r
    <3> QED
      BY <2>15, <2>16, <3>2, <3>6 DEF Shortens
  <2>19. CASE n \notin Allocs(h)
    <3>1. G = addHeaderToFreeList(coalesce(removeHeader(g0, n), c, g0.hdr[n].size), c)
      <4>1. ~g0.hdr[n].alloc
        BY <2>3, <2>14, <2>19 DEF Allocs
      <4> QED
        BY <2>13, <2>14, <4>1 DEF splitBlock
    <3> HIDE DEF g0
    <3>2. n \in FreeBlocks(h)
      <4>1. e \in Allocs(h)
        BY <1>1 DEF Tiling
      <4>2. n \in Starts(sz, e)
        BY <2>2, <2>19, <4>1 DEF n
      <4> QED
        BY <2>19, <4>2 DEF FreeBlocks, sz, e
    <3> DEFINE m == n + sz[n]
    <3>3. /\ SplitOff(G, h, a, hd, c, m)
          /\ m \in Starts(Sizes(h), End(h)) \cup {End(h)} /\ m \in Allocs(h) /\ m - n >= 2
          /\ \A x \in Starts(Sizes(h), End(h)) : x \in (a + 1)..(m - 1) => x = n
      <4>1. n = a + Sizes(h)[a] /\ m = n + Sizes(h)[n]
        BY DEF n, sz
      <4> HIDE DEF G, m
      <4> QED
        BY <2>4, <2>12, <3>1, <3>2, <4>1, SplitFree
    <3>4. m \in Nat /\ m - c >= 2 /\ n \in (c + 1)..(m - 1)
      <4>1. Starts(sz, e) \cup {e} \subseteq 0..Limit
        BY <1>2 DEF Starts
      <4>2. m \in 0..Limit
        BY <3>3, <4>1 DEF sz, e
      <4> HIDE DEF m
      <4> QED
        BY <1>2, <2>3, <2>4, <3>3, <4>2
    <3> HIDE DEF m
    <3>5. \A x \in Used(h) : x \in a..(m - 1) => x = a
      <4>1. \A x \in a..(m - 1) : x = a \/ x \in (a + 1)..(m - 1)
        BY <1>3, <3>4
      <4>2. n \notin Used(h)
        BY <2>19 DEF Used
      <4> QED
        BY <3>3, <4>1, <4>2 DEF Used
    <3>6. Shortens(r, h, a, hd)
      <4> HIDE DEF G
      <4>1. hd.size = c - a
        BY <2>4, <2>7
      <4>2. \A x \in Starts(Sizes(h), End(h)) : x \in (a + 1)..(m - 1) => x \in (c + 1)..(m - 1)
        BY <3>3, <3>4
      <4>3. Shortened(hd, h, a, c)
        BY <2>6, <2>7, <2>8, <4>1 DEF Shortened
      <4>4. Spans(h, a, c, m)
        BY <2>4, <3>3, <3>4, <3>5, <4>2 DEF Spans
      <4> QED
        BY <3>3, <4>3, <4>4, FinishShrink
    <3> HIDE DEF G, r
    <3> QED
      BY <2>15, <2>16, <3>3, <3>6 DEF Shortens
  <2> QED
    BY <2>18, <2>19
<1> QED
  BY <1>7, <1>8

-----------------------------------------------------------------------------
(* Growing the heap.                                                       *)

PagesSet(g, h, p) ==
    /\ g \in HeapType /\ g.pages = p
    /\ g.hdr = h.hdr /\ g.ftr = h.ftr /\ g.nx = h.nx /\ g.pv = h.pv /\ g.largest = h.largest

\* sf_mem_grow adds a page.
LEMMA PagesEffect ==
    ASSUME NEW h \in HeapType, NEW p \in 0..MaxPages
    PROVE  PagesSet([h EXCEPT !.pages = p], h, p)
  BY DEF HeapType, PagesSet

\* The first page is one free block, which is on no list.
FirstPage(g) ==
    /\ HeapOK(g, 0) /\ g.pages = 1 /\ g.largest = 0
    /\ FreeBlocks(g) = {0} /\ Used(g) = {} /\ 0 + g.hdr[0].size = End(g)

\* mem_init makes one free block of the first page.
LEMMA InitOK ==
    ASSUME NEW h \in HeapType, Untouched(h)
    PROVE  FirstPage(mem_init(h))
<1> DEFINE k0 == [h EXCEPT !.pages = 1]
           k1 == createEpilogue(k0)
           e == 1 * PageRows - 3
           k2 == setFreeHeader(k1, 0, e)
           g == setFooter(k2, 0, e)
           sz == Sizes(g)
<1>1. MaxPages \in Nat \ {0} /\ Limit \in Nat
  BY HeapAssumption, Bounds
<1>2. PagesSet(k0, h, 1)
  BY <1>1, PagesEffect
<1> HIDE DEF k0
<1>3. e \in 2..Limit
  BY <1>1, Bounds
<1>4. End(k0) = e
  BY <1>2 DEF PagesSet, End
<1> HIDE DEF e
<1>5. e \in Addr /\ e \in Nat /\ 0 \in Addr /\ 0 + e = e /\ e # 0
  BY <1>1, <1>3 DEF Addr
<1> DEFINE hd == [size |-> 0, alloc |-> TRUE, prev |-> FALSE, req |-> k0.hdr[e].req]
<1>6. NewHeader(k1, k0, e, hd)
  BY <1>2, <1>4, <1>5, EpilogueEffect DEF PagesSet
<1>7. hd.size = 0 /\ hd.alloc = TRUE /\ hd.prev = FALSE
  OBVIOUS
<1> HIDE DEF hd, k1
<1>8. End(k1) = e
  BY <1>4, <1>6 DEF NewHeader, End
<1>9. mem_init(h) = g
  BY <1>8 DEF mem_init, k1, k0
<1>10. NewHeader(k2, k1, 0, FreeHeader(e))
  BY <1>5, <1>6, FreeHeaderEffect DEF NewHeader
<1> HIDE DEF k2
<1>11. FreeHeader(e).size = e /\ FreeHeader(e).alloc = FALSE /\ FreeHeader(e).prev = TRUE
  BY DEF FreeHeader
<1>12. k2 \in HeapType /\ e = 0 + k2.hdr[0].size
  BY <1>5, <1>10, <1>11 DEF NewHeader
<1>13. NewFooter(g, k2, e, e)
  BY <1>5, <1>12, FooterEffect
<1> HIDE DEF g
<1>14. /\ g \in HeapType /\ g.pages = 1 /\ g.largest = h.largest /\ g.nx = h.nx /\ g.pv = h.pv
       /\ g.hdr[0] = FreeHeader(e) /\ g.hdr[e] = hd
       /\ (\A x \in Addr : x # 0 /\ x # e => g.hdr[x] = h.hdr[x])
       /\ g.ftr[e] = e
  <2>1. \A x \in Addr : x # 0 => k2.hdr[x] = k1.hdr[x]
    BY <1>10 DEF NewHeader
  <2>2. k2.hdr[0] = FreeHeader(e) /\ k1.hdr[e] = hd /\ \A x \in Addr : x # e => k1.hdr[x] = h.hdr[x]
    BY <1>2, <1>5, <1>6, <1>10 DEF NewHeader, PagesSet
  <2>3. g \in HeapType /\ g.hdr = k2.hdr /\ g.ftr[e] = e
    BY <1>5, <1>13 DEF NewFooter
  <2>4. g.pages = 1 /\ g.largest = h.largest /\ g.nx = h.nx /\ g.pv = h.pv
    BY <1>2, <1>6, <1>10, <1>13 DEF NewFooter, NewHeader, PagesSet
  <2> QED
    BY <1>5, <2>1, <2>2, <2>3, <2>4
<1>15. sz \in [Addr -> Nat] /\ \A x \in Addr : sz[x] = g.hdr[x].size
  BY <1>14, Views
<1>16. \A x \in Addr : h.hdr[x].size = 0 /\ h.nx[x] = NoLink
  <2>1. \A x \in Addr : Sizes(h)[x] = h.hdr[x].size
    BY Views
  <2> QED
    BY <2>1 DEF Untouched
<1>17. sz[0] = e /\ \A x \in Addr : x # 0 => sz[x] = 0
  BY <1>5, <1>7, <1>11, <1>14, <1>15, <1>16
<1>18. 0 \notin Allocs(g) /\ 0 \in Prevs(g) /\ e \in Allocs(g) /\ e \notin Prevs(g)
  BY <1>5, <1>7, <1>11, <1>14 DEF Allocs, Prevs
<1> HIDE DEF sz
<1>19. Tiling(sz, Allocs(g), Prevs(g), g.ftr, e) /\ Starts(sz, e) = {0}
  BY <1>3, <1>14, <1>15, <1>17, <1>18, TileFirst
<1>20. End(g) = e
  BY <1>14 DEF End, e
<1>21. FreeBlocks(g) = {0} /\ Used(g) = {}
  BY <1>18, <1>19, <1>20 DEF FreeBlocks, Used, sz
<1>22. Lists(g.nx, g.pv, {}, sz)
  <2>1. \A l \in Sentinels : g.nx[l] = l /\ g.pv[l] = l
    BY <1>14 DEF Untouched
  <2>2. Ring(g.nx, g.pv, {}, sz)
    BY <2>1 DEF Ring
  <2>3. [x \in Addr |-> 0] \in [Addr -> Nat]
    OBVIOUS
  <2>4. Ranked(g.pv, {})
    BY <2>3 DEF Ranked
  <2> QED
    BY <2>2, <2>4 DEF Lists
<1>23. FreeBlocks(g) \ {0} = {}
  BY <1>21
<1>24. Listed(g, 0)
  BY <1>14, <1>16, <1>22, <1>23 DEF Listed, sz
<1>25. HeapOK(g, 0)
  BY <1>14, <1>19, <1>20, <1>24 DEF HeapOK, sz
<1>26. 0 + g.hdr[0].size = End(g)
  BY <1>5, <1>11, <1>14, <1>20
<1>27. g.largest = 0
  BY <1>14 DEF Untouched
<1> QED
  BY <1>9, <1>14, <1>21, <1>25, <1>26, <1>27 DEF FirstPage

\* a is the place where the heap h grows: its last block if that is free,
\* otherwise its end.
GrowsAt(h, a) ==
    /\ a \in Starts(Sizes(h), End(h)) \cup {End(h)} /\ a \in Prevs(h)
    /\ a # End(h) => a + Sizes(h)[a] = End(h) /\ a \notin Allocs(h)

\* g is h without the block a on a list.
OffList(g, h, a) ==
    /\ g \in HeapType /\ g.pages = h.pages /\ g.hdr = h.hdr /\ g.ftr = h.ftr /\ g.largest = h.largest
    /\ Lists(g.nx, g.pv, FreeBlocks(h) \ {a}, Sizes(h))
    /\ \A x \in FreeBlocks(h) \ {a} : Sizes(h)[x] <= h.largest
    /\ \A x \in Addr : x \notin FreeBlocks(h) => g.nx[x] = NoLink

\* r is h with one more page in its last block a; the links are those of g.
Grown(r, h, g, a) ==
    /\ HeapOK(r, a) /\ r.pages = h.pages + 1 /\ r.largest = h.largest
    /\ FreeBlocks(r) = FreeBlocks(h) \cup {a} /\ a + r.hdr[a].size = End(r)
    /\ Used(r) = Used(h)
    /\ \A x \in Used(h) : Sizes(r)[x] = Sizes(h)[x] /\ r.hdr[x].req = h.hdr[x].req
    /\ \A l \in FreeBlocks(r) \cup Sentinels : r.nx[l] = g.nx[l] /\ r.pv[l] = g.pv[l]

\* mem_grow once the block a that it extends is on no list.
LEMMA FinishGrow ==
    ASSUME NEW h \in HeapType, h.pages > 0, h.pages < MaxPages,
           Tiling(Sizes(h), Allocs(h), Prevs(h), h.ftr, End(h)),
           NEW a, GrowsAt(h, a), NEW g, OffList(g, h, a)
    PROVE  Grown(forget(coalesce(createEpilogue([g EXCEPT !.pages = @ + 1]), a, PageRows), a), h, g, a)
<1> DEFINE sz == Sizes(h)
           e == End(h)
           e2 == e + PageRows
           F == FreeBlocks(h)
           k0 == [g EXCEPT !.pages = @ + 1]
           k1 == createEpilogue(k0)
           k2 == coalesce(k1, a, PageRows)
           r == forget(k2, a)
<1>1. /\ e \in 2..Limit /\ sz \in [Addr -> Nat] /\ F \subseteq Addr /\ h.pages \in 1..(MaxPages - 1)
      /\ \A x \in Addr : sz[x] = h.hdr[x].size
  <2>1. h.pages \in 0..MaxPages /\ MaxPages \in Nat
    BY HeapAssumption, Views
  <2> QED
    BY <2>1, Views
<1>2. PageRows \in Nat /\ PageRows >= 5 /\ Limit \in Nat /\ MaxPages \in Nat
  BY Bounds, HeapAssumption
<1>3. g \in HeapType /\ g.pages = h.pages /\ g.hdr = h.hdr /\ g.ftr = h.ftr /\ g.largest = h.largest
  BY DEF OffList
<1>4. PagesSet(k0, g, h.pages + 1)
  <2>1. k0 = [g EXCEPT !.pages = h.pages + 1]
    BY <1>3
  <2>2. h.pages + 1 \in 0..MaxPages
    BY <1>1, <1>2
  <2> QED
    BY <1>3, <2>1, <2>2, PagesEffect
<1> HIDE DEF k0
<1>5. End(k0) = e2 /\ e2 \in 2..Limit
  <2> DEFINE p == h.pages
  <2>1. (p + 1) * PageRows - 3 = p * PageRows - 3 + PageRows /\ (p + 1) * PageRows - 3 \in 2..Limit
    <3>1. p \in 1..(MaxPages - 1) /\ p + 1 \in 1..MaxPages
      BY <1>1, <1>2
    <3> HIDE DEF p
    <3> QED
      BY <3>1, Bounds
  <2> QED
    BY <1>4, <2>1 DEF PagesSet, End
<1>6. /\ a \in Starts(sz, e) \cup {e} /\ a \in Prevs(h)
      /\ a # e => a + sz[a] = e /\ a \notin Allocs(h)
  BY DEF GrowsAt
<1>7. \A x \in Starts(sz, e) : x \in Addr /\ x \in Nat /\ x < e
  BY <1>1, <1>2 DEF Starts, Addr
<1>8. sz[e] = 0 /\ e \in Allocs(h) /\ \A x \in e..Limit : sz[x] = 0
  <2>1. \A x \in e..Limit : sz[x] = 0
    BY DEF Tiling
  <2>2. e \in e..Limit
    BY <1>1, <1>2
  <2> QED
    BY <2>1, <2>2 DEF Tiling
<1>9. a \in Addr /\ a \in Nat /\ a <= e /\ sz[a] \in Nat /\ a + sz[a] = e
  <2>1. e \in Addr /\ e \in Nat
    BY <1>1, <1>2 DEF Addr
  <2>2. a \in Addr /\ a \in Nat /\ a <= e
    BY <1>6, <1>7, <2>1
  <2>3. a = e => a + sz[a] = e
    BY <1>8, <2>1
  <2> QED
    BY <1>1, <1>6, <2>2, <2>3
<1>10. \A x \in (a + 1)..(e - 1) : sz[x] = 0
  <2>1. CASE a = e
    BY <1>9, <2>1
  <2>2. CASE a # e
    <3>1. TilesAt(sz, Allocs(h), Prevs(h), h.ftr, e, a)
      BY <1>6, <2>2 DEF Tiling
    <3> QED
      BY <1>9, <3>1 DEF TilesAt
  <2> QED
    BY <2>1, <2>2
<1>11. h.hdr[a].size = sz[a]
  BY <1>1, <1>9
<1> DEFINE k == e2 - a
           z == sz[a]
<1>12. z \in Nat /\ a + z = e
  BY <1>9
<1> HIDE DEF sz, z
<1>13. /\ e2 \in Addr /\ e2 \in Nat /\ e < e2 /\ e2 - e >= 2 /\ k \in Nat /\ k >= 2 /\ a + k = e2
       /\ k = z + PageRows /\ a < e2 /\ e \in Nat
  <2>1. e \in Nat /\ e2 = e + PageRows /\ e2 \in 2..Limit
    BY <1>1, <1>2, <1>5
  <2> HIDE DEF e, e2
  <2> QED
    BY <1>2, <1>9, <1>12, <2>1 DEF Addr
<1> HIDE DEF e2, k, e, F
<1> DEFINE hd == [size |-> 0, alloc |-> TRUE, prev |-> FALSE, req |-> k0.hdr[e2].req]
<1>14. NewHeader(k1, k0, e2, hd)
  BY <1>4, <1>5, <1>13, EpilogueEffect DEF PagesSet
<1>15. hd.size = 0 /\ hd.alloc = TRUE /\ hd.prev = FALSE
  OBVIOUS
<1> HIDE DEF hd, k1
<1>16. k1 \in HeapType /\ k1.hdr[e2] = hd /\ \A x \in Addr : x # e2 => k1.hdr[x] = h.hdr[x]
  BY <1>3, <1>4, <1>13, <1>14 DEF NewHeader, PagesSet
<1>17. k = k1.hdr[a].size + PageRows
  <2>1. a # e2
    BY <1>9, <1>13
  <2> QED
    BY <1>9, <1>11, <1>13, <1>16, <2>1 DEF z
<1>18. Coalesced(k2, k1, a, k)
  BY <1>2, <1>9, <1>16, <1>17, CoalesceEffect
<1> HIDE DEF k2
<1>19. FreeHeader(k).size = k /\ FreeHeader(k).alloc = FALSE /\ FreeHeader(k).prev = TRUE
  BY DEF FreeHeader
<1>20. k2 \in HeapType /\ k2.hdr[a] = FreeHeader(k) /\ ~k2.hdr[a].alloc /\ e2 = a + k2.hdr[a].size
  BY <1>9, <1>13, <1>18, <1>19 DEF Coalesced
<1> DEFINE ins == (a + 1)..(e2 - 1)
<1>21. Forgotten(r, k2, ins, ins, ins)
  BY <1>9, <1>13, <1>20, ForgetEffect
<1> HIDE DEF r, ins
<1>22. /\ a \notin ins /\ e2 \notin ins /\ a # e2
       /\ \A x \in Addr : x < a => x \notin ins /\ x # a /\ x # e2
       /\ \A x \in Addr : x > a => x \in ins \/ x = e2 \/ x \in e..Limit
       /\ \A x \in Addr : x <= a => x \notin ins /\ x # e2
  BY <1>9, <1>13 DEF ins, Addr
<1>23. /\ r \in HeapType /\ r.pages = h.pages + 1 /\ r.largest = h.largest
       /\ \A x \in Addr : r.hdr[x] = IF x \in ins THEN Unset ELSE k2.hdr[x]
       /\ \A x \in Addr : r.ftr[x] = IF x \in ins THEN 0 ELSE k2.ftr[x]
       /\ \A x \in Links : r.nx[x] = IF x \in ins THEN NoLink ELSE g.nx[x]
       /\ \A x \in Links : r.pv[x] = IF x \in ins THEN NoLink ELSE g.pv[x]
  <2>1. /\ k2.pages = h.pages + 1 /\ k2.largest = h.largest /\ k2.nx = g.nx /\ k2.pv = g.pv
    BY <1>3, <1>4, <1>14, <1>18 DEF PagesSet, NewHeader, Coalesced
  <2> QED
    BY <1>21, <2>1 DEF Forgotten
<1>24. /\ r.hdr[a] = FreeHeader(k) /\ r.hdr[e2] = hd
       /\ \A x \in Addr : x \notin ins /\ x # a /\ x # e2 => r.hdr[x] = h.hdr[x]
       /\ \A x \in Addr : x \in ins => r.hdr[x] = Unset
  <2>1. k2.hdr[e2] = hd /\ \A x \in Addr : x # a /\ x # e2 => k2.hdr[x] = h.hdr[x]
    BY <1>13, <1>16, <1>18, <1>22 DEF Coalesced
  <2> QED
    BY <1>9, <1>13, <1>20, <1>22, <1>23, <2>1
<1>25. r.ftr[e2] = k /\ \A x \in Addr : x <= a => r.ftr[x] = h.ftr[x]
  <2>1. k1.ftr = h.ftr
    BY <1>3, <1>4, <1>14 DEF PagesSet, NewHeader
  <2>2. k2.ftr[e2] = k /\ \A x \in Addr : x # e2 => k2.ftr[x] = h.ftr[x]
    BY <1>13, <1>18, <2>1 DEF Coalesced
  <2> QED
    BY <1>13, <1>22, <1>23, <2>2
<1> DEFINE sz2 == Sizes(r)
<1>26. sz2 \in [Addr -> Nat] /\ \A x \in Addr : sz2[x] = r.hdr[x].size
  BY <1>23, Views
<1>27. /\ \A x \in Addr : x < a => sz2[x] = sz[x] /\ (x \in Allocs(r) <=> x \in Allocs(h)) /\ r.hdr[x] = h.hdr[x]
       /\ \A x \in Addr : x <= a => (x \in Prevs(r) <=> x \in Prevs(h))
       /\ sz2[a] = e2 - a /\ a \notin Allocs(r) /\ e2 \in Allocs(r) /\ e2 \notin Prevs(r)
  <2>1. \A x \in Addr : x < a => r.hdr[x] = h.hdr[x]
    BY <1>22, <1>24
  <2>2. \A x \in Addr : x < a => sz2[x] = sz[x] /\ (x \in Allocs(r) <=> x \in Allocs(h))
    BY <1>1, <1>26, <2>1 DEF Allocs
  <2>3. a \in Prevs(r)
    BY <1>9, <1>19, <1>24 DEF Prevs
  <2>4. \A x \in Addr : x <= a => x < a \/ x = a
    BY <1>9 DEF Addr
  <2>5. \A x \in Addr : x < a => (x \in Prevs(r) <=> x \in Prevs(h))
    BY <2>1 DEF Prevs
  <2>6. \A x \in Addr : x <= a => (x \in Prevs(r) <=> x \in Prevs(h))
    BY <1>6, <2>3, <2>4, <2>5
  <2>7. sz2[a] = e2 - a
    BY <1>9, <1>19, <1>24, <1>26 DEF k
  <2>8. a \notin Allocs(r) /\ e2 \in Allocs(r) /\ e2 \notin Prevs(r)
    BY <1>9, <1>13, <1>15, <1>19, <1>24 DEF Allocs, Prevs
  <2> QED
    BY <2>1, <2>2, <2>6, <2>7, <2>8
<1>28. \A x \in Addr : x > a => sz2[x] = 0
  <2> SUFFICES ASSUME NEW x \in Addr, x > a PROVE sz2[x] = 0
    OBVIOUS
  <2>1. CASE x \in ins
    BY <1>24, <1>26, <2>1 DEF Unset
  <2>2. CASE x = e2
    BY <1>15, <1>24, <1>26, <2>2
  <2>3. CASE x \notin ins /\ x # e2
    <3>1. x \in e..Limit /\ x # a
      BY <1>9, <1>22, <2>3
    <3> QED
      BY <1>1, <1>8, <1>24, <1>26, <2>3, <3>1
  <2> QED
    BY <2>1, <2>2, <2>3
<1> HIDE DEF sz2
<1>29. /\ Tiling(sz2, Allocs(r), Prevs(r), r.ftr, e2)
       /\ Starts(sz2, e2) = Starts(sz, e) \cup {a}
  <2>1. Tiling(sz, Allocs(h), Prevs(h), h.ftr, e)
    BY DEF sz, e
  <2>2. r.ftr[e2] = e2 - a
    BY <1>25 DEF k
  <2>3. /\ \A x \in Addr : x < a => sz2[x] = sz[x] /\ (x \in Allocs(r) <=> x \in Allocs(h))
        /\ \A x \in Addr : x <= a => r.ftr[x] = h.ftr[x] /\ (x \in Prevs(r) <=> x \in Prevs(h))
    BY <1>25, <1>27
  <2>4. a \in Starts(sz, e) \cup {e} /\ (a # e => a + sz[a] = e) /\ a \in Prevs(h)
    BY <1>6
  <2>5. e2 \in 2..Limit /\ e2 - e >= 2 /\ e \in 2..Limit /\ sz \in [Addr -> Nat] /\ sz2 \in [Addr -> Nat]
    BY <1>1, <1>5, <1>13, <1>26
  <2>6. sz2[a] = e2 - a /\ a \notin Allocs(r) /\ e2 \in Allocs(r) /\ e2 \notin Prevs(r)
    BY <1>27
  <2> DEFINE f1 == h.ftr
             f2 == r.ftr
             A1 == Allocs(h)
             A2 == Allocs(r)
             P1 == Prevs(h)
             P2 == Prevs(r)
  <2>7. /\ Tiling(sz, A1, P1, f1, e) /\ f2[e2] = e2 - a
        /\ \A x \in Addr : x < a => sz2[x] = sz[x] /\ (x \in A2 <=> x \in A1)
        /\ \A x \in Addr : x <= a => f2[x] = f1[x] /\ (x \in P2 <=> x \in P1)
        /\ a \in P1 /\ a \notin A2 /\ e2 \in A2 /\ e2 \notin P2
    BY <2>1, <2>2, <2>3, <2>4, <2>6
  <2> HIDE DEF f1, f2, A1, A2, P1, P2
  <2>8. Tiling(sz2, A2, P2, f2, e2) /\ Starts(sz2, e2) = Starts(sz, e) \cup {a}
    <3>1. ExtendedAt(a, sz, A1, P1, f1, e, sz2, A2, P2, f2, e2)
      BY <1>28, <2>4, <2>5, <2>6, <2>7 DEF ExtendedAt
    <3>2. e \in 2..Limit /\ e2 \in 2..Limit /\ sz \in [Addr -> Nat] /\ sz2 \in [Addr -> Nat]
      BY <2>5
    <3>3. Tiling(sz, A1, P1, f1, e)
      BY <2>7
    <3> QED
      BY <3>1, <3>2, <3>3, RetileGrown
  <2> QED
    BY <2>8 DEF A2, P2, f2
<1>30. End(r) = e2
  BY <1>4, <1>5, <1>23 DEF End, PagesSet
<1>31. \A x \in Starts(sz, e) : x # a => x < a
  <2> SUFFICES ASSUME NEW x \in Starts(sz, e), ~(x < a) PROVE x = a
    OBVIOUS
  <2>1. x \in Nat /\ x < e /\ sz[x] # 0
    BY <1>7 DEF Starts
  <2>2. x = a \/ x \in (a + 1)..(e - 1)
    BY <1>9, <1>13, <2>1
  <2> QED
    BY <1>10, <2>1, <2>2
<1>32. /\ F = Starts(sz, e) \ Allocs(h) /\ Used(h) = Starts(sz, e) \cap Allocs(h)
       /\ FreeBlocks(r) = Starts(sz2, e2) \ Allocs(r) /\ Used(r) = Starts(sz2, e2) \cap Allocs(r)
  BY <1>30 DEF F, FreeBlocks, Used, sz, e, sz2
<1>33. a \notin Used(h)
  <2>1. a \in Starts(sz, e) => a # e
    BY <1>1, <1>7
  <2> QED
    BY <1>6, <1>32, <2>1
<1>34. FreeBlocks(r) = F \cup {a} /\ Used(r) = Used(h) /\ FreeBlocks(r) \ {a} = F \ {a}
  <2>1. \A x \in Starts(sz, e) : x # a => x \in Addr /\ x < a
    BY <1>7, <1>31
  <2>2. \A x \in Starts(sz, e) : x # a => (x \in Allocs(r) <=> x \in Allocs(h))
    BY <1>27, <2>1
  <2>3. FreeBlocks(r) = F \cup {a}
    BY <1>27, <1>29, <1>32, <2>2
  <2>4. Used(r) = Used(h)
    BY <1>27, <1>29, <1>32, <1>33, <2>2
  <2> QED
    BY <2>3, <2>4
<1>35. \A x \in F \ {a} : x \in Addr /\ x < a
  BY <1>1, <1>31, <1>32
<1>36. \A l \in (F \cup {a}) \cup Sentinels : l \in Links /\ l \notin ins
  <2>1. \A l \in Sentinels : l \notin ins
    BY <1>9, <1>13 DEF Sentinels, ins
  <2>2. \A l \in F \ {a} : l \in Links /\ l \notin ins
    BY <1>22, <1>35, NodesAreLinks
  <2> QED
    BY <1>9, <1>22, <2>1, <2>2, NodesAreLinks
<1>37. \A l \in (F \cup {a}) \cup Sentinels : r.nx[l] = g.nx[l] /\ r.pv[l] = g.pv[l]
  BY <1>23, <1>36
<1>38. Listed(r, a)
  <2>1. SameOn(F \ {a}, g.nx, g.pv, sz, r.nx, r.pv, sz2)
    BY <1>27, <1>35, <1>37 DEF SameOn
  <2>2. Lists(g.nx, g.pv, F \ {a}, sz) /\ F \ {a} \subseteq Addr
    BY <1>35 DEF OffList, F, sz
  <2>3. Lists(r.nx, r.pv, F \ {a}, sz2)
    BY <2>1, <2>2, SameLists
  <2>4. \A x \in F \ {a} : sz[x] <= h.largest
    BY DEF OffList, F, sz
  <2>5. \A x \in F \ {a} : sz2[x] <= r.largest
    BY <1>23, <1>27, <1>35, <2>4
  <2>6. ASSUME NEW x \in Addr, x \notin F \cup {a} PROVE r.nx[x] = NoLink
    <3>1. g.nx[x] = NoLink /\ x \in Links
      BY <2>6, NodesAreLinks DEF OffList, F
    <3> QED
      BY <1>23, <3>1
  <2> QED
    BY <1>34, <2>3, <2>5, <2>6 DEF Listed, sz2
<1>39. HeapOK(r, a)
  <2>1. h.pages + 1 # 0
    BY <1>1, <1>2
  <2> QED
    BY <1>23, <1>29, <1>30, <1>38, <2>1 DEF HeapOK, sz2
<1>40. \A x \in Used(h) : Sizes(r)[x] = Sizes(h)[x] /\ r.hdr[x].req = h.hdr[x].req
  <2>1. \A x \in Used(h) : x \in Addr /\ x < a
    BY <1>7, <1>31, <1>32, <1>33
  <2> QED
    BY <1>27, <2>1 DEF sz, sz2
<1>41. a + r.hdr[a].size = End(r)
  BY <1>13, <1>19, <1>24, <1>30
<1>42. Grown(r, h, g, a)
  BY <1>23, <1>34, <1>37, <1>39, <1>40, <1>41 DEF Grown, F
<1> QED
  BY <1>42 DEF r, k2, k1, k0

\* r is h with one more page in the free block a.
Growth(r, h, a) ==
    /\ HeapOK(r, a) /\ r.pages = h.pages + 1 /\ LastInHand(r, a)
    /\ Used(r) = Used(h)
    /\ \A x \in Used(h) : Sizes(r)[x] = Sizes(h)[x] /\ r.hdr[x].req = h.hdr[x].req

\* What mem_grow returns is the block that the call has in hand.
LEMMA GrownGrowth ==
    ASSUME NEW h, NEW g, NEW r, NEW a, Grown(r, h, g, a),
           h.largest = 0 \/ g.nx[a] = NoLink \/ Unlinked(g, a), FreeBlocks(h) = FreeBlocks(g)
    PROVE  Growth(r, h, a)
<1>1. /\ HeapOK(r, a) /\ r.pages = h.pages + 1 /\ r.largest = h.largest
      /\ FreeBlocks(r) = FreeBlocks(h) \cup {a} /\ a + r.hdr[a].size = End(r)
      /\ Used(r) = Used(h)
      /\ \A x \in Used(h) : Sizes(r)[x] = Sizes(h)[x] /\ r.hdr[x].req = h.hdr[x].req
      /\ \A l \in FreeBlocks(r) \cup Sentinels : r.nx[l] = g.nx[l] /\ r.pv[l] = g.pv[l]
  BY DEF Grown
<1>2. a \in FreeBlocks(r) /\ r.nx[a] = g.nx[a] /\ r.pv[a] = g.pv[a]
  BY <1>1
<1>3. r.largest = 0 \/ r.nx[a] = NoLink \/ Unlinked(r, a)
  <2>1. ASSUME Unlinked(g, a) PROVE Unlinked(r, a)
    <3> DEFINE N == (FreeBlocks(g) \ {a}) \cup Sentinels
               M == (FreeBlocks(r) \ {a}) \cup Sentinels
    <3>1. M = N
      BY <1>1
    <3>2. g.nx[a] \in N /\ g.pv[a] \in N /\ g.nx[g.pv[a]] = g.nx[a] /\ g.pv[g.nx[a]] = g.pv[a]
      BY <2>1 DEF Unlinked
    <3>3. \A l \in N : r.nx[l] = g.nx[l] /\ r.pv[l] = g.pv[l]
      BY <1>1
    <3> HIDE DEF N, M
    <3>4. r.nx[a] \in M /\ r.pv[a] \in M /\ r.nx[r.pv[a]] = r.nx[a] /\ r.pv[r.nx[a]] = r.pv[a]
      BY <1>2, <3>1, <3>2, <3>3
    <3> QED
      BY <3>4 DEF Unlinked, M
  <2> QED
    BY <1>1, <1>2, <2>1
<1> QED
  BY <1>1, <1>2, <1>3 DEF Growth, LastInHand

\* mem_grow, in the first turn of the loop of sf_malloc and in later ones.
LEMMA GrowOK ==
    ASSUME NEW h, NEW c, HeapOK(h, c), h.pages > 0, h.pages < MaxPages,
           c = -1 \/ LastInHand(h, c),
           ~(~h.hdr[End(h)].prev /\ h.largest > 0 /\ h.nx[lastFree(h)] = NoLink)
    PROVE  Growth(mem_grow(h), h, grownHeader(h))
<1> DEFINE sz == Sizes(h)
           e == End(h)
           F == FreeBlocks(h)
           a == grownHeader(h)
           G == IF ~h.hdr[e].prev /\ h.largest > 0 THEN removeHeader(h, a) ELSE h
           r == forget(coalesce(createEpilogue([G EXCEPT !.pages = @ + 1]), a, PageRows), a)
<1> SUFFICES Growth(mem_grow(h), h, a)
  OBVIOUS
<1>1. /\ h \in HeapType /\ Tiling(sz, Allocs(h), Prevs(h), h.ftr, e)
      /\ Lists(h.nx, h.pv, F \ {c}, sz) /\ Listed(h, c)
      /\ \A x \in F \ {c} : sz[x] <= h.largest
      /\ \A x \in Addr : x \notin F => h.nx[x] = NoLink
  BY DEF HeapOK, Listed
<1>2. /\ e \in 2..Limit /\ sz \in [Addr -> Nat] /\ F \subseteq Addr /\ e \in Addr
      /\ \A x \in Addr : sz[x] = h.hdr[x].size
      /\ h.largest \in Nat /\ h.pages \in Nat
  BY <1>1, Views, Bounds, HeapAssumption DEF HeapType
<1>3. mem_grow(h) = r
  BY DEF mem_grow
<1>4. ASSUME NEW g, g = G, GrowsAt(h, a), OffList(g, h, a),
             h.largest = 0 \/ g.nx[a] = NoLink \/ Unlinked(g, a)
      PROVE  Growth(mem_grow(h), h, a)
  <2>1. Grown(r, h, g, a)
    <3>1. r = forget(coalesce(createEpilogue([g EXCEPT !.pages = @ + 1]), a, PageRows), a)
      BY <1>4
    <3> HIDE DEF r, a, G
    <3>2. Tiling(Sizes(h), Allocs(h), Prevs(h), h.ftr, End(h))
      BY <1>1
    <3> QED
      BY <1>1, <1>4, <3>1, <3>2, FinishGrow
  <2> HIDE DEF r, a, G
  <2>2. FreeBlocks(g) = FreeBlocks(h)
    BY <1>4 DEF OffList, FreeBlocks, Sizes, Allocs, End
  <2> QED
    BY <1>3, <1>4, <2>1, <2>2, GrownGrowth
<1>5. CASE h.hdr[e].prev
  <2>1. a = e /\ G = h
    BY <1>5 DEF grownHeader
  <2>2. e \in Prevs(h)
    BY <1>2, <1>5 DEF Prevs
  <2>3. c = -1
    <3> SUFFICES ASSUME c # -1 PROVE FALSE
      OBVIOUS
    <3>1. c \in F /\ c + sz[c] = e
      <4>1. c \in F /\ c + h.hdr[c].size = e
        BY DEF LastInHand
      <4> QED
        BY <1>2, <4>1
    <3>2. c \in Starts(sz, e) /\ c \notin Allocs(h)
      BY <3>1 DEF FreeBlocks
    <3>3. e \notin Prevs(h)
      BY <1>1, <1>2, <3>1, <3>2, FreeNeighbours
    <3> QED
      BY <2>2, <3>3
  <2>4. e \notin F
    BY <1>2 DEF FreeBlocks, Starts
  <2>5. F \ {c} = F \ {e} /\ F \ {e} = F
    BY <1>2, <2>3, <2>4 DEF Addr
  <2>6. GrowsAt(h, e)
    BY <2>2 DEF GrowsAt
  <2>7. OffList(h, h, e)
    BY <1>1, <2>5 DEF OffList
  <2>8. h.nx[e] = NoLink
    BY <1>1, <1>2, <2>4
  <2> QED
    BY <1>4, <2>1, <2>6, <2>7, <2>8
<1>6. CASE ~h.hdr[e].prev
  <2>1. a = e - h.ftr[e]
    BY <1>6 DEF grownHeader, lastFree
  <2>2. e \notin Prevs(h)
    BY <1>6 DEF Prevs
  <2>3. a \in Starts(sz, e) /\ a \notin Allocs(h) /\ a + sz[a] = e
    <3> HIDE DEF a
    <3> QED
      BY <1>1, <1>2, <2>1, <2>2, FreeBefore
  <2>4. a \in F /\ a \in Addr
    BY <1>2, <2>3 DEF FreeBlocks
  <2>5. TilesAt(sz, Allocs(h), Prevs(h), h.ftr, e, a)
    BY <1>1, <2>3 DEF Tiling
  <2>6. sz[a] >= 2 /\ sz[a] \in Nat
    BY <1>2, <2>4, <2>5 DEF TilesAt, MIN_SZ
  <2>7. a \in Prevs(h)
    BY <1>1, <1>2, <2>3, FreeNeighbours
  <2>8. GrowsAt(h, a)
    BY <2>3, <2>7 DEF GrowsAt
  <2>9. \A x \in F \ {a} : x \in Addr
    BY <1>2
  <2>10. CASE c = -1
    <3>1. F \ {c} = F
      BY <1>2, <2>10 DEF Addr
    <3>2. h.largest > 0
      <4>1. sz[a] <= h.largest
        BY <1>1, <2>4, <3>1
      <4> QED
        BY <1>2, <2>6, <4>1
    <3>3. G = removeHeader(h, a)
      BY <1>6, <3>2
    <3> HIDE DEF G, a
    <3>4. /\ Removed(G, h, a)
          /\ Lists(G.nx, G.pv, F \ {a}, sz)
          /\ G.nx[a] \in (F \ {a}) \cup Sentinels /\ G.pv[a] \in (F \ {a}) \cup Sentinels
          /\ G.nx[G.pv[a]] = G.nx[a] /\ G.pv[G.nx[a]] = G.pv[a]
      <4>1. Lists(h.nx, h.pv, F, sz)
        BY <1>1, <3>1
      <4> HIDE DEF F, sz
      <4>2. Delisted(removeHeader(h, a), h, a, F, sz)
        BY <1>1, <1>2, <2>4, <4>1, ListRemove
      <4> QED
        BY <3>3, <4>2 DEF Delisted
    <3>5. \A x \in Addr : x \notin F => G.nx[x] = NoLink
      <4> SUFFICES ASSUME NEW x \in Addr, x \notin F PROVE G.nx[x] = NoLink
        OBVIOUS
      <4>1. h.pv[a] \in F \cup Sentinels
        BY <1>1, <2>4, <3>1 DEF Lists, Ring
      <4>2. x # h.pv[a] /\ x \in Links
        BY <4>1, NodesAreLinks
      <4> QED
        BY <1>1, <3>4, <4>2 DEF Removed
    <3>6. OffList(G, h, a)
      BY <1>1, <3>1, <3>4, <3>5 DEF OffList, Removed
    <3>7. FreeBlocks(G) = F
      BY <3>4 DEF Removed, FreeBlocks, Sizes, Allocs, End
    <3>8. Unlinked(G, a)
      BY <3>4, <3>7 DEF Unlinked
    <3> QED
      BY <1>4, <2>8, <3>6, <3>8
  <2>11. CASE c # -1
    <3>1. c \in F /\ c + h.hdr[c].size = e /\ (h.largest = 0 \/ h.nx[c] = NoLink \/ Unlinked(h, c))
      BY <2>11 DEF LastInHand
    <3>2. c = a
      <4>1. c \in Starts(sz, e) /\ c + sz[c] = e
        BY <1>2, <3>1 DEF FreeBlocks
      <4>2. c \in Nat /\ a \in Nat /\ sz[c] \in Nat /\ c < e /\ a < e
        <5>1. \A x \in Starts(sz, e) : x \in Nat /\ x < e
          BY <1>2 DEF Starts
        <5>2. c \in Addr
          BY <1>2, <3>1
        <5> HIDE DEF a
        <5> QED
          BY <1>2, <2>3, <4>1, <5>1, <5>2
      <4> HIDE DEF a, sz, e
      <4>3. ~(c < a)
        <5> SUFFICES ASSUME c < a PROVE FALSE
          OBVIOUS
        <5>1. c + sz[c] <= a
          BY <1>1, <1>2, <2>3, <4>1, NoOverlap
        <5> QED
          BY <4>1, <4>2, <5>1
      <4>4. ~(a < c)
        <5> SUFFICES ASSUME a < c PROVE FALSE
          OBVIOUS
        <5>1. a + sz[a] <= c
          BY <1>1, <1>2, <2>3, <4>1, NoOverlap
        <5> QED
          BY <2>3, <2>6, <4>2, <5>1
      <4> QED
        BY <4>2, <4>3, <4>4
    <3>3. CASE h.largest = 0
      <4>1. G = h
        BY <3>3
      <4> HIDE DEF a, G
      <4>2. OffList(h, h, a)
        BY <1>1, <3>2 DEF OffList
      <4> QED
        BY <1>4, <2>8, <3>3, <4>1, <4>2
    <3>4. CASE h.largest # 0
      <4>1. h.largest > 0 /\ a = lastFree(h)
        BY <1>2, <1>6, <3>4 DEF grownHeader
      <4>2. G = removeHeader(h, a) /\ Unlinked(h, a)
        BY <1>6, <3>1, <3>2, <4>1
      <4> HIDE DEF a, G
      <4>3. /\ h.nx[a] \in (F \ {a}) \cup Sentinels /\ h.pv[a] \in (F \ {a}) \cup Sentinels
            /\ h.nx[h.pv[a]] = h.nx[a] /\ h.pv[h.nx[a]] = h.pv[a]
        BY <4>2 DEF Unlinked
      <4>4. h.nx[a] \in Links /\ h.pv[a] \in Links /\ h.pv[a] # a
        BY <2>4, <2>9, <4>3, NodesAreLinks
      <4>5. Removed(G, h, a)
        BY <1>1, <2>4, <4>2, <4>4, RemoveEffect
      <4>6. \A l \in Links : G.nx[l] = h.nx[l] /\ G.pv[l] = h.pv[l]
        BY <4>3, <4>5 DEF Removed
      <4>7. SameOn(F \ {a}, h.nx, h.pv, sz, G.nx, G.pv, sz)
        BY <2>9, <4>6, NodesAreLinks DEF SameOn
      <4>8. Lists(G.nx, G.pv, F \ {a}, sz)
        <5>1. Lists(h.nx, h.pv, F \ {a}, sz) /\ F \ {a} \subseteq Addr
          BY <1>1, <2>9, <3>2
        <5> QED
          BY <4>7, <5>1, SameLists
      <4>9. OffList(G, h, a)
        BY <1>1, <3>2, <4>5, <4>6, <4>8, NodesAreLinks DEF OffList, Removed
      <4>10. FreeBlocks(G) = F
        BY <4>5 DEF Removed, FreeBlocks, Sizes, Allocs, End
      <4>11. Unlinked(G, a)
        <5>1. /\ G.nx[a] = h.nx[a] /\ G.pv[a] = h.pv[a]
              /\ G.nx[h.pv[a]] = h.nx[h.pv[a]] /\ G.pv[h.nx[a]] = h.pv[h.nx[a]]
          BY <2>4, <4>4, <4>6, NodesAreLinks
        <5> QED
          BY <4>3, <4>10, <5>1 DEF Unlinked
      <4> QED
        BY <1>4, <2>8, <4>9, <4>11
    <3> QED
      BY <3>3, <3>4
  <2> QED
    BY <2>10, <2>11
<1> QED
  BY <1>5, <1>6

-----------------------------------------------------------------------------
(* The other ways to take a block off its list and to put it back.         *)

\* g has the blocks of h.
SameBlocks(g, h) ==
    /\ g.pages = h.pages /\ g.hdr = h.hdr
    /\ FreeBlocks(g) = FreeBlocks(h) /\ Used(g) = Used(h) /\ Sizes(g) = Sizes(h)

\* The blocks are those of the headers.
LEMMA SameHeaders ==
    ASSUME NEW g, NEW h, g.pages = h.pages, g.hdr = h.hdr
    PROVE  /\ SameBlocks(g, h) /\ End(g) = End(h)
           /\ Allocs(g) = Allocs(h) /\ Prevs(g) = Prevs(h)
  BY DEF SameBlocks, FreeBlocks, Used, Sizes, Allocs, Prevs, End

\* The first block of a list that is not empty.
LEMMA TakeOK ==
    ASSUME NEW h, HeapOK(h, -1), h.pages > 0, NEW s \in 1..Limit, h.nx[-s] # -s,
           NEW a, a = h.nx[-s]
    PROVE  /\ HeapOK(removeHeader(h, a), a) /\ SameBlocks(removeHeader(h, a), h)
           /\ a \in FreeBlocks(h) /\ Sizes(h)[a] = s
<1> DEFINE sz == Sizes(h)
           F == FreeBlocks(h)
           g == removeHeader(h, a)
<1>1. /\ h \in HeapType /\ Tiling(sz, Allocs(h), Prevs(h), h.ftr, End(h))
      /\ Lists(h.nx, h.pv, F \ {-1}, sz)
      /\ \A x \in F \ {-1} : sz[x] <= h.largest
      /\ \A x \in Addr : x \notin F => h.nx[x] = NoLink
  BY DEF HeapOK, Listed
<1>2. F \subseteq Addr /\ -1 \notin Addr
  BY <1>1, Views DEF Addr
<1>3. Lists(h.nx, h.pv, F, sz)
  <2>1. F \ {-1} = F
    BY <1>2
  <2> QED
    BY <1>1, <2>1
<1>4. \A x \in F : sz[x] <= h.largest
  BY <1>1, <1>2
<1>5. s \in Nat /\ -s \in Sentinels /\ -s < 0
  BY NodesAreLinks, Bounds
<1>6. a \in F \cup Sentinels /\ Class(sz, a) = Class(sz, -s)
  BY <1>3, <1>5 DEF Lists, Ring
<1>7. Class(sz, -s) = s
  BY <1>5 DEF Class
<1>8. a \in F /\ sz[a] = s
  <2>1. ASSUME a \in Sentinels PROVE FALSE
    <3>1. a \in -Limit..-1 /\ Limit \in Nat
      BY <2>1, Bounds DEF Sentinels
    <3>2. a < 0 /\ a \in Int
      BY <3>1
    <3>3. -a = s
      BY <1>6, <1>7, <3>2 DEF Class
    <3> QED
      BY <1>5, <3>2, <3>3
  <2>2. a \in F
    BY <1>6, <2>1
  <2>3. ~(a < 0)
    BY <1>2, <2>2 DEF Addr
  <2> QED
    BY <1>6, <1>7, <2>2, <2>3 DEF Class
<1>9. /\ Removed(g, h, a) /\ Lists(g.nx, g.pv, F \ {a}, sz)
  <2> HIDE DEF F, sz
  <2> QED
    BY <1>1, <1>2, <1>3, <1>8, ListRemove DEF Delisted
<1> HIDE DEF g
<1>10. /\ g \in HeapType /\ g.pages = h.pages /\ g.hdr = h.hdr /\ g.ftr = h.ftr /\ g.largest = h.largest
  BY <1>9 DEF Removed
<1>11. /\ SameBlocks(g, h) /\ End(g) = End(h) /\ Allocs(g) = Allocs(h) /\ Prevs(g) = Prevs(h)
       /\ FreeBlocks(g) = F /\ Sizes(g) = sz
  BY <1>10, SameHeaders DEF SameBlocks
<1>12. \A x \in Addr : x \notin F => g.nx[x] = NoLink
  <2> SUFFICES ASSUME NEW x \in Addr, x \notin F PROVE g.nx[x] = NoLink
    OBVIOUS
  <2>1. h.pv[a] \in F \cup Sentinels
    BY <1>3, <1>8 DEF Lists, Ring
  <2>2. x # h.pv[a] /\ x \in Links
    BY <2>1, NodesAreLinks
  <2> QED
    BY <1>1, <1>9, <2>2 DEF Removed
<1>13. Listed(g, a)
  BY <1>4, <1>9, <1>10, <1>11, <1>12 DEF Listed
<1>14. HeapOK(g, a)
  BY <1>1, <1>10, <1>11, <1>13 DEF HeapOK
<1> QED
  BY <1>8, <1>11, <1>14 DEF g

\* The last block goes back to its list.
LEMMA PutBackOK ==
    ASSUME NEW h, NEW c, HeapOK(h, c), h.pages > 0, LastInHand(h, c),
           NEW g, g = addHeaderToFreeList(h, lastFree(h))
    PROVE  ~h.hdr[End(h)].prev /\ HeapOK(g, -1) /\ SameBlocks(g, h)
<1> DEFINE sz == Sizes(h)
           e == End(h)
           F == FreeBlocks(h)
           k == sz[c]
<1>1. /\ h \in HeapType /\ Tiling(sz, Allocs(h), Prevs(h), h.ftr, e)
      /\ Lists(h.nx, h.pv, F \ {c}, sz)
      /\ \A x \in F \ {c} : sz[x] <= h.largest
      /\ \A x \in Addr : x \notin F => h.nx[x] = NoLink
  BY DEF HeapOK, Listed
<1>2. /\ F \subseteq Addr /\ e \in 2..Limit /\ e \in Addr /\ sz \in [Addr -> Nat]
      /\ \A x \in Addr : sz[x] = h.hdr[x].size
      /\ Limit \in Nat
  BY <1>1, Views, Bounds
<1>3. c \in F /\ c \in Addr /\ c \in Nat /\ c + k = e /\ h.hdr[c].size = k /\ k \in Nat
  <2>1. c \in F /\ c \in Addr /\ c + h.hdr[c].size = e
    BY <1>2 DEF LastInHand
  <2> QED
    BY <1>2, <2>1 DEF Addr
<1>4. c \in Starts(sz, e) /\ c \notin Allocs(h)
  BY <1>3 DEF FreeBlocks
<1>5. e \notin Prevs(h) /\ h.ftr[e] = k
  BY <1>1, <1>2, <1>3, <1>4, FreeNeighbours
<1>6. ~h.hdr[e].prev
  BY <1>2, <1>5 DEF Prevs
<1>7. k >= 2
  <2>1. TilesAt(sz, Allocs(h), Prevs(h), h.ftr, e, c)
    BY <1>1, <1>4 DEF Tiling
  <2> QED
    BY <2>1 DEF TilesAt, MIN_SZ
<1> HIDE DEF k, e
<1>8. k \in 1..Limit /\ lastFree(h) = c
  <2>1. e - k = c /\ k <= e
    BY <1>2, <1>3
  <2> QED
    BY <1>2, <1>3, <1>5, <1>7, <2>1 DEF lastFree, e
<1> DEFINE N == F \ {c}
<1>9. Inserted(g, h, N, c, k, sz)
  <2>1. N \subseteq Addr /\ c \notin N /\ Lists(h.nx, h.pv, N, sz) /\ g = addHeaderToFreeList(h, c)
    BY <1>1, <1>2, <1>8
  <2> HIDE DEF N, sz
  <2> QED
    BY <1>1, <1>3, <1>8, <2>1, ListAdd
<1>10. /\ g \in HeapType /\ g.pages = h.pages /\ g.hdr = h.hdr /\ g.ftr = h.ftr
       /\ g.largest >= h.largest /\ g.largest >= k
       /\ \A x \in Addr : x # c => g.nx[x] = h.nx[x]
       /\ \A s : (s[c] = k /\ \A x \in N : s[x] = sz[x]) => Lists(g.nx, g.pv, N \cup {c}, s)
  BY <1>9 DEF Inserted, Added
<1>11. /\ SameBlocks(g, h) /\ End(g) = End(h) /\ Allocs(g) = Allocs(h) /\ Prevs(g) = Prevs(h)
       /\ FreeBlocks(g) = F /\ Sizes(g) = sz
  BY <1>10, SameHeaders DEF SameBlocks
<1>12. FreeBlocks(g) \ {-1} = N \cup {c}
  BY <1>2, <1>3, <1>11 DEF Addr
<1>13. Lists(g.nx, g.pv, N \cup {c}, sz)
  BY <1>10 DEF k
<1>14. \A x \in N \cup {c} : sz[x] <= g.largest
  <2>1. g.largest \in Nat /\ h.largest \in Nat
    BY <1>1, <1>2, <1>10 DEF HeapType
  <2>2. \A x \in N : sz[x] \in Nat /\ sz[x] <= h.largest
    BY <1>1, <1>2
  <2>3. sz[c] = k
    BY DEF k
  <2> QED
    BY <1>3, <1>10, <2>1, <2>2, <2>3
<1>15. \A x \in Addr : x \notin F => g.nx[x] = NoLink
  BY <1>1, <1>3, <1>10
<1>16. Listed(g, -1)
  BY <1>11, <1>12, <1>13, <1>14, <1>15 DEF Listed
<1>17. HeapOK(g, -1)
  BY <1>1, <1>10, <1>11, <1>16 DEF HeapOK, e
<1> QED
  BY <1>6, <1>11, <1>17 DEF e

-----------------------------------------------------------------------------
(* The steps of the calls.                                                 *)

\* A heap without pages has no blocks.
LEMMA NoBlocks ==
    ASSUME NEW h, NEW c, HeapOK(h, c), h.pages = 0
    PROVE  Used(h) = {} /\ FreeBlocks(h) = {}
<1>1. PageRows \in Nat
  BY Bounds
<1>2. End(h) = -3
  BY <1>1 DEF End
<1>3. Starts(Sizes(h), End(h)) = {}
  BY <1>2 DEF Starts
<1> QED
  BY <1>3 DEF Used, FreeBlocks

\* The blocks in S are the same in g and h.
Kept(g, h, S) == \A x \in S : Sizes(g)[x] = Sizes(h)[x] /\ g.hdr[x].req = h.hdr[x].req

\* What a step of sf_malloc that does not end it makes of the heap h.
CallStep(g, d, h) ==
    HeapOK(g, d.cur) /\ CallOK(g, d) /\ Used(g) = Used(h) /\ Kept(g, h, Used(h))

\* The requests and their block sizes.
LEMMA RequestsAreNat ==
    /\ Requests \subseteq Nat
    /\ \A r \in Requests : getNewSize(r) \in Int /\ (getNewSize(r) >= 2 \/ getNewSize(r) < 0)
  BY HeapAssumption, NewSizeBound

\* The first half of sf_malloc: mem_init, a listed block, or none.
LEMMA StartMallocStep ==
    ASSUME StateOK(heap, call, live, "running"), call = NoCall, NEW size \in Requests,
           NEW old \in DOMAIN live \cup {NoHandle}, StartMalloc(size, old)
    PROVE  \/ exited' = "undefined" /\ UNCHANGED <<heap, call>>
           \/ /\ CallStep(heap', call', heap) /\ call'.old = old
              /\ exited' \in {"running", "undefined"} \cup {exited}
<1> DEFINE n == getNewSize(size)
           fits == Fits(n)
<1>1. HeapOK(heap, -1) /\ heap \in HeapType /\ DOMAIN live \subseteq Handles
  BY DEF StateOK, HeapOK, NoCall, LiveType
<1>2. n \in Int /\ (n >= 2 \/ n < 0) /\ size \in Requests \cup {0} /\ old \in Handles \cup {NoHandle}
  BY <1>1, RequestsAreNat
<1> HIDE DEF n, fits
<1>3. ASSUME NEW a \in Addr, NEW g, HeapOK(g, a), a \in FreeBlocks(g), g.pages > 0,
             g.hdr[a].size < n => LastInHand(g, a), Used(g) = Used(heap), Kept(g, heap, Used(heap)),
             NEW d, d = [size |-> size, old |-> old, cur |-> a, held |-> TRUE]
      PROVE  CallStep(g, d, heap)
  <2>1. d \in CallType /\ d.cur = a /\ d.held /\ d.size = size
    BY <1>2, <1>3 DEF CallType
  <2>2. a # -1
    BY DEF Addr
  <2>3. CallOK(g, d)
    BY <1>3, <2>1, <2>2 DEF CallOK, n
  <2> QED
    BY <1>3, <2>1, <2>3 DEF CallStep
<1>4. CASE /\ heap.pages = 0
           /\ heap' = mem_init(heap)
           /\ call' = [size |-> size, old |-> old, cur |-> 0, held |-> TRUE]
           /\ UNCHANGED exited
  <2>1. Untouched(heap) /\ Used(heap) = {}
    BY <1>1, <1>4, NoBlocks DEF HeapOK
  <2>2. FirstPage(mem_init(heap))
    BY <1>1, <2>1, InitOK
  <2> DEFINE g == mem_init(heap)
  <2> HIDE DEF g
  <2>3. HeapOK(g, 0) /\ g.pages = 1 /\ LastInHand(g, 0) /\ Used(g) = {} /\ 0 \in FreeBlocks(g)
    BY <2>2 DEF FirstPage, LastInHand, g
  <2>4. 0 \in Addr /\ g.pages > 0
    BY <2>3, Bounds DEF Addr
  <2>5. CallStep(g, call', heap)
    BY <1>3, <1>4, <2>1, <2>3, <2>4 DEF Kept
  <2> QED
    BY <1>4, <2>5 DEF g
<1>5. CASE /\ heap.pages > 0 /\ fits # {}
           /\ LET a == heap.nx[-(CHOOSE s \in fits : \A r \in fits : s <= r)] IN
                 /\ heap' = removeHeader(heap, a)
                 /\ call' = [size |-> size, old |-> old, cur |-> a, held |-> TRUE]
           /\ UNCHANGED exited
  <2> DEFINE s == CHOOSE t \in fits : \A r \in fits : t <= r
             a == heap.nx[-s]
             g == removeHeader(heap, a)
  <2>1. fits \subseteq Nat
    BY <1>2, Bounds DEF fits, Fits
  <2>2. \E t \in fits : \A r \in fits : t <= r
    BY <1>5, <2>1, LeastNat
  <2>3. s \in fits
    BY <2>2
  <2> HIDE DEF s
  <2>4. s \in 1..Limit /\ s >= n /\ heap.nx[-s] # -s
    BY <1>2, <2>3, Bounds DEF fits, Fits
  <2>5. /\ HeapOK(g, a) /\ SameBlocks(g, heap)
        /\ a \in FreeBlocks(heap) /\ Sizes(heap)[a] = s
    BY <1>1, <1>5, <2>4, TakeOK
  <2>6. heap' = g /\ call' = [size |-> size, old |-> old, cur |-> a, held |-> TRUE]
    BY <1>5 DEF s
  <2> HIDE DEF g, a
  <2>7. a \in Addr /\ Sizes(heap)[a] = heap.hdr[a].size /\ s \in Nat
    BY <1>1, <2>4, <2>5, Views, Bounds
  <2>8. a \in FreeBlocks(g) /\ g.pages > 0 /\ ~(g.hdr[a].size < n) /\ Used(g) = Used(heap)
        /\ Kept(g, heap, Used(heap))
    BY <1>2, <1>5, <2>4, <2>5, <2>7 DEF SameBlocks, Kept
  <2>9. CallStep(g, call', heap)
    BY <1>3, <2>5, <2>6, <2>7, <2>8
  <2> QED
    BY <1>5, <2>6, <2>9
<1>6. CASE /\ heap.pages > 0 /\ n >= 0 /\ fits = {}
           /\ call' = [size |-> size, old |-> old, cur |-> -1, held |-> FALSE]
           /\ exited' \in IF heap.largest >= n THEN {"running"} ELSE {"running", "undefined"}
           /\ UNCHANGED heap
  <2> DEFINE d == [size |-> size, old |-> old, cur |-> -1, held |-> FALSE]
  <2>1. d \in CallType /\ d.cur = -1 /\ ~d.held /\ d.size = size
    BY <1>2 DEF CallType
  <2>2. n >= 2 /\ \A s \in n..Limit : heap.nx[-s] = -s
    <3>1. n >= 2
      BY <1>2, <1>6
    <3>2. \A s \in n..Limit : s \in 1..Limit /\ 0 <= n /\ n <= s
      BY <1>2, <3>1, Bounds
    <3> QED
      BY <1>6, <3>1, <3>2 DEF fits, Fits
  <2> HIDE DEF d
  <2>3. CallOK(heap, d)
    BY <1>6, <2>1, <2>2 DEF CallOK, n
  <2>4. CallStep(heap, d, heap)
    BY <1>1, <2>1, <2>3 DEF CallStep, Kept
  <2> QED
    BY <1>6, <2>4 DEF d
<1>7. CASE n < 0 /\ exited' = "undefined" /\ UNCHANGED <<heap, call>>
  BY <1>7
<1> QED
  BY <1>4, <1>5, <1>6, <1>7 DEF StartMalloc, n, fits

\* A turn of the loop of sf_malloc in which mem_grow succeeds.
LEMMA GrowStep ==
    ASSUME StateOK(heap, call, live, "running"), call # NoCall, Grow
    PROVE  \/ exited' = "undefined" /\ UNCHANGED <<heap, call>>
           \/ CallStep(heap', call', heap) /\ call'.old = call.old /\ UNCHANGED exited
<1> DEFINE a == grownHeader(heap)
           g == mem_grow(heap)
           d == [size |-> call.size, old |-> call.old, cur |-> a, held |-> TRUE]
<1>1. /\ HeapOK(heap, call.cur) /\ heap \in HeapType /\ call \in CallType
      /\ call.size \in Requests /\ heap.pages > 0
      /\ call.cur # -1 => /\ call.cur \in FreeBlocks(heap)
                          /\ heap.hdr[call.cur].size < getNewSize(call.size) => LastInHand(heap, call.cur)
  BY DEF StateOK, HeapOK, CallOK
<1>2. heap.pages < MaxPages /\ TooSmall
  BY DEF Grow
<1>3. call.cur = -1 \/ LastInHand(heap, call.cur)
  BY <1>1, <1>2 DEF TooSmall
<1>4. CASE ~heap.hdr[End(heap)].prev /\ heap.largest > 0 /\ heap.nx[lastFree(heap)] = NoLink
  BY <1>4 DEF Grow
<1>5. CASE ~(~heap.hdr[End(heap)].prev /\ heap.largest > 0 /\ heap.nx[lastFree(heap)] = NoLink)
  <2>1. Growth(g, heap, a)
    BY <1>1, <1>2, <1>3, <1>5, GrowOK
  <2>2. heap' = g /\ call' = d /\ UNCHANGED exited
    BY <1>5 DEF Grow
  <2> HIDE DEF g, a
  <2>3. /\ HeapOK(g, a) /\ g.pages = heap.pages + 1 /\ LastInHand(g, a)
        /\ Used(g) = Used(heap) /\ Kept(g, heap, Used(heap))
    BY <2>1 DEF Growth, Kept
  <2>4. a \in FreeBlocks(g) /\ a \in Addr /\ a # -1
    <3>1. FreeBlocks(g) \subseteq Addr
      BY <2>3, Views DEF HeapOK
    <3> QED
      BY <2>3, <3>1 DEF LastInHand, Addr
  <2>5. g.pages > 0
    <3>1. heap.pages \in Nat
      BY <1>1, HeapAssumption DEF HeapType
    <3> QED
      BY <1>1, <2>3, <3>1
  <2>6. d \in CallType /\ d.cur = a /\ d.held /\ d.size = call.size /\ d.old = call.old
    BY <1>1, <2>4 DEF CallType
  <2> HIDE DEF d
  <2>7. CallOK(g, d)
    BY <1>1, <2>3, <2>4, <2>5, <2>6 DEF CallOK
  <2>8. CallStep(g, d, heap)
    BY <2>3, <2>6, <2>7 DEF CallStep
  <2> QED
    BY <2>2, <2>6, <2>8
<1> QED
  BY <1>4, <1>5

\* Between two calls nothing is in hand.
LEMMA NoCallOK ==
    ASSUME NEW h
    PROVE  CallOK(h, NoCall) /\ NoCall.cur = -1
<1>1. NoCall \in CallType /\ NoCall.cur = -1
  BY DEF NoCall, CallType
<1> QED
  BY <1>1 DEF CallOK

\* A turn in which mem_grow fails: a block that was in hand goes back on its list.
LEMMA GrowFailsStep ==
    ASSUME StateOK(heap, call, live, "running"), call # NoCall, GrowFails
    PROVE  /\ damaged \in BOOLEAN => damaged' \in BOOLEAN
           /\ ~damaged' => /\ CallStep(heap', call', heap) /\ call' = NoCall
                           /\ exited' \in {exited, "undefined"}
<1>1. /\ HeapOK(heap, call.cur) /\ heap \in HeapType
      /\ heap.pages > 0
      /\ call.cur = -1 => ~call.held
      /\ call.cur # -1 => /\ call.held
                          /\ heap.hdr[call.cur].size < getNewSize(call.size) => LastInHand(heap, call.cur)
  BY DEF StateOK, HeapOK, CallOK
<1>2. TooSmall /\ call' = NoCall
  BY DEF GrowFails
<1>3. call.cur = -1 \/ LastInHand(heap, call.cur)
  BY <1>1, <1>2 DEF TooSmall
<1> DEFINE g == addHeaderToFreeList(heap, lastFree(heap))
<1>4. CASE call.cur = -1
  <2>1. CASE heap.hdr[End(heap)].prev
    <3>1. exited' = "undefined" /\ heap' = heap /\ damaged' = damaged
      BY <2>1 DEF GrowFails
    <3>2. CallStep(heap, NoCall, heap)
      BY <1>1, <1>4, NoCallOK DEF CallStep, Kept
    <3> QED
      BY <1>2, <3>1, <3>2
  <2>2. CASE ~heap.hdr[End(heap)].prev
    <3>1. damaged' = (damaged \/ ~call.held)
      BY <2>2 DEF GrowFails
    <3> QED
      BY <1>1, <1>4, <3>1
  <2> QED
    BY <2>1, <2>2
<1>5. CASE call.cur # -1
  <2>1. LastInHand(heap, call.cur)
    BY <1>3, <1>5
  <2>2. ~heap.hdr[End(heap)].prev /\ HeapOK(g, -1) /\ SameBlocks(g, heap)
    BY <1>1, <2>1, PutBackOK
  <2> HIDE DEF g
  <2>3. CallStep(g, NoCall, heap)
    BY <2>2, NoCallOK DEF CallStep, Kept, SameBlocks
  <2>4. heap' = g /\ exited' = exited /\ damaged' = (damaged \/ ~call.held)
    BY <2>2 DEF GrowFails, g
  <2>5. damaged' \in BOOLEAN
    BY <2>4
  <2> QED
    BY <1>2, <2>3, <2>4, <2>5
<1> QED
  BY <1>4, <1>5

\* What the blocks in use hold: each has the request of its pointer and the
\* bytes for it, unless its size has overflown.
Payload(h, l) ==
    \A i \in DOMAIN l :
        \/ Overflows(l[i].req)
        \/ /\ h.hdr[l[i].at].req = l[i].req
           /\ Sizes(h)[l[i].at] * 16 >= l[i].req + 8

\* The block that the call c of sf_realloc will free has passed sf_abort.
OldHolds(h, c, l) ==
    c.old \in DOMAIN l =>
        Sizes(h)[l[c.old].at] * 16 >= h.hdr[l[c.old].at].req + 8

\* While the process runs, the blocks hold what was asked for; it has been
\* aborted only for a pointer whose block is too small.
Fine(h, c, l, x) ==
    /\ x = "running" => Payload(h, l) /\ OldHolds(h, c, l)
    /\ x = "abort" => \E i \in DOMAIN l : Overflows(l[i].req) /\ ~accepted(h, l[i].at)

\* Without overflow the block for a request holds it.
LEMMA SizesServe ==
    ASSUME NEW r \in Requests, ~Overflows(r)
    PROVE  r % IntSize = r /\ getNewSize(r) * 16 >= r + 8 /\ getNewSize(r) \in Nat
<1> DEFINE q == IntSize \div 32
           d == ((8 + r) + 15) \div 16
<1>1. r \in Nat /\ q \in Nat /\ q >= 6 /\ IntSize = 32 * q /\ IntSize \div 2 = 16 * q
  BY IntRows, HeapAssumption
<1>2. r + 23 < 16 * q
  BY <1>1 DEF Overflows
<1> HIDE DEF q
<1>3. r % IntSize = r
  <2>1. r \in 0..(IntSize - 1) /\ IntSize \in Nat \ {0}
    BY <1>1, <1>2
  <2> QED
    BY <2>1
<1>4. ToInt(8 + r) = 8 + r
  <2>1. 8 + r \in (-16 * q)..(16 * q - 1)
    BY <1>1, <1>2
  <2> QED
    BY <1>1, <2>1, ConvertRows DEF q
<1>5. d \in Nat /\ d * 16 >= r + 8 /\ d * 16 < 16 * q
  BY <1>1, <1>2
<1> HIDE DEF d
<1>6. ToInt(d * 16) = d * 16 /\ (d * 16) \div 16 = d
  <2>1. d * 16 \in (-16 * q)..(16 * q - 1)
    BY <1>1, <1>5
  <2> QED
    BY <1>1, <1>5, <2>1, ConvertRows DEF q
<1>7. getNewSize(r) = IF 8 + r > 32 THEN d ELSE 2
  BY <1>4, <1>6 DEF getNewSize, MIN_SZ, d
<1>8. CASE 8 + r > 32
  BY <1>3, <1>5, <1>7, <1>8
<1>9. CASE ~(8 + r > 32)
  BY <1>1, <1>3, <1>7, <1>9
<1> QED
  BY <1>8, <1>9

\* sf_abort returns for a block in use that holds its request.
LEMMA AcceptedOK ==
    ASSUME NEW h, NEW c, HeapOK(h, c), h.pages > 0, NEW a \in Used(h),
           Sizes(h)[a] * 16 >= h.hdr[a].req + 8
    PROVE  accepted(h, a)
<1>1. h \in HeapType /\ Tiling(Sizes(h), Allocs(h), Prevs(h), h.ftr, End(h))
  BY DEF HeapOK
<1>2. a \in Starts(Sizes(h), End(h)) /\ a \in Allocs(h)
  BY DEF Used
<1>3. End(h) \in 2..Limit /\ Sizes(h)[a] = h.hdr[a].size /\ a \in Addr
  BY <1>1, <1>2, Views, Bounds DEF Starts, Addr
<1>4. a < End(h)
  BY <1>2, <1>3 DEF Starts
<1>5. TilesAt(Sizes(h), Allocs(h), Prevs(h), h.ftr, End(h), a)
  BY <1>1, <1>2 DEF Tiling
<1>6. h.hdr[a].size >= MIN_SZ
  BY <1>3, <1>5 DEF TilesAt
<1> QED
  BY <1>2, <1>3, <1>4, <1>6 DEF accepted, Allocs

\* The pointers l with the block a for the handle i.
With(l, i, a, size) ==
    [j \in DOMAIN l \cup {i} |-> IF j = i THEN [at |-> a, req |-> size] ELSE l[j]]

\* m has the pointers l, and a for the handle i.
Joined(m, l, i, a, size) ==
    /\ DOMAIN m = DOMAIN l \cup {i} /\ m[i].at = a /\ m[i].req = size
    /\ \A j \in DOMAIN l : j # i => m[j] = l[j]

\* The pointers with one more.
LEMMA LiveWith ==
    ASSUME NEW l, LiveType(l), NEW i \in Handles, NEW a \in Addr, NEW size \in Requests
    PROVE  LiveType(With(l, i, a, size)) /\ Joined(With(l, i, a, size), l, i, a, size)
  BY DEF LiveType, With, Joined

\* The block a, which no other pointer has, is now that of handle i.
LEMMA LivePlaced ==
    ASSUME NEW h, NEW c, NEW l, LiveType(l), LiveOK(h, c, l),
           NEW i \in Handles, NEW a \in Addr, NEW size \in Requests, a \notin Used(h),
           NEW g, Used(g) = {l[j].at : j \in DOMAIN l \ {i}} \cup {a}
    PROVE  LiveOK(g, NoCall, With(l, i, a, size))
<1> DEFINE m == With(l, i, a, size)
<1>1. /\ LiveType(m) /\ DOMAIN m = DOMAIN l \cup {i}
      /\ m[i].at = a /\ m[i].req = size
      /\ \A j \in DOMAIN l : j # i => m[j] = l[j]
  BY LiveWith DEF Joined
<1> HIDE DEF m
<1>2. \A j \in DOMAIN l : l[j].at \in Used(h) /\ l[j].at # a
  BY DEF LiveOK
<1>3. {m[j].at : j \in DOMAIN m} = {l[j].at : j \in DOMAIN l \ {i}} \cup {a}
  BY <1>1
<1>4. \A j, k \in DOMAIN m : j # k => m[j].at # m[k].at
  <2> SUFFICES ASSUME NEW j \in DOMAIN m, NEW k \in DOMAIN m, j # k PROVE m[j].at # m[k].at
    OBVIOUS
  <2>1. CASE j = i
    BY <1>1, <1>2, <2>1
  <2>2. CASE k = i
    BY <1>1, <1>2, <2>2
  <2>3. CASE j # i /\ k # i
    BY <1>1, <2>3 DEF LiveOK
  <2> QED
    BY <2>1, <2>2, <2>3
<1> QED
  BY <1>3, <1>4 DEF LiveOK, m

\* A pointer has gone.
LEMMA LiveFreed ==
    ASSUME NEW h, NEW c, NEW l, LiveType(l), LiveOK(h, c, l), NEW i \in DOMAIN l,
           NEW g, Used(g) = Used(h) \ {l[i].at}, NEW m, m = [j \in DOMAIN l \ {i} |-> l[j]]
    PROVE  LiveType(m) /\ LiveOK(g, NoCall, m)
<1>1. DOMAIN m = DOMAIN l \ {i} /\ \A j \in DOMAIN m : m[j] = l[j]
  OBVIOUS
<1>2. LiveType(m)
  BY DEF LiveType
<1>3. {m[j].at : j \in DOMAIN m} = Used(h) \ {l[i].at}
  <2>1. {m[j].at : j \in DOMAIN m} = {l[j].at : j \in DOMAIN l \ {i}}
    BY <1>1
  <2>2. \A j \in DOMAIN l \ {i} : l[j].at # l[i].at /\ l[j].at \in Used(h)
    BY DEF LiveOK
  <2>3. \A x \in Used(h) \ {l[i].at} : \E j \in DOMAIN l \ {i} : l[j].at = x
    <3>1. \A x \in Used(h) : \E j \in DOMAIN l : l[j].at = x
      BY DEF LiveOK
    <3> QED
      BY <3>1
  <2> QED
    BY <2>1, <2>2, <2>3
<1>4. \A j, k \in DOMAIN m : j # k => m[j].at # m[k].at
  BY <1>1 DEF LiveOK
<1> QED
  BY <1>2, <1>3, <1>4 DEF LiveOK

\* The program can go on with the heap g, the call d and the pointers m, which
\* a step has made of h, c and l.
StepGood(h, c, l, g, d, m, y) ==
    StateOK(g, d, m, y) /\ (Payload(h, l) /\ OldHolds(h, c, l) => Fine(g, d, m, y))

\* A step within sf_malloc does not touch what the program owns.
LEMMA CallStepGood ==
    ASSUME NEW h, NEW c, NEW l, LiveType(l), LiveOK(h, c, l),
           NEW g, NEW d, CallStep(g, d, h), d # NoCall => d.old \in DOMAIN l \cup {NoHandle},
           OldHolds(h, c, l) => OldHolds(h, d, l), NEW y \in {"running", "undefined"}
    PROVE  StepGood(h, c, l, g, d, l, y)
<1>1. HeapOK(g, d.cur) /\ CallOK(g, d) /\ Used(g) = Used(h) /\ Kept(g, h, Used(h))
  BY DEF CallStep
<1>2. LiveOK(g, d, l)
  BY <1>1 DEF LiveOK
<1>3. StateOK(g, d, l, y)
  BY <1>1, <1>2 DEF StateOK
<1>4. ASSUME Payload(h, l), OldHolds(h, c, l) PROVE Payload(g, l) /\ OldHolds(g, d, l)
  <2>1. \A i \in DOMAIN l : l[i].at \in Used(h)
    BY DEF LiveOK
  <2>2. Payload(g, l)
    BY <1>1, <1>4, <2>1 DEF Payload, Kept
  <2>3. OldHolds(g, d, l)
    BY <1>1, <1>4, <2>1 DEF OldHolds, Kept
  <2> QED
    BY <2>2, <2>3
<1>5. y # "abort"
  OBVIOUS
<1> QED
  BY <1>3, <1>4, <1>5 DEF StepGood, Fine

\* A step without a defined outcome leaves nothing to claim.
LEMMA UndefinedGood ==
    ASSUME NEW h, NEW c, NEW l, StateOK(h, c, l, "running")
    PROVE  StepGood(h, c, l, h, c, l, "undefined")
  BY DEF StateOK, StepGood, Fine

\* A block that holds what was asked for is not aborted.
LEMMA AbortGood ==
    ASSUME NEW h, NEW c, NEW l, HeapOK(h, -1), h.pages > 0, LiveType(l), LiveOK(h, c, l),
           NEW i \in DOMAIN l, Payload(h, l), ~Overflows(l[i].req)
    PROVE  accepted(h, l[i].at)
<1>1. l[i].at \in Used(h)
  BY DEF LiveOK
<1>2. Sizes(h)[l[i].at] * 16 >= h.hdr[l[i].at].req + 8
  BY DEF Payload
<1> QED
  BY <1>1, <1>2, AcceptedOK

\* Between two calls no block waits for sf_realloc to free it.
LEMMA OldNone ==
    ASSUME NEW h, NEW l, LiveType(l)
    PROVE  OldHolds(h, NoCall, l)
<1>1. NoCall.old = NoHandle /\ NoHandle \notin DOMAIN l
  BY HeapAssumption DEF NoCall, LiveType
<1> QED
  BY <1>1 DEF OldHolds

\* sf_free of a pointer of the program.
LEMMA FreeGood ==
    ASSUME StateOK(heap, call, live, "running"), call = NoCall, exited = "running",
           NEW i \in DOMAIN live, Free(i)
    PROVE  StepGood(heap, call, live, heap', call', live', exited')
<1> DEFINE a == live[i].at
           g == release(heap, a)
           m == [j \in DOMAIN live \ {i} |-> live[j]]
<1>1. HeapOK(heap, -1) /\ LiveType(live) /\ LiveOK(heap, call, live) /\ CallOK(heap, NoCall)
      /\ call' = NoCall /\ NoCall.cur = -1
  BY NoCallOK DEF StateOK, Free
<1>2. a \in Used(heap)
  BY <1>1 DEF LiveOK
<1>3. heap.pages > 0
  <2>1. heap.pages \in Nat
    BY <1>1, HeapAssumption DEF HeapOK, HeapType
  <2>2. heap.pages # 0
    BY <1>1, <1>2, NoBlocks
  <2> QED
    BY <2>1, <2>2
<1>4. CASE accepted(heap, a)
  <2>1. heap' = g /\ live' = m /\ exited' = "running"
    BY <1>4 DEF Free
  <2>2. HeapOK(g, -1) /\ Released(g, heap, a)
    BY <1>1, <1>2, <1>3, ReleaseOK
  <2> HIDE DEF g
  <2>3. LiveType(m) /\ LiveOK(g, NoCall, m)
    <3>1. Used(g) = Used(heap) \ {live[i].at}
      BY <2>2 DEF Released
    <3> QED
      BY <1>1, <3>1, LiveFreed
  <2>4. DOMAIN m = DOMAIN live \ {i} /\ \A j \in DOMAIN m : m[j] = live[j]
    OBVIOUS
  <2> HIDE DEF m
  <2>5. StateOK(g, NoCall, m, "running")
    BY <1>1, <2>2, <2>3, NoCallOK DEF StateOK
  <2>6. ASSUME Payload(heap, live) PROVE Payload(g, m)
    <3>1. \A j \in DOMAIN m : live[j].at \in Used(heap) \ {a}
      BY <1>1, <2>4 DEF LiveOK
    <3>2. \A x \in Used(heap) \ {a} : Sizes(g)[x] = Sizes(heap)[x] /\ g.hdr[x].req = heap.hdr[x].req
      BY <2>2 DEF Released
    <3> HIDE DEF a
    <3> QED
      BY <2>4, <2>6, <3>1, <3>2 DEF Payload
  <2>7. StepGood(heap, call, live, g, NoCall, m, "running")
    BY <2>3, <2>5, <2>6, OldNone DEF StepGood, Fine
  <2> QED
    BY <1>1, <2>1, <2>7
<1>5. CASE ~accepted(heap, a)
  <2>1. exited' = "abort" /\ heap' = heap /\ live' = live
    BY <1>5 DEF Free
  <2>2. StateOK(heap, NoCall, live, "abort")
    BY <1>1 DEF StateOK
  <2>3. Payload(heap, live) => Overflows(live[i].req)
    BY <1>1, <1>3, <1>5, AbortGood
  <2> HIDE DEF a
  <2>4. StepGood(heap, call, live, heap, NoCall, live, "abort")
    BY <1>5, <2>2, <2>3 DEF a, StepGood, Fine
  <2> QED
    BY <1>1, <2>1, <2>4
<1> QED
  BY <1>4, <1>5

\* The end of sf_malloc, and of a sf_realloc that frees the old block.
LEMMA PlaceGood ==
    ASSUME StateOK(heap, call, live, "running"), call # NoCall, exited = "running", Place
    PROVE  StepGood(heap, call, live, heap', call', live', exited')
<1> DEFINE a == call.cur
           size == call.size
           o == call.old
           b == live[o].at
           g == allocate(heap, a, size)
           r == release(g, b)
<1>1. /\ HeapOK(heap, a) /\ LiveType(live) /\ LiveOK(heap, call, live)
      /\ size \in Requests /\ size \in Nat /\ heap.pages > 0
      /\ a # -1 => a \in FreeBlocks(heap)
      /\ o \in DOMAIN live \cup {NoHandle}
      /\ call' = NoCall
  BY RequestsAreNat DEF StateOK, CallOK, LiveOK, Place
<1>2. ~((IF a = -1 THEN 0 ELSE heap.hdr[a].size) < getNewSize(size))
  BY DEF Place, TooSmall
<1>3. getNewSize(size) \in Int
  BY <1>1, RequestsAreNat
<1>4. a # -1
  <2>1. a = -1 => getNewSize(size) >= 2
    BY DEF StateOK, CallOK
  <2> QED
    BY <1>2, <1>3, <2>1
<1>5. /\ a \in FreeBlocks(heap) /\ a \in Addr /\ heap \in HeapType
      /\ Sizes(heap)[a] \in Nat /\ Sizes(heap)[a] = heap.hdr[a].size
  <2>1. heap \in HeapType
    BY <1>1 DEF HeapOK
  <2> QED
    BY <1>1, <1>4, <2>1, Views
<1>6. Sizes(heap)[a] >= getNewSize(size)
  BY <1>2, <1>3, <1>4, <1>5
<1> HIDE DEF a, size, o
<1>7. HeapOK(g, -1) /\ Serves(g, heap, a, size)
  <2>1. CASE splitSize(Sizes(heap)[a], getNewSize(size)) >= MIN_SZ
    BY <1>1, <1>5, <2>1, AllocatePart
  <2>2. CASE ~(splitSize(Sizes(heap)[a], getNewSize(size)) >= MIN_SZ)
    BY <1>1, <1>5, <1>6, <2>2, AllocateWhole
  <2> QED
    BY <2>1, <2>2
<1> DEFINE ok == accepted(g, b)
<1>8. /\ heap' = IF o # NoHandle /\ ok THEN r ELSE g
      /\ exited' = IF o # NoHandle => ok THEN "running" ELSE "abort"
      /\ \E i \in IF o # NoHandle THEN {o} ELSE Handles \ DOMAIN live :
             live' = With(live, i, a, size)
  <2>1. /\ heap' = IF o # NoHandle /\ (o # NoHandle => ok) THEN r ELSE g
        /\ exited' = IF o # NoHandle => ok THEN exited ELSE "abort"
        /\ \E i \in IF o # NoHandle THEN {o} ELSE Handles \ DOMAIN live :
               live' = [j \in DOMAIN live \cup {i} |->
                           IF j = i THEN [at |-> a, req |-> size] ELSE live[j]]
    BY DEF Place, a, size, o
  <2> HIDE DEF r, g, ok
  <2> QED
    BY <2>1 DEF With
<1> HIDE DEF g
<1>9. /\ g.pages = heap.pages /\ Used(g) = Used(heap) \cup {a}
      /\ Sizes(g)[a] >= getNewSize(size) /\ g.hdr[a].req = size % IntSize
      /\ \A x \in Used(heap) \ {a} : Sizes(g)[x] = Sizes(heap)[x] /\ g.hdr[x].req = heap.hdr[x].req
      /\ Sizes(g)[a] \in Nat
  <2>1. g \in HeapType
    BY <1>7 DEF HeapOK
  <2>2. Sizes(g)[a] \in Nat
    BY <1>5, <2>1, Views
  <2> QED
    BY <1>7, <2>2 DEF Serves, Allocated
<1>10. a \notin Used(heap) /\ \A j \in DOMAIN live : live[j].at \in Used(heap)
  BY <1>1, <1>5 DEF FreeBlocks, Used, LiveOK
<1>11. ~Overflows(size) => g.hdr[a].req = size /\ Sizes(g)[a] * 16 >= size + 8
  <2> SUFFICES ASSUME ~Overflows(size) PROVE g.hdr[a].req = size /\ Sizes(g)[a] * 16 >= size + 8
    OBVIOUS
  <2>1. size % IntSize = size /\ getNewSize(size) * 16 >= size + 8 /\ getNewSize(size) \in Nat
    BY <1>1, SizesServe
  <2> DEFINE s == Sizes(g)[a]
             n == getNewSize(size)
  <2>2. s \in Nat /\ n \in Nat /\ s >= n /\ n * 16 >= size + 8
    BY <1>3, <1>9, <2>1
  <2> HIDE DEF s, n
  <2>3. s * 16 >= size + 8
    BY <1>1, <2>2
  <2> QED
    BY <1>9, <2>1, <2>3 DEF s
<1>12. CASE o = NoHandle
  <2>1. heap' = g /\ exited' = "running" /\ \E i \in Handles \ DOMAIN live : live' = With(live, i, a, size)
    BY <1>8, <1>12
  <2>2. PICK i \in Handles \ DOMAIN live : live' = With(live, i, a, size)
    BY <2>1
  <2> DEFINE m == With(live, i, a, size)
  <2>3. /\ LiveType(m) /\ DOMAIN m = DOMAIN live \cup {i} /\ m[i].at = a /\ m[i].req = size
        /\ \A j \in DOMAIN live : j # i => m[j] = live[j]
    <3>1. LiveType(m) /\ Joined(m, live, i, a, size)
      BY <1>1, <1>5, LiveWith
    <3> QED
      BY <3>1 DEF Joined
  <2>4. LiveOK(g, NoCall, m)
    <3>1. DOMAIN live \ {i} = DOMAIN live
      OBVIOUS
    <3>2. Used(g) = {live[j].at : j \in DOMAIN live \ {i}} \cup {a}
      BY <1>1, <1>9, <3>1 DEF LiveOK
    <3> QED
      BY <1>1, <1>5, <1>10, <3>2, LivePlaced
  <2> HIDE DEF m
  <2>5. StateOK(g, NoCall, m, "running")
    BY <1>7, <2>3, <2>4, NoCallOK DEF StateOK
  <2>6. ASSUME Payload(heap, live) PROVE Payload(g, m)
    <3>1. \A j \in DOMAIN live : live[j].at \in Used(heap) \ {a}
      BY <1>10
    <3>2. \A j \in DOMAIN m : j = i \/ (j \in DOMAIN live /\ m[j] = live[j])
      BY <2>3
    <3> QED
      BY <1>9, <1>11, <2>3, <2>6, <3>1, <3>2 DEF Payload
  <2>7. StepGood(heap, call, live, g, NoCall, m, "running")
    BY <2>3, <2>5, <2>6, OldNone DEF StepGood, Fine
  <2> QED
    BY <1>1, <2>1, <2>2, <2>7 DEF m
<1>13. CASE o # NoHandle
  <2>1. o \in DOMAIN live /\ b \in Used(heap) /\ b # a /\ b \in Used(g) /\ o \in Handles
    BY <1>1, <1>9, <1>10, <1>13 DEF LiveType
  <2>2. live' = With(live, o, a, size)
    BY <1>8, <1>13
  <2> DEFINE m == With(live, o, a, size)
  <2>3. /\ LiveType(m) /\ DOMAIN m = DOMAIN live \cup {o} /\ m[o].at = a /\ m[o].req = size
        /\ \A j \in DOMAIN live : j # o => m[j] = live[j]
    <3>1. LiveType(m) /\ Joined(m, live, o, a, size)
      BY <1>1, <1>5, <2>1, LiveWith
    <3> QED
      BY <3>1 DEF Joined
  <2>4. CASE ok
    <3>1. heap' = r /\ exited' = "running"
      BY <1>8, <1>13, <2>4
    <3>2. HeapOK(r, -1) /\ Released(r, g, b)
      BY <1>1, <1>7, <1>9, <2>1, ReleaseOK
    <3> HIDE DEF r
    <3>3. Used(r) = {live[j].at : j \in DOMAIN live \ {o}} \cup {a}
      <4>1. Used(r) = (Used(heap) \cup {a}) \ {b}
        BY <1>9, <3>2 DEF Released
      <4>2. Used(heap) \ {b} = {live[j].at : j \in DOMAIN live \ {o}}
        <5>1. \A j \in DOMAIN live \ {o} : live[j].at # b /\ live[j].at \in Used(heap)
          BY <1>1, <1>10, <2>1 DEF LiveOK
        <5>2. \A x \in Used(heap) \ {b} : \E j \in DOMAIN live \ {o} : live[j].at = x
          <6>1. \A x \in Used(heap) : \E j \in DOMAIN live : live[j].at = x
            BY <1>1 DEF LiveOK
          <6> QED
            BY <6>1
        <5> HIDE DEF b
        <5> QED
          BY <5>1, <5>2
      <4> HIDE DEF b
      <4> QED
        BY <2>1, <4>1, <4>2
    <3>4. LiveOK(r, NoCall, m)
      BY <1>1, <1>5, <1>10, <2>1, <3>3, LivePlaced
    <3> HIDE DEF m
    <3>5. StateOK(r, NoCall, m, "running")
      BY <2>3, <3>2, <3>4, NoCallOK DEF StateOK
    <3>6. ASSUME Payload(heap, live) PROVE Payload(r, m)
      <4>1. \A j \in DOMAIN m : j = o \/ (j \in DOMAIN live /\ j # o /\ m[j] = live[j])
        BY <2>3
      <4>2. \A j \in DOMAIN live : j # o => live[j].at \in Used(heap) \ {a} /\ live[j].at # b
        BY <1>1, <1>10, <2>1 DEF LiveOK
      <4>3. \A x \in Used(g) \ {b} : Sizes(r)[x] = Sizes(g)[x] /\ r.hdr[x].req = g.hdr[x].req
        BY <3>2 DEF Released
      <4>4. a \in Used(g) \ {b}
        BY <1>9, <2>1
      <4>5. \A x \in Used(heap) \ {a} : x # b =>
              Sizes(r)[x] = Sizes(heap)[x] /\ r.hdr[x].req = heap.hdr[x].req
        BY <1>9, <4>3
      <4> HIDE DEF b
      <4>6. ASSUME NEW j \in DOMAIN m, j = o
            PROVE  \/ Overflows(m[j].req)
                   \/ r.hdr[m[j].at].req = m[j].req /\ Sizes(r)[m[j].at] * 16 >= m[j].req + 8
        BY <1>11, <2>3, <3>6, <4>3, <4>4, <4>6
      <4>7. ASSUME NEW j \in DOMAIN m, j # o
            PROVE  \/ Overflows(m[j].req)
                   \/ r.hdr[m[j].at].req = m[j].req /\ Sizes(r)[m[j].at] * 16 >= m[j].req + 8
        BY <3>6, <4>1, <4>2, <4>5, <4>7 DEF Payload
      <4> QED
        BY <4>6, <4>7 DEF Payload
    <3>7. StepGood(heap, call, live, r, NoCall, m, "running")
      BY <2>3, <3>5, <3>6, OldNone DEF StepGood, Fine
    <3> QED
      BY <1>1, <2>2, <3>1, <3>7 DEF m
  <2>5. CASE ~ok
    <3>1. heap' = g /\ exited' = "abort"
      BY <1>8, <1>13, <2>5
    <3> HIDE DEF m
    <3>2. StateOK(g, NoCall, m, "abort")
      BY <1>7, <2>3, NoCallOK DEF StateOK
    <3>3. ~OldHolds(heap, call, live)
      <4> SUFFICES ASSUME OldHolds(heap, call, live) PROVE FALSE
        OBVIOUS
      <4>1. Sizes(heap)[b] * 16 >= heap.hdr[b].req + 8
        BY <2>1 DEF OldHolds, o
      <4>2. Sizes(g)[b] = Sizes(heap)[b] /\ g.hdr[b].req = heap.hdr[b].req
        BY <1>9, <2>1
      <4>3. Sizes(g)[b] * 16 >= g.hdr[b].req + 8
        BY <4>1, <4>2
      <4> QED
        BY <1>1, <1>7, <1>9, <2>1, <2>5, <4>3, AcceptedOK
    <3> QED
      BY <1>1, <2>2, <3>1, <3>2, <3>3 DEF m, StepGood
  <2> QED
    BY <2>4, <2>5
<1> QED
  BY <1>12, <1>13

\* sf_realloc to a smaller request.
LEMMA ShrinkGood ==
    ASSUME StateOK(heap, call, live, "running"), call = NoCall, exited = "running",
           NEW i \in DOMAIN live, NEW size \in Requests, heap.hdr[live[i].at].req > size,
           accepted(heap, live[i].at), Shrink(i, size)
    PROVE  StepGood(heap, call, live, heap', call', live', exited')
<1> DEFINE a == live[i].at
           g == shrink(heap, a, size)
           m == [live EXCEPT ![i].req = size]
<1>1. /\ HeapOK(heap, -1) /\ heap \in HeapType /\ LiveType(live) /\ LiveOK(heap, call, live)
      /\ size \in Nat
      /\ heap' = g /\ live' = m /\ call' = NoCall /\ exited' = "running"
  BY NoCallOK, RequestsAreNat DEF StateOK, HeapOK, Shrink
<1>2. a \in Used(heap) /\ a \in Addr
  <2>1. a \in Used(heap)
    BY <1>1 DEF LiveOK
  <2> QED
    BY <1>1, <2>1 DEF LiveType
<1>3. heap.pages > 0
  <2>1. heap.pages \in Nat
    BY <1>1, HeapAssumption DEF HeapType
  <2>2. heap.pages # 0
    BY <1>1, <1>2, NoBlocks
  <2> QED
    BY <2>1, <2>2
<1>4. HeapOK(g, -1) /\ Shrunk(g, heap, a, size)
  BY <1>1, <1>2, <1>3, ShrinkOK
<1> HIDE DEF g
<1>5. /\ DOMAIN m = DOMAIN live /\ LiveType(m) /\ m[i].at = a /\ m[i].req = size
      /\ \A j \in DOMAIN live : j # i => m[j] = live[j]
  BY <1>1 DEF LiveType
<1> HIDE DEF m
<1>6. LiveOK(g, NoCall, m)
  <2>1. \A j \in DOMAIN live : m[j].at = live[j].at
    BY <1>5
  <2>2. {m[j].at : j \in DOMAIN m} = {live[j].at : j \in DOMAIN live}
    BY <1>5, <2>1
  <2> QED
    BY <1>1, <1>4, <1>5, <2>1, <2>2 DEF LiveOK, Shrunk
<1>7. StateOK(g, NoCall, m, "running")
  BY <1>4, <1>5, <1>6, NoCallOK DEF StateOK
<1>8. ASSUME Payload(heap, live) PROVE Payload(g, m)
  <2>1. Overflows(size) \/ Sizes(g)[a] * 16 >= size + 8
    <3>1. Sizes(heap)[a] \in Nat /\ heap.hdr[a].req \in Nat
      BY <1>1, <1>2, Views DEF HeapType, Header
    <3>2. Sizes(heap)[a] * 16 >= heap.hdr[a].req + 8
      BY <1>1, <1>2, Views DEF accepted
    <3>3. Sizes(heap)[a] * 16 >= size + 8
      <4> DEFINE s == Sizes(heap)[a]
                 r == heap.hdr[a].req
      <4>1. s \in Nat /\ r \in Nat /\ s * 16 >= r + 8 /\ r > size
        BY <3>1, <3>2
      <4> HIDE DEF s, r
      <4>2. s * 16 >= size + 8
        BY <1>1, <4>1
      <4> QED
        BY <4>2 DEF s
    <3>4. Overflows(size) \/ getNewSize(size) * 16 >= size + 8
      BY SizesServe
    <3> QED
      BY <1>4, <3>3, <3>4 DEF Shrunk
  <2>2. \A j \in DOMAIN live : j # i => live[j].at \in Used(heap) \ {a}
    BY <1>1 DEF LiveOK
  <2>3. \A x \in Used(heap) \ {a} : Sizes(g)[x] = Sizes(heap)[x] /\ g.hdr[x].req = heap.hdr[x].req
    BY <1>4 DEF Shrunk
  <2>4. g.hdr[a].req = size
    BY <1>4 DEF Shrunk
  <2> HIDE DEF a
  <2> SUFFICES ASSUME NEW j \in DOMAIN m
               PROVE  \/ Overflows(m[j].req)
                      \/ g.hdr[m[j].at].req = m[j].req /\ Sizes(g)[m[j].at] * 16 >= m[j].req + 8
    BY DEF Payload
  <2>5. CASE j = i
    BY <1>5, <2>1, <2>4, <2>5
  <2>6. CASE j # i
    BY <1>5, <1>8, <2>2, <2>3, <2>6 DEF Payload
  <2> QED
    BY <2>5, <2>6
<1>9. StepGood(heap, call, live, g, NoCall, m, "running")
  BY <1>5, <1>7, <1>8, OldNone DEF StepGood, Fine
<1> QED
  BY <1>1, <1>9

-----------------------------------------------------------------------------
(* The invariant.                                                          *)

\* No call aborts a pointer whose block holds its request, and while the process
\* runs the blocks hold what was asked for.
PayloadInvariant == ~damaged => Fine(heap, call, live, exited)

\* A block of the program is one of the heap.
LEMMA PointerIsBlock ==
    ASSUME StateOK(heap, call, live, "running"), NEW i \in DOMAIN live
    PROVE  heap.pages > 0 /\ live[i].at \in Used(heap) /\ heap.hdr[live[i].at].req \in Nat
<1>1. HeapOK(heap, call.cur) /\ heap \in HeapType /\ LiveType(live) /\ LiveOK(heap, call, live)
  BY DEF StateOK, HeapOK
<1>2. live[i].at \in Used(heap) /\ live[i].at \in Addr
  BY <1>1 DEF LiveOK, LiveType
<1>3. heap.pages \in Nat
  BY <1>1, HeapAssumption DEF HeapType
<1>4. heap.pages # 0
  BY <1>1, <1>2, NoBlocks
<1>5. heap.hdr[live[i].at].req \in Nat
  BY <1>1, <1>2 DEF HeapType, Header
<1> QED
  BY <1>2, <1>3, <1>4, <1>5

\* sf_realloc, one step per branch.
LEMMA ReallocGood ==
    ASSUME StateOK(heap, call, live, "running"), NEW i, NEW size \in Requests \cup {0},
           Realloc(i, size)
    PROVE  /\ exited = "running" /\ UNCHANGED damaged
           /\ StepGood(heap, call, live, heap', call', live', exited')
<1> DEFINE a == live[i].at
<1>1. /\ exited = "running" /\ call = NoCall /\ i \in DOMAIN live
      /\ HeapOK(heap, -1) /\ LiveType(live) /\ LiveOK(heap, call, live)
  BY NoCallOK DEF Realloc, Idle, StateOK
<1>2. heap.pages > 0 /\ a \in Used(heap) /\ heap.hdr[a].req \in Nat
  BY <1>1, PointerIsBlock
<1>3. size \in Nat
  BY RequestsAreNat
<1>4. CASE ~accepted(heap, a) /\ exited' = "abort" /\ UNCHANGED <<heap, live, call, damaged>>
  <2>1. Payload(heap, live) => Overflows(live[i].req)
    BY <1>1, <1>2, <1>4, AbortGood
  <2>2. StateOK(heap, call, live, "abort")
    BY DEF StateOK
  <2> HIDE DEF a
  <2>3. StepGood(heap, call, live, heap, call, live, "abort")
    BY <1>1, <1>4, <2>1, <2>2 DEF a, StepGood, Fine
  <2> QED
    BY <1>1, <1>4, <2>3
<1>5. CASE accepted(heap, a) /\ size = 0 /\ Free(i)
  <2>1. UNCHANGED damaged
    BY <1>5 DEF Free
  <2> QED
    BY <1>1, <1>5, <2>1, FreeGood
<1>6. CASE accepted(heap, a) /\ heap.hdr[a].req < size /\ StartMalloc(size, i)
  <2>1. size \in Requests
    BY <1>2, <1>3, <1>6
  <2>2. \/ exited' = "undefined" /\ UNCHANGED <<heap, call>>
        \/ /\ CallStep(heap', call', heap) /\ call'.old = i
           /\ exited' \in {"running", "undefined"}
    BY <1>1, <1>6, <2>1, StartMallocStep
  <2>3. UNCHANGED <<live, damaged>>
    BY <1>6 DEF StartMalloc
  <2>4. ASSUME CallStep(heap', call', heap), call'.old = i, exited' \in {"running", "undefined"}
        PROVE  StepGood(heap, call, live, heap', call', live, exited')
    <3>1. heap.hdr[a].size * 16 >= heap.hdr[a].req + 8
      BY <1>6 DEF accepted
    <3>2. Sizes(heap)[a] = heap.hdr[a].size
      BY <1>1, <1>2, Views DEF HeapOK, LiveType
    <3>3. OldHolds(heap, call', live)
      BY <2>4, <3>1, <3>2 DEF OldHolds
    <3> QED
      BY <1>1, <2>4, <3>3, CallStepGood
  <2>5. CASE exited' = "undefined" /\ UNCHANGED <<heap, call>>
    BY <1>1, <2>3, <2>5, UndefinedGood
  <2> QED
    BY <1>1, <2>2, <2>3, <2>4, <2>5
<1>7. CASE accepted(heap, a) /\ size > 0 /\ heap.hdr[a].req > size /\ Shrink(i, size)
  <2>1. size \in Requests
    BY <1>7
  <2>2. UNCHANGED damaged
    BY <1>7 DEF Shrink
  <2> QED
    BY <1>1, <1>7, <2>1, <2>2, ShrinkGood
<1> QED
  BY <1>4, <1>5, <1>6, <1>7 DEF Realloc

\* Every step of the allocator.
LEMMA StepKeeps ==
    ASSUME damaged = FALSE, StateOK(heap, call, live, exited), Next
    PROVE  /\ damaged' \in BOOLEAN
           /\ ~damaged' => \/ UNCHANGED vars
                           \/ exited = "running" /\ StepGood(heap, call, live, heap', call', live', exited')
<1>1. CASE Halted
  BY <1>1 DEF Halted, vars
<1> SUFFICES ASSUME exited = "running", ~Halted PROVE
        /\ damaged' \in BOOLEAN
        /\ ~damaged' => \/ UNCHANGED vars
                        \/ exited = "running" /\ StepGood(heap, call, live, heap', call', live', exited')
  <2>1. exited = "running" \/ Halted
    BY DEF Next, Halted, Malloc, Grow, GrowFails, Place, TooSmall, SfFree, Realloc, Idle
  <2> QED
    BY <1>1, <2>1
<1>2. /\ StateOK(heap, call, live, "running") /\ HeapOK(heap, call.cur) /\ CallOK(heap, call)
      /\ LiveType(live) /\ LiveOK(heap, call, live)
  BY DEF StateOK
<1>3. ASSUME NEW size \in Requests, Malloc(size)
      PROVE  UNCHANGED damaged /\ StepGood(heap, call, live, heap', call', live', exited')
  <2>1. call = NoCall /\ StartMalloc(size, NoHandle)
    BY <1>3 DEF Malloc, Idle
  <2>2. \/ exited' = "undefined" /\ UNCHANGED <<heap, call>>
        \/ /\ CallStep(heap', call', heap) /\ call'.old = NoHandle
           /\ exited' \in {"running", "undefined"}
    BY <1>2, <2>1, StartMallocStep
  <2>3. UNCHANGED <<live, damaged>>
    BY <2>1 DEF StartMalloc
  <2>4. ASSUME CallStep(heap', call', heap), call'.old = NoHandle, exited' \in {"running", "undefined"}
        PROVE  StepGood(heap, call, live, heap', call', live, exited')
    <3>1. NoHandle \notin DOMAIN live
      BY <1>2, HeapAssumption DEF LiveType
    <3>2. OldHolds(heap, call', live)
      BY <2>4, <3>1 DEF OldHolds
    <3> QED
      BY <1>2, <2>4, <3>2, CallStepGood
  <2>5. CASE exited' = "undefined" /\ UNCHANGED <<heap, call>>
    BY <1>2, <2>3, <2>5, UndefinedGood
  <2> QED
    BY <2>2, <2>3, <2>4, <2>5
<1>4. CASE Grow
  <2>1. UNCHANGED <<live, damaged>> /\ call # NoCall
    BY <1>4 DEF Grow, TooSmall
  <2>2. CASE exited' = "undefined" /\ UNCHANGED <<heap, call>>
    <3>1. StepGood(heap, call, live, heap, call, live, "undefined")
      BY <1>2, UndefinedGood
    <3> QED
      BY <2>1, <2>2, <3>1
  <2>3. CASE CallStep(heap', call', heap) /\ call'.old = call.old /\ UNCHANGED exited
    <3>1. call'.old \in DOMAIN live \cup {NoHandle}
      BY <1>2, <2>1, <2>3 DEF LiveOK
    <3>2. OldHolds(heap, call, live) => OldHolds(heap, call', live)
      BY <2>3 DEF OldHolds
    <3>3. StepGood(heap, call, live, heap', call', live, "running")
      BY <1>2, <2>3, <3>1, <3>2, CallStepGood
    <3> QED
      BY <2>1, <2>3, <3>3
  <2> QED
    BY <1>2, <1>4, <2>1, <2>2, <2>3, GrowStep
<1>5. CASE GrowFails
  <2>1. UNCHANGED live /\ call # NoCall
    BY <1>5 DEF GrowFails, TooSmall
  <2>2. /\ damaged' \in BOOLEAN
        /\ ~damaged' => /\ CallStep(heap', call', heap) /\ call' = NoCall
                        /\ exited' \in {"running", "undefined"}
    BY <1>2, <1>5, <2>1, GrowFailsStep
  <2>3. ASSUME ~damaged' PROVE StepGood(heap, call, live, heap', call', live, exited')
    BY <1>2, <2>2, <2>3, OldNone, CallStepGood
  <2> QED
    BY <2>1, <2>2, <2>3
<1>6. CASE Place
  <2>1. UNCHANGED damaged /\ call # NoCall
    BY <1>6 DEF Place
  <2> QED
    BY <1>2, <1>6, <2>1, PlaceGood
<1>7. ASSUME NEW i \in Handles, SfFree(i)
      PROVE  UNCHANGED damaged /\ StepGood(heap, call, live, heap', call', live', exited')
  <2>1. call = NoCall /\ i \in DOMAIN live /\ Free(i)
    BY <1>7 DEF SfFree, Idle
  <2>2. UNCHANGED damaged
    BY <2>1 DEF Free
  <2> QED
    BY <1>2, <2>1, <2>2, FreeGood
<1> QED
  BY <1>2, <1>3, <1>4, <1>5, <1>6, <1>7, ReallocGood DEF Next

\* Once sf_malloc has damaged a list the history remembers it.
LEMMA DamageStays ==
    ASSUME damaged = TRUE, Next
    PROVE  damaged' = TRUE
  BY DEF Next, Malloc, StartMalloc, Grow, GrowFails, Place, SfFree, Free, Realloc, Shrink, Halted, vars

\* The invariant holds before the first call.
LEMMA InvariantInit == Init => HeapInvariant /\ PayloadInvariant
<1> SUFFICES ASSUME Init PROVE HeapInvariant /\ PayloadInvariant
  OBVIOUS
<1>1. StateOK(heap, call, live, exited) /\ damaged = FALSE /\ exited = "running" /\ DOMAIN live = {}
  <2>1. Limit \in Nat /\ MaxPages \in Nat
    BY Bounds, HeapAssumption
  <2>2. heap \in HeapType
    <3>1. /\ [a \in Addr |-> Unset] \in [Addr -> Header]
          /\ [l \in Links |-> IF l < 0 THEN l ELSE NoLink] \in [Links -> Links \cup {NoLink}]
          /\ [a \in Addr |-> 0] \in [Addr -> Nat]
      BY <2>1 DEF Unset, Header
    <3>2. 0 \in 0..MaxPages /\ 0 \in 0..Limit
      BY <2>1
    <3> QED
      BY <3>1, <3>2 DEF Init, HeapType
  <2>3. heap.pages = 0 /\ Untouched(heap)
    <3>1. Sentinels \subseteq Links /\ Addr \subseteq Links
      BY <2>1 DEF Sentinels, Links, Addr
    <3>2. /\ heap.largest = 0 /\ heap.pages = 0
          /\ \A x \in Addr : heap.hdr[x] = Unset
          /\ \A l \in Links : heap.nx[l] = (IF l < 0 THEN l ELSE NoLink)
                           /\ heap.pv[l] = (IF l < 0 THEN l ELSE NoLink)
      BY DEF Init
    <3>3. \A x \in Addr : Sizes(heap)[x] = 0
      BY <3>2 DEF Sizes, Unset
    <3> QED
      BY <3>1, <3>2, <3>3 DEF Untouched, Sentinels, Addr
  <2>4. HeapOK(heap, NoCall.cur)
    BY <2>2, <2>3 DEF HeapOK
  <2>5. call = NoCall /\ live = [i \in {} |-> NoCall] /\ damaged = FALSE /\ exited = "running"
    BY DEF Init
  <2>6. DOMAIN live = {} /\ LiveType(live)
    BY <2>5 DEF LiveType
  <2>7. LiveOK(heap, NoCall, live)
    <3>1. Used(heap) = {}
      BY <2>3, <2>4, NoBlocks
    <3> QED
      BY <2>6, <3>1 DEF LiveOK
  <2> QED
    BY <2>4, <2>5, <2>6, <2>7, NoCallOK DEF StateOK
<1>2. Payload(heap, live)
  BY <1>1 DEF Payload
<1>3. OldHolds(heap, call, live)
  BY <1>1 DEF OldHolds
<1> QED
  BY <1>1, <1>2, <1>3 DEF HeapInvariant, PayloadInvariant, Fine

\* Every step preserves the invariant.
LEMMA InvariantStep ==
    ASSUME HeapInvariant, PayloadInvariant, [Next]_vars
    PROVE  HeapInvariant' /\ PayloadInvariant'
<1>1. CASE UNCHANGED vars
  BY <1>1 DEF vars, HeapInvariant, PayloadInvariant
<1>2. CASE Next
  <2>1. CASE damaged = TRUE
    BY <1>2, <2>1, DamageStays DEF HeapInvariant, PayloadInvariant
  <2>2. CASE damaged = FALSE
    <3>1. StateOK(heap, call, live, exited)
      BY <2>2 DEF HeapInvariant
    <3>2. /\ damaged' \in BOOLEAN
          /\ ~damaged' => \/ UNCHANGED vars
                          \/ exited = "running" /\ StepGood(heap, call, live, heap', call', live', exited')
      BY <1>2, <2>2, <3>1, StepKeeps
    <3>3. CASE damaged'
      BY <3>2, <3>3 DEF HeapInvariant, PayloadInvariant
    <3>4. CASE ~damaged' /\ exited = "running" /\ StepGood(heap, call, live, heap', call', live', exited')
      <4>1. StateOK(heap', call', live', exited')
        BY <3>4 DEF StepGood
      <4>2. Fine(heap', call', live', exited')
        BY <2>2, <3>4 DEF StepGood, PayloadInvariant, Fine
      <4> QED
        BY <3>2, <4>1, <4>2 DEF HeapInvariant, PayloadInvariant
    <3> QED
      BY <1>1, <3>2, <3>3, <3>4
  <2> QED
    BY <2>1, <2>2 DEF HeapInvariant
<1> QED
  BY <1>1, <1>2

-----------------------------------------------------------------------------
(* The blocks as the headers chain them.                                   *)

\* The places where a block starts, and the epilogue.
Places == Starts(Sizes(heap), End(heap)) \cup {End(heap)}

\* One block further than the blocks w.
NextBlock(w) ==
    LET a == Max(w) IN IF a >= End(heap) THEN w ELSE w \cup {getNextHeaderPointer(heap, a)}

\* The blocks w are all those up to the last of them.
UpTo(w, m) == m \in w /\ w = {x \in Places : x <= m}

\* Walking along the headers one meets every block, and ends at the epilogue.
LEMMA WalkOK ==
    ASSUME NEW c, HeapOK(heap, c), heap.pages > 0
    PROVE  /\ Walk[Limit] = Places /\ Max(Walk[Limit]) = End(heap)
           /\ Blocks = Starts(Sizes(heap), End(heap))
<1> DEFINE e == End(heap)
           sz == Sizes(heap)
           St == Starts(sz, e)
           N == Limit
<1>1. /\ heap \in HeapType /\ Tiling(sz, Allocs(heap), Prevs(heap), heap.ftr, e)
      /\ N \in Nat /\ e \in 2..N /\ sz \in [Addr -> Nat] /\ Addr = 0..N
      /\ \A x \in Addr : sz[x] = heap.hdr[x].size
  <2>1. heap \in HeapType /\ Tiling(sz, Allocs(heap), Prevs(heap), heap.ftr, e)
    BY DEF HeapOK
  <2> QED
    BY <2>1, Views, Bounds DEF Addr
<1>2. /\ 0 \in St /\ St \subseteq 0..(e - 1) /\ St \subseteq Addr
      /\ \A x \in St : /\ sz[x] \in Nat /\ sz[x] >= 2 /\ x + sz[x] \in St \cup {e}
                       /\ \A y \in (x + 1)..((x + sz[x]) - 1) : sz[y] = 0
  <2>1. 0 \in St /\ St \subseteq 0..(e - 1) /\ St \subseteq Addr
    BY <1>1 DEF Starts, Tiling
  <2>2. ASSUME NEW x \in St
        PROVE  /\ sz[x] \in Nat /\ sz[x] >= 2 /\ x + sz[x] \in St \cup {e}
               /\ \A y \in (x + 1)..((x + sz[x]) - 1) : sz[y] = 0
    <3>1. TilesAt(sz, Allocs(heap), Prevs(heap), heap.ftr, e, x)
      BY <1>1 DEF Tiling
    <3>2. sz[x] \in Nat
      BY <1>1, <2>1
    <3> HIDE DEF e, sz
    <3>3. sz[x] >= MIN_SZ /\ x + sz[x] \in Starts(sz, e) \cup {e}
      BY <3>1 DEF TilesAt
    <3>4. \A y \in (x + 1)..((x + sz[x]) - 1) : sz[y] = 0
      BY <3>1 DEF TilesAt
    <3> QED
      BY <3>2, <3>3, <3>4 DEF MIN_SZ
  <2> QED
    BY <2>1, <2>2
<1>3. \A x \in St : getNextHeaderPointer(heap, x) = x + sz[x]
  BY <1>1, <1>2 DEF getNextHeaderPointer
<1>4. \A x \in St : sz[x] # 0
  BY DEF Starts
<1> DEFINE All == St \cup {e}
           S == {w \in SUBSET All : w # {}}
           F == [p \in S \X (1..N) |-> NextBlock(p[1])]
<1>5. Places = All
  BY DEF Places
<1> HIDE DEF e, sz, St, N
<1>6. All \subseteq 0..e /\ All \subseteq 0..N
  BY <1>1, <1>2
<1>7. ASSUME NEW w \in S PROVE Max(w) \in w /\ \A y \in w : y <= Max(w)
  <2> HIDE DEF All
  <2> QED
    BY <1>1, <1>6, MaxIsGreatest
<1>8. ASSUME NEW w \in S
      PROVE  /\ NextBlock(w) \in S
             /\ Max(w) >= e => NextBlock(w) = w
             /\ Max(w) < e => Max(w) \in St /\ NextBlock(w) = w \cup {Max(w) + sz[Max(w)]}
  <2> DEFINE m == Max(w)
  <2>1. m \in All /\ m \in 0..e /\ e \in Nat
    BY <1>1, <1>6, <1>7
  <2> HIDE DEF m
  <2>2. CASE m >= e
    <3>1. NextBlock(w) = w
      BY <2>2 DEF NextBlock, m, e
    <3> QED
      BY <2>1, <2>2, <3>1 DEF m
  <2>3. CASE m < e
    <3>1. m \in St
      BY <2>1, <2>3
    <3>2. NextBlock(w) = w \cup {m + sz[m]}
      <4>1. ~(m >= e)
        BY <2>1, <2>3
      <4> QED
        BY <1>3, <3>1, <4>1 DEF NextBlock, m, e
    <3>3. w \cup {m + sz[m]} \in S
      BY <1>2, <3>1
    <3> QED
      BY <2>1, <2>3, <3>1, <3>2, <3>3 DEF m
  <2> QED
    BY <2>1, <2>2, <2>3
<1>9. {0} \in S
  BY <1>2
<1> HIDE DEF S, All
<1>10. StepsWithin(S, N, F)
  BY <1>8 DEF StepsWithin
<1>11. PICK f \in [0..N -> S] : FollowsSteps(f, N, {0}, F)
  <2> HIDE DEF F
  <2> QED
    BY <1>1, <1>9, <1>10, RecursionExists
<1>12. ASSUME NEW k \in 1..N PROVE f[k] = NextBlock(f[k - 1])
  <2>1. <<f[k - 1], k>> \in S \X (1..N)
    BY <1>1
  <2>2. f[k] = F[<<f[k - 1], k>>]
    BY <1>11 DEF FollowsSteps
  <2> QED
    BY <2>1, <2>2
<1>13. f = [k \in 0..N |-> IF k = 0 THEN {0} ELSE NextBlock(f[k - 1])]
  BY <1>1, <1>11, <1>12 DEF FollowsSteps
<1>14. Walk = [k \in 0..N |-> IF k = 0 THEN {0} ELSE NextBlock(Walk[k - 1])]
  <2> HIDE DEF F
  <2> QED
    BY <1>13 DEF Walk, NextBlock, N
<1> HIDE DEF F, NextBlock
<1>15. Walk[0] = {0} /\ \A k \in 1..N : Walk[k] = NextBlock(Walk[k - 1])
  <2>1. N \in Nat
    BY <1>1
  <2>2. \A k \in 0..N : Walk[k] = IF k = 0 THEN {0} ELSE NextBlock(Walk[k - 1])
    BY <1>14
  <2>3. 0 \in 0..N /\ \A k \in 1..N : k \in 0..N /\ k # 0
    BY <2>1
  <2> QED
    BY <2>2, <2>3
<1> DEFINE T == {k \in 0..N : Walk[k] \in S /\ UpTo(Walk[k], Max(Walk[k]))
                              /\ (Max(Walk[k]) >= k \/ Max(Walk[k]) = e)}
<1>16. 0 \in T
  <2>1. Max({0}) = 0
    BY <1>7, <1>9
  <2>2. {0} = {x \in Places : x <= 0}
    BY <1>2, <1>5, <1>6 DEF All
  <2>3. UpTo({0}, 0)
    BY <2>2 DEF UpTo
  <2>4. 0 \in 0..N /\ Walk[0] = {0} /\ 0 >= 0
    BY <1>1, <1>15
  <2> QED
    BY <1>9, <2>1, <2>3, <2>4
<1>17. ASSUME NEW k \in 1..N, k - 1 \in T PROVE k \in T
  <2> DEFINE w == Walk[k - 1]
             v == Walk[k]
             m == Max(w)
             n == m + sz[m]
  <2>1. /\ w \in S /\ UpTo(w, m) /\ (m >= k - 1 \/ m = e) /\ v = NextBlock(w)
        /\ k \in 0..N /\ k \in Nat
    <3>1. w \in S /\ UpTo(w, m) /\ (m >= k - 1 \/ m = e)
      BY <1>17
    <3>2. v = NextBlock(w)
      BY <1>15
    <3>3. N \in Nat
      BY <1>1
    <3>4. k \in 0..N /\ k \in Nat
      BY <3>3
    <3> QED
      BY <3>1, <3>2, <3>4
  <2>2. v \in S /\ m \in w /\ m \in All /\ m \in 0..e /\ e \in Nat
    <3>1. v \in S
      BY <1>8, <2>1
    <3>2. m \in w
      BY <1>7, <2>1
    <3>3. w \subseteq All
      BY <2>1 DEF S
    <3> HIDE DEF v, w, m
    <3>4. e \in Nat
      BY <1>1
    <3> QED
      BY <1>6, <3>1, <3>2, <3>3, <3>4
  <2>3. CASE m >= e
    <3>1. v = w /\ m = e
      BY <1>8, <2>1, <2>2, <2>3
    <3> QED
      BY <2>1, <2>2, <3>1
  <2>4. CASE m < e
    <3>1. m \in St /\ v = w \cup {n}
      BY <1>8, <2>1, <2>4
    <3>2. sz[m] \in Nat /\ sz[m] >= 2 /\ n \in All /\ \A y \in (m + 1)..(n - 1) : sz[y] = 0
      <4> HIDE DEF m
      <4> QED
        BY <1>2, <3>1 DEF All
    <3>3. m >= k - 1 /\ m \in Nat
      BY <2>1, <2>2, <2>4
    <3> HIDE DEF v, w, m
    <3>4. n >= k /\ n > m /\ n \in Nat
      BY <2>1, <3>2, <3>3
    <3>5. v = {x \in Places : x <= n}
      <4>1. \A x \in w : x \in All /\ x <= m /\ x \in Nat
        BY <1>5, <1>6, <2>1 DEF UpTo
      <4>2. ASSUME NEW x \in All, x <= n, x # n PROVE x \in w
        <5>1. x \in Nat /\ x \in 0..e /\ n \in 0..e
          <6>1. x \in 0..e /\ n \in 0..e
            BY <1>6, <3>2
          <6> QED
            BY <6>1
        <5>2. CASE x <= m
          BY <1>5, <2>1, <5>2 DEF UpTo
        <5>3. CASE x > m
          <6>1. x \in (m + 1)..(n - 1)
            BY <3>3, <3>4, <4>2, <5>1, <5>3
          <6>2. sz[x] = 0 /\ x # e
            BY <3>2, <4>2, <5>1, <6>1
          <6>3. x \in St
            BY <6>2 DEF All
          <6> QED
            BY <1>4, <6>2, <6>3
        <5> QED
          BY <3>3, <5>1, <5>2, <5>3
      <4> HIDE DEF n
      <4>3. \A x \in w : x <= n
        BY <3>3, <3>4, <4>1
      <4>4. n <= n
        BY <3>4
      <4> QED
        BY <1>5, <3>1, <3>2, <4>1, <4>2, <4>3, <4>4
    <3>6. n \in v /\ \A x \in v : x <= n
      BY <3>1, <3>5
    <3>7. Max(v) = n
      <4>1. Max(v) \in v /\ \A y \in v : y <= Max(v)
        BY <1>7, <2>2
      <4>2. Max(v) \in 0..e
        BY <1>5, <1>6, <3>5, <4>1
      <4> HIDE DEF n
      <4> QED
        BY <1>1, <3>4, <3>6, <4>1, <4>2
    <3> QED
      BY <2>1, <2>2, <3>4, <3>5, <3>6, <3>7 DEF UpTo, v
  <2> QED
    BY <2>2, <2>3, <2>4
<1> HIDE DEF T
<1>18. N \in T
  <2>1. N \in Nat /\ N \in 0..N
    BY <1>1
  <2>2. \A k \in 0..N : k \in T
    BY <1>16, <1>17, <2>1, BoundedInduction
  <2> QED
    BY <2>1, <2>2
<1>19. Walk[N] \in S /\ UpTo(Walk[N], Max(Walk[N])) /\ (Max(Walk[N]) >= N \/ Max(Walk[N]) = e)
  BY <1>18 DEF T
<1>20. Max(Walk[N]) = e
  <2>1. Max(Walk[N]) \in 0..e
    BY <1>5, <1>6, <1>19 DEF UpTo
  <2> QED
    BY <1>1, <1>19, <2>1
<1>21. Walk[N] = Places
  <2>1. \A x \in Places : x <= e
    BY <1>1, <1>5, <1>6
  <2>2. Walk[N] = {x \in Places : x <= e}
    BY <1>19, <1>20 DEF UpTo
  <2> QED
    BY <2>1, <2>2
<1>22. Walk[N] \ {e} = St
  BY <1>1, <1>2, <1>5, <1>21 DEF All
<1> QED
  BY <1>20, <1>21, <1>22 DEF Blocks, N, e, St, sz

-----------------------------------------------------------------------------
(* The properties.                                                         *)

\* The heap between two calls.
LEMMA SettledOK ==
    ASSUME HeapInvariant, Settled
    PROVE  /\ HeapOK(heap, -1) /\ heap \in HeapType /\ heap.pages > 0
           /\ Tiling(Sizes(heap), Allocs(heap), Prevs(heap), heap.ftr, End(heap)) /\ Listed(heap, -1)
           /\ LiveType(live) /\ LiveOK(heap, call, live) /\ exited = "running"
           /\ Walk[Limit] = Places /\ Max(Walk[Limit]) = End(heap)
           /\ Blocks = Starts(Sizes(heap), End(heap)) /\ Blocks \subseteq Addr
           /\ \A x \in Addr : Sizes(heap)[x] = heap.hdr[x].size
<1>1. /\ HeapOK(heap, -1) /\ heap.pages > 0 /\ exited = "running"
      /\ LiveType(live) /\ LiveOK(heap, call, live)
  BY NoCallOK DEF Settled, Idle, HeapInvariant, StateOK
<1>2. /\ heap \in HeapType /\ Listed(heap, -1)
      /\ Tiling(Sizes(heap), Allocs(heap), Prevs(heap), heap.ftr, End(heap))
  BY <1>1 DEF HeapOK
<1>3. /\ Walk[Limit] = Places /\ Max(Walk[Limit]) = End(heap)
      /\ Blocks = Starts(Sizes(heap), End(heap))
  BY <1>1, WalkOK
<1>4. \A x \in Addr : Sizes(heap)[x] = heap.hdr[x].size
  BY <1>2, Views
<1>5. End(heap) \in 2..Limit /\ Limit \in Nat
  BY <1>1, <1>2, Views, Bounds
<1>6. Starts(Sizes(heap), End(heap)) \subseteq Addr
  BY <1>5 DEF Starts, Addr
<1> QED
  BY <1>1, <1>2, <1>3, <1>4, <1>6

\* The tiles of the invariant are those of BlocksTileHeap.
LEMMA TilesImplied == HeapInvariant => BlocksTileHeap
<1> SUFFICES ASSUME HeapInvariant, Settled
             PROVE  /\ Max(Walk[Limit]) = End(heap)
                    /\ {b \in Blocks : heap.hdr[b].alloc} = {live[i].at : i \in DOMAIN live}
                    /\ \A i, j \in DOMAIN live : i # j => live[i].at # live[j].at
  BY DEF BlocksTileHeap
<1>1. {b \in Blocks : heap.hdr[b].alloc} = Used(heap)
  BY SettledOK DEF Used, Allocs
<1> QED
  BY <1>1, SettledOK DEF LiveOK

\* The tags of the invariant are those of BoundaryTags.
LEMMA TagsImplied == HeapInvariant => BoundaryTags
<1> SUFFICES ASSUME HeapInvariant, Settled, NEW b \in Blocks, NEW n, n = getNextHeaderPointer(heap, b)
             PROVE  /\ heap.hdr[n].prev = heap.hdr[b].alloc
                    /\ ~heap.hdr[b].alloc => heap.ftr[n] = heap.hdr[b].size /\ heap.hdr[n].alloc
  BY DEF BoundaryTags
<1> DEFINE sz == Sizes(heap)
           e == End(heap)
<1>1. /\ b \in Addr /\ b \in Starts(sz, e) /\ n = b + sz[b] /\ sz[b] = heap.hdr[b].size
      /\ e \in Addr /\ Starts(sz, e) \subseteq Addr
  BY SettledOK, Views DEF getNextHeaderPointer
<1>2. TilesAt(sz, Allocs(heap), Prevs(heap), heap.ftr, e, b)
  BY <1>1, SettledOK DEF Tiling
<1> HIDE DEF sz, e
<1>3. /\ n \in Starts(sz, e) \cup {e}
      /\ n \in Prevs(heap) <=> b \in Allocs(heap)
      /\ b \notin Allocs(heap) => heap.ftr[n] = sz[b] /\ n \in Allocs(heap)
  BY <1>1, <1>2 DEF TilesAt
<1>4. n \in Addr
  BY <1>1, <1>3
<1>5. heap.hdr[n] \in Header /\ heap.hdr[b] \in Header
  BY <1>1, <1>4, SettledOK DEF HeapType
<1>6. heap.hdr[n].prev \in BOOLEAN /\ heap.hdr[b].alloc \in BOOLEAN
  BY <1>5 DEF Header
<1> QED
  BY <1>1, <1>3, <1>4, <1>6 DEF Prevs, Allocs

\* The lists of the invariant are those of FreeListsAreExact: a ranked ring
\* that comes back to its start at once is a sentinel alone.
LEMMA ListsImplied == HeapInvariant => FreeListsAreExact
<1> DEFINE free == {b \in Blocks : ~heap.hdr[b].alloc}
<1> SUFFICES ASSUME HeapInvariant, Settled, NEW s \in 1..Limit,
                    NEW list, list = {b \in free : heap.hdr[b].size = s} \cup {-s}
             PROVE  /\ list # {-s} => s <= heap.largest
                    /\ \A l \in list : /\ heap.nx[l] \in list
                                       /\ heap.pv[heap.nx[l]] = l
                                       /\ heap.nx[l] = l => list = {-s}
  BY DEF FreeListsAreExact
<1> DEFINE N == FreeBlocks(heap)
           sz == Sizes(heap)
<1>1. free = N /\ N \subseteq Addr /\ \A b \in N : heap.hdr[b].size = sz[b]
  BY SettledOK DEF FreeBlocks, Allocs
<1>2. N \ {-1} = N /\ \A b \in N : b \in Nat
  BY <1>1 DEF Addr
<1>3. Lists(heap.nx, heap.pv, N, sz) /\ \A x \in N : sz[x] <= heap.largest
  BY <1>2, SettledOK DEF Listed
<1> HIDE DEF N, sz, free
<1>4. list = {b \in N : sz[b] = s} \cup {-s}
  BY <1>1
<1>5. s \in Nat /\ -s \in Sentinels /\ -s < 0 /\ -(-s) = s /\ Sentinels \cap N = {}
  BY <1>2, Bounds DEF Sentinels
<1>6. \A l \in N \cup Sentinels : l \in list <=> Class(sz, l) = s
  <2>1. \A l \in N : Class(sz, l) = sz[l]
    BY <1>2 DEF Class
  <2>2. \A l \in Sentinels : l < 0 /\ Class(sz, l) = -l /\ (-l = s <=> l = -s)
    BY <1>5, Bounds DEF Class, Sentinels
  <2> QED
    BY <1>4, <1>5, <2>1, <2>2
<1>7. list # {-s} => s <= heap.largest
  BY <1>3, <1>4
<1>8. ASSUME NEW l \in list
      PROVE  heap.nx[l] \in list /\ heap.pv[heap.nx[l]] = l /\ (heap.nx[l] = l => list = {-s})
  <2>1. l \in N \cup Sentinels /\ Class(sz, l) = s
    BY <1>4, <1>5, <1>6
  <2>2. /\ heap.nx[l] \in N \cup Sentinels /\ heap.pv[heap.nx[l]] = l
        /\ Class(sz, heap.nx[l]) = s
    BY <1>3, <2>1 DEF Lists, Ring
  <2>3. ASSUME heap.nx[l] = l PROVE list = {-s}
    <3>1. l \notin N
      <4> SUFFICES ASSUME l \in N PROVE FALSE
        OBVIOUS
      <4>1. PICK r \in [Addr -> Nat] : \A k \in N : heap.pv[k] \in N => r[heap.pv[k]] < r[k]
        BY <1>3 DEF Lists, Ranked
      <4>2. r[l] < r[l] /\ r[l] \in Nat
        BY <1>1, <2>2, <2>3, <4>1
      <4> QED
        BY <4>2
    <3>2. l = -s
      BY <1>4, <3>1
    <3>3. heap.nx[-s] = -s
      BY <2>3, <3>2
    <3>4. \A x \in N : sz[x] # s
      <4>1. N \subseteq Addr /\ Lists(heap.nx, heap.pv, N, sz)
        BY <1>1, <1>3
      <4> QED
        BY <3>3, <4>1, EmptyList
    <3> QED
      BY <1>4, <3>4
  <2> QED
    BY <1>6, <2>2, <2>3
<1> QED
  BY <1>7, <1>8

\* A search that finds no list has seen every free block that would fit.
LEMMA GrowthImplied == HeapInvariant => GrowsOnlyWithoutFit
<1> SUFFICES ASSUME HeapInvariant, call # NoCall, call.cur = -1, ~damaged,
                    NEW b \in Blocks, ~heap.hdr[b].alloc
             PROVE  heap.hdr[b].size < getNewSize(call.size)
  BY DEF GrowsOnlyWithoutFit
<1> DEFINE N == FreeBlocks(heap)
           sz == Sizes(heap)
           n == getNewSize(call.size)
<1>1. /\ HeapOK(heap, -1) /\ heap.pages > 0 /\ call.size \in Requests
      /\ \A s \in n..Limit : heap.nx[-s] = -s
  BY DEF HeapInvariant, StateOK, CallOK
<1>2. heap \in HeapType /\ Listed(heap, -1) /\ End(heap) \in 2..Limit
      /\ Tiling(sz, Allocs(heap), Prevs(heap), heap.ftr, End(heap))
  BY <1>1, Views DEF HeapOK
<1>3. b \in Starts(sz, End(heap)) /\ b \in N /\ b \in Addr /\ sz[b] = heap.hdr[b].size /\ sz[b] \in Nat
  <2>1. b \in Starts(sz, End(heap))
    BY <1>1, WalkOK
  <2>2. b \in Addr
    BY <1>2, <2>1, Bounds DEF Starts, Addr
  <2> QED
    BY <1>2, <2>1, <2>2, Views DEF FreeBlocks, Allocs
<1>4. sz[b] >= 2 /\ sz[b] <= Limit
  <2>1. TilesAt(sz, Allocs(heap), Prevs(heap), heap.ftr, End(heap), b)
    BY <1>2, <1>3 DEF Tiling
  <2> DEFINE e == End(heap)
  <2>2. sz[b] >= 2 /\ b + sz[b] \in Starts(sz, e) \cup {e}
    BY <2>1 DEF TilesAt, MIN_SZ
  <2>3. e \in 2..Limit /\ Starts(sz, e) \subseteq 0..(e - 1) /\ Limit \in Nat /\ b \in Nat
    BY <1>2, <1>3, Bounds DEF Starts, Addr
  <2> HIDE DEF e, sz
  <2> QED
    BY <1>3, <2>2, <2>3
<1>5. n \in Int /\ Limit \in Nat
  BY <1>1, RequestsAreNat, Bounds
<1>6. N \ {-1} = N
  BY <1>2, Views DEF Addr
<1>7. Lists(heap.nx, heap.pv, N, sz)
  BY <1>2, <1>6 DEF Listed
<1>8. N \subseteq Addr
  BY <1>2, Views
<1> HIDE DEF N, sz, n
<1> SUFFICES ASSUME sz[b] >= n PROVE FALSE
  BY <1>3, <1>5 DEF n
<1>9. sz[b] \in n..Limit /\ sz[b] \in 1..Limit
  BY <1>3, <1>4, <1>5
<1>10. heap.nx[-sz[b]] = -sz[b]
  BY <1>1, <1>9
<1> QED
  BY <1>3, <1>7, <1>8, <1>9, <1>10, EmptyList

\* The types of the invariant are those of TypeOK.
LEMMA TypesImplied == HeapInvariant /\ ~damaged => TypeOK
<1> SUFFICES ASSUME HeapInvariant, ~damaged PROVE TypeOK
  OBVIOUS
<1>1. /\ heap \in HeapType /\ call \in CallType /\ LiveType(live) /\ damaged \in BOOLEAN
      /\ exited \in {"running", "abort", "undefined"}
  BY DEF HeapInvariant, StateOK, HeapOK, CallOK
<1>2. \A i \in DOMAIN live : live[i] \in [at : Addr, req : Requests]
  BY <1>1 DEF LiveType
<1>3. /\ heap.pages \in 0..MaxPages
      /\ heap.hdr \in [Addr -> Header] /\ heap.ftr \in [Addr -> Nat]
      /\ heap.nx \in [Links -> Links \cup {NoLink}] /\ heap.pv \in [Links -> Links \cup {NoLink}]
      /\ heap.largest \in 0..Limit
  BY <1>1 DEF HeapType
<1> QED
  BY <1>1, <1>2, <1>3 DEF TypeOK, CallType, LiveType, Header

\* The payloads of the invariant are those of PayloadHoldsRequest.
LEMMA PayloadImplied == HeapInvariant /\ PayloadInvariant => PayloadHoldsRequest
<1> SUFFICES ASSUME HeapInvariant, PayloadInvariant, Settled, NEW i \in DOMAIN live,
                    ~Overflows(live[i].req)
             PROVE  heap.hdr[live[i].at].size * 16 >= live[i].req + 8
  BY DEF PayloadHoldsRequest
<1>1. Payload(heap, live)
  BY SettledOK DEF PayloadInvariant, Fine, Settled
<1>2. live[i].at \in Addr
  BY SettledOK DEF LiveType
<1>3. Sizes(heap)[live[i].at] = heap.hdr[live[i].at].size
  BY <1>2, SettledOK
<1> QED
  BY <1>1, <1>3 DEF Payload

\* A process that is fine has been aborted only for a block that is too small.
LEMMA AcceptedImplied == PayloadInvariant => OwnPointersAreAccepted
  BY DEF PayloadInvariant, Fine, OwnPointersAreAccepted

-----------------------------------------------------------------------------
(* The theorems.                                                           *)

\* The inductive invariant, from which the theorems follow.
LEMMA InvariantHolds == Spec => [](HeapInvariant /\ PayloadInvariant)
<1> DEFINE I == HeapInvariant /\ PayloadInvariant
<1>1. Init => I
  BY InvariantInit
<1>2. I /\ [Next]_vars => I'
  BY InvariantStep
<1> QED
  BY <1>1, <1>2, PTL DEF Spec

\* sf_malloc, sf_free and sf_realloc keep the heap whole: in every state that
\* no failed sf_malloc has damaged, the blocks tile the pages, their tags and
\* links agree, and the call under way has in hand what it believes to have.
THEOREM HeapIsWhole == Spec => []HeapInvariant
  BY InvariantHolds, PTL

\* Up to a failed sf_malloc that damages a list, everything the program and
\* the calls read and write is inside the heap.
THEOREM TypesHold == Spec => [](~damaged => TypeOK)
<1>1. HeapInvariant => (~damaged => TypeOK)
  BY TypesImplied
<1> QED
  BY <1>1, HeapIsWhole, PTL

\* Whatever the program allocates, frees and reallocates, the blocks lie end to
\* end, and those in use are the ones whose pointers it has.
THEOREM BlocksTile == Spec => []BlocksTileHeap
  BY TilesImplied, HeapIsWhole, PTL

\* The headers and footers by which sf_free and mem_grow find the neighbours of
\* a block are right, and neighbouring free blocks have been coalesced.
THEOREM TagsAgree == Spec => []BoundaryTags
  BY TagsImplied, HeapIsWhole, PTL

\* Each free block is on the list of its size, once, and on no other.
THEOREM ListsAreExact == Spec => []FreeListsAreExact
  BY ListsImplied, HeapIsWhole, PTL

\* sf_malloc turns to mem_grow only when no free block serves its request.
THEOREM GrowthIsNeeded == Spec => []GrowsOnlyWithoutFit
  BY GrowthImplied, HeapIsWhole, PTL

\* Every block in use holds the bytes that were asked for, whatever else the
\* program requests: only a request whose own block size leaves the range of int
\* gets a block that is too small.
THEOREM PayloadsFit == Spec => []PayloadHoldsRequest
<1>1. HeapInvariant /\ PayloadInvariant => PayloadHoldsRequest
  BY PayloadImplied
<1> QED
  BY <1>1, InvariantHolds, PTL

\* sf_free and sf_realloc abort for a pointer that sf_malloc or sf_realloc has
\* returned only if the block size of its request has left the range of int.
THEOREM PointersAreAccepted == Spec => []OwnPointersAreAccepted
<1>1. HeapInvariant /\ PayloadInvariant => OwnPointersAreAccepted
  BY AcceptedImplied
<1> QED
  BY <1>1, InvariantHolds, PTL

=============================================================================
