-------------------------------- MODULE Tlsf --------------------------------
(***************************************************************************)
(* The two-level segregated fit allocator of libbrkc                       *)
(* (src/src/libbrkc/stdlib/malloc.c).                                      *)
(*                                                                         *)
(* The heap is one record, and every static function of malloc.c is an     *)
(* operator from heaps to heaps, so that malloc, realloc and free compose  *)
(* them the way the C code does:                                           *)
(*                                                                         *)
(*   blk     the block headers, a function from the addresses at which a   *)
(*           block starts to [size, used, prev]; `used' is the low bit of  *)
(*           struct tlsf_block's size                                      *)
(*   links   the struct tlsf_free_links kept in the payload of a block     *)
(*           while it is on a free list: [next, prev]                      *)
(*   head    tlsf_free_list                                                *)
(*   sl, fl  tlsf_sl_bitmap and tlsf_fl_bitmap, a word being the set of    *)
(*           the positions of its one bits                                 *)
(*   regions the regions on the list tlsf_regions (its order is never      *)
(*           observable: regions are disjoint)                             *)
(*   cache   the regions on the list tlsf_region_cache (its order only     *)
(*           breaks ties between equally large regions)                    *)
(*   ccount, cbytes   tlsf_region_cache_count, tlsf_region_cache_bytes     *)
(*                                                                         *)
(* The program that calls the allocator is `owned': the size it last asked *)
(* for, by the pointers it holds.  It frees and reallocates only those.    *)
(***************************************************************************)
EXTENDS Integers, FiniteSets, TLC

CONSTANTS
  Align,        \* TLSF_ALIGN
  Header,       \* TLSF_HEADER_SIZE
  MinBlock,     \* TLSF_MIN_BLOCK_SIZE
  Meta,         \* TLSF_REGION_META_SIZE
  SLLog2,       \* TLSF_SL_LOG2
  FLMax,        \* TLSF_FL_INDEX_MAX
  Page,         \* TLSF_PAGE_SIZE
  RegionMin,    \* TLSF_REGION_MIN
  CacheMax,     \* TLSF_REGION_CACHE_MAX
  CacheBytes,   \* TLSF_REGION_CACHE_BYTES
  SizeMax,      \* (size_t)-1
  Bases,        \* the addresses mmap may return (bound of the model)
  AddrMax,      \* the end of the address space (bound of the model)
  Sizes,        \* the sizes the program asks for (bound of the model)
  MaxLive       \* the most pointers it holds (bound of the model)

SLCount == 2 ^ SLLog2
MaxBlock == 2 ^ (FLMax + 1)
RegionOverhead == Meta + 2 * Header

(* The _Static_asserts of malloc.c, and what its macros make of sizes.     *)
ASSUME TlsfAssumption ==
  /\ Align \in Nat \ {0} /\ Header \in Nat \ {0} /\ MinBlock \in Nat /\ Meta \in Nat
  /\ Header % Align = 0 /\ MinBlock % Align = 0 /\ Meta % Align = 0
  /\ Page \in Nat \ {0} /\ Page % Align = 0
  /\ Header < MinBlock
  /\ SLLog2 \in Nat /\ FLMax \in Nat /\ SLLog2 <= FLMax
  /\ RegionMin \in Nat /\ RegionMin >= RegionOverhead + MinBlock
  /\ CacheMax \in Nat /\ CacheBytes \in Nat /\ SizeMax \in Nat
  /\ Bases \subseteq Nat /\ \A b \in Bases : b > 0 /\ b % Page = 0
  /\ AddrMax \in Nat
  /\ Sizes \subseteq Nat
  /\ MaxLive \in Nat

(* Powers of two double, which the provers' theory of ^ does not say.      *)
ASSUME PowerAssumption ==
  /\ 2^0 = 1
  /\ \A i \in 0..(FLMax + 2) : 2^i \in Nat /\ 2^(i+1) = 2 * 2^i

VARIABLES heap, owned

vars == <<heap, owned>>

NULL == 0
NoClass == <<-1, -1>>
Classes == (0..FLMax) \X (0..SLCount-1)
Addr == 1..AddrMax

Least(S) == CHOOSE x \in S : \A y \in S : x <= y
AtLeast(a, b) == IF a < b THEN b ELSE a
AtMost(a, b) == IF a > b THEN b ELSE a
RoundUp(n, unit) == ((n + unit - 1) \div unit) * unit

-----------------------------------------------------------------------------
(* Size classes *)

(* tlsf_fls: the position of the highest one bit *)
tlsf_fls(size) == CHOOSE f \in 0..(FLMax + 2) : 2^f <= size /\ size < 2^(f+1)

tlsf_mapping_insert(size) ==
  IF size < SLCount
  THEN IF size \div Align < SLCount THEN <<0, size \div Align>> ELSE NoClass
  ELSE LET f == tlsf_fls(size) IN
       IF f > FLMax THEN NoClass
       ELSE <<f, (size \div 2^(f - SLLog2)) % SLCount>>

(* mutant: searches the class the size falls into, without rounding up *)
MutSearchUnrounded(size) == tlsf_mapping_insert(size)

tlsf_mapping_search(size) ==
  IF size < SLCount
  THEN tlsf_mapping_insert(size)
  ELSE LET f == tlsf_fls(size)
           round == 2^(f - SLLog2) - 1 IN
       IF f > FLMax \/ size > SizeMax - round THEN NoClass
       ELSE tlsf_mapping_insert(size + round)

tlsf_class_min(c) ==
  IF c[1] = 0 THEN c[2] * Align ELSE 2^c[1] + c[2] * 2^(c[1] - SLLog2)

(* mutant: the rounded size wraps around, unchecked *)
MutSizeWraps(size) ==
  LET need == AtLeast((RoundUp(size, Align) % (SizeMax + 1)) + Header, MinBlock)
  IN IF size = 0 \/ need >= MaxBlock THEN 0 ELSE need

(* The block size a request needs; 0 where tlsf_size_to_block fails.       *)
tlsf_size_to_block(size) ==
  LET aligned == RoundUp(size, Align)
      need == AtLeast(aligned + Header, MinBlock)
  IN IF \/ size = 0
        \/ size > SizeMax - (Align - 1)
        \/ aligned > SizeMax - Header
        \/ need >= MaxBlock
     THEN 0 ELSE need

-----------------------------------------------------------------------------
(* The free lists and their bitmaps *)

ClassOf(h, b) == tlsf_mapping_insert(h.blk[b].size)

tlsf_free_insert(h, b) ==
  LET c == ClassOf(h, b)
      next == h.head[c]
  IN IF c = NoClass THEN h
     ELSE [h EXCEPT
            !.links = [a \in DOMAIN h.links \cup {b} |->
                         IF a = b THEN [next |-> next, prev |-> NULL]
                         ELSE IF a = next THEN [h.links[a] EXCEPT !.prev = b]
                         ELSE h.links[a]],
            !.head = [h.head EXCEPT ![c] = b],
            !.sl = [h.sl EXCEPT ![c[1]] = @ \cup {c[2]}],
            !.fl = @ \cup {c[1]}]

(* mutant: an emptied list keeps its bit in the bitmaps *)
MutKeepBits(h, b) ==
  LET c == ClassOf(h, b)
      l == h.links[b]
  IN [h EXCEPT
       !.links = [a \in DOMAIN h.links \ {b} |->
                    [next |-> IF a = l.prev THEN l.next ELSE h.links[a].next,
                     prev |-> IF a = l.next THEN l.prev ELSE h.links[a].prev]],
       !.head[c] = IF l.prev = NULL THEN l.next ELSE @]

tlsf_free_remove(h, b) ==
  LET c == ClassOf(h, b)
      next == h.links[b].next
      prev == h.links[b].prev
      first == IF prev = NULL THEN next ELSE h.head[c]
      sl == IF first = NULL THEN h.sl[c[1]] \ {c[2]} ELSE h.sl[c[1]]
  IN IF c = NoClass THEN h
     ELSE [h EXCEPT
            !.links = [a \in DOMAIN h.links \ {b} |->
                         [next |-> IF a = prev THEN next ELSE h.links[a].next,
                          prev |-> IF a = next THEN prev ELSE h.links[a].prev]],
            !.head = [h.head EXCEPT ![c] = first],
            !.sl = [h.sl EXCEPT ![c[1]] = sl],
            !.fl = IF first = NULL /\ sl = {} THEN @ \ {c[1]} ELSE @]

(* mutant: gives up when the first-level class has no block *)
MutFindOneLevel(h, size) ==
  LET c == tlsf_mapping_search(size)
      sl_map == {s \in h.sl[c[1]] : s >= c[2]}
  IN IF c = NoClass \/ sl_map = {} THEN NULL ELSE h.head[<<c[1], Least(sl_map)>>]

(* The block tlsf_find returns, NULL when it returns 0.                    *)
tlsf_find(h, size) ==
  LET c == tlsf_mapping_search(size)
      sl_map == {s \in h.sl[c[1]] : s >= c[2]}
      fl_map == {f \in h.fl : f > c[1]}
      fl == Least(fl_map)
  IN IF h.fl = {} \/ c = NoClass THEN NULL
     ELSE IF sl_map # {} THEN h.head[<<c[1], Least(sl_map)>>]
     ELSE IF fl_map = {} THEN NULL
     ELSE h.head[<<fl, Least(h.sl[fl])>>]

-----------------------------------------------------------------------------
(* Physical blocks *)

NextBlock(h, b) == b + h.blk[b].size
PrevBlock(h, b) == b - h.blk[b].prev

SetUsed(h, b, u) == [h EXCEPT !.blk = [@ EXCEPT ![b].used = u]]

(* mutant: the block behind the tail keeps its old prev_size *)
MutCutNoPrev(h, b, need) ==
  [h EXCEPT !.blk =
    (b + need :> [size |-> h.blk[b].size - need, used |-> FALSE, prev |-> need])
      @@ [h.blk EXCEPT ![b].size = need]]

(* Block b is cut after `need' bytes; the rest becomes a free block, the   *)
(* tail, that is on no list yet.                                           *)
Cut(h, b, need) ==
  LET rest == h.blk[b].size - need
      tail == b + need
      next == NextBlock(h, b)
  IN [h EXCEPT !.blk =
       [a \in DOMAIN h.blk \cup {tail} |->
          IF a = tail THEN [size |-> rest, used |-> FALSE, prev |-> need]
          ELSE IF a = b THEN [h.blk[a] EXCEPT !.size = need]
          ELSE IF a = next THEN [h.blk[a] EXCEPT !.prev = rest]
          ELSE h.blk[a]]]

(* Block b takes over the block that follows it: its size grows and the    *)
(* block after both learns of it.                                          *)
Absorb(h, b) ==
  LET next == NextBlock(h, b)
      total == h.blk[b].size + h.blk[next].size
      after == b + total
  IN [h EXCEPT !.blk =
       [a \in DOMAIN h.blk \ {next} |->
          IF a = b THEN [h.blk[a] EXCEPT !.size = total]
          ELSE IF a = after THEN [h.blk[a] EXCEPT !.prev = total]
          ELSE h.blk[a]]]

(* mutant: the tail is not merged with a free block behind it *)
MutSplitNoMerge(h, b, need) ==
  IF h.blk[b].size < need + MinBlock THEN h
  ELSE tlsf_free_insert(Cut(h, b, need), b + need)

tlsf_split(h, b, need) ==
  LET tail == b + need
      next == NextBlock(h, b)
      cut == Cut(h, b, need)
  IN IF h.blk[b].size < need + MinBlock THEN h
     ELSE IF h.blk[next].used THEN tlsf_free_insert(cut, tail)
     ELSE tlsf_free_insert(Absorb(tlsf_free_remove(cut, next), tail), tail)

-----------------------------------------------------------------------------
(* Regions *)

(* A region is [base, size]; its sentinels, its first block and its usable *)
(* size follow from them.                                                  *)
StartOf(r) == r.base + Meta
FirstOf(r) == r.base + Meta + Header
EndOf(r) == r.base + r.size - Header
UsableOf(r) == EndOf(r) - FirstOf(r)

Within(r, a) == r.base <= a /\ a < r.base + r.size

tlsf_region_activate(h, r) ==
  LET start == StartOf(r)
      first == FirstOf(r)
      end == EndOf(r)
      mapped == [h EXCEPT
        !.blk = [a \in DOMAIN h.blk \cup {start, first, end} |->
                   IF a = start THEN [size |-> Header, used |-> TRUE, prev |-> 0]
                   ELSE IF a = first THEN [size |-> UsableOf(r), used |-> FALSE, prev |-> Header]
                   ELSE IF a = end THEN [size |-> Header, used |-> TRUE, prev |-> UsableOf(r)]
                   ELSE h.blk[a]],
        !.regions = @ \cup {r}]
  IN tlsf_free_insert(mapped, first)

tlsf_region_cache_flush(h) == [h EXCEPT !.cache = {}, !.ccount = 0, !.cbytes = 0]

(* mutant: the region is cached and not counted *)
MutPutUncounted(h, r) ==
  IF h.ccount >= CacheMax \/ r.size > CacheBytes - h.cbytes THEN h
  ELSE [h EXCEPT !.cache = @ \cup {r}]

(* A cached region keeps its mapping; one the cache has no room for is     *)
(* unmapped.                                                               *)
tlsf_region_put_cache(h, r) ==
  IF h.ccount >= CacheMax \/ r.size > CacheBytes - h.cbytes
  THEN h
  ELSE [h EXCEPT !.cache = @ \cup {r}, !.ccount = @ + 1, !.cbytes = @ + r.size]

(* mutant: takes the smallest cached region, large enough or not *)
MutAnyCached(h, min_usable) ==
  {r \in h.cache : \A q \in h.cache : UsableOf(r) <= UsableOf(q)}

(* The regions tlsf_region_take_cache may take: a smallest one that is     *)
(* large enough.                                                           *)
BestCached(h, min_usable) ==
  LET fits == {r \in h.cache : UsableOf(r) >= min_usable}
  IN {r \in fits : \A q \in fits : UsableOf(r) <= UsableOf(q)}

tlsf_region_take_cache(h, r) ==
  [h EXCEPT !.cache = @ \ {r}, !.ccount = @ - 1, !.cbytes = @ - r.size]

(* tlsf_region_remove, and the blocks of r leave the heap with it.         *)
tlsf_region_remove(h, r) ==
  [h EXCEPT !.regions = @ \ {r},
            !.blk = [a \in {x \in DOMAIN h.blk : ~Within(r, x)} |-> h.blk[a]]]

(* mmap (external): the kernel returns any page-aligned range that is not  *)
(* mapped, and may fail at any time.                                       *)
mmap(h, size) ==
  {r \in [base : Bases, size : {size}] :
     /\ r.base + size <= AddrMax
     /\ \A q \in h.regions \cup h.cache :
          r.base + r.size <= q.base \/ q.base + q.size <= r.base}

(* The size of a new region for blocks of class minimum cmin; 0 when there *)
(* can be none.                                                            *)
RegionSize(cmin) ==
  LET size == RoundUp(AtMost(AtLeast(cmin + RegionOverhead, RegionMin), MaxBlock), Page)
  IN IF size < cmin + RegionOverhead \/ size > MaxBlock THEN 0 ELSE size

(* The heaps tlsf_grow may leave, each with what it returns.  When mmap    *)
(* fails the cache is flushed and mmap is tried once more.                 *)
tlsf_grow(h, need) ==
  LET c == tlsf_mapping_search(need)
      cmin == tlsf_class_min(c)
      size == RegionSize(cmin)
      flushed == tlsf_region_cache_flush(h)
      failed(x) == {[h |-> x, ok |-> FALSE]}
  IN IF \/ c = NoClass
        \/ cmin < need
        \/ cmin > MaxBlock - RegionOverhead
     THEN failed(h)
     ELSE IF BestCached(h, cmin) # {}
     THEN {[h |-> tlsf_region_activate(tlsf_region_take_cache(h, r), r), ok |-> TRUE] :
             r \in BestCached(h, cmin)}
     ELSE IF size = 0 THEN failed(h)
     ELSE {[h |-> tlsf_region_activate(h, r), ok |-> TRUE] : r \in mmap(h, size)}
          \cup {[h |-> tlsf_region_activate(flushed, r), ok |-> TRUE] :
                  r \in mmap(flushed, size)}
          \cup failed(flushed)

-----------------------------------------------------------------------------
(* The public functions *)

tlsf_block_payload(b) == b + Header
tlsf_payload_block(p) == p - Header

(* The tail of malloc: take block b off its list, trim it, mark it used.   *)
Take(h, b, need) == SetUsed(tlsf_split(tlsf_free_remove(h, b), b, need), b, TRUE)

(* What malloc may leave, each heap with the pointer returned.             *)
malloc(h, size) ==
  LET need == tlsf_size_to_block(size)
      found(x) == LET b == tlsf_find(x, need) IN
                  IF b = NULL THEN [h |-> x, ptr |-> NULL]
                  ELSE [h |-> Take(x, b, need), ptr |-> tlsf_block_payload(b)]
  IN IF need = 0 THEN {[h |-> h, ptr |-> NULL]}
     ELSE IF tlsf_find(h, need) # NULL THEN {found(h)}
     ELSE {IF g.ok THEN found(g.h) ELSE [h |-> g.h, ptr |-> NULL] :
             g \in tlsf_grow(h, need)}

tlsf_free_block(h, b) ==
  LET freed == SetUsed(h, b, FALSE)
      next == NextBlock(freed, b)
      h1 == IF freed.blk[next].used THEN freed
            ELSE Absorb(tlsf_free_remove(freed, next), b)
      prev == PrevBlock(h1, b)
      h2 == IF h1.blk[prev].used THEN h1
            ELSE Absorb(tlsf_free_remove(h1, prev), prev)
      whole == IF h1.blk[prev].used THEN b ELSE prev
      empty == {r \in h2.regions : whole = FirstOf(r) /\ h2.blk[whole].size = UsableOf(r)}
  IN IF empty = {} THEN tlsf_free_insert(h2, whole)
     ELSE LET r == CHOOSE r \in empty : TRUE
          IN tlsf_region_put_cache(tlsf_region_remove(h2, r), r)

free(h, p) ==
  LET b == tlsf_payload_block(p)
  IN IF p = NULL \/ ~h.blk[b].used THEN h ELSE tlsf_free_block(h, b)

Drop(p) == [q \in DOMAIN owned \ {p} |-> owned[q]]
Hold(f, p, size) == [q \in DOMAIN f \cup {p} |-> IF q = p THEN size ELSE f[q]]

Init ==
  /\ heap = [blk |-> << >>, links |-> << >>,
             head |-> [c \in Classes |-> NULL],
             sl |-> [f \in 0..FLMax |-> {}], fl |-> {},
             regions |-> {}, cache |-> {}, ccount |-> 0, cbytes |-> 0]
  /\ owned = << >>

Malloc(size) ==
  /\ Cardinality(DOMAIN owned) < MaxLive
  /\ \E r \in malloc(heap, size) :
       /\ heap' = r.h
       /\ owned' = IF r.ptr = NULL THEN owned ELSE Hold(owned, r.ptr, size)

(* calloc multiplies after a check that the product does not wrap.         *)
Calloc(nmemb, size) ==
  /\ nmemb # 0 /\ size # 0
  /\ nmemb <= SizeMax \div size
  /\ Malloc(nmemb * size)

Free(p) ==
  /\ heap' = free(heap, p)
  /\ owned' = Drop(p)

(* The block is large enough already: it is trimmed.                       *)
ReallocShrink(p, size) ==
  LET b == tlsf_payload_block(p)
      need == tlsf_size_to_block(size)
  IN /\ need # 0
     /\ need <= heap.blk[b].size
     /\ heap' = tlsf_split(heap, b, need)
     /\ owned' = [owned EXCEPT ![p] = size]

(* Whether the block and the free block behind it are large enough.        *)
CanExtend(h, b, need) ==
  LET next == NextBlock(h, b)
  IN ~h.blk[next].used /\ h.blk[b].size + h.blk[next].size >= need

ReallocExtend(p, size) ==
  LET b == tlsf_payload_block(p)
      need == tlsf_size_to_block(size)
  IN /\ need > heap.blk[b].size
     /\ CanExtend(heap, b, need)
     /\ heap' = tlsf_split(Absorb(tlsf_free_remove(heap, NextBlock(heap, b)), b), b, need)
     /\ owned' = [owned EXCEPT ![p] = size]

(* Copy to a new block and free the old one; when malloc fails the old     *)
(* block stays.                                                            *)
ReallocMove(p, size) ==
  LET b == tlsf_payload_block(p)
      need == tlsf_size_to_block(size)
  IN /\ need > heap.blk[b].size
     /\ ~CanExtend(heap, b, need)
     /\ \E r \in malloc(heap, size) :
          IF r.ptr = NULL
          THEN heap' = r.h /\ UNCHANGED owned
          ELSE heap' = free(r.h, p) /\ owned' = Hold(Drop(p), r.ptr, size)

(* realloc(NULL, size) is Malloc(size); a size tlsf_size_to_block refuses   *)
(* leaves everything as it is.                                             *)
Realloc(p, size) ==
  \/ size = 0 /\ Free(p)
  \/ ReallocShrink(p, size)
  \/ ReallocExtend(p, size)
  \/ ReallocMove(p, size)

Next ==
  \/ \E size \in Sizes : Malloc(size)
  \/ \E nmemb, size \in Sizes : Calloc(nmemb, size)
  \/ \E p \in DOMAIN owned : Free(p)
  \/ \E p \in DOMAIN owned, size \in Sizes : Realloc(p, size)

Spec == Init /\ [][Next]_vars

-----------------------------------------------------------------------------
(* Properties *)

Region == [base : Bases, size : Nat]
Block == [size : Nat, used : BOOLEAN, prev : Nat]
Link == [next : Nat, prev : Nat]

(* Type correctness of the heap and of the program's pointers.             *)
TypeOK ==
  /\ DOMAIN heap.blk \subseteq Addr
  /\ \A b \in DOMAIN heap.blk : heap.blk[b] \in Block
  /\ DOMAIN heap.links \subseteq Addr
  /\ \A b \in DOMAIN heap.links : heap.links[b] \in Link
  /\ heap.head \in [Classes -> Nat]
  /\ heap.sl \in [0..FLMax -> SUBSET (0..SLCount-1)]
  /\ heap.fl \subseteq 0..FLMax
  /\ heap.regions \subseteq Region /\ heap.cache \subseteq Region
  /\ heap.ccount \in Nat /\ heap.cbytes \in Int
  /\ \A p \in DOMAIN owned : p \in Nat /\ owned[p] \in Nat

Starts(h) == {StartOf(r) : r \in h.regions}
Ends(h) == {EndOf(r) : r \in h.regions}
FreeBlocks(h) == {b \in DOMAIN h.blk : ~h.blk[b].used}

(* Boundary tags: from every block but an end sentinel one reaches the     *)
(* block behind it, which records this block's size, and from every block  *)
(* but a start sentinel the block before it.  free() and tlsf_split()      *)
(* coalesce along these two links, so a wrong tag merges foreign memory.   *)
Tiled(h) ==
  /\ \A b \in DOMAIN h.blk \ Ends(h) :
       /\ NextBlock(h, b) \in DOMAIN h.blk
       /\ h.blk[NextBlock(h, b)].prev = h.blk[b].size
  /\ \A b \in DOMAIN h.blk \ Starts(h) :
       /\ PrevBlock(h, b) \in DOMAIN h.blk
       /\ h.blk[PrevBlock(h, b)].size = h.blk[b].prev

(* Blocks never overlap, and each lies in one active region.               *)
Disjoint(h) ==
  /\ \A a, b \in DOMAIN h.blk : a < b => NextBlock(h, a) <= b
  /\ \A b \in DOMAIN h.blk : \E r \in h.regions :
       StartOf(r) <= b /\ NextBlock(h, b) <= r.base + r.size

BoundaryTags == Tiled(heap) /\ Disjoint(heap)

(* Two free blocks are never neighbours: every path that frees memory, in  *)
(* free(), in the tail of a split and in realloc(), coalesces.             *)
NoAdjacentFree ==
  \A b \in FreeBlocks(heap) : heap.blk[NextBlock(heap, b)].used

(* The links of the two-level index: the free blocks are doubly linked,    *)
(* within their class, from the head of the class, and the bitmaps say     *)
(* which heads are not NULL.                                               *)
IndexSound ==
  /\ DOMAIN heap.links = FreeBlocks(heap)
  /\ \A b \in FreeBlocks(heap) :
       LET l == heap.links[b] IN
       /\ l.next # NULL =>
            /\ l.next \in FreeBlocks(heap) /\ heap.links[l.next].prev = b
            /\ ClassOf(heap, l.next) = ClassOf(heap, b)
       /\ IF l.prev = NULL THEN heap.head[ClassOf(heap, b)] = b
          ELSE l.prev \in FreeBlocks(heap) /\ heap.links[l.prev].next = b
  /\ \A c \in Classes : heap.head[c] # NULL =>
       heap.head[c] \in FreeBlocks(heap) /\ ClassOf(heap, heap.head[c]) = c
  /\ \A c \in Classes : heap.head[c] # NULL <=> c[2] \in heap.sl[c[1]]
  /\ \A f \in 0..FLMax : f \in heap.fl <=> heap.sl[f] # {}

(* The blocks on the list of class c, following the next links.            *)
Listed(h, c) ==
  LET reach[n \in 0..Cardinality(DOMAIN h.links)] ==
        IF n = 0 THEN {h.head[c]} \ {NULL}
        ELSE reach[n-1] \cup ({h.links[b].next : b \in reach[n-1]} \ {NULL})
  IN reach[Cardinality(DOMAIN h.links)]

(* The two-level index is exact: it is well linked, and the list of each   *)
(* class holds the free blocks of that class, all of them and nothing      *)
(* else, so that a coalesced block is never left behind on a list.         *)
IndexExact ==
  /\ IndexSound
  /\ \A c \in Classes : Listed(heap, c) = {b \in FreeBlocks(heap) : ClassOf(heap, b) = c}

(* No leak and no theft: the used blocks are the sentinels and the blocks  *)
(* of the pointers the program holds.                                      *)
NoLeak ==
  /\ {b \in DOMAIN heap.blk : heap.blk[b].used}
       = Starts(heap) \cup Ends(heap) \cup {tlsf_payload_block(p) : p \in DOMAIN owned}
  /\ \A p \in DOMAIN owned : tlsf_payload_block(p) \notin Starts(heap) \cup Ends(heap)

(* Beyond NoLeak, the block of each pointer is aligned and large enough    *)
(* for what the program last asked for.                                    *)
OwnedBlocks ==
  /\ NoLeak
  /\ \A p \in DOMAIN owned :
       owned[p] + Header <= heap.blk[tlsf_payload_block(p)].size /\ p % Align = 0

(* The region cache respects both its limits, and mapped regions, active   *)
(* or cached, share no memory.                                             *)
CacheLimits ==
  /\ heap.ccount = Cardinality(heap.cache) /\ heap.ccount <= CacheMax
  /\ heap.cbytes <= CacheBytes
  /\ \A r, q \in heap.regions \cup heap.cache :
       r # q => r.base + r.size <= q.base \/ q.base + q.size <= r.base
  /\ heap.regions \cap heap.cache = {}

SumSizes(S) ==
  LET sum[T \in SUBSET S] ==
        IF T = {} THEN 0 ELSE LET r == CHOOSE r \in T : TRUE IN r.size + sum[T \ {r}]
  IN sum[S]

(* Beyond CacheLimits, the byte counter tells the contents of the cache,   *)
(* so that neither it nor the unsigned difference that                     *)
(* tlsf_region_put_cache takes with it ever wraps.                         *)
CacheAccounting == CacheLimits /\ heap.cbytes = SumSizes(heap.cache)

(* An active region always holds a block in use: the last free() of a      *)
(* region takes it off the list, and malloc() never activates a region it  *)
(* does not allocate from.                                                 *)
NoIdleRegion ==
  \A r \in heap.regions : heap.blk[FirstOf(r)].used \/ heap.blk[FirstOf(r)].size # UsableOf(r)

(* malloc() asks for another region only when no free block is as large as *)
(* the class it searches: the bitmaps never hide a block that fits.        *)
GrowOnlyWhenExhausted ==
  [][\A p \in DOMAIN owned' \ DOMAIN owned :
       \A r \in heap'.regions \ heap.regions : \A b \in FreeBlocks(heap) :
         heap.blk[b].size
           < tlsf_class_min(tlsf_mapping_search(tlsf_size_to_block(owned'[p])))]_vars

(* What the program sees of the heap is what HeapSpec describes.           *)
H == INSTANCE HeapSpec WITH live <- owned

(* malloc.c implements the interface HeapSpec describes: every step of the *)
(* allocator is an allocation, a release or a resize of its pointers, or   *)
(* leaves them alone.                                                      *)
ImplementsHeapSpec == H!Spec
=============================================================================
