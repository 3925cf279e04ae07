----------------------- MODULE MetalCachingAllocator -----------------------
(***************************************************************************)
(* metal_caching_allocator::Impl: the bookkeeping of BlockCache without    *)
(* streams and events (dispatch is synchronous), under one lock that       *)
(* allocate keeps across the driver call, with segments that are buffers   *)
(* of shared heaps. Metal itself is external: a heap hands out a buffer    *)
(* when it has room, and the device when DeviceMemory has.                 *)
(***************************************************************************)
EXTENDS BlockCache

CONSTANTS MetalSizes, MetalCaps, MetalLimits, MetalMemory,
          kSmallHeapBytes, kLargeHeapBytes,
          MetalCalls         \* bound on the number of calls of allocate

ASSUME MetalAssumption ==
  /\ MetalSizes \subseteq Nat \ {0}
  /\ MetalCaps \cup MetalLimits \cup {MetalMemory, MetalCalls} \subseteq Nat
  /\ {kSmallHeapBytes, kLargeHeapBytes} \subseteq Nat \ {0}

VARIABLES mcache,     \* the bookkeeping
          heaps,      \* heaps_, the size of each
          buffer,     \* for every segment the heap of its MTLBuffer; 0: none
          cap, limit, \* max_cached_bytes_, allowed_memory_maximum_
          mcallback,  \* whether a free-memory callback is registered
          mcalls,     \* calls of allocate so far
          mgone

mvars == <<mcache, heaps, buffer, cap, limit, mcallback, mcalls, mgone>>

MInit == /\ mcache = NewCache
         /\ heaps = <<>>
         /\ buffer = [b \in {} |-> 0]
         /\ cap = Max(MetalCaps) /\ limit = Max(MetalLimits) /\ mcallback = FALSE
         /\ mcalls = 0
         /\ mgone = FALSE

SizeOf(c, b) == c.segs[SelectInSeq(c.segs, LAMBDA g : g.base = b)].size
BasesOf(c) == {g.base : g \in Range(c.segs)}

\* ARC releases the buffers of the segments that are gone.
Kept(c) == [b \in DOMAIN buffer \cap BasesOf(c) |-> buffer[b]]

\* Room in heap h (maxAvailableSizeWithAlignment) when c holds the segments.
Room(c, h) == heaps[h] - MapThenSumSet(LAMBDA b : SizeOf(c, b), {b \in DOMAIN Kept(c) : buffer[b] = h})

DeviceRoom(c) == MetalMemory - FoldLeft(LAMBDA n, k : n + k, 0, heaps)
                   - MapThenSumSet(LAMBDA b : SizeOf(c, b), {b \in DOMAIN Kept(c) : buffer[b] = 0})

\* The first heap with room, else a new heap of the size class, else a buffer
\* of its own: the possible <<heap, heaps>>.
make_heap_buffer(c, n) ==
  LET roomy == {h \in DOMAIN heaps : Room(c, h) >= n}
      class == IF n <= kSmallBuffer THEN kSmallHeapBytes ELSE kLargeHeapBytes
      size == Max({class, n})
  IN  IF roomy # {} THEN {<<Min(roomy), heaps>>}
      ELSE IF size <= DeviceRoom(c) THEN {<<Len(heaps) + 1, Append(heaps, size)>>}
      ELSE IF n <= DeviceRoom(c) THEN {<<0, heaps>>}
      ELSE {}

mreserved_would_exceed(c, n) == c.reserved + n > limit

mdeallocate(c, i) ==
  trim_cache(free_block([c EXCEPT !.live = @ \ {i}, !.allocated = @ - c.block[i].size], i), cap)

mtrigger_free_memory_callbacks(c) ==
  {[cache |-> c, freed |-> FALSE]} \cup
  IF mcallback THEN {[cache |-> mdeallocate(c, i), freed |-> TRUE] : i \in c.live} ELSE {}

\* allocate after a cache miss: the limit, the driver, and one retry with an
\* emptied cache. The second outcome is std::bad_alloc.
MissOutcomes(c, n) ==
  LET segment == segment_size_for(n)
      flushed == IF mreserved_would_exceed(c, segment) THEN release_pool_blocks(c) ELSE c
      empty == release_pool_blocks(flushed)
      from == IF make_heap_buffer(flushed, segment) # {} THEN flushed ELSE empty
      base == Min((1..MetalMemory) \ BasesOf(from))
  IN  IF mreserved_would_exceed(flushed, segment) \/ make_heap_buffer(from, segment) = {}
      THEN {[cache |-> from, heaps |-> heaps, buffer |-> Kept(from)]}
      ELSE {LET d == AddSegment(from, base, segment, n <= kSmallSize, NullStream)
            IN  [cache |-> trim_cache(alloc_found_block(d, FreshBlock(from), n), cap),
                 heaps |-> m[2], buffer |-> (base :> m[1]) @@ Kept(from)]
              : m \in make_heap_buffer(from, segment)}

MetalAllocate(size) ==
  LET n == round_request_size(size)
      Found(c) == get_free_block(c, n <= kSmallSize, NullStream, n)
  IN  /\ mcalls < MetalCalls /\ mcalls' = mcalls + 1
      /\ \E r \in IF Found(mcache) # NoBlock THEN {[cache |-> mcache, freed |-> FALSE]}
                  ELSE mtrigger_free_memory_callbacks(mcache) :
           LET hit == IF Found(mcache) # NoBlock \/ r.freed THEN Found(r.cache) ELSE NoBlock IN
           \/ /\ hit # NoBlock
              /\ mcache' = trim_cache(alloc_found_block(TakeFromPool(r.cache, hit), hit, n), cap)
              /\ buffer' = Kept(mcache')
              /\ UNCHANGED heaps
           \/ /\ hit = NoBlock
              /\ \E m \in MissOutcomes(r.cache, n) :
                   mcache' = m.cache /\ heaps' = m.heaps /\ buffer' = m.buffer
      /\ UNCHANGED <<cap, limit, mcallback>>

MetalDeallocate(i) ==
  /\ mcache' = mdeallocate(mcache, i)
  /\ buffer' = Kept(mcache')
  /\ UNCHANGED <<heaps, cap, limit, mcallback, mcalls>>

\* The heaps go only when nothing is allocated.
heaps_cleared_always == TRUE
heaps_cleared == mcache.live = {}

MetalEmptyCache ==
  /\ mcache' = release_pool_blocks(mcache)
  /\ buffer' = Kept(mcache')
  /\ heaps' = IF heaps_cleared THEN <<>> ELSE heaps
  /\ UNCHANGED <<cap, limit, mcallback, mcalls>>

MetalSetMaxCachedBytes(n) ==
  /\ cap' = n
  /\ mcache' = trim_cache(mcache, n)
  /\ buffer' = Kept(mcache')
  /\ UNCHANGED <<heaps, limit, mcallback, mcalls>>

MetalSetMemoryFraction(n) == limit' = n /\ UNCHANGED <<mcache, heaps, buffer, cap, mcallback, mcalls>>

MetalSetCallback(on) == mcallback' = on /\ UNCHANGED <<mcache, heaps, buffer, cap, limit, mcalls>>

\* The destructor collects whole chains, so that it deletes each block once,
\* and drops the buffers and heaps.
MetalDestroy ==
  /\ mgone' = TRUE
  /\ mcache' = [NewCache EXCEPT !.segs = SelectSeq(mcache.segs, LAMBDA g : g.base \notin HeadBases(mcache))]
  /\ buffer' = Kept(mcache')
  /\ heaps' = <<>>
  /\ UNCHANGED <<cap, limit, mcallback, mcalls>>

MNext == \/ /\ ~mgone
            /\ \/ \E n \in MetalSizes : MetalAllocate(n)
               \/ \E i \in mcache.live : MetalDeallocate(i)
               \/ MetalEmptyCache
               \/ \E n \in MetalCaps \ {cap} : MetalSetMaxCachedBytes(n)
               \/ \E n \in MetalLimits \ {limit} : MetalSetMemoryFraction(n)
               \/ \E on \in BOOLEAN \ {mcallback} : MetalSetCallback(on)
            /\ UNCHANGED mgone
         \/ ~mgone /\ MetalDestroy
         \/ mgone /\ UNCHANGED mvars

\* resolve_live_allocation: the live blocks that the search for an interior
\* pointer can return; the code takes the first it meets.
resolve_live_allocation(b, off) ==
  {i \in mcache.live : /\ mcache.block[i].base = b
                       /\ mcache.block[i].off <= off /\ off < mcache.block[i].off + mcache.block[i].size}

(***************************************************************************)
(* Properties                                                              *)
(***************************************************************************)

\* Segments stay tiled, the counters are exact and free neighbours merged,
\* through splits, merges, trimming, callbacks and retries.
MetalBooksBalance ==
  mgone \/ (TiledIn(mcache) /\ CountersAgreeIn(mcache) /\ MergedIn(mcache))

\* An interior pointer resolves to at most one buffer, so the order in which
\* the search meets the blocks does not matter.
ResolvesUniquely ==
  \A g \in Range(mcache.segs) : \A off \in 0..(g.size - 1) :
    Cardinality(resolve_live_allocation(g.base, off)) <= 1

\* Every buffer belongs to a heap that is still held: dropping the heaps with
\* nothing allocated never strands a segment that is split or cached.
HeapsOutliveBuffers == \A b \in DOMAIN buffer : buffer[b] \in 0..Len(heaps)

\* The lock is held across the driver call, so a new segment never exceeds
\* the limit (unlike in the CUDA allocator).
MetalWithinLimit ==
  [][mcache'.reserved > mcache.reserved => mcache'.reserved <= limit]_mvars

\* The Metal allocator keeps its books, its heaps and its limit.
MetalSound == /\ [](MetalBooksBalance /\ ResolvesUniquely /\ HeapsOutliveBuffers)
              /\ MetalWithinLimit
=============================================================================
