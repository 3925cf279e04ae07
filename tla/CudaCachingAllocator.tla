------------------------ MODULE CudaCachingAllocator ------------------------
(***************************************************************************)
(* cuda_caching_allocator::Impl. Every operation runs under mutex_ and is  *)
(* one step, except allocate on a cache miss: it drops the lock across the *)
(* driver call, so the rest of the request is separate steps. The device   *)
(* and the driver are external. Errors that lose the device (a failing     *)
(* query or synchronization of an event) are left out.                     *)
(***************************************************************************)
EXTENDS BlockCache

CONSTANTS Thread,            \* threads that call allocate
          Clients,           \* the sets of calls that the clients may make
          DeviceMemory,      \* what the driver can hand out
          Granularity        \* of driver allocations with virtual memory

ASSUME CudaAssumption ==
  /\ \A c \in Clients : /\ c.threads \subseteq Thread /\ c.sizes \subseteq Nat \ {0}
                        /\ c.homes \cup c.hints \subseteq Stream
                        /\ c.caps \cup c.limits \cup {c.calls} \subseteq Nat
                        /\ c.callbacks \subseteq BOOLEAN
  /\ DeviceMemory \in Nat /\ Granularity \in Nat \ {0}

\* A member of Clients: the threads that allocate, the sizes they request and
\* the streams they allocate on (homes), the streams that use the memory
\* (hints), the settings they choose, and a bound on their calls other than
\* deallocate.
VARIABLES client,     \* rigid: a member of Clients
          cache,      \* the bookkeeping, see BlockCache
          request,    \* the allocate call of each thread that is under way
          max_cached_bytes, allowed_memory_maximum,
          calls,      \* calls so far, for client.calls
          callbacks,  \* whether a free-memory callback is registered
          peak_limit, \* history: the highest limit there has been
          threw,      \* history: a call has ended in an exception and no call trimmed since
          gone        \* the destructor has run

vars == <<client, cache, request, calls, max_cached_bytes, allowed_memory_maximum, callbacks,
          peak_limit, threw, gone>>

Idle == [pc |-> "idle", size |-> 0, stream |-> NullStream, retry |-> FALSE, base |-> 0, got |-> 0]

Init == /\ client \in Clients
        /\ cache = NewCache
        /\ request = [t \in Thread |-> Idle]
        /\ max_cached_bytes \in client.caps
        /\ allowed_memory_maximum \in client.limits
        /\ callbacks \in client.callbacks
        /\ calls = 0
        /\ peak_limit = allowed_memory_maximum
        /\ threw = FALSE
        /\ gone = FALSE

(***************************************************************************)
(* Deferred frees                                                          *)
(***************************************************************************)
\* The work that the device has still to run on a freed block: a stream runs
\* its work in order, and behind the work the event, if it was recorded.
DeviceWork(c, i, uses, recorded) ==
  LET b == c.block[i] IN
  [s \in Stream |-> IF s \in uses
     THEN Append(c.work[s], [base |-> b.base, lo |-> b.off, hi |-> b.off + b.size, event |-> s \in recorded])
     ELSE c.work[s]]

\* The events of a stream that the device has still to reach.
Ahead(w) == {k \in DOMAIN w : w[k].event}

\* cudaEventQuery succeeds on the events of the queue that the device has
\* passed; cudaEventSynchronize waits for the last one.
Passed(c, s) == Len(c.events[s]) - Cardinality(Ahead(c.work[s]))
Synchronized(w) == SubSeq(w, Max(Ahead(w) \cup {0}) + 1, Len(w))

PopEvent(c, s) ==
  LET i == Head(c.events[s])
      d == [c EXCEPT !.events[s] = Tail(@), !.block[i].event_count = @ - 1]
  IN  IF d.block[i].event_count = 0 THEN free_block(d, i) ELSE d

Drain(c, s, n) == FoldLeft(LAMBDA d, k : PopEvent(d, s), c, [k \in 1..n |-> k])

process_events(c) == FoldLeft(LAMBDA d, s : Drain(d, s, Passed(d, s)), c, SetToSeq(Stream))

synchronize_and_free_events(c) ==
  FoldLeft(LAMBDA d, s : Drain([d EXCEPT !.work[s] = Synchronized(@)], s, Len(d.events[s])), c, SetToSeq(Stream))

release_cached_blocks(c) == release_pool_blocks(synchronize_and_free_events(c))

\* An event on each stream that has used the block. Recording may fail after
\* some of them (recorded is what succeeded): the other streams are forgotten,
\* whatever they have still to run, and a block without any event is freed at
\* once.
insert_events_orphaning(c, i, uses, recorded) ==
  [c EXCEPT !.block[i].stream_uses = {}, !.block[i].event_count = Cardinality(recorded),
            !.events = [s \in Stream |-> IF s \in recorded THEN Append(@[s], i) ELSE @[s]],
            !.work = DeviceWork(c, i, uses, recorded)]
insert_events(c, i, uses, recorded) ==
  LET d == [c EXCEPT !.block[i].stream_uses = {}, !.block[i].event_count = Cardinality(recorded),
              !.events = [s \in Stream |-> IF s \in recorded THEN Append(@[s], i) ELSE @[s]],
              !.work = DeviceWork(c, i, uses, recorded)]
  IN  IF recorded = {} THEN free_block(d, i) ELSE d

\* The block leaves allocated_blocks_.
Unallocate(c, i) == [c EXCEPT !.live = @ \ {i}, !.allocated = @ - c.block[i].size]

(***************************************************************************)
(* allocate                                                                *)
(***************************************************************************)
reserved_would_exceed_before(c, n) == c.reserved > allowed_memory_maximum
reserved_would_exceed(c, n) == c.reserved + n > allowed_memory_maximum

\* A callback runs under the recursive lock. It frees a block that it owns,
\* empties the cache, or has nothing to give.
trigger_free_memory_callbacks(c) ==
  {[cache |-> c, freed |-> FALSE]} \cup
  IF ~callbacks THEN {}
  ELSE {[cache |-> release_cached_blocks(c), freed |-> TRUE]} \cup
       {[cache |-> trim_cache(free_block(Unallocate(process_events(c), i), i), max_cached_bytes),
         freed |-> TRUE] : i \in {j \in c.live : c.block[j].stream_uses = {}}}

Serve(c, i, n) == trim_cache(alloc_found_block(c, i, round_request_size(n)), max_cached_bytes)

Called == calls < client.calls /\ calls' = calls + 1

\* The part of allocate before the lock is dropped.
Allocate(t, n, s) ==
  LET small == round_request_size(n) <= kSmallSize
      Found(c) == get_free_block(c, small, s, round_request_size(n))
      segment == segment_size_for(round_request_size(n))
      polled == process_events(cache)
  IN  /\ request[t] = Idle
      /\ Called
      /\ \E r \in IF Found(polled) # NoBlock THEN {[cache |-> polled, freed |-> FALSE]}
                  ELSE trigger_free_memory_callbacks(polled) :
           LET hit == IF Found(polled) # NoBlock \/ r.freed THEN Found(r.cache) ELSE NoBlock
               flushed == IF reserved_would_exceed(r.cache, segment)
                          THEN release_cached_blocks(r.cache) ELSE r.cache
           IN  \/ /\ hit # NoBlock
                  /\ cache' = Serve(TakeFromPool(r.cache, hit), hit, n)
                  /\ threw' = FALSE
                  /\ UNCHANGED request
               \/ /\ hit = NoBlock
                  /\ ~reserved_would_exceed(flushed, segment)
                  /\ cache' = flushed
                  /\ request' = [request EXCEPT ![t] = [Idle EXCEPT !.pc = "driver", !.size = n, !.stream = s]]
                  /\ UNCHANGED threw
               \/ /\ hit = NoBlock
                  /\ reserved_would_exceed(flushed, segment)
                  /\ cache' = flushed
                  /\ threw' = TRUE
                  /\ UNCHANGED request
      /\ UNCHANGED <<max_cached_bytes, allowed_memory_maximum, callbacks, peak_limit>>

SegmentSize(t) == segment_size_for(round_request_size(request[t].size))

\* What the driver has handed out, and the addresses of it.
Mapped == {t \in Thread : request[t].pc = "mapped"}
InUse == MapThenSumSet(LAMBDA t : request[t].got, Mapped)
           + FoldLeft(LAMBDA n, g : n + g.size, 0, cache.segs)
Bases == {g.base : g \in Range(cache.segs)} \cup {request[t].base : t \in Mapped}

\* Virtual memory is padded to the granularity of the driver; when a step of
\* mapping it fails, what was done is undone and cudaMalloc is tried.
Padded(n) == RoundUp(n, Granularity)

\* malloc_segment, without the lock.
DriverMalloc(t) ==
  /\ request[t].pc = "driver"
  /\ \E n \in {SegmentSize(t), Padded(SegmentSize(t))} :
       /\ InUse + n <= DeviceMemory
       /\ request' = [request EXCEPT ![t].pc = "mapped", ![t].got = n,
                                     ![t].base = Min((1..DeviceMemory) \ Bases)]
  /\ UNCHANGED <<cache, calls, max_cached_bytes, allowed_memory_maximum, callbacks, peak_limit, threw>>

\* With the lock again: register the segment and serve the request.
AllocateMapped(t) ==
  LET r == request[t]
      c == AddSegment(cache, r.base, r.got, round_request_size(r.size) <= kSmallSize, r.stream)
  IN  /\ r.pc = "mapped"
      /\ cache' = Serve(c, FreshBlock(cache), r.size)
      /\ request' = [request EXCEPT ![t] = Idle]
      /\ threw' = FALSE
      /\ UNCHANGED <<calls, max_cached_bytes, allowed_memory_maximum, callbacks, peak_limit>>

\* Out of memory: flush the cache and retry once.
DriverRefuses(t) ==
  /\ request[t].pc = "driver"
  /\ InUse + SegmentSize(t) > DeviceMemory
  /\ \/ /\ ~request[t].retry
        /\ cache' = release_cached_blocks(cache)
        /\ request' = [request EXCEPT ![t].retry = TRUE]
        /\ UNCHANGED threw
     \/ /\ request[t].retry
        /\ request' = [request EXCEPT ![t] = Idle]
        /\ threw' = TRUE
        /\ UNCHANGED cache
  /\ UNCHANGED <<calls, max_cached_bytes, allowed_memory_maximum, callbacks, peak_limit>>

\* Any other driver error is thrown.
DriverError(t) ==
  /\ request[t].pc = "driver"
  /\ request' = [request EXCEPT ![t] = Idle]
  /\ threw' = TRUE
  /\ UNCHANGED <<cache, calls, max_cached_bytes, allowed_memory_maximum, callbacks, peak_limit>>

(***************************************************************************)
(* The other operations                                                    *)
(***************************************************************************)
\* hint is the stream that the caller passes.
Deallocate(i, hint) ==
  LET b == cache.block[i]
      c == Unallocate(process_events(cache), i)
      uses == b.stream_uses \cup ({hint} \ {NullStream, b.stream})
  IN  /\ \/ /\ uses = {}
            /\ cache' = trim_cache(free_block(c, i), max_cached_bytes)
            /\ threw' = FALSE
         \/ /\ uses # {}
            /\ cache' = trim_cache(insert_events(c, i, uses, uses), max_cached_bytes)
            /\ threw' = FALSE
         \/ \E recorded \in (SUBSET uses) \ {uses} :
              /\ cache' = insert_events(c, i, uses, recorded)
              /\ threw' = TRUE
      /\ UNCHANGED <<request, calls, max_cached_bytes, allowed_memory_maximum, callbacks, peak_limit>>

RecordStream(i, s) ==
  /\ Called
  /\ s # NullStream /\ s # cache.block[i].stream
  /\ cache' = [cache EXCEPT !.block[i].stream_uses = @ \cup {s}]
  /\ UNCHANGED <<request, max_cached_bytes, allowed_memory_maximum, callbacks, peak_limit, threw>>

EmptyCache ==
  /\ Called
  /\ cache' = release_cached_blocks(cache)
  /\ UNCHANGED <<request, max_cached_bytes, allowed_memory_maximum, callbacks, peak_limit, threw>>

SetMaxCachedBytes(n) ==
  /\ Called
  /\ max_cached_bytes' = n
  /\ cache' = trim_cache(cache, n)
  /\ threw' = FALSE
  /\ UNCHANGED <<request, allowed_memory_maximum, callbacks, peak_limit>>

SetMemoryFraction(n) ==
  /\ Called
  /\ allowed_memory_maximum' = n
  /\ peak_limit' = Max({peak_limit, n})
  /\ UNCHANGED <<cache, request, max_cached_bytes, callbacks, threw>>

\* add_free_memory_callback and clear_free_memory_callbacks.
SetCallbacks(on) ==
  /\ Called
  /\ callbacks' = on
  /\ UNCHANGED <<cache, request, max_cached_bytes, allowed_memory_maximum, peak_limit, threw>>

\* The device finishes the oldest work of a stream.
DeviceRuns(s) ==
  /\ cache.work[s] # <<>>
  /\ cache' = [cache EXCEPT !.work[s] = Tail(@)]
  /\ UNCHANGED <<request, calls, max_cached_bytes, allowed_memory_maximum, callbacks, peak_limit, threw>>

\* The destructor gives every segment that it finds back to the driver.
release_all_blocks(c) ==
  [NewCache EXCEPT !.segs = SelectSeq(c.segs, LAMBDA g : g.base \notin HeadBases(c))]

Destroy ==
  /\ \A t \in Thread : request[t] = Idle
  /\ gone' = TRUE
  /\ cache' = release_all_blocks(cache)
  /\ UNCHANGED <<request, calls, max_cached_bytes, allowed_memory_maximum, callbacks, peak_limit, threw>>

Operation ==
  \/ \E t \in client.threads : \E n \in client.sizes, s \in client.homes : Allocate(t, n, s)
  \/ \E t \in Thread : \/ AllocateMapped(t)
                       \/ DriverMalloc(t)
                       \/ DriverRefuses(t)
                       \/ DriverError(t)
  \/ \E i \in cache.live, s \in client.hints : Deallocate(i, s) \/ RecordStream(i, s)
  \/ EmptyCache
  \/ \E n \in client.caps \ {max_cached_bytes} : SetMaxCachedBytes(n)
  \/ \E n \in client.limits \ {allowed_memory_maximum} : SetMemoryFraction(n)
  \/ \E on \in client.callbacks \ {callbacks} : SetCallbacks(on)
  \/ \E s \in Stream : DeviceRuns(s)

Next == \/ ~gone /\ Operation /\ UNCHANGED <<client, gone>>
        \/ ~gone /\ Destroy /\ UNCHANGED client
        \/ gone /\ UNCHANGED vars

Spec == Init /\ [][Next]_vars

(***************************************************************************)
(* Properties                                                              *)
(***************************************************************************)
\* Every field has its type.
TypeOK ==
  /\ DOMAIN cache.block \subseteq BlockId
  /\ cache.pool \cup cache.live \cup Waiting(cache) \subseteq DOMAIN cache.block
  /\ \A i \in DOMAIN cache.block :
       /\ cache.block[i].size \in Nat \ {0} /\ cache.block[i].off \in Nat
       /\ cache.block[i].event_count \in Nat /\ cache.block[i].stream_uses \subseteq Stream
       /\ {cache.block[i].prev, cache.block[i].next} \subseteq DOMAIN cache.block \cup {NoBlock}
  /\ {cache.cached, cache.reserved, cache.allocated} \subseteq Nat
  /\ \A t \in Thread : request[t].pc \in {"idle", "driver", "mapped"}

\* The blocks of a segment tile it, and prev and next link them in the order
\* of their addresses: splits and merges on two sides of a block, also by
\* deferred frees in between, never lose or overlap memory.
Tiled == TiledIn(cache)

\* A block is in a pool, or allocated, or in event queues, exactly one of
\* them, and its event_count is the number of queue entries: an error while
\* events are recorded orphans no block.
OneOwner ==
  \A i \in DOMAIN cache.block :
    /\ Cardinality({o \in {cache.pool, cache.live, Waiting(cache)} : i \in o}) = 1
    /\ cache.block[i].event_count = MapThenSumSet(
         LAMBDA s : Cardinality({k \in DOMAIN cache.events[s] : cache.events[s][k] = i}), Stream)

\* No block that is allocated or in a pool overlaps the memory that the work w
\* uses, and its segment has not been given back to the driver.
Reserved(w) ==
  /\ \E g \in Range(cache.segs) : g.base = w.base
  /\ \A i \in cache.live \cup cache.pool : LET b == cache.block[i] IN
       b.base = w.base => b.off + b.size <= w.lo \/ w.hi <= b.off

\* Memory is not handed out, split off, merged or given back to the driver
\* until every stream with an event for its deferred free has reached the
\* event, also if the event of another stream could not be recorded.
NoEarlyReuse == \A s \in Stream : \A w \in Range(cache.work[s]) : w.event => Reserved(w)

\* The same for all streams that use the memory, as record_stream promises. A
\* stream whose event could not be recorded is forgotten.
ReuseIsDeferred == \A s \in Stream : \A w \in Range(cache.work[s]) : Reserved(w)

\* The counters are the sums that they stand for, whatever was split, merged
\* and deferred in between.
CountersAgree == CountersAgreeIn(cache)

\* Free neighbours have been merged, so with nothing allocated and nothing
\* deferred every segment is whole again and empty_cache releases it.
NothingStranded == MergedIn(cache)

\* With no request in the driver, the cache is within max_cached_bytes or
\* holds only parts of segments. A call that throws skips the trimming.
CapRespected ==
  (~threw /\ \A t \in Thread : request[t] = Idle) =>
     cache.cached <= max_cached_bytes \/ Releasable(cache) = {}

\* The limit is checked before the lock is dropped and before the driver pads
\* the segment: what is reserved can exceed it by the padding of one segment
\* and by one segment of every other thread, and no more than that.
LimitOvershoot ==
  LET largest == Max({Padded(segment_size_for(round_request_size(n))) : n \in client.sizes})
  IN  cache.reserved < peak_limit + Granularity + (Cardinality(client.threads) - 1) * largest

\* The destructor reaches every segment, also those whose only blocks wait
\* for events.
DestructorFreesAll == gone => cache.segs = <<>>

\* The bookkeeping is exact after every call, failing ones included.
CacheSound == TypeOK /\ Tiled /\ OneOwner /\ CountersAgree

\* The segments that the cache holds are within the reach of empty_cache and
\* of the destructor, and within the cap and the limit, as far as dropping the
\* lock allows.
SegmentsKept == NothingStranded /\ DestructorFreesAll /\ CapRespected /\ LimitOvershoot
=============================================================================
