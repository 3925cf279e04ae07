----------------------------- MODULE BlockCache -----------------------------
(***************************************************************************)
(* The bookkeeping that both GPU caching allocators share: segments that   *)
(* the driver has mapped, cut into blocks that are split when a request is *)
(* served and merged again when it is returned.                            *)
(*                                                                         *)
(* A cache is a record:                                                    *)
(*   segs    driver_segments_, in order of registration_counter            *)
(*   block   the cache_block objects that exist, by identity               *)
(*   pool    the blocks in small_blocks_ and large_blocks_                 *)
(*   live    allocated_blocks_                                             *)
(*   events  cuda_events_, a queue of blocks for every stream              *)
(*   work    what the device has still to run on freed blocks, per stream  *)
(*           (external)                                                    *)
(*   cached, reserved, allocated   the byte counters                       *)
(* Peaks, hit and retry counters and the history ring are left out.        *)
(***************************************************************************)
EXTENDS Integers, FiniteSetsExt, SequencesExt

CONSTANTS Stream,            \* cudaStream_t values
          NullStream,        \* the default stream
          kMinBlockSize, kSmallSize, kSmallBuffer,
          kMinLargeAlloc, kLargeBuffer, kRoundLarge,
          MaxBlocks          \* how many cache_block objects may exist

ASSUME BlockCacheAssumption ==
  /\ NullStream \in Stream
  /\ {kMinBlockSize, kSmallSize, kSmallBuffer, kMinLargeAlloc, kLargeBuffer,
      kRoundLarge, MaxBlocks} \subseteq Nat \ {0}
  /\ kSmallSize <= kSmallBuffer /\ kMinLargeAlloc <= kLargeBuffer

NoBlock == 0
BlockId == 1..MaxBlocks

NewCache == [segs |-> <<>>, block |-> [i \in {} |-> {}], pool |-> {}, live |-> {},
               events |-> [s \in Stream |-> <<>>], work |-> [s \in Stream |-> <<>>],
               cached |-> 0, reserved |-> 0, allocated |-> 0]

(***************************************************************************)
(* Size classes                                                            *)
(***************************************************************************)
RoundUp(n, unit) == unit * ((n + unit - 1) \div unit)

round_request_size(n) == IF n < kMinBlockSize THEN kMinBlockSize ELSE RoundUp(n, kMinBlockSize)

segment_size_for(n) == IF n <= kSmallSize THEN kSmallBuffer
                       ELSE IF n < kMinLargeAlloc THEN kLargeBuffer
                       ELSE RoundUp(n, kRoundLarge)

(***************************************************************************)
(* Blocks                                                                  *)
(***************************************************************************)
is_split(b) == b.prev # NoBlock \/ b.next # NoBlock

BytesOf(c, ids) == MapThenSumSet(LAMBDA i : c.block[i].size, ids)

Registration(c, i) == SelectInSeq(c.segs, LAMBDA g : g.base = c.block[i].base)

\* cache_block_comparator on blocks of one stream.
Precedes(c, i, j) ==
  LET a == c.block[i]
      b == c.block[j]
  IN  \/ a.size < b.size
      \/ a.size = b.size /\ Registration(c, i) < Registration(c, j)
      \/ a.size = b.size /\ Registration(c, i) = Registration(c, j) /\ a.off < b.off

\* lower_bound in the pool: the least block of this stream that is large
\* enough, or NoBlock.
get_free_block(c, small, s, n) ==
  LET fits == {i \in c.pool : c.block[i].small = small /\ c.block[i].stream = s
                                /\ c.block[i].size >= n}
  IN  IF fits = {} THEN NoBlock
      ELSE CHOOSE i \in fits : \A j \in fits \ {i} : Precedes(c, i, j)

TakeFromPool(c, i) == [c EXCEPT !.pool = @ \ {i}, !.cached = @ - c.block[i].size]

should_split(b, n) == IF b.small THEN b.size - n >= kMinBlockSize ELSE b.size - n > kSmallSize

FreshBlock(c) == Min(BlockId \ DOMAIN c.block)

\* The front of block i becomes a new block; i keeps the rest, in the pool.
Split(c, i, n) ==
  LET f == FreshBlock(c)
      b == c.block[i]
      rest == [b EXCEPT !.prev = f, !.off = @ + n, !.size = @ - n]
      front == [b EXCEPT !.size = n, !.next = i]
      relinked == IF b.prev = NoBlock THEN c.block ELSE [c.block EXCEPT ![b.prev].next = f]
  IN  [c EXCEPT !.block = (f :> front) @@ [relinked EXCEPT ![i] = rest],
                !.pool = @ \cup {i}, !.cached = @ + rest.size]

alloc_found_block(c, i, n) ==
  LET split == should_split(c.block[i], n)
      d == IF split THEN Split(c, i, n) ELSE c
      j == IF split THEN FreshBlock(c) ELSE i
  IN  [d EXCEPT !.live = @ \cup {j}, !.allocated = @ + d.block[j].size]

\* Mergeable neighbours are the ones that nobody uses.
can_merge_pending(c, src) == src # NoBlock /\ src \notin c.live
can_merge(c, src) == /\ src # NoBlock /\ src \notin c.live
                     /\ c.block[src].event_count = 0 /\ c.block[src].stream_uses = {}

\* The far neighbour of src points to dst now.
Relinked(c, dst, src) ==
  [j \in DOMAIN c.block \ {src, dst} |->
     [c.block[j] EXCEPT !.next = IF c.block[dst].prev = src /\ j = c.block[src].prev THEN dst ELSE @,
                        !.prev = IF c.block[dst].prev # src /\ j = c.block[src].next THEN dst ELSE @]]

try_merge(c, dst, src) ==
  IF ~can_merge(c, src) THEN c
  ELSE LET d == c.block[dst]
           s == c.block[src]
           merged == IF d.prev = src
                     THEN [d EXCEPT !.off = s.off, !.prev = s.prev, !.size = @ + s.size]
                     ELSE [d EXCEPT !.next = s.next, !.size = @ + s.size]
       IN  [c EXCEPT !.block = (dst :> merged) @@ Relinked(c, dst, src), !.pool = @ \ {src}]

free_block(c, i) ==
  LET d == try_merge(c, i, c.block[i].prev)
      e == try_merge(d, i, d.block[i].next)
  IN  [e EXCEPT !.pool = @ \cup {i}, !.cached = @ + c.block[i].size]

\* A segment that the driver has mapped enters as one block that no list holds.
AddSegment(c, base, n, small, s) ==
  LET b == [base |-> base, off |-> 0, size |-> n, stream |-> s, small |-> small,
            prev |-> NoBlock, next |-> NoBlock, event_count |-> 0, stream_uses |-> {}]
  IN  [c EXCEPT !.block = (FreshBlock(c) :> b) @@ @,
                !.segs = Append(@, [base |-> base, size |-> n]), !.reserved = @ + n]

\* Give whole segments that are in the pool back to the driver.
release_segments(c, ids) ==
  [c EXCEPT !.block = [j \in DOMAIN @ \ ids |-> @[j]], !.pool = @ \ ids,
            !.segs = SelectSeq(@, LAMBDA g : \A i \in ids : c.block[i].base # g.base),
            !.cached = @ - BytesOf(c, ids), !.reserved = @ - BytesOf(c, ids)]

Releasable(c) == {i \in c.pool : ~is_split(c.block[i])}

release_pool_blocks(c) == release_segments(c, Releasable(c))

\* Largest first, until the cap is met or only parts of segments are left.
TrimOne(c, cap) ==
  IF c.cached <= cap \/ Releasable(c) = {} THEN c
  ELSE release_segments(c, {CHOOSE i \in Releasable(c) :
                              \A j \in Releasable(c) : c.block[i].size >= c.block[j].size})

trim_cache(c, cap) == FoldLeft(LAMBDA d, k : TrimOne(d, cap), c, [k \in 1..Cardinality(c.pool) |-> k])

\* The blocks at the head of the segments that the destructor can reach: it
\* follows prev from every block in a list.
Waiting(c) == UNION {Range(c.events[s]) : s \in Stream}
Reachable_listed(c) == c.pool \cup c.live
Reachable(c) == c.pool \cup c.live \cup Waiting(c)

HeadOf(c, i) == FoldLeft(LAMBDA j, k : IF c.block[j].prev = NoBlock THEN j ELSE c.block[j].prev,
                         i, [k \in 1..Cardinality(DOMAIN c.block) |-> k])

HeadBases(c) == {c.block[j].base : j \in {h \in {HeadOf(c, i) : i \in Reachable(c)} : c.block[h].off = 0}}
(***************************************************************************)
(* What both allocators keep true of their cache                           *)
(***************************************************************************)
TiledIn(c) ==
  LET B == c.block IN
  /\ \A g \in Range(c.segs) :
       Cardinality({i \in DOMAIN B : B[i].base = g.base /\ B[i].prev = NoBlock /\ B[i].off = 0}) = 1
  /\ \A i \in DOMAIN B :
       /\ B[i].prev = NoBlock => B[i].off = 0
       /\ B[i].next = NoBlock =>
            \E g \in Range(c.segs) : g.base = B[i].base /\ g.size = B[i].off + B[i].size
       /\ B[i].next # NoBlock =>
            /\ B[B[i].next].off = B[i].off + B[i].size /\ B[B[i].next].prev = i
            /\ B[B[i].next].base = B[i].base /\ B[B[i].next].stream = B[i].stream

CountersAgreeIn(c) ==
  /\ c.cached = BytesOf(c, c.pool)
  /\ c.allocated = BytesOf(c, c.live)
  /\ c.reserved = FoldLeft(LAMBDA n, g : n + g.size, 0, c.segs)

MergedIn(c) ==
  /\ \A i \in c.pool : c.block[i].next \notin c.pool
  /\ c.live \cup Waiting(c) = {} => Releasable(c) = DOMAIN c.block
=============================================================================
