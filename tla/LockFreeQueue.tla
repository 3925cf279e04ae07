--------------------------- MODULE LockFreeQueue ---------------------------
(***************************************************************************)
(* LockFreeQueue, a single-producer single-consumer queue: a linked list   *)
(* of blocks with numbered slots. A queue is a record of the indexes       *)
(* start_ and end_, the numbers of start_block_ (first) and end_block_     *)
(* (last), and the slots that hold an element. Block n has the slots from  *)
(* n * kNumSlots; the blocks from first to last exist.                     *)
(* A push is two steps of the producer: write, then set_end.               *)
(***************************************************************************)
EXTENDS Integers, FiniteSetsExt, SequencesExt

CONSTANT kNumSlots
ASSUME SlotsAssumption == kNumSlots \in Nat \ {0}

NewQueue == [slot |-> [i \in {} |-> 0], start |-> 0, end |-> 0, first |-> 0, last |-> 0]

\* The slot is filled, and a full block gets a successor before the new end
\* is visible.
write(q, e) ==
  [q EXCEPT !.slot = [i \in DOMAIN q.slot \cup {q.end} |-> IF i = q.end THEN e ELSE q.slot[i]],
            !.last = IF q.end + 1 - q.last * kNumSlots = kNumSlots THEN @ + 1 ELSE @]

set_end(q) == [q EXCEPT !.end = @ + 1]

empty(q) == q.start = q.end

\* The consumer owns a block that it has emptied, and deletes it.
pop_impl_stuck(q) == q
pop_impl(q) ==
  [q EXCEPT !.slot = [i \in DOMAIN q.slot \ {q.start} |-> q.slot[i]], !.start = @ + 1,
            !.first = IF q.start + 1 - q.first * kNumSlots = kNumSlots THEN @ + 1 ELSE @]

\* clear pops what was published when it read end_ into end.
cleared(q, end) == q.start = end

\* The consumer finds an element in every slot below end_, in a block that
\* exists, and never deletes the block that the producer is going to write.
QueueIntactIn(q) ==
  /\ q.start..(q.end - 1) \subseteq DOMAIN q.slot
  /\ q.first <= q.last
  /\ q.start \in (q.first * kNumSlots)..((q.first + 1) * kNumSlots - 1)
=============================================================================
