--------------------------- MODULE MemoryTracker ---------------------------
(***************************************************************************)
(* profiler::memory_tracker: a map of active allocations under a mutex,    *)
(* counters that are updated one atomic operation after the other, and     *)
(* start_tracking, stop_tracking and reset, which may run at the same      *)
(* time. Contexts, thread ids and the system queries are left out.         *)
(***************************************************************************)
EXTENDS Integers, FiniteSetsExt, SequencesExt

CONSTANTS TrackedThread, Address, TrackedSizes,
          TrackerCalls,     \* bound: calls of one thread
          TrackerControls,  \* bound: calls of start_tracking, stop_tracking and reset
          Overlap           \* whether controls may overlap the calls of threads

VARIABLES tracking,         \* tracking_
          counter,          \* current_usage_, peak_usage_, total_allocated_, total_deallocated_
          active,           \* active_allocations_
          snapshots,        \* snapshots_
          call,             \* the call of each thread that is under way
          overlap,          \* rigid: a member of Overlap
          control,          \* the control that is under way: what is left to do
          controls,         \* controls so far
          held,             \* which thread owns which address
          highest           \* history: the highest current_usage_ since the last clean start

kvars == <<tracking, counter, active, snapshots, call, overlap, control, controls, held, highest>>

Resting == [pc |-> "rest", ptr |-> 0, size |-> 0, seen |-> 0, n |-> 0]
Zero == [current |-> 0, peak |-> 0, allocated |-> 0, deallocated |-> 0]

KInit == /\ tracking = FALSE /\ counter = Zero /\ active = [a \in {} |-> 0] /\ snapshots = <<>>
         /\ call = [t \in TrackedThread |-> Resting]
         /\ overlap \in Overlap
         /\ control = <<>> /\ controls = 0
         /\ held = {} /\ highest = 0

Quiet == \A t \in TrackedThread : call[t].pc = "rest"

\* An allocation is reported before its owner passes the address on, and a
\* deallocation before the address can be allocated again.
InUse == held \cup {call[t].ptr : t \in {u \in TrackedThread : call[u].pc # "rest"}}

TrackAllocation(t, a, n) ==
  /\ call[t].pc = "rest" /\ call[t].n < TrackerCalls
  /\ a \notin InUse
  /\ ~overlap => control = <<>>
  /\ IF tracking
     THEN /\ call' = [call EXCEPT ![t] = [pc |-> "insert", ptr |-> a, size |-> n, seen |-> 0, n |-> @.n + 1]]
          /\ UNCHANGED held
     ELSE /\ call' = [call EXCEPT ![t].n = @ + 1]
          /\ held' = held \cup {a}
  /\ UNCHANGED <<tracking, counter, active, snapshots, overlap, control, controls, highest>>

Insert(t) ==
  /\ call[t].pc = "insert"
  /\ active' = (call[t].ptr :> call[t].size) @@ active
  /\ call' = [call EXCEPT ![t].pc = "add"]
  /\ UNCHANGED <<tracking, counter, snapshots, overlap, control, controls, held, highest>>

AddCurrent(t) ==
  /\ call[t].pc = "add"
  /\ counter' = [counter EXCEPT !.current = @ + call[t].size]
  /\ highest' = Max({highest, counter'.current})
  /\ call' = [call EXCEPT ![t].pc = "total", ![t].size = counter'.current, ![t].seen = call[t].size]
  /\ UNCHANGED <<tracking, active, snapshots, overlap, control, controls, held>>

\* total_allocated_, and the load with which update_peak_usage begins
AddTotal(t) ==
  /\ call[t].pc = "total"
  /\ counter' = [counter EXCEPT !.allocated = @ + call[t].seen]
  /\ call' = [call EXCEPT ![t].pc = "peak", ![t].seen = counter.peak]
  /\ UNCHANGED <<tracking, active, snapshots, overlap, control, controls, held, highest>>

\* The loop of update_peak_usage: compare-and-swap until the peak is not
\* lower than what this thread has seen. A failed exchange loads the peak.
Done(t) == /\ call' = [call EXCEPT ![t] = [Resting EXCEPT !.n = call[t].n]]
           /\ held' = held \cup {call[t].ptr}

RaisePeak(t) ==
  \/ call[t].size <= call[t].seen /\ Done(t) /\ UNCHANGED counter
  \/ /\ call[t].size > call[t].seen /\ counter.peak = call[t].seen
     /\ counter' = [counter EXCEPT !.peak = call[t].size]
     /\ Done(t)
  \/ /\ call[t].size > call[t].seen /\ counter.peak # call[t].seen
     /\ call' = [call EXCEPT ![t].seen = counter.peak]
     /\ UNCHANGED <<counter, held>>

UpdatePeak(t) ==
  /\ call[t].pc = "peak"
  /\ RaisePeak(t)
  /\ UNCHANGED <<tracking, active, snapshots, overlap, control, controls, highest>>

TrackDeallocation(t, a) ==
  /\ call[t].pc = "rest"
  /\ held' = held \ {a}
  /\ ~overlap => control = <<>>
  /\ call' = IF tracking THEN [call EXCEPT ![t] = [@ EXCEPT !.pc = "erase", !.ptr = a]] ELSE call
  /\ UNCHANGED <<tracking, counter, active, snapshots, overlap, control, controls, highest>>

\* An address that the map does not have (it was allocated before tracking
\* started) changes nothing.
Erase(t) ==
  LET known == call[t].ptr \in DOMAIN active IN
  /\ call[t].pc = "erase"
  /\ active' = [a \in DOMAIN active \ {call[t].ptr} |-> active[a]]
  /\ call' = [call EXCEPT ![t].pc = IF known THEN "sub" ELSE "rest",
                          ![t].size = IF known THEN active[call[t].ptr] ELSE 0]
  /\ UNCHANGED <<tracking, counter, snapshots, overlap, control, controls, held, highest>>

SubCurrent(t) ==
  /\ call[t].pc = "sub"
  /\ counter' = [counter EXCEPT !.current = @ - call[t].size]
  /\ call' = [call EXCEPT ![t].pc = "freed"]
  /\ UNCHANGED <<tracking, active, snapshots, overlap, control, controls, held, highest>>

AddFreed(t) ==
  /\ call[t].pc = "freed"
  /\ counter' = [counter EXCEPT !.deallocated = @ + call[t].size]
  /\ call' = [call EXCEPT ![t] = [Resting EXCEPT !.n = call[t].n]]
  /\ UNCHANGED <<tracking, active, snapshots, overlap, control, controls, held, highest>>

(***************************************************************************)
(* Controls                                                                *)
(***************************************************************************)
Clearing_keeping_map == <<"current", "peak", "allocated", "deallocated", "snapshots">>
Clearing == <<"current", "peak", "allocated", "deallocated", "active", "snapshots">>

MayControl == control = <<>> /\ controls < TrackerControls /\ (overlap \/ Quiet)

StartTracking ==
  /\ MayControl
  /\ controls' = controls + 1
  /\ tracking' = TRUE
  /\ control' = IF tracking THEN <<>> ELSE Clearing
  /\ UNCHANGED <<counter, active, snapshots, call, overlap, held, highest>>

Reset ==
  /\ MayControl
  /\ controls' = controls + 1
  /\ control' = Clearing
  /\ UNCHANGED <<tracking, counter, active, snapshots, call, overlap, held, highest>>

\* stop_tracking takes the final snapshot.
StopTracking ==
  /\ MayControl
  /\ controls' = controls + 1
  /\ tracking' = FALSE
  /\ snapshots' = IF tracking THEN Append(snapshots, counter) ELSE snapshots
  /\ UNCHANGED <<counter, active, call, overlap, control, held, highest>>

ClearNext ==
  /\ control # <<>>
  /\ control' = Tail(control)
  /\ counter' = IF Head(control) \in DOMAIN counter THEN [counter EXCEPT ![Head(control)] = 0] ELSE counter
  /\ active' = IF Head(control) = "active" THEN [a \in {} |-> 0] ELSE active
  /\ snapshots' = IF Head(control) = "snapshots" THEN <<>> ELSE snapshots
  /\ highest' = IF Head(control) = "peak" THEN 0 ELSE highest
  /\ UNCHANGED <<tracking, call, overlap, controls, held>>

KNext == \/ StartTracking \/ StopTracking \/ Reset \/ ClearNext
         \/ \E t \in TrackedThread :
              \/ \E a \in Address, n \in TrackedSizes : TrackAllocation(t, a, n)
              \/ \E a \in held : TrackDeallocation(t, a)
              \/ Insert(t) \/ AddCurrent(t) \/ AddTotal(t) \/ UpdatePeak(t)
              \/ Erase(t) \/ SubCurrent(t) \/ AddFreed(t)

(***************************************************************************)
(* Properties                                                              *)
(***************************************************************************)
AtRest == Quiet /\ control = <<>>

\* With no call under way, current_usage_ is the sum of the active
\* allocations and the difference of the totals, although every call updates
\* them one after the other.
UsageAgrees ==
  AtRest => /\ counter.current = MapThenSumSet(LAMBDA a : active[a], DOMAIN active)
            /\ counter.current = counter.allocated - counter.deallocated

\* The same, for controls that do not overlap the calls of other threads.
UsageAgreesUndisturbed == overlap \/ UsageAgrees

\* The peak is the highest usage there has been, whoever exchanges it last.
PeakIsHighest == (AtRest /\ ~overlap) => counter.peak = highest

\* The tracker's figures are those of the allocations that it was told of.
TrackerAgrees == UsageAgreesUndisturbed /\ PeakIsHighest
=============================================================================
