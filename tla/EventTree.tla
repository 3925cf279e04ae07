----------------------------- MODULE EventTree ------------------------------
(***************************************************************************)
(* The tree of the events of a trace (collection.cpp): build_tree replays  *)
(* the events of all threads in the order of their starts and ends, with a *)
(* stack for each thread, and adjust_timestamps stretches and shifts them. *)
(* An event is its interval and its thread; a backward operation names the *)
(* thread of its forward one. An event without an end has the smallest     *)
(* time there. The trees that Kineto makes of its own events are left out. *)
(***************************************************************************)
EXTENDS Integers, FiniteSetsExt, SequencesExt

CONSTANTS EventTimes,    \* times, from 1
          TraceUses      \* number of events, threads, and whether ends may be missing

VARIABLES events,        \* rigid: sorted_events
          node,          \* parent, children and finished of each event
          stacks,        \* the top of the stack of each thread, or 0
          end_events,    \* the priority queue
          pos,           \* the event that comes next
          adjusted       \* the intervals after adjust_timestamps, once it has run

evars == <<events, node, stacks, end_events, pos, adjusted>>

MinTime == -1
Threads == 1..2

\* What RecordQueue::getRecords hands over, sorted
Traces(use) ==
  {s \in [1..use.events -> [tid : use.tids, fwd : use.fwd, start : EventTimes, end : EventTimes \cup use.missing]] :
     /\ \A i \in DOMAIN s : s[i].end \in {MinTime} \cup {t \in EventTimes : t >= s[i].start}
     /\ \A i \in 1..(use.events - 1) : s[i].start <= s[i + 1].start}

EInit ==
  /\ \E use \in TraceUses : events \in Traces(use)
  /\ node = [i \in DOMAIN events |-> [parent |-> 0, children |-> <<>>, finished |-> FALSE]]
  /\ stacks = [t \in Threads |-> 0]
  /\ end_events = {} /\ pos = 1 /\ adjusted = <<>>

(***************************************************************************)
(* build_tree                                                              *)
(***************************************************************************)
\* The frame above an event of a thread, or of the forward thread
ParentOf(e) ==
  IF stacks[e.tid] # 0 \/ e.fwd = 0 THEN stacks[e.tid] ELSE stacks[e.fwd]

Adopted(i, p) ==
  IF p = 0 THEN node
  ELSE [node EXCEPT ![i].parent = p, ![p].children = Append(@, i)]

push_event(i) ==
  LET e == events[i] IN
  /\ node' = [Adopted(i, ParentOf(e)) EXCEPT ![i].finished = e.end = e.start]
  /\ stacks' = [stacks EXCEPT ![e.tid] = IF e.end = e.start THEN @ ELSE i]
  /\ end_events' = IF e.end > e.start THEN end_events \cup {i} ELSE end_events

RECURSIVE Chain(_)
Chain(i) == IF i = 0 THEN <<>> ELSE <<i>> \o Chain(node[i].parent)

\* The frames that pop_event marks as finished
Frames(i) ==
  LET c == Chain(stacks[events[i].tid]) IN
  Range(SubSeq(c, 1, CHOOSE n \in DOMAIN c : c[n] = i))

new_frame_none(i) == 0
new_frame(i) == node[i].parent

pop_event(i) ==
  /\ end_events' = end_events \ {i}
  /\ \/ node[i].finished /\ UNCHANGED <<node, stacks>>
     \/ /\ ~node[i].finished
        /\ node' = [j \in DOMAIN node |-> IF j \in Frames(i) THEN [node[j] EXCEPT !.finished = TRUE] ELSE node[j]]
        /\ stacks' = [stacks EXCEPT ![events[i].tid] = new_frame(i)]

\* Events that end at the same time leave the queue in any order.
Earliest == {i \in end_events : \A j \in end_events : events[i].end <= events[j].end}
Over(i) == IF pos > Len(events) THEN TRUE ELSE events[i].end < events[pos].start

PopEvent == \E i \in Earliest : Over(i) /\ pop_event(i) /\ UNCHANGED <<events, pos, adjusted>>

PushEvent ==
  /\ pos <= Len(events) /\ ~ \E i \in Earliest : Over(i)
  /\ push_event(pos) /\ pos' = pos + 1 /\ UNCHANGED <<events, adjusted>>

Built == pos > Len(events) /\ end_events = {}

(***************************************************************************)
(* adjust_timestamps, for events that all have their end                   *)
(***************************************************************************)
Duration(v, i) == v[i].end - v[i].start

RECURSIVE adjust_durations_dfs(_, _), adjust_timestamps_dfs(_, _, _)

Total(v, list) == FoldLeft(LAMBDA sum, c : sum + Duration(v, c), 0, list)

\* An allocation has no children, so that its duration stays 0.
adjust_durations_dfs(v, i) ==
  LET w == FoldLeft(adjust_durations_dfs, v, node[i].children) IN
  [w EXCEPT ![i].end = w[i].start + Max({Duration(w, i), Total(w, node[i].children)})]

adjust_timestamps_dfs(v, i, at) ==
  LET w == [v EXCEPT ![i].start = at, ![i].end = at + Duration(v, i)]
      step(acc, c) == [v |-> adjust_timestamps_dfs(acc.v, c, acc.at), at |-> acc.at + Duration(acc.v, c)]
  IN  FoldLeft(step, [v |-> w, at |-> w[i].end - Total(w, node[i].children)], node[i].children).v

adjust_timestamps ==
  LET roots == SelectSeq([i \in DOMAIN events |-> i], LAMBDA i : node[i].parent = 0)
      step(acc, i) ==
        LET v == adjust_durations_dfs(acc.v, i)
            w == adjust_timestamps_dfs(v, i, Max({v[i].start, acc.at}))
        IN  [v |-> w, at |-> w[i].end]
  IN  FoldLeft(step, [v |-> events, at |-> events[1].start], roots).v

Adjust ==
  /\ Built /\ adjusted = <<>> /\ \A i \in DOMAIN events : events[i].end # MinTime
  /\ adjusted' = adjust_timestamps
  /\ UNCHANGED <<events, node, stacks, end_events, pos>>

ENext == PushEvent \/ PopEvent \/ Adjust

(***************************************************************************)
(* Properties                                                              *)
(***************************************************************************)

\* The frames of a thread on the way from an event to its root
RECURSIVE Above(_)
Above(i) == IF i = 0 THEN {} ELSE {i} \cup Above(node[i].parent)
Own(i) == {j \in Above(i) : events[j].tid = events[i].tid}

\* The events of its thread around the start of event i: neither they nor
\* one around them has ended before.
Around(i) ==
  {j \in 1..(i - 1) : /\ events[j].tid = events[i].tid /\ events[j].end # events[j].start
                      /\ \A k \in Own(j) : events[k].end = MinTime \/ events[k].end >= events[i].start}

\* The parent of an event is the innermost one around its start, even if
\* events overlap without being nested; with none, it is of another thread.
ParentIsInnermost ==
  \A i \in 1..(pos - 1) :
     LET p == node[i].parent IN
     IF Around(i) # {} THEN p = Max(Around(i)) ELSE p = 0 \/ events[p].tid # events[i].tid

\* pop_event finds the event that ends on the stack of its thread, and does
\* not run off the stack.
FramesFound ==
  \A i \in end_events : node[i].finished \/ i \in Above(stacks[events[i].tid])

\* Every event with an end is finished at the end of build_tree.
AllFinished == Built => \A i \in DOMAIN events : events[i].end = MinTime \/ node[i].finished

\* adjust_timestamps: "Parent event timelines fully contain their child
\* timelines", "No overlaps in timelines for nodes at the same depth".
Depth(i) == Cardinality(Above(i))
AdjustedFit ==
  adjusted # <<>> =>
     \A i, j \in DOMAIN events :
        LET a == adjusted[i]
            b == adjusted[j]
        IN  /\ node[j].parent = i => a.start <= b.start /\ b.end <= a.end
            /\ i < j /\ Depth(i) = Depth(j) => a.end <= b.start \/ b.end <= a.start

\* The event tree is what the intervals say, and fits after the adjustment
\* (build_tree and adjust_timestamps).
TreeIsRight == ParentIsInnermost /\ FramesFound /\ AllFinished /\ AdjustedFit
=============================================================================
