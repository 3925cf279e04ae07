----------------------------- MODULE MCProfiler -----------------------------
(***************************************************************************)
(* Sessions that trace threads, the memory tracker, the observers of       *)
(* record_function, and event trees. A behaviour exercises one of them.    *)
(***************************************************************************)
EXTENDS TraceSession, MemoryTracker, RecordFunction, EventTree

CONSTANTS c1, c2, p1, p2, r1, r2

VARIABLE part         \* rigid: the component

MCSession == {c1, c2}

Each(n, m) == (c1 :> n) @@ (c2 :> m)

\* One thread that fills two blocks of its queue across two sessions; an
\* activity that begins and ends on different threads; two threads and two
\* sessions; thread-pool events; and an application that has started the
\* recorder itself.
MCPrograms ==
  {[producers |-> {p1}, kinds |-> {"complete"}, events |-> 3, starts |-> Each(1, 1), preactive |-> FALSE],
   [producers |-> {p1, p2}, kinds |-> {"start"}, events |-> 1, starts |-> Each(1, 0), preactive |-> FALSE],
   [producers |-> {p1, p2}, kinds |-> {"complete"}, events |-> 1, starts |-> Each(1, 1), preactive |-> FALSE],
   [producers |-> {p1}, kinds |-> {"pool"}, events |-> 2, starts |-> Each(1, 1), preactive |-> FALSE],
   [producers |-> {p1}, kinds |-> {"complete"}, events |-> 1, starts |-> Each(1, 1), preactive |-> TRUE]}

\* Two threads with an observer of one scope, and one thread with an observer
\* of every scope and a sampled one.
Plain == [scopes |-> RecordScope, sampled |-> FALSE]
Narrow == [scopes |-> {"fun"}, sampled |-> FALSE]
Sampled == [scopes |-> {"fun"}, sampled |-> TRUE]
MCRFUses == {[threads |-> {r1, r2}, observers |-> {Narrow}, changes |-> 2],
             [threads |-> {r1}, observers |-> {Plain, Sampled}, changes |-> 3]}

\* Four events of one thread; and three of two threads, which may name each
\* other or miss their end
MCTraceUses == {[events |-> 4, tids |-> {1}, fwd |-> {0}, missing |-> {}],
                [events |-> 3, tids |-> {1, 2}, fwd |-> {0, 1}, missing |-> {MinTime}]}

Quietest == CHOOSE g \in MCPrograms : g.preactive
Smallest == CHOOSE u \in MCRFUses : u.changes = 2

Shortest == [i \in 1..3 |-> [tid |-> 1, fwd |-> 0, start |-> 1, end |-> 1]]

MCInit == /\ part \in {"session", "tracker", "observers", "tree"} /\ TInit /\ KInit /\ RInit /\ EInit
          /\ (part # "tree" => events = Shortest)
          /\ (part # "session" => program = Quietest) /\ (part # "observers" => rfuse = Smallest)

MCNext == /\ \/ part = "session" /\ TNext /\ UNCHANGED <<kvars, rvars, evars>>
             \/ part = "tracker" /\ KNext /\ UNCHANGED <<tvars, rvars, evars>>
             \/ part = "observers" /\ RNext /\ UNCHANGED <<tvars, kvars, evars>>
             \/ part = "tree" /\ ENext /\ UNCHANGED <<tvars, kvars, rvars>>
          /\ UNCHANGED part

mcvars == <<part, tvars, kvars, rvars, evars>>

\* A thread inside start() or stop() is scheduled again and again.
MCSpec == /\ MCInit /\ [][MCNext]_mcvars
          /\ \A c \in Session :
               WF_mcvars(part = "session" /\ SessionStep(c) /\ UNCHANGED <<program, kvars, rvars, evars, part>>)
=============================================================================
