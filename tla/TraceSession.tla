---------------------------- MODULE TraceSession ----------------------------
(***************************************************************************)
(* Profiler sessions and the threads they trace: profiler_session, the     *)
(* process-wide ProfilerLock, the backends behind their controllers        *)
(* (host_tracer, the thread-pool listener and a GPU tracer), the           *)
(* traceme_recorder, and the per-thread event queues that the traced       *)
(* threads write without a lock while a session starts, stops or fails.    *)
(*                                                                         *)
(* Times are abstracted to what the filter on timestamps tells apart: the  *)
(* clock counts the timestamps that sessions have taken, and an event has  *)
(* the time of the session whose timestamp was the last one before it.     *)
(* Names, metadata, levels and filter masks are left out; memory_tracker   *)
(* has its own module.                                                     *)
(***************************************************************************)
EXTENDS LockFreeQueue

CONSTANTS Session,     \* profiler_session objects, each driven by one thread
          Producer,    \* traced threads
          Programs     \* what the threads may do, a set of records

\* A program: the producers that take part, the kinds of events that they
\* begin and how many each, the number of calls of start() on each session,
\* and whether the application has started the recorder itself.
ASSUME TraceAssumption ==
  /\ "none" \notin Producer \cup Session
  /\ \A g \in Programs : /\ g.producers \subseteq Producer /\ g.preactive \in BOOLEAN
                         /\ g.kinds \subseteq {"complete", "start", "pool"}
                         /\ g.events \in Nat /\ g.starts \in [Session -> Nat]

None == "none"

VARIABLES program,     \* rigid: a member of Programs
          level,       \* g_trace_level: 0 is kTracingDisabled
          registry,    \* per_thread registry: live and dead recorders, recording_
          queue,       \* the queue of each producer
          producer,    \* what each producer is doing
          activities,  \* ids of activity_start that nobody has ended
          lock,        \* the session that holds the ProfilerLock
          current,     \* g_current_session
          collector,   \* whether the thread-pool event collector is enabled
          clock,
          session,     \* what each session is doing
          owed,        \* history: events begun and recorded while a session ran
          delivered,   \* history: events in the XSpace of some session
          late         \* history: events of tracemes and activities that each
                       \* thread has recorded since the recorder was stopped

tvars == <<program, level, registry, queue, producer, activities, lock, current,
           collector, clock, session, owed, delivered, late>>

Inactive == [pc |-> "idle", kind |-> None, id |-> None, time |-> 0, run |-> 0, n |-> 0]

Closed == [pc |-> "idle", todo |-> {}, cur |-> None, end |-> 0, begun |-> [i \in {} |-> 0],
           ends |-> {}, out |-> {}, ts |-> 0, host |-> FALSE, pool |-> FALSE, failing |-> FALSE, n |-> 0]

TInit == /\ program \in Programs
         /\ level = IF program.preactive THEN 1 ELSE 0
         /\ registry = [live |-> {}, dead |-> {}, recording |-> program.preactive]
         /\ queue = [p \in Producer |-> NewQueue]
         /\ producer = [p \in Producer |-> Inactive]
         /\ activities = {}
         /\ lock = None /\ current = None
         /\ collector = FALSE
         /\ clock = 0
         /\ session = [c \in Session |-> Closed]
         /\ owed = {} /\ delivered = {}
         /\ late = [p \in Producer |-> 0]

Running == {c \in Session : session[c].pc = "running"}

(***************************************************************************)
(* Traced threads                                                          *)
(***************************************************************************)
sessionVars == <<level, lock, current, collector, clock, session, delivered>>

\* Begin, without asking whether anybody records.
Begin_unchecked(p, kind) ==
  /\ producer[p].pc = "idle" /\ producer[p].n < program.events
  /\ producer' = [producer EXCEPT ![p] = [Inactive EXCEPT !.pc = "checked", !.kind = kind,
                                            !.n = producer[p].n + 1, !.id = <<p, producer[p].n>>]]
  /\ UNCHANGED <<registry, queue, activities, owed, late, sessionVars>>

\* The check at the beginning of traceme::traceme and activity_start
\* ("complete", "start"), and of an event of the thread pool ("pool"), which
\* asks for the collector instead.
Begin(p, kind) ==
  /\ producer[p].pc = "idle" /\ producer[p].n < program.events
  /\ IF kind = "pool" THEN collector ELSE level > 0
  /\ producer' = [producer EXCEPT ![p] = [Inactive EXCEPT !.pc = "checked", !.kind = kind,
                                            !.n = producer[p].n + 1, !.id = <<p, producer[p].n>>]]
  /\ UNCHANGED <<registry, queue, activities, owed, late, sessionVars>>

\* Its timestamp. A traceme stays open until it is destroyed.
Stamp(p) ==
  /\ producer[p].pc = "checked"
  /\ producer' = [producer EXCEPT ![p].pc = IF producer[p].kind = "complete" THEN "open" ELSE "recording",
                                  ![p].time = clock,
                                  ![p].run = IF Running # {} THEN clock ELSE 0]
  /\ UNCHANGED <<registry, queue, activities, owed, late, sessionVars>>

\* traceme::stop
Close(p) ==
  /\ producer[p].pc = "open"
  /\ producer' = [producer EXCEPT ![p].pc = IF level > 0 THEN "recording" ELSE "idle"]
  /\ UNCHANGED <<registry, queue, activities, owed, late, sessionVars>>

\* activity_end, on any thread
ActivityEnd(p, id) ==
  /\ producer[p].pc = "idle"
  /\ activities' = activities \ {id}
  /\ IF level > 0
     THEN producer' = [producer EXCEPT ![p] = [@ EXCEPT !.pc = "recording", !.kind = "end", !.id = id,
                                                        !.run = IF Running # {} THEN clock ELSE 0]]
     ELSE UNCHANGED producer
  /\ UNCHANGED <<registry, queue, owed, late, sessionVars>>

\* per_thread::Get on a thread that has no recorder yet
Register(p) ==
  /\ producer[p].pc = "recording" /\ p \notin registry.live
  /\ registry' = [registry EXCEPT !.live = @ \cup {p}]
  /\ UNCHANGED <<queue, producer, activities, owed, late, sessionVars>>

Push(p) ==
  /\ producer[p].pc = "recording" /\ p \in registry.live
  /\ queue' = [queue EXCEPT ![p] = write(@, [id |-> producer[p].id, kind |-> producer[p].kind,
                                              time |-> producer[p].time])]
  /\ producer' = [producer EXCEPT ![p].pc = "publishing"]
  /\ UNCHANGED <<registry, activities, owed, late, sessionVars>>

\* The event is due if it lies within the run of a session; an activity is
\* when both of its ends do.
Due(p) == /\ \E c \in Running : session[c].ts = producer[p].run
          /\ producer[p].kind = "end" => <<producer[p].run, producer[p].id, "start">> \in owed

PushEnd(p) ==
  /\ producer[p].pc = "publishing"
  /\ queue' = [queue EXCEPT ![p] = set_end(@)]
  /\ producer' = [producer EXCEPT ![p] = [Inactive EXCEPT !.n = producer[p].n]]
  /\ activities' = IF producer[p].kind = "start" THEN activities \cup {producer[p].id} ELSE activities
  /\ owed' = IF Due(p) THEN owed \cup {<<producer[p].run, producer[p].id, producer[p].kind>>} ELSE owed
  /\ late' = IF level = 0 /\ producer[p].kind # "pool" THEN [late EXCEPT ![p] = @ + 1] ELSE late
  /\ UNCHANGED <<registry, sessionVars>>

\* The thread exits. Its recorder is kept while a session records.
Unregister_always(p) == [registry EXCEPT !.live = @ \ {p}]
Unregister(p) == [registry EXCEPT !.live = @ \ {p}, !.dead = IF registry.recording THEN @ \cup {p} ELSE @]

Exit(p) ==
  /\ producer[p].pc = "idle" /\ p \in registry.live
  /\ producer' = [producer EXCEPT ![p] = [Inactive EXCEPT !.pc = "exited"]]
  /\ registry' = Unregister(p)
  /\ UNCHANGED <<queue, activities, owed, late, sessionVars>>

(***************************************************************************)
(* profiler_session::start                                                 *)
(***************************************************************************)
producerVars == <<producer, activities, owed, late>>

Goto(c, pc) == session' = [session EXCEPT ![c].pc = pc]

\* ProfilerLock::Acquire; start() returns false when it fails.
Acquire_shared == TRUE
Acquire == lock = None

Start(c) ==
  /\ session[c].pc = "idle" /\ session[c].n < program.starts[c]
  /\ Acquire
  /\ lock' = c
  /\ session' = [session EXCEPT ![c] = [Closed EXCEPT !.pc = "stamp", !.n = session[c].n + 1]]
  /\ UNCHANGED <<level, registry, queue, producerVars, current, collector, clock, delivered>>

\* host_tracer::start takes the timestamp before it starts the recorder.
HostStamp(c) ==
  /\ session[c].pc = "stamp"
  /\ clock' = clock + 1
  /\ session' = [session EXCEPT ![c].ts = clock', ![c].pc = "cas"]
  /\ UNCHANGED <<level, registry, queue, producerVars, lock, current, collector, delivered>>

\* The compare-and-swap of traceme_recorder::start
RecorderStart(c) ==
  /\ session[c].pc = "cas"
  /\ level' = 1
  /\ session' = [session EXCEPT ![c].host = (level = 0), ![c].pc = IF level = 0 THEN "register" ELSE "pool"]
  /\ UNCHANGED <<registry, queue, producerVars, lock, current, collector, clock, delivered>>

\* traceme_recorder::clear
StartRecording(c) ==
  /\ session[c].pc = "register"
  /\ registry' = [registry EXCEPT !.recording = TRUE]
  /\ session' = [session EXCEPT ![c].todo = registry.live \cup registry.dead, ![c].pc = "clear"]
  /\ UNCHANGED <<level, queue, producerVars, lock, current, collector, clock, delivered>>

Clear(c) ==
  LET s == session[c]
      q == queue[s.cur]
  IN  /\ s.pc = "clear"
      /\ \/ /\ s.cur = None /\ s.todo # {}
            /\ \E p \in s.todo :
                 session' = [session EXCEPT ![c].cur = p, ![c].todo = @ \ {p}, ![c].end = queue[p].end]
            /\ UNCHANGED queue
         \/ /\ s.cur # None /\ ~cleared(q, s.end)
            /\ queue' = [queue EXCEPT ![s.cur] = pop_impl(@)]
            /\ UNCHANGED session
         \/ /\ s.cur # None /\ cleared(q, s.end)
            /\ session' = [session EXCEPT ![c].cur = None, ![c].end = 0]
            /\ UNCHANGED queue
         \/ s.cur = None /\ s.todo = {} /\ Goto(c, "pool") /\ UNCHANGED queue
      /\ UNCHANGED <<level, registry, producerVars, lock, current, collector, clock, delivered>>

\* threadpool_profiler_interface::start reports no error when the collector
\* is in use, only later when the data is collected.
PoolStart(c) ==
  /\ session[c].pc = "pool"
  /\ session' = [session EXCEPT ![c].pool = ~collector, ![c].pc = "gpu"]
  /\ collector' = TRUE
  /\ UNCHANGED <<level, registry, queue, producerVars, lock, current, clock, delivered>>

Failed_released(c) == "release"
\* With every backend started the session is the current one. If one has
\* failed, the destructor of the controllers stops those whose start
\* succeeded: host_tracer and the thread-pool listener share a controller.
Failed(c) == IF session[c].host THEN "off" ELSE "release"

GpuStart(c) ==
  /\ session[c].pc = "gpu"
  /\ \E ok \in BOOLEAN :
       IF ok /\ session[c].host
       THEN Goto(c, "running") /\ current' = c
       ELSE /\ session' = [session EXCEPT ![c].failing = TRUE,
                                          ![c].pc = Failed(c)]
            /\ UNCHANGED current
  /\ UNCHANGED <<level, registry, queue, producerVars, lock, collector, clock, delivered>>

(***************************************************************************)
(* profiler_session::stop, and the end of a start that failed              *)
(***************************************************************************)
Stop(c) ==
  /\ session[c].pc = "running"
  /\ Goto(c, "off")
  /\ UNCHANGED <<level, registry, queue, producerVars, lock, current, collector, clock, delivered>>

\* traceme_recorder::stop
RecorderStop(c) ==
  /\ session[c].pc = "off"
  /\ level' = 0
  /\ Goto(c, "unregister")
  /\ late' = [p \in Producer |-> 0]
  /\ UNCHANGED <<registry, queue, producer, activities, owed, lock, current, collector, clock, delivered>>

\* traceme_recorder::consume: the recorders of threads that are gone leave
\* the registry.
StopRecording(c) ==
  /\ session[c].pc = "unregister"
  /\ registry' = [registry EXCEPT !.dead = {}, !.recording = FALSE]
  /\ session' = [session EXCEPT ![c].todo = registry.live \cup registry.dead, ![c].pc = "consume"]
  /\ UNCHANGED <<level, queue, producerVars, lock, current, collector, clock, delivered>>

\* FindStartAndMerge: the end of an activity takes the time of its start, and
\* the start is erased. (host_tracer exports no event without its start.)
Merged(s, id) ==
  IF id \in DOMAIN s.begun
  THEN [s EXCEPT !.out = @ \cup {[id |-> id, time |-> s.begun[id]]},
                 !.begun = [i \in DOMAIN @ \ {id} |-> @[i]]]
  ELSE s

\* The event e goes to the split-event tracker, or to the output.
Sorted(s, e) ==
  CASE e.kind = "start" -> [s EXCEPT !.begun = [i \in DOMAIN @ \cup {e.id} |-> IF i = e.id THEN e.time ELSE @[i]]]
    [] e.kind = "end" /\ e.id \in DOMAIN s.begun -> Merged(s, e.id)
    [] e.kind = "end" /\ e.id \notin DOMAIN s.begun -> [s EXCEPT !.ends = @ \cup {e.id}]
    [] OTHER -> [s EXCEPT !.out = @ \cup {[id |-> e.id, time |-> e.time]}]

\* HandleCrossThreadEvents, after the last queue: the same for the ends that
\* came before their starts
CrossThread(s) == s.out \cup {[id |-> id, time |-> s.begun[id]] : id \in s.ends \cap DOMAIN s.begun}

Consume(c) ==
  LET s == session[c]
      q == queue[s.cur]
  IN  /\ s.pc = "consume"
      /\ \/ /\ s.cur = None /\ s.todo # {}
            /\ \E p \in s.todo : session' = [session EXCEPT ![c].cur = p, ![c].todo = @ \ {p}]
            /\ UNCHANGED queue
         \/ /\ s.cur # None /\ ~empty(q)
            /\ queue' = [queue EXCEPT ![s.cur] = pop_impl(@)]
            /\ session' = [session EXCEPT ![c] = Sorted(s, q.slot[q.start])]
         \/ /\ s.cur # None /\ empty(q)
            /\ session' = [session EXCEPT ![c].cur = None]
            /\ UNCHANGED queue
         \/ /\ s.cur = None /\ s.todo = {}
            /\ session' = [session EXCEPT ![c].pc = "poolstop", ![c].out = CrossThread(s)]
            /\ UNCHANGED queue
      /\ UNCHANGED <<level, registry, producerVars, lock, current, collector, clock, delivered>>

PoolStop(c) ==
  /\ session[c].pc = "poolstop"
  /\ collector' = FALSE
  /\ Goto(c, IF session[c].failing THEN "release" ELSE "collect")
  /\ UNCHANGED <<level, registry, queue, producerVars, lock, current, clock, delivered>>

\* collect_data: events that began before the session are skipped, and an
\* error of one backend leaves the session without a result.
Exported(s) == IF s.pool THEN {<<s.ts, e.id>> : e \in {x \in s.out : x.time >= s.ts}} ELSE {}

uncurrent(c) == IF current = c THEN None ELSE current

Collect(c) ==
  /\ session[c].pc = "collect"
  /\ delivered' = delivered \cup Exported(session[c])
  /\ current' = uncurrent(c)
  /\ Goto(c, "release")
  /\ UNCHANGED <<level, registry, queue, producerVars, lock, collector, clock>>

Release(c) ==
  /\ session[c].pc = "release"
  /\ lock' = None
  /\ session' = [session EXCEPT ![c] = [Closed EXCEPT !.n = session[c].n]]
  /\ UNCHANGED <<level, registry, queue, producerVars, current, collector, clock, delivered>>

SessionStep(c) ==
  \/ HostStamp(c) \/ RecorderStart(c) \/ StartRecording(c) \/ Clear(c) \/ PoolStart(c) \/ GpuStart(c)
  \/ RecorderStop(c) \/ StopRecording(c) \/ Consume(c) \/ PoolStop(c) \/ Collect(c) \/ Release(c)

ProducerStep(p) ==
  \/ \E kind \in program.kinds : Begin(p, kind)
  \/ \E id \in activities : ActivityEnd(p, id)
  \/ Stamp(p) \/ Close(p) \/ Register(p) \/ Push(p) \/ PushEnd(p) \/ Exit(p)

TNext == /\ \/ \E c \in Session : Start(c) \/ Stop(c) \/ SessionStep(c)
            \/ \E p \in program.producers : ProducerStep(p)
         /\ UNCHANGED program

TSpec == TInit /\ [][TNext]_tvars /\ \A c \in Session : WF_tvars(SessionStep(c) /\ UNCHANGED program)

(***************************************************************************)
(* Properties                                                              *)
(***************************************************************************)

\* The queues survive the races of record() with clear() and consume(): no
\* slot is read before it is written, no block freed under the producer.
QueuesIntact == \A p \in Producer : QueueIntactIn(queue[p])

\* A queue has one consumer at a time, as it requires: the ProfilerLock keeps
\* the clear() of one session apart from the consume() of another.
OneConsumer == Cardinality({c \in Session : session[c].pc \in {"clear", "consume"}}) <= 1

\* What was begun and recorded while a session was running is in its result,
\* also if the thread has exited or an activity ended on another thread.
NothingLost ==
  \A o \in owed :
    \/ o[3] = "start"
    \/ \E c \in Session : session[c].ts = o[1] /\ session[c].pc # "idle" /\ session[c].pc # "release"
    \/ <<o[1], o[2]>> \in delivered

\* When no session holds the lock, the next one finds everything as the
\* first one did: also after a start that has failed halfway.
IdleMeansOff ==
  (lock = None /\ ~program.preactive) =>
     level = 0 /\ ~registry.recording /\ registry.dead = {} /\ ~collector /\ current = None

\* The current session, which scopes bind to, is the one that has the lock.
CurrentHoldsLock == current # None => lock = current

\* Once the recorder is stopped a thread adds at most one more event of its own
\* to the queues: the one that it was about to record, in whichever of the calls.
LateEvents == \A p \in Producer : late[p] <= 1

\* stop() ends, although threads may go on to record while it drains their
\* queues: what they add is bounded by LateEvents, not by the program. Events of
\* the thread pool do not ask whether the recorder is on but for the collector,
\* which is disabled behind the drain. A program has program.events of them for
\* each thread; as long as a pool kept making them, stop() would not end.
StopReturns == /\ \A c \in Session : session[c].pc = "off" ~> session[c].pc = "idle"
               /\ []LateEvents

\* The lock-free queues are used as they require, and survive it.
QueuesSafe == QueuesIntact /\ OneConsumer

\* One session leaves nothing behind for the next.
SessionsApart == IdleMeansOff /\ CurrentHoldsLock
=============================================================================
