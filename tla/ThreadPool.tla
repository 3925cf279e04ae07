----------------------------- MODULE ThreadPool -----------------------------
(***************************************************************************)
(* parallel_thread_pool (Library/Parallel/std_thread): a fixed set of      *)
(* threads with a job stack each, proxies that hand out jobs to some of    *)
(* them round robin, join(), which helps when it is called from inside the *)
(* pool, nested allocation, and the destructor.                            *)
(*                                                                         *)
(* User code is a script, chosen in Init: script[r] is the sequence of     *)
(* calls that the client thread or the job r makes.  A step is one         *)
(* critical section; a thread's mutex_ is state (lock) where something     *)
(* that does not take the lock can happen inside the section: the unlocked *)
(* read of jobs_ in allocate_threads, and the destructor's store of        *)
(* joining_.                                                               *)
(***************************************************************************)
EXTENDS Integers, Sequences, SequencesExt, FiniteSetsExt

CONSTANTS
  N,       \* thread_count(): the pool's threads are 1 .. N
  Client,  \* threads outside the pool
  Proxy,   \* the proxies that may ever be allocated
  Job,     \* the jobs that may ever be submitted
  Scripts, \* the programs that may use the pool
  NULL

Thread == 1 .. N
Actor == Client \cup Thread

\* p is the proxy a call works on, n the argument of allocate_threads.
CallName == {"allocate", "do_job", "join", "destroy_proxy", "destroy_pool"}
Call == [call : CallName, p : Proxy \cup {NULL}, job : Job \cup {NULL}, n : Nat]

ASSUME ThreadPoolAssumption ==
  /\ N \in Nat \ {0}
  /\ NULL \notin Proxy \cup Job \cup Actor
  /\ Client \cap Thread = {} /\ Job \cap Actor = {}
  /\ \A s \in Scripts : DOMAIN s \subseteq Client \cup Job
  /\ \A s \in Scripts : \A r \in DOMAIN s : s[r] \in Seq(Call)

\* A proxy is a local object of the code that allocates it, which submits jobs
\* to it and joins it until its destructor runs, and always joins it after it has
\* submitted something; a job is submitted once; the code that destroys the pool
\* submits nothing any more.
WellUsed(s) ==
  \A r \in DOMAIN s : \A i \in DOMAIN s[r] :
    LET c == s[r][i] IN
    /\ c.call # "destroy_pool" => c.p \in Proxy
    /\ c.call = "do_job" => c.job \in Job
    /\ c.call \in {"do_job", "join"} =>
         /\ \E k \in 1 .. i - 1 : s[r][k].call = "allocate" /\ s[r][k].p = c.p
         /\ \A k \in 1 .. i - 1 : s[r][k].call = "destroy_proxy" => s[r][k].p # c.p
    /\ c.call = "do_job" => \E k, m \in DOMAIN s[r] :
         /\ i < k /\ s[r][k].call = "join" /\ s[r][k].p = c.p
         /\ k < m /\ s[r][m].call = "destroy_proxy" /\ s[r][m].p = c.p
    /\ c.call = "destroy_pool" => \A k \in DOMAIN s[r] : i < k => s[r][k].call # "do_job"
    /\ \A q \in DOMAIN s : \A k \in DOMAIN s[q] :
         /\ c.p # NULL /\ s[q][k].p = c.p => q = r
         /\ c.call = "do_job" /\ s[q][k].call = "do_job" /\ s[q][k].job = c.job => q = r /\ k = i

ASSUME ScriptsAssumption == \A s \in Scripts : WellUsed(s)

VARIABLES
  script,       \* the program: script[r] are the calls r makes, in order
  jobs,         \* jobs_ of every thread, the running ones included
  running_job,  \* running_job_: 1-based index into jobs_; 0 is no_running_job
  lock,         \* who holds a thread's mutex_ between two steps, or NULL
  worker,       \* where a pool thread that runs no job is
  joining,      \* joining_
  parent,       \* parent_ of every proxy; NULL for a top-level one
  threads,      \* threads_ of every proxy; <<>> before and after its life
  next_thread,  \* next_thread_
  futures,      \* jobs_futures_: the jobs whose futures the proxy holds
  proxy,        \* proxy_ of every job that was submitted
  finished,     \* the jobs whose promise was set
  stack,        \* the frames each actor is executing
  program,      \* "running", "terminated" by a proxy, or "corrupted" by a race
  runs          \* how often a job's function was started (history)

jobVars   == <<jobs, running_job, proxy, finished, runs>>
proxyVars == <<parent, threads, next_thread, futures>>
vars == <<jobVars, proxyVars, lock, worker, joining, stack, program, script>>

(***************************************************************************)
(* A frame: run is the client or job whose code executes, ip its next      *)
(* call, index and old the locals job_index and old_running_job of run_job *)
(* and to the thread that a loop or a call has reached.                    *)
(***************************************************************************)
Frame(r) == [run |-> r, pc |-> "body", ip |-> 1, index |-> 0, old |-> 0, to |-> 0]

Calls(r) == IF r \in DOMAIN script THEN script[r] ELSE <<>>
Top(a) == Last(stack[a])
At(a, where) == program = "running" /\ stack[a] # <<>> /\ Top(a).pc = where
CallOf(f) == Calls(f.run)[f.ip]
AtCall(a, name) == /\ At(a, "body")
                   /\ Top(a).ip <= Len(Calls(Top(a).run))
                   /\ CallOf(Top(a)).call = name

Goto(a, f) == stack' = [stack EXCEPT ![a] = Append(Front(@), f)]
NextCall(f) == [f EXCEPT !.pc = "body", !.ip = @ + 1, !.to = 0]

is_top_level(p) == parent[p] = NULL
-----------------------------------------------------------------------------
(***************************************************************************)
(* run_job, in two halves: start the job at index i of thread t, and clean *)
(* up after its function has returned or thrown.                           *)
(***************************************************************************)
RunJob(t, i) ==
  /\ running_job' = [running_job EXCEPT ![t] = i]
  /\ runs' = [runs EXCEPT ![jobs[t][i]] = @ + 1]
  /\ stack' = [stack EXCEPT ![t] =
       Append(@, [Frame(jobs[t][i]) EXCEPT !.index = i, !.old = running_job[t]])]
  /\ UNCHANGED <<jobs, proxy, finished>>

erased_first(t, i) == Tail(jobs[t])
erased(t, i) == RemoveAt(jobs[t], i)

restored(f) == f.old

JobReturn(t) ==
  LET f == Top(t) IN
  /\ At(t, "body") /\ f.ip > Len(Calls(f.run)) /\ lock[t] = NULL
  /\ finished' = finished \cup {jobs[t][running_job[t]]}
  /\ jobs' = [jobs EXCEPT ![t] = erased(t, f.index)]
  /\ running_job' = [running_job EXCEPT ![t] = restored(f)]
  /\ stack' = [stack EXCEPT ![t] = Front(@)]
  /\ UNCHANGED <<proxy, runs, proxyVars, lock, worker, joining, program>>
-----------------------------------------------------------------------------
(***************************************************************************)
(* The loop of a pool thread.  The predicate of the wait is evaluated      *)
(* holding mutex_, which joining_ = true does not take: the thread blocks  *)
(* in a step of its own.                                                   *)
(***************************************************************************)
may_go_on(t) == jobs[t] # <<>> \/ joining

WorkerCheck(t) ==
  /\ program = "running" /\ worker[t] = "check" /\ stack[t] = <<>> /\ lock[t] = NULL
  /\ ~may_go_on(t)
  /\ worker' = [worker EXCEPT ![t] = "blocking"]
  /\ lock' = [lock EXCEPT ![t] = t]
  /\ UNCHANGED <<jobVars, proxyVars, joining, stack, program>>

WorkerBlock(t) ==
  /\ program = "running" /\ worker[t] = "blocking"
  /\ worker' = [worker EXCEPT ![t] = "wait"]
  /\ lock' = [lock EXCEPT ![t] = NULL]
  /\ UNCHANGED <<jobVars, proxyVars, joining, stack, program>>

leaves(t) == jobs[t] = <<>>

WorkerRun(t) ==
  /\ program = "running" /\ worker[t] = "check" /\ stack[t] = <<>> /\ lock[t] = NULL
  /\ may_go_on(t) /\ ~leaves(t)
  /\ RunJob(t, Len(jobs[t]))
  /\ UNCHANGED <<proxyVars, lock, worker, joining, program>>

WorkerExit(t) ==
  /\ program = "running" /\ worker[t] = "check" /\ stack[t] = <<>> /\ lock[t] = NULL
  /\ may_go_on(t) /\ leaves(t)
  /\ worker' = [worker EXCEPT ![t] = "exited"]
  /\ UNCHANGED <<jobVars, proxyVars, lock, joining, stack, program>>

Woken(t) == worker' = IF worker[t] = "wait" THEN [worker EXCEPT ![t] = "check"]
                                            ELSE worker
-----------------------------------------------------------------------------
(***************************************************************************)
(* allocate_threads.  A job allocates its own thread and those that no     *)
(* ancestor of the new proxy uses.                                         *)
(***************************************************************************)
granted(n) == IF n = 0 \/ n > N THEN N ELSE n

Uses(p, t) == Contains(threads[p], t)

\* The proxies up the hierarchy from p, itself included.
Upwards(S) == \A q \in S : parent[q] \in S \cup {NULL}
Ancestors(p) ==
  {q \in Proxy : \A S \in SUBSET Proxy : p \in S /\ Upwards(S) => q \in S}

is_free_of_parent(p, t) == ~Uses(p, t)
is_free(p, t) == \A q \in Ancestors(p) : ~Uses(q, t)

\* The loop over all threads appends the free ones to the proxy of thread t,
\* and stops when the proxy has as many as it wants.
fill_threads_for_nested_proxy(par, t, max_count) ==
  LET filled[i \in 0 .. N] ==
        IF i = 0 THEN [got |-> <<t>>, full |-> FALSE]
        ELSE IF filled[i - 1].full THEN filled[i - 1]
        ELSE LET got == IF is_free(par, i) THEN Append(filled[i - 1].got, i) ELSE filled[i - 1].got
             IN  [got |-> got, full |-> Len(got) = max_count]
  IN  IF Len(threads[par]) = N THEN <<t>> ELSE filled[N].got

AllocateTopLevel(a) ==
  LET c == CallOf(Top(a)) IN
  /\ a \in Client /\ AtCall(a, "allocate") /\ threads[c.p] = <<>>
  /\ threads' = [threads EXCEPT ![c.p] = [i \in 1 .. granted(c.n) |-> i]]
  /\ Goto(a, NextCall(Top(a)))
  /\ UNCHANGED <<jobVars, parent, next_thread, futures, lock, worker, joining, program>>

\* jobs_ is read without mutex_: it is the running job's proxy unless another
\* thread is moving the vector to a larger buffer at that moment.
AllocateNested(t) ==
  LET c   == CallOf(Top(t))
      par == proxy[jobs[t][running_job[t]]]
  IN  /\ t \in Thread /\ AtCall(t, "allocate") /\ threads[c.p] = <<>>
      /\ parent' = [parent EXCEPT ![c.p] = par]
      /\ threads' = [threads EXCEPT ![c.p] =
                       fill_threads_for_nested_proxy(par, t, granted(c.n))]
      /\ Goto(t, NextCall(Top(t)))
      /\ UNCHANGED <<jobVars, next_thread, futures, lock, worker, joining, program>>

AllocateCorrupted(t) ==
  /\ t \in Thread /\ AtCall(t, "allocate") /\ lock[t] # NULL
  /\ program' = "corrupted"
  /\ UNCHANGED <<jobVars, proxyVars, lock, worker, joining, stack>>
-----------------------------------------------------------------------------
(***************************************************************************)
(* proxy::do_job.                                                          *)
(***************************************************************************)
next_thread_of(p) == (next_thread[p] + 1) % Len(threads[p])

Own(p) == ~is_top_level(p) /\ next_thread[p] = 0

DoJob(a) ==
  LET c == CallOf(Top(a))
      k == next_thread_of(c.p)
      t == threads[c.p][k + 1]
  IN  /\ AtCall(a, "do_job") /\ lock[t] = NULL
      /\ next_thread' = [next_thread EXCEPT ![c.p] = k]
      /\ lock' = [lock EXCEPT ![t] = a]
      /\ Goto(a, [Top(a) EXCEPT !.pc = "emplace", !.to = t])
      /\ UNCHANGED <<jobVars, parent, threads, futures, worker, joining, program>>

kept(p, j) == IF Own(p) THEN futures[p] ELSE Append(futures[p], j)

DoJobEmplace(a) ==
  LET f == Top(a)
      c == CallOf(f)
  IN  /\ At(a, "emplace")
      /\ jobs' = [jobs EXCEPT ![f.to] = Append(@, c.job)]
      /\ proxy' = [proxy EXCEPT ![c.job] = c.p]
      /\ futures' = [futures EXCEPT ![c.p] = kept(c.p, c.job)]
      /\ lock' = [lock EXCEPT ![f.to] = NULL]
      /\ Goto(a, IF Own(c.p) THEN NextCall(f) ELSE [f EXCEPT !.pc = "notify"])
      /\ UNCHANGED <<running_job, finished, runs, parent, threads, next_thread,
                     worker, joining, program>>

DoJobNotify(a) ==
  /\ At(a, "notify")
  /\ Woken(Top(a).to)
  /\ Goto(a, NextCall(Top(a)))
  /\ UNCHANGED <<jobVars, proxyVars, lock, joining, program>>
-----------------------------------------------------------------------------
(***************************************************************************)
(* proxy::join and the destructor of a proxy.                              *)
(***************************************************************************)
helps_never(p) == FALSE
helps(p) == ~is_top_level(p)

Join(a) ==
  /\ AtCall(a, "join")
  /\ Goto(a, [Top(a) EXCEPT !.pc = IF helps(CallOf(Top(a)).p) THEN "help" ELSE "await"])
  /\ UNCHANGED <<jobVars, proxyVars, lock, worker, joining, program>>

\* The first job of proxy p in the stack of thread t, or 0.
job_of(p, t) == SelectInSeq(jobs[t], LAMBDA j : proxy[j] = p)

JoinHelp(a) ==
  LET p == CallOf(Top(a)).p
      t == threads[p][1]
  IN  /\ At(a, "help") /\ lock[t] = NULL /\ job_of(p, t) # 0
      /\ RunJob(t, job_of(p, t))
      /\ UNCHANGED <<proxyVars, lock, worker, joining, program>>

JoinHelped(a) ==
  LET p == CallOf(Top(a)).p
      t == threads[p][1]
  IN  /\ At(a, "help") /\ lock[t] = NULL /\ job_of(p, t) = 0
      /\ Goto(a, [Top(a) EXCEPT !.pc = "await"])
      /\ UNCHANGED <<jobVars, proxyVars, lock, worker, joining, program>>

JoinWait(a) ==
  LET p == CallOf(Top(a)).p IN
  /\ At(a, "await") /\ ToSet(futures[p]) \subseteq finished
  /\ futures' = [futures EXCEPT ![p] = <<>>]
  /\ Goto(a, NextCall(Top(a)))
  /\ UNCHANGED <<jobVars, parent, threads, next_thread, lock, worker, joining, program>>

DestroyProxy(a) ==
  LET p == CallOf(Top(a)).p IN
  /\ AtCall(a, "destroy_proxy")
  /\ IF futures[p] # <<>>
     THEN program' = "terminated" /\ UNCHANGED <<stack, threads>>
     ELSE /\ threads' = [threads EXCEPT ![p] = <<>>]
          /\ Goto(a, NextCall(Top(a))) /\ UNCHANGED program
  /\ UNCHANGED <<jobVars, parent, next_thread, futures, lock, worker, joining>>
-----------------------------------------------------------------------------
(***************************************************************************)
(* The destructor of the pool, called when no other client uses it.        *)
(***************************************************************************)
Finished(c) == Len(stack[c]) = 1 /\ Top(c).pc = "body" /\ Top(c).ip > Len(Calls(c))

DestroyPool(a) ==
  /\ AtCall(a, "destroy_pool") /\ \A c \in Client \ {a} : Finished(c)
  /\ joining' = TRUE
  /\ Goto(a, [Top(a) EXCEPT !.pc = "wake", !.to = 1])
  /\ UNCHANGED <<jobVars, proxyVars, lock, worker, program>>

DestroyPoolWake(a) ==
  LET f == Top(a) IN
  /\ At(a, "wake")
  /\ Woken(f.to)
  /\ Goto(a, IF f.to < N THEN [f EXCEPT !.to = @ + 1] ELSE [f EXCEPT !.pc = "leave"])
  /\ UNCHANGED <<jobVars, proxyVars, lock, joining, program>>

DestroyPoolJoin(a) ==
  /\ At(a, "leave") /\ \A t \in Thread : worker[t] = "exited"
  /\ Goto(a, NextCall(Top(a)))
  /\ UNCHANGED <<jobVars, proxyVars, lock, worker, joining, program>>
-----------------------------------------------------------------------------
Init ==
  /\ script \in Scripts
  /\ jobs = [t \in Thread |-> <<>>]
  /\ running_job = [t \in Thread |-> 0]
  /\ lock = [t \in Thread |-> NULL]
  /\ worker = [t \in Thread |-> "check"]
  /\ joining = FALSE
  /\ parent = [p \in Proxy |-> NULL]
  /\ threads = [p \in Proxy |-> <<>>]
  /\ next_thread = [p \in Proxy |-> 0]
  /\ futures = [p \in Proxy |-> <<>>]
  /\ proxy = [j \in Job |-> NULL]
  /\ finished = {}
  /\ stack = [a \in Actor |-> IF a \in Client THEN <<Frame(a)>> ELSE <<>>]
  /\ program = "running"
  /\ runs = [j \in Job |-> 0]

CallStep(a) ==
  \/ AllocateTopLevel(a) \/ AllocateNested(a) \/ AllocateCorrupted(a)
  \/ DoJob(a) \/ DoJobEmplace(a) \/ DoJobNotify(a)
  \/ Join(a) \/ JoinHelp(a) \/ JoinHelped(a) \/ JoinWait(a) \/ DestroyProxy(a)
  \/ DestroyPool(a) \/ DestroyPoolWake(a) \/ DestroyPoolJoin(a)

WorkerStep(t) == \/ WorkerCheck(t) \/ WorkerBlock(t) \/ WorkerRun(t)
                 \/ WorkerExit(t) \/ JobReturn(t)

Step(a) == /\ CallStep(a) \/ (a \in Thread /\ WorkerStep(a))
           /\ UNCHANGED script

\* Nothing is left to do, or the process has ended.
Terminated ==
  \/ program # "running"
  \/ /\ \A c \in Client : Finished(c)
     /\ \A t \in Thread : worker[t] \in {"wait", "exited"}

Next == (\E a \in Actor : Step(a)) \/ (Terminated /\ UNCHANGED vars)

\* Threads are scheduled: one that can always take its next step takes it.
Fairness == \A a \in Actor : WF_vars(Step(a))

Spec == Init /\ [][Next]_vars
FairSpec == Spec /\ Fairness
-----------------------------------------------------------------------------
\* Types of the threads' and the proxies' members and of the frames.
TypeOK ==
  /\ jobs \in [Thread -> Seq(Job)]
  /\ running_job \in [Thread -> Nat]
  /\ \A t \in Thread : running_job[t] <= Len(jobs[t])
  /\ lock \in [Thread -> Actor \cup {NULL}]
  /\ worker \in [Thread -> {"check", "blocking", "wait", "exited"}]
  /\ joining \in BOOLEAN
  /\ parent \in [Proxy -> Proxy \cup {NULL}]
  /\ threads \in [Proxy -> Seq(Thread)]
  /\ next_thread \in [Proxy -> Nat]
  /\ futures \in [Proxy -> Seq(Job)]
  /\ proxy \in [Job -> Proxy \cup {NULL}]
  /\ finished \subseteq Job
  /\ DOMAIN stack = Actor
  /\ program \in {"running", "terminated", "corrupted"}
  /\ runs \in [Job -> Nat]

JobFrames(t) == {i \in DOMAIN stack[t] : stack[t][i].run \in Job}

\* The index that run_job has kept in a local variable across the job still
\* names that job when run_job erases it, however many jobs were appended and
\* erased meanwhile, for every job on the thread's call stack; running_job_
\* is the index of the innermost one.
IndexStaysValid ==
  \A t \in Thread :
    /\ \A i \in JobFrames(t) :
         LET f == stack[t][i]
         IN  f.index \in DOMAIN jobs[t] /\ jobs[t][f.index] = f.run
    /\ running_job[t] = IF stack[t] = <<>> THEN 0 ELSE Top(t).index

\* No job is run twice, by the loop of its thread or by join().
RunsOnce == \A j \in Job : runs[j] <= 1

\* When join() has returned, every job that was submitted through the proxy
\* before has run, those too that a nested proxy queued on its own thread
\* without a future.
JoinMeansDone ==
  \A a \in Actor : \A i \in DOMAIN stack[a] :
    LET f == stack[a][i]
        c == Calls(f.run)
    IN  \A k \in DOMAIN c : \A m \in 1 .. k - 1 :
          /\ k < f.ip /\ c[k].call = "join"
          /\ c[m].call = "do_job" /\ c[m].p = c[k].p
          => c[m].job \in finished

\* A pool thread in the second half of a nested join() waits for jobs of
\* higher threads only, so threads never wait for each other in a circle.
Queued(t) == ToSet(jobs[t])
WaitsUpwards ==
  \A t \in Thread :
    At(t, "await") =>
      \A j \in ToSet(futures[CallOf(Top(t)).p]) \ finished :
        \E u \in Thread : u > t /\ j \in Queued(u)

\* The calls of all clients return and no nesting of joins blocks the pool,
\* as long as the unlocked read in allocate_threads has not ended the program;
\* the pool's destructor, which may hang, is the subject of DestroyReturns.
CallsReturn ==
  <>(program # "running" \/ \A c \in Client : Finished(c) \/ At(c, "leave"))

\* "destructor joins threads and finish the jobs in the queue": it returns.
DestroyReturns == \A c \in Client : At(c, "leave") ~> ~At(c, "leave")

\* "Any pending jobs will be completed before threads exit": once the pool's
\* destructor has returned, every job that was ever submitted is finished.
PoolDestroyed ==
  \E c \in Client : \E k \in DOMAIN Calls(c) : k < Top(c).ip /\ Calls(c)[k].call = "destroy_pool"
DestroyFinishesJobs ==
  PoolDestroyed => \A j \in Job : proxy[j] # NULL => j \in finished

\* Job stacks: a job is run once, and erased under the index it was run with.
JobsRunOnce == TypeOK /\ IndexStaysValid /\ RunsOnce

\* Neither join() nor the destructor returns before the jobs are finished.
JobsFinish == JoinMeansDone /\ DestroyFinishesJobs
=============================================================================
