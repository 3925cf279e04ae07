--------------------------- MODULE CallbackQueue ---------------------------
(***************************************************************************)
(* threaded_callback_queue (Library/Parallel/tools): a deque of invokers   *)
(* served by worker threads, futures with dependents, wait() that helps by *)
(* running a queued task itself, resizing of the set of workers, and the   *)
(* destructor.                                                             *)
(*                                                                         *)
(* A step is one critical section or one atomic access of the code.  User  *)
(* code is a script, chosen in Init: script[r] is the sequence of calls    *)
(* that the client thread or the task r makes.  The two kinds of lock that *)
(* a thread may hold while it does something that can block are state:     *)
(* mutex_ (held by try_invoke while it locks a future) and a future's own  *)
(* mutex_ (held by a non-void task while it runs and by                    *)
(* signal_dependent_shared_futures).                                       *)
(* The other critical sections are single steps that need the lock free.   *)
(***************************************************************************)
EXTENDS Integers, Sequences, SequencesExt

CONSTANTS
  Client,   \* threads that call the queue's public methods
  Owner,    \* the client that constructs and destroys the queue
  Worker,   \* threads that the queue may ever start
  Invoker,  \* the invoker objects (tasks) that may ever be allocated
  NonVoid,  \* the invokers whose function returns a value
  Scripts,  \* the programs that may use the queue
  NULL

Thread == Client \cup Worker

Status == {"CONSTRUCTING", "ON_HOLD", "ENQUEUED", "RUNNING", "READY"}

(***************************************************************************)
(* A call allocates the invoker inv; push_dependent also allocates aux,    *)
(* the task that will run handle_dependent_invoker.  on is the container   *)
(* of prior futures, n the argument of set_number_of_threads.              *)
(***************************************************************************)
CallName == {"push", "push_dependent", "wait", "future_wait",
             "set_number_of_threads", "destroy"}
Call == [call : CallName, inv : Invoker \cup {NULL}, aux : Invoker \cup {NULL},
         on : Seq(Invoker), n : Nat]

ASSUME ScriptAssumption ==
  /\ Owner \in Client
  /\ NonVoid \subseteq Invoker
  /\ NULL \notin Invoker \cup Thread
  /\ Client \cap Worker = {} /\ Invoker \cap Thread = {}
  /\ \A s \in Scripts : DOMAIN s \subseteq Client \cup Invoker
  /\ \A s \in Scripts : \A r \in DOMAIN s : s[r] \in Seq(Call)
  /\ \A s \in Scripts : \A r \in DOMAIN s : \A i \in DOMAIN s[r] :
       LET c == s[r][i] IN  \* wait, control and handle tasks return void
       /\ c.aux \notin NonVoid
       /\ c.inv \in NonVoid => c.call \in {"push", "push_dependent"}
       /\ c.call \notin {"future_wait", "destroy"} => c.inv \in Invoker
       /\ c.call = "push_dependent" => c.aux \in Invoker \ {c.inv}
       /\ c.call = "future_wait" => c.on # <<>>
       /\ c.call = "destroy" => r = Owner /\ i = Len(s[r])

VARIABLES
  script,             \* the program: script[r] are the calls r makes, in order
  invoker_queue,      \* deque of invokers; NULL is a hole left by try_invoke
  status,             \* status_ of every invoker
  remaining,          \* number_of_prior_shared_futures_remaining_
  invoker_index,      \* invoker_index_
  dependents,         \* dependents_
  kind,               \* what the invoker's stored function does
  bound,              \* the call whose arguments the invoker has captured
  control_futures,    \* control_futures_, in insertion order
  threads,            \* threads_
  number_of_threads,  \* number_of_threads_
  thread_index,       \* *thread_index_ of every worker
  worker,             \* where a worker that runs no invoker is
  destroying,         \* destroying_
  queue_lock,         \* holder of mutex_ between two steps, or NULL
  future_lock,        \* holder of a future's mutex_ between two steps
  destroy_lock,       \* holder of destroy_mutex_
  stack,              \* the frames each thread is executing
  runs                \* how often an invoker's function was started (history)

queueVars   == <<invoker_queue, invoker_index>>
futureVars  == <<remaining, dependents, kind, bound>>
threadVars  == <<threads, number_of_threads, thread_index>>
controlVars == <<control_futures, destroying, destroy_lock>>
lockVars    == <<queue_lock, future_lock>>
vars == <<queueVars, futureVars, threadVars, controlVars, lockVars,
          status, worker, stack, runs, script>>

NoCall == [call |-> "push", inv |-> NULL, aux |-> NULL, on |-> <<>>, n |-> 0]
-----------------------------------------------------------------------------
(***************************************************************************)
(* Frames.  run is the client or invoker whose code executes, ip its next  *)
(* call, todo the futures a loop has still to visit, flag a loop's result, *)
(* tgt the invoker a call works on, launch the invokers to enqueue.        *)
(***************************************************************************)
Frame(r, where) == [run |-> r, pc |-> where, ip |-> 1, todo |-> <<>>,
                    flag |-> FALSE, tgt |-> NULL, launch |-> <<>>]

Calls(r) == IF r \in DOMAIN script THEN script[r] ELSE <<>>

Top(th) == Last(stack[th])
At(th, where) == stack[th] # <<>> /\ Top(th).pc = where

\* Client threads get the queue only once its constructor, the first call
\* of the owner, has returned.
Constructed == status[Calls(Owner)[1].inv] = "READY"
AtCall(th, name) ==
  /\ At(th, "body")
  /\ th \in Client \ {Owner} => Constructed
  /\ Top(th).ip <= Len(Calls(Top(th).run))
  /\ Calls(Top(th).run)[Top(th).ip].call = name
CallOf(f) == Calls(f.run)[f.ip]

Goto(th, f) == stack' = [stack EXCEPT ![th] = Append(Front(@), f)]
Enter(th, f, g) == stack' = [stack EXCEPT ![th] = Append(Append(Front(@), f), g)]
Return(th) == stack' = [stack EXCEPT ![th] = Front(@)]
NextCall(f) == [f EXCEPT !.pc = "body", !.ip = @ + 1, !.todo = <<>>,
                         !.flag = FALSE, !.tgt = NULL]

(***************************************************************************)
(* The frame that executes an invoker's stored function.                   *)
(***************************************************************************)
Invocation(t) ==
  CASE kind[t] = "handle"  -> [Frame(t, "register") EXCEPT
                                 !.todo = bound[t].on, !.tgt = bound[t].inv]
    [] kind[t] = "control" -> Frame(t, "control")
    [] OTHER               -> Frame(t, IF t \in NonVoid THEN "start" ELSE "body")

-----------------------------------------------------------------------------
(***************************************************************************)
(* The deque and the condition variables.                                  *)
(***************************************************************************)
IsTask(x) == x # NULL

pop_front_nullptr(q) ==
  LET first == SelectInSeq(q, IsTask)
  IN  IF first = 0 THEN <<>> ELSE SubSeq(q, first, Len(q))

front_invoker_index ==
  LET first == SelectInSeq(invoker_queue, IsTask)
  IN  IF first = 0 THEN 0 ELSE invoker_index[invoker_queue[first]]

back_invoker_index_of_front ==
  LET first == SelectInSeq(invoker_queue, IsTask)
  IN  IF first = 0 THEN -1 ELSE invoker_index[invoker_queue[first]]
back_invoker_index ==
  LET last == SelectLastInSeq(invoker_queue, IsTask)
  IN  IF last = 0 THEN -1 ELSE invoker_index[invoker_queue[last]]

must_wait_first_only(futures) ==
  futures # <<>> /\ status[Head(futures)] # "READY"
must_wait(futures) == \E i \in DOMAIN futures : status[futures[i]] # "READY"

Waiting == {w \in Worker : worker[w] = "wait"}
notify_one_lost == UNCHANGED worker
notify_one ==
  \/ Waiting = {} /\ UNCHANGED worker
  \/ \E w \in Waiting : worker' = [worker EXCEPT ![w] = "pop"]
notify_all ==
  worker' = [w \in Worker |-> IF w \in Waiting THEN "pop" ELSE worker[w]]

Start(t) == /\ status' = [status EXCEPT ![t] = "RUNNING"]
            /\ runs' = [runs EXCEPT ![t] = @ + 1]
-----------------------------------------------------------------------------
(***************************************************************************)
(* thread_worker: on_hold, can_continue, pop and the end of operator().    *)
(***************************************************************************)
on_hold(w) == /\ thread_index[w] < number_of_threads
              /\ ~destroying
              /\ invoker_queue = <<>>

can_continue(w, q) == thread_index[w] < number_of_threads /\ q # <<>>

WorkerHold(w) ==
  /\ worker[w] = "pop" /\ stack[w] = <<>> /\ queue_lock = NULL
  /\ on_hold(w)
  /\ worker' = [worker EXCEPT ![w] = "wait"]
  /\ UNCHANGED <<queueVars, futureVars, threadVars, controlVars, lockVars,
                 status, stack, runs>>

WorkerPop(w) ==
  LET q == pop_front_nullptr(invoker_queue)
  IN  /\ worker[w] = "pop" /\ stack[w] = <<>> /\ queue_lock = NULL
      /\ ~on_hold(w)
      /\ can_continue(w, q)
      /\ invoker_queue' = pop_front_nullptr(Tail(q))
      /\ Start(Head(q))
      /\ stack' = [stack EXCEPT ![w] = <<Invocation(Head(q))>>]
      /\ UNCHANGED <<invoker_index, futureVars, threadVars, controlVars,
                     lockVars, worker>>

WorkerExit(w) ==
  LET q == pop_front_nullptr(invoker_queue)
  IN  /\ worker[w] = "pop" /\ stack[w] = <<>> /\ queue_lock = NULL
      /\ ~on_hold(w)
      /\ ~can_continue(w, q)
      /\ invoker_queue' = q
      /\ worker' = [worker EXCEPT ![w] = "exited"]
      /\ UNCHANGED <<invoker_index, futureVars, threadVars, controlVars,
                     lockVars, status, stack, runs>>
-----------------------------------------------------------------------------
(***************************************************************************)
(* push and push_dependent.  The object is new: nobody else can see it     *)
(* before the call returns.  push_dependent either pushes the task itself  *)
(* or a task that will register it with its priors.                        *)
(***************************************************************************)
Fresh(t) == kind[t] = "none"

emplace_back(t) ==
  /\ status' = [status EXCEPT ![t] = "ENQUEUED"]
  /\ invoker_index' = [invoker_index EXCEPT ![t] = back_invoker_index + 1]
  /\ invoker_queue' = Append(invoker_queue, t)

Push(th) ==
  LET f == Top(th) c == CallOf(f)
  IN  /\ AtCall(th, "push") /\ Fresh(c.inv) /\ queue_lock = NULL
      /\ kind' = [kind EXCEPT ![c.inv] = "task"]
      /\ bound' = [bound EXCEPT ![c.inv] = c]
      /\ emplace_back(c.inv)
      /\ Goto(th, [f EXCEPT !.pc = "notify"])
      /\ UNCHANGED <<remaining, dependents, threadVars, controlVars, lockVars,
                     worker, runs>>

PushDependent(th) ==
  LET f == Top(th) c == CallOf(f)
  IN  /\ AtCall(th, "push_dependent") /\ Fresh(c.inv) /\ Fresh(c.aux)
      /\ kind' = IF must_wait(c.on)
                 THEN [kind EXCEPT ![c.inv] = "task", ![c.aux] = "handle"]
                 ELSE [kind EXCEPT ![c.inv] = "task"]
      /\ bound' = IF must_wait(c.on)
                  THEN [bound EXCEPT ![c.inv] = c, ![c.aux] = c]
                  ELSE [bound EXCEPT ![c.inv] = c]
      /\ Goto(th, [f EXCEPT !.pc = "push",
                            !.tgt = IF must_wait(c.on) THEN c.aux ELSE c.inv])
      /\ UNCHANGED <<queueVars, remaining, dependents, threadVars, controlVars,
                     lockVars, status, worker, runs>>

PushTarget(th) ==
  /\ At(th, "push") /\ queue_lock = NULL
  /\ emplace_back(Top(th).tgt)
  /\ Goto(th, [Top(th) EXCEPT !.pc = "notify"])
  /\ UNCHANGED <<futureVars, threadVars, controlVars, lockVars, worker, runs>>

Notify(th) ==
  /\ At(th, "notify")
  /\ notify_one
  /\ Goto(th, NextCall(Top(th)))
  /\ UNCHANGED <<queueVars, futureVars, threadVars, controlVars, lockVars,
                 status, runs>>
-----------------------------------------------------------------------------
(***************************************************************************)
(* wait: run each future that is still queued, then, if some future is not *)
(* READY, register an empty high-priority invoker with them and block on   *)
(* it.  WaitTake is try_invoke's second half, entered holding mutex_.      *)
(***************************************************************************)
Wait(th) ==
  /\ AtCall(th, "wait")
  /\ Goto(th, [Top(th) EXCEPT !.pc = "visit", !.todo = CallOf(Top(th)).on])
  /\ UNCHANGED <<queueVars, futureVars, threadVars, controlVars, lockVars,
                 status, worker, runs>>

Visited_overwrites(f, waits) == [f EXCEPT !.pc = "visit", !.todo = Tail(@),
                                          !.flag = waits]
Visited(f, waits) == [f EXCEPT !.pc = "visit", !.todo = Tail(@),
                               !.flag = @ \/ waits]

WaitVisit(th) ==
  LET f == Top(th) IN
  /\ At(th, "visit") /\ f.todo # <<>>
  /\ CASE status[Head(f.todo)] = "READY"    -> Goto(th, Visited(f, FALSE))
       [] status[Head(f.todo)] = "ENQUEUED" -> Goto(th, [f EXCEPT !.pc = "try"])
       [] OTHER                             -> Goto(th, Visited(f, TRUE))
  /\ UNCHANGED <<queueVars, futureVars, threadVars, controlVars, lockVars,
                 status, worker, runs>>

WaitLock(th) ==
  LET f == Top(th) q == pop_front_nullptr(invoker_queue) IN
  /\ At(th, "try") /\ queue_lock = NULL
  /\ invoker_queue' = q
  /\ IF q = <<>>
     THEN Goto(th, Visited(f, TRUE)) /\ UNCHANGED queue_lock
     ELSE Goto(th, [f EXCEPT !.pc = "take"]) /\ queue_lock' = th
  /\ UNCHANGED <<invoker_index, futureVars, threadVars, controlVars,
                 future_lock, status, worker, runs>>

\* The 1-based position at which try_invoke looks for invoker t.
slot_of(t) == 1 + invoker_index[t] - invoker_index[Head(invoker_queue)]

\* What is left of the deque when try_invoke takes the invoker at slot.
taken_keeping_nulls(slot) ==
  IF slot = 1 THEN Tail(invoker_queue)
              ELSE [invoker_queue EXCEPT ![slot] = NULL]
taken(slot) == IF slot = 1 THEN pop_front_nullptr(Tail(invoker_queue))
                           ELSE [invoker_queue EXCEPT ![slot] = NULL]

WaitTake(th) ==
  LET f    == Top(th)
      t    == Head(f.todo)
      slot == slot_of(t)
  IN  /\ At(th, "take") /\ future_lock[t] = NULL
      /\ queue_lock' = NULL
      /\ IF /\ status[t] = "ENQUEUED"
            /\ slot \in DOMAIN invoker_queue
            /\ invoker_queue[slot] = t
         THEN /\ invoker_queue' = taken(slot)
              /\ Start(t)
              /\ Enter(th, Visited(f, FALSE), Invocation(t))
         ELSE /\ Goto(th, Visited(f, TRUE))
              /\ UNCHANGED <<invoker_queue, status, runs>>
      /\ UNCHANGED <<invoker_index, futureVars, threadVars, controlVars,
                     future_lock, worker>>

WaitDecide(th) ==
  LET f == Top(th) c == CallOf(f) IN
  /\ At(th, "visit") /\ f.todo = <<>>
  /\ IF f.flag /\ must_wait(c.on)
     THEN /\ Fresh(c.inv)
          /\ kind' = [kind EXCEPT ![c.inv] = "waiter"]
          /\ Goto(th, [f EXCEPT !.pc = "register", !.todo = c.on, !.tgt = c.inv])
     ELSE Goto(th, NextCall(f)) /\ UNCHANGED kind
  /\ UNCHANGED <<queueVars, remaining, dependents, bound, threadVars,
                 controlVars, lockVars, status, worker, runs>>

WaitReturn(th) ==
  /\ At(th, "block") /\ status[Top(th).tgt] = "READY"
  /\ Goto(th, NextCall(Top(th)))
  /\ UNCHANGED <<queueVars, futureVars, threadVars, controlVars, lockVars,
                 status, worker, runs>>

\* shared_future_base::wait, called directly: it blocks and never helps.
FutureWait(th) ==
  /\ AtCall(th, "future_wait")
  /\ status[Head(CallOf(Top(th)).on)] = "READY"
  /\ Goto(th, NextCall(Top(th)))
  /\ UNCHANGED <<queueVars, futureVars, threadVars, controlVars, lockVars,
                 status, worker, runs>>
-----------------------------------------------------------------------------
(***************************************************************************)
(* handle_dependent_invoker: tgt is registered with every future of todo   *)
(* that is not READY.  The counter is incremented only after the prior's   *)
(* lock is released, so the prior may decrement it first.                  *)
(***************************************************************************)
Register(th) ==
  LET f == Top(th) IN
  /\ At(th, "register") /\ f.todo # <<>>
  /\ IF status[Head(f.todo)] = "READY"
     THEN Goto(th, [f EXCEPT !.todo = Tail(@)])
     ELSE Goto(th, [f EXCEPT !.pc = "append"])
  /\ UNCHANGED <<queueVars, futureVars, threadVars, controlVars, lockVars,
                 status, worker, runs>>

RegisterAppend(th) ==
  LET f == Top(th) prior == Head(f.todo) IN
  /\ At(th, "append") /\ future_lock[prior] = NULL
  /\ IF status[prior] = "READY"
     THEN /\ Goto(th, [f EXCEPT !.pc = "register", !.todo = Tail(@)])
          /\ UNCHANGED dependents
     ELSE /\ Goto(th, [f EXCEPT !.pc = "count"])
          /\ dependents' = [dependents EXCEPT ![prior] = Append(@, f.tgt)]
  /\ UNCHANGED <<queueVars, remaining, kind, bound, threadVars, controlVars,
                 lockVars, status, worker, runs>>

RegisterCount(th) ==
  LET f == Top(th) IN
  /\ At(th, "count")
  /\ remaining' = [remaining EXCEPT ![f.tgt] = @ + 1]
  /\ Goto(th, [f EXCEPT !.pc = "register", !.todo = Tail(@)])
  /\ UNCHANGED <<queueVars, dependents, kind, bound, threadVars, controlVars,
                 lockVars, status, worker, runs>>

\* Where the caller goes on: a handle task has finished its function, wait
\* blocks on the invoker, push_control returns.
Registered(f) ==
  CASE kind[f.tgt] = "waiter"  -> [f EXCEPT !.pc = "block"]
    [] kind[f.tgt] = "control" -> NextCall(f)
    [] OTHER                   -> [f EXCEPT !.pc = "finish"]

RegisterSettle(th) ==
  LET f == Top(th) IN
  /\ At(th, "register") /\ f.todo = <<>> /\ future_lock[f.tgt] = NULL
  /\ IF remaining[f.tgt] # 0
     THEN /\ status' = [status EXCEPT ![f.tgt] = "ON_HOLD"]
          /\ Goto(th, Registered(f)) /\ UNCHANGED runs
     ELSE /\ Start(f.tgt)
          /\ Enter(th, Registered(f), Invocation(f.tgt))
  /\ UNCHANGED <<queueVars, futureVars, threadVars, controlVars, lockVars,
                 worker>>
-----------------------------------------------------------------------------
(***************************************************************************)
(* invoke and signal_dependent_shared_futures.  A non-void invoker holds   *)
(* its own mutex_ from before its function until it is READY.              *)
(***************************************************************************)
InvokeNonVoid(th) ==
  LET f == Top(th) IN
  /\ At(th, "start") /\ future_lock[f.run] = NULL
  /\ future_lock' = [future_lock EXCEPT ![f.run] = th]
  /\ Goto(th, [f EXCEPT !.pc = "body"])
  /\ UNCHANGED <<queueVars, futureVars, threadVars, controlVars, queue_lock,
                 status, worker, runs>>

FunctionReturned(th) ==
  \/ At(th, "finish")
  \/ /\ At(th, "body") /\ Top(th).run \in Invoker
     /\ Top(th).ip > Len(Calls(Top(th).run))

Finish(th) ==
  LET f == Top(th) IN
  /\ FunctionReturned(th)
  /\ future_lock[f.run] = IF f.run \in NonVoid THEN th ELSE NULL
  /\ future_lock' = [future_lock EXCEPT ![f.run] = NULL]
  /\ status' = [status EXCEPT ![f.run] = "READY"]
  /\ IF f.flag THEN Return(th)   \* push_control's call does not signal
               ELSE Goto(th, [f EXCEPT !.pc = "signal"])
  /\ UNCHANGED <<queueVars, futureVars, threadVars, controlVars, queue_lock,
                 worker, runs>>

Signal(th) ==
  LET f == Top(th) IN
  /\ At(th, "signal") /\ future_lock[f.run] = NULL
  /\ future_lock' = [future_lock EXCEPT ![f.run] = th]
  /\ Goto(th, [f EXCEPT !.pc = "dependent", !.todo = dependents[f.run]])
  /\ UNCHANGED <<queueVars, futureVars, threadVars, controlVars, queue_lock,
                 status, worker, runs>>

is_high_priority(t) == kind[t] \in {"waiter", "control"}

\* The decrement, made in the same step, is the last one that d waits for.
was_last_prior_uncounted(d) == status[d] = "ON_HOLD"
was_last_prior(d) == status[d] = "ON_HOLD" /\ remaining[d] = 1

SignalDependent(th) ==
  LET f    == Top(th)
      d    == Head(f.todo)
      rest == [f EXCEPT !.todo = Tail(@)]
  IN  /\ At(th, "dependent") /\ f.todo # <<>> /\ future_lock[d] = NULL
      /\ remaining' = [remaining EXCEPT ![d] = @ - 1]
      /\ IF was_last_prior(d)
         THEN IF is_high_priority(d)
              THEN Start(d) /\ Enter(th, rest, Invocation(d))
              ELSE /\ Goto(th, [rest EXCEPT !.launch = Append(@, d)])
                   /\ UNCHANGED <<status, runs>>
         ELSE Goto(th, rest) /\ UNCHANGED <<status, runs>>
      /\ UNCHANGED <<queueVars, dependents, kind, bound, threadVars,
                     controlVars, lockVars, worker>>

SignalDone(th) ==
  LET f == Top(th) IN
  /\ At(th, "dependent") /\ f.todo = <<>>
  /\ future_lock' = [future_lock EXCEPT ![f.run] = NULL]
  /\ IF f.launch = <<>> THEN Return(th)
                        ELSE Goto(th, [f EXCEPT !.pc = "launch"])
  /\ UNCHANGED <<queueVars, futureVars, threadVars, controlVars, queue_lock,
                 status, worker, runs>>

\* Every invoker to launch is put in front of the previous one.
SignalLaunch(th) ==
  LET f == Top(th)
      l == f.launch
      q == pop_front_nullptr(invoker_queue)
      base == IF q = <<>> THEN Len(l) ELSE invoker_index[Head(q)]
  IN  /\ At(th, "launch") /\ queue_lock = NULL
      /\ \A i \in DOMAIN l : future_lock[l[i]] = NULL
      /\ invoker_queue' = Reverse(l) \o q
      /\ invoker_index' = [t \in Invoker |->
                             IF Contains(l, t)
                             THEN base - SelectInSeq(l, LAMBDA x : x = t)
                             ELSE invoker_index[t]]
      /\ status' = [t \in Invoker |-> IF Contains(l, t) THEN "ENQUEUED"
                                                        ELSE status[t]]
      /\ Goto(th, [f EXCEPT !.pc = "wake"])
      /\ UNCHANGED <<futureVars, threadVars, controlVars, lockVars, worker, runs>>

SignalWake(th) ==
  LET f == Top(th) IN
  /\ At(th, "wake")
  /\ notify_one
  /\ IF Len(f.launch) = 1 THEN Return(th)
                          ELSE Goto(th, [f EXCEPT !.launch = Tail(@)])
  /\ UNCHANGED <<queueVars, futureVars, threadVars, controlVars, lockVars,
                 status, runs>>
-----------------------------------------------------------------------------
(***************************************************************************)
(* push_control, used by set_number_of_threads only, and its three ways to *)
(* run the control: after the earlier ones, inline, or from the front of   *)
(* the deque.  control_futures_ only grows: the copy of the worker functor *)
(* that runs was made before its future_ was set, so its erase finds       *)
(* nothing.                                                                *)
(***************************************************************************)
SetNumberOfThreads(th) ==
  LET f == Top(th) c == CallOf(f) IN
  /\ AtCall(th, "set_number_of_threads") /\ Fresh(c.inv)
  /\ kind' = [kind EXCEPT ![c.inv] = "control"]
  /\ bound' = [bound EXCEPT ![c.inv] = c]
  /\ control_futures' = Append(control_futures, c.inv)
  /\ Goto(th, [f EXCEPT !.pc = "controls", !.todo = control_futures,
                        !.tgt = c.inv])
  /\ UNCHANGED <<queueVars, remaining, dependents, threadVars, destroying,
                 destroy_lock, lockVars, status, worker, runs>>

ControlDepends(th) ==
  LET f == Top(th) IN
  /\ At(th, "controls") /\ must_wait(f.todo)
  /\ Goto(th, [f EXCEPT !.pc = "register"])
  /\ UNCHANGED <<queueVars, futureVars, threadVars, controlVars, lockVars,
                 status, worker, runs>>

ControlInline(th) ==
  LET f == Top(th) IN
  /\ At(th, "controls") /\ ~must_wait(f.todo) /\ threads = <<>>
  /\ Start(f.tgt)
  /\ Enter(th, NextCall(f), [Invocation(f.tgt) EXCEPT !.flag = TRUE])
  /\ UNCHANGED <<queueVars, futureVars, threadVars, controlVars, lockVars,
                 worker>>

ControlEnqueue(th) ==
  LET f == Top(th) IN
  /\ At(th, "controls") /\ ~must_wait(f.todo) /\ threads # <<>>
  /\ queue_lock = NULL
  /\ status' = [status EXCEPT ![f.tgt] = "ENQUEUED"]
  /\ invoker_index' = [invoker_index EXCEPT ![f.tgt] =
                         IF invoker_queue = <<>> THEN 0
                                                 ELSE front_invoker_index - 1]
  /\ invoker_queue' = Cons(f.tgt, invoker_queue)
  /\ Goto(th, [f EXCEPT !.pc = "notify"])
  /\ UNCHANGED <<futureVars, threadVars, controlVars, lockVars, worker, runs>>
-----------------------------------------------------------------------------
(***************************************************************************)
(* The function that set_number_of_threads pushes.  It holds               *)
(* destroy_mutex_ until it returns.                                        *)
(***************************************************************************)
ControlSkip(th) ==
  /\ At(th, "control") /\ destroy_lock = NULL
  /\ destroying \/ Len(threads) = bound[Top(th).run].n
  /\ Goto(th, [Top(th) EXCEPT !.pc = "finish"])
  /\ UNCHANGED <<queueVars, futureVars, threadVars, controlVars, lockVars,
                 status, worker, runs>>

Grow(th) ==
  LET n == bound[Top(th).run].n IN
  /\ At(th, "control") /\ destroy_lock = NULL
  /\ ~destroying /\ Len(threads) < n
  /\ destroy_lock' = th
  /\ number_of_threads' = n
  /\ Goto(th, [Top(th) EXCEPT !.pc = "spawn"])
  /\ UNCHANGED <<queueVars, futureVars, threads, thread_index, control_futures,
                 destroying, lockVars, status, worker, runs>>

next_index == Len(threads)

GrowSpawn(th) ==
  LET w == CHOOSE w \in Worker : worker[w] = "none" IN
  /\ At(th, "spawn") /\ Len(threads) < bound[Top(th).run].n
  /\ \E v \in Worker : worker[v] = "none"
  /\ worker' = [worker EXCEPT ![w] = "pop"]
  /\ thread_index' = [thread_index EXCEPT ![w] = next_index]
  /\ threads' = Append(threads, w)
  /\ UNCHANGED <<queueVars, futureVars, number_of_threads, controlVars,
                 lockVars, status, stack, runs>>

GrowDone(th) ==
  /\ At(th, "spawn") /\ Len(threads) = bound[Top(th).run].n
  /\ destroy_lock' = NULL
  /\ Goto(th, [Top(th) EXCEPT !.pc = "finish"])
  /\ UNCHANGED <<queueVars, futureVars, threadVars, control_futures,
                 destroying, lockVars, status, worker, runs>>

\* The worker that runs the control must survive: it trades places with
\* thread 0 if it is among those that have to go.
MustSwap_beyond(th, n) ==
  th \in Worker /\ thread_index[th] # 0 /\ thread_index[th] > n
MustSwap(th, n) ==
  th \in Worker /\ thread_index[th] # 0 /\ thread_index[th] >= n

swapped_index(th, w0) ==
  [thread_index EXCEPT ![w0] = thread_index[th], ![th] = 0]

Shrink(th) ==
  LET n == bound[Top(th).run].n
      i == thread_index[th]
      w0 == threads[1]
  IN  /\ At(th, "control") /\ destroy_lock = NULL
      /\ ~destroying /\ Len(threads) > n
      /\ destroy_lock' = th
      /\ IF MustSwap(th, n)
         THEN /\ threads' = [threads EXCEPT ![1] = th, ![i + 1] = w0]
              /\ thread_index' = swapped_index(th, w0)
         ELSE UNCHANGED <<threads, thread_index>>
      /\ Goto(th, [Top(th) EXCEPT !.pc = "shrink"])
      /\ UNCHANGED <<queueVars, futureVars, number_of_threads, control_futures,
                     destroying, lockVars, status, worker, runs>>

ShrinkSet(th) ==
  /\ At(th, "shrink") /\ queue_lock = NULL
  /\ number_of_threads' = bound[Top(th).run].n
  /\ Goto(th, [Top(th) EXCEPT !.pc = "dismiss"])
  /\ UNCHANGED <<queueVars, futureVars, threads, thread_index, controlVars,
                 lockVars, status, worker, runs>>

ShrinkNotify(th) ==
  /\ At(th, "dismiss")
  /\ notify_all
  /\ Goto(th, [Top(th) EXCEPT !.pc = "join"])
  /\ UNCHANGED <<queueVars, futureVars, threadVars, controlVars, lockVars,
                 status, runs>>

ShrinkJoin(th) ==
  LET n == number_of_threads IN
  /\ At(th, "join")
  /\ \A i \in n + 1 .. Len(threads) : worker[threads[i]] = "exited"
  /\ threads' = SubSeq(threads, 1, n)
  /\ destroy_lock' = NULL
  /\ Goto(th, [Top(th) EXCEPT !.pc = "finish"])
  /\ UNCHANGED <<queueVars, futureVars, number_of_threads, thread_index,
                 control_futures, destroying, lockVars, status, worker, runs>>
-----------------------------------------------------------------------------
(***************************************************************************)
(* The destructor.  Like any destructor it is called when no other thread  *)
(* is inside a method of the object.                                       *)
(***************************************************************************)
Finished(c) == /\ Len(stack[c]) = 1
               /\ Top(c).pc = "body" /\ Top(c).ip > Len(Calls(c))

Destroy(th) ==
  /\ AtCall(th, "destroy") /\ \A c \in Client \ {th} : Finished(c)
  /\ destroy_lock = NULL /\ queue_lock = NULL
  /\ destroying' = TRUE
  /\ Goto(th, [Top(th) EXCEPT !.pc = "destroy"])
  /\ UNCHANGED <<queueVars, futureVars, threadVars, control_futures,
                 destroy_lock, lockVars, status, worker, runs>>

DestroyNotify(th) ==
  /\ At(th, "destroy")
  /\ notify_all
  /\ Goto(th, [Top(th) EXCEPT !.pc = "sync"])
  /\ UNCHANGED <<queueVars, futureVars, threadVars, controlVars, lockVars,
                 status, runs>>

DestroySync(th) ==
  /\ At(th, "sync")
  /\ \A i \in DOMAIN threads : worker[threads[i]] = "exited"
  /\ Goto(th, NextCall(Top(th)))
  /\ UNCHANGED <<queueVars, futureVars, threadVars, controlVars, lockVars,
                 status, worker, runs>>
-----------------------------------------------------------------------------
Init ==
  /\ script \in Scripts
  /\ invoker_queue = <<>>
  /\ status = [t \in Invoker |-> "CONSTRUCTING"]
  /\ remaining = [t \in Invoker |-> 0]
  /\ invoker_index = [t \in Invoker |-> 0]
  /\ dependents = [t \in Invoker |-> <<>>]
  /\ kind = [t \in Invoker |-> "none"]
  /\ bound = [t \in Invoker |-> NoCall]
  /\ control_futures = <<>>
  /\ threads = <<>>
  /\ number_of_threads = 0
  /\ thread_index = [w \in Worker |-> 0]
  /\ worker = [w \in Worker |-> "none"]
  /\ destroying = FALSE
  /\ queue_lock = NULL
  /\ future_lock = [t \in Invoker |-> NULL]
  /\ destroy_lock = NULL
  /\ stack = [th \in Thread |-> IF th \in Client THEN <<Frame(th, "body")>>
                                                 ELSE <<>>]
  /\ runs = [t \in Invoker |-> 0]

WorkerStep(w) == WorkerHold(w) \/ WorkerPop(w) \/ WorkerExit(w)

CallStep(th) ==
  \/ Push(th) \/ PushDependent(th) \/ PushTarget(th) \/ Notify(th)
  \/ Wait(th) \/ WaitVisit(th) \/ WaitLock(th) \/ WaitTake(th)
  \/ WaitDecide(th) \/ WaitReturn(th) \/ FutureWait(th)
  \/ Register(th) \/ RegisterAppend(th) \/ RegisterCount(th)
  \/ RegisterSettle(th)

InvokeStep(th) ==
  \/ InvokeNonVoid(th) \/ Finish(th) \/ Signal(th) \/ SignalDependent(th)
  \/ SignalDone(th) \/ SignalLaunch(th) \/ SignalWake(th)

ControlStep(th) ==
  \/ SetNumberOfThreads(th) \/ ControlDepends(th) \/ ControlInline(th)
  \/ ControlEnqueue(th) \/ ControlSkip(th) \/ Grow(th) \/ GrowSpawn(th)
  \/ GrowDone(th) \/ Shrink(th) \/ ShrinkSet(th) \/ ShrinkNotify(th)
  \/ ShrinkJoin(th) \/ Destroy(th) \/ DestroyNotify(th) \/ DestroySync(th)

Step(th) == /\ \/ CallStep(th) \/ InvokeStep(th) \/ ControlStep(th)
               \/ th \in Worker /\ WorkerStep(th)
            /\ UNCHANGED script

\* Every client has made all its calls and no thread of the queue is busy.
Terminated ==
  /\ \A c \in Client : Finished(c)
  /\ \A w \in Worker : worker[w] \in {"none", "wait", "exited"} /\ stack[w] = <<>>

Next == \/ \E th \in Thread : Step(th)
        \/ Terminated /\ UNCHANGED vars

\* Threads are scheduled: one that can always take its next step takes it.
Fairness == \A th \in Thread : WF_vars(Step(th))

Spec == Init /\ [][Next]_vars
FairSpec == Spec /\ Fairness
-----------------------------------------------------------------------------
FrameOK(f) ==
  /\ DOMAIN f = {"run", "pc", "ip", "todo", "flag", "tgt", "launch"}
  /\ f.run \in Client \cup Invoker
  /\ f.pc \in {"body", "push", "notify", "visit", "try", "take", "register",
               "append", "count", "block", "start", "finish", "signal",
               "dependent", "launch", "wake", "controls", "control", "spawn",
               "shrink", "dismiss", "join", "destroy", "sync"}
  /\ f.ip \in Nat \ {0}
  /\ f.todo \in Seq(Invoker)
  /\ f.flag \in BOOLEAN
  /\ f.tgt \in Invoker \cup {NULL}
  /\ f.launch \in Seq(Invoker)

\* Types of the queue's members and of the threads' frames.
TypeOK ==
  /\ invoker_queue \in Seq(Invoker \cup {NULL})
  /\ status \in [Invoker -> Status]
  /\ remaining \in [Invoker -> Int]
  /\ invoker_index \in [Invoker -> Int]
  /\ dependents \in [Invoker -> Seq(Invoker)]
  /\ kind \in [Invoker -> {"none", "task", "handle", "waiter", "control"}]
  /\ bound \in [Invoker -> Call]
  /\ control_futures \in Seq(Invoker)
  /\ threads \in Seq(Worker)
  /\ number_of_threads \in Nat
  /\ thread_index \in [Worker -> Nat]
  /\ worker \in [Worker -> {"none", "pop", "wait", "exited"}]
  /\ destroying \in BOOLEAN
  /\ queue_lock \in Thread \cup {NULL}
  /\ future_lock \in [Invoker -> Thread \cup {NULL}]
  /\ destroy_lock \in Thread \cup {NULL}
  /\ DOMAIN stack = Thread
  /\ \A th \in Thread : /\ stack[th] \in Seq(Range(stack[th]))
                        /\ \A i \in DOMAIN stack[th] : FrameOK(stack[th][i])
  /\ runs \in [Invoker -> Nat]

\* An invoker is in the deque exactly while it is ENQUEUED, and only once:
\* what try_invoke relies on when it re-reads the status under the locks,
\* and why a task can neither be lost nor popped twice.
QueueMatchesStatus ==
  /\ \A t \in Invoker : status[t] = "ENQUEUED" <=> Contains(invoker_queue, t)
  /\ \A i, j \in DOMAIN invoker_queue :
       i # j /\ invoker_queue[i] = invoker_queue[j] => invoker_queue[i] = NULL

\* Holes never reach the front: try_invoke dereferences front(), and a
\* worker that finds only holes would leave its loop for good.
FrontIsLive == invoker_queue # <<>> => Head(invoker_queue) # NULL

\* invoker_index_ grows along the deque, and never by more than the distance
\* between two places: the slot try_invoke computes for a queued invoker is
\* inside the deque and not beyond the invoker's own place.
IndexOrder ==
  \A i, j \in DOMAIN invoker_queue :
    i < j /\ invoker_queue[i] # NULL /\ invoker_queue[j] # NULL =>
      LET d == invoker_index[invoker_queue[j]] - invoker_index[invoker_queue[i]]
      IN  0 < d /\ d <= j - i

\* No invoker's function is started twice, whoever starts it: a worker, a
\* waiting thread, the thread that finished the last prior, or its own
\* registration.
RunsOnce == \A t \in Invoker : runs[t] <= 1

\* A task pushed with push_dependent is offered to the workers or started
\* only when all its prior futures are READY.
PriorsFirst ==
  \A t \in Invoker :
    /\ kind[t] = "task" /\ bound[t].call = "push_dependent"
    /\ status[t] \in {"ENQUEUED", "RUNNING", "READY"}
    => ~must_wait(bound[t].on)

\* While a task is queued and the queue has threads, a worker that may take it
\* is awake, or is about to be: a notification is on its way or a resize is
\* still starting or dismissing threads.
Awake(w) == worker[w] = "pop" /\ thread_index[w] < number_of_threads
NoLostWakeup ==
  invoker_queue # <<>> /\ number_of_threads > 0 =>
    \/ \E w \in Worker : Awake(w)
    \/ \E th \in Thread : \/ At(th, "notify") \/ At(th, "wake") \/ At(th, "dismiss")
                          \/ At(th, "spawn") /\ Len(threads) < number_of_threads

\* A resize starts only when every earlier one is READY.
ControlsInOrder ==
  \A i, j \in DOMAIN control_futures :
    i < j /\ status[control_futures[j]] \in {"RUNNING", "READY"}
      => status[control_futures[i]] = "READY"

\* Between resizes the thread table is consistent: thread i has index i, all
\* threads below number_of_threads_ exist, and none of them has left unless
\* the queue is being destroyed.
Resizing == \E th \in Thread : \/ At(th, "spawn") \/ At(th, "shrink")
                               \/ At(th, "dismiss") \/ At(th, "join")
ThreadTable ==
  ~Resizing =>
    /\ Len(threads) = number_of_threads
    /\ \A i \in DOMAIN threads :
         /\ thread_index[threads[i]] = i - 1
         /\ worker[threads[i]] = "exited" => destroying

\* When wait() has returned, all the futures it was given are READY.
WaitMeansReady ==
  \A th \in Thread : \A i \in DOMAIN stack[th] :
    LET f == stack[th][i] IN
    \A k \in 1 .. Len(Calls(f.run)) :
      k < f.ip /\ Calls(f.run)[k].call = "wait" => ~must_wait(Calls(f.run)[k].on)

\* Once the destructor has returned, everything that was pushed has run.
DestroyDrains ==
  destroying /\ Finished(Owner) =>
    \A t \in Invoker : kind[t] # "none" => status[t] = "READY"

\* Every call of every client returns.
CallsReturn == <>(\A c \in Client : Finished(c))

\* In the end every task that was pushed is READY.
EveryTaskFinishes ==
  <>[](\A t \in Invoker : kind[t] # "none" => status[t] = "READY")

\* A thread inside wait() gets out of it.
Inside(th) == \E i \in DOMAIN stack[th] :
  stack[th][i].pc \in {"visit", "try", "take", "register", "append", "count", "block"}
WaitReturns == \A th \in Thread : Inside(th) ~> ~Inside(th)

\* The deque: its content agrees with the statuses of the futures, the indexes
\* stay within it and in its order, and its front is a live invoker, whoever
\* pushes, pops, helps and launches.
DequeSound == TypeOK /\ QueueMatchesStatus /\ IndexOrder /\ FrontIsLive

\* A task runs once and after the tasks it depends on, however registration
\* and completion interleave.
TasksInOrder == RunsOnce /\ PriorsFirst

\* Resizes take effect one after the other and leave threads_, the indexes of
\* the threads and number_of_threads_ in agreement.
ResizesInOrder == ControlsInOrder /\ ThreadTable

\* Every call of a client returns, every task that was pushed finishes, and
\* the destructor does not return before that.
QueueReturns == CallsReturn /\ EveryTaskFinishes /\ []DestroyDrains
=============================================================================
