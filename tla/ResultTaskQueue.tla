-------------------------- MODULE ResultTaskQueue --------------------------
(***************************************************************************)
(* threaded_task_queue<R, Args...> for a task that returns a value: the    *)
(* task queue of TaskQueue, result_queue, and the main thread's pop,       *)
(* try_pop, is_empty and flush.  The result of a task is its id.           *)
(***************************************************************************)
EXTENDS TaskQueue, FiniteSetsExt

VARIABLES
  strict_ordering, \* strict_ordering_, never changed
  results,         \* results_, a priority queue with the smallest id on top
  next_result_id,  \* next_result_id_
  flushing,        \* the main thread's pop was called by flush
  popped           \* the results handed to the main thread (history)

resultVars == <<strict_ordering, results, next_result_id, flushing, popped>>
vars == <<taskVars, resultVars>>

Init ==
  /\ TaskInit
  /\ strict_ordering \in BOOLEAN
  /\ results = {}
  /\ next_result_id = 0
  /\ flushing = FALSE
  /\ popped = <<>>

\* The constructor ignores buffer_size if the ordering is strict.
buffer_size == IF strict_ordering THEN 0 ELSE BufferSize

is_empty == next_result_id = next_task_id
-----------------------------------------------------------------------------
(***************************************************************************)
(* result_queue::push, on the worker's side: a result that is older than   *)
(* one that was handed out already is dropped.                             *)
(***************************************************************************)
accepted_all(id) == TRUE
accepted_newer(id) == id > next_result_id
accepted(id) == id >= next_result_id

Finish(w) ==
  /\ worker[w] = "run"
  /\ results' = IF accepted(task[w]) THEN results \cup {task[w]} ELSE results
  /\ worker' = [worker EXCEPT ![w] = "announce"]
  /\ UNCHANGED <<tasks, next_task_id, done, task, main, strict_ordering,
                 next_result_id, flushing, popped>>

announced_never == main
announced == IF main = "wait" THEN "popping" ELSE main

Announce(w) ==
  /\ worker[w] = "announce"
  /\ worker' = [worker EXCEPT ![w] = "pop"]
  /\ main' = announced
  /\ UNCHANGED <<tasks, next_task_id, done, task, resultVars>>
-----------------------------------------------------------------------------
(***************************************************************************)
(* result_queue::try_pop, and pop, which waits until try_pop can succeed.  *)
(***************************************************************************)
available == results # {} /\ (strict_ordering => Min(results) = next_result_id)

\* The predicate of pop's wait.
ready_any == results # {}
ready == results # {} /\ (~strict_ordering \/ Min(results) = next_result_id)

Deliver ==
  /\ popped' = Append(popped, Min(results))
  /\ next_result_id' = Min(results) + 1
  /\ results' = results \ {Min(results)}

TryPop ==
  /\ main = "idle" /\ ~done
  /\ available
  /\ Deliver
  /\ UNCHANGED <<taskVars, strict_ordering, flushing>>

Pop ==
  /\ main = "idle" /\ ~done
  /\ ~is_empty
  /\ main' = "popping" /\ flushing' = FALSE
  /\ UNCHANGED <<tasks, next_task_id, done, worker, task, strict_ordering,
                 results, next_result_id, popped>>

PopWait ==
  /\ main = "popping" /\ ~ready
  /\ main' = "wait"
  /\ UNCHANGED <<tasks, next_task_id, done, worker, task, resultVars>>

PopReady ==
  /\ main = "popping" /\ ready
  /\ main' = "take"
  /\ UNCHANGED <<tasks, next_task_id, done, worker, task, resultVars>>

\* pop has released the lock and calls try_pop; flush goes on until the
\* queue is empty.
PopTake ==
  /\ main = "take"
  /\ IF available THEN Deliver ELSE UNCHANGED <<results, next_result_id, popped>>
  /\ main' = IF flushing THEN "flush" ELSE "idle"
  /\ UNCHANGED <<tasks, next_task_id, done, worker, task, strict_ordering, flushing>>

Flush ==
  /\ main = "idle" /\ ~done /\ ~is_empty
  /\ main' = "flush" /\ flushing' = TRUE
  /\ UNCHANGED <<tasks, next_task_id, done, worker, task, strict_ordering,
                 results, next_result_id, popped>>

FlushLoop ==
  /\ main = "flush"
  /\ main' = IF is_empty THEN "idle" ELSE "popping"
  /\ UNCHANGED <<tasks, next_task_id, done, worker, task, resultVars>>
-----------------------------------------------------------------------------
WorkerStep(w) ==
  \/ (TakeTask(w) \/ TakeWait(w) \/ TakeDone(w)) /\ UNCHANGED resultVars
  \/ Finish(w) \/ Announce(w)

\* Calls of the main thread, and the steps that finish a call under way.
MainCall == \/ (Push(buffer_size) \/ MarkDone) /\ UNCHANGED resultVars
            \/ TryPop \/ Pop \/ Flush
MainStep == \/ (PushNotify \/ MarkDoneNotify \/ Join) /\ UNCHANGED resultVars
            \/ PopWait \/ PopReady \/ PopTake \/ FlushLoop

Destroyed == main = "destroyed" /\ UNCHANGED vars

Next == MainCall \/ MainStep \/ (\E w \in Worker : WorkerStep(w)) \/ Destroyed

\* Workers keep running, and a call under way is carried on; the main thread
\* need not make another call.
Fairness == WF_vars(MainStep) /\ \A w \in Worker : WF_vars(WorkerStep(w))

Spec == Init /\ [][Next]_vars
FairSpec == Spec /\ Fairness
-----------------------------------------------------------------------------
\* Types of the task queue, the result queue and the main thread.
TypeOK ==
  /\ TaskTypeOK
  /\ main \in {"idle", "notify", "mark_done", "join", "destroyed", "popping",
               "wait", "take", "flush"}
  /\ strict_ordering \in BOOLEAN
  /\ results \subseteq Nat
  /\ next_result_id \in Nat
  /\ flushing \in BOOLEAN
  /\ popped \in Seq(Nat)

\* Every id that was pushed and not overtaken by a delivered result.
Owed == next_result_id .. next_task_id - 1

\* "results should be popped in the same order that tasks were pushed without
\* dropping any task": under strict ordering every task that is still owed is
\* queued, running or has its result stored, so none is lost, ...
NothingDropped ==
  strict_ordering => Owed = ToSet(tasks) \cup Running \cup results

\* ... and what was delivered are the tasks 0, 1, 2, ... in this order.
InOrder ==
  strict_ordering => /\ Len(popped) = next_result_id
            /\ \A i \in DOMAIN popped : popped[i] = i - 1

\* With or without strict ordering, results are delivered in increasing order
\* of their ids: a result that arrives late never follows a newer one.
NeverBackwards ==
  \A i, j \in DOMAIN popped : i < j => popped[i] < popped[j]

\* The newest task is never dropped, neither by the bounded buffer nor as a
\* late result: while is_empty() is false its result is on its way, which is
\* what lets pop() and flush() return.
NewestSurvives ==
  ~is_empty => next_task_id - 1 \in ToSet(tasks) \cup Running \cup results

\* pop() does not fail: between the wait and try_pop nobody else removes the
\* result it has seen.
PopSucceeds == main = "take" => available

\* pop() and flush() return.
CallReturns == main \in {"popping", "wait", "take", "flush"} ~> main = "idle"

\* Strict ordering keeps its promise: complete, and in the order of the pushes.
StrictOrder == NothingDropped /\ InOrder

\* What is left of it without strict ordering: results only ever get newer,
\* and the newest is not among those that are dropped.
NewestWins == NeverBackwards /\ NewestSurvives

\* Every call returns, the destructor's too.
AllReturn == CallReturns /\ DestroyReturns
=============================================================================
