--------------------------- MODULE VoidTaskQueue ---------------------------
(***************************************************************************)
(* threaded_task_queue<void, Args...>: the task queue of TaskQueue, and    *)
(* next_result_id_, which a worker raises past the task it has finished.   *)
(***************************************************************************)
EXTENDS TaskQueue

VARIABLES
  next_result_id,  \* next_result_id_
  executed         \* the tasks whose function has returned (history)

vars == <<taskVars, next_result_id, executed>>

Init ==
  /\ TaskInit
  /\ next_result_id = 0
  /\ executed = {}

is_empty == next_result_id = next_task_id
-----------------------------------------------------------------------------
\* task() returns; next_result_id_ is updated under its own lock.
raised_last(id) == id + 1
raised_by_one(id) == next_result_id + 1
raised(id) == IF next_result_id > id + 1 THEN next_result_id ELSE id + 1

Finish(w) ==
  /\ worker[w] = "run"
  /\ executed' = executed \cup {task[w]}
  /\ next_result_id' = raised(task[w])
  /\ worker' = [worker EXCEPT ![w] = "announce"]
  /\ UNCHANGED <<tasks, next_task_id, done, task, main>>

announced == IF main = "wait" THEN "flushing" ELSE main

Announce(w) ==
  /\ worker[w] = "announce"
  /\ worker' = [worker EXCEPT ![w] = "pop"]
  /\ main' = announced
  /\ UNCHANGED <<tasks, next_task_id, done, task, next_result_id, executed>>
-----------------------------------------------------------------------------
\* flush: returns at once or waits for is_empty() under the lock.
Flush ==
  /\ main = "idle" /\ ~done
  /\ main' = IF is_empty THEN "flushed" ELSE "flushing"
  /\ UNCHANGED <<tasks, next_task_id, done, worker, task, next_result_id, executed>>

FlushCheck ==
  /\ main = "flushing"
  /\ main' = IF is_empty THEN "flushed" ELSE "wait"
  /\ UNCHANGED <<tasks, next_task_id, done, worker, task, next_result_id, executed>>

FlushReturn ==
  /\ main = "flushed"
  /\ main' = "idle"
  /\ UNCHANGED <<tasks, next_task_id, done, worker, task, next_result_id, executed>>
-----------------------------------------------------------------------------
WorkerStep(w) ==
  \/ /\ TakeTask(w) \/ TakeWait(w) \/ TakeDone(w)
     /\ UNCHANGED <<next_result_id, executed>>
  \/ Finish(w) \/ Announce(w)

MainCall == \/ (Push(BufferSize) \/ MarkDone) /\ UNCHANGED <<next_result_id, executed>>
            \/ Flush
MainStep == \/ /\ PushNotify \/ MarkDoneNotify \/ Join
               /\ UNCHANGED <<next_result_id, executed>>
            \/ FlushCheck \/ FlushReturn

Destroyed == main = "destroyed" /\ UNCHANGED vars

Next == MainCall \/ MainStep \/ (\E w \in Worker : WorkerStep(w)) \/ Destroyed

\* Workers keep running, and a call under way is carried on.
Fairness == WF_vars(MainStep) /\ \A w \in Worker : WF_vars(WorkerStep(w))

Spec == Init /\ [][Next]_vars
FairSpec == Spec /\ Fairness
-----------------------------------------------------------------------------
\* Types of the task queue, the counter and the main thread.
TypeOK ==
  /\ TaskTypeOK
  /\ main \in {"idle", "notify", "mark_done", "join", "destroyed", "flushing",
               "wait", "flushed"}
  /\ next_result_id \in Nat
  /\ executed \subseteq Nat

\* When flush() returns, no task is queued or running: "Blocks till the queue
\* becomes empty."
FlushMeansDone == main = "flushed" => tasks = <<>> /\ Running = {}

\* The counter never passes the number of pushes, nor a task that was not
\* finished by somebody: the last id below it has been executed.
CounterBacked ==
  /\ next_result_id <= next_task_id
  /\ next_result_id > 0 => next_result_id - 1 \in executed

\* flush() returns, also when tasks were dropped from a full buffer.
FlushReturns == main \in {"flushing", "wait"} ~> main = "flushed"

\* Every call returns, the destructor's too.
AllReturn == FlushReturns /\ DestroyReturns
=============================================================================
