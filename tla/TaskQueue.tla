----------------------------- MODULE TaskQueue -----------------------------
(***************************************************************************)
(* The part that both forms of threaded_task_queue share                   *)
(* (Library/Parallel/tools): task_queue, its bounded buffer, the worker    *)
(* threads that take tasks from it and the destructor.  A task is its id:  *)
(* the n-th push makes task n, counted from 0.                             *)
(*                                                                         *)
(* The API belongs to one main thread; main says where it is.  A worker is *)
(* about to lock tasks_mutex_ ("pop"), blocked on tasks_cv_ ("wait"),      *)
(* running the task task[w] ("run"), past it and about to notify the main  *)
(* thread ("announce"), or gone ("exited").                                *)
(***************************************************************************)
EXTENDS Integers, Sequences, SequencesExt

CONSTANTS
  Worker,      \* the threads, number_of_threads_ of them
  BufferSize,  \* the buffer_size that the constructor is given; 0 means unlimited
  MaxTasks     \* bound of the model: how often push is called

ASSUME TaskQueueAssumption ==
  /\ Worker # {}
  /\ BufferSize \in Nat
  /\ MaxTasks \in Nat

VARIABLES
  tasks,         \* tasks_: ids of the tasks that no worker has taken
  next_task_id,  \* next_task_id_
  done,          \* done_
  worker,        \* where each worker is
  task,          \* the id of the task a worker has taken last
  main           \* where the main thread is

taskVars == <<tasks, next_task_id, done, worker, task, main>>

TaskInit ==
  /\ tasks = <<>>
  /\ next_task_id = 0
  /\ done = FALSE
  /\ worker = [w \in Worker |-> "pop"]
  /\ task = [w \in Worker |-> 0]
  /\ main = "idle"
-----------------------------------------------------------------------------
(***************************************************************************)
(* push: at most one task leaves a full buffer, because every push leaves  *)
(* it no larger than size, which is buffer_size_.                          *)
(***************************************************************************)
pushed_id == next_task_id

trimmed_newest(q, size) == IF size > 0 /\ Len(q) > size THEN Front(q) ELSE q
trimmed(q, size) == IF size > 0 /\ Len(q) > size THEN Tail(q) ELSE q

Push(size) ==
  /\ main = "idle" /\ ~done /\ next_task_id < MaxTasks
  /\ tasks' = trimmed(Append(tasks, pushed_id), size)
  /\ next_task_id' = next_task_id + 1
  /\ main' = "notify"
  /\ UNCHANGED <<done, worker, task>>

Waiting == {w \in Worker : worker[w] = "wait"}

PushNotify ==
  /\ main = "notify"
  /\ main' = "idle"
  /\ \/ Waiting = {} /\ UNCHANGED worker
     \/ \E w \in Waiting : worker' = [worker EXCEPT ![w] = "pop"]
  /\ UNCHANGED <<tasks, next_task_id, done, task>>

(***************************************************************************)
(* The destructor: mark_done and the joins.                                *)
(***************************************************************************)
MarkDone ==
  /\ main = "idle" /\ ~done
  /\ done' = TRUE
  /\ main' = "mark_done"
  /\ UNCHANGED <<tasks, next_task_id, worker, task>>

woken == [w \in Worker |-> IF w \in Waiting THEN "pop" ELSE worker[w]]

MarkDoneNotify ==
  /\ main = "mark_done"
  /\ worker' = woken
  /\ main' = "join"
  /\ UNCHANGED <<tasks, next_task_id, done, task>>

Join ==
  /\ main = "join"
  /\ \A w \in Worker : worker[w] = "exited"
  /\ main' = "destroyed"
  /\ UNCHANGED <<tasks, next_task_id, done, worker, task>>
-----------------------------------------------------------------------------
(***************************************************************************)
(* task_queue::pop, called by the loop of every worker: the predicate it   *)
(* waits for, and whether it then takes a task or lets the worker leave.   *)
(***************************************************************************)
may_go_on == done \/ tasks # <<>>

takes_unless_done == tasks # <<>> /\ ~done
takes == tasks # <<>>

TakeTask(w) ==
  /\ worker[w] = "pop" /\ may_go_on /\ takes
  /\ tasks' = Tail(tasks)
  /\ task' = [task EXCEPT ![w] = Head(tasks)]
  /\ worker' = [worker EXCEPT ![w] = "run"]
  /\ UNCHANGED <<next_task_id, done, main>>

TakeWait(w) ==
  /\ worker[w] = "pop" /\ ~may_go_on
  /\ worker' = [worker EXCEPT ![w] = "wait"]
  /\ UNCHANGED <<tasks, next_task_id, done, task, main>>

TakeDone(w) ==
  /\ worker[w] = "pop" /\ may_go_on /\ ~takes
  /\ worker' = [worker EXCEPT ![w] = "exited"]
  /\ UNCHANGED <<tasks, next_task_id, done, task, main>>

\* Tasks that a worker has taken and not finished.
Running == {task[w] : w \in {v \in Worker : worker[v] = "run"}}

\* Types of the shared part; a queued task has an id that was given out.
TaskTypeOK ==
  /\ next_task_id \in Nat
  /\ tasks \in Seq(Nat) /\ \A i \in DOMAIN tasks : tasks[i] < next_task_id
  /\ done \in BOOLEAN
  /\ worker \in [Worker -> {"pop", "wait", "run", "announce", "exited"}]
  /\ task \in [Worker -> Nat]

\* The destructor returns, ...
DestroyReturns == done ~> main = "destroyed"

\* ... and every task that was not discarded by a full buffer has run by then:
\* a worker leaves its loop only when the queue is empty.
DestroyRunsAll == main = "destroyed" => tasks = <<>> /\ Running = {}
=============================================================================
