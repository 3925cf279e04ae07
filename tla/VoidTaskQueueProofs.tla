------------------------ MODULE VoidTaskQueueProofs ------------------------
(***************************************************************************)
(* Safety of threaded_task_queue<void, Args...> for any number of workers, *)
(* any buffer size and any number of pushes.                               *)
(*                                                                         *)
(* Inv adds to CounterBacked that the id a worker holds was given out.     *)
(* SoleInv holds with a single worker only: ids are finished in the order  *)
(* in which they were pushed, so next_result_id_ is a lower bound of all   *)
(* that is queued or running, and flush() does what its comment says.      *)
(***************************************************************************)
EXTENDS VoidTaskQueue, TaskQueueProofs, TLAPS

HeldWasPushed == \A w \in Worker : Busy(w) => task[w] < next_task_id

Inv == TypeOK /\ HeldWasPushed /\ CounterBacked /\ ExitInv

Sole == \A v, w \in Worker : v = w

SoleInv ==
  /\ \A i, j \in DOMAIN tasks : i < j => tasks[i] < tasks[j]
  /\ \A i \in DOMAIN tasks : next_result_id <= tasks[i]
  /\ \A w \in Worker : Busy(w) =>
       next_result_id <= task[w] /\ \A i \in DOMAIN tasks : task[w] < tasks[i]
  /\ main = "flushed" => is_empty

Places == {"idle", "notify", "mark_done", "join", "destroyed", "flushing",
           "wait", "flushed"}

USE TaskQueueAssumption
-----------------------------------------------------------------------------
\* A push keeps the types, and every queued id is one that was given out.
LEMMA PushTypes ==
  ASSUME Inv, Push(BufferSize)
  PROVE  /\ tasks' \in Seq(Nat) /\ next_task_id' = next_task_id + 1
         /\ next_task_id \in Nat
         /\ \A i \in DOMAIN tasks' : tasks'[i] < next_task_id'
<1> DEFINE q == Append(tasks, next_task_id)
<1>1. /\ tasks \in Seq(Nat) /\ next_task_id \in Nat
      /\ \A i \in DOMAIN tasks : tasks[i] < next_task_id
  BY DEF Inv, TypeOK, TaskTypeOK
<1>2. tasks' = trimmed(q, BufferSize) /\ next_task_id' = next_task_id + 1
  BY DEF Push, pushed_id
<1>3. /\ q \in Seq(Nat) /\ q # <<>> /\ Len(q) = Len(tasks) + 1 /\ Len(tasks) \in Nat
      /\ \A i \in 1 .. Len(tasks) : q[i] = tasks[i] /\ tasks[i] \in Nat
      /\ q[Len(tasks) + 1] = next_task_id
      /\ DOMAIN tasks = 1 .. Len(tasks) /\ DOMAIN q = 1 .. Len(tasks) + 1
  BY <1>1, AppendNat
<1> HIDE DEF q
<1>4. ASSUME NEW i \in DOMAIN q  PROVE q[i] < next_task_id + 1
  <2>1. CASE i = Len(tasks) + 1
    BY <1>1, <1>3, <2>1
  <2>2. CASE i # Len(tasks) + 1
    <3>1. i \in 1 .. Len(tasks)
      BY <1>3, <2>2
    <3>2. q[i] < next_task_id /\ q[i] \in Nat
      BY <1>1, <1>3, <3>1
    <3> QED  BY <1>1, <3>2
  <2> QED  BY <2>1, <2>2
<1>5. CASE tasks' = q
  BY <1>1, <1>2, <1>3, <1>4, <1>5
<1>6. CASE tasks' = Tail(q)
  <2>1. /\ tasks' \in Seq(Nat) /\ DOMAIN tasks' = 1 .. Len(q) - 1
        /\ \A i \in 1 .. Len(q) - 1 : tasks'[i] = q[i + 1]
    BY <1>3, <1>6, TailNat
  <2>2. ASSUME NEW i \in DOMAIN tasks'  PROVE tasks'[i] < next_task_id + 1
    <3>1. i \in 1 .. Len(q) - 1 /\ i + 1 \in DOMAIN q
      BY <1>3, <2>1
    <3> QED  BY <1>4, <2>1, <3>1
  <2> QED  BY <1>1, <1>2, <2>1, <2>2
<1> QED  BY <1>2, <1>5, <1>6 DEF trimmed

\* Taking a task keeps the types; the worker holds an id that was queued.
LEMMA TakeTypes ==
  ASSUME Inv, NEW w \in Worker, TakeTask(w)
  PROVE  /\ tasks' \in Seq(Nat) /\ next_task_id' = next_task_id
         /\ next_task_id \in Nat /\ 1 \in DOMAIN tasks
         /\ \A i \in DOMAIN tasks' : i \in Nat /\ i + 1 \in DOMAIN tasks
                                     /\ tasks'[i] = tasks[i + 1]
         /\ worker' \in [Worker -> States] /\ task' \in [Worker -> Nat]
         /\ Busy(w)' /\ task'[w] = tasks[1] /\ tasks[1] \in Nat
         /\ \A v \in Worker \ {w} : (Busy(v)' <=> Busy(v)) /\ task'[v] = task[v]
<1>1. /\ tasks \in Seq(Nat) /\ next_task_id \in Nat /\ tasks # <<>>
      /\ worker \in [Worker -> States] /\ task \in [Worker -> Nat]
  BY DEF Inv, TypeOK, TaskTypeOK, States, TakeTask, takes
<1>2. /\ tasks' = Tail(tasks) /\ next_task_id' = next_task_id
      /\ worker' = [worker EXCEPT ![w] = "run"]
      /\ task' = [task EXCEPT ![w] = Head(tasks)]
  BY DEF TakeTask
<1>3. /\ tasks' \in Seq(Nat) /\ DOMAIN tasks' = 1 .. Len(tasks) - 1
      /\ Len(tasks) \in Nat \ {0} /\ DOMAIN tasks = 1 .. Len(tasks)
      /\ \A i \in 1 .. Len(tasks) - 1 : tasks'[i] = tasks[i + 1]
      /\ Head(tasks) = tasks[1]
  BY <1>1, <1>2, TailNat
<1>4. 1 \in DOMAIN tasks /\ tasks[1] \in Nat
  BY <1>1, <1>3
<1>5. ASSUME NEW i \in DOMAIN tasks'
      PROVE  i \in Nat /\ i + 1 \in DOMAIN tasks /\ tasks'[i] = tasks[i + 1]
  BY <1>3
<1>6. /\ worker' \in [Worker -> States] /\ task' \in [Worker -> Nat]
      /\ Busy(w)' /\ task'[w] = tasks[1]
      /\ \A v \in Worker \ {w} : (Busy(v)' <=> Busy(v)) /\ task'[v] = task[v]
  BY <1>1, <1>2, <1>3, <1>4 DEF Busy, States
<1> QED  BY <1>1, <1>2, <1>3, <1>4, <1>5, <1>6

\* The steps that touch neither the queue nor a worker's task.
LEMMA MoveInv ==
  ASSUME Inv, UNCHANGED <<tasks, next_task_id, task, next_result_id, executed>>,
         done' \in BOOLEAN, main' \in Places, worker' \in [Worker -> States],
         \A w \in Worker : Busy(w)' <=> Busy(w), ExitInv'
  PROVE  Inv'
<1>1. TypeOK'
  BY DEF Inv, TypeOK, TaskTypeOK, States, Places
<1> QED  BY <1>1 DEF Inv, HeldWasPushed, CounterBacked

Moves == \/ PushNotify \/ MarkDone \/ MarkDoneNotify \/ Join
         \/ Flush \/ FlushCheck \/ FlushReturn \/ UNCHANGED vars
         \/ \E w \in Worker : TakeWait(w) \/ TakeDone(w) \/ Announce(w)

\* What these steps are, for both invariants.
LEMMA MovesMove ==
  ASSUME Inv, Moves
  PROVE  /\ UNCHANGED <<tasks, next_task_id, task>>
         /\ done' \in BOOLEAN /\ main' \in Places /\ worker' \in [Worker -> States]
         /\ \A w \in Worker : Busy(w)' <=> Busy(w)
<1>1. /\ worker \in [Worker -> States] /\ main \in Places /\ done \in BOOLEAN
  BY DEF Inv, TypeOK, TaskTypeOK, States, Places
<1>2. UNCHANGED <<tasks, next_task_id, task>> /\ done' \in BOOLEAN
  BY <1>1 DEF Moves, PushNotify, MarkDone, MarkDoneNotify, Join, Flush, FlushCheck,
              FlushReturn, vars, taskVars, TakeWait, TakeDone, Announce
<1>3. main' \in Places
  BY <1>1 DEF Moves, PushNotify, MarkDone, MarkDoneNotify, Join, Flush, FlushCheck,
              FlushReturn, vars, taskVars, TakeWait, TakeDone, Announce, announced,
              Places
<1>4. worker' \in [Worker -> States] /\ \A w \in Worker : Busy(w)' <=> Busy(w)
  <2>1. CASE PushNotify
    BY <1>1, <2>1 DEF PushNotify, Waiting, States, Busy
  <2>2. CASE MarkDoneNotify
    BY <1>1, <2>2 DEF MarkDoneNotify, woken, Waiting, States, Busy
  <2>3. CASE worker' = worker
    BY <1>1, <2>3 DEF Busy
  <2>4. ASSUME NEW w \in Worker, TakeWait(w) \/ TakeDone(w) \/ Announce(w)
        PROVE  worker' \in [Worker -> States] /\ \A v \in Worker : Busy(v)' <=> Busy(v)
    BY <1>1, <2>4 DEF TakeWait, TakeDone, Announce, States, Busy
  <2> QED  BY <2>1, <2>2, <2>3, <2>4 DEF Moves, MarkDone, Join, Flush, FlushCheck,
                                         FlushReturn, vars, taskVars
<1> QED  BY <1>2, <1>3, <1>4
-----------------------------------------------------------------------------
\* Every step keeps what TaskQueueProofs says about workers that have left.
LEMMA NextExit ==
  ASSUME Inv, [Next]_vars
  PROVE  ExitInv'
<1>1. worker \in [Worker -> States] /\ ExitInv
  BY DEF Inv, TypeOK, TaskTypeOK, States
<1>2. CASE Push(BufferSize) \/ PushNotify \/ MarkDone \/ MarkDoneNotify \/ Join
  BY <1>1, <1>2, ExitMain
<1>3. ASSUME NEW w \in Worker, TakeTask(w) \/ TakeWait(w) \/ TakeDone(w)
      PROVE  ExitInv'
  BY <1>1, <1>3, ExitTake
<1>4. ASSUME NEW w \in Worker, Finish(w) \/ Announce(w)  PROVE ExitInv'
  BY <1>1, <1>4, ExitOther DEF Finish, Announce, announced
<1>5. CASE Flush \/ FlushCheck \/ FlushReturn \/ UNCHANGED vars
  <2>1. UNCHANGED <<tasks, done, worker>> /\ (main' = "destroyed" => main = "destroyed")
    BY <1>5 DEF Flush, FlushCheck, FlushReturn, vars, taskVars
  <2> QED  BY <1>1, <2>1, ExitOther
<1> QED
  BY <1>2, <1>3, <1>4, <1>5 DEF Next, MainCall, MainStep, WorkerStep, Destroyed

\* The constructor's state satisfies the invariant.
LEMMA InitInv == Init => Inv
<1> SUFFICES ASSUME Init  PROVE Inv
  OBVIOUS
<1>1. tasks \in Seq(Nat) /\ \A i \in DOMAIN tasks : tasks[i] < next_task_id
  BY DEF Init, TaskInit
<1>2. TypeOK
  BY <1>1 DEF Init, TaskInit, TypeOK, TaskTypeOK
<1> QED  BY <1>2, ExitInit DEF Init, TaskInit, Inv, HeldWasPushed, CounterBacked, Busy

\* Every step of the queue keeps the invariant.
LEMMA NextInv ==
  ASSUME Inv, [Next]_vars
  PROVE  Inv'
<1>0. ExitInv'
  BY NextExit
<1>1. CASE Push(BufferSize) /\ UNCHANGED <<next_result_id, executed>>
  <2>1. /\ tasks' \in Seq(Nat) /\ next_task_id' = next_task_id + 1 /\ next_task_id \in Nat
        /\ \A i \in DOMAIN tasks' : tasks'[i] < next_task_id'
    BY <1>1, PushTypes
  <2>2. UNCHANGED <<done, worker, task, next_result_id, executed>> /\ main' = "notify"
    BY <1>1 DEF Push
  <2>3. TypeOK'
    BY <2>1, <2>2 DEF Inv, TypeOK, TaskTypeOK
  <2>4. HeldWasPushed'
    BY <2>1, <2>2 DEF Inv, TypeOK, TaskTypeOK, HeldWasPushed, Busy
  <2>5. CounterBacked'
    BY <2>1, <2>2 DEF Inv, TypeOK, CounterBacked
  <2> QED  BY <1>0, <2>3, <2>4, <2>5 DEF Inv
<1>2. ASSUME NEW w \in Worker, TakeTask(w), UNCHANGED <<next_result_id, executed>>
      PROVE  Inv'
  <2>1. /\ tasks' \in Seq(Nat) /\ next_task_id' = next_task_id
        /\ \A i \in DOMAIN tasks' : i + 1 \in DOMAIN tasks /\ tasks'[i] = tasks[i + 1]
        /\ worker' \in [Worker -> States] /\ task' \in [Worker -> Nat]
    BY <1>2, TakeTypes
  <2>2. /\ task'[w] = tasks[1] /\ 1 \in DOMAIN tasks
        /\ \A v \in Worker \ {w} : (Busy(v)' <=> Busy(v)) /\ task'[v] = task[v]
    BY <1>2, TakeTypes
  <2>3. \A i \in DOMAIN tasks : tasks[i] < next_task_id
    BY DEF Inv, TypeOK, TaskTypeOK
  <2>4. TypeOK'
    BY <1>2, <2>1, <2>3 DEF Inv, TypeOK, TaskTypeOK, TakeTask, States
  <2>5. HeldWasPushed'
    BY <2>1, <2>2, <2>3 DEF Inv, HeldWasPushed
  <2> QED  BY <1>0, <1>2, <2>1, <2>4, <2>5 DEF Inv, CounterBacked
<1>3. ASSUME NEW w \in Worker, Finish(w)  PROVE Inv'
  <2>1. /\ task[w] \in Nat /\ task[w] < next_task_id /\ next_task_id \in Nat
        /\ next_result_id \in Nat /\ next_result_id <= next_task_id
    BY <1>3 DEF Inv, TypeOK, TaskTypeOK, HeldWasPushed, CounterBacked, Finish, Busy
  <2>2. /\ executed' = executed \cup {task[w]} /\ next_result_id' = raised(task[w])
        /\ worker' = [worker EXCEPT ![w] = "announce"]
        /\ UNCHANGED <<tasks, next_task_id, done, task, main>>
    BY <1>3 DEF Finish
  <2>3. /\ next_result_id' \in Nat /\ next_result_id' <= next_task_id
        /\ next_result_id' = next_result_id \/ next_result_id' = task[w] + 1
    BY <2>1, <2>2 DEF raised
  <2>4. TypeOK'
    BY <2>1, <2>2, <2>3 DEF Inv, TypeOK, TaskTypeOK
  <2>5. CounterBacked'
    BY <2>1, <2>2, <2>3 DEF Inv, CounterBacked
  <2>6. HeldWasPushed'
    BY <2>2 DEF Inv, TypeOK, TaskTypeOK, HeldWasPushed, Busy
  <2> QED  BY <1>0, <2>4, <2>5, <2>6 DEF Inv
<1>4. CASE Moves /\ UNCHANGED <<next_result_id, executed>>
  BY <1>0, <1>4, MovesMove, MoveInv
<1> QED
  BY <1>1, <1>2, <1>3, <1>4
  DEF Next, MainCall, MainStep, WorkerStep, Destroyed, Moves, Announce, Flush,
      FlushCheck, FlushReturn, vars

\* The invariant holds in every reachable state.
THEOREM Inductive == Spec => []Inv
<1>1. Init => Inv
  BY InitInv
<1>2. Inv /\ [Next]_vars => Inv'
  BY NextInv
<1> QED  BY <1>1, <1>2, PTL DEF Spec
-----------------------------------------------------------------------------
\* With one worker, a push keeps the queue in order and behind the counter.
LEMMA SolePush ==
  ASSUME Inv, SoleInv, Push(BufferSize), UNCHANGED <<next_result_id, executed>>
  PROVE  SoleInv'
<1> DEFINE q == Append(tasks, next_task_id)
<1>1. /\ tasks \in Seq(Nat) /\ next_task_id \in Nat /\ next_result_id \in Nat
      /\ \A i \in DOMAIN tasks : tasks[i] < next_task_id
      /\ next_result_id <= next_task_id
  BY DEF Inv, TypeOK, TaskTypeOK, CounterBacked
<1>2. /\ tasks' = trimmed(q, BufferSize) /\ main' = "notify"
      /\ UNCHANGED <<worker, task, next_result_id>>
  BY DEF Push, pushed_id
<1>3. /\ q \in Seq(Nat) /\ q # <<>> /\ Len(q) = Len(tasks) + 1 /\ Len(tasks) \in Nat
      /\ \A i \in 1 .. Len(tasks) : q[i] = tasks[i] /\ tasks[i] \in Nat
      /\ q[Len(tasks) + 1] = next_task_id
      /\ DOMAIN tasks = 1 .. Len(tasks) /\ DOMAIN q = 1 .. Len(tasks) + 1
  BY <1>1, AppendNat
<1> HIDE DEF q
<1> DEFINE Good(s) ==
      /\ \A i, j \in DOMAIN s : i < j => s[i] < s[j]
      /\ \A i \in DOMAIN s : next_result_id <= s[i]
      /\ \A w \in Worker : Busy(w) => \A i \in DOMAIN s : task[w] < s[i]
<1>4. Good(q)
  <2>1. ASSUME NEW i \in DOMAIN q, i # Len(tasks) + 1
        PROVE  i \in DOMAIN tasks /\ q[i] = tasks[i] /\ q[i] < next_task_id
    <3>1. i \in 1 .. Len(tasks)
      BY <1>3, <2>1
    <3> QED  BY <1>1, <1>3, <3>1
  <2>2. ASSUME NEW i \in DOMAIN q, NEW j \in DOMAIN q, i < j  PROVE q[i] < q[j]
    <3>1. i # Len(tasks) + 1
      BY <1>3, <2>2
    <3>2. CASE j = Len(tasks) + 1
      BY <1>3, <2>1, <3>1, <3>2
    <3>3. CASE j # Len(tasks) + 1
      BY <2>1, <2>2, <3>1, <3>3 DEF SoleInv
    <3> QED  BY <3>2, <3>3
  <2>3. ASSUME NEW i \in DOMAIN q  PROVE next_result_id <= q[i]
    <3>1. CASE i = Len(tasks) + 1
      BY <1>1, <1>3, <3>1
    <3>2. CASE i # Len(tasks) + 1
      BY <2>1, <3>2 DEF SoleInv
    <3> QED  BY <3>1, <3>2
  <2>4. ASSUME NEW w \in Worker, Busy(w), NEW i \in DOMAIN q  PROVE task[w] < q[i]
    <3>1. CASE i = Len(tasks) + 1
      BY <1>3, <2>4, <3>1 DEF Inv, HeldWasPushed
    <3>2. CASE i # Len(tasks) + 1
      BY <2>1, <2>4, <3>2 DEF SoleInv
    <3> QED  BY <3>1, <3>2
  <2> QED  BY <2>2, <2>3, <2>4
<1>5. Good(tasks')
  <2>1. CASE tasks' = q
    BY <1>4, <2>1
  <2>2. CASE tasks' = Tail(q)
    <3>1. /\ DOMAIN tasks' = 1 .. Len(q) - 1
          /\ \A i \in 1 .. Len(q) - 1 : tasks'[i] = q[i + 1]
      BY <1>3, <2>2, TailNat
    <3>2. \A i \in DOMAIN tasks' : i \in Nat /\ i + 1 \in DOMAIN q /\ tasks'[i] = q[i + 1]
      BY <1>3, <3>1
    <3>3. \A i, j \in DOMAIN tasks' : i < j => i + 1 < j + 1
      BY <3>2
    <3> QED  BY <1>4, <3>2, <3>3
  <2> QED  BY <1>2, <2>1, <2>2 DEF trimmed
<1>6. \A w \in Worker : (Busy(w)' <=> Busy(w)) /\ task'[w] = task[w]
  BY <1>2 DEF Busy
<1> QED  BY <1>2, <1>5, <1>6 DEF SoleInv

\* It takes the oldest task.
LEMMA SoleTake ==
  ASSUME Sole, Inv, SoleInv, NEW w \in Worker, TakeTask(w),
         UNCHANGED <<next_result_id, executed>>
  PROVE  SoleInv'
<1>1. /\ tasks' \in Seq(Nat) /\ 1 \in DOMAIN tasks
      /\ \A i \in DOMAIN tasks' : i \in Nat /\ i + 1 \in DOMAIN tasks
                                  /\ tasks'[i] = tasks[i + 1]
      /\ task'[w] = tasks[1] /\ next_task_id' = next_task_id
  BY TakeTypes
<1>2. main' = main /\ \A v \in Worker : v = w
  BY DEF TakeTask, Sole
<1>3. \A i, j \in DOMAIN tasks' : i < j => tasks'[i] < tasks'[j]
  <2>1. \A i, j \in DOMAIN tasks' : i < j => i + 1 < j + 1
    BY <1>1
  <2> QED  BY <1>1, <2>1 DEF SoleInv
<1>4. \A i \in DOMAIN tasks' : next_result_id <= tasks'[i]
  BY <1>1 DEF SoleInv
<1>5. \A i \in DOMAIN tasks' : tasks[1] < tasks'[i]
  <2>1. tasks \in Seq(Nat) /\ DOMAIN tasks' = 1 .. Len(tasks')
    BY <1>1, LenNat DEF Inv, TypeOK, TaskTypeOK
  <2>2. \A i \in DOMAIN tasks' : 1 < i + 1
    BY <1>1, <2>1
  <2> QED  BY <1>1, <2>2 DEF SoleInv
<1>6. next_result_id <= tasks[1]
  BY <1>1 DEF SoleInv
<1>7. (main = "flushed" => is_empty)'
  BY <1>1, <1>2 DEF SoleInv, is_empty
<1> QED  BY <1>1, <1>2, <1>3, <1>4, <1>5, <1>6, <1>7 DEF SoleInv

\* It finishes the task it holds and raises the counter to the next one.
LEMMA SoleFinish ==
  ASSUME Sole, Inv, SoleInv, NEW w \in Worker, Finish(w)
  PROVE  SoleInv'
<1>1. /\ next_result_id \in Nat /\ task[w] \in Nat /\ next_task_id \in Nat
      /\ tasks \in Seq(Nat) /\ Busy(w) /\ task[w] < next_task_id
      /\ next_result_id <= task[w] /\ \A i \in DOMAIN tasks : task[w] < tasks[i]
  BY DEF Inv, TypeOK, TaskTypeOK, HeldWasPushed, SoleInv, Finish, Busy
<1>2. /\ next_result_id' = raised(task[w]) /\ UNCHANGED <<tasks, main>>
      /\ \A v \in Worker : ~Busy(v)'
  BY DEF Finish, Sole, Busy, Inv, TypeOK, TaskTypeOK
<1>3. next_result_id' = task[w] + 1
  BY <1>1, <1>2 DEF raised
<1>4. \A i \in DOMAIN tasks : tasks[i] \in Nat
  BY <1>1, LenNat
<1>5. \A i \in DOMAIN tasks' : next_result_id' <= tasks'[i]
  BY <1>1, <1>2, <1>3, <1>4
<1>6. main # "flushed"
  BY <1>1 DEF SoleInv, is_empty
<1> QED  BY <1>2, <1>5, <1>6 DEF SoleInv

\* The other steps move neither; flush() ends its wait when is_empty() holds.
LEMMA SoleMove ==
  ASSUME Inv, SoleInv, Moves, UNCHANGED <<next_result_id, executed>>
  PROVE  SoleInv'
<1>1. /\ UNCHANGED <<tasks, next_task_id, task>>
      /\ \A w \in Worker : Busy(w)' <=> Busy(w)
  BY MovesMove
<1>2. main' = "flushed" => main = "flushed" \/ is_empty
  BY DEF Moves, PushNotify, MarkDone, MarkDoneNotify, Join, Flush, FlushCheck,
         FlushReturn, vars, taskVars, TakeWait, TakeDone, Announce, announced
<1>3. (main = "flushed" => is_empty)'
  BY <1>1, <1>2 DEF SoleInv, is_empty
<1> QED  BY <1>1, <1>3 DEF SoleInv

\* Nothing at or above the counter is left when it has reached the last id.
LEMMA SoleFlush ==
  ASSUME Inv, SoleInv  PROVE FlushMeansDone
<1> SUFFICES ASSUME main = "flushed"  PROVE tasks = <<>> /\ Running = {}
  BY DEF FlushMeansDone
<1>1. /\ next_result_id = next_task_id /\ next_task_id \in Nat
      /\ tasks \in Seq(Nat) /\ \A i \in DOMAIN tasks : tasks[i] < next_task_id
      /\ task \in [Worker -> Nat]
  BY DEF Inv, TypeOK, TaskTypeOK, SoleInv, is_empty
<1>2. Len(tasks) \in Nat /\ DOMAIN tasks = 1 .. Len(tasks) /\ (tasks = <<>> <=> Len(tasks) = 0)
  BY <1>1, LenNat
<1>3. \A i \in DOMAIN tasks : tasks[i] \in Nat /\ next_result_id <= tasks[i]
  BY <1>1, <1>2 DEF SoleInv
<1>4. DOMAIN tasks = {}
  BY <1>1, <1>3
<1>5. \A w \in Worker : ~Busy(w)
  BY <1>1 DEF Inv, HeldWasPushed, SoleInv
<1>6. {v \in Worker : worker[v] = "run"} = {}
  BY <1>5 DEF Busy
<1> QED  BY <1>2, <1>4, <1>6 DEF Running
-----------------------------------------------------------------------------
\* threaded_task_queue<void> keeps its types, and a queued id was given out.
THEOREM TypeCorrect == Spec => []TypeOK
BY Inductive, PTL DEF Inv

\* next_result_id_ is never ahead of the tasks: its last id was executed.
THEOREM CounterIsBacked == Spec => []CounterBacked
BY Inductive, PTL DEF Inv

\* The destructor returns only when every task that was not discarded has run.
THEOREM DestructorRunsAll == Spec => []DestroyRunsAll
<1>1. Inv => DestroyRunsAll
  BY ExitRunsAll DEF Inv
<1> QED  BY <1>1, Inductive, PTL

\* "Blocks till the queue becomes empty" is true of flush() with one worker,
\* whatever the buffer size. With two workers it may return earlier.
THEOREM SoleWorkerFlush == ASSUME Sole PROVE Spec => []FlushMeansDone
<1>1. Init => SoleInv
  BY DEF Init, TaskInit, SoleInv, Busy
<1>2. Inv /\ SoleInv /\ [Next]_vars => SoleInv'
  <2> SUFFICES ASSUME Inv, SoleInv, [Next]_vars  PROVE SoleInv'
    OBVIOUS
  <2>1. CASE Push(BufferSize) /\ UNCHANGED <<next_result_id, executed>>
    BY <2>1, SolePush
  <2>2. ASSUME NEW w \in Worker, TakeTask(w), UNCHANGED <<next_result_id, executed>>
        PROVE  SoleInv'
    BY <2>2, SoleTake
  <2>3. ASSUME NEW w \in Worker, Finish(w)  PROVE SoleInv'
    BY <2>3, SoleFinish
  <2>4. CASE Moves /\ UNCHANGED <<next_result_id, executed>>
    BY <2>4, SoleMove
  <2> QED
    BY <2>1, <2>2, <2>3, <2>4
    DEF Next, MainCall, MainStep, WorkerStep, Destroyed, Moves, Announce, Flush,
        FlushCheck, FlushReturn, vars
<1>3. Inv /\ SoleInv => FlushMeansDone
  BY SoleFlush
<1> QED  BY <1>1, <1>2, <1>3, Inductive, PTL DEF Spec
=============================================================================
