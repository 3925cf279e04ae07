----------------------- MODULE ResultTaskQueueProofs -----------------------
(***************************************************************************)
(* Safety of threaded_task_queue<R, Args...> for any number of workers,    *)
(* any buffer size and any number of pushes, with and without strict       *)
(* ordering.                                                               *)
(*                                                                         *)
(* The invariants that matter to a caller (NothingDropped, InOrder,        *)
(* NeverBackwards, NewestSurvives, PopSucceeds) are not inductive: what a  *)
(* worker may still deliver depends on which ids it holds.  IInv adds that *)
(* the queued ids are the last ones that were given out, in order (the     *)
(* buffer is trimmed at its old end), that every id behind them is held by *)
(* one worker or one result at most, and that no stored result is older    *)
(* than next_result_id_.                                                   *)
(***************************************************************************)
EXTENDS ResultTaskQueue, TaskQueueProofs, WellFoundedInduction, TLAPS

\* The id of the oldest queued task, next_task_id if none is queued.
First == next_task_id - Len(tasks)

QueueIsSuffix ==
  /\ Len(tasks) <= next_task_id
  /\ \A i \in DOMAIN tasks : tasks[i] = First + i - 1

OneHolder ==
  /\ \A w \in Worker : Busy(w) => task[w] < First /\ task[w] \notin results
  /\ \A v, w \in Worker : Busy(v) /\ Busy(w) /\ task[v] = task[w] => v = w

ResultsAhead ==
  /\ next_result_id <= First
  /\ \A id \in results : next_result_id <= id /\ id < First

PoppedBehind ==
  /\ \A i \in DOMAIN popped : popped[i] < next_result_id
  /\ NeverBackwards

StrictHolds ==
  strict_ordering =>
    /\ \A w \in Worker : Busy(w) => task[w] >= next_result_id
    /\ \A id \in next_result_id .. First - 1 :
         id \in results \/ \E w \in Worker : Busy(w) /\ task[w] = id

NewestHeld ==
  next_result_id < next_task_id /\ tasks = <<>> =>
    \/ next_task_id - 1 \in results
    \/ \E w \in Worker : Busy(w) /\ task[w] = next_task_id - 1

IInv == /\ TypeOK /\ QueueIsSuffix /\ OneHolder /\ ResultsAhead
        /\ PoppedBehind /\ StrictHolds /\ NewestHeld /\ InOrder /\ PopSucceeds
-----------------------------------------------------------------------------
\* A nonempty set of naturals, such as the stored results, has a minimum.
LEMMA MinNat ==
  ASSUME NEW S \in SUBSET Nat, S # {}
  PROVE  /\ Min(S) \in S
         /\ \A y \in S : Min(S) <= y
<1> DEFINE Less == {ss \in Nat \X Nat : ss[1] < ss[2]}
<1>1. IsWellFoundedOn(Less, Nat)
  BY NatLessThanWellFounded, Zenon DEF OpToRel
<1>2. \A x, y \in Nat : y < x => <<y, x>> \in Less
  <2> TAKE x, y \in Nat
  <2> HAVE y < x
  <2>1. <<y, x>> \in Nat \X Nat  OBVIOUS
  <2>2. <<y, x>>[1] < <<y, x>>[2]  OBVIOUS
  <2> QED  BY <2>1, <2>2, Zenon
<1> HIDE DEF Less
<1>3. PICK x \in S : \A y \in S : ~ (<<y, x>> \in Less)
  BY <1>1, WFMin, Zenon
<1>4. \A y \in S : ~(y < x)
  BY <1>2, <1>3, Zenon
<1>5. \A y \in S : x <= y
  BY <1>4
<1> QED  BY <1>5 DEF Min

\* It is the only element that is a lower bound.
LEMMA MinNatUnique ==
  ASSUME NEW S \in SUBSET Nat, NEW m \in S, \A y \in S : m <= y
  PROVE  Min(S) = m
<1>1. Min(S) \in S /\ Min(S) <= m
  BY MinNat
<1>2. m <= Min(S) /\ m \in Nat /\ Min(S) \in Nat
  BY <1>1
<1> QED  BY <1>1, <1>2

USE TaskQueueAssumption
-----------------------------------------------------------------------------
\* The constructor's state satisfies the invariant.
LEMMA InitIInv == Init => IInv
<1> SUFFICES ASSUME Init  PROVE IInv
  OBVIOUS
<1> USE DEF Init, TaskInit
<1>1. TaskTypeOK
  <2>1. tasks \in Seq(Nat) /\ \A i \in DOMAIN tasks : tasks[i] < next_task_id
    OBVIOUS
  <2> QED  BY <2>1 DEF TaskTypeOK
<1>2. popped \in Seq(Nat) /\ Len(popped) = 0 /\ DOMAIN popped = {}
  OBVIOUS
<1>3. TypeOK
  BY <1>1, <1>2 DEF TypeOK
<1>4. QueueIsSuffix /\ NewestHeld
  BY DEF QueueIsSuffix, NewestHeld, First
<1>5. OneHolder /\ ResultsAhead /\ StrictHolds
  BY DEF OneHolder, ResultsAhead, StrictHolds, First, Busy
<1>6. PoppedBehind /\ InOrder /\ PopSucceeds
  BY <1>2 DEF PoppedBehind, NeverBackwards, InOrder, PopSucceeds
<1> QED  BY <1>3, <1>4, <1>5, <1>6 DEF IInv

\* push() appends the next id and drops at most the oldest queued one.
LEMMA PushIInv ==
  ASSUME IInv, Push(buffer_size), UNCHANGED resultVars
  PROVE  IInv'
<1> DEFINE q == Append(tasks, next_task_id)
<1>1. /\ tasks \in Seq(Nat) /\ next_task_id \in Nat
      /\ Len(tasks) <= next_task_id /\ First = next_task_id - Len(tasks)
      /\ \A i \in DOMAIN tasks : tasks[i] = First + i - 1
  BY DEF IInv, TypeOK, TaskTypeOK, QueueIsSuffix, First
<1>2. /\ tasks' = trimmed(q, buffer_size) /\ next_task_id' = next_task_id + 1
      /\ main' = "notify" /\ UNCHANGED <<done, worker, task>>
      /\ UNCHANGED <<strict_ordering, results, next_result_id, flushing, popped>>
  BY DEF Push, pushed_id, resultVars
<1>3. /\ q \in Seq(Nat) /\ Len(q) = Len(tasks) + 1 /\ Len(tasks) \in Nat /\ q # <<>>
      /\ \A i \in 1 .. Len(q) : q[i] = First + i - 1
  <2>1. /\ \A i \in 1 .. Len(tasks) : q[i] = tasks[i]
        /\ q[Len(tasks) + 1] = next_task_id
        /\ q \in Seq(Nat) /\ Len(q) = Len(tasks) + 1 /\ Len(tasks) \in Nat
        /\ DOMAIN tasks = 1 .. Len(tasks) /\ q # <<>>
    BY <1>1, AppendNat
  <2>2. ASSUME NEW i \in 1 .. Len(q)  PROVE q[i] = First + i - 1
    <3>1. CASE i = Len(tasks) + 1
      BY <1>1, <2>1, <3>1
    <3>2. CASE i # Len(tasks) + 1
      <4>1. i \in 1 .. Len(tasks)
        BY <2>1, <3>2
      <4> QED  BY <1>1, <2>1, <4>1
    <3> QED  BY <3>1, <3>2
  <2> QED  BY <2>1, <2>2
<1> HIDE DEF q
<1>4. /\ tasks' \in Seq(Nat) /\ Len(tasks') \in Nat \ {0}
      /\ Len(tasks') <= next_task_id + 1
      /\ First' = (next_task_id + 1) - Len(tasks')
      /\ \A i \in DOMAIN tasks' : tasks'[i] = First' + i - 1
      /\ First' >= First /\ (strict_ordering => First' = First)
  <2>1. First' = (next_task_id + 1) - Len(tasks')
    <3>1. next_task_id' = next_task_id + 1
      BY <1>2
    <3>2. next_task_id' - Len(tasks') = (next_task_id + 1) - Len(tasks')
      BY <3>1
    <3> QED  BY <3>2 DEF First
  <2> DEFINE full == buffer_size > 0 /\ Len(q) > buffer_size
  <2>2. CASE full
    <3>1. tasks' = Tail(q)
      BY <1>2, <2>2 DEF trimmed
    <3>2. /\ tasks' \in Seq(Nat) /\ Len(tasks') = Len(q) - 1
          /\ DOMAIN tasks' = 1 .. Len(q) - 1
          /\ \A i \in 1 .. Len(q) - 1 : tasks'[i] = q[i + 1]
      BY <1>3, <3>1, TailNat
    <3>3. Len(tasks) > 0 /\ ~strict_ordering
      BY <1>3, <2>2 DEF TaskQueueAssumption, buffer_size
    <3>4. First' = First + 1
      BY <1>1, <1>3, <2>1, <3>2
    <3>5. Len(tasks') \in Nat \ {0} /\ Len(tasks') <= next_task_id + 1
      BY <1>1, <1>3, <3>2, <3>3
    <3>6. ASSUME NEW i \in DOMAIN tasks'  PROVE tasks'[i] = First' + i - 1
      <4>0. Len(q) \in Nat /\ DOMAIN tasks' = 1 .. Len(q) - 1
        BY <1>3, <3>2
      <4>1. i \in 1 .. Len(q) - 1 /\ i + 1 \in 1 .. Len(q)
        BY <4>0
      <4>2. tasks'[i] = q[i + 1] /\ q[i + 1] = First + (i + 1) - 1
        BY <1>3, <3>2, <4>1
      <4>3. First \in Int
        BY <1>1, <1>3
      <4> QED  BY <3>4, <4>1, <4>2, <4>3
    <3>7. First' >= First
      BY <1>1, <1>3, <3>4
    <3> QED  BY <2>1, <3>2, <3>3, <3>5, <3>6, <3>7
  <2>3. CASE ~full
    <3>1. tasks' = q
      BY <1>2, <2>3 DEF trimmed
    <3>2. DOMAIN q = 1 .. Len(q)
      BY <1>3, LenNat
    <3>3. First' = First
      <4>1. Len(tasks') = Len(tasks) + 1 /\ Len(tasks) \in Nat
        BY <1>3, <3>1
      <4>2. First = next_task_id - Len(tasks) /\ next_task_id \in Nat
        BY <1>1
      <4> QED  BY <2>1, <4>1, <4>2
    <3>4. Len(q) \in Nat \ {0} /\ Len(q) <= next_task_id + 1 /\ First \in Int
      BY <1>1, <1>3
    <3> QED  BY <1>3, <2>1, <3>1, <3>2, <3>3, <3>4
  <2> QED  BY <2>2, <2>3
<1>5. \A i \in DOMAIN tasks' : tasks'[i] < next_task_id + 1
  BY <1>1, <1>4, LenNat
<1>6. TypeOK'
  BY <1>1, <1>2, <1>4, <1>5 DEF IInv, TypeOK, TaskTypeOK
<1>7. QueueIsSuffix'
  BY <1>2, <1>4 DEF QueueIsSuffix
<1>8. OneHolder' /\ ResultsAhead'
  <2>1. /\ First \in Int /\ First' \in Int /\ First' >= First
        /\ next_result_id \in Nat /\ results \in SUBSET Nat
    BY <1>1, <1>3, <1>4 DEF IInv, TypeOK
  <2>2. \A w \in Worker : (Busy(w)' <=> Busy(w)) /\ task[w] \in Nat
    BY <1>2 DEF IInv, TypeOK, TaskTypeOK, Busy
  <2>3. \A w \in Worker : Busy(w) => task[w] < First' /\ task[w] \notin results
    BY <2>1, <2>2 DEF IInv, OneHolder
  <2>4. OneHolder'
    BY <1>2, <2>2, <2>3 DEF IInv, OneHolder
  <2>5. ResultsAhead'
    BY <1>2, <2>1 DEF IInv, ResultsAhead
  <2> QED  BY <2>4, <2>5
<1>9. StrictHolds'
  BY <1>2, <1>4 DEF IInv, StrictHolds, Busy
<1>10. PoppedBehind' /\ InOrder' /\ PopSucceeds'
  BY <1>2 DEF IInv, PoppedBehind, NeverBackwards, InOrder, PopSucceeds
<1>11. NewestHeld'
  BY <1>4, LenNat DEF NewestHeld
<1> QED  BY <1>6, <1>7, <1>8, <1>9, <1>10, <1>11 DEF IInv

\* A worker takes the oldest queued task.
LEMMA TakeTaskIInv ==
  ASSUME IInv, NEW w \in Worker, TakeTask(w), UNCHANGED resultVars
  PROVE  IInv'
<1>1. /\ tasks \in Seq(Nat) /\ next_task_id \in Nat /\ tasks # <<>>
      /\ Len(tasks) <= next_task_id /\ First = next_task_id - Len(tasks)
      /\ \A i \in DOMAIN tasks : tasks[i] = First + i - 1
  BY DEF IInv, TypeOK, TaskTypeOK, QueueIsSuffix, First, TakeTask, takes
<1>2. /\ tasks' = Tail(tasks)
      /\ UNCHANGED <<next_task_id, done, main>>
      /\ UNCHANGED <<strict_ordering, results, next_result_id, flushing, popped>>
  BY DEF TakeTask, resultVars
<1>3. /\ tasks' \in Seq(Nat) /\ Len(tasks') = Len(tasks) - 1
      /\ Len(tasks) \in Nat \ {0}
      /\ DOMAIN tasks = 1 .. Len(tasks) /\ DOMAIN tasks' = 1 .. Len(tasks) - 1
      /\ \A i \in 1 .. Len(tasks) - 1 : tasks'[i] = tasks[i + 1]
      /\ Head(tasks) = First
  <2>1. Head(tasks) = tasks[1] /\ 1 \in DOMAIN tasks
    BY <1>1, TailNat
  <2> QED  BY <1>1, <1>2, <2>1, TailNat
<1>4. First' = First + 1 /\ First \in Nat /\ First < next_task_id
  <2>1. First' = next_task_id - Len(tasks')
    BY <1>2 DEF First
  <2> QED  BY <1>1, <1>3, <2>1
<1>5. /\ Busy(w)' /\ task'[w] = First /\ ~Busy(w) /\ First \in Nat
      /\ task' \in [Worker -> Nat]
      /\ worker' \in [Worker -> {"pop", "wait", "run", "announce", "exited"}]
      /\ \A v \in Worker : v # w => task'[v] = task[v] /\ worker'[v] = worker[v]
  BY <1>3, <1>4 DEF IInv, TypeOK, TaskTypeOK, TakeTask, Busy
<1>6. \A v \in Worker : v # w => (Busy(v)' <=> Busy(v)) /\ task'[v] = task[v]
  BY <1>5 DEF Busy
<1>7. QueueIsSuffix'
  <2>1. ASSUME NEW i \in DOMAIN tasks'  PROVE tasks'[i] = First' + i - 1
    <3>1. i \in 1 .. Len(tasks) - 1 /\ i + 1 \in DOMAIN tasks
      BY <1>3
    <3>2. tasks'[i] = tasks[i + 1] /\ tasks[i + 1] = First + (i + 1) - 1
      BY <1>1, <1>3, <3>1
    <3> QED  BY <1>4, <3>1, <3>2
  <2>2. Len(tasks') <= next_task_id
    BY <1>1, <1>3
  <2> QED  BY <1>2, <2>1, <2>2 DEF QueueIsSuffix
<1>8. TypeOK'
  <2>1. ASSUME NEW i \in DOMAIN tasks'  PROVE tasks'[i] < next_task_id
    <3>1. i \in 1 .. Len(tasks) - 1 /\ i + 1 \in DOMAIN tasks
      BY <1>3
    <3>2. tasks'[i] = tasks[i + 1] /\ tasks[i + 1] < next_task_id
      BY <1>3, <3>1 DEF IInv, TypeOK, TaskTypeOK
    <3> QED  BY <3>2
  <2> QED  BY <1>2, <1>3, <1>5, <2>1 DEF IInv, TypeOK, TaskTypeOK
<1>9. OneHolder'
  <2>1. \A v \in Worker : Busy(v) => task[v] < First /\ task[v] \notin results /\ task[v] \in Nat
    BY DEF IInv, TypeOK, TaskTypeOK, OneHolder
  <2>2. First \notin results
    BY <1>4 DEF IInv, ResultsAhead, TypeOK
  <2>3. \A v \in Worker : Busy(v)' => task'[v] < First' /\ task'[v] \notin results'
    BY <1>2, <1>4, <1>5, <1>6, <2>1, <2>2
  <2>4. ASSUME NEW u \in Worker, NEW v \in Worker,
               Busy(u)', Busy(v)', task'[u] = task'[v]
        PROVE  u = v
    BY <1>4, <1>5, <1>6, <2>1, <2>4 DEF IInv, OneHolder
  <2> QED  BY <2>3, <2>4 DEF OneHolder
<1>10. ResultsAhead'
  BY <1>2, <1>4 DEF IInv, TypeOK, ResultsAhead
<1>11. StrictHolds'
  <2> SUFFICES ASSUME strict_ordering  PROVE StrictHolds'
    BY <1>2 DEF StrictHolds
  <2>1. next_result_id <= First /\ next_result_id \in Nat
    BY DEF IInv, ResultsAhead, TypeOK
  <2>2. \A v \in Worker : Busy(v)' => task'[v] >= next_result_id
    BY <1>5, <1>6, <2>1 DEF IInv, StrictHolds
  <2>3. ASSUME NEW id \in next_result_id .. First' - 1
        PROVE  id \in results \/ \E v \in Worker : Busy(v)' /\ task'[v] = id
    <3>1. CASE id = First
      BY <1>5, <3>1
    <3>2. CASE id # First
      <4>1. id \in next_result_id .. First - 1
        BY <1>4, <2>1, <3>2
      <4> QED  BY <1>5, <1>6, <4>1 DEF IInv, StrictHolds
    <3> QED  BY <3>1, <3>2
  <2> QED  BY <1>2, <2>2, <2>3 DEF StrictHolds
<1>12. PoppedBehind' /\ InOrder' /\ PopSucceeds'
  BY <1>2 DEF IInv, PoppedBehind, NeverBackwards, InOrder, PopSucceeds, available
<1>13. NewestHeld'
  <2>1. tasks' = <<>> => First = next_task_id - 1
    BY <1>1, <1>3, LenNat
  <2> QED  BY <1>2, <1>5, <2>1 DEF NewestHeld
<1> QED  BY <1>7, <1>8, <1>9, <1>10, <1>11, <1>12, <1>13 DEF IInv

\* A worker stores its result, unless a newer one was handed out.
LEMMA FinishIInv ==
  ASSUME IInv, NEW w \in Worker, Finish(w)
  PROVE  IInv'
<1>1. /\ Busy(w) /\ task[w] \in Nat /\ task[w] < First /\ ~Busy(w)'
      /\ First' = First /\ First \in Nat /\ next_result_id \in Nat
      /\ UNCHANGED <<tasks, next_task_id, done, task, main, strict_ordering, next_result_id,
                     flushing, popped>>
      /\ worker' \in [Worker -> {"pop", "wait", "run", "announce", "exited"}]
      /\ \A v \in Worker : v # w => (Busy(v)' <=> Busy(v))
  BY LenNat DEF IInv, TypeOK, TaskTypeOK, QueueIsSuffix, OneHolder, Finish, First, Busy
<1>2. results' = IF accepted(task[w]) THEN results \cup {task[w]} ELSE results
  BY DEF Finish
<1>3. TypeOK' /\ QueueIsSuffix'
  BY <1>1, <1>2 DEF IInv, TypeOK, TaskTypeOK, QueueIsSuffix
<1>4. OneHolder'
  BY <1>1, <1>2 DEF IInv, OneHolder
<1>5. ResultsAhead'
  BY <1>1, <1>2 DEF IInv, ResultsAhead, accepted
<1>6. StrictHolds'
  BY <1>1, <1>2 DEF IInv, StrictHolds, accepted
<1>7. PoppedBehind' /\ InOrder'
  BY <1>1 DEF IInv, PoppedBehind, NeverBackwards, InOrder
<1>8. NewestHeld'
  BY <1>1, <1>2 DEF IInv, TypeOK, TaskTypeOK, NewestHeld, accepted
<1>9. PopSucceeds'
  <2> SUFFICES ASSUME main = "take"  PROVE available'
    BY <1>1 DEF PopSucceeds
  <2>1. available /\ results \in SUBSET Nat
    BY DEF IInv, PopSucceeds, TypeOK
  <2>2. results' # {} /\ results' \in SUBSET Nat
    BY <1>1, <1>2, <2>1 DEF available
  <2>3. ASSUME strict_ordering  PROVE Min(results') = next_result_id
    <3>1. next_result_id \in results'
      BY <1>2, <2>1, <2>3, MinNat DEF available
    <3>2. \A id \in results' : next_result_id <= id
      BY <1>1, <1>5 DEF ResultsAhead
    <3> QED  BY <2>2, <3>1, <3>2, MinNatUnique
  <2> QED  BY <1>1, <2>2, <2>3 DEF available
<1> QED  BY <1>3, <1>4, <1>5, <1>6, <1>7, <1>8, <1>9 DEF IInv

\* try_pop() hands out the oldest stored result.
LEMMA DeliverIInv ==
  ASSUME IInv, available, Deliver,
         UNCHANGED <<tasks, next_task_id, done, worker, task, strict_ordering>>,
         main' \in {"idle", "flush"}, flushing' = flushing
  PROVE  IInv'
<1> DEFINE m == Min(results)
<1>1. /\ results \in SUBSET Nat /\ m \in results /\ m \in Nat
      /\ \A id \in results : m <= id
  BY MinNat DEF IInv, TypeOK, available
<1>2. /\ next_result_id <= m /\ m < First /\ next_result_id \in Nat
      /\ First \in Nat /\ next_task_id \in Nat /\ popped \in Seq(Nat)
  BY <1>1, LenNat DEF IInv, TypeOK, TaskTypeOK, QueueIsSuffix, ResultsAhead, First
<1>3. strict_ordering => m = next_result_id
  BY DEF available
<1>4. /\ popped' = Append(popped, m) /\ next_result_id' = m + 1
      /\ results' = results \ {m} /\ First' = First
      /\ \A w \in Worker : Busy(w)' = Busy(w)
  BY DEF Deliver, First, Busy
<1> HIDE DEF m
<1>5. /\ popped' \in Seq(Nat) /\ Len(popped') = Len(popped) + 1 /\ Len(popped) \in Nat
      /\ popped'[Len(popped) + 1] = m
      /\ \A i \in 1 .. Len(popped) : popped'[i] = popped[i] /\ popped[i] \in Nat
      /\ DOMAIN popped' = 1 .. Len(popped) + 1 /\ DOMAIN popped = 1 .. Len(popped)
  BY <1>1, <1>2, <1>4, AppendNat
<1>6. TypeOK' /\ QueueIsSuffix'
  BY <1>1, <1>4, <1>5 DEF IInv, TypeOK, TaskTypeOK, QueueIsSuffix
<1>7. OneHolder'
  BY <1>4 DEF IInv, OneHolder
<1>8. ResultsAhead'
  BY <1>1, <1>2, <1>4 DEF IInv, ResultsAhead
<1>9. PoppedBehind'
  <2>1. \A i \in 1 .. Len(popped) : popped[i] < m
    <3>1. \A i \in 1 .. Len(popped) : popped[i] < next_result_id /\ popped[i] \in Nat
      BY <1>5 DEF IInv, PoppedBehind
    <3> QED  BY <1>1, <1>2, <3>1
  <2>2. \A i \in DOMAIN popped' : popped'[i] < m + 1
    BY <1>1, <1>5, <2>1
  <2>3. ASSUME NEW i \in DOMAIN popped', NEW j \in DOMAIN popped', i < j
        PROVE  popped'[i] < popped'[j]
    <3>1. CASE j = Len(popped) + 1
      BY <1>5, <2>1, <2>3, <3>1
    <3>2. CASE j # Len(popped) + 1
      <4>1. i \in DOMAIN popped /\ j \in DOMAIN popped
        BY <1>5, <2>3, <3>2
      <4>2. popped[i] < popped[j]
        BY <2>3, <4>1 DEF IInv, PoppedBehind, NeverBackwards
      <4> QED  BY <1>5, <4>1, <4>2
    <3> QED  BY <3>1, <3>2
  <2> QED  BY <1>4, <2>2, <2>3 DEF PoppedBehind, NeverBackwards
<1>10. StrictHolds'
  <2> SUFFICES ASSUME strict_ordering  PROVE StrictHolds'
    BY DEF StrictHolds
  <2>1. \A w \in Worker : Busy(w) => task[w] # m /\ task[w] \in Nat
    BY <1>1 DEF IInv, TypeOK, TaskTypeOK, OneHolder
  <2>2. \A w \in Worker : Busy(w) => task[w] >= m + 1
    BY <1>1, <1>3, <2>1 DEF IInv, StrictHolds
  <2>3. \A id \in m + 1 .. First - 1 :
          id \in results' \/ \E w \in Worker : Busy(w) /\ task[w] = id
    BY <1>1, <1>2, <1>3, <1>4 DEF IInv, StrictHolds
  <2> QED  BY <1>4, <2>2, <2>3 DEF StrictHolds
<1>11. NewestHeld'
  <2>1. m + 1 < next_task_id => next_task_id - 1 # m /\ next_result_id < next_task_id
    BY <1>1, <1>2
  <2> QED  BY <1>4, <2>1 DEF IInv, NewestHeld
<1>12. InOrder'
  BY <1>1, <1>2, <1>3, <1>4, <1>5 DEF IInv, InOrder
<1>13. PopSucceeds'
  BY DEF PopSucceeds
<1> QED  BY <1>6, <1>7, <1>8, <1>9, <1>10, <1>11, <1>12, <1>13 DEF IInv

Places == {"idle", "notify", "mark_done", "join", "destroyed", "popping",
           "wait", "take", "flush"}

\* Every other step moves a thread, and neither a task nor a result: waiting,
\* waking up, leaving, and the calls that only begin or end.
LEMMA MoveIInv ==
  ASSUME IInv,
         UNCHANGED <<tasks, next_task_id, task, strict_ordering, results, next_result_id, popped>>,
         done' \in BOOLEAN, flushing' \in BOOLEAN, main' \in Places,
         worker' \in [Worker -> States],
         \A w \in Worker : Busy(w)' <=> Busy(w),
         main' = "take" => available
  PROVE  IInv'
<1>1. First' = First /\ available' = available
  BY DEF First, available
<1>2. TypeOK'
  BY DEF IInv, TypeOK, TaskTypeOK, States, Places
<1>3. QueueIsSuffix'
  BY <1>1 DEF IInv, QueueIsSuffix
<1>4. OneHolder' /\ ResultsAhead'
  BY <1>1 DEF IInv, OneHolder, ResultsAhead
<1>5. StrictHolds'
  BY <1>1 DEF IInv, StrictHolds
<1>6. NewestHeld'
  BY DEF IInv, NewestHeld
<1>7. PoppedBehind' /\ InOrder' /\ PopSucceeds'
  BY <1>1 DEF IInv, PoppedBehind, NeverBackwards, InOrder, PopSucceeds
<1> QED  BY <1>2, <1>3, <1>4, <1>5, <1>6, <1>7 DEF IInv

\* The waiting, waking and leaving of the workers, and their notification of
\* the main thread.
LEMMA WorkerMoveIInv ==
  ASSUME IInv, NEW w \in Worker,
         \/ (TakeWait(w) \/ TakeDone(w)) /\ UNCHANGED resultVars
         \/ Announce(w)
  PROVE  IInv'
<1>1. /\ worker \in [Worker -> States] /\ main \in Places
      /\ done \in BOOLEAN /\ flushing \in BOOLEAN
  BY DEF IInv, TypeOK, TaskTypeOK, States, Places
<1>2. UNCHANGED <<tasks, next_task_id, task, strict_ordering, results, next_result_id, popped,
                  done, flushing>>
  BY DEF TakeWait, TakeDone, Announce, resultVars
<1>3. /\ worker' \in [Worker -> States]
      /\ \A v \in Worker : Busy(v)' <=> Busy(v)
  BY <1>1 DEF TakeWait, TakeDone, Announce, States, Busy
<1>4. main' \in Places /\ (main' = "take" => available)
  BY <1>1 DEF IInv, PopSucceeds, TakeWait, TakeDone, Announce, announced, Places
<1> QED  BY <1>1, <1>2, <1>3, <1>4, MoveIInv

\* The calls of the main thread and their notifications.
LEMMA MainMoveIInv ==
  ASSUME IInv,
         \/ (PushNotify \/ MarkDone \/ MarkDoneNotify \/ Join) /\ UNCHANGED resultVars
         \/ Pop \/ PopWait \/ PopReady \/ Flush \/ FlushLoop \/ UNCHANGED vars
  PROVE  IInv'
<1>1. /\ worker \in [Worker -> States] /\ main \in Places
      /\ done \in BOOLEAN /\ flushing \in BOOLEAN
  BY DEF IInv, TypeOK, TaskTypeOK, States, Places
<1>2. /\ UNCHANGED <<tasks, next_task_id, task, strict_ordering, results, next_result_id, popped>>
      /\ done' \in BOOLEAN /\ flushing' \in BOOLEAN
  BY <1>1 DEF PushNotify, MarkDone, MarkDoneNotify, Join, Pop, PopWait, PopReady,
              Flush, FlushLoop, vars, taskVars, resultVars
<1>3. /\ worker' \in [Worker -> States]
      /\ \A v \in Worker : Busy(v)' <=> Busy(v)
  <2>1. CASE PushNotify
    BY <1>1, <2>1 DEF PushNotify, Waiting, States, Busy
  <2>2. CASE MarkDoneNotify
    BY <1>1, <2>2 DEF MarkDoneNotify, woken, Waiting, States, Busy
  <2>3. CASE worker' = worker
    BY <1>1, <2>3 DEF Busy
  <2> QED  BY <2>1, <2>2, <2>3 DEF MarkDone, Join, Pop, PopWait, PopReady,
                                   Flush, FlushLoop, vars, taskVars
<1>4. main' \in Places
  BY <1>1 DEF PushNotify, MarkDone, MarkDoneNotify, Join, Pop, PopWait, PopReady,
              Flush, FlushLoop, vars, taskVars, Places
<1>5. main' = "take" => available
  <2>1. CASE PopReady
    BY <2>1 DEF PopReady, ready, available
  <2>2. CASE UNCHANGED vars
    BY <2>2 DEF IInv, PopSucceeds, vars, taskVars
  <2> QED  BY <2>1, <2>2 DEF PushNotify, MarkDone, MarkDoneNotify, Join, Pop,
                             PopWait, Flush, FlushLoop
<1> QED  BY <1>1, <1>2, <1>3, <1>4, <1>5, MoveIInv

\* Every step of the queue keeps the invariant.
LEMMA NextIInv ==
  ASSUME IInv, [Next]_vars
  PROVE  IInv'
<1>1. CASE Push(buffer_size) /\ UNCHANGED resultVars
  BY <1>1, PushIInv
<1>2. ASSUME NEW w \in Worker, TakeTask(w), UNCHANGED resultVars  PROVE IInv'
  BY <1>2, TakeTaskIInv
<1>3. ASSUME NEW w \in Worker, Finish(w)  PROVE IInv'
  BY <1>3, FinishIInv
<1>4. CASE TryPop
  <2>1. main' = main /\ main = "idle" /\ flushing' = flushing
    BY <1>4 DEF TryPop, taskVars
  <2>2. available /\ Deliver /\ UNCHANGED <<tasks, next_task_id, done, worker, task, strict_ordering>>
    BY <1>4 DEF TryPop, taskVars
  <2> QED  BY <2>1, <2>2, DeliverIInv
<1>5. CASE PopTake
  <2>1. available
    BY <1>5 DEF IInv, PopSucceeds, PopTake
  <2>2. /\ Deliver /\ UNCHANGED <<tasks, next_task_id, done, worker, task, strict_ordering>>
        /\ main' \in {"idle", "flush"} /\ flushing' = flushing
    BY <1>5, <2>1 DEF PopTake
  <2> QED  BY <2>1, <2>2, DeliverIInv
<1>6. ASSUME NEW w \in Worker,
             \/ (TakeWait(w) \/ TakeDone(w)) /\ UNCHANGED resultVars
             \/ Announce(w)
      PROVE  IInv'
  BY <1>6, WorkerMoveIInv
<1>7. CASE \/ (PushNotify \/ MarkDone \/ MarkDoneNotify \/ Join) /\ UNCHANGED resultVars
           \/ Pop \/ PopWait \/ PopReady \/ Flush \/ FlushLoop \/ UNCHANGED vars
  BY <1>7, MainMoveIInv
<1> QED
  BY <1>1, <1>2, <1>3, <1>4, <1>5, <1>6, <1>7
  DEF Next, MainCall, MainStep, WorkerStep, Destroyed

\* The inductive invariant holds in every reachable state.
THEOREM Inductive == Spec => []IInv
<1>1. Init => IInv
  BY InitIInv
<1>2. IInv /\ [Next]_vars => IInv'
  BY NextIInv
<1> QED  BY <1>1, <1>2, PTL DEF Spec
-----------------------------------------------------------------------------
\* The queued ids are the youngest ones, without a gap.
LEMMA QueuedIds ==
  ASSUME IInv
  PROVE  /\ ToSet(tasks) = First .. next_task_id - 1
         /\ First \in Nat /\ next_task_id \in Nat /\ next_result_id \in Nat
         /\ next_result_id <= First /\ First <= next_task_id
<1>1. /\ tasks \in Seq(Nat) /\ next_task_id \in Nat /\ next_result_id \in Nat
      /\ Len(tasks) \in Nat /\ DOMAIN tasks = 1 .. Len(tasks)
      /\ Len(tasks) <= next_task_id /\ First = next_task_id - Len(tasks)
  BY LenNat DEF IInv, TypeOK, TaskTypeOK, QueueIsSuffix, First
<1>2. First \in Nat /\ First <= next_task_id /\ next_result_id <= First
  BY <1>1 DEF IInv, ResultsAhead
<1>3. ASSUME NEW i \in DOMAIN tasks  PROVE tasks[i] \in First .. next_task_id - 1
  <2>1. tasks[i] = First + i - 1
    BY DEF IInv, QueueIsSuffix
  <2> QED  BY <1>1, <1>2, <2>1
<1>4. ASSUME NEW id \in First .. next_task_id - 1
      PROVE  \E i \in DOMAIN tasks : tasks[i] = id
  <2>1. (id - First) + 1 \in DOMAIN tasks
    BY <1>1, <1>2
  <2>2. tasks[(id - First) + 1] = First + ((id - First) + 1) - 1
    BY <2>1 DEF IInv, QueueIsSuffix
  <2>3. First + ((id - First) + 1) - 1 = id
    BY <1>2
  <2> QED  BY <2>1, <2>2, <2>3
<1>5. ToSet(tasks) = First .. next_task_id - 1
  BY <1>3, <1>4 DEF ToSet
<1> QED  BY <1>1, <1>2, <1>5

\* Strict ordering loses no task: what is owed is exactly what is queued,
\* running or stored, for any number of workers.
LEMMA OwedIsHeld ==
  ASSUME IInv  PROVE NothingDropped
<1> SUFFICES ASSUME strict_ordering  PROVE Owed = ToSet(tasks) \cup Running \cup results
  BY DEF NothingDropped
<1>1. /\ ToSet(tasks) = First .. next_task_id - 1
      /\ First \in Nat /\ next_task_id \in Nat /\ next_result_id \in Nat
      /\ next_result_id <= First /\ First <= next_task_id
  BY QueuedIds
<1>2. results \subseteq next_result_id .. First - 1
  BY <1>1 DEF IInv, TypeOK, ResultsAhead
<1>3. Running \subseteq next_result_id .. First - 1
  <2>1. \A w \in Worker : Busy(w) => task[w] \in next_result_id .. First - 1
    BY <1>1 DEF IInv, TypeOK, TaskTypeOK, OneHolder, StrictHolds
  <2> QED  BY <2>1 DEF Running, Busy
<1>4. next_result_id .. First - 1 \subseteq Running \cup results
  <2>1. \A id \in next_result_id .. First - 1 :
          id \in results \/ \E w \in Worker : Busy(w) /\ task[w] = id
    BY DEF IInv, StrictHolds
  <2> QED  BY <2>1 DEF Running, Busy
<1>5. Owed = (next_result_id .. First - 1) \cup (First .. next_task_id - 1)
  BY <1>1 DEF Owed
<1> QED  BY <1>1, <1>2, <1>3, <1>4, <1>5

\* The newest task is queued, running or stored until its result is delivered.
LEMMA NewestIsHeld ==
  ASSUME IInv  PROVE NewestSurvives
<1> SUFFICES ASSUME next_result_id # next_task_id
             PROVE  next_task_id - 1 \in ToSet(tasks) \cup Running \cup results
  BY DEF NewestSurvives, is_empty
<1>1. /\ ToSet(tasks) = First .. next_task_id - 1
      /\ First \in Nat /\ next_task_id \in Nat /\ next_result_id \in Nat
      /\ next_result_id <= First /\ First <= next_task_id
  BY QueuedIds
<1>2. CASE tasks = <<>>
  <2>1. \/ next_task_id - 1 \in results
        \/ \E w \in Worker : Busy(w) /\ task[w] = next_task_id - 1
    BY <1>1, <1>2 DEF IInv, NewestHeld
  <2> QED  BY <2>1 DEF Running, Busy
<1>3. CASE tasks # <<>>
  <2>1. Len(tasks) \in Nat \ {0}
    BY <1>3, LenNat DEF IInv, TypeOK, TaskTypeOK
  <2>2. next_task_id - 1 \in First .. next_task_id - 1
    BY <1>1, <2>1 DEF First
  <2> QED  BY <1>1, <2>2
<1> QED  BY <1>2, <1>3

\* threaded_task_queue<R> keeps its types, and a queued id was given out.
THEOREM TypeCorrect == Spec => []TypeOK
BY Inductive, PTL DEF IInv

\* "results should be popped in the same order that tasks were pushed without
\* dropping any task": the second half, ...
THEOREM StrictDropsNothing == Spec => []NothingDropped
<1>1. IInv => NothingDropped
  BY OwedIsHeld
<1> QED  BY <1>1, Inductive, PTL

\* ... and the first.
THEOREM StrictInOrder == Spec => []InOrder
BY Inductive, PTL DEF IInv

\* Both together.
THEOREM StrictOrderKept == Spec => []StrictOrder
BY StrictDropsNothing, StrictInOrder, PTL DEF StrictOrder

\* With or without strict ordering no result follows a newer one.
THEOREM ResultsIncrease == Spec => []NeverBackwards
<1>1. IInv => NeverBackwards
  BY DEF IInv, PoppedBehind
<1> QED  BY <1>1, Inductive, PTL

\* is_empty() is false only while the newest task is on its way, whatever the
\* bounded buffer and late results have discarded.
THEOREM NewestNotLost == Spec => []NewestSurvives
<1>1. IInv => NewestSurvives
  BY NewestIsHeld
<1> QED  BY <1>1, Inductive, PTL

\* Without strict ordering the queue drops old results only.
THEOREM OnlyOldDropped == Spec => []NewestWins
BY ResultsIncrease, NewestNotLost, PTL DEF NewestWins

\* try_pop, called by pop() after the lock was released, finds the result.
THEOREM PopNeverFails == Spec => []PopSucceeds
BY Inductive, PTL DEF IInv

\* Every step keeps what TaskQueueProofs says about workers that have left.
LEMMA NextExit ==
  ASSUME IInv, ExitInv, [Next]_vars
  PROVE  ExitInv'
<1>1. worker \in [Worker -> States]
  BY DEF IInv, TypeOK, TaskTypeOK, States
<1>2. CASE Push(buffer_size) \/ PushNotify \/ MarkDone \/ MarkDoneNotify \/ Join
  BY <1>1, <1>2, ExitMain
<1>3. ASSUME NEW w \in Worker, TakeTask(w) \/ TakeWait(w) \/ TakeDone(w)
      PROVE  ExitInv'
  BY <1>1, <1>3, ExitTake
<1>4. ASSUME NEW w \in Worker, Finish(w) \/ Announce(w)  PROVE ExitInv'
  BY <1>1, <1>4, ExitOther DEF Finish, Announce, announced
<1>5. CASE TryPop \/ Pop \/ Flush \/ PopWait \/ PopReady \/ PopTake \/ FlushLoop
           \/ UNCHANGED vars
  <2>1. UNCHANGED <<tasks, done, worker>> /\ (main' = "destroyed" => main = "destroyed")
    BY <1>5 DEF TryPop, Pop, Flush, PopWait, PopReady, PopTake, FlushLoop, vars, taskVars
  <2> QED  BY <2>1, ExitOther
<1> QED
  BY <1>2, <1>3, <1>4, <1>5 DEF Next, MainCall, MainStep, WorkerStep, Destroyed

\* The destructor returns only when every task that was not discarded has run.
THEOREM DestructorRunsAll == Spec => []DestroyRunsAll
<1>1. Init => ExitInv
  BY ExitInit DEF Init
<1>2. IInv /\ ExitInv /\ [Next]_vars => ExitInv'
  BY NextExit
<1>3. ExitInv => DestroyRunsAll
  BY ExitRunsAll
<1> QED  BY <1>1, <1>2, <1>3, Inductive, PTL DEF Spec
=============================================================================
