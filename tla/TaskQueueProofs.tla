-------------------------- MODULE TaskQueueProofs --------------------------
(***************************************************************************)
(* What both forms of threaded_task_queue need: facts about sequences of   *)
(* ids, and that the destructor leaves no task behind, for any number of   *)
(* workers.                                                                *)
(***************************************************************************)
EXTENDS TaskQueue, TLAPS

Busy(w) == worker[w] = "run"

States == {"pop", "wait", "run", "announce", "exited"}

\* Sequences of ids: appending one, and removing the oldest.
LEMMA AppendNat ==
  ASSUME NEW s \in Seq(Nat), NEW x \in Nat
  PROVE  /\ Append(s, x) \in Seq(Nat)
         /\ Len(Append(s, x)) = Len(s) + 1 /\ Len(s) \in Nat
         /\ DOMAIN s = 1 .. Len(s) /\ DOMAIN Append(s, x) = 1 .. Len(s) + 1
         /\ \A i \in 1 .. Len(s) : Append(s, x)[i] = s[i] /\ s[i] \in Nat
         /\ Append(s, x)[Len(s) + 1] = x
         /\ Append(s, x) # <<>>
OBVIOUS

\* Tail drops the first of a non-empty queue's ids and shifts the others.
LEMMA TailNat ==
  ASSUME NEW s \in Seq(Nat), s # <<>>
  PROVE  /\ Tail(s) \in Seq(Nat)
         /\ Len(Tail(s)) = Len(s) - 1
         /\ \A i \in 1 .. Len(s) - 1 : Tail(s)[i] = s[i + 1]
         /\ DOMAIN Tail(s) = 1 .. Len(s) - 1
         /\ DOMAIN s = 1 .. Len(s)
         /\ Len(s) \in Nat \ {0}
         /\ Head(s) = s[1]
OBVIOUS

\* The length and the positions of a sequence of ids.
LEMMA LenNat ==
  ASSUME NEW s \in Seq(Nat)
  PROVE  Len(s) \in Nat /\ DOMAIN s = 1 .. Len(s) /\ (s = <<>> <=> Len(s) = 0)
OBVIOUS

-----------------------------------------------------------------------------
(***************************************************************************)
(* A worker leaves only when done_ is set and the queue is empty, and no   *)
(* push follows; the destructor ends when all have left.                   *)
(***************************************************************************)
ExitInv ==
  /\ \A w \in Worker : worker[w] = "exited" => done /\ tasks = <<>>
  /\ main = "destroyed" => \A w \in Worker : worker[w] = "exited"

\* No worker has left a new queue.
LEMMA ExitInit == TaskInit => ExitInv
BY DEF TaskInit, ExitInv

\* The calls of the main thread that both forms have.
LEMMA ExitMain ==
  ASSUME ExitInv, worker \in [Worker -> States], NEW size,
         Push(size) \/ PushNotify \/ MarkDone \/ MarkDoneNotify \/ Join
  PROVE  ExitInv'
<1>1. CASE Push(size)
  BY <1>1 DEF Push, ExitInv
<1>2. CASE PushNotify
  BY <1>2 DEF PushNotify, Waiting, ExitInv
<1>3. CASE MarkDone
  BY <1>3 DEF MarkDone, ExitInv
<1>4. CASE MarkDoneNotify
  BY <1>4 DEF MarkDoneNotify, woken, Waiting, ExitInv
<1>5. CASE Join
  BY <1>5 DEF Join, ExitInv
<1> QED  BY <1>1, <1>2, <1>3, <1>4, <1>5

\* task_queue::pop: nothing is taken from an empty queue.
LEMMA ExitTake ==
  ASSUME ExitInv, worker \in [Worker -> States], NEW w \in Worker,
         TakeTask(w) \/ TakeWait(w) \/ TakeDone(w)
  PROVE  ExitInv'
<1>1. CASE TakeTask(w)
  BY <1>1 DEF TakeTask, takes, ExitInv
<1>2. CASE TakeWait(w)
  BY <1>2 DEF TakeWait, ExitInv
<1>3. CASE TakeDone(w)
  BY <1>3 DEF TakeDone, may_go_on, takes, ExitInv
<1> QED  BY <1>1, <1>2, <1>3

\* Steps that neither queue a task nor let a worker leave.
LEMMA ExitOther ==
  ASSUME ExitInv, UNCHANGED <<tasks, done>>,
         \A w \in Worker : worker'[w] = "exited" <=> worker[w] = "exited",
         main' = "destroyed" => main = "destroyed"
  PROVE  ExitInv'
BY DEF ExitInv

\* What the destructor promises follows.
LEMMA ExitRunsAll == ASSUME ExitInv  PROVE DestroyRunsAll
<1> SUFFICES ASSUME main = "destroyed"  PROVE tasks = <<>> /\ Running = {}
  BY DEF DestroyRunsAll
<1>1. \A w \in Worker : worker[w] = "exited" /\ tasks = <<>>
  BY DEF ExitInv
<1>2. tasks = <<>>
  BY <1>1, TaskQueueAssumption
<1>3. {v \in Worker : worker[v] = "run"} = {}
  BY <1>1
<1> QED  BY <1>2, <1>3 DEF Running
=============================================================================
