--------------------- MODULE CallbackQueueOrderProofs ----------------------
(***************************************************************************)
(* threaded_callback_queue, for any number of clients, workers and         *)
(* invokers and any program of calls: an invoker is started after          *)
(* everything that it depends on, wait() returns when the futures are      *)
(* ready, and the workers do not sleep on a queued task.                   *)
(***************************************************************************)
EXTENDS CallbackQueueProofs

(***************************************************************************)
(* The priors of an invoker and the counter of those it waits for.         *)
(***************************************************************************)
\* The entries of dependents_ that the prior has still to signal.
Unsignalled(p, i) ==
  \/ status[p] # "READY"
  \/ \E f \in Frames : /\ f.run = p
                       /\ \/ f.pc = "signal"
                          \/ f.pc = "dependent" /\ i > Len(dependents[p]) - Len(f.todo)
Out(x) == {z \in UNION {{p} \X DOMAIN dependents[p] : p \in Invoker} :
             dependents[z[1]][z[2]] = x /\ Unsignalled(z[1], z[2])}
Counting(x) == \E f \in Frames : f.pc = "count" /\ f.tgt = x
Counted == \A x \in Invoker :
  /\ IsFiniteSet(Out(x))
  /\ Cardinality(Out(x)) <= remaining[x] + (IF Counting(x) THEN 1 ELSE 0)

\* signal_dependent_shared_futures goes through dependents_ in order.
Follows(f) == f.pc = "dependent" =>
  LET l == dependents[f.run] IN
  /\ Len(f.todo) <= Len(l)
  /\ \A i \in DOMAIN f.todo : f.todo[i] = l[Len(l) - Len(f.todo) + i]

\* The futures that an invoker has to wait for.
Earlier(p, x) == \E i, j \in DOMAIN control_futures :
                   i < j /\ control_futures[i] = p /\ control_futures[j] = x
Needs(x) == {p \in Invoker :
  \/ kind[x] = "task" /\ bound[x].call = "push_dependent" /\ In(bound[x].on, p)
  \/ kind[x] = "control" /\ Earlier(p, x)}
NeedsOf(f) == IF kind[f.tgt] = "waiter" THEN {p \in Invoker : In(CallOf(f).on, p)} ELSE Needs(f.tgt)

\* p is ready, or will signal x.
Met(x, p) == status[p] = "READY" \/ \E i \in DOMAIN dependents[p] : <<p, i>> \in Out(x)

Offered == {"ENQUEUED", "RUNNING", "READY"}
Registers(f) ==
  /\ f.pc = "controls" => \A p \in Needs(f.tgt) : In(f.todo, p)
  /\ f.pc \in Registering => \A p \in NeedsOf(f) : Met(f.tgt, p) \/ In(f.todo, p)
  /\ f.pc = "count" => Met(f.tgt, Head(f.todo))
  /\ f.pc = "push" => \A p \in Needs(f.tgt) : kind[f.tgt] = "task" => status[p] = "READY"
  /\ f.pc \in Registering /\ kind[f.tgt] = "waiter" =>
       f.ip <= Len(Calls(f.run)) /\ CallOf(f).call = "wait"
PriorMet(x) == \A p \in Needs(x) :
  /\ status[x] = "ON_HOLD" => Met(x, p)
  /\ status[x] \in Offered => status[p] = "READY"
PriorsMet == \A x \in Invoker : PriorMet(x)
Controls ==
  /\ \A i, j \in DOMAIN control_futures : control_futures[i] = control_futures[j] => i = j
  /\ \A t \in Invoker : kind[t] = "control" <=> In(control_futures, t)

PriorInv == /\ Counted /\ PriorsMet /\ Controls
            /\ \A f \in Frames : Follows(f) /\ Registers(f)

(***************************************************************************)
(* wait().                                                                 *)
(***************************************************************************)
\* The other calls that take several steps.
Busy(f) ==
  f.pc \in {"push", "notify", "controls", "destroy", "sync"} \/ (f.pc \in Registering /\ kind[f.tgt] = "control") =>
    f.ip <= Len(Calls(f.run)) /\ CallOf(f).call # "wait"
\* The thread that blocks knows that its waiter has registered everything.
Blocked(f) == f.pc = "block" =>
  /\ f.ip <= Len(Calls(f.run)) /\ CallOf(f).call = "wait"
  /\ f.tgt \in Invoker /\ kind[f.tgt] = "waiter" /\ status[f.tgt] # "CONSTRUCTING"
  /\ \A p \in Invoker : In(CallOf(f).on, p) =>
       status[p] = "READY" \/ (status[f.tgt] = "ON_HOLD" /\ Met(f.tgt, p))
\* A future that was not ready and need not be waited for is being run by the
\* frame above, which runs r.
Helped(f, r) == f.pc \in Helping /\ ~f.flag =>
  \A p \in Invoker : In(CallOf(f).on, p) => In(f.todo, p) \/ status[p] = "READY" \/ p = r
Waited(f) == \A k \in DOMAIN Calls(f.run) :
  k < f.ip /\ Calls(f.run)[k].call = "wait" => ~must_wait(Calls(f.run)[k].on)
Fits(f, r) == Busy(f) /\ Blocked(f) /\ Helped(f, r) /\ Waited(f)

Above(th, i) == IF i < Len(stack[th]) THEN stack[th][i + 1].run ELSE NULL
WaitInv == \A th \in Thread : \A i \in DOMAIN stack[th] :
  \A e \in {stack[th][i]}, r \in {Above(th, i)} : Fits(e, r)

(***************************************************************************)
(* The priors: what a step does to the entries that are not signalled yet  *)
(***************************************************************************)
LEMMA OutIs ==
  /\ \A x, z : z \in Out(x) <=> \E p \in Invoker : \E i \in DOMAIN dependents[p] :
                                  z = <<p, i>> /\ dependents[p][i] = x /\ Unsignalled(p, i)
  /\ \A x, z : z \in Out(x)' <=> \E p \in Invoker : \E i \in DOMAIN dependents'[p] :
                                   z = <<p, i>> /\ dependents'[p][i] = x /\ Unsignalled(p, i)'
<1>1. ASSUME NEW x, NEW z PROVE z \in Out(x) <=> \E p \in Invoker : \E i \in DOMAIN dependents[p] :
                                                  z = <<p, i>> /\ dependents[p][i] = x /\ Unsignalled(p, i)
  <2>1. ASSUME z \in Out(x) PROVE \E p \in Invoker : \E i \in DOMAIN dependents[p] :
                                    z = <<p, i>> /\ dependents[p][i] = x /\ Unsignalled(p, i)
    <3>1. PICK p \in Invoker : z \in {p} \X DOMAIN dependents[p]
      BY <2>1 DEF Out
    <3>2. PICK i \in DOMAIN dependents[p] : z = <<p, i>>
      BY <3>1
    <3>3. dependents[z[1]][z[2]] = x /\ Unsignalled(z[1], z[2])
      BY <2>1 DEF Out
    <3>. QED BY <3>2, <3>3
  <2>2. ASSUME NEW p \in Invoker, NEW i \in DOMAIN dependents[p], z = <<p, i>>, dependents[p][i] = x, Unsignalled(p, i)
        PROVE  z \in Out(x)
    <3>1. z \in {p} \X DOMAIN dependents[p] /\ z[1] = p /\ z[2] = i
      BY <2>2
    <3>. QED BY <2>2, <3>1 DEF Out
  <2>. QED BY <2>1, <2>2
<1>2. ASSUME NEW x, NEW z PROVE z \in Out(x)' <=> \E p \in Invoker : \E i \in DOMAIN dependents'[p] :
                                                   z = <<p, i>> /\ dependents'[p][i] = x /\ Unsignalled(p, i)'
  <2>1. ASSUME z \in Out(x)' PROVE \E p \in Invoker : \E i \in DOMAIN dependents'[p] :
                                    z = <<p, i>> /\ dependents'[p][i] = x /\ Unsignalled(p, i)'
    <3>1. PICK p \in Invoker : z \in {p} \X DOMAIN dependents'[p]
      BY <2>1 DEF Out
    <3>2. PICK i \in DOMAIN dependents'[p] : z = <<p, i>>
      BY <3>1
    <3>3. dependents'[z[1]][z[2]] = x /\ Unsignalled(z[1], z[2])'
      BY <2>1 DEF Out
    <3>. QED BY <3>2, <3>3
  <2>2. ASSUME NEW p \in Invoker, NEW i \in DOMAIN dependents'[p], z = <<p, i>>, dependents'[p][i] = x, Unsignalled(p, i)'
        PROVE  z \in Out(x)'
    <3>1. z \in {p} \X DOMAIN dependents'[p] /\ z[1] = p /\ z[2] = i
      BY <2>2
    <3>. QED BY <2>2, <3>1 DEF Out
  <2>. QED BY <2>1, <2>2
<1>. QED BY <1>1, <1>2

\* READY is for good and dependents_ only grows: what is met stays met.
Steady ==
  /\ \A p \in Invoker : status[p] = "READY" => status'[p] = "READY"
  /\ \A p \in Invoker : \A i \in DOMAIN dependents[p] : i \in DOMAIN dependents'[p] /\ dependents'[p][i] = dependents[p][i]

LEMMA MetStays ==
  ASSUME Steady, NEW x, NEW p \in Invoker, Met(x, p)
  PROVE  Met(x, p)'
<1>1. CASE status'[p] = "READY"
  BY <1>1 DEF Met
<1>2. CASE status'[p] # "READY"
  <2>1. status[p] # "READY"
    BY <1>2 DEF Steady
  <2>2. PICK j \in DOMAIN dependents[p] : <<p, j>> \in Out(x)
    BY <2>1 DEF Met
  <2>3. dependents[p][j] = x
    <3>1. PICK r, i : r \in Invoker /\ i \in DOMAIN dependents[r] /\ <<p, j>> = <<r, i>> /\ dependents[r][i] = x
      BY <2>2, OutIs
    <3>. QED BY <3>1
  <2>4. j \in DOMAIN dependents'[p] /\ dependents'[p][j] = x /\ Unsignalled(p, j)'
    BY <1>2, <2>3 DEF Steady, Unsignalled
  <2>5. <<p, j>> \in Out(x)'
    BY <2>4, OutIs
  <2>. QED BY <2>4, <2>5 DEF Met
<1>. QED BY <1>1, <1>2

\* A prior that is not ready has an entry for x; if x has none left, all that is met is ready.
LEMMA NothingOut ==
  ASSUME NEW x, NEW p, Met(x, p), Out(x) = {}
  PROVE  status[p] = "READY"
BY DEF Met

\* A frame that signals was already there, or its invoker has just become READY.
Sourced(f) ==
  f.pc \in {"signal", "dependent"} =>
    \/ status[f.run] # "READY"
    \/ \E e \in Frames : /\ e.run = f.run
                         /\ \/ e.pc = "signal"
                            \/ e.pc = "dependent" /\ f.pc = "dependent" /\ Len(f.todo) <= Len(e.todo)

LEMMA OutShrinks ==
  ASSUME QueueInv, QueueInv', dependents' = dependents, NEW x,
         \A p \in Invoker : status[p] = "READY" => status'[p] = "READY",
         \A f \in Frames' : Sourced(f)
  PROVE  Out(x)' \subseteq Out(x)
<1>. SUFFICES ASSUME NEW z \in Out(x)' PROVE z \in Out(x)
  OBVIOUS
<1>1. PICK p, i : p \in Invoker /\ i \in DOMAIN dependents[p] /\ z = <<p, i>> /\ dependents[p][i] = x /\ Unsignalled(p, i)'
  BY OutIs
<1>2. Unsignalled(p, i)
  <2>1. CASE status'[p] # "READY"
    BY <1>1, <2>1 DEF Unsignalled
  <2>2. CASE status'[p] = "READY"
    <3>1. PICK f \in Frames' : /\ f.run = p
                               /\ \/ f.pc = "signal"
                                  \/ f.pc = "dependent" /\ i > Len(dependents[p]) - Len(f.todo)
      BY <1>1, <2>2 DEF Unsignalled
    <3>2. Sourced(f)
      BY <3>1
    <3>3. CASE status[p] # "READY"
      BY <3>3 DEF Unsignalled
    <3>4. CASE status[p] = "READY"
      <4>1. PICK e \in Frames : /\ e.run = p
                                /\ \/ e.pc = "signal"
                                   \/ e.pc = "dependent" /\ f.pc = "dependent" /\ Len(f.todo) <= Len(e.todo)
        BY <3>1, <3>2, <3>4 DEF Sourced
      <4>2. CASE e.pc = "signal"
        BY <4>1, <4>2 DEF Unsignalled
      <4>3. CASE e.pc = "dependent" /\ f.pc = "dependent" /\ Len(f.todo) <= Len(e.todo)
        <5>1. e \in FrameRec /\ f \in FrameRec
          <6>1. Frames \subseteq FrameRec
            BY FrameTypes DEF QueueInv
          <6>2. Frames' \subseteq FrameRec
            BY FramesAre DEF QueueInv, QueueTypeOK
          <6>. QED BY <6>1, <6>2
        <5>2. Len(e.todo) \in Nat /\ Len(f.todo) \in Nat
          BY <5>1 DEF FrameRec
        <5>3. dependents[p] \in Seq(Invoker)
          BY <1>1 DEF QueueInv, QueueTypeOK, VarsOK
        <5>4. Len(dependents[p]) \in Nat /\ i \in Nat
          BY <1>1, <5>3
        <5>5. i > Len(dependents[p]) - Len(e.todo)
          <6>1. PICK m, k, l : m = Len(dependents[p]) /\ k = Len(f.todo) /\ l = Len(e.todo)
            OBVIOUS
          <6>2. i > m - k /\ k <= l /\ m \in Nat /\ k \in Nat /\ l \in Nat /\ i \in Nat
            BY <3>1, <4>3, <5>2, <5>4, <6>1
          <6>3. i > m - l
            BY <6>2
          <6>. QED BY <6>1, <6>3
        <5>. QED BY <4>1, <4>3, <5>5 DEF Unsignalled
      <4>. QED BY <4>1, <4>2, <4>3
    <3>. QED BY <3>3, <3>4
  <2>. QED BY <2>1, <2>2
<1>. QED BY <1>1, <1>2, OutIs

LEMMA CountStays ==
  ASSUME QueueInv, QueueInv', Counted, dependents' = dependents,
         \A p \in Invoker : status[p] = "READY" => status'[p] = "READY",
         \A f \in Frames' : Sourced(f),
         \A x \in Invoker : remaining[x] + (IF Counting(x) THEN 1 ELSE 0) <= remaining'[x] + (IF Counting(x)' THEN 1 ELSE 0)
  PROVE  Counted'
<1>. SUFFICES ASSUME NEW x \in Invoker
              PROVE  IsFiniteSet(Out(x)') /\ Cardinality(Out(x)') <= remaining'[x] + (IF Counting(x)' THEN 1 ELSE 0)
  BY DEF Counted
<1>1. /\ IsFiniteSet(Out(x)) /\ Cardinality(Out(x)) <= remaining[x] + (IF Counting(x) THEN 1 ELSE 0)
      /\ remaining[x] \in Int /\ remaining'[x] \in Int
  BY DEF Counted, QueueInv, QueueTypeOK, VarsOK
<1>2. Out(x)' \subseteq Out(x)
  BY OutShrinks
<1>3. PICK A, B, m, n : /\ A = Out(x)' /\ B = Out(x) /\ m = remaining[x] + (IF Counting(x) THEN 1 ELSE 0)
                        /\ n = remaining'[x] + (IF Counting(x)' THEN 1 ELSE 0)
  OBVIOUS
<1>4. IsFiniteSet(B) /\ A \subseteq B /\ Cardinality(B) <= m /\ m <= n
  BY <1>1, <1>2, <1>3
<1>5. m \in Int /\ n \in Int
  BY <1>1, <1>3
<1>6. IsFiniteSet(A) /\ Cardinality(A) <= Cardinality(B) /\ Cardinality(A) \in Nat /\ Cardinality(B) \in Nat
  BY <1>4, FS_Subset, FS_CardinalityType
<1>. QED BY <1>3, <1>4, <1>5, <1>6

\* Nothing is counted for x when its counter is at 0 and no increment is due.
LEMMA CountedOut ==
  ASSUME QueueInv, Counted, NEW x \in Invoker, remaining[x] <= 0, ~Counting(x)
  PROVE  Out(x) = {}
<1>1. IsFiniteSet(Out(x)) /\ Cardinality(Out(x)) <= remaining[x] /\ remaining[x] \in Int
  BY DEF Counted, QueueInv, QueueTypeOK, VarsOK
<1>2. Cardinality(Out(x)) \in Nat
  BY <1>1, FS_CardinalityType
<1>3. Cardinality(Out(x)) = 0
  BY <1>1, <1>2
<1>. QED BY <1>1, <1>3, FS_EmptySet

(***************************************************************************)
(* What a step does to the priors                                          *)
(***************************************************************************)
\* x is not offered or put on hold by this step, and needs what it needed.
Spared(x) == /\ kind'[x] = kind[x] /\ Needs(x)' = Needs(x)
             /\ status'[x] = "ON_HOLD" => status[x] = "ON_HOLD"
             /\ status'[x] \in Offered => status[x] \in Offered

\* The step takes the frames Old away and adds the frames New.
Swaps(Old, New) == Frames' = (Frames \ Old) \cup New

LEMMA PriorStep ==
  ASSUME QueueInv, PriorInv, script' = script, Steady, NEW T \in SUBSET Invoker, NEW Old, NEW New,
         Swaps(Old, New),
         \A x \in Invoker \ T : Spared(x),
         \A x \in T : PriorMet(x)',
         \A e \in Frames \ Old : e.pc \in Claiming => e.tgt \notin T,
         \A e \in New : Registers(e)'
  PROVE  PriorsMet' /\ \A f \in Frames' : Registers(f)'
<1>1. PriorsMet'
  <2>. SUFFICES ASSUME NEW x \in Invoker, x \notin T PROVE PriorMet(x)'
    BY DEF PriorsMet
  <2>1. PriorMet(x) /\ Spared(x)
    BY DEF PriorInv, PriorsMet
  <2>2. ASSUME NEW p \in Needs(x)'
        PROVE  /\ status'[x] = "ON_HOLD" => Met(x, p)'
               /\ status'[x] \in Offered => status'[p] = "READY"
    <3>1. p \in Needs(x) /\ p \in Invoker
      BY <2>1 DEF Spared, Needs
    <3>2. CASE status'[x] = "ON_HOLD"
      BY <2>1, <3>1, <3>2, MetStays DEF Spared, PriorMet, Offered
    <3>3. CASE status'[x] \in Offered
      BY <2>1, <3>1, <3>3 DEF Spared, PriorMet, Steady, Offered
    <3>. QED BY <3>2, <3>3
  <2>. QED BY <2>2 DEF PriorMet
<1>2. ASSUME NEW f \in Frames', f \notin New PROVE Registers(f)'
  <2>1. f \in Frames \ Old /\ Registers(f) /\ FrameGood(f)
    BY <1>2 DEF Swaps, PriorInv, QueueInv, CallsInv, FrameInv
  <2>2. CASE f.pc \notin Claiming
    BY <2>2 DEF Registers, Claiming, Registering
  <2>3. CASE f.pc \in Claiming
    <3>1. f.tgt \in Invoker /\ Spared(f.tgt)
      BY <2>1, <2>3 DEF FrameGood, Claims
    <3>2. Calls(f.run)' = Calls(f.run) /\ CallOf(f)' = CallOf(f)
      BY DEF Calls, CallOf
    <3>3. NeedsOf(f)' = NeedsOf(f) /\ Needs(f.tgt)' = Needs(f.tgt) /\ kind'[f.tgt] = kind[f.tgt]
      BY <3>1, <3>2 DEF NeedsOf, Spared
    <3>4. \A p \in NeedsOf(f) : p \in Invoker
      BY DEF NeedsOf, Needs
    <3>5. f.pc = "controls" => \A p \in Needs(f.tgt) : In(f.todo, p)
      BY <2>1 DEF Registers
    <3>6. f.pc \in Registering => \A p \in NeedsOf(f) : Met(f.tgt, p)' \/ In(f.todo, p)
      BY <2>1, <3>4, MetStays DEF Registers
    <3>7. f.pc = "count" => Met(f.tgt, Head(f.todo))'
      <4>. SUFFICES ASSUME f.pc = "count" PROVE Met(f.tgt, Head(f.todo))'
        OBVIOUS
      <4>1. f.todo # <<>> /\ f.todo \in Seq(Invoker)
        BY <2>1, FrameTypes DEF FrameGood, Claims, Claiming, Registering, QueueInv, FrameRec
      <4>2. Head(f.todo) \in Invoker
        BY <4>1, TailOf
      <4>. QED BY <2>1, <4>2, MetStays DEF Registers
    <3>8. f.pc = "push" => \A p \in Needs(f.tgt) : kind[f.tgt] = "task" => status'[p] = "READY"
      <4>1. \A p \in Needs(f.tgt) : p \in Invoker
        BY DEF Needs
      <4>. QED BY <2>1, <4>1 DEF Registers, Steady
    <3>9. f.pc \in Registering /\ kind[f.tgt] = "waiter" => f.ip <= Len(Calls(f.run)) /\ CallOf(f).call = "wait"
      BY <2>1 DEF Registers
    <3>10. \A s, p : In(s, p)' <=> In(s, p)
      BY DEF In
    <3>. QED BY <3>2, <3>3, <3>5, <3>6, <3>7, <3>8, <3>9 DEF Registers, In
  <2>. QED BY <2>2, <2>3
<1>. QED BY <1>1, <1>2

\* A step that moves no invoker on.
LEMMA SparedAll ==
  ASSUME NEW x \in Invoker, UNCHANGED <<kind, bound, control_futures>>,
         status'[x] = status[x] \/ (status[x] \in Offered /\ status'[x] # "ON_HOLD")
  PROVE  Spared(x)
<1>1. Needs(x)' = Needs(x)
  BY DEF Needs, Earlier, In
<1>. QED BY <1>1 DEF Spared, Offered

LEMMA SteadyStep ==
  ASSUME dependents' = dependents, \A p \in Invoker : status[p] = "READY" => status'[p] = "READY"
  PROVE  Steady
BY DEF Steady

(***************************************************************************)
(* The steps that leave every dependents_ alone                            *)
(***************************************************************************)
LEMMA CountStep ==
  ASSUME QueueInv, QueueInv', Counted, UNCHANGED <<dependents, remaining>>, NEW Old, NEW New,
         Swaps(Old, New),
         \A p \in Invoker : status[p] = "READY" => status'[p] = "READY",
         \A e \in Old : e.pc # "count", \A e \in New : Sourced(e)
  PROVE  Counted'
<1>1. \A f \in Frames' : Sourced(f)
  <2>. SUFFICES ASSUME NEW f \in Frames \ Old PROVE Sourced(f)
    BY DEF Swaps
  <2>1. f \in FrameRec
    BY FrameTypes DEF QueueInv
  <2>2. Len(f.todo) <= Len(f.todo)
    BY <2>1 DEF FrameRec
  <2>. QED BY <2>2 DEF Sourced
<1>2. ASSUME NEW x \in Invoker
      PROVE  remaining[x] + (IF Counting(x) THEN 1 ELSE 0) <= remaining'[x] + (IF Counting(x)' THEN 1 ELSE 0)
  <2>1. remaining[x] \in Int /\ remaining'[x] = remaining[x]
    BY DEF QueueInv, QueueTypeOK, VarsOK
  <2>2. Counting(x) => Counting(x)'
    BY DEF Counting, Swaps
  <2>. QED BY <2>1, <2>2
<1>. QED BY <1>1, <1>2, CountStays

LEMMA PriorsStep ==
  ASSUME QueueInv, QueueInv', PriorInv, Counted', script' = script, UNCHANGED <<kind, bound, control_futures, dependents>>,
         NEW T \in SUBSET Invoker, NEW Old, NEW New, Swaps(Old, New),
         \A p \in Invoker : status[p] = "READY" => status'[p] = "READY",
         \A x \in Invoker \ T : status'[x] = status[x] \/ (status[x] \in Offered /\ status'[x] # "ON_HOLD"),
         \A x \in T : PriorMet(x)',
         \A e \in Frames \ Old : e.pc \in Claiming => e.tgt \notin T,
         \A e \in New : Follows(e) /\ Registers(e)'
  PROVE  PriorInv'
<1>1. Steady
  BY SteadyStep
<1>2. \A x \in Invoker \ T : Spared(x)
  BY SparedAll
<1>3. PriorsMet' /\ \A f \in Frames' : Registers(f)'
  BY <1>1, <1>2, PriorStep
<1>4. Controls'
  BY DEF PriorInv, Controls, In
<1>5. \A f \in Frames' : Follows(f)'
  BY DEF PriorInv, Follows, Swaps
<1>. QED BY <1>3, <1>4, <1>5 DEF PriorInv

\* Where a frame is that neither registers nor signals.
Aside(e) == e.pc \notin Claiming \cup {"signal", "dependent"}

LEMMA AsideFrame ==
  ASSUME NEW e, Aside(e)
  PROVE  Sourced(e) /\ Follows(e) /\ Follows(e)' /\ Registers(e) /\ Registers(e)'
BY DEF Aside, Sourced, Follows, Registers, Claiming, Registering

LEMMA AsidePcs ==
  {"body", "notify", "visit", "try", "take", "block", "start", "finish", "launch", "wake", "control", "spawn", "shrink",
   "dismiss", "join", "destroy", "sync"} \cap (Claiming \cup {"signal", "dependent"}) = {}
BY DEF Claiming, Registering

\* A step that moves no invoker on, but may finish one.
LEMMA NonePriors ==
  ASSUME QueueInv, QueueInv', PriorInv, script' = script, UNCHANGED <<remaining, kind, bound, control_futures, dependents>>,
         NEW Old, NEW New, Swaps(Old, New), \A e \in Old : e.pc # "count",
         \A p \in Invoker : status[p] = "READY" => status'[p] = "READY",
         \A x \in Invoker : status'[x] = status[x] \/ (status[x] \in Offered /\ status'[x] # "ON_HOLD"),
         \A e \in New : Sourced(e) /\ Follows(e) /\ Registers(e)'
  PROVE  PriorInv'
<1>1. Counted'
  BY CountStep DEF PriorInv
<1>2. /\ {} \in SUBSET Invoker /\ \A x \in {} : PriorMet(x)' /\ \A e \in Frames \ Old : e.pc \in Claiming => e.tgt \notin {}
      /\ \A x \in Invoker \ {} : status'[x] = status[x] \/ (status[x] \in Offered /\ status'[x] # "ON_HOLD")
  OBVIOUS
<1>. QED BY <1>1, <1>2, PriorsStep

\* A frame goes on, aside from the futures, or ends.
LEMMA QuietPriors ==
  ASSUME QueueInv, QueueInv', PriorInv, script' = script, UNCHANGED <<status, remaining, kind, bound, control_futures, dependents>>,
         NEW Old, NEW New, Swaps(Old, New), \A e \in Old : e.pc # "count", \A e \in New : Aside(e)
  PROVE  PriorInv'
<1>1. \A e \in New : Sourced(e) /\ Follows(e) /\ Registers(e)'
  BY AsideFrame
<1>. QED BY <1>1, NonePriors

LEMMA GoesPriors ==
  ASSUME QueueInv, QueueInv', PriorInv, UNCHANGED <<remaining, dependents, control_futures>>,
         NEW th, NEW g, Goes(th, g), Top(th).pc # "count", Aside(g)
  PROVE  PriorInv'
<1>1. UNCHANGED <<script, status, kind, bound>> /\ Swaps({Top(th)}, {g})
  BY QuietStep DEF QueueInv, Goes, Quiet, Swaps
<1>2. UNCHANGED <<status, remaining, kind, bound, control_futures, dependents>>
  BY <1>1
<1>3. (\A e \in {Top(th)} : e.pc # "count") /\ \A e \in {g} : Aside(e)
  OBVIOUS
<1>. QED BY <1>1, <1>2, <1>3, QuietPriors

LEMMA EndsPriors ==
  ASSUME QueueInv, QueueInv', PriorInv, UNCHANGED <<status, dependents, control_futures>>,
         NEW th \in Thread, Ends(th), Top(th).pc # "count"
  PROVE  PriorInv'
<1>1. /\ stack[th] # <<>> /\ UNCHANGED <<script, kind, bound, runs, remaining>> /\ Return(th)
  BY DEF Ends, Calm
<1>2. Swaps({Top(th)}, {})
  BY <1>1, QuietReturn DEF QueueInv, Swaps
<1>3. (\A e \in {Top(th)} : e.pc # "count") /\ \A e \in {} : Aside(e)
  OBVIOUS
<1>4. script' = script /\ UNCHANGED <<status, remaining, kind, bound, control_futures, dependents>>
  BY <1>1
<1>. QED BY <1>2, <1>3, <1>4, QuietPriors

LEMMA CallPriors ==
  ASSUME QueueInv, QueueInv', PriorInv, NEW th \in Thread, script' = script,
         \/ Notify(th) \/ Wait(th) \/ WaitReturn(th) \/ FutureWait(th) \/ WaitVisit(th) \/ WaitLock(th)
  PROVE  PriorInv'
<1>. DEFINE f == Top(th)
<1>1. UNCHANGED <<remaining, dependents, control_futures>>
  BY DEF Notify, Wait, WaitReturn, FutureWait, WaitVisit, WaitLock, futureVars, controlVars
<1>2. PICK a \in {"notify", "body", "block", "visit", "try"} : At(th, a)
  BY DEF Notify, Wait, WaitReturn, FutureWait, WaitVisit, WaitLock, AtCall
<1>3. f \in FrameRec /\ f.pc # "count" /\ FrameGood(f)
  BY <1>2, AtFrame
<1>4. PICK g : Goes(th, g) /\ g.pc \in {"body", "visit", "try", "take"}
  <2>1. CASE Notify(th) \/ WaitReturn(th) \/ FutureWait(th)
    <3>1. Goes(th, NextCall(f))
      BY <2>1, CallGoes
    <3>2. NextCall(f).pc = "body"
      BY <1>3, NextCallFrame
    <3>. QED BY <3>1, <3>2
  <2>2. CASE Wait(th)
    <3>1. Goes(th, [f EXCEPT !.pc = "visit", !.todo = CallOf(f).on])
      BY <2>2, CallGoes
    <3>2. [f EXCEPT !.pc = "visit", !.todo = CallOf(f).on].pc = "visit"
      BY <1>3 DEF FrameRec
    <3>. QED BY <3>1, <3>2
  <2>3. CASE WaitVisit(th)
    <3>1. Goes(th, Visited(f, FALSE)) \/ Goes(th, Visited(f, TRUE)) \/ Goes(th, [f EXCEPT !.pc = "try"])
      BY <2>3, WaitVisitGoes
    <3>2. Visited(f, FALSE).pc = "visit" /\ Visited(f, TRUE).pc = "visit" /\ [f EXCEPT !.pc = "try"].pc = "try"
      BY <1>3 DEF FrameRec, Visited
    <3>. QED BY <3>1, <3>2
  <2>4. CASE WaitLock(th)
    <3>1. Goes(th, Visited(f, TRUE)) \/ Goes(th, [f EXCEPT !.pc = "take"])
      BY <2>4, WaitLockKeeps
    <3>2. Visited(f, TRUE).pc = "visit" /\ [f EXCEPT !.pc = "take"].pc = "take"
      BY <1>3 DEF FrameRec, Visited
    <3>. QED BY <3>1, <3>2
  <2>. QED BY <2>1, <2>2, <2>3, <2>4
<1>5. Aside(g)
  BY <1>4, AsidePcs DEF Aside
<1>. QED BY <1>1, <1>3, <1>4, <1>5, GoesPriors

LEMMA PlainPriors ==
  ASSUME QueueInv, QueueInv', PriorInv, NEW th \in Thread, script' = script, PlainStep(th)
  PROVE  PriorInv'
<1>. DEFINE f == Top(th)
<1>1. UNCHANGED <<remaining, dependents, control_futures>>
  BY DEF PlainStep, InvokeNonVoid, ControlSkip, Grow, GrowDone, Shrink, ShrinkSet, ShrinkNotify, ShrinkJoin,
         Destroy, DestroyNotify, DestroySync, futureVars, controlVars
<1>2. PICK g : PlainMove(th, g)
  BY PlainMoves
<1>3. PICK a : At(th, a) /\ (\/ a = "sync" /\ g = NextCall(f)
                            \/ \E p \in PlainPcs : a = p[1] /\ g = [f EXCEPT !.pc = p[2]])
  BY <1>2 DEF PlainMove
<1>4. f \in FrameRec /\ f.pc = a
  BY <1>3, AtFrame
<1>5. a # "count" /\ g.pc \in {"body", "finish", "spawn", "shrink", "dismiss", "join", "destroy", "sync"}
  <2>1. CASE a = "sync" /\ g = NextCall(f)
    BY <1>4, <2>1, NextCallFrame
  <2>2. CASE \E p \in PlainPcs : a = p[1] /\ g = [f EXCEPT !.pc = p[2]]
    <3>1. PICK p \in PlainPcs : a = p[1] /\ g = [f EXCEPT !.pc = p[2]]
      BY <2>2
    <3>2. g.pc = p[2]
      BY <1>4, <3>1 DEF FrameRec
    <3>3. p[1] # "count" /\ p[2] \in {"body", "finish", "spawn", "shrink", "dismiss", "join", "destroy", "sync"}
      BY <3>1 DEF PlainPcs
    <3>. QED BY <3>1, <3>2, <3>3
  <2>. QED BY <1>3, <2>1, <2>2
<1>6. Aside(g)
  BY <1>5, AsidePcs DEF Aside
<1>7. Goes(th, g)
  BY <1>2 DEF PlainMove
<1>. QED BY <1>1, <1>4, <1>5, <1>6, <1>7, GoesPriors

LEMMA StillPriors ==
  ASSUME QueueInv, QueueInv', PriorInv, NEW th \in Thread, script' = script,
         GrowSpawn(th) \/ (th \in Worker /\ (WorkerHold(th) \/ WorkerExit(th)))
  PROVE  PriorInv'
<1>1. UNCHANGED <<status, remaining, kind, bound, control_futures, dependents, stack>>
  BY DEF GrowSpawn, WorkerHold, WorkerExit, futureVars, controlVars
<1>2. Swaps({}, {})
  BY <1>1 DEF Frames, Swaps
<1>3. (\A e \in {} : e.pc # "count") /\ \A e \in {} : Aside(e)
  OBVIOUS
<1>. QED BY <1>1, <1>2, <1>3, QuietPriors

LEMMA SignalDonePriors ==
  ASSUME QueueInv, QueueInv', PriorInv, NEW th \in Thread, script' = script, SignalDone(th) \/ SignalWake(th)
  PROVE  PriorInv'
<1>1. UNCHANGED <<status, remaining, dependents, control_futures>>
  BY DEF SignalDone, SignalWake, futureVars, controlVars
<1>2. Top(th).pc # "count"
  BY DEF SignalDone, SignalWake, At
<1>3. CASE Ends(th)
  BY <1>1, <1>2, <1>3, EndsPriors
<1>4. CASE ~Ends(th)
  <2>1. PICK g : Goes(th, g) /\ g.pc \in {"launch", "wake"}
    BY <1>4, SignalDoneKeeps, SignalWakeKeeps
  <2>2. Aside(g)
    BY <2>1, AsidePcs DEF Aside
  <2>. QED BY <1>1, <1>2, <2>1, <2>2, GoesPriors
<1>. QED BY <1>3, <1>4

(***************************************************************************)
(* The steps that start an invoker or finish one                           *)
(***************************************************************************)
LEMMA StartedPriors ==
  ASSUME QueueInv, NEW t, NEW h, Starts(t, h)
  PROVE  Sourced(h) /\ Follows(h) /\ Registers(h)'
<1>1. /\ t \in Invoker /\ (h = Invocation(t) \/ h = [Invocation(t) EXCEPT !.flag = TRUE])
      /\ status[t] \notin {"RUNNING", "READY"} /\ UNCHANGED <<script, kind, bound>>
  BY DEF Starts
<1>2. h.pc \in {"register", "control", "start", "body"}
  BY <1>1, InvocationFrame
<1>3. CASE kind[t] # "handle"
  <2>1. h.pc \in {"control", "start", "body"}
    BY <1>1, <1>3, InvocationFrame
  <2>2. Aside(h)
    BY <2>1, AsidePcs DEF Aside
  <2>. QED BY <2>2, AsideFrame
<1>4. CASE kind[t] = "handle"
  <2>1. h.pc = "register" /\ h.todo = bound[t].on /\ h.tgt = bound[t].inv
    BY <1>1, <1>4, InvocationFrame
  <2>2. Handled(t, bound[t].inv)
    BY <1>1, <1>4 DEF QueueInv, CallsInv, Handles, Pending
  <2>3. kind'[h.tgt] = "task" /\ bound'[h.tgt] = bound[t]
    BY <1>1, <2>1, <2>2 DEF Handled
  <2>4. ASSUME NEW p \in NeedsOf(h)' PROVE In(h.todo, p)
    <3>1. p \in Needs(h.tgt)'
      BY <2>3, <2>4 DEF NeedsOf
    <3>2. In(bound'[h.tgt].on, p)
      BY <2>3, <3>1 DEF Needs, In
    <3>. QED BY <2>1, <2>3, <3>2
  <2>5. Registers(h)'
    BY <2>1, <2>3, <2>4 DEF Registers, Registering, In
  <2>. QED BY <2>1, <2>5 DEF Sourced, Follows
<1>. QED BY <1>3, <1>4

\* READY is for good in a step that starts an invoker.
LEMMA StartSteady ==
  ASSUME QueueInv, NEW t, NEW h, Starts(t, h)
  PROVE  /\ t \in Invoker /\ status' = [status EXCEPT ![t] = "RUNNING"] /\ UNCHANGED <<script, kind, bound>>
         /\ \A p \in Invoker : status[p] = "READY" => status'[p] = "READY"
         /\ \A x \in Invoker : x # t => status'[x] = status[x]
         /\ status'[t] = "RUNNING"
<1>1. t \in Invoker /\ status[t] \notin {"RUNNING", "READY"} /\ Start(t) /\ UNCHANGED <<script, kind, bound>>
  BY DEF Starts
<1>2. status \in [Invoker -> Status] /\ status' = [status EXCEPT ![t] = "RUNNING"]
  BY <1>1 DEF Start, QueueInv, QueueTypeOK, VarsOK
<1>. QED BY <1>1, <1>2

\* An invoker that is started from the deque.
LEMMA TakenPriors ==
  ASSUME QueueInv, QueueInv', PriorInv, UNCHANGED <<remaining, dependents, control_futures>>,
         NEW t, NEW h, Starts(t, h), status[t] = "ENQUEUED", NEW Old, NEW New, Swaps(Old, New),
         \A e \in Old : e.pc # "count", \A e \in New : e = h \/ Aside(e)
  PROVE  PriorInv'
<1>1. Sourced(h) /\ Follows(h) /\ Registers(h)'
  BY StartedPriors
<1>2. /\ t \in Invoker /\ UNCHANGED <<script, kind, bound>>
      /\ \A p \in Invoker : status[p] = "READY" => status'[p] = "READY"
      /\ \A x \in Invoker : x # t => status'[x] = status[x]
      /\ status'[t] = "RUNNING"
  BY StartSteady
<1>3. \A e \in New : Sourced(e) /\ Follows(e) /\ Registers(e)'
  BY <1>1, AsideFrame
<1>4. \A x \in Invoker : status'[x] = status[x] \/ (status[x] \in Offered /\ status'[x] # "ON_HOLD")
  BY <1>2 DEF Offered
<1>. QED BY <1>2, <1>3, <1>4, NonePriors

LEMMA TakePriors ==
  ASSUME QueueInv, QueueInv', PriorInv, NEW th \in Thread, script' = script,
         WaitTake(th) \/ (th \in Worker /\ WorkerPop(th))
  PROVE  PriorInv'
<1>1. UNCHANGED <<remaining, dependents, control_futures>>
  BY DEF WaitTake, WorkerPop, futureVars, controlVars
<1>2. CASE th \in Worker /\ WorkerPop(th)
  <2>1. PICK t, h : Starts(t, h) /\ status[t] = "ENQUEUED" /\ Frames' = Frames \cup {h}
    BY <1>2, WorkerPopKeeps
  <2>2. Swaps({}, {h}) /\ (\A e \in {} : e.pc # "count") /\ \A e \in {h} : e = h \/ Aside(e)
    BY <2>1 DEF Swaps
  <2>. QED BY <1>1, <2>1, <2>2, TakenPriors
<1>3. CASE WaitTake(th)
  <2>. DEFINE f == Top(th)
  <2>1. At(th, "take")
    BY <1>3, WaitTakeKeeps
  <2>2. f \in FrameRec /\ f.pc = "take"
    BY <2>1, AtFrame
  <2>3. Visited(f, FALSE).pc = "visit" /\ Visited(f, TRUE).pc = "visit"
    BY <2>2 DEF FrameRec, Visited
  <2>4. Aside(Visited(f, FALSE)) /\ Aside(Visited(f, TRUE))
    BY <2>3, AsidePcs DEF Aside
  <2>5. CASE Goes(th, Visited(f, TRUE))
    BY <1>1, <2>2, <2>4, <2>5, GoesPriors
  <2>6. CASE ~Goes(th, Visited(f, TRUE))
    <3>1. PICK t, h : Starts(t, h) /\ status[t] = "ENQUEUED" /\ Frames' = (Frames \ {f}) \cup {Visited(f, FALSE), h}
      BY <1>3, <2>6, WaitTakeKeeps
    <3>2. PICK g : g = Visited(f, FALSE) /\ Aside(g)
      BY <2>4
    <3>3. Swaps({f}, {g, h}) /\ (\A e \in {f} : e.pc # "count") /\ \A e \in {g, h} : e = h \/ Aside(e)
      BY <2>2, <3>1, <3>2 DEF Swaps
    <3>. QED BY <1>1, <3>1, <3>3, TakenPriors
  <2>. QED BY <2>5, <2>6
<1>. QED BY <1>2, <1>3

LEMMA FinishPriors ==
  ASSUME QueueInv, QueueInv', PriorInv, NEW th \in Thread, script' = script, Finish(th)
  PROVE  PriorInv'
<1>0. PICK f, g : f = Top(th) /\ g = [Top(th) EXCEPT !.pc = "signal"]
  OBVIOUS
<1>1. UNCHANGED <<remaining, dependents, kind, bound, control_futures>>
  BY DEF Finish, futureVars, controlVars
<1>2. /\ f \in Frames /\ f.pc \in {"finish", "body"} /\ f.run \in Invoker /\ status' = [status EXCEPT ![f.run] = "READY"]
      /\ status[f.run] = "RUNNING" /\ (Frames' = Frames \ {f} \/ (g \in FrameRec /\ Frames' = (Frames \ {f}) \cup {g}))
  BY <1>0, FinishKeeps
<1>3. f \in FrameRec /\ status \in [Invoker -> Status]
  BY <1>2, FrameTypes DEF QueueInv, QueueTypeOK, VarsOK
<1>4. g.run = f.run /\ g.pc = "signal"
  BY <1>0, <1>3 DEF FrameRec
<1>5. Sourced(g) /\ Follows(g) /\ Registers(g)'
  BY <1>2, <1>4 DEF Sourced, Follows, Registers, Registering
<1>6. PICK New : Swaps({f}, New) /\ \A e \in New : e = g
  <2>1. Swaps({f}, {}) \/ Swaps({f}, {g})
    BY <1>2 DEF Swaps
  <2>2. (\A e \in {} : e = g) /\ \A e \in {g} : e = g
    OBVIOUS
  <2>. QED BY <2>1, <2>2
<1>7. /\ \A p \in Invoker : status[p] = "READY" => status'[p] = "READY"
      /\ \A x \in Invoker : status'[x] = status[x] \/ (status[x] \in Offered /\ status'[x] # "ON_HOLD")
  <2>1. \A x \in Invoker : status'[x] = IF x = f.run THEN "READY" ELSE status[x]
    BY <1>2, <1>3
  <2>2. status[f.run] \in Offered
    BY <1>2 DEF Offered
  <2>. QED BY <2>1, <2>2
<1>8. \A e \in New : Sourced(e) /\ Follows(e) /\ Registers(e)'
  BY <1>5, <1>6
<1>9. \A e \in {f} : e.pc # "count"
  BY <1>2
<1>. QED BY <1>1, <1>6, <1>7, <1>8, <1>9, NonePriors

LEMMA SignalPriors ==
  ASSUME QueueInv, QueueInv', PriorInv, NEW th \in Thread, script' = script, Signal(th)
  PROVE  PriorInv'
<1>1. UNCHANGED <<status, remaining, dependents, kind, bound, control_futures>> /\ At(th, "signal")
  BY DEF Signal, futureVars, controlVars
<1>2. PICK f : f = Top(th) /\ f \in Frames /\ f \in FrameRec /\ f.pc = "signal" /\ FrameGood(f)
  BY <1>1, AtFrame
<1>3. PICK g : Goes(th, g) /\ g.pc = "dependent" /\ g.todo = dependents[f.run]
  BY <1>2, SignalKeeps
<1>4. g.run = f.run /\ Swaps({f}, {g})
  BY <1>2, <1>3, QuietStep DEF QueueInv, Goes, Quiet, Swaps
<1>5. f.run \in Invoker
  BY <1>2 DEF FrameGood, Running, Invoking, Ending
<1>6. Sourced(g) /\ Registers(g)'
  BY <1>2, <1>3, <1>4 DEF Sourced, Registers, Registering
<1>7. Follows(g)
  <2>1. PICK l, n : l = dependents[f.run] /\ n = Len(l) /\ l \in Seq(Invoker) /\ n \in Nat /\ DOMAIN l = 1 .. n
    <3>1. dependents[f.run] \in Seq(Invoker)
      BY <1>5 DEF QueueInv, QueueTypeOK, VarsOK
    <3>. QED BY <3>1
  <2>2. Len(g.todo) <= n /\ \A i \in DOMAIN g.todo : g.todo[i] = l[n - Len(g.todo) + i]
    <3>1. g.todo = l /\ Len(g.todo) = n /\ \A i \in 1 .. n : n - n + i = i
      BY <1>3, <2>1
    <3>. QED BY <2>1, <3>1
  <2>. QED BY <1>4, <2>1, <2>2 DEF Follows
<1>8. (\A e \in {f} : e.pc # "count") /\ \A e \in {g} : Sourced(e) /\ Follows(e) /\ Registers(e)'
  BY <1>2, <1>6, <1>7
<1>. QED BY <1>1, <1>4, <1>8, NonePriors

\* The step moves the invoker t on, which the frame f has for itself.
LEMMA ClaimedPriors ==
  ASSUME QueueInv, QueueInv', PriorInv, script' = script, UNCHANGED <<remaining, kind, bound, control_futures, dependents>>,
         NEW f \in Frames, f.pc \in Claiming, f.pc # "count", NEW s \in Status,
         status' = [status EXCEPT ![f.tgt] = s], PriorMet(f.tgt)',
         NEW New, Swaps({f}, New), \A e \in New : Sourced(e) /\ Follows(e) /\ Registers(e)'
  PROVE  PriorInv'
<1>1. PICK t : t = f.tgt
  OBVIOUS
<1>2. t \in Invoker /\ status[t] = "CONSTRUCTING" /\ \A e \in Frames \ {f} : Untouched({t}, e)
  BY <1>1, ClaimedIsFree
<1>3. status \in [Invoker -> Status] /\ status' = [status EXCEPT ![t] = s] /\ PriorMet(t)'
  BY <1>1 DEF QueueInv, QueueTypeOK, VarsOK
<1>4. \A x \in Invoker : x # t => status'[x] = status[x]
  BY <1>3
<1>5. \A p \in Invoker : status[p] = "READY" => status'[p] = "READY"
  BY <1>2, <1>4
<1>6. /\ {t} \in SUBSET Invoker /\ \A x \in {t} : PriorMet(x)'
      /\ \A e \in Frames \ {f} : e.pc \in Claiming => e.tgt \notin {t}
      /\ \A x \in Invoker \ {t} : status'[x] = status[x] \/ (status[x] \in Offered /\ status'[x] # "ON_HOLD")
      /\ \A e \in {f} : e.pc # "count"
  BY <1>2, <1>3, <1>4 DEF Untouched
<1>7. Counted'
  BY <1>5, <1>6, CountStep DEF PriorInv
<1>. QED BY <1>5, <1>6, <1>7, PriorsStep

\* What a claimed invoker needs is ready when it is pushed.
LEMMA ClaimedReady ==
  ASSUME QueueInv, PriorInv, NEW f \in Frames, f.pc = "push" \/ (f.pc = "controls" /\ ~must_wait(f.todo))
  PROVE  \A p \in Needs(f.tgt) : status[p] = "READY"
<1>1. Registers(f) /\ FrameGood(f)
  BY DEF PriorInv, QueueInv, CallsInv, FrameInv
<1>2. CASE f.pc = "push"
  <2>1. kind[f.tgt] \in {"task", "handle"}
    BY <1>1, <1>2 DEF FrameGood, Claims, Claiming
  <2>2. kind[f.tgt] = "handle" => Needs(f.tgt) = {}
    BY DEF Needs
  <2>. QED BY <1>1, <1>2, <2>1, <2>2 DEF Registers
<1>3. CASE f.pc = "controls" /\ ~must_wait(f.todo)
  <2>1. \A p \in Needs(f.tgt) : In(f.todo, p)
    BY <1>1, <1>3 DEF Registers
  <2>2. \A p : In(f.todo, p) => status[p] = "READY"
    BY <1>3 DEF must_wait, In
  <2>. QED BY <2>1, <2>2
<1>. QED BY <1>2, <1>3

\* An invoker that needs nothing any more may be put into any place.
LEMMA ReadyPriors ==
  ASSUME UNCHANGED <<kind, bound, control_futures>>, NEW t,
         \A p \in Invoker : status[p] = "READY" => status'[p] = "READY",
         \A p \in Needs(t) : status[p] = "READY"
  PROVE  PriorMet(t)'
<1>1. Needs(t)' = Needs(t)
  BY DEF Needs, Earlier, In
<1>2. \A p \in Needs(t) : p \in Invoker
  BY DEF Needs
<1>3. \A p \in Needs(t) : status'[p] = "READY" /\ Met(t, p)'
  BY <1>2 DEF Met
<1>. QED BY <1>1, <1>3 DEF PriorMet

LEMMA EnqueuePriors ==
  ASSUME QueueInv, QueueInv', PriorInv, NEW th \in Thread, script' = script, EnqueueStep(th)
  PROVE  PriorInv'
<1>1. PICK f, g : f = Top(th) /\ g = [Top(th) EXCEPT !.pc = "notify"]
  OBVIOUS
<1>2. /\ status' = [status EXCEPT ![f.tgt] = "ENQUEUED"]
      /\ At(th, "push") \/ (At(th, "controls") /\ ~must_wait(f.todo))
      /\ UNCHANGED <<remaining, kind, bound, control_futures, dependents>>
      /\ g \in FrameRec /\ Frames' = (Frames \ {f}) \cup {g}
  BY <1>1, EnqueueKeeps DEF futureVars, controlVars
<1>3. f \in Frames /\ f \in FrameRec /\ (f.pc = "push" \/ (f.pc = "controls" /\ ~must_wait(f.todo)))
  BY <1>1, <1>2, AtFrame
<1>4. f.pc \in Claiming /\ f.pc # "count" /\ "ENQUEUED" \in Status
  BY <1>3 DEF Claiming, Status
<1>5. PICK t : t = f.tgt /\ t \in Invoker /\ status[t] = "CONSTRUCTING"
  BY <1>3, <1>4, ClaimedIsFree
<1>6. \A p \in Invoker : status[p] = "READY" => status'[p] = "READY"
  BY <1>2, <1>5 DEF QueueInv, QueueTypeOK, VarsOK
<1>7. PriorMet(t)'
  <2>1. \A p \in Needs(t) : status[p] = "READY"
    BY <1>3, <1>5, ClaimedReady
  <2>. QED BY <1>2, <1>6, <2>1, ReadyPriors
<1>8. g.pc = "notify"
  BY <1>1, <1>3 DEF FrameRec
<1>9. Aside(g)
  BY <1>8, AsidePcs DEF Aside
<1>10. Swaps({f}, {g}) /\ \A e \in {g} : Sourced(e) /\ Follows(e) /\ Registers(e)'
  BY <1>2, <1>9, AsideFrame DEF Swaps
<1>11. PriorMet(f.tgt)'
  BY <1>5, <1>7
<1>. QED BY <1>2, <1>3, <1>4, <1>10, <1>11, ClaimedPriors

LEMMA ControlInlinePriors ==
  ASSUME QueueInv, QueueInv', PriorInv, NEW th \in Thread, script' = script, ControlInline(th)
  PROVE  PriorInv'
<1>1. PICK f, g : f = Top(th) /\ g = NextCall(Top(th))
  OBVIOUS
<1>2. PICK h : /\ At(th, "controls") /\ ~must_wait(f.todo) /\ Starts(f.tgt, h)
               /\ UNCHANGED <<remaining, dependents, kind, bound>> /\ Frames' = (Frames \ {f}) \cup {g, h}
  BY <1>1, ControlInlineKeeps
<1>3. control_futures' = control_futures
  BY DEF ControlInline, controlVars
<1>4. f \in Frames /\ f \in FrameRec /\ f.pc = "controls"
  BY <1>1, <1>2, AtFrame
<1>5. f.pc \in Claiming /\ f.pc # "count" /\ "RUNNING" \in Status
  BY <1>4 DEF Claiming, Status
<1>6. PICK t : t = f.tgt
  OBVIOUS
<1>7. status' = [status EXCEPT ![t] = "RUNNING"] /\ \A p \in Invoker : status[p] = "READY" => status'[p] = "READY"
  BY <1>2, <1>6, StartSteady
<1>8. PriorMet(t)'
  <2>1. \A p \in Needs(t) : status[p] = "READY"
    BY <1>2, <1>4, <1>6, ClaimedReady
  <2>. QED BY <1>2, <1>3, <1>7, <2>1, ReadyPriors
<1>9. Sourced(h) /\ Follows(h) /\ Registers(h)'
  BY <1>2, StartedPriors
<1>10. g.pc = "body"
  BY <1>1, <1>4, NextCallFrame
<1>11. Aside(g)
  BY <1>10, AsidePcs DEF Aside
<1>12. Swaps({f}, {g, h}) /\ \A e \in {g, h} : Sourced(e) /\ Follows(e) /\ Registers(e)'
  BY <1>2, <1>9, <1>11, AsideFrame DEF Swaps
<1>13. PriorMet(f.tgt)' /\ status' = [status EXCEPT ![f.tgt] = "RUNNING"]
  BY <1>6, <1>7, <1>8
<1>. QED BY <1>2, <1>3, <1>4, <1>5, <1>12, <1>13, ClaimedPriors

(***************************************************************************)
(* The end of a registration and the last signal                           *)
(***************************************************************************)
LEMMA SettledMet ==
  ASSUME QueueInv, PriorInv, NEW f \in Frames, f.pc = "register", f.todo = <<>>
  PROVE  /\ \A p \in Needs(f.tgt) : Met(f.tgt, p)
         /\ remaining[f.tgt] <= 0 => \A p \in Needs(f.tgt) : status[p] = "READY"
<1>. DEFINE t == f.tgt
<1>1. f.pc \in Claiming /\ f.pc \in Registering
  BY DEF Claiming, Registering
<1>2. t \in Invoker /\ \A e \in Frames \ {f} : Untouched({t}, e)
  BY <1>1, ClaimedIsFree
<1>3. \A p \in Needs(t) : Met(t, p)
  <2>1. kind[t] = "waiter" => Needs(t) = {}
    BY DEF Needs
  <2>2. kind[t] # "waiter" => NeedsOf(f) = Needs(t)
    BY DEF NeedsOf
  <2>3. \A p : ~In(f.todo, p)
    BY DEF In
  <2>4. Registers(f)
    BY DEF PriorInv
  <2>. QED BY <1>1, <2>1, <2>2, <2>3, <2>4 DEF Registers
<1>4. ASSUME remaining[t] <= 0, NEW p \in Needs(t) PROVE status[p] = "READY"
  <2>1. ~Counting(t)
    BY <1>2 DEF Counting, Untouched, Claiming, Registering
  <2>2. Out(t) = {}
    BY <1>2, <1>4, <2>1, CountedOut DEF PriorInv
  <2>. QED BY <1>3, <1>4, <2>2, NothingOut
<1>. QED BY <1>3, <1>4

LEMMA SettlePriors ==
  ASSUME QueueInv, QueueInv', PriorInv, NEW th \in Thread, script' = script, RegisterSettle(th)
  PROVE  PriorInv'
<1>1. PICK f, g : f = Top(th) /\ g = Registered(Top(th))
  OBVIOUS
<1>2. PICK t : t = f.tgt
  OBVIOUS
<1>3. /\ At(th, "register") /\ f.todo = <<>>
      /\ \/ /\ status' = [status EXCEPT ![t] = "ON_HOLD"] /\ Frames' = (Frames \ {f}) \cup {g}
         \/ /\ remaining[t] = 0 /\ \E h : Starts(t, h) /\ Frames' = (Frames \ {f}) \cup {g, h}
  BY <1>1, <1>2, RegisterSettleKeeps
<1>4. UNCHANGED <<remaining, kind, bound, control_futures, dependents>>
  BY DEF RegisterSettle, futureVars, controlVars
<1>5. f \in Frames /\ f \in FrameRec /\ f.pc = "register"
  BY <1>1, <1>3, AtFrame
<1>6. f.pc \in Claiming /\ f.pc # "count" /\ "RUNNING" \in Status /\ "ON_HOLD" \in Status
  BY <1>5 DEF Claiming, Registering, Status
<1>7. t \in Invoker /\ status[t] = "CONSTRUCTING" /\ status \in [Invoker -> Status]
  BY <1>2, <1>5, <1>6, ClaimedIsFree DEF QueueInv, QueueTypeOK, VarsOK
<1>8. /\ \A p \in Needs(t) : Met(t, p)
      /\ remaining[t] <= 0 => \A p \in Needs(t) : status[p] = "READY"
  BY <1>2, <1>3, <1>5, SettledMet
<1>9. g.pc \in {"block", "body", "finish"}
  BY <1>1, <1>5, RegisteredFrame
<1>10. Aside(g)
  BY <1>9, AsidePcs DEF Aside
<1>11. CASE status' = [status EXCEPT ![t] = "ON_HOLD"] /\ Frames' = (Frames \ {f}) \cup {g}
  <2>1. \A p \in Invoker : status[p] = "READY" => status'[p] = "READY"
    BY <1>7, <1>11
  <2>2. PriorMet(t)'
    <3>1. Needs(t)' = Needs(t)
      BY <1>4 DEF Needs, Earlier, In
    <3>2. \A p \in Needs(t) : p \in Invoker
      BY DEF Needs
    <3>3. Steady
      BY <1>4, <2>1, SteadyStep
    <3>4. \A p \in Needs(t) : Met(t, p)'
      BY <1>8, <3>2, <3>3, MetStays
    <3>5. status'[t] \notin Offered
      BY <1>7, <1>11 DEF Offered
    <3>. QED BY <3>1, <3>4, <3>5 DEF PriorMet
  <2>3. Swaps({f}, {g}) /\ \A e \in {g} : Sourced(e) /\ Follows(e) /\ Registers(e)'
    BY <1>10, <1>11, AsideFrame DEF Swaps
  <2>4. PriorMet(f.tgt)' /\ status' = [status EXCEPT ![f.tgt] = "ON_HOLD"]
    BY <1>2, <1>11, <2>2
  <2>. QED BY <1>4, <1>5, <1>6, <2>3, <2>4, ClaimedPriors
<1>12. CASE remaining[t] = 0 /\ \E h : Starts(t, h) /\ Frames' = (Frames \ {f}) \cup {g, h}
  <2>1. PICK h : Starts(t, h) /\ Frames' = (Frames \ {f}) \cup {g, h}
    BY <1>12
  <2>2. status' = [status EXCEPT ![t] = "RUNNING"] /\ \A p \in Invoker : status[p] = "READY" => status'[p] = "READY"
    BY <2>1, StartSteady
  <2>3. PriorMet(t)'
    <3>1. \A p \in Needs(t) : status[p] = "READY"
      BY <1>8, <1>12
    <3>. QED BY <1>4, <2>2, <3>1, ReadyPriors
  <2>4. Sourced(h) /\ Follows(h) /\ Registers(h)'
    BY <2>1, StartedPriors
  <2>5. Swaps({f}, {g, h}) /\ \A e \in {g, h} : Sourced(e) /\ Follows(e) /\ Registers(e)'
    BY <1>10, <2>1, <2>4, AsideFrame DEF Swaps
  <2>6. PriorMet(f.tgt)' /\ status' = [status EXCEPT ![f.tgt] = "RUNNING"]
    BY <1>2, <2>2, <2>3
  <2>. QED BY <1>4, <1>5, <1>6, <2>5, <2>6, ClaimedPriors
<1>. QED BY <1>3, <1>11, <1>12

LEMMA LaunchPriors ==
  ASSUME QueueInv, QueueInv', PriorInv, NEW th \in Thread, script' = script, SignalLaunch(th)
  PROVE  PriorInv'
<1>1. PICK f, g, l : f = Top(th) /\ g = [Top(th) EXCEPT !.pc = "wake"] /\ l = f.launch
  OBVIOUS
<1>2. /\ At(th, "launch") /\ Frames' = (Frames \ {f}) \cup {g}
      /\ l \in Seq(Invoker)
      /\ \A i \in DOMAIN l : status[l[i]] = "ON_HOLD" /\ remaining[l[i]] <= 0 /\ l[i] \in Invoker
      /\ status' = [x \in Invoker |-> IF In(l, x) THEN "ENQUEUED" ELSE status[x]]
  BY <1>1, SignalLaunchKeeps
<1>3. UNCHANGED <<remaining, kind, bound, control_futures, dependents>>
  BY DEF SignalLaunch, futureVars, controlVars
<1>4. f \in Frames /\ f \in FrameRec /\ f.pc = "launch"
  BY <1>1, <1>2, AtFrame
<1>5. PICK T : T = {x \in Invoker : In(l, x)}
  OBVIOUS
<1>6. \A t \in T : t \in Invoker /\ status[t] = "ON_HOLD" /\ remaining[t] <= 0
  BY <1>2, <1>5 DEF In
<1>7. \A e \in Frames : e.pc \in Claiming => status[e.tgt] = "CONSTRUCTING"
  BY DEF QueueInv, CallsInv, FrameInv, FrameGood, Claims
<1>8. \A e \in Frames : e.pc \in Claiming => e.tgt \notin T
  BY <1>6, <1>7
<1>9. \A x \in Invoker \ T : status'[x] = status[x]
  BY <1>2, <1>5
<1>10. \A p \in Invoker : status[p] = "READY" => status'[p] = "READY"
  BY <1>6, <1>9
<1>11. ASSUME NEW t \in T PROVE PriorMet(t)'
  <2>1. t \in Invoker /\ status[t] = "ON_HOLD" /\ remaining[t] <= 0
    BY <1>6
  <2>2. ~Counting(t)
    BY <1>8 DEF Counting, Claiming, Registering
  <2>3. Out(t) = {}
    BY <2>1, <2>2, CountedOut DEF PriorInv
  <2>4. PriorMet(t)
    BY <2>1 DEF PriorInv, PriorsMet
  <2>5. \A p \in Needs(t) : status[p] = "READY"
    BY <2>1, <2>3, <2>4, NothingOut DEF PriorMet
  <2>. QED BY <1>3, <1>10, <2>5, ReadyPriors
<1>12. g.pc = "wake"
  BY <1>1, <1>4 DEF FrameRec
<1>13. Aside(g)
  BY <1>12, AsidePcs DEF Aside
<1>14. Swaps({f}, {g}) /\ \A e \in {g} : Sourced(e) /\ Follows(e) /\ Registers(e)'
  BY <1>2, <1>13, AsideFrame DEF Swaps
<1>15. \A e \in {f} : e.pc # "count"
  BY <1>4
<1>16. Counted'
  BY <1>3, <1>10, <1>14, <1>15, CountStep DEF PriorInv
<1>17. /\ T \in SUBSET Invoker /\ \A x \in T : PriorMet(x)' /\ \A e \in Frames \ {f} : e.pc \in Claiming => e.tgt \notin T
       /\ \A x \in Invoker \ T : status'[x] = status[x] \/ (status[x] \in Offered /\ status'[x] # "ON_HOLD")
  BY <1>5, <1>8, <1>9, <1>11
<1>. QED BY <1>3, <1>10, <1>14, <1>16, <1>17, PriorsStep

(***************************************************************************)
(* A signal                                                                *)
(***************************************************************************)
\* An entry less is outstanding for x, and the counter is one less.
LEMMA OneLess ==
  ASSUME NEW A, NEW B, NEW z, IsFiniteSet(B), A \subseteq B \ {z}, z \in B, NEW m \in Int, Cardinality(B) <= m
  PROVE  IsFiniteSet(A) /\ Cardinality(A) <= m - 1
<1>1. PICK C : C = B \ {z}
  OBVIOUS
<1>2. IsFiniteSet(C) /\ Cardinality(C) = Cardinality(B) - 1
  BY <1>1, FS_RemoveElement
<1>3. IsFiniteSet(A) /\ Cardinality(A) <= Cardinality(C)
  BY <1>1, <1>2, FS_Subset
<1>4. Cardinality(A) \in Nat /\ Cardinality(B) \in Nat /\ Cardinality(C) \in Nat
  BY <1>2, <1>3, FS_CardinalityType
<1>. QED BY <1>2, <1>3, <1>4

LEMMA NoneLeft ==
  ASSUME NEW A, IsFiniteSet(A), NEW m \in Int, Cardinality(A) <= m, m <= 0
  PROVE  A = {}
<1>1. Cardinality(A) \in Nat
  BY FS_CardinalityType
<1>2. Cardinality(A) = 0
  BY <1>1
<1>. QED BY <1>2, FS_EmptySet

\* The entry that the frame f of the invoker p signals next.
LEMMA NextEntry ==
  ASSUME QueueInv, PriorInv, NEW th \in Thread, stack[th] # <<>>, NEW f, f = Top(th), f.pc = "dependent", f.todo # <<>>
  PROVE  LET p == f.run d == Head(f.todo) n == Len(dependents[f.run]) - Len(f.todo) + 1 IN
         /\ p \in Invoker /\ d \in Invoker /\ status[p] = "READY" /\ n \in DOMAIN dependents[p] /\ dependents[p][n] = d
         /\ <<p, n>> \in Out(d)
<1>1. f \in Frames /\ f \in FrameRec /\ FrameGood(f) /\ Follows(f)
  BY TopIsGood DEF QueueInv, PriorInv
<1>2. f.run \in Invoker /\ status[f.run] = "READY"
  BY <1>1 DEF FrameGood, Running, Invoking, Ending
<1>3. PICK p, l, m, k : p = f.run /\ l = dependents[p] /\ m = Len(l) /\ k = Len(f.todo)
  OBVIOUS
<1>4. l \in Seq(Invoker) /\ f.todo \in Seq(Invoker)
  BY <1>1, <1>2, <1>3 DEF QueueInv, QueueTypeOK, VarsOK, FrameRec
<1>5. m \in Nat /\ k \in Nat \ {0} /\ DOMAIN l = 1 .. m /\ DOMAIN f.todo = 1 .. k /\ Head(f.todo) = f.todo[1] /\ Head(f.todo) \in Invoker
  BY <1>3, <1>4, TailOf
<1>6. k <= m /\ f.todo[1] = l[m - k + 1]
  <2>1. k <= m /\ \A i \in DOMAIN f.todo : f.todo[i] = l[m - k + i]
    BY <1>1, <1>3 DEF Follows
  <2>2. 1 \in DOMAIN f.todo
    BY <1>5
  <2>. QED BY <2>1, <2>2
<1>7. PICK n : n = m - k + 1
  OBVIOUS
<1>8. n \in 1 .. m /\ n > m - k
  BY <1>5, <1>6, <1>7
<1>9. Unsignalled(p, n)
  BY <1>1, <1>3, <1>8 DEF Unsignalled
<1>10. <<p, n>> \in Out(Head(f.todo))
  BY <1>2, <1>3, <1>5, <1>6, <1>7, <1>8, <1>9, OutIs
<1>. QED BY <1>2, <1>3, <1>5, <1>6, <1>7, <1>8, <1>10

\* The frame f signals d and becomes g; New are g and the frame that may be started.
SignalsOne(th, f, d, g, New) ==
  /\ th \in Thread /\ stack[th] # <<>> /\ f = Top(th) /\ f.pc = "dependent" /\ f.todo # <<>> /\ d = Head(f.todo)
  /\ remaining' = [remaining EXCEPT ![d] = @ - 1] /\ dependents' = dependents
  /\ \A p \in Invoker : status[p] = "READY" => status'[p] = "READY"
  /\ g \in FrameRec /\ g.run = f.run /\ g.pc = "dependent" /\ g.todo = Tail(f.todo)
  /\ Swaps({f}, New) /\ \A e \in New : e = g \/ (e.run # f.run /\ Sourced(e))

LEMMA SignalCounts ==
  ASSUME QueueInv, QueueInv', PriorInv, NEW th, NEW f, NEW d, NEW g, NEW New, SignalsOne(th, f, d, g, New)
  PROVE  /\ Counted' /\ d \in Invoker
         /\ remaining[d] = 1 /\ ~Counting(d) => Out(d)' = {}
<1>. /\ th \in Thread /\ stack[th] # <<>> /\ f = Top(th) /\ f.pc = "dependent" /\ f.todo # <<>> /\ d = Head(f.todo)
     /\ remaining' = [remaining EXCEPT ![d] = @ - 1] /\ dependents' = dependents
     /\ \A p \in Invoker : status[p] = "READY" => status'[p] = "READY"
     /\ g \in FrameRec /\ g.run = f.run /\ g.pc = "dependent" /\ g.todo = Tail(f.todo)
     /\ Swaps({f}, New) /\ \A e \in New : e = g \/ (e.run # f.run /\ Sourced(e))
  BY DEF SignalsOne
<1>1. PICK p, n : /\ p = f.run /\ p \in Invoker /\ d \in Invoker /\ status[p] = "READY"
                  /\ n = Len(dependents[p]) - Len(f.todo) + 1
                  /\ n \in DOMAIN dependents[p] /\ dependents[p][n] = d /\ <<p, n>> \in Out(d)
  BY NextEntry
<1>2. /\ f \in FrameRec /\ f \in Frames
      /\ \A e \in Frames \ {f} : e.run # p
  BY <1>1, TopIsGood DEF QueueInv
<1>3. PICK m, k : m = Len(dependents[p]) /\ k = Len(f.todo) /\ m \in Nat /\ k \in Nat /\ Len(g.todo) = k - 1 /\ n = m - k + 1
  <2>1. dependents[p] \in Seq(Invoker) /\ f.todo \in Seq(Invoker)
    BY <1>1, <1>2 DEF QueueInv, QueueTypeOK, VarsOK, FrameRec
  <2>2. Len(dependents[p]) \in Nat /\ Len(f.todo) \in Nat /\ Len(Tail(f.todo)) = Len(f.todo) - 1
    BY <2>1, TailOf
  <2>. QED BY <1>1, <2>2
<1>4. \A e \in Frames' : Sourced(e)
  <2>1. Sourced(g)
    BY <1>2, <1>3 DEF Sourced
  <2>2. ASSUME NEW e \in Frames \ {f} PROVE Sourced(e)
    <3>1. e \in FrameRec
      BY FrameTypes DEF QueueInv
    <3>2. Len(e.todo) <= Len(e.todo)
      BY <3>1 DEF FrameRec
    <3>. QED BY <3>2 DEF Sourced
  <2>. QED BY <2>1, <2>2 DEF Swaps
<1>5. <<p, n>> \notin Out(d)'
  <2>. SUFFICES ASSUME <<p, n>> \in Out(d)' PROVE FALSE
    OBVIOUS
  <2>1. Unsignalled(p, n)'
    <3>1. PICK r, i : <<p, n>> = <<r, i>> /\ Unsignalled(r, i)'
      BY OutIs
    <3>. QED BY <3>1
  <2>2. status'[p] = "READY"
    BY <1>1
  <2>3. PICK e \in Frames' : e.run = p /\ (e.pc = "signal" \/ (e.pc = "dependent" /\ n > Len(dependents[p]) - Len(e.todo)))
    BY <2>1, <2>2 DEF Unsignalled
  <2>4. e = g
    BY <1>1, <1>2, <2>3 DEF Swaps
  <2>5. n > m - (k - 1)
    BY <1>3, <2>3, <2>4
  <2>6. m \in Nat /\ k \in Nat /\ n = m - k + 1
    BY <1>3
  <2>. QED BY <2>5, <2>6
<1>6. Out(d)' \subseteq Out(d) \ {<<p, n>>}
  BY <1>1, <1>4, <1>5, OutShrinks
<1>7. /\ remaining \in [Invoker -> Int] /\ remaining'[d] = remaining[d] - 1
      /\ \A x \in Invoker : x # d => remaining'[x] = remaining[x]
  BY <1>1 DEF QueueInv, QueueTypeOK, VarsOK
<1>8. \A x : Counting(x) => Counting(x)'
  BY DEF Counting, Swaps
<1>0. PICK u : u = remaining[d] + (IF Counting(d) THEN 1 ELSE 0)
  OBVIOUS
<1>9. IsFiniteSet(Out(d)') /\ Cardinality(Out(d)') <= u - 1 /\ u \in Int
  <2>1. PICK A, B, z : A = Out(d)' /\ B = Out(d) /\ z = <<p, n>>
    OBVIOUS
  <2>2. IsFiniteSet(B) /\ A \subseteq B \ {z} /\ z \in B /\ Cardinality(B) <= u
    BY <1>0, <1>1, <1>6, <2>1 DEF PriorInv, Counted
  <2>3. u \in Int
    BY <1>0, <1>1, <1>7
  <2>4. IsFiniteSet(A) /\ Cardinality(A) <= u - 1
    BY <2>2, <2>3, OneLess
  <2>. QED BY <2>1, <2>3, <2>4
<1>10. Counted'
  <2>. SUFFICES ASSUME NEW x \in Invoker
                PROVE  IsFiniteSet(Out(x)') /\ Cardinality(Out(x)') <= remaining'[x] + (IF Counting(x)' THEN 1 ELSE 0)
    BY DEF Counted
  <2>1. PICK A, b, c, i, j : /\ A = Out(x)' /\ b = (IF Counting(x) THEN 1 ELSE 0) /\ c = (IF Counting(x)' THEN 1 ELSE 0)
                             /\ i = remaining[x] /\ j = remaining'[x]
    OBVIOUS
  <2>2. i \in Int /\ b \in {0, 1} /\ c \in {0, 1} /\ b <= c
    BY <1>7, <1>8, <2>1
  <2>3. CASE x = d
    <3>0. IsFiniteSet(A) /\ j = i - 1
      BY <1>7, <1>9, <2>1, <2>3
    <3>4. PICK a : a = i + b
      OBVIOUS
    <3>5. Cardinality(A) <= a - 1
      BY <1>0, <1>9, <2>1, <2>3, <3>4
    <3>1. IsFiniteSet(A) /\ Cardinality(A) <= i + b - 1 /\ j = i - 1
      BY <2>2, <3>0, <3>4, <3>5
    <3>2. Cardinality(A) \in Nat
      BY <3>1, FS_CardinalityType
    <3>3. Cardinality(A) <= j + c
      BY <2>2, <3>1, <3>2
    <3>. QED BY <2>1, <3>1, <3>3
  <2>4. CASE x # d
    <3>1. A \subseteq Out(x) /\ j = i
      BY <1>4, <1>7, <2>1, <2>4, OutShrinks
    <3>2. PICK B : B = Out(x) /\ IsFiniteSet(B) /\ Cardinality(B) <= i + b
      BY <2>1 DEF PriorInv, Counted
    <3>3. IsFiniteSet(A) /\ Cardinality(A) <= Cardinality(B) /\ Cardinality(A) \in Nat /\ Cardinality(B) \in Nat
      BY <3>1, <3>2, FS_Subset, FS_CardinalityType
    <3>4. Cardinality(A) <= j + c
      BY <2>2, <3>1, <3>2, <3>3
    <3>. QED BY <2>1, <3>3, <3>4
  <2>. QED BY <2>3, <2>4
<1>11. ASSUME remaining[d] = 1, ~Counting(d) PROVE Out(d)' = {}
  <2>1. PICK A : A = Out(d)'
    OBVIOUS
  <2>2. IsFiniteSet(A) /\ Cardinality(A) <= 0
    BY <1>0, <1>9, <1>11, <2>1
  <2>3. A = {}
    BY <2>2, NoneLeft
  <2>. QED BY <2>1, <2>3
<1>. QED BY <1>1, <1>10, <1>11

LEMMA TailFollows ==
  ASSUME QueueInv, NEW f \in FrameRec, f.run \in Invoker, f.pc = "dependent", Follows(f), f.todo # <<>>,
         NEW g \in FrameRec, g.run = f.run, g.todo = Tail(f.todo)
  PROVE  Follows(g)
<1>1. PICK l, m, k : l = dependents[f.run] /\ m = Len(l) /\ k = Len(f.todo)
  OBVIOUS
<1>2. l \in Seq(Invoker) /\ f.todo \in Seq(Invoker)
  BY <1>1 DEF QueueInv, QueueTypeOK, VarsOK, FrameRec
<1>3. /\ m \in Nat /\ k \in Nat \ {0} /\ DOMAIN f.todo = 1 .. k /\ Len(g.todo) = k - 1 /\ DOMAIN g.todo = 1 .. k - 1
      /\ \A i \in 1 .. k - 1 : g.todo[i] = f.todo[i + 1]
  BY <1>1, <1>2, TailOf
<1>4. k <= m /\ \A i \in 1 .. k : f.todo[i] = l[m - k + i]
  BY <1>1, <1>3 DEF Follows
<1>5. ASSUME NEW i \in 1 .. k - 1 PROVE g.todo[i] = l[m - (k - 1) + i]
  <2>1. i + 1 \in 1 .. k /\ m - k + (i + 1) = m - (k - 1) + i
    BY <1>3
  <2>. QED BY <1>3, <1>4, <2>1
<1>6. k - 1 <= m
  BY <1>3, <1>4
<1>. QED BY <1>1, <1>3, <1>5, <1>6 DEF Follows

LEMMA SignalDependentPriors ==
  ASSUME QueueInv, QueueInv', PriorInv, NEW th \in Thread, script' = script, SignalDependent(th)
  PROVE  PriorInv'
<1>1. PICK f, d : f = Top(th) /\ d = Head(Top(th).todo)
  OBVIOUS
<1>2. /\ At(th, "dependent") /\ f.todo # <<>> /\ remaining' = [remaining EXCEPT ![d] = @ - 1]
      /\ UNCHANGED <<kind, bound, control_futures, dependents>>
  BY <1>1 DEF SignalDependent, controlVars
<1>3. /\ stack[th] # <<>> /\ f \in Frames /\ f \in FrameRec /\ f.pc = "dependent" /\ FrameGood(f) /\ Follows(f)
  BY <1>1, <1>2, AtFrame DEF PriorInv
<1>4. f.run \in Invoker
  BY <1>3 DEF FrameGood, Running, Invoking, Ending
<1>5. PICK g, New : /\ g \in FrameRec /\ g.run = f.run /\ g.pc = "dependent" /\ g.todo = Tail(f.todo) /\ Swaps({f}, New)
                    /\ \/ New = {g} /\ status' = status
                       \/ /\ was_last_prior(d) /\ \E h : Starts(d, h) /\ New = {g, h}
  <2>1. CASE ~was_last_prior(d)
    <3>1. PICK g : Goes(th, g) /\ g.pc = "dependent" /\ g.todo = Tail(f.todo)
      BY <1>1, <2>1, SignalWaitsKeeps
    <3>2. g \in FrameRec /\ g.run = f.run /\ status' = status /\ Swaps({f}, {g})
      BY <1>1, <3>1, QuietStep DEF QueueInv, Goes, Quiet, Swaps
    <3>. QED BY <3>1, <3>2
  <2>2. CASE was_last_prior(d) /\ is_high_priority(d)
    <3>1. PICK g, h : /\ g \in FrameRec /\ g.run = f.run /\ g.pc = "dependent" /\ g.todo = Tail(f.todo) /\ Starts(d, h)
                      /\ Frames' = (Frames \ {f}) \cup {g, h}
      BY <1>1, <2>2, SignalStartsKeeps
    <3>2. Swaps({f}, {g, h})
      BY <3>1 DEF Swaps
    <3>. QED BY <2>2, <3>1, <3>2
  <2>3. CASE was_last_prior(d) /\ ~is_high_priority(d)
    <3>1. PICK g : /\ g \in FrameRec /\ g.run = f.run /\ g.pc = "dependent" /\ g.todo = Tail(f.todo)
                   /\ Frames' = (Frames \ {f}) \cup {g}
      BY <1>1, <2>3, SignalAppendsKeeps
    <3>2. Swaps({f}, {g}) /\ status' = status
      BY <1>1, <2>3, <3>1, SignalAppendsKeeps DEF Swaps, DequeKept
    <3>. QED BY <3>1, <3>2
  <2>. QED BY <2>1, <2>2, <2>3
<1>6. Follows(g) /\ Registers(g)' /\ d = Head(f.todo)
  <2>1. Follows(g)
    BY <1>2, <1>3, <1>4, <1>5, TailFollows
  <2>2. Registers(g)'
    BY <1>5 DEF Registers, Registering
  <2>. QED BY <1>1, <2>1, <2>2
<1>7. CASE New = {g} /\ status' = status
  <2>1. \A p \in Invoker : status[p] = "READY" => status'[p] = "READY"
    BY <1>7
  <2>2. \A e \in New : e = g \/ (e.run # f.run /\ Sourced(e))
    BY <1>7
  <2>5. SignalsOne(th, f, d, g, New)
    BY <1>1, <1>2, <1>3, <1>5, <1>6, <2>1, <2>2 DEF SignalsOne
  <2>3. Counted'
    BY <2>5, SignalCounts
  <2>4. /\ {} \in SUBSET Invoker /\ \A x \in {} : PriorMet(x)' /\ \A e \in Frames \ {f} : e.pc \in Claiming => e.tgt \notin {}
        /\ \A x \in Invoker \ {} : status'[x] = status[x] \/ (status[x] \in Offered /\ status'[x] # "ON_HOLD")
        /\ \A e \in New : Follows(e) /\ Registers(e)'
    BY <1>6, <1>7
  <2>. QED BY <1>2, <1>5, <2>1, <2>3, <2>4, PriorsStep
<1>8. CASE was_last_prior(d) /\ \E h : Starts(d, h) /\ New = {g, h}
  <2>1. PICK h : Starts(d, h) /\ New = {g, h}
    BY <1>8
  <2>2. /\ d \in Invoker /\ status' = [status EXCEPT ![d] = "RUNNING"]
        /\ \A p \in Invoker : status[p] = "READY" => status'[p] = "READY"
        /\ \A x \in Invoker : x # d => status'[x] = status[x]
    BY <2>1, StartSteady
  <2>3. Sourced(h) /\ Follows(h) /\ Registers(h)'
    BY <2>1, StartedPriors
  <2>4. h.run # f.run
    BY <1>3, <2>1, StartedFrame
  <2>5. \A e \in New : e = g \/ (e.run # f.run /\ Sourced(e))
    BY <2>1, <2>3, <2>4
  <2>6. status[d] = "ON_HOLD" /\ remaining[d] = 1
    BY <1>8 DEF was_last_prior
  <2>7. \A e \in Frames : e.pc \in Claiming => status[e.tgt] = "CONSTRUCTING"
    BY DEF QueueInv, CallsInv, FrameInv, FrameGood, Claims
  <2>8. ~Counting(d)
    BY <2>6, <2>7 DEF Counting, Claiming, Registering
  <2>12. SignalsOne(th, f, d, g, New)
    BY <1>1, <1>2, <1>3, <1>5, <1>6, <2>2, <2>5 DEF SignalsOne
  <2>9. Counted' /\ Out(d)' = {}
    BY <2>6, <2>8, <2>12, SignalCounts
  <2>10. PriorMet(d)'
    <3>1. Needs(d)' = Needs(d)
      BY <1>2 DEF Needs, Earlier, In
    <3>2. \A p \in Needs(d) : p \in Invoker
      BY DEF Needs
    <3>3. PriorMet(d) /\ Steady
      BY <1>2, <2>2, SteadyStep DEF PriorInv, PriorsMet
    <3>4. \A p \in Needs(d) : Met(d, p)'
      BY <2>6, <3>2, <3>3, MetStays DEF PriorMet
    <3>5. \A p \in Needs(d) : status'[p] = "READY"
      BY <2>9, <3>4 DEF Met
    <3>. QED BY <3>1, <3>4, <3>5 DEF PriorMet
  <2>11. /\ {d} \in SUBSET Invoker /\ \A x \in {d} : PriorMet(x)' /\ \A e \in Frames \ {f} : e.pc \in Claiming => e.tgt \notin {d}
         /\ \A x \in Invoker \ {d} : status'[x] = status[x] \/ (status[x] \in Offered /\ status'[x] # "ON_HOLD")
         /\ \A e \in New : Follows(e) /\ Registers(e)'
    BY <1>6, <2>1, <2>2, <2>3, <2>6, <2>7, <2>10
  <2>. QED BY <1>2, <1>5, <2>2, <2>9, <2>11, PriorsStep
<1>. QED BY <1>5, <1>7, <1>8

(***************************************************************************)
(* A registration                                                          *)
(***************************************************************************)
\* g is the frame f that registers, a step later.
GoesOn(f, g) == /\ f \in Frames /\ g \in FrameRec /\ g.run = f.run /\ g.tgt = f.tgt /\ g.ip = f.ip
                /\ f.pc \in Registering \cup {"controls"} /\ g.pc \in Registering
                /\ \A p \in Invoker : In(f.todo, p) => In(g.todo, p) \/ Met(f.tgt, p)'
                /\ g.pc = "count" => Met(g.tgt, Head(g.todo))'

LEMMA RegistersOn ==
  ASSUME QueueInv, PriorInv, Steady, UNCHANGED <<script, kind, bound, control_futures>>, NEW f, NEW g, GoesOn(f, g)
  PROVE  Registers(g)'
<1>1. /\ f \in Frames /\ g \in FrameRec /\ g.run = f.run /\ g.tgt = f.tgt /\ g.ip = f.ip
      /\ f.pc \in Registering \cup {"controls"} /\ g.pc \in Registering
      /\ \A p \in Invoker : In(f.todo, p) => In(g.todo, p) \/ Met(f.tgt, p)'
      /\ g.pc = "count" => Met(g.tgt, Head(g.todo))'
  BY DEF GoesOn
<1>2. Registers(f) /\ FrameGood(f)
  BY <1>1 DEF PriorInv, QueueInv, CallsInv, FrameInv
<1>3. f.pc = "controls" => kind[f.tgt] = "control"
  BY <1>2 DEF FrameGood, Claims, Claiming
<1>4. /\ Calls(g.run)' = Calls(f.run) /\ CallOf(g)' = CallOf(f)
      /\ Needs(g.tgt)' = Needs(f.tgt) /\ NeedsOf(g)' = NeedsOf(f) /\ kind'[g.tgt] = kind[f.tgt]
  <2>1. Calls(g.run)' = Calls(f.run) /\ CallOf(g)' = CallOf(f)
    BY <1>1 DEF Calls, CallOf
  <2>2. Needs(g.tgt)' = Needs(f.tgt)
    BY <1>1 DEF Needs, Earlier, In
  <2>3. kind'[g.tgt] = kind[f.tgt]
    BY <1>1
  <2>. QED BY <2>1, <2>2, <2>3 DEF NeedsOf, In
<1>5. ASSUME NEW p \in NeedsOf(f) PROVE Met(g.tgt, p)' \/ In(g.todo, p)
  <2>1. p \in Invoker
    BY DEF NeedsOf, Needs
  <2>2. Met(f.tgt, p) \/ In(f.todo, p)
    <3>1. CASE f.pc = "controls"
      <4>1. NeedsOf(f) = Needs(f.tgt)
        BY <1>3, <3>1 DEF NeedsOf
      <4>. QED BY <1>2, <1>5, <3>1, <4>1 DEF Registers
    <3>2. CASE f.pc \in Registering
      BY <1>2, <1>5, <3>2 DEF Registers
    <3>. QED BY <1>1, <3>1, <3>2
  <2>3. CASE Met(f.tgt, p)
    <3>1. PICK t : t = f.tgt /\ t = g.tgt
      BY <1>1
    <3>2. Met(t, p)'
      BY <2>1, <2>3, <3>1, MetStays
    <3>. QED BY <3>1, <3>2
  <2>4. CASE In(f.todo, p)
    <3>1. PICK t : t = f.tgt /\ t = g.tgt
      BY <1>1
    <3>2. In(g.todo, p) \/ Met(t, p)'
      BY <1>1, <2>1, <2>4, <3>1
    <3>. QED BY <3>1, <3>2
  <2>. QED BY <2>2, <2>3, <2>4
<1>6. kind[f.tgt] = "waiter" => f.ip <= Len(Calls(f.run)) /\ CallOf(f).call = "wait"
  BY <1>1, <1>2, <1>3 DEF Registers
<1>7. g.pc \in {"register", "append", "count"}
  BY <1>1 DEF Registering
<1>8. \A p : In(g.todo, p)' <=> In(g.todo, p)
  BY DEF In
<1>. QED BY <1>1, <1>4, <1>5, <1>6, <1>7, <1>8 DEF Registers

LEMMA TailIn ==
  ASSUME NEW s \in Seq(Invoker), s # <<>>, NEW p, In(s, p), p # Head(s)
  PROVE  In(Tail(s), p)
<1>1. PICK n : n = Len(s) /\ n \in Nat \ {0} /\ DOMAIN s = 1 .. n
  BY TailOf
<1>2. Head(s) = s[1] /\ DOMAIN Tail(s) = 1 .. n - 1 /\ \A i \in 1 .. n - 1 : Tail(s)[i] = s[i + 1]
  BY <1>1, TailOf
<1>3. PICK j \in 1 .. n : s[j] = p
  BY <1>1 DEF In
<1>4. j # 1
  BY <1>2, <1>3
<1>5. j - 1 \in 1 .. n - 1 /\ (j - 1) + 1 = j
  BY <1>1, <1>3, <1>4
<1>. QED BY <1>2, <1>3, <1>5 DEF In

\* The frame visits a future: it looks at its status, or has counted it.
LEMMA RegisterNext ==
  ASSUME QueueInv, QueueInv', PriorInv, NEW th \in Thread, script' = script, NEW g, RegisterMove(th, g), Goes(th, g),
         UNCHANGED <<kind, bound, control_futures>>, dependents' = dependents
  PROVE  PriorInv'
<1>1. PICK f, d : f = Top(th) /\ d = Head(Top(th).todo)
  OBVIOUS
<1>2. g \in FrameRec /\ g.run = f.run /\ status' = status /\ Swaps({f}, {g})
  BY <1>1, QuietStep DEF QueueInv, Goes, Quiet, Swaps
<1>3. PICK a \in Registering \cup {"controls"} : At(th, a)
  BY DEF RegisterMove, Registering
<1>4. f \in Frames /\ f \in FrameRec /\ f.pc = a /\ Registers(f) /\ FrameGood(f)
  BY <1>1, <1>3, AtFrame DEF PriorInv
<1>5. /\ g.tgt = f.tgt /\ g.ip = f.ip
      /\ \/ g.todo = f.todo /\ g.pc \in {"register", "append"} /\ f.pc \in {"register", "controls"} /\ remaining' = remaining
         \/ /\ g.todo = Tail(f.todo) /\ f.todo # <<>> /\ g.pc = "register" /\ f.pc \in {"register", "append"}
            /\ remaining' = remaining /\ status[d] = "READY"
         \/ /\ g.todo = Tail(f.todo) /\ f.todo # <<>> /\ g.pc = "register" /\ f.pc = "count"
            /\ remaining' = [remaining EXCEPT ![f.tgt] = @ + 1]
         \/ g.pc = "count"
  <2>1. \A w : At(th, w) => f.pc = w
    BY <1>1 DEF At
  <2>. QED BY <1>1, <2>1 DEF RegisterMove
<1>6. CASE g.pc # "count"
  <2>1. \A p \in Invoker : status[p] = "READY" => status'[p] = "READY"
    BY <1>2
  <2>2. Steady
    BY <2>1, SteadyStep
  <2>3. \A p \in Invoker : In(f.todo, p) => In(g.todo, p) \/ Met(f.tgt, p)'
    <3>1. CASE g.todo = f.todo
      BY <3>1
    <3>2. CASE g.todo = Tail(f.todo) /\ f.todo # <<>>
      <4>1. f.todo \in Seq(Invoker)
        BY <1>4 DEF FrameRec
      <4>2. d \in Invoker
        BY <1>1, <3>2, <4>1, TailOf
      <4>3. Met(f.tgt, d)'
        <5>1. CASE status[d] = "READY"
          BY <1>2, <5>1 DEF Met
        <5>2. CASE f.pc = "count"
          <6>1. Met(f.tgt, d)
            BY <1>1, <1>4, <5>2 DEF Registers
          <6>2. PICK t : t = f.tgt
            OBVIOUS
          <6>3. Met(t, d)'
            BY <2>2, <4>2, <6>1, <6>2, MetStays
          <6>. QED BY <6>2, <6>3
        <5>3. status[d] = "READY" \/ f.pc = "count" \/ (g.todo = f.todo /\ Tail(f.todo) = f.todo)
          BY <1>5, <1>6, <3>2
        <5>4. Tail(f.todo) # f.todo
          <6>1. PICK m, n : m = Len(f.todo) /\ n = Len(Tail(f.todo)) /\ n = m - 1 /\ m \in Nat
            BY <3>2, <4>1, TailOf
          <6>2. m # n
            BY <6>1
          <6>. QED BY <6>1, <6>2
        <5>. QED BY <5>1, <5>2, <5>3, <5>4
      <4>4. ASSUME NEW p \in Invoker, In(f.todo, p) PROVE In(g.todo, p) \/ Met(f.tgt, p)'
        <5>1. CASE p = d
          BY <4>3, <5>1
        <5>2. CASE p # d
          BY <1>1, <3>2, <4>1, <4>4, <5>2, TailIn
        <5>. QED BY <5>1, <5>2
      <4>. QED BY <4>4
    <3>. QED BY <1>5, <1>6, <3>1, <3>2
  <2>4. GoesOn(f, g)
    BY <1>2, <1>3, <1>4, <1>5, <1>6, <2>3 DEF GoesOn, Registering
  <2>5. Registers(g)'
    BY <2>2, <2>4, RegistersOn
  <2>6. g.pc \in {"register", "append"}
    BY <1>5, <1>6
  <2>7. \A e \in {g} : Sourced(e) /\ Follows(e) /\ Registers(e)'
    BY <2>5, <2>6 DEF Sourced, Follows
  <2>8. CASE remaining' = remaining /\ f.pc # "count"
    <3>1. \A e \in {f} : e.pc # "count"
      BY <2>8
    <3>2. \A x \in Invoker : status'[x] = status[x] \/ (status[x] \in Offered /\ status'[x] # "ON_HOLD")
      BY <1>2
    <3>. QED BY <1>2, <2>1, <2>7, <2>8, <3>1, <3>2, NonePriors
  <2>9. CASE f.pc = "count" /\ remaining' = [remaining EXCEPT ![f.tgt] = @ + 1]
    <3>1. f.tgt \in Invoker /\ f.pc \in Claiming
      BY <1>4, <2>9 DEF FrameGood, Claims, Claiming, Registering
    <3>2. \A e \in Frames' : Sourced(e)
      <4>. SUFFICES ASSUME NEW e \in Frames PROVE Sourced(e)
        BY <1>2, <2>7 DEF Swaps
      <4>1. e \in FrameRec
        BY FrameTypes DEF QueueInv
      <4>2. Len(e.todo) <= Len(e.todo)
        BY <4>1 DEF FrameRec
      <4>. QED BY <4>2 DEF Sourced
    <3>3. ASSUME NEW x \in Invoker
          PROVE  remaining[x] + (IF Counting(x) THEN 1 ELSE 0) <= remaining'[x] + (IF Counting(x)' THEN 1 ELSE 0)
      <4>1. PICK m, n : m = remaining[x] /\ n = remaining'[x]
        OBVIOUS
      <4>2. m \in Int /\ n = IF x = f.tgt THEN m + 1 ELSE m
        BY <2>9, <4>1 DEF QueueInv, QueueTypeOK, VarsOK
      <4>3. x # f.tgt => (Counting(x) => Counting(x)')
        BY <1>2 DEF Counting, Swaps
      <4>4. PICK b, c : b = (IF Counting(x) THEN 1 ELSE 0) /\ c = (IF Counting(x)' THEN 1 ELSE 0)
        OBVIOUS
      <4>5. b \in {0, 1} /\ c \in {0, 1} /\ (x # f.tgt => b <= c)
        BY <4>3, <4>4
      <4>6. m + b <= n + c
        BY <4>2, <4>5
      <4>. QED BY <4>1, <4>4, <4>6
    <3>4. Counted'
      BY <2>1, <3>2, <3>3, CountStays DEF PriorInv
    <3>5. /\ {} \in SUBSET Invoker /\ \A x \in {} : PriorMet(x)' /\ \A e \in Frames \ {f} : e.pc \in Claiming => e.tgt \notin {}
          /\ \A x \in Invoker \ {} : status'[x] = status[x] \/ (status[x] \in Offered /\ status'[x] # "ON_HOLD")
      BY <1>2
    <3>. QED BY <1>2, <2>1, <2>7, <3>4, <3>5, PriorsStep
  <2>. QED BY <1>5, <1>6, <2>8, <2>9
<1>7. CASE g.pc = "count"
  <2>1. f.tgt \in Invoker /\ f.todo \in Seq(Invoker) /\ f.todo # <<>>
    BY <1>1, <1>3, <1>4, <1>7 DEF FrameGood, Claims, Claiming, FrameRec, RegisterMove
  <2>2. d \in Invoker
    BY <1>1, <2>1, TailOf
  <2>3. dependents' = [dependents EXCEPT ![d] = Append(@, f.tgt)]
    BY <1>1, <1>7 DEF RegisterMove
  <2>4. dependents[d] \in Seq(Invoker) /\ dependents \in [Invoker -> Seq(Invoker)]
    BY <2>2 DEF QueueInv, QueueTypeOK, VarsOK
  <2>5. Len(dependents'[d]) = Len(dependents[d]) + 1 /\ Len(dependents[d]) \in Nat
    BY <2>1, <2>2, <2>3, <2>4, AppendProperties
  <2>. QED BY <2>5
<1>. QED BY <1>6, <1>7

\* The frame enters its invoker into dependents_ of a future, and has still to count it.
LEMMA AppendCounts ==
  ASSUME QueueInv, QueueInv', PriorInv, NEW f \in Frames, f.pc = "append", NEW g, g.pc = "count", g.run = f.run, g.tgt = f.tgt,
         Swaps({f}, {g}), NEW d \in Invoker, status[d] # "READY", UNCHANGED <<status, remaining>>,
         dependents' = [dependents EXCEPT ![d] = Append(@, f.tgt)]
  PROVE  /\ Counted' /\ Steady /\ Met(f.tgt, d)'
         /\ \A e \in Frames' : Follows(e)'
<1>. DEFINE t == f.tgt
<1>1. /\ f.pc \in Claiming /\ t \in Invoker /\ status[t] = "CONSTRUCTING"
      /\ \A e \in Frames \ {f} : Untouched({t}, e)
  <2>1. f.pc \in Claiming
    BY DEF Claiming, Registering
  <2>. QED BY <2>1, ClaimedIsFree
<1>2. dependents \in [Invoker -> Seq(Invoker)] /\ remaining \in [Invoker -> Int]
  BY DEF QueueInv, QueueTypeOK, VarsOK
<1>3. PICK l, n, r : l = dependents[d] /\ n = Len(l) /\ r = Append(l, t)
  OBVIOUS
<1>4. l \in Seq(Invoker) /\ n \in Nat /\ DOMAIN l = 1 .. n
  BY <1>2, <1>3
<1>5. r \in Seq(Invoker) /\ Len(r) = n + 1 /\ DOMAIN r = 1 .. n + 1 /\ r[n + 1] = t /\ \A i \in 1 .. n : r[i] = l[i]
  BY <1>1, <1>3, <1>4, AppendProperties
<1>6. dependents'[d] = r /\ \A p \in Invoker : p # d => dependents'[p] = dependents[p]
  BY <1>2, <1>3
<1>7. Steady
  <2>1. ASSUME NEW p \in Invoker, NEW i \in DOMAIN dependents[p]
        PROVE  i \in DOMAIN dependents'[p] /\ dependents'[p][i] = dependents[p][i]
    <3>1. CASE p = d
      <4>1. i \in 1 .. n
        BY <1>3, <1>4, <2>1, <3>1
      <4>2. i \in 1 .. n + 1
        BY <1>4, <4>1
      <4>. QED BY <1>3, <1>5, <1>6, <3>1, <4>1, <4>2
    <3>2. CASE p # d
      BY <1>6, <3>2
    <3>. QED BY <3>1, <3>2
  <2>. QED BY <2>1 DEF Steady
<1>8. n + 1 \in DOMAIN dependents'[d] /\ dependents'[d][n + 1] = t
  <2>1. n + 1 \in 1 .. n + 1
    BY <1>4
  <2>. QED BY <1>5, <1>6, <2>1
<1>9. Met(f.tgt, d)'
  <2>1. Unsignalled(d, n + 1)'
    BY DEF Unsignalled
  <2>2. <<d, n + 1>> \in Out(t)'
    BY <1>8, <2>1, OutIs
  <2>. QED BY <1>8, <2>2 DEF Met
<1>10. \A e \in Frames : e.pc = "dependent" => e.run # d
  BY DEF QueueInv, CallsInv, FrameInv, FrameGood, Running, Ending, Invoking
<1>11. \A e \in Frames' : Follows(e)'
  <2>. SUFFICES ASSUME NEW e \in Frames', e.pc = "dependent" PROVE Follows(e)'
    BY DEF Follows
  <2>1. e \in Frames /\ Follows(e)
    BY DEF Swaps, PriorInv
  <2>2. e.run \in Invoker /\ e.run # d
    BY <1>10, <2>1 DEF QueueInv, CallsInv, FrameInv, FrameGood, Running, Ending, Invoking
  <2>3. dependents'[e.run] = dependents[e.run]
    BY <1>6, <2>2
  <2>. QED BY <2>1, <2>3 DEF Follows
<1>12. ASSUME NEW x, NEW z \in Out(x)' PROVE z \in Out(x) \/ (x = t /\ z = <<d, n + 1>>)
  <2>1. PICK p, i : p \in Invoker /\ i \in DOMAIN dependents'[p] /\ z = <<p, i>> /\ dependents'[p][i] = x /\ Unsignalled(p, i)'
    BY <1>12, OutIs
  <2>2. CASE p = d /\ i = n + 1
    BY <1>8, <2>1, <2>2
  <2>3. CASE p = d /\ i # n + 1
    <3>1. i \in 1 .. n
      BY <1>4, <1>5, <1>6, <2>1, <2>3
    <3>2. i \in DOMAIN dependents[d] /\ dependents[d][i] = x
      BY <1>3, <1>4, <1>5, <1>6, <2>1, <2>3, <3>1
    <3>3. Unsignalled(d, i)
      BY DEF Unsignalled
    <3>. QED BY <2>1, <2>3, <3>2, <3>3, OutIs
  <2>4. CASE p # d
    <3>1. dependents'[p] = dependents[p]
      BY <1>6, <2>1, <2>4
    <3>2. Unsignalled(p, i)
      <4>1. CASE status[p] # "READY"
        BY <4>1 DEF Unsignalled
      <4>2. CASE status[p] = "READY"
        <5>1. PICK e \in Frames' : e.run = p /\ (e.pc = "signal" \/ (e.pc = "dependent" /\ i > Len(dependents[p]) - Len(e.todo)))
          BY <2>1, <3>1, <4>2 DEF Unsignalled
        <5>2. e \in Frames
          BY <5>1 DEF Swaps
        <5>. QED BY <5>1, <5>2 DEF Unsignalled
      <4>. QED BY <4>1, <4>2
    <3>. QED BY <2>1, <3>1, <3>2, OutIs
  <2>. QED BY <2>2, <2>3, <2>4
<1>13. ~Counting(t) /\ Counting(t)'
  BY <1>1 DEF Counting, Untouched, Swaps, Claiming, Registering
<1>14. ASSUME NEW x \in Invoker
       PROVE  IsFiniteSet(Out(x)') /\ Cardinality(Out(x)') <= remaining'[x] + (IF Counting(x)' THEN 1 ELSE 0)
  <2>1. PICK A, B, m, b, c : /\ A = Out(x)' /\ B = Out(x) /\ m = remaining[x] /\ m = remaining'[x]
                             /\ b = (IF Counting(x) THEN 1 ELSE 0) /\ c = (IF Counting(x)' THEN 1 ELSE 0)
    OBVIOUS
  <2>2. m \in Int /\ b \in {0, 1} /\ c \in {0, 1}
    BY <1>2, <2>1
  <2>3. IsFiniteSet(B) /\ Cardinality(B) <= m + b
    BY <2>1 DEF PriorInv, Counted
  <2>4. CASE x = t
    <3>1. PICK z, C : z = <<d, n + 1>> /\ C = B \cup {z}
      OBVIOUS
    <3>2. A \subseteq C
      BY <1>12, <2>1, <3>1
    <3>3. IsFiniteSet(C) /\ (Cardinality(C) = Cardinality(B) \/ Cardinality(C) = Cardinality(B) + 1)
      BY <2>3, <3>1, FS_AddElement
    <3>4. IsFiniteSet(A) /\ Cardinality(A) <= Cardinality(C)
      BY <3>2, <3>3, FS_Subset
    <3>5. Cardinality(A) \in Nat /\ Cardinality(B) \in Nat /\ Cardinality(C) \in Nat
      BY <2>3, <3>3, <3>4, FS_CardinalityType
    <3>6. b = 0 /\ c = 1
      BY <1>13, <2>1, <2>4
    <3>7. Cardinality(A) <= m + c
      BY <2>2, <2>3, <3>3, <3>4, <3>5, <3>6
    <3>. QED BY <2>1, <3>4, <3>7
  <2>5. CASE x # t
    <3>1. A \subseteq B
      BY <1>12, <2>1, <2>5
    <3>2. IsFiniteSet(A) /\ Cardinality(A) <= Cardinality(B) /\ Cardinality(A) \in Nat /\ Cardinality(B) \in Nat
      BY <2>3, <3>1, FS_Subset, FS_CardinalityType
    <3>3. b <= c
      <4>1. Counting(x) => Counting(x)'
        BY DEF Counting, Swaps
      <4>. QED BY <2>1, <4>1
    <3>4. Cardinality(A) <= m + c
      BY <2>2, <2>3, <3>2, <3>3
    <3>. QED BY <2>1, <3>2, <3>4
  <2>. QED BY <2>4, <2>5
<1>15. Counted'
  BY <1>14 DEF Counted
<1>. QED BY <1>7, <1>9, <1>11, <1>15

LEMMA RegisterPriors ==
  ASSUME QueueInv, QueueInv', PriorInv, NEW th \in Thread, script' = script, RegisterStep(th)
  PROVE  PriorInv'
<1>1. PICK g : RegisterMove(th, g) /\ Goes(th, g)
  BY RegisterKeeps
<1>2. UNCHANGED <<kind, bound, control_futures>>
  BY DEF RegisterStep, Register, RegisterAppend, RegisterCount, ControlDepends, futureVars, controlVars
<1>3. CASE dependents' = dependents
  BY <1>1, <1>2, <1>3, RegisterNext
<1>4. CASE dependents' # dependents
  <2>1. PICK f, d, t : f = Top(th) /\ d = Head(Top(th).todo) /\ t = Top(th).tgt
    OBVIOUS
  <2>2. /\ At(th, "append") /\ f.todo # <<>> /\ status[d] # "READY" /\ g.pc = "count" /\ g.todo = f.todo
        /\ dependents' = [dependents EXCEPT ![d] = Append(@, t)] /\ remaining' = remaining
        /\ g.tgt = t /\ g.ip = f.ip
    BY <1>1, <1>4, <2>1 DEF RegisterMove
  <2>3. f.tgt = t /\ f \in Frames /\ f \in FrameRec /\ f.pc = "append"
    BY <2>1, <2>2, AtFrame
  <2>4. g \in FrameRec /\ g.run = f.run /\ status' = status /\ Swaps({f}, {g})
    BY <1>1, <2>1, QuietStep DEF QueueInv, Goes, Quiet, Swaps
  <2>5. d \in Invoker
    <3>1. f.todo \in Seq(Invoker) /\ d = Head(f.todo)
      BY <2>1, <2>3 DEF FrameRec
    <3>. QED BY <2>2, <3>1, TailOf
  <2>6. Counted' /\ Steady /\ Met(f.tgt, d)' /\ \A e \in Frames' : Follows(e)'
    <3>1. dependents' = [dependents EXCEPT ![d] = Append(@, f.tgt)] /\ g.tgt = f.tgt
      BY <2>2, <2>3
    <3>2. UNCHANGED <<status, remaining>>
      BY <2>2, <2>4
    <3>. QED BY <2>2, <2>3, <2>4, <2>5, <3>1, <3>2, AppendCounts
  <2>7. Registers(g)'
    <3>1. Met(g.tgt, Head(g.todo))'
      <4>1. Head(g.todo) = d /\ g.tgt = f.tgt
        BY <2>1, <2>2, <2>3
      <4>2. PICK x, p : x = f.tgt /\ p = d /\ x = g.tgt /\ p = Head(g.todo)
        BY <4>1
      <4>3. Met(x, p)'
        BY <2>6, <4>2
      <4>. QED BY <4>2, <4>3
    <3>2. GoesOn(f, g)
      BY <2>2, <2>3, <2>4, <3>1 DEF GoesOn, Registering
    <3>. QED BY <1>2, <2>6, <3>2, RegistersOn
  <2>8. PriorsMet' /\ \A e \in Frames' : Registers(e)'
    <3>1. \A x \in Invoker : Spared(x)
      BY <1>2, <2>4, SparedAll
    <3>2. /\ {} \in SUBSET Invoker /\ \A x \in {} : PriorMet(x)' /\ \A e \in Frames \ {f} : e.pc \in Claiming => e.tgt \notin {}
          /\ \A x \in Invoker \ {} : Spared(x)
      BY <3>1
    <3>3. \A e \in {g} : Registers(e)'
      BY <2>7
    <3>. QED BY <2>4, <2>6, <3>2, <3>3, PriorStep
  <2>9. Controls'
    BY <1>2 DEF PriorInv, Controls, In
  <2>. QED BY <2>6, <2>8, <2>9 DEF PriorInv
<1>. QED BY <1>3, <1>4

(***************************************************************************)
(* Allocation: the invokers of T are new                                   *)
(***************************************************************************)
Allocates(T, f, g) ==
  /\ T \subseteq Invoker /\ \A t \in T : Fresh(t)
  /\ f \in Frames /\ f.pc \in {"body", "visit"} /\ g.pc \in {"notify", "push", "controls", "register"}
  /\ Swaps({f}, {g}) /\ UNCHANGED <<script, remaining, dependents>>
  /\ \A x \in Invoker \ T : status'[x] = status[x] /\ kind'[x] = kind[x] /\ bound'[x] = bound[x]

LEMMA AllocPriors ==
  ASSUME QueueInv, QueueInv', PriorInv, NEW T, NEW f, NEW g, Allocates(T, f, g),
         \A x \in Invoker \ T : Needs(x)' = Needs(x), \A x \in T : PriorMet(x)', Registers(g)', Controls'
  PROVE  PriorInv'
<1>1. /\ T \subseteq Invoker /\ \A t \in T : Fresh(t)
      /\ f \in Frames /\ f.pc \in {"body", "visit"} /\ g.pc \in {"notify", "push", "controls", "register"}
      /\ Swaps({f}, {g}) /\ UNCHANGED <<script, remaining, dependents>>
      /\ \A x \in Invoker \ T : status'[x] = status[x] /\ kind'[x] = kind[x]
  BY DEF Allocates
<1>2. \A t \in T : status[t] = "CONSTRUCTING" /\ \A e \in Frames : Untouched({t}, e)
  BY <1>1, FreshIsFree
<1>3. \A p \in Invoker : status[p] = "READY" => status'[p] = "READY"
  BY <1>1, <1>2
<1>4. Steady
  BY <1>1, <1>3, SteadyStep
<1>5. Counted'
  <2>1. \A e \in {f} : e.pc # "count"
    BY <1>1
  <2>2. \A e \in {g} : Sourced(e)
    BY <1>1 DEF Sourced
  <2>. QED BY <1>1, <1>3, <2>1, <2>2, CountStep DEF PriorInv
<1>6. PriorsMet' /\ \A e \in Frames' : Registers(e)'
  <2>1. \A x \in Invoker \ T : Spared(x)
    BY <1>1 DEF Spared
  <2>2. \A e \in Frames \ {f} : e.pc \in Claiming => e.tgt \notin T
    BY <1>2 DEF Untouched
  <2>3. T \in SUBSET Invoker /\ \A e \in {g} : Registers(e)'
    BY <1>1
  <2>. QED BY <1>1, <1>4, <2>1, <2>2, <2>3, PriorStep
<1>7. \A e \in Frames' : Follows(e)'
  <2>. SUFFICES ASSUME NEW e \in Frames', e.pc = "dependent" PROVE Follows(e)'
    BY DEF Follows
  <2>1. e \in Frames /\ Follows(e)
    BY <1>1 DEF Swaps, PriorInv
  <2>. QED BY <1>1, <2>1 DEF Follows
<1>. QED BY <1>5, <1>6, <1>7 DEF PriorInv

\* A call that is no resize adds no control.
LEMMA ControlsKept ==
  ASSUME Controls, control_futures' = control_futures, NEW T, T \subseteq Invoker,
         \A t \in T : Fresh(t) /\ kind'[t] # "control", \A x \in Invoker \ T : kind'[x] = kind[x]
  PROVE  Controls'
<1>1. ASSUME NEW t \in Invoker PROVE kind'[t] = "control" <=> In(control_futures, t)
  <2>1. kind[t] = "control" <=> In(control_futures, t)
    BY DEF Controls
  <2>2. CASE t \in T
    BY <2>1, <2>2 DEF Fresh
  <2>3. CASE t \notin T
    BY <2>1, <2>3
  <2>. QED BY <2>2, <2>3
<1>2. \A t : In(control_futures, t)' <=> In(control_futures, t)
  BY DEF In
<1>. QED BY <1>1, <1>2 DEF Controls

\* What the others need when control_futures_ stays.
LEMMA NeedsKept ==
  ASSUME control_futures' = control_futures, NEW x, kind'[x] = kind[x], bound'[x] = bound[x]
  PROVE  Needs(x)' = Needs(x)
BY DEF Needs, Earlier, In

LEMMA PushPriors ==
  ASSUME QueueInv, QueueInv', PriorInv, NEW th \in Thread, script' = script, Push(th)
  PROVE  PriorInv'
<1>1. PICK f, t, g : f = Top(th) /\ t = CallOf(f).inv /\ g = [f EXCEPT !.pc = "notify"]
  OBVIOUS
<1>2. /\ t \in Invoker /\ CallOf(f).call = "push" /\ g \in FrameRec /\ Frames' = (Frames \ {f}) \cup {g}
  BY <1>1, PushKeeps
<1>3. /\ AtCall(th, "push") /\ Fresh(t) /\ status' = [status EXCEPT ![t] = "ENQUEUED"]
      /\ kind' = [kind EXCEPT ![t] = "task"] /\ bound' = [bound EXCEPT ![t] = CallOf(f)]
      /\ UNCHANGED <<remaining, dependents, control_futures>>
  BY <1>1 DEF Push, emplace_back, controlVars
<1>4. f \in Frames /\ f \in FrameRec /\ f.pc = "body"
  BY <1>1, <1>3, CallFrame
<1>5. g.pc = "notify"
  BY <1>1, <1>4 DEF FrameRec
<1>6. kind'[t] = "task" /\ bound'[t].call = "push" /\ \A x \in Invoker \ {t} :
        status'[x] = status[x] /\ kind'[x] = kind[x] /\ bound'[x] = bound[x]
  BY <1>2, <1>3 DEF QueueInv, QueueTypeOK, VarsOK
<1>7. {t} \subseteq Invoker /\ (\A x \in {t} : Fresh(x)) /\ \A x \in {t} : kind'[x] # "control"
  BY <1>2, <1>3, <1>6
<1>8. Allocates({t}, f, g)
  BY <1>2, <1>3, <1>4, <1>5, <1>6, <1>7 DEF Allocates, Swaps
<1>9. \A x \in Invoker \ {t} : Needs(x)' = Needs(x)
  BY <1>3, <1>6, NeedsKept
<1>10. \A x \in {t} : PriorMet(x)'
  BY <1>6 DEF PriorMet, Needs
<1>11. Registers(g)'
  BY <1>5 DEF Registers, Registering
<1>12. Controls'
  <2>1. PICK T : T = {t}
    OBVIOUS
  <2>2. /\ T \subseteq Invoker /\ (\A x \in T : Fresh(x) /\ kind'[x] # "control") /\ control_futures' = control_futures
        /\ \A x \in Invoker \ T : kind'[x] = kind[x]
    BY <1>3, <1>6, <1>7, <2>1
  <2>. QED BY <2>2, ControlsKept DEF PriorInv
<1>. QED BY <1>8, <1>9, <1>10, <1>11, <1>12, AllocPriors

LEMMA PushDependentPriors ==
  ASSUME QueueInv, QueueInv', PriorInv, NEW th \in Thread, script' = script, PushDependent(th)
  PROVE  PriorInv'
<1>1. PICK f, c, inv, aux : f = Top(th) /\ c = CallOf(f) /\ inv = c.inv /\ aux = c.aux
  OBVIOUS
<1>2. /\ AtCall(th, "push_dependent") /\ c.call = "push_dependent" /\ c \in Call
      /\ inv \in Invoker /\ aux \in Invoker /\ aux # inv
      /\ \E g : /\ g \in FrameRec /\ Frames' = (Frames \ {f}) \cup {g} /\ g.pc = "push"
                /\ g.tgt = IF must_wait(c.on) THEN aux ELSE inv
  BY <1>1, PushDependentKeeps
<1>3. PICK g : /\ g \in FrameRec /\ Frames' = (Frames \ {f}) \cup {g} /\ g.pc = "push"
               /\ g.tgt = IF must_wait(c.on) THEN aux ELSE inv
  BY <1>2
<1>4. /\ Fresh(inv) /\ Fresh(aux)
      /\ kind' = IF must_wait(c.on) THEN [kind EXCEPT ![inv] = "task", ![aux] = "handle"]
                 ELSE [kind EXCEPT ![inv] = "task"]
      /\ bound' = IF must_wait(c.on) THEN [bound EXCEPT ![inv] = c, ![aux] = c]
                  ELSE [bound EXCEPT ![inv] = c]
      /\ UNCHANGED <<remaining, dependents, control_futures, status>>
  BY <1>1 DEF PushDependent, controlVars
<1>5. f \in Frames /\ f.pc = "body"
  BY <1>1, <1>2, CallFrame
<1>6. PICK T : T = IF must_wait(c.on) THEN {inv, aux} ELSE {inv}
  OBVIOUS
<1>7. T \subseteq Invoker /\ (\A t \in T : Fresh(t)) /\ g.tgt \in T
  BY <1>2, <1>3, <1>4, <1>6
<1>8. \A t \in T : status'[t] = "CONSTRUCTING"
  BY <1>4, <1>7, FreshIsFree
<1>9. kind \in [Invoker -> Kind] /\ bound \in [Invoker -> Call]
  BY DEF QueueInv, QueueTypeOK, VarsOK
<1>10. /\ \A x \in Invoker \ T : status'[x] = status[x] /\ kind'[x] = kind[x] /\ bound'[x] = bound[x]
       /\ kind'[inv] = "task" /\ bound'[inv] = c /\ \A t \in T : kind'[t] \in {"task", "handle"}
  BY <1>2, <1>4, <1>6, <1>9
<1>11. Allocates(T, f, g)
  BY <1>3, <1>4, <1>5, <1>7, <1>10 DEF Allocates, Swaps
<1>12. \A x \in Invoker \ T : Needs(x)' = Needs(x)
  BY <1>4, <1>10, NeedsKept
<1>13. \A x \in T : PriorMet(x)'
  BY <1>8 DEF PriorMet, Offered
<1>14. Registers(g)'
  <2>1. ASSUME NEW p \in Needs(g.tgt)', kind'[g.tgt] = "task" PROVE status'[p] = "READY"
    <3>1. ~must_wait(c.on) /\ g.tgt = inv
      BY <1>2, <1>3, <1>4, <1>9, <2>1
    <3>2. p \in Invoker /\ In(c.on, p)'
      BY <1>10, <2>1, <3>1 DEF Needs
    <3>3. PICK i \in DOMAIN c.on : c.on[i] = p
      BY <3>2 DEF In
    <3>. QED BY <1>4, <3>1, <3>3 DEF must_wait
  <2>. QED BY <1>3, <2>1 DEF Registers, Registering
<1>15. Controls'
  BY <1>4, <1>7, <1>10, ControlsKept DEF PriorInv
<1>. QED BY <1>11, <1>12, <1>13, <1>14, <1>15, AllocPriors

\* What appending the new control t does to the order of the controls.
LEMMA EarlierNow ==
  ASSUME QueueInv, Controls, NEW t \in Invoker, Fresh(t), control_futures' = Append(control_futures, t),
         kind' = [kind EXCEPT ![t] = "control"]
  PROVE  /\ Controls'
         /\ \A x \in Invoker \ {t} : \A p : Earlier(p, x)' <=> Earlier(p, x)
         /\ \A p : Earlier(p, t)' => In(control_futures, p)
<1>1. PICK s, r, n : s = control_futures /\ r = control_futures' /\ n = Len(s)
  OBVIOUS
<1>2. s \in Seq(Invoker) /\ n \in Nat /\ DOMAIN s = 1 .. n
  BY <1>1 DEF QueueInv, QueueTypeOK, VarsOK
<1>3. DOMAIN r = 1 .. n + 1 /\ r[n + 1] = t /\ \A i \in 1 .. n : r[i] = s[i]
  BY <1>1, <1>2, AppendProperties
<1>4. kind \in [Invoker -> Kind] /\ kind[t] = "none"
  BY DEF QueueInv, QueueTypeOK, VarsOK, Fresh
<1>5. \A i \in 1 .. n : s[i] # t
  <2>1. ~In(control_futures, t)
    BY <1>4 DEF Controls
  <2>. QED BY <1>1, <1>2, <2>1 DEF In
<1>6. \A i, j \in 1 .. n : s[i] = s[j] => i = j
  BY <1>1, <1>2 DEF Controls
<1>7. \A p : In(control_futures, p) <=> \E i \in 1 .. n : s[i] = p
  BY <1>1, <1>2 DEF In
<1>8. \A p : In(control_futures, p)' <=> \E i \in 1 .. n + 1 : r[i] = p
  BY <1>1, <1>3 DEF In
<1>9. \A i \in 1 .. n + 1 : i = n + 1 \/ i \in 1 .. n
  BY <1>2
<1>10. 1 .. n \subseteq 1 .. n + 1 /\ n + 1 \in 1 .. n + 1
  BY <1>2
<1>11. \A i, j \in 1 .. n + 1 : r[i] = r[j] => i = j
  BY <1>3, <1>5, <1>6, <1>9
<1>12. ASSUME NEW x \in Invoker PROVE kind'[x] = "control" <=> \E i \in 1 .. n + 1 : r[i] = x
  <2>1. CASE x = t
    BY <1>3, <1>4, <1>10, <2>1
  <2>2. CASE x # t
    <3>1. kind'[x] = "control" <=> \E i \in 1 .. n : s[i] = x
      BY <1>4, <1>7, <2>2 DEF Controls
    <3>2. (\E i \in 1 .. n + 1 : r[i] = x) <=> \E i \in 1 .. n : s[i] = x
      BY <1>3, <1>9, <1>10, <2>2
    <3>. QED BY <3>1, <3>2
  <2>. QED BY <2>1, <2>2
<1>13. Controls'
  BY <1>1, <1>3, <1>8, <1>11, <1>12 DEF Controls
<1>14. /\ \A p, x : Earlier(p, x)' <=> \E i, j \in 1 .. n + 1 : i < j /\ r[i] = p /\ r[j] = x
       /\ \A p, x : Earlier(p, x) <=> \E i, j \in 1 .. n : i < j /\ s[i] = p /\ s[j] = x
  BY <1>1, <1>2, <1>3 DEF Earlier
<1>15. \A i, j \in 1 .. n + 1 : i < j => i \in 1 .. n
  BY <1>2
<1>16. ASSUME NEW x \in Invoker \ {t}, NEW p PROVE Earlier(p, x)' <=> Earlier(p, x)
  <2>1. (\E i, j \in 1 .. n + 1 : i < j /\ r[i] = p /\ r[j] = x) => \E i, j \in 1 .. n : i < j /\ s[i] = p /\ s[j] = x
    BY <1>3, <1>9, <1>15
  <2>2. (\E i, j \in 1 .. n : i < j /\ s[i] = p /\ s[j] = x) => \E i, j \in 1 .. n + 1 : i < j /\ r[i] = p /\ r[j] = x
    BY <1>3, <1>10
  <2>. QED BY <1>14, <2>1, <2>2
<1>17. ASSUME NEW p, Earlier(p, t)' PROVE In(control_futures, p)
  <2>0. \E i, j \in 1 .. n + 1 : i < j /\ r[i] = p /\ r[j] = t
    <3>1. Earlier(p, t)' <=> \E i, j \in 1 .. n + 1 : i < j /\ r[i] = p /\ r[j] = t
      BY <1>14
    <3>. QED BY <1>17, <3>1
  <2>1. PICK i, j \in 1 .. n + 1 : i < j /\ r[i] = p /\ r[j] = t
    BY <2>0
  <2>2. i \in 1 .. n
    BY <1>15, <2>1
  <2>. QED BY <1>3, <1>7, <2>1, <2>2
<1>. QED BY <1>13, <1>16, <1>17

LEMMA SetNumberPriors ==
  ASSUME QueueInv, QueueInv', PriorInv, NEW th \in Thread, script' = script, SetNumberOfThreads(th)
  PROVE  PriorInv'
<1>1. PICK f, t : f = Top(th) /\ t = CallOf(f).inv
  OBVIOUS
<1>2. /\ AtCall(th, "set_number_of_threads") /\ t \in Invoker
      /\ \E g : /\ g \in FrameRec /\ Frames' = (Frames \ {f}) \cup {g} /\ g.pc = "controls" /\ g.todo = control_futures /\ g.tgt = t
  BY <1>1, SetNumberKeeps
<1>3. PICK g : /\ g \in FrameRec /\ Frames' = (Frames \ {f}) \cup {g} /\ g.pc = "controls" /\ g.todo = control_futures /\ g.tgt = t
  BY <1>2
<1>4. /\ Fresh(t) /\ kind' = [kind EXCEPT ![t] = "control"] /\ bound' = [bound EXCEPT ![t] = CallOf(f)]
      /\ control_futures' = Append(control_futures, t) /\ UNCHANGED <<remaining, dependents, status>>
  BY <1>1 DEF SetNumberOfThreads
<1>5. f \in Frames /\ f.pc = "body"
  BY <1>1, <1>2, CallFrame
<1>6. /\ Controls'
      /\ \A x \in Invoker \ {t} : \A p : Earlier(p, x)' <=> Earlier(p, x)
      /\ \A p : Earlier(p, t)' => In(control_futures, p)
  BY <1>2, <1>4, EarlierNow DEF PriorInv
<1>7. kind'[t] = "control" /\ status'[t] = "CONSTRUCTING"
  BY <1>2, <1>4, FreshIsFree DEF QueueInv, QueueTypeOK, VarsOK
<1>8. \A x \in Invoker \ {t} : status'[x] = status[x] /\ kind'[x] = kind[x] /\ bound'[x] = bound[x]
  BY <1>2, <1>4 DEF QueueInv, QueueTypeOK, VarsOK
<1>9. {t} \subseteq Invoker /\ \A x \in {t} : Fresh(x)
  BY <1>2, <1>4
<1>10. Allocates({t}, f, g)
  BY <1>3, <1>4, <1>5, <1>8, <1>9 DEF Allocates, Swaps
<1>11. \A x \in Invoker \ {t} : Needs(x)' = Needs(x)
  BY <1>6, <1>8 DEF Needs, In
<1>12. \A x \in {t} : PriorMet(x)'
  BY <1>7 DEF PriorMet, Offered
<1>13. Registers(g)'
  <2>1. ASSUME NEW p \in Needs(t)' PROVE In(g.todo, p)
    <3>1. Earlier(p, t)'
      BY <1>7, <2>1 DEF Needs
    <3>. QED BY <1>3, <1>6, <3>1
  <2>2. \A p : In(g.todo, p)' <=> In(g.todo, p)
    BY DEF In
  <2>. QED BY <1>3, <2>1, <2>2 DEF Registers, Registering
<1>. QED BY <1>6, <1>10, <1>11, <1>12, <1>13, AllocPriors

LEMMA WaitDecidePriors ==
  ASSUME QueueInv, QueueInv', PriorInv, NEW th \in Thread, script' = script, WaitDecide(th)
  PROVE  PriorInv'
<1>1. PICK f, c, t : f = Top(th) /\ c = CallOf(f) /\ t = c.inv
  OBVIOUS
<1>2. /\ At(th, "visit") /\ f.ip <= Len(Calls(f.run)) /\ c.call = "wait"
      /\ \/ Goes(th, NextCall(f)) /\ kind' = kind
         \/ /\ t \in Invoker /\ Fresh(t) /\ kind' = [kind EXCEPT ![t] = "waiter"]
            /\ \E g : /\ g \in FrameRec /\ Frames' = (Frames \ {f}) \cup {g} /\ g.run = f.run
                      /\ g.pc = "register" /\ g.todo = c.on /\ g.tgt = t /\ g.ip = f.ip
  BY <1>1, WaitDecideKeeps
<1>3. UNCHANGED <<remaining, dependents, bound, control_futures, status>>
  BY DEF WaitDecide, controlVars
<1>4. f \in Frames /\ f \in FrameRec /\ f.pc = "visit"
  BY <1>1, <1>2, AtFrame
<1>5. CASE Goes(th, NextCall(f))
  <2>1. PICK g : g = NextCall(f)
    OBVIOUS
  <2>2. g.pc = "body"
    BY <1>4, <2>1, NextCallFrame
  <2>3. Aside(g) /\ f.pc # "count"
    BY <1>4, <2>2, AsidePcs DEF Aside
  <2>. QED BY <1>1, <1>3, <1>5, <2>1, <2>3, GoesPriors
<1>6. CASE ~Goes(th, NextCall(f))
  <2>1. t \in Invoker /\ Fresh(t) /\ kind' = [kind EXCEPT ![t] = "waiter"]
    BY <1>2, <1>6
  <2>2. PICK g : /\ g \in FrameRec /\ Frames' = (Frames \ {f}) \cup {g} /\ g.run = f.run
                 /\ g.pc = "register" /\ g.todo = c.on /\ g.tgt = t /\ g.ip = f.ip
    BY <1>2, <1>6
  <2>3. kind'[t] = "waiter" /\ status'[t] = "CONSTRUCTING"
    BY <1>3, <2>1, FreshIsFree DEF QueueInv, QueueTypeOK, VarsOK
  <2>4. \A x \in Invoker \ {t} : status'[x] = status[x] /\ kind'[x] = kind[x] /\ bound'[x] = bound[x]
    BY <1>3, <2>1 DEF QueueInv, QueueTypeOK, VarsOK
  <2>5. PICK T : T = {t}
    OBVIOUS
  <2>6. /\ T \subseteq Invoker /\ \A x \in T : Fresh(x) /\ kind'[x] # "control"
        /\ \A x \in Invoker \ T : status'[x] = status[x] /\ kind'[x] = kind[x] /\ bound'[x] = bound[x]
    BY <2>1, <2>3, <2>4, <2>5
  <2>7. Allocates(T, f, g)
    BY <1>3, <1>4, <2>2, <2>6 DEF Allocates, Swaps
  <2>8. \A x \in Invoker \ T : Needs(x)' = Needs(x)
    BY <1>3, <2>6, NeedsKept
  <2>9. \A x \in T : PriorMet(x)'
    BY <2>3, <2>5 DEF PriorMet, Offered
  <2>10. Controls'
    BY <1>3, <2>6, ControlsKept DEF PriorInv
  <2>11. Registers(g)'
    <3>1. CallOf(g)' = c /\ Len(Calls(g.run))' = Len(Calls(f.run))
      BY <1>1, <2>2 DEF CallOf, Calls
    <3>2. \A p : In(g.todo, p)' <=> In(c.on, p)
      BY <2>2 DEF In
    <3>3. NeedsOf(g)' = {p \in Invoker : In(c.on, p)'}
      BY <2>2, <2>3, <3>1 DEF NeedsOf
    <3>4. \A p \in NeedsOf(g)' : In(g.todo, p)'
      BY <3>2, <3>3 DEF In
    <3>. QED BY <1>2, <2>2, <3>1, <3>4 DEF Registers, Registering
  <2>. QED BY <2>7, <2>8, <2>9, <2>10, <2>11, AllocPriors
<1>. QED BY <1>5, <1>6

(***************************************************************************)
(* The priors, in every state                                              *)
(***************************************************************************)
LEMMA InitialPriors ==
  ASSUME Init
  PROVE  PriorInv
<1>1. /\ \A t \in Invoker : status[t] = "CONSTRUCTING" /\ kind[t] = "none" /\ remaining[t] = 0 /\ dependents[t] = <<>>
      /\ control_futures = <<>>
  BY DEF Init
<1>2. \A f \in Frames : f.pc = "body"
  BY InitialFrames, FramesAre
<1>3. Counted
  <2>1. ASSUME NEW x \in Invoker PROVE Out(x) = {} /\ ~Counting(x)
    <3>1. \A p \in Invoker : DOMAIN dependents[p] = {}
      BY <1>1
    <3>2. Out(x) = {}
      BY <3>1, OutIs
    <3>. QED BY <1>2, <3>2 DEF Counting
  <2>2. ASSUME NEW x \in Invoker
        PROVE  IsFiniteSet(Out(x)) /\ Cardinality(Out(x)) <= remaining[x] + (IF Counting(x) THEN 1 ELSE 0)
    <3>1. IsFiniteSet(Out(x)) /\ Cardinality(Out(x)) = 0
      BY <2>1, FS_EmptySet
    <3>. QED BY <1>1, <2>1, <3>1
  <2>. QED BY <2>2 DEF Counted
<1>4. PriorsMet
  BY <1>1 DEF PriorsMet, PriorMet, Offered
<1>5. Controls
  BY <1>1 DEF Controls, In
<1>6. \A f \in Frames : Follows(f) /\ Registers(f)
  <2>1. \A f \in Frames : Aside(f)
    BY <1>2, AsidePcs DEF Aside
  <2>. QED BY <2>1, AsideFrame
<1>. QED BY <1>3, <1>4, <1>5, <1>6 DEF PriorInv

LEMMA StepPriors ==
  ASSUME QueueInv, QueueInv', PriorInv, NEW th \in Thread, Step(th)
  PROVE  PriorInv'
<1>. script' = script
  BY DEF Step
<1>1. CASE Push(th) \/ PushDependent(th) \/ SetNumberOfThreads(th) \/ WaitDecide(th)
  BY <1>1, PushPriors, PushDependentPriors, SetNumberPriors, WaitDecidePriors
<1>2. CASE PushTarget(th) \/ ControlEnqueue(th)
  BY <1>2, EnqueuePriors DEF EnqueueStep
<1>3. CASE Notify(th) \/ Wait(th) \/ WaitReturn(th) \/ FutureWait(th) \/ WaitVisit(th) \/ WaitLock(th)
  BY <1>3, CallPriors
<1>4. CASE WaitTake(th) \/ (th \in Worker /\ WorkerPop(th))
  BY <1>4, TakePriors
<1>5. CASE Register(th) \/ RegisterAppend(th) \/ RegisterCount(th) \/ ControlDepends(th)
  BY <1>5, RegisterPriors DEF RegisterStep
<1>6. CASE RegisterSettle(th) \/ ControlInline(th)
  BY <1>6, SettlePriors, ControlInlinePriors
<1>7. CASE \/ InvokeNonVoid(th) \/ ControlSkip(th) \/ Grow(th) \/ GrowDone(th) \/ Shrink(th) \/ ShrinkSet(th)
           \/ ShrinkNotify(th) \/ ShrinkJoin(th) \/ Destroy(th) \/ DestroyNotify(th) \/ DestroySync(th)
  BY <1>7, PlainPriors DEF PlainStep
<1>8. CASE Finish(th) \/ Signal(th) \/ SignalDependent(th)
  BY <1>8, FinishPriors, SignalPriors, SignalDependentPriors
<1>9. CASE SignalDone(th) \/ SignalLaunch(th) \/ SignalWake(th)
  BY <1>9, SignalDonePriors, LaunchPriors
<1>10. CASE GrowSpawn(th) \/ (th \in Worker /\ (WorkerHold(th) \/ WorkerExit(th)))
  BY <1>10, StillPriors
<1>. QED BY <1>1, <1>2, <1>3, <1>4, <1>5, <1>6, <1>7, <1>8, <1>9, <1>10
         DEF Step, CallStep, InvokeStep, ControlStep, WorkerStep

LEMMA IdlePriors ==
  ASSUME PriorInv, UNCHANGED vars
  PROVE  PriorInv'
<1>1. UNCHANGED <<script, stack, status, remaining, dependents, kind, bound, control_futures>>
  BY DEF vars, futureVars, controlVars
<1>2. Frames' = Frames
  BY <1>1 DEF Frames
<1>3. \A p, i : Unsignalled(p, i)' <=> Unsignalled(p, i)
  BY <1>1, <1>2 DEF Unsignalled
<1>4. ASSUME NEW x PROVE Out(x)' = Out(x)
  <2>1. ASSUME NEW z PROVE z \in Out(x)' <=> z \in Out(x)
    <3>1. z \in Out(x)' <=> \E p \in Invoker : \E i \in DOMAIN dependents[p] :
                              z = <<p, i>> /\ dependents[p][i] = x /\ Unsignalled(p, i)
      BY <1>1, <1>3, OutIs
    <3>. QED BY <3>1, OutIs
  <2>. QED BY <2>1
<1>5. \A x, p : /\ Met(x, p)' <=> Met(x, p)
                /\ Earlier(p, x)' <=> Earlier(p, x)
                /\ In(x, p)' <=> In(x, p)
  BY <1>1, <1>4 DEF Met, Earlier, In
<1>6. \A x : (Counting(x)' <=> Counting(x)) /\ Needs(x)' = Needs(x)
  BY <1>1, <1>2, <1>5 DEF Counting, Needs
<1>7. Counted'
  BY <1>1, <1>4, <1>6 DEF PriorInv, Counted
<1>8. PriorsMet'
  BY <1>1, <1>5, <1>6 DEF PriorInv, PriorsMet, PriorMet
<1>9. Controls'
  BY <1>1, <1>5 DEF PriorInv, Controls
<1>10. ASSUME NEW f \in Frames PROVE Follows(f)' /\ Registers(f)'
  <2>1. Calls(f.run)' = Calls(f.run) /\ CallOf(f)' = CallOf(f)
    BY <1>1 DEF Calls, CallOf
  <2>2. NeedsOf(f)' = NeedsOf(f)
    BY <1>1, <1>5, <1>6, <2>1 DEF NeedsOf
  <2>3. Follows(f) /\ Registers(f)
    BY DEF PriorInv
  <2>4. Follows(f)'
    BY <1>1, <2>3 DEF Follows
  <2>5. \A p : Met(f.tgt, p)' <=> Met(f.tgt, p)
    <3>1. PICK t : t = f.tgt
      OBVIOUS
    <3>2. \A p : Met(t, p)' <=> Met(t, p)
      BY <1>5
    <3>. QED BY <3>1, <3>2
  <2>6. \A p : In(f.todo, p)' <=> In(f.todo, p)
    BY <1>5
  <2>7. Needs(f.tgt)' = Needs(f.tgt)
    BY <1>6
  <2>. QED BY <1>1, <2>1, <2>2, <2>3, <2>4, <2>5, <2>6, <2>7 DEF Registers
<1>. QED BY <1>2, <1>7, <1>8, <1>9, <1>10 DEF PriorInv

(***************************************************************************)
(* wait()                                                                  *)
(***************************************************************************)
\* A waiter leaves ON_HOLD when there is nothing left to wait for.
Freed(x) == status'[x] = "ON_HOLD" \/ \A p \in Invoker : Met(x, p) => status'[p] = "READY"
\* What every step does to the invokers.
Lasting ==
  /\ Steady /\ script' = script
  /\ \A x \in Invoker : kind[x] # "none" => kind'[x] = kind[x]
  /\ \A x \in Invoker : status[x] # "CONSTRUCTING" => status'[x] # "CONSTRUCTING"
  /\ \A x \in Invoker : kind[x] = "waiter" /\ status[x] = "ON_HOLD" => Freed(x)

LEMMA ReadyStays ==
  ASSUME Steady, NEW s \in Seq(Invoker), ~must_wait(s)
  PROVE  ~must_wait(s)'
<1>1. \A i \in DOMAIN s : s[i] \in Invoker
  OBVIOUS
<1>. QED BY <1>1 DEF Steady, must_wait

LEMMA CallsStay ==
  ASSUME script' = script, NEW f
  PROVE  /\ Calls(f.run)' = Calls(f.run) /\ CallOf(f)' = CallOf(f)
         /\ \A s, p : In(s, p)' <=> In(s, p)
BY DEF Calls, CallOf, In

LEMMA WaitedStays ==
  ASSUME QueueInv, Lasting, NEW f, NEW g, g.run = f.run, g.ip = f.ip, Waited(f)
  PROVE  Waited(g)'
<1>1. Calls(f.run)' = Calls(f.run) /\ Calls(g.run)' = Calls(f.run)
  BY DEF Lasting, Calls
<1>2. /\ DOMAIN Calls(f.run) = 1 .. Len(Calls(f.run))
      /\ \A k \in DOMAIN Calls(f.run) : Calls(f.run)[k].on \in Seq(Invoker)
  BY CallFacts DEF QueueInv, QueueTypeOK, VarsOK, Call
<1>3. ASSUME NEW k \in DOMAIN Calls(f.run), k < f.ip, Calls(f.run)[k].call = "wait"
      PROVE  ~must_wait(Calls(f.run)[k].on)'
  <2>1. PICK s : s = Calls(f.run)[k].on /\ s \in Seq(Invoker)
    BY <1>2
  <2>2. ~must_wait(s)
    BY <1>3, <2>1 DEF Waited
  <2>3. ~must_wait(s)'
    BY <2>1, <2>2, ReadyStays DEF Lasting
  <2>4. Calls(f.run)[k].on' = s
    BY <1>1, <2>1
  <2>. QED BY <2>3, <2>4 DEF must_wait
<1>. QED BY <1>1, <1>3 DEF Waited

LEMMA HelpedStays ==
  ASSUME Lasting, NEW f, NEW r, Helped(f, r)
  PROVE  Helped(f, r)'
<1>1. CallOf(f)' = CallOf(f) /\ \A s, p : In(s, p)' <=> In(s, p)
  BY CallsStay DEF Lasting
<1>. QED BY <1>1 DEF Helped, Lasting, Steady

LEMMA BusyStays ==
  ASSUME QueueInv, Lasting, NEW f \in Frames, Busy(f)
  PROVE  Busy(f)'
<1>1. CallOf(f)' = CallOf(f) /\ Calls(f.run)' = Calls(f.run)
  BY CallsStay DEF Lasting
<1>2. ASSUME f.pc \in Registering PROVE kind'[f.tgt] = kind[f.tgt]
  <2>1. f.pc \in Claiming
    BY <1>2 DEF Claiming
  <2>2. f.tgt \in Invoker /\ kind[f.tgt] # "none"
    BY <2>1, ClaimedIsFree
  <2>. QED BY <2>2 DEF Lasting
<1>. QED BY <1>1, <1>2 DEF Busy

LEMMA BlockedStays ==
  ASSUME Lasting, NEW f, Blocked(f)
  PROVE  Blocked(f)'
<1>1. CallOf(f)' = CallOf(f) /\ Calls(f.run)' = Calls(f.run) /\ \A s, p : In(s, p)' <=> In(s, p)
  BY CallsStay DEF Lasting
<1>. SUFFICES ASSUME f.pc = "block" PROVE Blocked(f)'
  BY DEF Blocked
<1>2. PICK t : t = f.tgt
  OBVIOUS
<1>3. /\ f.ip <= Len(Calls(f.run)) /\ CallOf(f).call = "wait"
      /\ t \in Invoker /\ kind[t] = "waiter" /\ status[t] # "CONSTRUCTING"
      /\ \A p \in Invoker : In(CallOf(f).on, p) => status[p] = "READY" \/ (status[t] = "ON_HOLD" /\ Met(t, p))
  BY <1>2 DEF Blocked
<1>4. kind'[t] = "waiter" /\ status'[t] # "CONSTRUCTING"
  BY <1>3 DEF Lasting
<1>5. ASSUME NEW p \in Invoker, In(CallOf(f).on, p)
      PROVE  status'[p] = "READY" \/ (status'[t] = "ON_HOLD" /\ Met(t, p)')
  <2>1. CASE status[p] = "READY"
    BY <2>1 DEF Lasting, Steady
  <2>2. CASE status[t] = "ON_HOLD" /\ Met(t, p)
    <3>1. Met(t, p)'
      BY <2>2, MetStays DEF Lasting
    <3>2. status'[t] = "ON_HOLD" \/ \A x \in Invoker : Met(t, x) => status'[x] = "READY"
      BY <1>3, <2>2 DEF Lasting, Freed
    <3>. QED BY <2>2, <3>1, <3>2
  <2>. QED BY <1>3, <1>5, <2>1, <2>2
<1>6. \A p \in Invoker : In(CallOf(f).on, p)' => status'[p] = "READY" \/ (status'[t] = "ON_HOLD" /\ Met(t, p)')
  <2>1. \A p : In(CallOf(f).on, p)' => In(CallOf(f).on, p)
    BY <1>1 DEF In
  <2>. QED BY <1>5, <2>1
<1>7. \A p \in Invoker : Met(t, p)' <=> Met(f.tgt, p)'
  BY <1>2
<1>. QED BY <1>1, <1>2, <1>3, <1>4, <1>6, <1>7 DEF Blocked

LEMMA FitsStays ==
  ASSUME QueueInv, Lasting, NEW f \in Frames, NEW r, Fits(f, r)
  PROVE  Fits(f, r)'
<1>1. Waited(f)'
  BY WaitedStays DEF Fits
<1>. QED BY <1>1, HelpedStays, BusyStays, BlockedStays DEF Fits

\* A frame goes on, or one more is put above it.
LEMMA GotoWaits ==
  ASSUME QueueInv, WaitInv, Lasting, NEW th \in Thread, stack[th] # <<>>,
         NEW g \in FrameRec, g.run = Top(th).run, Goto(th, g), Fits(g, NULL)'
  PROVE  WaitInv'
<1>1. /\ QueueTypeOK /\ OneFrame /\ stack \in [Thread -> Seq(FrameRec)]
  BY DEF QueueInv, QueueTypeOK, CallsInv
<1>2. \A u \in Thread : /\ DOMAIN stack'[u] = DOMAIN stack[u] /\ Len(stack'[u]) = Len(stack[u])
                        /\ \A i \in DOMAIN stack[u] :
                             stack'[u][i] = IF u = th /\ i = Len(stack[th]) THEN g ELSE stack[u][i]
  BY <1>1, GotoFrames
<1>3. Top(th) = stack[th][Len(stack[th])]
  BY <1>1, TopFrame
<1>. SUFFICES ASSUME NEW u \in Thread, NEW i \in DOMAIN stack[u],
                     NEW e, e = stack'[u][i], NEW r, r = Above(u, i)'
              PROVE  Fits(e, r)'
  BY <1>2 DEF WaitInv
<1>4. PICK n : n = Len(stack[u]) /\ n \in Nat /\ DOMAIN stack[u] = 1 .. n
  BY <1>1
<1>5. CASE u = th /\ i = n
  <2>1. e = g /\ ~(i < Len(stack'[u]))
    BY <1>2, <1>4, <1>5
  <2>2. r = NULL
    BY <2>1 DEF Above
  <2>. QED BY <2>1, <2>2
<1>6. CASE ~(u = th /\ i = n)
  <2>1. e = stack[u][i]
    BY <1>2, <1>4, <1>6
  <2>2. r = Above(u, i)
    <3>1. CASE i < n
      <4>1. i + 1 \in 1 .. n
        BY <1>4, <3>1
      <4>2. stack'[u][i + 1].run = stack[u][i + 1].run
        BY <1>2, <1>3, <1>4, <4>1
      <4>. QED BY <1>2, <1>4, <3>1, <4>2 DEF Above
    <3>2. CASE ~(i < n)
      BY <1>2, <1>4, <3>2 DEF Above
    <3>. QED BY <3>1, <3>2
  <2>3. e \in Frames /\ Fits(e, r)
    BY <2>1, <2>2, FramesAre DEF WaitInv
  <2>. QED BY <2>3, FitsStays
<1>. QED BY <1>5, <1>6

LEMMA EnterWaits ==
  ASSUME QueueInv, WaitInv, Lasting, NEW th \in Thread, stack[th] # <<>>,
         NEW g \in FrameRec, g.run = Top(th).run, NEW h \in FrameRec, \A e \in Frames : e.run # h.run, Enter(th, g, h),
         NEW x, x = h.run, Fits(g, x)', Fits(h, NULL)'
  PROVE  WaitInv'
<1>1. /\ QueueTypeOK /\ OneFrame /\ stack \in [Thread -> Seq(FrameRec)]
  BY DEF QueueInv, QueueTypeOK, CallsInv
<1>2. PICK n : n = Len(stack[th]) /\ n \in Nat /\ DOMAIN stack[th] = 1 .. n
  BY <1>1
<1>3. /\ \A u \in Thread : u # th => stack'[u] = stack[u]
      /\ stack' \in [Thread -> Seq(FrameRec)]
      /\ Len(stack'[th]) = n + 1
      /\ \A i \in 1 .. n : stack'[th][i] = IF i = n THEN g ELSE stack[th][i]
      /\ stack'[th][n + 1] = h
  BY <1>1, <1>2, EnterFrames
<1>4. Top(th) = stack[th][n]
  BY <1>1, <1>2, TopFrame
<1>5. ASSUME NEW u \in Thread, NEW i \in DOMAIN stack[u], NEW e, e = stack[u][i], NEW r, r = Above(u, i)
      PROVE  Fits(e, r)'
  <2>1. e \in Frames /\ Fits(e, r)
    BY <1>5, FramesAre DEF WaitInv
  <2>. QED BY <2>1, FitsStays
<1>. SUFFICES ASSUME NEW u \in Thread, NEW i \in DOMAIN stack'[u],
                     NEW e, e = stack'[u][i], NEW r, r = Above(u, i)'
              PROVE  Fits(e, r)'
  BY DEF WaitInv
<1>6. CASE u # th
  <2>1. stack'[u] = stack[u]
    BY <1>3, <1>6
  <2>2. i \in DOMAIN stack[u] /\ e = stack[u][i] /\ r = Above(u, i)
    BY <2>1 DEF Above
  <2>. QED BY <1>5, <2>2
<1>7. CASE u = th
  <2>1. i \in 1 .. n + 1
    BY <1>3, <1>7
  <2>2. CASE i = n + 1
    <3>1. e = h /\ ~(i < Len(stack'[u]))
      BY <1>2, <1>3, <1>7, <2>2
    <3>2. r = NULL
      BY <3>1 DEF Above
    <3>. QED BY <3>1, <3>2
  <2>3. CASE i = n
    <3>1. e = g /\ i < Len(stack'[u]) /\ stack'[u][i + 1] = h
      <4>1. n \in 1 .. n /\ n < n + 1
        BY <1>2, <2>1, <2>3
      <4>. QED BY <1>3, <1>7, <2>3, <4>1
    <3>2. r = x
      BY <3>1 DEF Above
    <3>. QED BY <3>1, <3>2
  <2>4. CASE i # n + 1 /\ i # n
    <3>1. i \in 1 .. n /\ i + 1 \in 1 .. n /\ i < n /\ i < n + 1
      BY <1>2, <2>1, <2>4
    <3>2. e = stack[u][i] /\ stack'[u][i + 1].run = stack[u][i + 1].run
      BY <1>3, <1>4, <1>7, <2>4, <3>1
    <3>3. r = Above(u, i)
      BY <1>2, <1>3, <1>7, <3>1, <3>2 DEF Above
    <3>. QED BY <1>2, <1>5, <1>7, <3>1, <3>2, <3>3
  <2>. QED BY <2>2, <2>3, <2>4
<1>. QED BY <1>6, <1>7

\* A frame ends: the invoker that it ran is ready.
LEMMA ReturnWaits ==
  ASSUME QueueInv, WaitInv, Lasting, NEW th \in Thread, stack[th] # <<>>, Return(th),
         Top(th).run \in Invoker, status'[Top(th).run] = "READY"
  PROVE  WaitInv'
<1>1. /\ QueueTypeOK /\ OneFrame /\ stack \in [Thread -> Seq(FrameRec)]
  BY DEF QueueInv, QueueTypeOK, CallsInv
<1>2. PICK n : n = Len(stack[th]) /\ n \in Nat /\ DOMAIN stack[th] = 1 .. n
  BY <1>1
<1>3. /\ \A u \in Thread : u # th => stack'[u] = stack[u]
      /\ stack' \in [Thread -> Seq(FrameRec)] /\ Len(stack'[th]) = n - 1
      /\ \A i \in DOMAIN stack'[th] : i \in 1 .. n /\ i < n /\ stack'[th][i] = stack[th][i]
  BY <1>1, <1>2, ReturnFrames
<1>4. Top(th) = stack[th][n]
  BY <1>1, <1>2, TopFrame
<1>5. ASSUME NEW e \in Frames, NEW r, Fits(e, r), r = Top(th).run PROVE Fits(e, NULL)'
  <2>1. Fits(e, r)'
    BY <1>5, FitsStays
  <2>. QED BY <1>5, <2>1 DEF Fits, Helped
<1>. SUFFICES ASSUME NEW u \in Thread, NEW i \in DOMAIN stack'[u],
                     NEW e, e = stack'[u][i], NEW r, r = Above(u, i)'
              PROVE  Fits(e, r)'
  BY DEF WaitInv
<1>6. i \in DOMAIN stack[u] /\ e = stack[u][i]
  BY <1>2, <1>3
<1>7. PICK x : x = Above(u, i)
  OBVIOUS
<1>8. e \in Frames /\ Fits(e, x)
  BY <1>6, <1>7, FramesAre DEF WaitInv
<1>9. CASE u # th
  <2>1. stack'[u] = stack[u]
    BY <1>3, <1>9
  <2>2. r = x
    BY <1>7, <2>1 DEF Above
  <2>. QED BY <1>8, <2>2, FitsStays
<1>10. CASE u = th /\ i < n - 1
  <2>1. i \in 1 .. n /\ i < n /\ i + 1 \in 1 .. n - 1
    BY <1>2, <1>3, <1>10
  <2>2. stack'[u][i + 1] = stack[u][i + 1]
    <3>1. DOMAIN stack'[th] = 1 .. n - 1
      BY <1>3
    <3>. QED BY <1>3, <1>10, <2>1, <3>1
  <2>3. r = x
    BY <1>2, <1>3, <1>7, <1>10, <2>1, <2>2 DEF Above
  <2>. QED BY <1>8, <2>3, FitsStays
<1>11. CASE u = th /\ ~(i < n - 1)
  <2>1. i \in 1 .. n /\ i < n
    BY <1>3, <1>11
  <2>2. i + 1 = n
    BY <1>2, <1>11, <2>1
  <2>3. x = Top(th).run
    BY <1>2, <1>4, <1>7, <1>11, <2>1, <2>2 DEF Above
  <2>4. r = NULL
    BY <1>3, <1>11 DEF Above
  <2>. QED BY <1>5, <1>8, <2>3, <2>4
<1>. QED BY <1>9, <1>10, <1>11

\* A worker runs an invoker.
LEMMA StartWaits ==
  ASSUME QueueInv, WaitInv, Lasting, NEW th \in Thread, stack[th] = <<>>, NEW h \in FrameRec,
         stack' = [stack EXCEPT ![th] = <<h>>], Fits(h, NULL)'
  PROVE  WaitInv'
<1>1. stack \in [Thread -> Seq(FrameRec)]
  BY DEF QueueInv, QueueTypeOK
<1>2. /\ \A u \in Thread : u # th => stack'[u] = stack[u]
      /\ stack'[th] = <<h>>
  BY <1>1
<1>. SUFFICES ASSUME NEW u \in Thread, NEW i \in DOMAIN stack'[u],
                     NEW e, e = stack'[u][i], NEW r, r = Above(u, i)'
              PROVE  Fits(e, r)'
  BY DEF WaitInv
<1>3. CASE u # th
  <2>1. stack'[u] = stack[u]
    BY <1>2, <1>3
  <2>2. i \in DOMAIN stack[u] /\ e = stack[u][i] /\ r = Above(u, i)
    BY <2>1 DEF Above
  <2>3. e \in Frames /\ Fits(e, r)
    BY <2>2, FramesAre DEF WaitInv
  <2>. QED BY <2>3, FitsStays
<1>4. CASE u = th
  <2>1. stack'[u] = <<h>>
    BY <1>2, <1>4
  <2>2. i = 1 /\ e = h /\ Len(stack'[u]) = 1
    BY <2>1
  <2>3. r = NULL
    BY <2>2 DEF Above
  <2>. QED BY <2>2, <2>3
<1>. QED BY <1>3, <1>4

\* A step that leaves the stacks alone.
LEMMA StillWaits ==
  ASSUME QueueInv, WaitInv, Lasting, stack' = stack
  PROVE  WaitInv'
<1>. SUFFICES ASSUME NEW u \in Thread, NEW i \in DOMAIN stack[u],
                     NEW e, e = stack[u][i], NEW r, r = Above(u, i)'
              PROVE  Fits(e, r)'
  BY DEF WaitInv
<1>1. r = Above(u, i)
  BY DEF Above
<1>2. e \in Frames /\ Fits(e, r)
  BY <1>1, FramesAre DEF WaitInv
<1>. QED BY <1>2, FitsStays

\* The invokers in a step that moves none of them from ON_HOLD, or only when
\* there is nothing left to wait for.
LEMMA Lasts ==
  ASSUME script' = script, Steady,
         \A x \in Invoker : kind[x] # "none" => kind'[x] = kind[x],
         \A x \in Invoker : \/ status'[x] = status[x]
                            \/ /\ status'[x] # "CONSTRUCTING"
                               /\ kind[x] = "waiter" /\ status[x] = "ON_HOLD" => Freed(x)
  PROVE  Lasting
<1>1. \A x \in Invoker : status[x] # "CONSTRUCTING" => status'[x] # "CONSTRUCTING"
  OBVIOUS
<1>2. \A x \in Invoker : kind[x] = "waiter" /\ status[x] = "ON_HOLD" => Freed(x)
  BY DEF Freed
<1>. QED BY <1>1, <1>2 DEF Lasting

LEMMA TopFits ==
  ASSUME QueueInv, WaitInv, NEW th \in Thread, stack[th] # <<>>, NEW f, f = Top(th)
  PROVE  f \in Frames /\ f \in FrameRec /\ Fits(f, NULL)
<1>1. /\ QueueTypeOK /\ OneFrame /\ stack \in [Thread -> Seq(FrameRec)]
  BY DEF QueueInv, QueueTypeOK, CallsInv
<1>2. f \in FrameRec /\ f \in Frames /\ f = stack[th][Len(stack[th])] /\ Len(stack[th]) \in DOMAIN stack[th]
  BY <1>1, TopFrame
<1>3. PICK i : i = Len(stack[th]) /\ i \in DOMAIN stack[th] /\ f = stack[th][i]
  BY <1>2
<1>4. ~(i < Len(stack[th]))
  BY <1>1, <1>3
<1>5. Above(th, i) = NULL
  BY <1>4 DEF Above
<1>. QED BY <1>2, <1>3, <1>5 DEF WaitInv

\* A frame that does something else than helping or blocking.
LEMMA MoveFits ==
  ASSUME QueueInv, Lasting, NEW f, Fits(f, NULL), NEW g, g.run = f.run, g.ip = f.ip,
         g.pc \notin Helping \cup {"block"},
         \/ g.pc \in {"push", "notify", "controls", "destroy", "sync"}
         \/ g.pc \in Registering /\ kind'[g.tgt] = "control"
         => f.ip <= Len(Calls(f.run)) /\ CallOf(f).call # "wait",
         NEW r
  PROVE  Fits(g, r)'
<1>1. Calls(g.run)' = Calls(f.run) /\ CallOf(g)' = CallOf(f)
  BY DEF Lasting, Calls, CallOf
<1>2. Busy(g)'
  BY <1>1 DEF Busy
<1>3. Blocked(g)' /\ Helped(g, r)'
  BY DEF Blocked, Helped
<1>4. Waited(g)'
  BY WaitedStays DEF Fits
<1>. QED BY <1>2, <1>3, <1>4 DEF Fits

LEMMA HelpFits ==
  ASSUME QueueInv, Lasting, NEW f, Fits(f, NULL), NEW g, g.run = f.run, g.ip = f.ip, g.pc \in Helping, NEW r,
         ~g.flag => \A p \in Invoker : In(CallOf(f).on, p) => In(g.todo, p) \/ status'[p] = "READY" \/ p = r
  PROVE  Fits(g, r)'
<1>1. Calls(g.run)' = Calls(f.run) /\ CallOf(g)' = CallOf(f) /\ \A s, p : In(s, p)' <=> In(s, p)
  BY DEF Lasting, Calls, CallOf, In
<1>2. g.pc \notin {"push", "notify", "controls", "destroy", "sync", "block"} \cup Registering
  BY DEF Helping, Registering
<1>3. Busy(g)' /\ Blocked(g)'
  BY <1>2 DEF Busy, Blocked
<1>4. Helped(g, r)'
  BY <1>1 DEF Helped
<1>5. Waited(g)'
  BY WaitedStays DEF Fits
<1>. QED BY <1>3, <1>4, <1>5 DEF Fits

\* The call after this one, which was no wait() or has waited.
LEMMA NextFits ==
  ASSUME QueueInv, Lasting, NEW f \in FrameRec, Fits(f, NULL), NEW g, g = NextCall(f),
         f.ip <= Len(Calls(f.run)) /\ CallOf(f).call = "wait" => ~must_wait(CallOf(f).on), NEW r
  PROVE  Fits(g, r)'
<1>1. g.run = f.run /\ g.pc = "body" /\ g.ip = f.ip + 1 /\ f.ip \in Nat
  BY NextCallFrame DEF FrameRec
<1>2. Busy(g)' /\ Blocked(g)' /\ Helped(g, r)'
  BY <1>1 DEF Busy, Blocked, Helped, Registering, Helping
<1>3. PICK l : l = Calls(f.run)
  OBVIOUS
<1>4. Calls(f.run)' = l /\ Calls(g.run)' = l
  BY <1>1, <1>3 DEF Lasting, Calls
<1>5. Len(l) \in Nat /\ DOMAIN l = 1 .. Len(l) /\ \A k \in DOMAIN l : l[k].on \in Seq(Invoker)
  BY <1>3, CallFacts DEF QueueInv, QueueTypeOK, VarsOK, Call
<1>6. ASSUME NEW k \in DOMAIN l, k < g.ip, l[k].call = "wait" PROVE ~must_wait(l[k].on)'
  <2>1. PICK s : s = l[k].on /\ s \in Seq(Invoker)
    BY <1>5
  <2>2. ~must_wait(s)
    <3>1. CASE k < f.ip
      BY <1>3, <1>6, <2>1, <3>1 DEF Fits, Waited
    <3>2. CASE k = f.ip
      <4>1. f.ip <= Len(Calls(f.run)) /\ CallOf(f) = l[k]
        BY <1>3, <1>5, <3>2 DEF CallOf
      <4>. QED BY <1>6, <2>1, <4>1
    <3>3. k < f.ip \/ k = f.ip
      BY <1>1, <1>5, <1>6
    <3>. QED BY <3>1, <3>2, <3>3
  <2>3. ~must_wait(s)'
    BY <2>1, <2>2, ReadyStays DEF Lasting
  <2>. QED BY <2>1, <2>3 DEF must_wait
<1>7. Waited(g)'
  BY <1>4, <1>6 DEF Waited
<1>. QED BY <1>2, <1>7 DEF Fits

\* The frame of an invoker that is started has called nothing yet.
LEMMA StartedFits ==
  ASSUME QueueInv, QueueInv', NEW t, NEW h, Starts(t, h)
  PROVE  Fits(h, NULL)'
<1>1. t \in Invoker /\ (h = Invocation(t) \/ h = [Invocation(t) EXCEPT !.flag = TRUE]) /\ UNCHANGED <<script, kind, bound>>
  BY DEF Starts
<1>2. /\ h.run = t /\ h.ip = 1
      /\ kind[t] = "handle" => h.pc = "register" /\ h.todo = bound[t].on /\ h.tgt = bound[t].inv
      /\ kind[t] = "control" => h.pc = "control"
      /\ kind[t] \notin {"handle", "control"} => h.pc = IF t \in NonVoid THEN "start" ELSE "body"
  BY <1>1, InvocationFrame
<1>3. kind[t] = "handle" => kind[bound[t].inv] = "task"
  <2>1. kind[t] = "handle" => Pending(t)
    BY DEF Starts, Pending
  <2>. QED BY <1>1, <2>1 DEF QueueInv, CallsInv, Handles, Handled
<1>4. Busy(h)'
  BY <1>1, <1>2, <1>3 DEF Busy, Registering
<1>5. Blocked(h)' /\ Helped(h, NULL)'
  BY <1>2 DEF Blocked, Helped, Helping
<1>6. PICK l : l = Calls(t)'
  OBVIOUS
<1>7. DOMAIN l = 1 .. Len(l) /\ Len(l) \in Nat
  <2>1. Calls(t)' = Calls(t)
    BY <1>1 DEF Calls
  <2>. QED BY <1>6, <2>1, CallFacts DEF QueueInv, QueueTypeOK, VarsOK
<1>8. Waited(h)'
  <2>1. Calls(h.run)' = l
    BY <1>2, <1>6
  <2>2. \A k \in DOMAIN l : ~(k < h.ip)
    BY <1>2, <1>7
  <2>. QED BY <2>1, <2>2 DEF Waited
<1>. QED BY <1>4, <1>5, <1>8 DEF Fits

\* What the step that starts an invoker does to the others.
LEMMA StartLasts ==
  ASSUME QueueInv, NEW t, NEW h, Starts(t, h), dependents' = dependents,
         kind[t] = "waiter" /\ status[t] = "ON_HOLD" => Freed(t)
  PROVE  Lasting
<1>1. /\ t \in Invoker /\ UNCHANGED <<script, kind, bound>>
      /\ \A p \in Invoker : status[p] = "READY" => status'[p] = "READY"
      /\ \A x \in Invoker : x # t => status'[x] = status[x]
      /\ status'[t] = "RUNNING"
  BY StartSteady
<1>2. Steady
  BY <1>1, SteadyStep
<1>. QED BY <1>1, <1>2, Lasts

\* A step that changes no status.
LEMMA StillLasts ==
  ASSUME script' = script, UNCHANGED <<status, kind, dependents>>
  PROVE  Lasting
<1>1. Steady
  BY SteadyStep
<1>. QED BY <1>1, Lasts

\* A frame goes on and no status changes.
LEMMA GoesWaits ==
  ASSUME QueueInv, WaitInv, NEW th, NEW g, Goes(th, g), dependents' = dependents,
         Lasting => Fits(g, NULL)'
  PROVE  WaitInv'
<1>1. th \in Thread /\ stack[th] # <<>> /\ Goto(th, g) /\ g \in FrameRec /\ g.run = Top(th).run /\ UNCHANGED <<script, status, kind>>
  BY DEF Goes, Quiet
<1>2. Lasting
  BY <1>1, StillLasts
<1>. QED BY <1>1, <1>2, GotoWaits

LEMMA AllReady ==
  ASSUME NEW s \in Seq(Invoker), \A p \in Invoker : In(s, p) => status[p] = "READY"
  PROVE  ~must_wait(s)
<1>1. \A i \in DOMAIN s : s[i] \in Invoker /\ In(s, s[i])
  BY DEF In
<1>. QED BY <1>1 DEF must_wait

LEMMA NextWaits ==
  ASSUME QueueInv, WaitInv, NEW th \in Thread, script' = script,
         Notify(th) \/ WaitReturn(th) \/ FutureWait(th)
  PROVE  WaitInv'
<1>1. PICK f, g : f = Top(th) /\ g = NextCall(f)
  OBVIOUS
<1>2. Goes(th, g) /\ dependents' = dependents /\ stack[th] # <<>>
  BY <1>1, CallGoes DEF Notify, WaitReturn, FutureWait, futureVars, At, AtCall
<1>3. f \in FrameRec /\ Fits(f, NULL)
  BY <1>1, <1>2, TopFits
<1>4. ASSUME f.ip <= Len(Calls(f.run)), CallOf(f).call = "wait" PROVE ~must_wait(CallOf(f).on)
  <2>1. CASE Notify(th)
    <3>1. f.pc = "notify"
      BY <1>1, <2>1 DEF Notify, At
    <3>. QED BY <1>3, <1>4, <3>1 DEF Fits, Busy
  <2>2. CASE WaitReturn(th)
    <3>1. f.pc = "block" /\ status[f.tgt] = "READY"
      BY <1>1, <2>2 DEF WaitReturn, At
    <3>2. \A p \in Invoker : In(CallOf(f).on, p) => status[p] = "READY"
      BY <1>3, <3>1 DEF Fits, Blocked
    <3>3. CallOf(f).on \in Seq(Invoker)
      BY <1>3, <1>4, CallOfFrame DEF QueueInv, QueueTypeOK, VarsOK
    <3>. QED BY <3>2, <3>3, AllReady
  <2>3. CASE FutureWait(th)
    BY <1>1, <1>4, <2>3, CallFrame DEF FutureWait
  <2>. QED BY <2>1, <2>2, <2>3
<1>5. Lasting => Fits(g, NULL)'
  BY <1>1, <1>3, <1>4, NextFits
<1>. QED BY <1>2, <1>5, GoesWaits

LEMMA VisitWaits ==
  ASSUME QueueInv, WaitInv, NEW th \in Thread, script' = script, Wait(th) \/ WaitVisit(th) \/ WaitLock(th)
  PROVE  WaitInv'
<1>1. PICK f : f = Top(th)
  OBVIOUS
<1>2. dependents' = dependents /\ stack[th] # <<>>
  BY DEF Wait, WaitVisit, WaitLock, futureVars, At, AtCall
<1>3. f \in FrameRec /\ Fits(f, NULL) /\ f \in Frames
  BY <1>1, <1>2, TopFits
<1>4. FrameGood(f)
  BY <1>3 DEF QueueInv, CallsInv, FrameInv
<1>5. ASSUME NEW g, Goes(th, g), g.ip = f.ip, g.pc \in Helping,
             ~g.flag => \A p \in Invoker : In(CallOf(f).on, p) => In(g.todo, p) \/ status[p] = "READY"
      PROVE  WaitInv'
  <2>1. g.run = f.run /\ status' = status
    BY <1>1, <1>5 DEF Goes, Quiet
  <2>2. Lasting => Fits(g, NULL)'
    BY <1>3, <1>5, <2>1, HelpFits
  <2>. QED BY <1>2, <1>5, <2>2, GoesWaits
<1>6. CASE Wait(th)
  <2>1. PICK g : g = [f EXCEPT !.pc = "visit", !.todo = CallOf(f).on]
    OBVIOUS
  <2>2. Goes(th, g)
    BY <1>1, <1>6, <2>1, CallGoes
  <2>3. g.ip = f.ip /\ g.pc = "visit" /\ g.todo = CallOf(f).on
    BY <1>3, <2>1 DEF FrameRec
  <2>. QED BY <1>5, <2>2, <2>3 DEF Helping
<1>7. ASSUME f.pc \in Helping, ~f.flag, NEW p \in Invoker, In(CallOf(f).on, p) PROVE In(f.todo, p) \/ status[p] = "READY"
  BY <1>3, <1>7, Constants DEF Fits, Helped
<1>8. ASSUME f.pc \in Helping, f.todo # <<>>, NEW g, Goes(th, g), g = Visited(f, TRUE) PROVE WaitInv'
  <2>1. g.ip = f.ip /\ g.pc = "visit" /\ g.flag
    BY <1>3, <1>8, VisitedFrame
  <2>. QED BY <1>5, <1>8, <2>1 DEF Helping
<1>9. ASSUME f.pc \in Helping, NEW pc \in {"try", "take"}, NEW g, Goes(th, g), g = [f EXCEPT !.pc = pc] PROVE WaitInv'
  <2>1. g.ip = f.ip /\ g.pc = pc /\ g.flag = f.flag /\ g.todo = f.todo
    BY <1>3, <1>9 DEF FrameRec
  <2>. QED BY <1>5, <1>7, <1>9, <2>1 DEF Helping
<1>10. CASE WaitVisit(th)
  <2>1. f.pc \in Helping /\ f.todo # <<>>
    BY <1>1, <1>10 DEF WaitVisit, At, Helping
  <2>2. CASE Goes(th, Visited(f, FALSE)) /\ status[Head(f.todo)] = "READY"
    <3>1. PICK g : g = Visited(f, FALSE) /\ Goes(th, g)
      BY <2>2
    <3>2. g.ip = f.ip /\ g.pc = "visit" /\ g.todo = Tail(f.todo)
      BY <1>3, <2>1, <3>1, VisitedFrame
    <3>5. f.flag => g.flag
      BY <1>3, <2>1, <3>1, VisitedFrame
    <3>3. f.todo \in Seq(Invoker)
      BY <1>3 DEF FrameRec
    <3>4. \A p : In(f.todo, p) => In(g.todo, p) \/ status[p] = "READY"
      BY <2>1, <2>2, <3>2, <3>3, TailIn
    <3>. QED BY <1>5, <1>7, <2>1, <3>1, <3>2, <3>4, <3>5 DEF Helping
  <2>3. CASE Goes(th, Visited(f, TRUE))
    BY <1>8, <2>1, <2>3
  <2>4. CASE Goes(th, [f EXCEPT !.pc = "try"])
    BY <1>9, <2>1, <2>4
  <2>. QED BY <1>1, <1>10, <2>2, <2>3, <2>4, WaitVisitGoes
<1>11. CASE WaitLock(th)
  <2>1. f.pc = "try"
    BY <1>1, <1>11 DEF WaitLock, At
  <2>2. f.pc \in Helping /\ f.todo # <<>>
    BY <1>4, <2>1 DEF FrameGood, Helps, Helping
  <2>3. CASE Goes(th, Visited(f, TRUE))
    BY <1>8, <2>2, <2>3
  <2>4. CASE Goes(th, [f EXCEPT !.pc = "take"])
    BY <1>9, <2>2, <2>4
  <2>. QED BY <1>1, <1>11, <2>3, <2>4, WaitLockKeeps
<1>. QED BY <1>6, <1>10, <1>11

\* A wait() that finds its futures ready.
LEMMA WaitDecideWaits ==
  ASSUME QueueInv, QueueInv', WaitInv, NEW th \in Thread, script' = script, WaitDecide(th)
  PROVE  WaitInv'
<1>1. PICK f, c : f = Top(th) /\ c = CallOf(f)
  OBVIOUS
<1>2. /\ At(th, "visit") /\ f.todo = <<>> /\ f.ip <= Len(Calls(f.run)) /\ c.call = "wait"
      /\ \/ Goes(th, NextCall(f)) /\ ~(f.flag /\ must_wait(c.on))
         \/ /\ c.inv \in Invoker /\ Fresh(c.inv) /\ kind' = [kind EXCEPT ![c.inv] = "waiter"]
            /\ \E g : /\ g \in FrameRec /\ Goto(th, g) /\ g.run = f.run
                      /\ g.pc = "register" /\ g.tgt = c.inv /\ g.ip = f.ip
  BY <1>1, WaitDecideKeeps
<1>3. UNCHANGED <<dependents, status>>
  BY DEF WaitDecide
<1>4. f \in FrameRec /\ Fits(f, NULL) /\ f.pc = "visit" /\ stack[th] # <<>>
  BY <1>1, <1>2, TopFits DEF At
<1>5. CASE Goes(th, NextCall(f)) /\ ~(f.flag /\ must_wait(c.on))
  <2>1. PICK g : g = NextCall(f) /\ Goes(th, g)
    BY <1>5
  <2>2. ~must_wait(c.on)
    <3>1. CASE f.flag
      BY <1>5, <3>1
    <3>2. CASE ~f.flag
      <4>1. \A p : ~In(f.todo, p)
        BY <1>2 DEF In
      <4>2. \A p \in Invoker : In(c.on, p) => status[p] = "READY"
        BY <1>1, <1>4, <3>2, <4>1, Constants DEF Fits, Helped, Helping
      <4>3. c.on \in Seq(Invoker)
        BY <1>1, <1>2, <1>4, CallOfFrame DEF QueueInv, QueueTypeOK, VarsOK
      <4>. QED BY <4>2, <4>3, AllReady
    <3>. QED BY <3>1, <3>2
  <2>3. Lasting => Fits(g, NULL)'
    BY <1>1, <1>4, <2>1, <2>2, NextFits
  <2>. QED BY <1>3, <2>1, <2>3, GoesWaits
<1>6. CASE /\ c.inv \in Invoker /\ Fresh(c.inv) /\ kind' = [kind EXCEPT ![c.inv] = "waiter"]
           /\ \E g : /\ g \in FrameRec /\ Goto(th, g) /\ g.run = f.run
                     /\ g.pc = "register" /\ g.tgt = c.inv /\ g.ip = f.ip
  <2>1. PICK g : /\ g \in FrameRec /\ Goto(th, g) /\ g.run = f.run
                 /\ g.pc = "register" /\ g.tgt = c.inv /\ g.ip = f.ip
    BY <1>6
  <2>2. c.inv \in Invoker /\ Fresh(c.inv) /\ kind' = [kind EXCEPT ![c.inv] = "waiter"] /\ kind \in [Invoker -> Kind]
    BY <1>6 DEF QueueInv, QueueTypeOK, VarsOK
  <2>3. \A x \in Invoker : kind[x] # "none" => kind'[x] = kind[x]
    BY <2>2 DEF Fresh
  <2>4. Lasting
    <3>1. Steady
      BY <1>3, SteadyStep
    <3>. QED BY <1>3, <2>3, <3>1, Lasts
  <2>5. kind'[g.tgt] # "control"
    BY <2>1, <2>2
  <2>6. Fits(g, NULL)'
    BY <1>4, <2>1, <2>4, <2>5, MoveFits DEF Helping
  <2>. QED BY <1>1, <1>4, <2>1, <2>4, <2>6, GotoWaits
<1>. QED BY <1>5, <1>6, <1>2

\* The calls that allocate an invoker, and what they enqueue.
LEMMA PushWaits ==
  ASSUME QueueInv, QueueInv', WaitInv, NEW th \in Thread, script' = script,
         Push(th) \/ PushDependent(th) \/ SetNumberOfThreads(th)
  PROVE  WaitInv'
<1>1. PICK f, c : f = Top(th) /\ c = CallOf(f)
  OBVIOUS
<1>2. PICK name \in {"push", "push_dependent", "set_number_of_threads"} : AtCall(th, name)
  BY DEF Push, PushDependent, SetNumberOfThreads
<1>3. stack[th] # <<>> /\ f.ip <= Len(Calls(f.run)) /\ c.call = name /\ f \in FrameRec /\ Fits(f, NULL)
  BY <1>1, <1>2, CallFrame, TopFits
<1>4. kind \in [Invoker -> Kind] /\ status \in [Invoker -> Status]
  BY DEF QueueInv, QueueTypeOK, VarsOK
<1>5. PICK g : g \in FrameRec /\ Goto(th, g) /\ g.run = f.run /\ g.ip = f.ip /\ g.pc \in {"notify", "push", "controls"}
  <2>1. CASE Push(th)
    <3>1. PICK g : g = [f EXCEPT !.pc = "notify"]
      OBVIOUS
    <3>2. g \in FrameRec /\ Goto(th, g)
      BY <1>1, <2>1, <3>1, PushKeeps
    <3>3. g.run = f.run /\ g.ip = f.ip /\ g.pc = "notify"
      BY <1>3, <3>1 DEF FrameRec
    <3>. QED BY <3>2, <3>3
  <2>2. CASE PushDependent(th)
    BY <1>1, <2>2, PushDependentKeeps
  <2>3. CASE SetNumberOfThreads(th)
    BY <1>1, <2>3, SetNumberKeeps
  <2>. QED BY <2>1, <2>2, <2>3
<1>6. /\ dependents' = dependents
      /\ \A x \in Invoker : kind[x] # "none" => kind'[x] = kind[x]
      /\ \A x \in Invoker : status'[x] = status[x] \/ (kind[x] = "none" /\ status'[x] = "ENQUEUED")
  <2>1. CASE Push(th)
    BY <1>1, <1>4, <2>1 DEF Push, Fresh, emplace_back
  <2>2. CASE PushDependent(th)
    <3>1. Fresh(c.inv) /\ Fresh(c.aux) /\ UNCHANGED <<dependents, status>>
      BY <1>1, <2>2 DEF PushDependent
    <3>2. \/ kind' = [kind EXCEPT ![c.inv] = "task", ![c.aux] = "handle"]
          \/ kind' = [kind EXCEPT ![c.inv] = "task"]
      BY <1>1, <2>2 DEF PushDependent
    <3>. QED BY <1>4, <3>1, <3>2 DEF Fresh
  <2>3. CASE SetNumberOfThreads(th)
    BY <1>1, <1>4, <2>3 DEF SetNumberOfThreads, Fresh
  <2>. QED BY <2>1, <2>2, <2>3
<1>7. Lasting
  <2>1. \A p \in Invoker : status[p] = "READY" => status'[p] = "READY"
    BY <1>6, FreshIsFree DEF Fresh
  <2>2. Steady
    BY <1>6, <2>1, SteadyStep
  <2>. QED BY <1>6, <2>2, Lasts
<1>8. Fits(g, NULL)'
  <2>1. g.pc \notin Helping \cup {"block"} \cup Registering
    BY <1>5 DEF Helping, Registering
  <2>. QED BY <1>1, <1>3, <1>5, <1>7, <2>1, MoveFits
<1>. QED BY <1>1, <1>3, <1>5, <1>7, <1>8, GotoWaits

LEMMA EnqueueWaits ==
  ASSUME QueueInv, QueueInv', WaitInv, NEW th \in Thread, script' = script, EnqueueStep(th)
  PROVE  WaitInv'
<1>1. PICK f, g : f = Top(th) /\ g = [f EXCEPT !.pc = "notify"]
  OBVIOUS
<1>2. /\ status' = [status EXCEPT ![f.tgt] = "ENQUEUED"]
      /\ At(th, "push") \/ At(th, "controls")
      /\ UNCHANGED futureVars /\ g \in FrameRec /\ Goto(th, g)
  BY <1>1, EnqueueKeeps
<1>3. stack[th] # <<>> /\ f.pc \in {"push", "controls"} /\ f \in FrameRec /\ Fits(f, NULL) /\ f \in Frames
  BY <1>1, <1>2, TopFits DEF At
<1>4. f.tgt \in Invoker /\ status[f.tgt] = "CONSTRUCTING"
  BY <1>3, ClaimedIsFree DEF Claiming
<1>5. \A x \in Invoker : status'[x] = status[x] \/ (status'[x] = "ENQUEUED" /\ status[x] = "CONSTRUCTING")
  BY <1>2, <1>4 DEF QueueInv, QueueTypeOK, VarsOK
<1>6. Lasting
  <2>1. dependents' = dependents /\ kind' = kind
    BY <1>2 DEF futureVars
  <2>2. Steady
    BY <1>5, <2>1, SteadyStep
  <2>. QED BY <1>5, <2>1, <2>2, Lasts
<1>7. g.run = f.run /\ g.ip = f.ip /\ g.pc = "notify"
  BY <1>1, <1>3 DEF FrameRec
<1>8. Fits(g, NULL)'
  <2>1. f.ip <= Len(Calls(f.run)) /\ CallOf(f).call # "wait"
    BY <1>3 DEF Fits, Busy
  <2>. QED BY <1>3, <1>6, <1>7, <2>1, MoveFits DEF Helping
<1>. QED BY <1>1, <1>2, <1>3, <1>6, <1>7, <1>8, GotoWaits

\* A registration.
LEMMA RegisterWaits ==
  ASSUME QueueInv, QueueInv', PriorInv, WaitInv, NEW th \in Thread, script' = script, RegisterStep(th)
  PROVE  WaitInv'
<1>1. PICK f, g : f = Top(th) /\ RegisterMove(th, g) /\ Goes(th, g)
  BY RegisterKeeps
<1>2. /\ g.run = f.run /\ g.tgt = f.tgt /\ g.ip = f.ip /\ g.pc \in Registering
      /\ f.pc \in Registering \cup {"controls"} /\ stack[th] # <<>> /\ Goto(th, g) /\ g \in FrameRec
  BY <1>1 DEF RegisterMove, Registering, At
<1>3. f \in FrameRec /\ Fits(f, NULL) /\ f \in Frames
  BY <1>1, <1>2, TopFits
<1>4. UNCHANGED <<status, kind>>
  BY <1>1 DEF Goes, Quiet
<1>5. Lasting
  <2>1. CASE dependents' = dependents
    BY <1>4, <2>1, StillLasts
  <2>2. CASE dependents' # dependents
    <3>1. PICK d : d = Head(f.todo)
      OBVIOUS
    <3>2. /\ f.pc = "append" /\ f.todo # <<>> /\ status[d] # "READY" /\ g.pc = "count"
          /\ dependents' = [dependents EXCEPT ![d] = Append(@, f.tgt)] /\ remaining' = remaining
      BY <1>1, <2>2, <3>1 DEF RegisterMove, At
    <3>3. d \in Invoker
      <4>1. f.todo \in Seq(Invoker)
        BY <1>3 DEF FrameRec
      <4>. QED BY <3>1, <3>2, <4>1, TailOf
    <3>4. Swaps({f}, {g})
      BY <1>1, QuietStep DEF QueueInv, Goes, Quiet, Swaps
    <3>5. UNCHANGED <<status, remaining>>
      BY <1>4, <3>2
    <3>6. Steady
      BY <1>2, <1>3, <3>2, <3>3, <3>4, <3>5, AppendCounts
    <3>. QED BY <1>4, <3>6, Lasts
  <2>. QED BY <2>1, <2>2
<1>6. f.pc = "controls" => kind[f.tgt] = "control"
  BY <1>3 DEF QueueInv, CallsInv, FrameInv, FrameGood, Claims, Claiming
<1>7. kind'[g.tgt] = "control" => f.ip <= Len(Calls(f.run)) /\ CallOf(f).call # "wait"
  BY <1>2, <1>3, <1>4, <1>6 DEF Fits, Busy
<1>8. Fits(g, NULL)'
  <2>1. g.pc \notin Helping \cup {"block"} \cup {"push", "notify", "controls", "destroy", "sync"}
    BY <1>2 DEF Helping, Registering
  <2>. QED BY <1>2, <1>3, <1>5, <1>7, <2>1, MoveFits
<1>. QED BY <1>1, <1>2, <1>5, <1>8, GotoWaits

\* What the invoker that a thread registers waits for when all is registered.
LEMMA SettledWaits ==
  ASSUME QueueInv, PriorInv, NEW f \in Frames, f.pc = "register", f.todo = <<>>, kind[f.tgt] = "waiter"
  PROVE  /\ f.ip <= Len(Calls(f.run)) /\ CallOf(f).call = "wait"
         /\ \A p \in Invoker : In(CallOf(f).on, p) => Met(f.tgt, p)
         /\ remaining[f.tgt] = 0 => \A p \in Invoker : In(CallOf(f).on, p) => status[p] = "READY"
<1>1. f.pc \in Claiming /\ f.pc \in Registering
  BY DEF Claiming, Registering
<1>2. Registers(f)
  BY DEF PriorInv
<1>3. f.ip <= Len(Calls(f.run)) /\ CallOf(f).call = "wait"
  BY <1>1, <1>2 DEF Registers
<1>4. \A p \in Invoker : In(CallOf(f).on, p) => Met(f.tgt, p)
  <2>1. \A p : ~In(f.todo, p)
    BY DEF In
  <2>2. \A p \in Invoker : In(CallOf(f).on, p) => p \in NeedsOf(f)
    BY DEF NeedsOf
  <2>. QED BY <1>1, <1>2, <2>1, <2>2 DEF Registers
<1>5. ASSUME remaining[f.tgt] = 0 PROVE \A p \in Invoker : In(CallOf(f).on, p) => status[p] = "READY"
  <2>1. PICK t : t = f.tgt
    OBVIOUS
  <2>2. t \in Invoker /\ \A e \in Frames \ {f} : Untouched({t}, e)
    BY <1>1, <2>1, ClaimedIsFree
  <2>3. ~Counting(t)
    BY <2>2 DEF Counting, Untouched, Claiming, Registering
  <2>4. Out(t) = {}
    BY <1>5, <2>1, <2>2, <2>3, CountedOut DEF PriorInv
  <2>5. \A p \in Invoker : In(CallOf(f).on, p) => Met(t, p)
    BY <1>4, <2>1
  <2>. QED BY <2>4, <2>5, NothingOut
<1>. QED BY <1>3, <1>4, <1>5

\* The frame after a registration.
LEMMA SettledFits ==
  ASSUME QueueInv, PriorInv, Lasting, NEW f \in Frames, Fits(f, NULL), f.pc = "register", f.todo = <<>>,
         NEW t, t = f.tgt, kind' = kind, status'[t] # "CONSTRUCTING", remaining[t] = 0 \/ status'[t] = "ON_HOLD",
         NEW g, g = Registered(f), NEW r
  PROVE  Fits(g, r)'
<1>1. f \in FrameRec /\ f.pc \in Claiming /\ t \in Invoker
  BY FrameTypes, ClaimedIsFree DEF QueueInv, Claiming, Registering
<1>2. /\ g.run = f.run
      /\ kind[t] = "waiter" => g.pc = "block" /\ g.ip = f.ip /\ g.tgt = t
      /\ kind[t] = "control" => g = NextCall(f)
      /\ kind[t] \notin {"waiter", "control"} => g.pc = "finish" /\ g.ip = f.ip
  BY <1>1, RegisteredFrame
<1>3. CASE kind[t] = "control"
  <2>1. CallOf(f).call # "wait"
    BY <1>3 DEF Fits, Busy, Registering
  <2>. QED BY <1>1, <1>2, <1>3, <2>1, NextFits
<1>4. CASE kind[t] \notin {"waiter", "control"}
  BY <1>2, <1>4, MoveFits DEF Helping, Registering
<1>5. CASE kind[t] = "waiter"
  <2>1. g.pc = "block" /\ g.ip = f.ip /\ g.tgt = t
    BY <1>2, <1>5
  <2>2. Calls(g.run)' = Calls(f.run) /\ CallOf(g)' = CallOf(f)
    BY <1>2, <2>1 DEF Lasting, Calls, CallOf
  <2>3. /\ f.ip <= Len(Calls(f.run)) /\ CallOf(f).call = "wait"
        /\ \A p \in Invoker : In(CallOf(f).on, p) => Met(t, p)
        /\ remaining[t] = 0 => \A p \in Invoker : In(CallOf(f).on, p) => status[p] = "READY"
    BY <1>5, SettledWaits
  <2>4. \A p \in Invoker : In(CallOf(f).on, p) => status'[p] = "READY" \/ (status'[t] = "ON_HOLD" /\ Met(t, p)')
    BY <2>3, MetStays DEF Lasting, Steady
  <2>5. /\ \A p : In(CallOf(g).on, p)' => In(CallOf(f).on, p)
        /\ \A p : Met(g.tgt, p)' <=> Met(t, p)'
    BY <2>1, <2>2 DEF In
  <2>6. Blocked(g)'
    BY <1>1, <1>5, <2>1, <2>2, <2>3, <2>4, <2>5 DEF Blocked
  <2>7. Busy(g)' /\ Helped(g, r)'
    BY <2>1 DEF Busy, Helped, Registering, Helping
  <2>8. Waited(g)'
    BY <1>2, <2>1, WaitedStays DEF Fits
  <2>. QED BY <2>6, <2>7, <2>8 DEF Fits
<1>. QED BY <1>3, <1>4, <1>5

LEMMA SettleWaits ==
  ASSUME QueueInv, QueueInv', PriorInv, WaitInv, NEW th \in Thread, script' = script, RegisterSettle(th)
  PROVE  WaitInv'
<1>1. PICK f, t, g : f = Top(th) /\ t = f.tgt /\ g = Registered(f)
  OBVIOUS
<1>2. /\ At(th, "register") /\ f.todo = <<>> /\ g \in FrameRec
      /\ \/ remaining[t] # 0 /\ status' = [status EXCEPT ![t] = "ON_HOLD"] /\ Goto(th, g)
         \/ remaining[t] = 0 /\ \E h : Starts(t, h) /\ Enter(th, g, h) /\ h \in FrameRec
  BY <1>1, RegisterSettleKeeps
<1>3. UNCHANGED <<kind, dependents>>
  BY DEF RegisterSettle, futureVars
<1>4. stack[th] # <<>> /\ f \in Frames /\ f \in FrameRec /\ f.pc = "register" /\ Fits(f, NULL)
  BY <1>1, <1>2, TopFits DEF At
<1>5. t \in Invoker /\ status[t] = "CONSTRUCTING" /\ status \in [Invoker -> Status]
  BY <1>1, <1>4, ClaimedIsFree DEF Claiming, Registering, QueueInv, QueueTypeOK, VarsOK
<1>6. g.run = Top(th).run
  BY <1>1, <1>4, RegisteredFrame
<1>7. CASE status' = [status EXCEPT ![t] = "ON_HOLD"] /\ Goto(th, g)
  <2>1. \A x \in Invoker : status'[x] = status[x] \/ (status[x] = "CONSTRUCTING" /\ status'[x] = "ON_HOLD")
    BY <1>5, <1>7
  <2>2. Steady
    BY <1>3, <2>1, SteadyStep
  <2>3. Lasting
    BY <1>3, <2>1, <2>2, Lasts
  <2>4. status'[t] = "ON_HOLD"
    BY <1>5, <1>7
  <2>5. Fits(g, NULL)'
    BY <1>1, <1>2, <1>3, <1>4, <2>3, <2>4, SettledFits
  <2>. QED BY <1>2, <1>4, <1>6, <1>7, <2>3, <2>5, GotoWaits
<1>8. CASE remaining[t] = 0 /\ \E h : Starts(t, h) /\ Enter(th, g, h) /\ h \in FrameRec
  <2>1. PICK h : Starts(t, h) /\ Enter(th, g, h) /\ h \in FrameRec
    BY <1>8
  <2>2. Lasting /\ status'[t] = "RUNNING"
    BY <1>3, <1>5, <2>1, StartLasts, StartSteady
  <2>3. PICK x : x = h.run
    OBVIOUS
  <2>4. Fits(g, x)' /\ Fits(h, NULL)'
    BY <1>1, <1>2, <1>3, <1>4, <1>8, <2>1, <2>2, SettledFits, StartedFits
  <2>5. \A e \in Frames : e.run # h.run
    BY <2>1, StartedFrame
  <2>. QED BY <1>2, <1>4, <1>6, <2>1, <2>2, <2>3, <2>4, <2>5, EnterWaits
<1>. QED BY <1>2, <1>7, <1>8

LEMMA ControlInlineWaits ==
  ASSUME QueueInv, QueueInv', WaitInv, NEW th \in Thread, script' = script, ControlInline(th)
  PROVE  WaitInv'
<1>1. PICK f, t, g : f = Top(th) /\ t = f.tgt /\ g = NextCall(f)
  OBVIOUS
<1>2. PICK h : At(th, "controls") /\ Starts(t, h) /\ Enter(th, g, h) /\ h \in FrameRec /\ g \in FrameRec /\ dependents' = dependents
  BY <1>1, ControlInlineKeeps
<1>3. stack[th] # <<>> /\ f \in Frames /\ f \in FrameRec /\ f.pc = "controls" /\ Fits(f, NULL)
  BY <1>1, <1>2, TopFits DEF At
<1>4. t \in Invoker /\ status[t] = "CONSTRUCTING"
  BY <1>1, <1>3, ClaimedIsFree DEF Claiming
<1>5. g.run = Top(th).run
  BY <1>1, <1>3, NextCallFrame
<1>6. Lasting
  BY <1>2, <1>4, StartLasts
<1>7. CallOf(f).call # "wait"
  BY <1>3 DEF Fits, Busy
<1>8. PICK x : x = h.run
  OBVIOUS
<1>9. Fits(g, x)' /\ Fits(h, NULL)'
  BY <1>1, <1>2, <1>3, <1>6, <1>7, NextFits, StartedFits
<1>10. \A e \in Frames : e.run # h.run
  BY <1>2, StartedFrame
<1>. QED BY <1>2, <1>3, <1>5, <1>6, <1>8, <1>9, <1>10, EnterWaits

\* try_invoke: the future that the waiting thread runs itself is the one that
\* need not be ready.
LEMMA TakeWaits ==
  ASSUME QueueInv, QueueInv', WaitInv, NEW th \in Thread, script' = script, WaitTake(th)
  PROVE  WaitInv'
<1>1. PICK f : f = Top(th)
  OBVIOUS
<1>2. /\ At(th, "take")
      /\ \/ \E t, h : /\ Starts(t, h) /\ t = Head(f.todo) /\ status[t] = "ENQUEUED" /\ h \in FrameRec
                      /\ Enter(th, Visited(f, FALSE), h)
         \/ Goes(th, Visited(f, TRUE))
  BY <1>1, WaitTakeKeeps
<1>3. dependents' = dependents
  BY DEF WaitTake, futureVars
<1>4. stack[th] # <<>> /\ f \in Frames /\ f \in FrameRec /\ f.pc = "take" /\ Fits(f, NULL)
  BY <1>1, <1>2, TopFits DEF At
<1>5. f.todo # <<>> /\ f.todo \in Seq(Invoker)
  BY <1>4 DEF QueueInv, CallsInv, FrameInv, FrameGood, Helps, Helping, FrameRec
<1>6. CASE Goes(th, Visited(f, TRUE))
  <2>1. PICK g : g = Visited(f, TRUE) /\ Goes(th, g)
    BY <1>6
  <2>2. g.run = f.run /\ g.ip = f.ip /\ g.pc = "visit" /\ g.flag
    BY <1>4, <1>5, <2>1, VisitedFrame
  <2>3. Lasting => Fits(g, NULL)'
    BY <1>4, <2>2, HelpFits DEF Helping
  <2>. QED BY <1>3, <2>1, <2>3, GoesWaits
<1>7. CASE \E t, h : /\ Starts(t, h) /\ t = Head(f.todo) /\ status[t] = "ENQUEUED" /\ h \in FrameRec
                     /\ Enter(th, Visited(f, FALSE), h)
  <2>1. PICK t, h, g : /\ Starts(t, h) /\ t = Head(f.todo) /\ status[t] = "ENQUEUED" /\ h \in FrameRec
                       /\ g = Visited(f, FALSE) /\ Enter(th, g, h)
    BY <1>7
  <2>2. g \in FrameRec /\ g.run = f.run /\ g.ip = f.ip /\ g.pc = "visit" /\ g.todo = Tail(f.todo)
    BY <1>4, <1>5, <2>1, VisitedFrame
  <2>3. f.flag => g.flag
    BY <1>4, <1>5, <2>1, VisitedFrame
  <2>4. Lasting
    BY <1>3, <2>1, StartLasts
  <2>5. h.run = t /\ \A e \in Frames : e.run # h.run
    BY <2>1, StartedFrame
  <2>6. ASSUME ~g.flag, NEW p \in Invoker, In(CallOf(f).on, p) PROVE In(g.todo, p) \/ status'[p] = "READY" \/ p = t
    <3>1. In(f.todo, p) \/ status[p] = "READY"
      BY <1>4, <2>3, <2>6, Constants DEF Fits, Helped, Helping
    <3>. QED BY <1>5, <2>1, <2>2, <2>4, <3>1, TailIn DEF Lasting, Steady
  <2>7. Fits(g, t)'
    BY <1>4, <2>2, <2>4, <2>6, HelpFits DEF Helping
  <2>8. Fits(h, NULL)'
    BY <2>1, StartedFits
  <2>9. t = h.run /\ g.run = Top(th).run
    BY <1>1, <2>2, <2>5
  <2>. QED BY <1>4, <2>1, <2>2, <2>4, <2>5, <2>7, <2>8, <2>9, EnterWaits
<1>. QED BY <1>2, <1>6, <1>7

LEMMA PopWaits ==
  ASSUME QueueInv, QueueInv', WaitInv, NEW th \in Worker, script' = script, WorkerPop(th)
  PROVE  WaitInv'
<1>1. PICK t, h : Starts(t, h) /\ status[t] = "ENQUEUED" /\ stack[th] = <<>> /\ stack' = [stack EXCEPT ![th] = <<h>>] /\ h \in FrameRec
  BY WorkerPopKeeps
<1>2. dependents' = dependents
  BY DEF WorkerPop, futureVars
<1>3. Lasting
  BY <1>1, <1>2, StartLasts
<1>4. Fits(h, NULL)'
  BY <1>1, StartedFits
<1>. QED BY <1>1, <1>3, <1>4, StartWaits DEF Thread

\* The last signal: what the invoker waited for is ready.
LEMMA SignalFrees ==
  ASSUME QueueInv, QueueInv', PriorInv, NEW th \in Thread, script' = script, SignalDependent(th),
         was_last_prior(Head(Top(th).todo)), is_high_priority(Head(Top(th).todo))
  PROVE  Freed(Head(Top(th).todo))
<1>1. PICK f, d : f = Top(th) /\ d = Head(Top(th).todo)
  OBVIOUS
<1>2. /\ At(th, "dependent") /\ f.todo # <<>> /\ remaining' = [remaining EXCEPT ![d] = @ - 1]
      /\ dependents' = dependents
  BY <1>1 DEF SignalDependent
<1>3. stack[th] # <<>> /\ f \in Frames /\ f \in FrameRec /\ f.pc = "dependent" /\ FrameGood(f)
  BY <1>1, <1>2, AtFrame
<1>4. f.run \in Invoker
  BY <1>3 DEF FrameGood, Running, Invoking, Ending
<1>5. PICK g, h : /\ g \in FrameRec /\ g.run = f.run /\ g.pc = "dependent" /\ g.todo = Tail(f.todo) /\ Starts(d, h)
                  /\ Swaps({f}, {g, h})
  <2>1. PICK g, h : /\ g \in FrameRec /\ g.run = f.run /\ g.pc = "dependent" /\ g.todo = Tail(f.todo) /\ Starts(d, h)
                    /\ Frames' = (Frames \ {f}) \cup {g, h}
    BY <1>1, SignalStartsKeeps
  <2>. QED BY <2>1 DEF Swaps
<1>6. d \in Invoker /\ \A p \in Invoker : status[p] = "READY" => status'[p] = "READY"
  BY <1>5, StartSteady
<1>7. Sourced(h) /\ h.run # f.run
  BY <1>3, <1>5, StartedPriors, StartedFrame
<1>8. PICK New : New = {g, h}
  OBVIOUS
<1>9. SignalsOne(th, f, d, g, New)
  <2>1. \A e \in New : e = g \/ (e.run # f.run /\ Sourced(e))
    BY <1>7, <1>8
  <2>2. d = Head(f.todo)
    BY <1>1
  <2>. QED BY <1>1, <1>2, <1>3, <1>5, <1>6, <1>8, <2>1, <2>2 DEF SignalsOne
<1>10. status[d] = "ON_HOLD" /\ remaining[d] = 1
  BY <1>1 DEF was_last_prior
<1>11. ~Counting(d)
  <2>1. \A e \in Frames : e.pc \in Claiming => status[e.tgt] = "CONSTRUCTING"
    BY DEF QueueInv, CallsInv, FrameInv, FrameGood, Claims
  <2>. QED BY <1>10, <2>1 DEF Counting, Claiming, Registering
<1>12. Out(d)' = {}
  BY <1>9, <1>10, <1>11, SignalCounts
<1>13. ASSUME NEW p \in Invoker, Met(d, p) PROVE status'[p] = "READY"
  <2>1. Met(d, p)'
    BY <1>2, <1>6, <1>13, SteadyStep, MetStays
  <2>. QED BY <1>12, <2>1 DEF Met
<1>. QED BY <1>1, <1>13 DEF Freed

LEMMA SignalDependentWaits ==
  ASSUME QueueInv, QueueInv', PriorInv, WaitInv, NEW th \in Thread, script' = script, SignalDependent(th)
  PROVE  WaitInv'
<1>1. PICK f, d : f = Top(th) /\ d = Head(Top(th).todo)
  OBVIOUS
<1>2. At(th, "dependent") /\ UNCHANGED <<kind, dependents>>
  BY DEF SignalDependent
<1>3. stack[th] # <<>> /\ f \in Frames /\ f \in FrameRec /\ f.pc = "dependent" /\ Fits(f, NULL)
  BY <1>1, <1>2, TopFits DEF At
<1>4. ASSUME NEW g, g.run = f.run, g.ip = f.ip, g.pc = "dependent", Lasting, NEW r PROVE Fits(g, r)'
  BY <1>3, <1>4, MoveFits DEF Helping, Registering
<1>5. CASE ~was_last_prior(d)
  <2>1. PICK g : Goes(th, g) /\ g.pc = "dependent" /\ g.ip = f.ip
    BY <1>1, <1>5, SignalWaitsKeeps
  <2>2. g.run = f.run
    BY <1>1, <2>1 DEF Goes, Quiet
  <2>. QED BY <1>2, <1>4, <2>1, <2>2, GoesWaits
<1>6. CASE was_last_prior(d) /\ ~is_high_priority(d)
  <2>1. PICK g : g \in FrameRec /\ g.run = f.run /\ g.pc = "dependent" /\ g.ip = f.ip /\ Goto(th, g)
    BY <1>1, <1>6, SignalAppendsKeeps
  <2>2. Lasting
    BY <1>1, <1>2, <1>6, StillLasts, SignalAppendsKeeps DEF DequeKept
  <2>3. Fits(g, NULL)'
    BY <1>4, <2>1, <2>2
  <2>. QED BY <1>1, <1>3, <2>1, <2>2, <2>3, GotoWaits
<1>7. CASE was_last_prior(d) /\ is_high_priority(d)
  <2>1. PICK g, h : /\ g \in FrameRec /\ h \in FrameRec /\ g.run = f.run /\ g.pc = "dependent" /\ g.ip = f.ip
                    /\ Starts(d, h) /\ Enter(th, g, h)
    BY <1>1, <1>7, SignalStartsKeeps
  <2>2. Freed(d)
    BY <1>1, <1>7, SignalFrees
  <2>3. Lasting
    BY <1>2, <2>1, <2>2, StartLasts
  <2>4. PICK x : x = h.run
    OBVIOUS
  <2>5. Fits(g, x)' /\ Fits(h, NULL)'
    BY <1>4, <2>1, <2>3, StartedFits
  <2>6. (\A e \in Frames : e.run # h.run) /\ g.run = Top(th).run
    BY <1>1, <2>1, StartedFrame
  <2>. QED BY <1>3, <2>1, <2>3, <2>4, <2>5, <2>6, EnterWaits
<1>. QED BY <1>5, <1>6, <1>7

LEMMA FinishWaits ==
  ASSUME QueueInv, QueueInv', WaitInv, NEW th \in Thread, script' = script, Finish(th)
  PROVE  WaitInv'
<1>1. PICK f, g : f = Top(th) /\ g = [f EXCEPT !.pc = "signal"]
  OBVIOUS
<1>2. /\ f.run \in Invoker /\ status' = [status EXCEPT ![f.run] = "READY"] /\ status[f.run] = "RUNNING" /\ stack[th] # <<>>
      /\ Return(th) \/ (g \in FrameRec /\ Goto(th, g))
  BY <1>1, FinishKeeps
<1>3. f \in FrameRec /\ Fits(f, NULL)
  BY <1>1, <1>2, TopFits
<1>4. UNCHANGED <<kind, dependents>> /\ status \in [Invoker -> Status]
  BY DEF Finish, futureVars, QueueInv, QueueTypeOK, VarsOK
<1>5. PICK t : t = f.run /\ t = Top(th).run
  BY <1>1
<1>6. status'[t] = "READY" /\ \A x \in Invoker : status'[x] = status[x] \/ (status'[x] = "READY" /\ status[x] = "RUNNING")
  BY <1>2, <1>4, <1>5
<1>7. Lasting
  <2>1. Steady
    BY <1>4, <1>6, SteadyStep
  <2>. QED BY <1>4, <1>6, <2>1, Lasts
<1>8. CASE Return(th)
  BY <1>2, <1>5, <1>6, <1>7, <1>8, ReturnWaits
<1>9. CASE g \in FrameRec /\ Goto(th, g)
  <2>1. g.run = f.run /\ g.ip = f.ip /\ g.pc = "signal"
    BY <1>1, <1>3 DEF FrameRec
  <2>2. Fits(g, NULL)'
    BY <1>3, <1>7, <2>1, MoveFits DEF Helping, Registering
  <2>. QED BY <1>1, <1>2, <1>7, <1>9, <2>1, <2>2, GotoWaits
<1>. QED BY <1>2, <1>8, <1>9

\* The other steps of a thread that has run an invoker.
LEMMA SignalWaits ==
  ASSUME QueueInv, QueueInv', WaitInv, NEW th \in Thread, script' = script, Signal(th) \/ SignalDone(th) \/ SignalWake(th)
  PROVE  WaitInv'
<1>1. PICK f : f = Top(th)
  OBVIOUS
<1>2. dependents' = dependents /\ stack[th] # <<>> /\ f.pc \in Ending
  BY <1>1 DEF Signal, SignalDone, SignalWake, futureVars, At, Ending
<1>3. f \in FrameRec /\ Fits(f, NULL) /\ f \in Frames
  BY <1>1, <1>2, TopFits
<1>4. f.run \in Invoker /\ status[f.run] = "READY"
  BY <1>2, <1>3 DEF QueueInv, CallsInv, FrameInv, FrameGood, Running, Invoking
<1>5. Ends(th) \/ \E g : Goes(th, g) /\ g.pc \in {"dependent", "launch", "wake"} /\ g.ip = f.ip
  BY <1>1, SignalKeeps, SignalDoneKeeps, SignalWakeKeeps
<1>6. CASE Ends(th)
  <2>1. Return(th) /\ UNCHANGED <<script, status, kind>>
    BY <1>6 DEF Ends, Calm
  <2>2. Lasting
    BY <1>2, <2>1, StillLasts
  <2>. QED BY <1>1, <1>2, <1>4, <2>1, <2>2, ReturnWaits
<1>7. ASSUME NEW g, Goes(th, g), g.pc \in {"dependent", "launch", "wake"}, g.ip = f.ip PROVE WaitInv'
  <2>1. g.run = f.run
    BY <1>1, <1>7 DEF Goes, Quiet
  <2>2. Lasting => Fits(g, NULL)'
    BY <1>3, <1>7, <2>1, MoveFits DEF Helping, Registering
  <2>. QED BY <1>2, <1>7, <2>2, GoesWaits
<1>. QED BY <1>5, <1>6, <1>7

LEMMA LaunchWaits ==
  ASSUME QueueInv, QueueInv', WaitInv, NEW th \in Thread, script' = script, SignalLaunch(th)
  PROVE  WaitInv'
<1>1. PICK f, g, l : f = Top(th) /\ g = [f EXCEPT !.pc = "wake"] /\ l = f.launch
  OBVIOUS
<1>2. /\ At(th, "launch") /\ g \in FrameRec /\ Goto(th, g)
      /\ \A i \in DOMAIN l : status[l[i]] = "ON_HOLD" /\ kind[l[i]] = "task"
      /\ status' = [x \in Invoker |-> IF In(l, x) THEN "ENQUEUED" ELSE status[x]]
  BY <1>1, SignalLaunchKeeps
<1>3. UNCHANGED <<kind, dependents>>
  BY DEF SignalLaunch, futureVars
<1>4. stack[th] # <<>> /\ f \in FrameRec /\ Fits(f, NULL)
  BY <1>1, <1>2, TopFits DEF At
<1>5. \A x \in Invoker : status'[x] = status[x] \/ (status'[x] = "ENQUEUED" /\ status[x] = "ON_HOLD" /\ kind[x] = "task")
  BY <1>2 DEF In
<1>6. Lasting
  <2>1. Steady
    BY <1>3, <1>5, SteadyStep
  <2>. QED BY <1>3, <1>5, <2>1, Lasts
<1>7. g.run = f.run /\ g.ip = f.ip /\ g.pc = "wake"
  BY <1>1, <1>4 DEF FrameRec
<1>8. Fits(g, NULL)'
  BY <1>4, <1>6, <1>7, MoveFits DEF Helping, Registering
<1>. QED BY <1>1, <1>2, <1>4, <1>6, <1>7, <1>8, GotoWaits

LEMMA PlainWaits ==
  ASSUME QueueInv, WaitInv, NEW th \in Thread, script' = script, PlainStep(th)
  PROVE  WaitInv'
<1>1. PICK f, g : f = Top(th) /\ PlainMove(th, g)
  BY PlainMoves
<1>2. dependents' = dependents
  BY DEF PlainStep, InvokeNonVoid, ControlSkip, Grow, GrowDone, Shrink, ShrinkSet, ShrinkNotify, ShrinkJoin,
         Destroy, DestroyNotify, DestroySync, futureVars
<1>3. Goes(th, g) /\ stack[th] # <<>> /\ g.run = f.run
  BY <1>1 DEF PlainMove, Goes, Quiet
<1>4. f \in FrameRec /\ Fits(f, NULL)
  BY <1>1, <1>3, TopFits
<1>5. CASE At(th, "sync") /\ g = NextCall(f)
  <2>1. CallOf(f).call # "wait"
    BY <1>1, <1>4, <1>5 DEF At, Fits, Busy
  <2>2. Lasting => Fits(g, NULL)'
    BY <1>4, <1>5, <2>1, NextFits
  <2>. QED BY <1>2, <1>3, <2>2, GoesWaits
<1>6. CASE \E p \in PlainPcs : At(th, p[1]) /\ g = [f EXCEPT !.pc = p[2]]
  <2>1. PICK p \in PlainPcs : At(th, p[1]) /\ g = [f EXCEPT !.pc = p[2]]
    BY <1>6
  <2>2. g.ip = f.ip /\ g.pc = p[2] /\ f.pc = p[1]
    BY <1>1, <1>4, <2>1 DEF FrameRec, At
  <2>3. p \in {<<"body", "destroy">>, <<"destroy", "sync">>} \/ p[2] \in {"body", "finish", "spawn", "shrink", "dismiss", "join"}
    BY DEF PlainPcs
  <2>4. p[2] \notin Helping \cup Registering \cup {"block", "push", "notify", "controls"}
    BY <2>3 DEF Helping, Registering
  <2>5. p[2] \in {"destroy", "sync"} => f.ip <= Len(Calls(f.run)) /\ CallOf(f).call # "wait"
    <3>1. CASE p[2] = "destroy"
      <4>1. f.pc = "body"
        BY <2>2, <2>3, <3>1
      <4>2. AtCall(th, "destroy")
        <5>1. CASE Destroy(th)
          BY <5>1 DEF Destroy
        <5>2. CASE ~Destroy(th)
          BY <1>1, <4>1, <5>2 DEF PlainStep, InvokeNonVoid, ControlSkip, Grow, GrowDone, Shrink, ShrinkSet, ShrinkNotify,
             ShrinkJoin, DestroyNotify, DestroySync, At
        <5>. QED BY <5>1, <5>2
      <4>. QED BY <1>1, <4>2, CallFrame
    <3>2. CASE p[2] = "sync"
      <4>1. f.pc = "destroy"
        BY <2>2, <2>3, <3>2
      <4>. QED BY <1>4, <4>1 DEF Fits, Busy
    <3>. QED BY <3>1, <3>2
  <2>6. Lasting => Fits(g, NULL)'
    BY <1>3, <1>4, <2>2, <2>4, <2>5, MoveFits
  <2>. QED BY <1>2, <1>3, <2>6, GoesWaits
<1>. QED BY <1>1, <1>5, <1>6 DEF PlainMove

LEMMA OutsideWaits ==
  ASSUME QueueInv, WaitInv, NEW th \in Thread, script' = script,
         GrowSpawn(th) \/ (th \in Worker /\ (WorkerHold(th) \/ WorkerExit(th)))
  PROVE  WaitInv'
<1>1. UNCHANGED <<status, kind, dependents, stack>>
  BY DEF GrowSpawn, WorkerHold, WorkerExit, futureVars
<1>. QED BY <1>1, StillLasts, StillWaits

(***************************************************************************)
(* wait(), in every state                                                  *)
(***************************************************************************)
LEMMA InitialWaits ==
  ASSUME Init
  PROVE  WaitInv
<1>1. script \in Scripts
  BY DEF Init
<1>. SUFFICES ASSUME NEW th \in Thread, NEW i \in DOMAIN stack[th],
                     NEW e, e = stack[th][i], NEW r, r = Above(th, i)
              PROVE  Fits(e, r)
  BY DEF WaitInv
<1>2. th \in Client /\ e = Frame(th, "body")
  BY InitialFrames
<1>3. e.run = th /\ e.pc = "body" /\ e.ip = 1
  BY <1>2 DEF Frame
<1>4. Busy(e) /\ Blocked(e) /\ Helped(e, r)
  BY <1>3 DEF Busy, Blocked, Helped, Registering, Helping
<1>5. Waited(e)
  <2>1. DOMAIN Calls(e.run) = 1 .. Len(Calls(e.run)) /\ Len(Calls(e.run)) \in Nat
    BY <1>1, CallFacts
  <2>2. \A k \in DOMAIN Calls(e.run) : ~(k < e.ip)
    BY <1>3, <2>1
  <2>. QED BY <2>2 DEF Waited
<1>. QED BY <1>4, <1>5 DEF Fits

LEMMA StepWaits ==
  ASSUME QueueInv, QueueInv', PriorInv, WaitInv, NEW th \in Thread, Step(th)
  PROVE  WaitInv'
<1>. script' = script
  BY DEF Step
<1>1. CASE Push(th) \/ PushDependent(th) \/ SetNumberOfThreads(th)
  BY <1>1, PushWaits
<1>2. CASE PushTarget(th) \/ ControlEnqueue(th)
  BY <1>2, EnqueueWaits DEF EnqueueStep
<1>3. CASE Notify(th) \/ WaitReturn(th) \/ FutureWait(th)
  BY <1>3, NextWaits
<1>4. CASE Wait(th) \/ WaitVisit(th) \/ WaitLock(th)
  BY <1>4, VisitWaits
<1>5. CASE WaitTake(th) \/ WaitDecide(th)
  BY <1>5, TakeWaits, WaitDecideWaits
<1>6. CASE Register(th) \/ RegisterAppend(th) \/ RegisterCount(th) \/ ControlDepends(th)
  BY <1>6, RegisterWaits DEF RegisterStep
<1>7. CASE RegisterSettle(th) \/ ControlInline(th)
  BY <1>7, SettleWaits, ControlInlineWaits
<1>8. CASE \/ InvokeNonVoid(th) \/ ControlSkip(th) \/ Grow(th) \/ GrowDone(th) \/ Shrink(th) \/ ShrinkSet(th)
           \/ ShrinkNotify(th) \/ ShrinkJoin(th) \/ Destroy(th) \/ DestroyNotify(th) \/ DestroySync(th)
  BY <1>8, PlainWaits DEF PlainStep
<1>9. CASE Finish(th) \/ SignalDependent(th) \/ SignalLaunch(th)
  BY <1>9, FinishWaits, SignalDependentWaits, LaunchWaits
<1>10. CASE Signal(th) \/ SignalDone(th) \/ SignalWake(th)
  BY <1>10, SignalWaits
<1>11. CASE th \in Worker /\ WorkerPop(th)
  BY <1>11, PopWaits
<1>12. CASE GrowSpawn(th) \/ (th \in Worker /\ (WorkerHold(th) \/ WorkerExit(th)))
  BY <1>12, OutsideWaits
<1>. QED BY <1>1, <1>2, <1>3, <1>4, <1>5, <1>6, <1>7, <1>8, <1>9, <1>10, <1>11, <1>12
         DEF Step, CallStep, InvokeStep, ControlStep, WorkerStep

LEMMA IdleWaits ==
  ASSUME QueueInv, WaitInv, UNCHANGED vars
  PROVE  WaitInv'
<1>1. UNCHANGED <<script, stack, status, dependents, kind>>
  BY DEF vars, futureVars
<1>. QED BY <1>1, StillLasts, StillWaits

LEMMA WaitFacts ==
  ASSUME QueueInv, WaitInv
  PROVE  WaitMeansReady
<1>. SUFFICES ASSUME NEW th \in Thread, NEW i \in DOMAIN stack[th], NEW f, f = stack[th][i],
                     NEW k \in 1 .. Len(Calls(f.run)), k < f.ip, Calls(f.run)[k].call = "wait"
              PROVE  ~must_wait(Calls(f.run)[k].on)
  BY DEF WaitMeansReady
<1>1. Waited(f)
  BY DEF WaitInv, Fits
<1>2. DOMAIN Calls(f.run) = 1 .. Len(Calls(f.run))
  BY CallFacts DEF QueueInv, QueueTypeOK, VarsOK
<1>. QED BY <1>1, <1>2 DEF Waited

(***************************************************************************)
(* The wake-ups.                                                           *)
(***************************************************************************)
\* The bottom frame of a client runs the client's own calls.
Roots == \A c \in Client : stack[c] # <<>> /\ stack[c][1].run = c

\* Once the destructor has started, only the owner is inside a method of the
\* queue, and nobody resizes it.
Rests(c) == /\ Len(stack[c]) = 1
            /\ \/ Top(c).pc = "body" /\ Top(c).ip > Len(Calls(c))
               \/ Top(c).pc \in {"destroy", "sync"} /\ Top(c).ip >= Len(Calls(c))
Closing == destroying => destroy_lock = NULL /\ \A c \in Client : Rests(c)

\* A worker that has to go does not wait any more once it has been notified.
Dismissed == \A w \in Worker :
  worker[w] = "wait" => thread_index[w] < number_of_threads \/ \E u \in Thread : At(u, "dismiss")

WakeInv == Roots /\ Closing /\ Dismissed /\ NoLostWakeup

\* What a step of th does to its stack.
StackMove(th) ==
  \/ stack' = stack
  \/ th \in Worker /\ stack[th] = <<>> /\ \E s : stack' = [stack EXCEPT ![th] = s]
  \/ /\ stack[th] # <<>>
     /\ \/ \E g : Goto(th, g) /\ g.run = Top(th).run
        \/ \E g, h : Enter(th, g, h) /\ g.run = Top(th).run
        \/ Return(th) /\ Top(th).run \in Invoker

LEMMA RunStays ==
  ASSUME NEW f \in FrameRec
  PROVE  /\ \A pc : [f EXCEPT !.pc = pc].run = f.run
            /\ NextCall(f).run = f.run /\ (\A b : Visited(f, b).run = f.run) /\ Registered(f).run = f.run
<1>1. Registered(f).run = f.run
  BY RegisteredFrame
<1>. QED BY <1>1 DEF NextCall, Visited, FrameRec

LEMMA CallMoves ==
  ASSUME QueueInv, NEW th \in Thread, CallStep(th)
  PROVE  StackMove(th)
<1>. DEFINE f == Top(th)
<1>1. stack[th] # <<>> /\ f \in FrameRec
  <2>1. PICK a : At(th, a)
    BY DEF CallStep, Push, PushDependent, PushTarget, Notify, Wait, WaitVisit, WaitLock, WaitTake, WaitDecide, WaitReturn,
           FutureWait, Register, RegisterAppend, RegisterCount, RegisterSettle, AtCall
  <2>. QED BY <2>1, AtFrame
<1>2. /\ \A pc : [f EXCEPT !.pc = pc].run = f.run
      /\ NextCall(f).run = f.run /\ (\A b : Visited(f, b).run = f.run) /\ Registered(f).run = f.run
  BY <1>1, RunStays
<1>3. CASE \E g : Goto(th, g) /\ g.run = f.run
  BY <1>1, <1>3 DEF StackMove
<1>4. CASE Push(th) \/ PushTarget(th) \/ Notify(th)
  BY <1>1, <1>2, <1>3, <1>4 DEF Push, PushTarget, Notify
<1>10. CASE PushDependent(th)
  <2>1. PICK g : g = [f EXCEPT !.pc = "push", !.tgt = IF must_wait(CallOf(f).on) THEN CallOf(f).aux ELSE CallOf(f).inv] /\ Goto(th, g)
    BY <1>10 DEF PushDependent
  <2>2. g.run = f.run
    BY <1>1, <2>1 DEF FrameRec
  <2>. QED BY <1>3, <2>1, <2>2
<1>5. CASE WaitVisit(th) \/ WaitLock(th)
  BY <1>1, <1>2, <1>3, <1>5 DEF WaitVisit, WaitLock
<1>11. CASE Wait(th)
  <2>1. PICK g : g = [f EXCEPT !.pc = "visit", !.todo = CallOf(f).on] /\ Goto(th, g)
    BY <1>11 DEF Wait
  <2>2. g.run = f.run
    BY <1>1, <2>1 DEF FrameRec
  <2>. QED BY <1>3, <2>1, <2>2
<1>6. CASE WaitTake(th)
  BY <1>1, <1>2, <1>6 DEF WaitTake, StackMove
<1>7. CASE WaitReturn(th) \/ FutureWait(th)
  BY <1>1, <1>2, <1>3, <1>7 DEF WaitReturn, FutureWait
<1>12. CASE WaitDecide(th)
  <2>1. PICK g : /\ g = NextCall(f) \/ g = [f EXCEPT !.pc = "register", !.todo = CallOf(f).on, !.tgt = CallOf(f).inv]
                 /\ Goto(th, g)
    BY <1>12 DEF WaitDecide
  <2>2. g.run = f.run
    BY <1>1, <1>2, <2>1 DEF FrameRec
  <2>. QED BY <1>3, <2>1, <2>2
<1>8. CASE Register(th) \/ RegisterAppend(th) \/ RegisterCount(th)
  <2>1. PICK g : /\ Goto(th, g)
                 /\ \/ g = [f EXCEPT !.todo = Tail(@)] \/ g = [f EXCEPT !.pc = "register", !.todo = Tail(@)]
                    \/ g = [f EXCEPT !.pc = "append"] \/ g = [f EXCEPT !.pc = "count"]
    BY <1>8 DEF Register, RegisterAppend, RegisterCount
  <2>2. g.run = f.run
    BY <1>1, <2>1 DEF FrameRec
  <2>. QED BY <1>3, <2>1, <2>2
<1>9. CASE RegisterSettle(th)
  BY <1>1, <1>2, <1>9 DEF RegisterSettle, StackMove
<1>. QED BY <1>4, <1>5, <1>6, <1>7, <1>8, <1>9, <1>10, <1>11, <1>12 DEF CallStep

LEMMA InvokeMoves ==
  ASSUME QueueInv, NEW th \in Thread, InvokeStep(th)
  PROVE  StackMove(th)
<1>. DEFINE f == Top(th)
<1>1. PICK a : At(th, a) /\ (a \in {"finish"} \cup Ending \/ f.run \in Invoker \/ a = "start")
  BY DEF InvokeStep, InvokeNonVoid, Finish, FunctionReturned, Signal, SignalDependent, SignalDone, SignalLaunch, SignalWake, Ending
<1>2. stack[th] # <<>> /\ f \in FrameRec /\ f.run \in Invoker
  <2>1. stack[th] # <<>> /\ f \in FrameRec /\ Running(f) /\ f.pc = a
    BY <1>1, AtFrame DEF FrameGood
  <2>. QED BY <1>1, <2>1 DEF Running, Invoking
<1>0. /\ \A pc : [f EXCEPT !.pc = pc].run = f.run
      /\ \A l : [f EXCEPT !.launch = l].run = f.run
  BY <1>2, RunStays
<1>3. CASE \E g : Goto(th, g) /\ g.run = f.run
  BY <1>2, <1>3 DEF StackMove
<1>4. CASE Return(th)
  BY <1>2, <1>4 DEF StackMove
<1>5. CASE InvokeNonVoid(th) \/ Finish(th)
  BY <1>0, <1>2, <1>3, <1>4, <1>5 DEF InvokeNonVoid, Finish
<1>8. CASE Signal(th)
  <2>1. PICK g : g = [f EXCEPT !.pc = "dependent", !.todo = dependents[f.run]] /\ Goto(th, g)
    BY <1>8 DEF Signal
  <2>2. g.run = f.run
    BY <1>2, <2>1 DEF FrameRec
  <2>. QED BY <1>3, <2>1, <2>2
<1>6. CASE SignalDone(th) \/ SignalLaunch(th) \/ SignalWake(th)
  BY <1>0, <1>2, <1>3, <1>4, <1>6 DEF SignalDone, SignalLaunch, SignalWake
<1>7. CASE SignalDependent(th)
  <2>1. PICK rest : /\ rest = [f EXCEPT !.todo = Tail(@)]
                    /\ \/ \E h : Enter(th, rest, h)
                       \/ \E l : Goto(th, [rest EXCEPT !.launch = l])
                       \/ Goto(th, rest)
    BY <1>7 DEF SignalDependent
  <2>2. rest.run = f.run /\ \A l : [rest EXCEPT !.launch = l].run = f.run
    BY <1>2, <2>1 DEF FrameRec
  <2>. QED BY <1>2, <1>3, <2>1, <2>2 DEF StackMove
<1>. QED BY <1>5, <1>6, <1>7, <1>8 DEF InvokeStep

LEMMA ControlMoves ==
  ASSUME QueueInv, NEW th \in Thread, ControlStep(th)
  PROVE  StackMove(th)
<1>. DEFINE f == Top(th)
<1>1. stack[th] # <<>> /\ f \in FrameRec
  <2>1. PICK a : At(th, a)
    BY DEF ControlStep, SetNumberOfThreads, ControlDepends, ControlInline, ControlEnqueue, ControlSkip, Grow, GrowSpawn, GrowDone,
           Shrink, ShrinkSet, ShrinkNotify, ShrinkJoin, Destroy, DestroyNotify, DestroySync, AtCall
  <2>. QED BY <2>1, AtFrame
<1>2. /\ \A pc : [f EXCEPT !.pc = pc].run = f.run
      /\ NextCall(f).run = f.run
  BY <1>1, RunStays
<1>3. CASE \E g : Goto(th, g) /\ g.run = f.run
  BY <1>1, <1>3 DEF StackMove
<1>4. CASE ControlDepends(th) \/ ControlEnqueue(th) \/ ControlSkip(th) \/ Grow(th)
  BY <1>1, <1>2, <1>3, <1>4 DEF ControlDepends, ControlEnqueue, ControlSkip, Grow
<1>9. CASE SetNumberOfThreads(th)
  <2>1. PICK g : g = [f EXCEPT !.pc = "controls", !.todo = control_futures, !.tgt = CallOf(f).inv] /\ Goto(th, g)
    BY <1>9 DEF SetNumberOfThreads
  <2>2. g.run = f.run
    BY <1>1, <2>1 DEF FrameRec
  <2>. QED BY <1>3, <2>1, <2>2
<1>5. CASE ControlInline(th)
  BY <1>1, <1>2, <1>5 DEF ControlInline, StackMove
<1>6. CASE GrowSpawn(th)
  BY <1>6 DEF GrowSpawn, StackMove
<1>7. CASE GrowDone(th) \/ Shrink(th) \/ ShrinkSet(th) \/ ShrinkNotify(th) \/ ShrinkJoin(th)
  BY <1>1, <1>2, <1>3, <1>7 DEF GrowDone, Shrink, ShrinkSet, ShrinkNotify, ShrinkJoin
<1>8. CASE Destroy(th) \/ DestroyNotify(th) \/ DestroySync(th)
  BY <1>1, <1>2, <1>3, <1>8 DEF Destroy, DestroyNotify, DestroySync
<1>. QED BY <1>4, <1>5, <1>6, <1>7, <1>8, <1>9 DEF ControlStep

LEMMA StepMoves ==
  ASSUME QueueInv, NEW th \in Thread, Step(th)
  PROVE  StackMove(th)
<1>1. CASE th \in Worker /\ WorkerStep(th)
  BY <1>1 DEF WorkerStep, WorkerHold, WorkerPop, WorkerExit, StackMove
<1>. QED BY <1>1, CallMoves, InvokeMoves, ControlMoves DEF Step

LEMMA MovedStack ==
  ASSUME QueueInv, QueueInv', NEW th \in Thread, StackMove(th)
  PROVE  /\ \A u \in Thread : u # th => stack'[u] = stack[u]
         /\ stack[th] # <<>> /\ Len(stack[th]) > 1 => stack'[th] # <<>> /\ stack'[th][1].run = stack[th][1].run
         /\ stack[th] # <<>> /\ Top(th).run \in Client => stack'[th] # <<>> /\ stack'[th][1].run = stack[th][1].run
<1>1. PICK s : s = stack[th] /\ s \in Seq(FrameRec) /\ Len(s) \in Nat /\ DOMAIN s = 1 .. Len(s)
  BY DEF QueueInv, QueueTypeOK
<1>2. stack \in [Thread -> Seq(FrameRec)] /\ stack' \in [Thread -> Seq(FrameRec)] /\ Client \cap Invoker = {}
  BY Constants DEF QueueInv, QueueTypeOK
<1>3. \A u \in Thread : u # th => stack'[u] = stack[u]
  BY <1>2 DEF StackMove, Goto, Enter, Return
<1>4. ASSUME s # <<>>, Len(s) > 1 \/ Top(th).run \in Client
      PROVE  stack'[th] # <<>> /\ stack'[th][1].run = s[1].run
  <2>1. PICK r, n : /\ r = Front(s) /\ r \in Seq(FrameRec) /\ Len(r) = n - 1 /\ n = Len(s) /\ n \in Nat \ {0}
                    /\ \A i \in 1 .. n - 1 : r[i] = s[i]
    <3>1. /\ Front(s) \in Seq(FrameRec) /\ Len(Front(s)) = Len(s) - 1 /\ Len(s) \in Nat \ {0}
          /\ \A i \in 1 .. Len(s) - 1 : Front(s)[i] = s[i]
      BY <1>1, <1>4, FrontOf
    <3>. QED BY <3>1
  <2>2. Top(th) = s[n]
    BY <1>1, <2>1 DEF Top, Last
  <2>3. CASE stack' = stack
    BY <1>1, <1>4, <2>3
  <2>4. ASSUME NEW g, g.run = Top(th).run, NEW S, S = FrameRec \cup {g}
        PROVE  /\ Append(r, g) \in Seq(S) /\ Len(Append(r, g)) = n
               /\ Append(r, g) # <<>> /\ Append(r, g)[1].run = s[1].run
    <3>1. r \in Seq(S) /\ g \in S
      BY <2>1, <2>4
    <3>2. /\ Append(r, g) \in Seq(S) /\ Len(Append(r, g)) = n /\ Append(r, g)[n] = g
          /\ \A i \in 1 .. n - 1 : Append(r, g)[i] = r[i]
      BY <2>1, <3>1, AppendProperties
    <3>3. Append(r, g)[1].run = s[1].run
      BY <2>1, <2>2, <2>4, <3>2
    <3>. QED BY <2>1, <3>2, <3>3, EmptySeq
  <2>5. CASE \E g : Goto(th, g) /\ g.run = Top(th).run
    <3>1. PICK g : Goto(th, g) /\ g.run = Top(th).run
      BY <2>5
    <3>2. stack'[th] = Append(r, g)
      BY <1>1, <1>2, <2>1, <3>1 DEF Goto
    <3>. QED BY <2>4, <3>1, <3>2
  <2>6. CASE \E g, h : Enter(th, g, h) /\ g.run = Top(th).run
    <3>1. PICK g, h : Enter(th, g, h) /\ g.run = Top(th).run
      BY <2>6
    <3>2. PICK S : S = FrameRec \cup {g}
      OBVIOUS
    <3>3. PICK q : q = Append(r, g) /\ q \in Seq(S) /\ Len(q) = n /\ q # <<>> /\ q[1].run = s[1].run
      BY <2>4, <3>1, <3>2
    <3>4. stack'[th] = Append(q, h)
      BY <1>1, <1>2, <2>1, <3>1, <3>3 DEF Enter
    <3>5. q \in Seq(S \cup {h}) /\ h \in S \cup {h}
      BY <3>3
    <3>6. Len(Append(q, h)) = n + 1 /\ Append(q, h)[1] = q[1]
      BY <2>1, <3>3, <3>5, AppendProperties
    <3>. QED BY <1>2, <2>1, <3>3, <3>4, <3>6, EmptySeq
  <2>7. CASE Return(th) /\ Top(th).run \in Invoker
    <3>1. n > 1
      BY <1>2, <1>4, <2>1, <2>7
    <3>2. stack'[th] = r
      BY <1>1, <1>2, <2>1, <2>7 DEF Return
    <3>. QED BY <2>1, <3>1, <3>2
  <2>. QED BY <1>1, <1>4, <2>3, <2>5, <2>6, <2>7 DEF StackMove
<1>. QED BY <1>1, <1>3, <1>4

LEMMA StepRoots ==
  ASSUME QueueInv, QueueInv', Roots, NEW th \in Thread, Step(th)
  PROVE  Roots' /\ \A u \in Thread : u # th => stack'[u] = stack[u]
<1>1. /\ \A u \in Thread : u # th => stack'[u] = stack[u]
      /\ stack[th] # <<>> /\ Len(stack[th]) > 1 => stack'[th] # <<>> /\ stack'[th][1].run = stack[th][1].run
      /\ stack[th] # <<>> /\ Top(th).run \in Client => stack'[th] # <<>> /\ stack'[th][1].run = stack[th][1].run
  BY StepMoves, MovedStack
<1>2. ASSUME NEW c \in Client, c = th PROVE stack'[c] # <<>> /\ stack'[c][1].run = c
  <2>1. stack[c] # <<>> /\ stack[c][1].run = c /\ stack[c] \in Seq(FrameRec)
    BY <1>2 DEF Roots, QueueInv, QueueTypeOK
  <2>2. CASE Len(stack[c]) > 1
    BY <1>1, <1>2, <2>1, <2>2
  <2>3. CASE ~(Len(stack[c]) > 1)
    <3>1. Len(stack[c]) = 1
      <4>1. PICK n \in Nat \ {0} : n = Len(stack[c])
        BY <2>1, EmptySeq
      <4>2. ~(n > 1)
        BY <2>3, <4>1
      <4>3. n = 1
        BY <4>2
      <4>. QED BY <4>1, <4>3
    <3>2. Top(c) = stack[c][1]
      BY <3>1 DEF Top, Last
    <3>. QED BY <1>1, <1>2, <2>1, <3>2
  <2>. QED BY <2>2, <2>3
<1>3. ASSUME NEW c \in Client, c # th PROVE stack'[c] # <<>> /\ stack'[c][1].run = c
  BY <1>1, <1>3 DEF Roots, Thread
<1>. QED BY <1>1, <1>2, <1>3 DEF Roots

(***************************************************************************)
(* The destructor                                                          *)
(***************************************************************************)
LEMMA RestingFrame ==
  ASSUME QueueInv, Roots, Closing, destroying, NEW c \in Client
  PROVE  /\ stack[c] # <<>> /\ Top(c).run = c /\ Top(c) = stack[c][1] /\ Top(c) \in FrameRec /\ Len(stack[c]) = 1
         /\ Len(Calls(c)) \in Nat /\ Top(c).ip \in Nat /\ destroy_lock = NULL
         /\ \/ Top(c).pc = "body" /\ Top(c).ip > Len(Calls(c))
            \/ Top(c).pc \in {"destroy", "sync"} /\ Top(c).ip >= Len(Calls(c))
<1>1. stack[c] # <<>> /\ stack[c][1].run = c /\ stack[c] \in Seq(FrameRec) /\ script \in Scripts
  BY DEF Roots, QueueInv, QueueTypeOK, VarsOK, Thread
<1>2. Rests(c) /\ destroy_lock = NULL
  BY DEF Closing
<1>3. Top(c) = stack[c][1] /\ Len(stack[c]) = 1
  BY <1>2 DEF Rests, Top, Last
<1>4. Top(c) \in FrameRec
  BY <1>1, <1>3
<1>. QED BY <1>1, <1>2, <1>3, <1>4, CallFacts DEF Rests, FrameRec

\* While the queue is being destroyed no client makes a call.
LEMMA ClientsRest ==
  ASSUME QueueInv, Roots, Closing, destroying, NEW th \in Client, Step(th)
  PROVE  DestroyNotify(th) \/ DestroySync(th)
<1>1. /\ Top(th).run = th /\ Len(Calls(th)) \in Nat /\ Top(th).ip \in Nat
      /\ \/ Top(th).pc = "body" /\ Top(th).ip > Len(Calls(th))
         \/ Top(th).pc \in {"destroy", "sync"}
  BY RestingFrame
<1>2. ASSUME NEW name, AtCall(th, name) PROVE FALSE
  BY <1>1, <1>2 DEF AtCall, At
<1>3. ASSUME NEW a, At(th, a), a \notin {"body", "destroy", "sync"} PROVE FALSE
  BY <1>1, <1>3 DEF At
<1>4. th \notin Invoker /\ th \notin Worker
  BY ScriptAssumption DEF Thread
<1>5. ~CallStep(th)
  BY <1>2, <1>3 DEF CallStep, Push, PushDependent, PushTarget, Notify, Wait, WaitVisit, WaitLock, WaitTake, WaitDecide, WaitReturn,
     FutureWait, Register, RegisterAppend, RegisterCount, RegisterSettle
<1>6. ~InvokeStep(th)
  BY <1>1, <1>3, <1>4 DEF InvokeStep, InvokeNonVoid, Finish, FunctionReturned, Signal, SignalDependent, SignalDone, SignalLaunch,
     SignalWake
<1>7. ControlStep(th)
  BY <1>4, <1>5, <1>6 DEF Step
<1>. QED BY <1>2, <1>3, <1>7 DEF ControlStep, SetNumberOfThreads, ControlDepends, ControlInline, ControlEnqueue, ControlSkip, Grow,
     GrowSpawn, GrowDone, Shrink, ShrinkSet, ShrinkNotify, ShrinkJoin, Destroy

\* destroying_ is set once, and no resize starts after it.
LEMMA DestroyingStays ==
  ASSUME NEW th \in Thread, Step(th)
  PROVE  /\ destroying => destroying' /\ (destroy_lock = NULL => destroy_lock' = NULL)
         /\ destroying' => destroying \/ Destroy(th)
<1>0. CASE UNCHANGED controlVars
  BY <1>0 DEF controlVars
<1>1. CASE CallStep(th)
  <2>1. Push(th) \/ PushDependent(th) \/ PushTarget(th) \/ Notify(th) \/ Wait(th) \/ WaitVisit(th) => UNCHANGED controlVars
    BY DEF Push, PushDependent, PushTarget, Notify, Wait, WaitVisit
  <2>2. WaitLock(th) \/ WaitTake(th) \/ WaitDecide(th) \/ WaitReturn(th) \/ FutureWait(th) => UNCHANGED controlVars
    BY DEF WaitLock, WaitTake, WaitDecide, WaitReturn, FutureWait
  <2>3. Register(th) \/ RegisterAppend(th) \/ RegisterCount(th) \/ RegisterSettle(th) => UNCHANGED controlVars
    BY DEF Register, RegisterAppend, RegisterCount, RegisterSettle
  <2>. QED BY <1>0, <1>1, <2>1, <2>2, <2>3 DEF CallStep
<1>2. CASE InvokeStep(th)
  <2>1. InvokeNonVoid(th) \/ Finish(th) \/ Signal(th) \/ SignalDependent(th) => UNCHANGED controlVars
    BY DEF InvokeNonVoid, Finish, Signal, SignalDependent
  <2>2. SignalDone(th) \/ SignalLaunch(th) \/ SignalWake(th) => UNCHANGED controlVars
    BY DEF SignalDone, SignalLaunch, SignalWake
  <2>. QED BY <1>0, <1>2, <2>1, <2>2 DEF InvokeStep
<1>3. CASE ControlStep(th)
  <2>1. CASE \/ SetNumberOfThreads(th) \/ ControlDepends(th) \/ ControlInline(th) \/ ControlEnqueue(th) \/ ControlSkip(th)
             \/ GrowSpawn(th)
    BY <2>1 DEF SetNumberOfThreads, ControlDepends, ControlInline, ControlEnqueue, ControlSkip, GrowSpawn, controlVars
  <2>2. CASE \/ Grow(th) \/ GrowDone(th) \/ Shrink(th) \/ ShrinkSet(th) \/ ShrinkNotify(th) \/ ShrinkJoin(th)
    BY <2>2 DEF Grow, GrowDone, Shrink, ShrinkSet, ShrinkNotify, ShrinkJoin, controlVars
  <2>3. CASE Destroy(th) \/ DestroyNotify(th) \/ DestroySync(th)
    BY <2>3 DEF Destroy, DestroyNotify, DestroySync, controlVars
  <2>. QED BY <1>3, <2>1, <2>2, <2>3 DEF ControlStep
<1>4. CASE th \in Worker /\ WorkerStep(th)
  BY <1>4 DEF WorkerStep, WorkerHold, WorkerPop, WorkerExit, controlVars
<1>. QED BY <1>1, <1>2, <1>3, <1>4 DEF Step

\* The destructor is the last call of its client, made from its bottom frame.
LEMMA DestroyIsLast ==
  ASSUME QueueInv, Roots, NEW th \in Thread, Destroy(th)
  PROVE  /\ th = Owner /\ th \in Client /\ Len(stack[th]) = 1 /\ Top(th) \in FrameRec /\ Top(th).run = th
         /\ Top(th).ip = Len(Calls(th)) /\ stack[th] # <<>>
<1>1. PICK f : f = Top(th) /\ f \in FrameRec /\ stack[th] # <<>> /\ f.ip <= Len(Calls(f.run)) /\ CallOf(f).call = "destroy"
  BY CallFrame DEF Destroy
<1>2. script \in Scripts /\ OneFrame /\ f.ip \in Nat \ {0}
  BY <1>1 DEF QueueInv, QueueTypeOK, VarsOK, CallsInv, FrameRec
<1>3. f.run = Owner /\ f.ip = Len(Calls(f.run))
  <2>1. f.run \in DOMAIN script
    BY <1>1, <1>2 DEF Calls
  <2>2. PICK s : s = script /\ s \in Scripts
    BY <1>2
  <2>3. PICK l, n : l = s[f.run] /\ l = Calls(f.run) /\ n = Len(l) /\ n \in Nat /\ DOMAIN l = 1 .. n
    BY <1>2, <2>1, <2>2, CallFacts DEF Calls
  <2>4. f.ip \in DOMAIN l /\ l[f.ip].call = "destroy"
    BY <1>1, <1>2, <2>3 DEF CallOf
  <2>5. \A x \in Scripts : \A r \in DOMAIN x : \A i \in DOMAIN x[r] :
          x[r][i].call = "destroy" => r = Owner /\ i = Len(x[r])
    BY ScriptAssumption
  <2>. QED BY <2>1, <2>2, <2>3, <2>4, <2>5
<1>4. Owner \in Client /\ Owner \in Thread /\ stack[Owner] # <<>> /\ stack[Owner][1].run = Owner
  BY ScriptAssumption DEF Roots, Thread
<1>5. PICK n \in Nat \ {0} : n = Len(stack[th]) /\ DOMAIN stack[th] = 1 .. n /\ f = stack[th][n]
  <2>1. stack[th] \in Seq(FrameRec)
    BY DEF QueueInv, QueueTypeOK
  <2>2. Len(stack[th]) \in Nat \ {0} /\ DOMAIN stack[th] = 1 .. Len(stack[th])
    BY <1>1, <2>1, EmptySeq
  <2>. QED BY <1>1, <2>2 DEF Top, Last
<1>6. 1 \in DOMAIN stack[Owner]
  <2>1. stack[Owner] \in Seq(FrameRec)
    BY <1>4 DEF QueueInv, QueueTypeOK
  <2>2. Len(stack[Owner]) \in Nat \ {0} /\ DOMAIN stack[Owner] = 1 .. Len(stack[Owner])
    BY <1>4, <2>1, EmptySeq
  <2>. QED BY <2>2
<1>7. th = Owner /\ n = 1
  <2>1. n \in DOMAIN stack[th] /\ stack[th][n].run = stack[Owner][1].run
    BY <1>3, <1>4, <1>5
  <2>. QED BY <1>2, <1>4, <1>6, <2>1 DEF OneFrame
<1>. QED BY <1>1, <1>3, <1>4, <1>5, <1>7

LEMMA StepClosing ==
  ASSUME QueueInv, QueueInv', Roots, Closing, NEW th \in Thread, Step(th)
  PROVE  Closing'
<1>. SUFFICES ASSUME destroying' PROVE destroy_lock' = NULL /\ \A c \in Client : Rests(c)'
  BY DEF Closing
<1>1. /\ \A u \in Thread : u # th => stack'[u] = stack[u]
      /\ script' = script /\ (destroying \/ Destroy(th))
  BY StepRoots, DestroyingStays DEF Step
<1>2. ASSUME NEW c \in Client, c # th, Rests(c) PROVE Rests(c)'
  BY <1>1, <1>2 DEF Rests, Top, Calls, Thread
<1>3. ASSUME NEW g, Goto(th, g), Len(stack[th]) = 1, th \in Client
      PROVE  Len(stack'[th]) = 1 /\ Top(th)' = g
  <2>1. stack[th] \in Seq(FrameRec) /\ stack \in [Thread -> Seq(FrameRec)]
    BY DEF QueueInv, QueueTypeOK
  <2>2. Front(stack[th]) = <<>>
    <3>1. SubSeq(stack[th], 1, 0) = <<>>
      BY <2>1
    <3>. QED BY <1>3, <3>1 DEF Front
  <2>3. stack'[th] = <<g>>
    BY <1>3, <2>1, <2>2 DEF Goto
  <2>. QED BY <2>3 DEF Top, Last
<1>4. CASE ~destroying
  <2>1. Destroy(th) /\ destroy_lock' = NULL
    BY <1>1, <1>4 DEF Destroy
  <2>2. \A c \in Client \ {th} : Rests(c)
    BY <2>1 DEF Destroy, Finished, Rests
  <2>3. PICK f : f = Top(th) /\ f \in FrameRec /\ th \in Client /\ Len(stack[th]) = 1 /\ f.ip = Len(Calls(th))
    BY <2>1, DestroyIsLast
  <2>4. PICK g : g = [f EXCEPT !.pc = "destroy"] /\ Goto(th, g)
    BY <2>1, <2>3 DEF Destroy
  <2>5. g.pc = "destroy" /\ g.ip = f.ip
    BY <2>3, <2>4 DEF FrameRec
  <2>6. Rests(th)'
    BY <1>1, <1>3, <2>3, <2>4, <2>5 DEF Rests, Calls, FrameRec
  <2>. QED BY <1>2, <2>1, <2>2, <2>6
<1>5. CASE destroying
  <2>1. destroy_lock' = NULL
    BY <1>5, DestroyingStays DEF Closing
  <2>2. \A c \in Client : Rests(c)
    BY <1>5 DEF Closing
  <2>3. ASSUME th \in Client PROVE Rests(th)'
    <3>1. PICK f : f = Top(th) /\ f \in FrameRec /\ Len(stack[th]) = 1 /\ Top(th).run = th /\ Len(Calls(th)) \in Nat
      BY <1>5, <2>3, RestingFrame
    <3>2. CASE DestroyNotify(th)
      <4>1. PICK g : g = [f EXCEPT !.pc = "sync"] /\ Goto(th, g) /\ f.pc = "destroy"
        BY <3>1, <3>2 DEF DestroyNotify, At
      <4>2. g.pc = "sync" /\ g.ip = f.ip /\ f.ip >= Len(Calls(th))
        BY <1>5, <2>3, <3>1, <4>1, RestingFrame DEF FrameRec
      <4>3. g.ip >= Len(Calls(th))
        BY <4>2
      <4>. QED BY <1>1, <1>3, <2>3, <3>1, <4>1, <4>2, <4>3 DEF Rests, Calls
    <3>3. CASE DestroySync(th)
      <4>1. PICK g : g = NextCall(f) /\ Goto(th, g) /\ f.pc = "sync"
        BY <3>1, <3>3 DEF DestroySync, At
      <4>2. g.pc = "body" /\ g.ip = f.ip + 1 /\ f.ip >= Len(Calls(th)) /\ f.ip \in Nat
        BY <1>5, <2>3, <3>1, <4>1, RestingFrame DEF FrameRec, NextCall
      <4>3. g.ip > Len(Calls(th))
        BY <3>1, <4>2
      <4>. QED BY <1>1, <1>3, <2>3, <3>1, <4>1, <4>2, <4>3 DEF Rests, Calls
    <3>. QED BY <1>5, <2>3, <3>2, <3>3, ClientsRest
  <2>. QED BY <1>2, <2>1, <2>2, <2>3
<1>. QED BY <1>4, <1>5

(***************************************************************************)
(* A step that wakes no worker, and one that notifies                      *)
(***************************************************************************)
\* What keeps a worker awake: whoever will notify, dismiss or spawn is still there.
LEMMA StaysAwake ==
  ASSUME NoLostWakeup, NEW th \in Thread, invoker_queue' # <<>> => invoker_queue # <<>>,
         UNCHANGED <<threads, number_of_threads, thread_index>>,
         \A w \in Worker : worker[w] = "pop" => worker'[w] = "pop",
         \A u \in Thread : u # th => stack'[u] = stack[u],
         NEW a, At(th, a), a \notin {"notify", "wake", "dismiss"},
         a = "spawn" => ~(Len(threads) < number_of_threads)
  PROVE  NoLostWakeup'
<1>. SUFFICES ASSUME invoker_queue' # <<>>, number_of_threads > 0,
                     \A u \in Thread : /\ ~At(u, "notify")' /\ ~At(u, "wake")' /\ ~At(u, "dismiss")'
                                       /\ ~(At(u, "spawn")' /\ Len(threads) < number_of_threads)
              PROVE  \E w \in Worker : Awake(w)'
  BY DEF NoLostWakeup
<1>1. \A b : \A u \in Thread : u # th => (At(u, b)' <=> At(u, b))
  BY DEF At, Top
<1>2. \A b : At(th, b) => b = a
  BY DEF At
<1>3. ~\E u \in Thread : \/ At(u, "notify") \/ At(u, "wake") \/ At(u, "dismiss")
                         \/ At(u, "spawn") /\ Len(threads) < number_of_threads
  BY <1>1, <1>2
<1>4. PICK w \in Worker : Awake(w)
  BY <1>3 DEF NoLostWakeup
<1>. QED BY <1>4 DEF Awake

\* A worker that runs an invoker has a thread.
LEMMA BusyWorker ==
  ASSUME QueueInv, TableInv, NEW w \in Worker, stack[w] # <<>>, destroy_lock = NULL
  PROVE  worker[w] = "pop" /\ thread_index[w] < number_of_threads
BY DEF TableInv, Mutex, Entries, Table

\* notify_one after a push: it wakes a worker, one is awake, or the threads
\* have yet to be started.
LEMMA NotifyWakes ==
  ASSUME QueueInv, TableInv, Roots, Closing, Dismissed, NEW th \in Thread, NEW a \in {"notify", "wake"}, At(th, a), notify_one,
         UNCHANGED <<threads, number_of_threads, thread_index>>, \A u \in Thread : u # th => stack'[u] = stack[u]
  PROVE  NoLostWakeup'
<1>. SUFFICES ASSUME number_of_threads > 0,
                     \A u \in Thread : ~At(u, "dismiss")' /\ ~(At(u, "spawn")' /\ Len(threads) < number_of_threads)
              PROVE  \E w \in Worker : Awake(w)'
  BY DEF NoLostWakeup
<1>1. /\ VarsOK /\ Len(threads) \in Nat /\ DOMAIN threads = 1 .. Len(threads) /\ number_of_threads \in Nat
      /\ \A i \in DOMAIN threads : threads[i] \in Worker
  BY ResizeFacts
<1>2. \A u \in Thread : /\ ~At(u, "dismiss") /\ ~(At(u, "spawn") /\ Len(threads) < number_of_threads)
  <2>1. \A b : \A u \in Thread : u # th => (At(u, b)' <=> At(u, b))
    BY DEF At, Top
  <2>2. ~At(th, "dismiss") /\ ~At(th, "spawn")
    BY DEF At
  <2>. QED BY <2>1, <2>2
<1>3. CASE Waiting # {}
  <2>1. PICK w \in Waiting : worker' = [worker EXCEPT ![w] = "pop"]
    BY <1>3 DEF notify_one
  <2>2. w \in Worker /\ worker[w] = "wait" /\ worker'[w] = "pop"
    BY <1>1, <2>1 DEF Waiting, VarsOK
  <2>. QED BY <1>2, <2>2 DEF Dismissed, Awake
<1>4. CASE Waiting = {}
  <2>1. worker' = worker
    BY <1>4 DEF notify_one
  <2>2. number_of_threads <= Len(threads)
    <3>1. CASE destroy_lock = NULL
      BY <1>1, <3>1 DEF TableInv, Table
    <3>2. ASSUME NEW u \in Thread, Resizer(u) PROVE number_of_threads <= Len(threads)
      <4>1. At(u, "spawn") \/ At(u, "shrink") \/ At(u, "dismiss") \/ At(u, "join")
        BY <3>2 DEF Resizer, Resizes, At
      <4>2. /\ Size(u) \in Nat
            /\ At(u, "shrink") => number_of_threads = Len(threads)
            /\ At(u, "dismiss") \/ At(u, "join") => Size(u) < Len(threads) /\ number_of_threads = Size(u)
        BY <3>2, ResizeFacts
      <4>3. At(u, "spawn") => ~(Len(threads) < number_of_threads)
        BY <1>2
      <4>. QED BY <1>1, <4>1, <4>2, <4>3
    <3>. QED BY <1>1, <3>1, <3>2 DEF TableInv, Mutex, VarsOK
  <2>3. PICK w \in Worker : w = threads[1] /\ 1 \in DOMAIN threads
    BY <1>1, <2>2
  <2>4. thread_index[w] = 0 /\ worker[w] \in {"pop", "wait", "exited"}
    <3>1. thread_index[w] = 1 - 1 /\ worker[w] # "none" /\ worker[w] \in {"none", "pop", "wait", "exited"}
      BY <1>1, <2>3 DEF TableInv, Entries, VarsOK
    <3>. QED BY <3>1
  <2>5. CASE worker[w] = "pop"
    BY <2>1, <2>4, <2>5 DEF Awake
  <2>6. CASE worker[w] = "exited"
    <3>1. destroying /\ destroy_lock = NULL
      BY <1>1, <2>3, <2>6 DEF TableInv, Table, Present, Closing
    <3>2. th \in Worker
      <4>1. ASSUME th \in Client PROVE FALSE
        BY <3>1, <4>1, RestingFrame DEF At
      <4>. QED BY <4>1 DEF Thread
    <3>3. stack[th] # <<>>
      BY DEF At
    <3>. QED BY <2>1, <3>1, <3>2, <3>3, BusyWorker DEF Awake
  <2>. QED BY <1>4, <2>4, <2>5, <2>6 DEF Waiting
<1>. QED BY <1>3, <1>4

\* Dismissed holds on unless the table changes.
LEMMA StaysDismissed ==
  ASSUME Dismissed, NEW th \in Thread, UNCHANGED <<number_of_threads, thread_index>>, ~At(th, "dismiss"),
         \A w \in Worker : worker'[w] = "wait" => worker[w] = "wait" \/ thread_index[w] < number_of_threads,
         \A u \in Thread : u # th => stack'[u] = stack[u]
  PROVE  Dismissed'
<1>1. \A u \in Thread : At(u, "dismiss") => At(u, "dismiss")'
  BY DEF At, Top
<1>. QED BY <1>1 DEF Dismissed

(***************************************************************************)
(* The steps                                                               *)
(***************************************************************************)
Others(th) == \A u \in Thread : u # th => stack'[u] = stack[u]

LEMMA QuietWakes ==
  ASSUME NoLostWakeup, Dismissed, NEW th \in Thread, Others(th), NEW a, At(th, a), a \notin {"notify", "wake", "dismiss", "spawn"},
         UNCHANGED <<threads, number_of_threads, thread_index, worker>>, invoker_queue' # <<>> => invoker_queue # <<>>
  PROVE  NoLostWakeup' /\ Dismissed'
<1>1. ~At(th, "dismiss")
  BY DEF At
<1>. QED BY <1>1, StaysAwake, StaysDismissed DEF Others

LEMMA SameFront == QueueInv => pop_front_nullptr(invoker_queue) = invoker_queue
<1>. SUFFICES ASSUME QueueInv PROVE pop_front_nullptr(invoker_queue) = invoker_queue
  OBVIOUS
<1>1. Sound(invoker_queue, invoker_index) /\ invoker_queue \in Seq(Queued)
  BY DEF QueueInv, DequeInv, Sound, Queued
<1>. QED BY <1>1, PopNulls DEF Sound

LEMMA QuietCalls ==
  ASSUME QueueInv, NoLostWakeup, Dismissed, NEW th \in Thread, Others(th),
         \/ PushDependent(th) \/ Wait(th) \/ WaitVisit(th) \/ WaitLock(th) \/ WaitTake(th) \/ WaitDecide(th) \/ WaitReturn(th)
         \/ FutureWait(th) \/ Register(th) \/ RegisterAppend(th) \/ RegisterCount(th) \/ RegisterSettle(th)
  PROVE  NoLostWakeup' /\ Dismissed'
<1>1. PICK a \in {"body", "visit", "try", "take", "block", "register", "append", "count"} : At(th, a)
  BY DEF PushDependent, Wait, WaitVisit, WaitLock, WaitTake, WaitDecide, WaitReturn, FutureWait, Register, RegisterAppend,
         RegisterCount, RegisterSettle, AtCall
<1>2. UNCHANGED threadVars /\ worker' = worker
  BY DEF PushDependent, Wait, WaitVisit, WaitLock, WaitTake, WaitDecide, WaitReturn, FutureWait, Register, RegisterAppend,
         RegisterCount, RegisterSettle
<1>3. invoker_queue' # <<>> => invoker_queue # <<>>
  <2>1. CASE WaitLock(th)
    BY <2>1, SameFront DEF WaitLock
  <2>2. CASE WaitTake(th)
    <3>1. invoker_queue' = invoker_queue \/ slot_of(Head(Top(th).todo)) \in DOMAIN invoker_queue
      BY <2>2 DEF WaitTake
    <3>. QED BY <3>1
  <2>3. CASE ~WaitLock(th) /\ ~WaitTake(th)
    BY <2>3 DEF PushDependent, Wait, WaitVisit, WaitDecide, WaitReturn, FutureWait, Register, RegisterAppend,
       RegisterCount, RegisterSettle, queueVars
  <2>. QED BY <2>1, <2>2, <2>3
<1>. QED BY <1>1, <1>2, <1>3, QuietWakes DEF threadVars

LEMMA QuietInvokes ==
  ASSUME QueueInv, NoLostWakeup, Dismissed, NEW th \in Thread, Others(th),
         InvokeNonVoid(th) \/ Finish(th) \/ Signal(th) \/ SignalDependent(th) \/ SignalDone(th)
  PROVE  NoLostWakeup' /\ Dismissed'
<1>1. PICK a \in {"start", "finish", "body", "signal", "dependent"} : At(th, a)
  BY DEF InvokeNonVoid, Finish, FunctionReturned, Signal, SignalDependent, SignalDone
<1>2. UNCHANGED <<threadVars, queueVars, worker>>
  BY DEF InvokeNonVoid, Finish, Signal, SignalDependent, SignalDone
<1>. QED BY <1>1, <1>2, QuietWakes DEF threadVars, queueVars

LEMMA QuietControls ==
  ASSUME QueueInv, NoLostWakeup, Dismissed, NEW th \in Thread, Others(th),
         \/ SetNumberOfThreads(th) \/ ControlDepends(th) \/ ControlInline(th) \/ ControlSkip(th) \/ Destroy(th) \/ DestroySync(th)
  PROVE  NoLostWakeup' /\ Dismissed'
<1>1. PICK a \in {"body", "controls", "control", "sync"} : At(th, a)
  BY DEF SetNumberOfThreads, ControlDepends, ControlInline, ControlSkip, Destroy, DestroySync, AtCall
<1>2. UNCHANGED <<threadVars, queueVars, worker>>
  BY DEF SetNumberOfThreads, ControlDepends, ControlInline, ControlSkip, Destroy, DestroySync
<1>. QED BY <1>1, <1>2, QuietWakes DEF threadVars, queueVars

\* A task is offered to the workers, and a notification will follow.
LEMMA OfferWakes ==
  ASSUME QueueInv, QueueInv', Mutex, Dismissed, NEW th \in Thread, Others(th),
         Push(th) \/ PushTarget(th) \/ ControlEnqueue(th) \/ SignalLaunch(th)
  PROVE  NoLostWakeup' /\ Dismissed'
<1>1. PICK f : f = Top(th) /\ f \in FrameRec /\ stack[th] # <<>> /\ f.pc \in {"body", "push", "controls", "launch"}
  <2>1. PICK a \in {"body", "push", "controls", "launch"} : At(th, a)
    BY DEF Push, PushTarget, ControlEnqueue, SignalLaunch, AtCall
  <2>. QED BY <2>1, AtFrame
<1>2. PICK g : (g = [f EXCEPT !.pc = "notify"] \/ g = [f EXCEPT !.pc = "wake"]) /\ Goto(th, g)
  <2>1. Push(th) \/ PushTarget(th) \/ ControlEnqueue(th) => Goto(th, [f EXCEPT !.pc = "notify"])
    BY <1>1 DEF Push, PushTarget, ControlEnqueue
  <2>2. SignalLaunch(th) => Goto(th, [f EXCEPT !.pc = "wake"])
    BY <1>1 DEF SignalLaunch
  <2>. QED BY <2>1, <2>2
<1>3. g.pc \in {"notify", "wake"}
  BY <1>1, <1>2 DEF FrameRec
<1>4. stack'[th] # <<>> /\ Top(th)' = g
  BY <1>1, <1>2, GotoShape DEF QueueInv, QueueTypeOK
<1>5. At(th, "notify")' \/ At(th, "wake")'
  BY <1>3, <1>4 DEF At
<1>6. UNCHANGED threadVars /\ worker' = worker /\ ~At(th, "dismiss")
  BY <1>1 DEF Push, PushTarget, ControlEnqueue, SignalLaunch, At
<1>7. Dismissed'
  BY <1>6, StaysDismissed DEF threadVars, Others
<1>. QED BY <1>5, <1>7 DEF NoLostWakeup

LEMMA NotifyStep ==
  ASSUME QueueInv, TableInv, Roots, Closing, Dismissed, NEW th \in Thread, Others(th), Notify(th) \/ SignalWake(th)
  PROVE  NoLostWakeup' /\ Dismissed'
<1>1. PICK a \in {"notify", "wake"} : At(th, a)
  BY DEF Notify, SignalWake
<1>2. notify_one /\ UNCHANGED threadVars
  BY DEF Notify, SignalWake
<1>3. NoLostWakeup'
  BY <1>1, <1>2, NotifyWakes DEF threadVars, Others
<1>4. \A w \in Worker : worker'[w] = "wait" => worker[w] = "wait"
  BY <1>2, WokenWorkers DEF QueueInv, QueueTypeOK
<1>5. ~At(th, "dismiss")
  BY <1>1 DEF At
<1>6. Dismissed'
  BY <1>2, <1>4, <1>5, StaysDismissed DEF threadVars, Others
<1>. QED BY <1>3, <1>6

LEMMA DestroyNotifyWakes ==
  ASSUME QueueInv, NoLostWakeup, Dismissed, NEW th \in Thread, Others(th), DestroyNotify(th)
  PROVE  NoLostWakeup' /\ Dismissed'
<1>1. At(th, "destroy") /\ notify_all /\ UNCHANGED <<threadVars, queueVars>>
  BY DEF DestroyNotify
<1>2. \A w \in Worker : worker'[w] = worker[w] \/ (worker[w] = "wait" /\ worker'[w] = "pop")
  BY <1>1, WokenWorkers DEF QueueInv, QueueTypeOK
<1>3. \A w \in Worker : (worker[w] = "pop" => worker'[w] = "pop") /\ (worker'[w] = "wait" => worker[w] = "wait")
  BY <1>2
<1>4. ~At(th, "dismiss")
  BY <1>1 DEF At
<1>. QED BY <1>1, <1>3, <1>4, StaysAwake, StaysDismissed DEF threadVars, queueVars, Others

LEMMA WorkerWakes ==
  ASSUME QueueInv, NoLostWakeup, Dismissed, NEW th \in Worker, Others(th), WorkerStep(th)
  PROVE  NoLostWakeup' /\ Dismissed'
<1>1. /\ stack[th] = <<>> /\ UNCHANGED <<threads, number_of_threads, thread_index>> /\ worker \in [Worker -> {"none", "pop", "wait", "exited"}]
      /\ th \in Thread
  BY DEF WorkerStep, WorkerHold, WorkerPop, WorkerExit, threadVars, QueueInv, QueueTypeOK, VarsOK, Thread
<1>2. \A b : \A u \in Thread : At(u, b) => At(u, b)'
  BY <1>1 DEF Others, At, Top
<1>3. \A w \in Worker : worker'[w] = "wait" => worker[w] = "wait" \/ thread_index[w] < number_of_threads
  BY <1>1 DEF WorkerStep, WorkerHold, WorkerPop, WorkerExit, on_hold
<1>4. Dismissed'
  BY <1>1, <1>2, <1>3 DEF Dismissed
<1>5. ASSUME invoker_queue' # <<>>, number_of_threads > 0
      PROVE  invoker_queue # <<>> /\ \A w \in Worker : Awake(w) => Awake(w)'
  <2>1. CASE WorkerHold(th)
    BY <1>5, <2>1 DEF WorkerHold, on_hold, queueVars
  <2>2. CASE WorkerPop(th)
    BY <1>1, <2>2, SameFront DEF WorkerPop, can_continue, Awake
  <2>3. CASE WorkerExit(th)
    <3>1. invoker_queue # <<>> /\ ~(thread_index[th] < number_of_threads)
      BY <1>5, <2>3, SameFront DEF WorkerExit, can_continue
    <3>2. worker' = [worker EXCEPT ![th] = "exited"]
      BY <2>3 DEF WorkerExit
    <3>. QED BY <1>1, <3>1, <3>2 DEF Awake
  <2>. QED BY <2>1, <2>2, <2>3 DEF WorkerStep
<1>6. NoLostWakeup'
  <2>. SUFFICES ASSUME invoker_queue' # <<>>, number_of_threads' > 0
                PROVE  \/ \E w \in Worker : Awake(w)'
                       \/ \E u \in Thread : \/ At(u, "notify")' \/ At(u, "wake")' \/ At(u, "dismiss")'
                                            \/ At(u, "spawn")' /\ Len(threads') < number_of_threads'
    BY DEF NoLostWakeup
  <2>1. invoker_queue # <<>> /\ number_of_threads > 0 /\ \A w \in Worker : Awake(w) => Awake(w)'
    BY <1>1, <1>5
  <2>. QED BY <1>1, <1>2, <2>1 DEF NoLostWakeup
<1>. QED BY <1>4, <1>6

(***************************************************************************)
(* The resizes                                                             *)
(***************************************************************************)
LEMMA ResizeMoves ==
  ASSUME QueueInv, QueueInv', Mutex, NEW th \in Thread, NEW a, At(th, a), NEW pc, Goto(th, [Top(th) EXCEPT !.pc = pc])
  PROVE  At(th, pc)'
<1>1. stack[th] # <<>> /\ Top(th) \in FrameRec
  BY AtFrame
<1>2. PICK g : g = [Top(th) EXCEPT !.pc = pc] /\ Goto(th, g) /\ g.pc = pc
  BY <1>1 DEF FrameRec
<1>3. stack'[th] # <<>> /\ Top(th)' = g
  BY <1>1, <1>2, GotoShape DEF QueueInv, QueueTypeOK
<1>. QED BY <1>2, <1>3 DEF At

\* A waiting worker has a thread.
LEMMA WaitingThread ==
  ASSUME Entries, NEW w \in Worker, worker[w] = "wait"
  PROVE  thread_index[w] < Len(threads)
BY DEF Entries

LEMMA GrowWakes ==
  ASSUME QueueInv, QueueInv', TableInv, NoLostWakeup, Dismissed, NEW th \in Thread, Others(th), Grow(th) \/ GrowSpawn(th) \/ GrowDone(th)
  PROVE  NoLostWakeup' /\ Dismissed'
<1>0. /\ VarsOK /\ Len(threads) \in Nat /\ number_of_threads \in Nat
      /\ At(th, "control") => Size(th) \in Nat
      /\ At(th, "spawn") => number_of_threads = Size(th)
  BY ResizeFacts
<1>1. CASE Grow(th)
  <2>1. PICK n \in Nat : /\ n = Size(th) /\ Len(threads) < n /\ number_of_threads' = n /\ UNCHANGED <<threads, thread_index, worker>>
                         /\ At(th, "control") /\ Goto(th, [Top(th) EXCEPT !.pc = "spawn"])
    BY <1>0, <1>1 DEF Grow, Size
  <2>2. At(th, "spawn")'
    BY <2>1, ResizeMoves DEF TableInv
  <2>3. NoLostWakeup'
    BY <2>1, <2>2 DEF NoLostWakeup
  <2>4. ASSUME NEW w \in Worker, worker[w] = "wait" PROVE thread_index[w] < n
    <3>1. thread_index[w] < Len(threads) /\ thread_index[w] \in Nat
      BY <1>0, <2>4, WaitingThread DEF TableInv, VarsOK
    <3>. QED BY <1>0, <2>1, <3>1
  <2>. QED BY <2>1, <2>3, <2>4 DEF Dismissed
<1>2. CASE GrowSpawn(th)
  <2>1. PICK w \in Worker : /\ worker[w] = "none" /\ worker' = [worker EXCEPT ![w] = "pop"] /\ At(th, "spawn")
                            /\ thread_index' = [thread_index EXCEPT ![w] = Len(threads)] /\ stack' = stack
                            /\ Len(threads) < Size(th) /\ number_of_threads' = number_of_threads
    BY <1>2 DEF GrowSpawn, next_index, Size
  <2>2. Awake(w)'
    BY <1>0, <2>1 DEF VarsOK, Awake
  <2>3. NoLostWakeup'
    BY <2>2 DEF NoLostWakeup
  <2>4. ASSUME NEW v \in Worker, worker'[v] = "wait" PROVE worker[v] = "wait" /\ thread_index'[v] = thread_index[v]
    BY <1>0, <2>1, <2>4 DEF VarsOK
  <2>5. Dismissed'
    BY <2>1, <2>4 DEF Dismissed, At, Top
  <2>. QED BY <2>3, <2>5
<1>3. CASE GrowDone(th)
  <2>1. /\ At(th, "spawn") /\ UNCHANGED <<threads, number_of_threads, thread_index, worker, invoker_queue>>
        /\ Len(threads) = number_of_threads
    BY <1>0, <1>3 DEF GrowDone, threadVars, queueVars, Size
  <2>2. ~(Len(threads) < number_of_threads) /\ ~At(th, "dismiss")
    BY <1>0, <2>1 DEF At
  <2>. QED BY <2>1, <2>2, StaysAwake, StaysDismissed DEF Others
<1>. QED BY <1>1, <1>2, <1>3

LEMMA ShrinkWakes ==
  ASSUME QueueInv, QueueInv', TableInv, TableInv', NoLostWakeup, Dismissed, NEW th \in Thread, Others(th), Shrink(th)
  PROVE  NoLostWakeup' /\ Dismissed'
<1>1. /\ At(th, "control") /\ destroy_lock = NULL /\ UNCHANGED <<number_of_threads, worker, invoker_queue>>
      /\ threads' = threads \/ threads' = [threads EXCEPT ![1] = th, ![thread_index[th] + 1] = threads[1]]
  BY DEF Shrink, queueVars
<1>2. Len(threads') = Len(threads) /\ number_of_threads = Len(threads)
  <2>1. threads \in Seq(Worker)
    BY DEF QueueInv, QueueTypeOK, VarsOK
  <2>. QED BY <1>1, <2>1 DEF TableInv, Table
<1>3. \A w \in Worker : worker[w] \in {"pop", "wait"} => thread_index'[w] < number_of_threads'
  BY <1>1, <1>2 DEF TableInv, Entries
<1>4. Dismissed'
  BY <1>1, <1>3 DEF Dismissed
<1>5. ASSUME NEW u \in Thread, NEW b, At(u, b), b # "control" PROVE At(u, b)'
  BY <1>1, <1>5 DEF At, Top, Others
<1>6. \A u \in Thread : ~(At(u, "spawn") /\ Len(threads) < number_of_threads)
  <2>1. Len(threads) \in Nat
    BY ResizeFacts
  <2>. QED BY <1>2, <2>1
<1>7. NoLostWakeup'
  <2>. SUFFICES ASSUME invoker_queue' # <<>>, number_of_threads' > 0
                PROVE  \/ \E w \in Worker : Awake(w)'
                       \/ \E u \in Thread : At(u, "notify")' \/ At(u, "wake")' \/ At(u, "dismiss")'
    BY DEF NoLostWakeup
  <2>1. \/ \E w \in Worker : Awake(w)
        \/ \E u \in Thread : At(u, "notify") \/ At(u, "wake") \/ At(u, "dismiss")
    BY <1>1, <1>6 DEF NoLostWakeup
  <2>. QED BY <1>1, <1>3, <1>5, <2>1 DEF Awake
<1>. QED BY <1>4, <1>7

\* While a resize is under way the queue is not being destroyed.
LEMMA ResizerNotClosing ==
  ASSUME QueueInv, TableInv, Closing, NEW th \in Thread, Resizer(th)
  PROVE  ~destroying
BY Constants DEF TableInv, Mutex, Closing

LEMMA DismissWakes ==
  ASSUME QueueInv, QueueInv', TableInv, Closing, NEW th \in Thread, Others(th), ShrinkSet(th) \/ ShrinkNotify(th)
  PROVE  NoLostWakeup' /\ Dismissed'
<1>1. CASE ShrinkSet(th)
  <2>1. At(th, "dismiss")'
    BY <1>1, ResizeMoves DEF ShrinkSet, TableInv
  <2>. QED BY <2>1 DEF NoLostWakeup, Dismissed
<1>2. CASE ShrinkNotify(th)
  <2>1. At(th, "dismiss") /\ Resizer(th) /\ notify_all /\ UNCHANGED <<threads, number_of_threads, thread_index>>
    BY <1>2 DEF ShrinkNotify, threadVars, Resizer, At, Resizes
  <2>2. \A w \in Worker : worker'[w] # "wait" /\ (worker[w] \in {"pop", "wait"} => worker'[w] = "pop")
    BY <2>1 DEF notify_all, Waiting, QueueInv, QueueTypeOK, VarsOK
  <2>3. Dismissed'
    BY <2>2 DEF Dismissed
  <2>4. ASSUME number_of_threads > 0 PROVE \E w \in Worker : Awake(w)'
    <3>1. /\ VarsOK /\ DOMAIN threads = 1 .. Len(threads) /\ Len(threads) \in Nat /\ number_of_threads \in Nat
          /\ Size(th) < Len(threads) /\ number_of_threads = Size(th) /\ \A i \in DOMAIN threads : threads[i] \in Worker
      BY <2>1, ResizeFacts
    <3>2. PICK w \in Worker : w = threads[1] /\ 1 \in DOMAIN threads
      BY <2>4, <3>1
    <3>3. thread_index[w] = 0 /\ worker[w] # "none" /\ worker[w] \in {"none", "pop", "wait", "exited"}
      <4>1. thread_index[w] = 1 - 1 /\ worker[w] # "none"
        BY <3>2 DEF TableInv, Entries
      <4>. QED BY <3>1, <4>1 DEF VarsOK
    <3>4. worker[w] # "exited"
      <4>1. 1 <= number_of_threads
        BY <2>4, <3>1
      <4>2. ~destroying
        BY <2>1, ResizerNotClosing
      <4>. QED BY <3>2, <4>1, <4>2 DEF TableInv, Table, Present
    <3>. QED BY <2>1, <2>2, <2>4, <3>3, <3>4 DEF Awake
  <2>. QED BY <2>1, <2>3, <2>4 DEF NoLostWakeup
<1>. QED BY <1>1, <1>2

LEMMA JoinWakes ==
  ASSUME QueueInv, QueueInv', TableInv, NoLostWakeup, Dismissed, NEW th \in Thread, Others(th), ShrinkJoin(th)
  PROVE  NoLostWakeup' /\ Dismissed'
<1>1. At(th, "join") /\ Resizer(th) /\ UNCHANGED <<number_of_threads, thread_index, worker, invoker_queue>> /\ ~At(th, "dismiss")
  BY DEF ShrinkJoin, Resizer, At, Resizes, queueVars
<1>2. Dismissed'
  BY <1>1, StaysDismissed DEF Others
<1>3. \A u \in Thread : ~At(u, "spawn")
  <2>. SUFFICES ASSUME NEW u \in Thread, At(u, "spawn") PROVE FALSE
    OBVIOUS
  <2>1. Resizer(u)
    BY DEF Resizer, At, Resizes
  <2>2. u = th
    BY <1>1, <2>1 DEF TableInv, Mutex
  <2>. QED BY <1>1, <2>2 DEF At
<1>4. ASSUME NEW u \in Thread, NEW b, At(u, b), b # "join" PROVE At(u, b)'
  BY <1>1, <1>4 DEF At, Top, Others
<1>. QED BY <1>1, <1>2, <1>3, <1>4 DEF NoLostWakeup, Awake

(***************************************************************************)
(* The wake-ups, in every state                                            *)
(***************************************************************************)
LEMMA StepWakes ==
  ASSUME QueueInv, QueueInv', TableInv, TableInv', WakeInv, NEW th \in Thread, Step(th)
  PROVE  WakeInv'
<1>. Roots /\ Closing /\ Dismissed /\ NoLostWakeup /\ Mutex
  BY DEF WakeInv, TableInv
<1>0. Roots' /\ Closing' /\ Others(th)
  BY StepRoots, StepClosing DEF Others
<1>1. CASE \/ PushDependent(th) \/ Wait(th) \/ WaitVisit(th) \/ WaitLock(th) \/ WaitTake(th) \/ WaitDecide(th) \/ WaitReturn(th)
           \/ FutureWait(th) \/ Register(th) \/ RegisterAppend(th) \/ RegisterCount(th) \/ RegisterSettle(th)
  BY <1>0, <1>1, QuietCalls DEF WakeInv
<1>2. CASE InvokeNonVoid(th) \/ Finish(th) \/ Signal(th) \/ SignalDependent(th) \/ SignalDone(th)
  BY <1>0, <1>2, QuietInvokes DEF WakeInv
<1>3. CASE \/ SetNumberOfThreads(th) \/ ControlDepends(th) \/ ControlInline(th) \/ ControlSkip(th) \/ Destroy(th) \/ DestroySync(th)
  BY <1>0, <1>3, QuietControls DEF WakeInv
<1>4. CASE Push(th) \/ PushTarget(th) \/ ControlEnqueue(th) \/ SignalLaunch(th)
  BY <1>0, <1>4, OfferWakes DEF WakeInv
<1>5. CASE Notify(th) \/ SignalWake(th)
  BY <1>0, <1>5, NotifyStep DEF WakeInv
<1>6. CASE DestroyNotify(th)
  BY <1>0, <1>6, DestroyNotifyWakes DEF WakeInv
<1>7. CASE th \in Worker /\ WorkerStep(th)
  BY <1>0, <1>7, WorkerWakes DEF WakeInv
<1>8. CASE Grow(th) \/ GrowSpawn(th) \/ GrowDone(th)
  BY <1>0, <1>8, GrowWakes DEF WakeInv
<1>9. CASE Shrink(th)
  BY <1>0, <1>9, ShrinkWakes DEF WakeInv
<1>10. CASE ShrinkSet(th) \/ ShrinkNotify(th)
  BY <1>0, <1>10, DismissWakes DEF WakeInv
<1>11. CASE ShrinkJoin(th)
  BY <1>0, <1>11, JoinWakes DEF WakeInv
<1>. QED BY <1>1, <1>2, <1>3, <1>4, <1>5, <1>6, <1>7, <1>8, <1>9, <1>10, <1>11 DEF Step, CallStep, InvokeStep, ControlStep

LEMMA IdleWakes ==
  ASSUME WakeInv, UNCHANGED vars
  PROVE  WakeInv'
<1>1. UNCHANGED <<script, stack, destroying, destroy_lock, invoker_queue, threads, number_of_threads, thread_index, worker>>
  BY DEF vars, threadVars, controlVars, queueVars
<1>2. Roots' /\ Dismissed'
  BY <1>1 DEF WakeInv, Roots, Dismissed, At, Top
<1>3. Closing'
  BY <1>1 DEF WakeInv, Closing, Rests, Top, Calls
<1>4. NoLostWakeup'
  BY <1>1 DEF WakeInv, NoLostWakeup, Awake, At, Top
<1>. QED BY <1>2, <1>3, <1>4 DEF WakeInv

LEMMA InitialWakes ==
  ASSUME Init
  PROVE  WakeInv
<1>1. \A c \in Client : stack[c] = <<Frame(c, "body")>>
  BY InitialFrames DEF Thread
<1>2. Roots
  <2>. SUFFICES ASSUME NEW c \in Client PROVE stack[c] # <<>> /\ stack[c][1].run = c
    BY DEF Roots
  <2>1. Frame(c, "body").run = c
    BY DEF Frame
  <2>2. PICK e : stack[c] = <<e>> /\ e.run = c
    BY <1>1, <2>1
  <2>. QED BY <2>2
<1>. QED BY <1>2 DEF Init, WakeInv, Closing, Dismissed, NoLostWakeup

LEMMA PriorFacts ==
  ASSUME QueueInv, PriorInv
  PROVE  PriorsFirst /\ ControlsInOrder
<1>1. /\ bound \in [Invoker -> Call] /\ control_futures \in Seq(Invoker)
  BY DEF QueueInv, QueueTypeOK, VarsOK
<1>2. ASSUME NEW t \in Invoker, kind[t] = "task", bound[t].call = "push_dependent", status[t] \in Offered
      PROVE  ~must_wait(bound[t].on)
  <2>1. bound[t].on \in Seq(Invoker)
    BY <1>1 DEF Call
  <2>2. ASSUME NEW i \in DOMAIN bound[t].on PROVE status[bound[t].on[i]] = "READY"
    <3>1. bound[t].on[i] \in Invoker /\ In(bound[t].on, bound[t].on[i])
      BY <2>1 DEF In
    <3>2. bound[t].on[i] \in Needs(t)
      BY <1>2, <3>1 DEF Needs
    <3>. QED BY <1>2, <3>2 DEF PriorInv, PriorsMet, PriorMet
  <2>. QED BY <2>2 DEF must_wait
<1>3. ASSUME NEW i \in DOMAIN control_futures, NEW j \in DOMAIN control_futures, i < j,
             status[control_futures[j]] \in {"RUNNING", "READY"}
      PROVE  status[control_futures[i]] = "READY"
  <2>1. PICK p, x : p = control_futures[i] /\ x = control_futures[j] /\ p \in Invoker /\ x \in Invoker
    BY <1>1
  <2>2. kind[x] = "control"
    BY <2>1 DEF PriorInv, Controls, In
  <2>3. Earlier(p, x)
    BY <1>3, <2>1 DEF Earlier
  <2>4. p \in Needs(x) /\ status[x] \in Offered
    BY <1>3, <2>1, <2>2, <2>3 DEF Needs, Offered
  <2>. QED BY <2>1, <2>4 DEF PriorInv, PriorsMet, PriorMet
<1>4. PriorsFirst
  BY <1>2 DEF PriorsFirst, Offered
<1>. QED BY <1>3, <1>4 DEF ControlsInOrder

LEMMA PriorsStay == Spec => [](TypeTable /\ PriorInv)
<1>1. Init => TypeTable /\ PriorInv
  BY InitialQueue, InitialPriors
<1>2. TypeTable /\ PriorInv /\ [Next]_vars => (TypeTable /\ PriorInv)'
  <2>. SUFFICES ASSUME TypeTable, PriorInv, [Next]_vars PROVE TypeTable' /\ PriorInv'
    OBVIOUS
  <2>1. TypeTable'
    BY TypeTableStep
  <2>2. ASSUME NEW th \in Thread, Step(th) PROVE PriorInv'
    BY <2>1, <2>2, StepPriors DEF TypeTable
  <2>. QED BY <2>1, <2>2, IdlePriors DEF Next
<1>. QED BY <1>1, <1>2, PTL DEF Spec

\* A task runs once, and one that was given to push_dependent is queued or run
\* only when all its prior futures are READY, although
\* handle_dependent_invoker counts a prior only after it has let go of the
\* prior's lock, so that signal_dependent_shared_futures may decrement first.
THEOREM TasksStayInOrder == Spec => []TasksInOrder
<1>1. TypeTable /\ PriorInv => TasksInOrder
  BY TypeTableFacts, PriorFacts DEF TypeTable, TasksInOrder
<1>. QED BY <1>1, PriorsStay, PTL

\* The functions that set_number_of_threads pushes run in the order of
\* control_futures_, whether they run inline, from the deque or by the thread
\* that ran the previous one, and whenever no resize is under way threads_,
\* the indexes of the threads and number_of_threads_ agree.
THEOREM ResizesStayInOrder == Spec => []ResizesInOrder
<1>1. TypeTable /\ PriorInv => ResizesInOrder
  BY TypeTableFacts, PriorFacts DEF TypeTable, ResizesInOrder
<1>. QED BY <1>1, PriorsStay, PTL

\* wait() returns only when all the futures that it was given are ready:
\* those that it has run itself, those that others have finished meanwhile,
\* and the rest, for which it has blocked on an invoker that their
\* signal_dependent_shared_futures runs last.
THEOREM WaitsEndReady == Spec => []WaitMeansReady
<1>1. Init => WaitInv
  BY InitialWaits
<1>2. TypeTable /\ PriorInv /\ WaitInv /\ TypeTable' /\ [Next]_vars => WaitInv'
  <2>. SUFFICES ASSUME TypeTable, PriorInv, WaitInv, TypeTable', [Next]_vars PROVE WaitInv'
    OBVIOUS
  <2>1. ASSUME NEW th \in Thread, Step(th) PROVE WaitInv'
    BY <2>1, StepWaits DEF TypeTable
  <2>. QED BY <2>1, IdleWaits DEF Next, TypeTable
<1>3. TypeTable /\ WaitInv => WaitMeansReady
  BY WaitFacts DEF TypeTable
<1>. QED BY <1>1, <1>2, <1>3, PriorsStay, PTL DEF Spec

\* While there is a task in the deque and the queue has threads, one of the
\* workers that may take it is awake, or will be: the notify_one of push and of
\* signal_dependent_shared_futures comes after the unlock and may reach a worker
\* that is being dismissed, or none at all.
THEOREM NoWakeupIsLost == Spec => []NoLostWakeup
<1>1. Init => TypeTable /\ WakeInv
  BY InitialQueue, InitialWakes
<1>2. TypeTable /\ WakeInv /\ [Next]_vars => (TypeTable /\ WakeInv)'
  <2>. SUFFICES ASSUME TypeTable, WakeInv, [Next]_vars PROVE TypeTable' /\ WakeInv'
    OBVIOUS
  <2>1. TypeTable'
    BY TypeTableStep
  <2>2. ASSUME NEW th \in Thread, Step(th) PROVE WakeInv'
    BY <2>1, <2>2, StepWakes DEF TypeTable
  <2>. QED BY <2>1, <2>2, IdleWakes DEF Next
<1>3. TypeTable /\ WakeInv => NoLostWakeup
  BY DEF WakeInv
<1>. QED BY <1>1, <1>2, <1>3, PTL DEF Spec
=============================================================================
