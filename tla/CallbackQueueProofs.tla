------------------------ MODULE CallbackQueueProofs ------------------------
(***************************************************************************)
(* threaded_callback_queue, for any number of clients, workers and         *)
(* invokers and any program of calls: the statuses of the futures agree    *)
(* with the deque, which has no hole in front, an invoker is started once, *)
(* and whoever resizes is alone with the thread table.                     *)
(***************************************************************************)
EXTENDS CallbackQueue, SequenceTheorems, FiniteSetTheorems, WellFoundedInduction, TLAPS

Kind == {"none", "task", "handle", "waiter", "control"}
Ending == {"signal", "dependent", "launch", "wake"}
Resizes == {"spawn", "shrink", "dismiss", "join"}
Invoking == Ending \cup Resizes \cup {"start", "finish", "control"}
Registering == {"register", "append", "count"}
Claiming == Registering \cup {"push", "controls"}
Helping == {"visit", "try", "take"}
Launching == {"dependent", "launch"}
Pc == Invoking \cup Claiming \cup Helping \cup {"body", "notify", "block", "destroy", "sync"}

FrameRec == [run : Client \cup Invoker, pc : Pc, ip : Nat \ {0}, todo : Seq(Invoker),
             flag : BOOLEAN, tgt : Invoker \cup {NULL}, launch : Seq(Invoker)]

VarsOK ==
  /\ script \in Scripts
  /\ invoker_queue \in Seq(Invoker \cup {NULL})
  /\ status \in [Invoker -> Status]
  /\ remaining \in [Invoker -> Int]
  /\ invoker_index \in [Invoker -> Int]
  /\ dependents \in [Invoker -> Seq(Invoker)]
  /\ kind \in [Invoker -> Kind]
  /\ bound \in [Invoker -> Call]
  /\ control_futures \in Seq(Invoker)
  /\ threads \in Seq(Worker)
  /\ number_of_threads \in Nat
  /\ thread_index \in [Worker -> Nat]
  /\ worker \in [Worker -> {"none", "pop", "wait", "exited"}]
  /\ destroying \in BOOLEAN
  /\ queue_lock \in Thread \cup {NULL}
  /\ future_lock \in [Invoker -> Thread \cup {NULL}]
  /\ destroy_lock \in Thread \cup {NULL}
  /\ runs \in [Invoker -> Nat]
QueueTypeOK == VarsOK /\ stack \in [Thread -> Seq(FrameRec)]

(***************************************************************************)
(* The frames.  Every client has one and an invoker that is being invoked  *)
(* has one, wherever it was started.                                       *)
(***************************************************************************)
Frames == UNION {ToSet(stack[th]) : th \in Thread}

OneFrame == \A th, u \in Thread : \A i \in DOMAIN stack[th] : \A j \in DOMAIN stack[u] :
              stack[th][i].run = stack[u][j].run => th = u /\ i = j

\* The invoker whose function a frame executes is RUNNING, then READY.
Running(f) ==
  /\ f.pc \in Invoking => f.run \in Invoker
  /\ f.run \in Invoker => status[f.run] = IF f.pc \in Ending THEN "READY" ELSE "RUNNING"

\* A frame that allocates or registers an invoker has it for itself.
Claims(f) ==
  f.pc \in Claiming =>
    /\ f.tgt \in Invoker /\ status[f.tgt] = "CONSTRUCTING"
    /\ CASE f.pc = "push"     -> kind[f.tgt] \in {"task", "handle"}
         [] f.pc = "controls" -> kind[f.tgt] = "control"
         [] OTHER             -> \/ kind[f.tgt] \in {"waiter", "control"}
                                 \/ kind[f.tgt] = "task" /\ f.run \in Invoker
    /\ f.pc \in Registering \ {"register"} => f.todo # <<>>

\* wait() works on the futures of its call.
Helps(f) == f.pc \in Helping => /\ f.ip <= Len(Calls(f.run)) /\ CallOf(f).call = "wait"
                                /\ f.pc # "visit" => f.todo # <<>>

\* What a frame will launch is on hold with nothing left to wait for, and in
\* no other list.
Launches(f) ==
  /\ f.pc \in Launching =>
       /\ \A i \in DOMAIN f.launch : LET t == f.launch[i] IN
            status[t] = "ON_HOLD" /\ kind[t] = "task" /\ remaining[t] <= 0
       /\ \A i, j \in DOMAIN f.launch : f.launch[i] = f.launch[j] => i = j
  /\ f.pc \notin Launching \cup {"wake"} => f.launch = <<>>
  /\ f.pc \in {"launch", "wake"} => f.launch # <<>>

FrameGood(f) == Running(f) /\ Claims(f) /\ Helps(f) /\ Launches(f)
FrameInv == \A f \in Frames : FrameGood(f)

Apart(e, f) ==
  /\ e.pc \in Claiming /\ f.pc \in Claiming => e.tgt # f.tgt
  /\ e.pc \in Launching /\ f.pc \in Launching =>
       \A i \in DOMAIN e.launch : \A j \in DOMAIN f.launch : e.launch[i] # f.launch[j]
AllApart == \A e, f \in Frames : e.run # f.run => Apart(e, f)

\* A handle task that has not run yet will be the only one to register its task.
Pending(h) == kind[h] = "handle" /\ status[h] \notin {"RUNNING", "READY"}
Handled(h, x) ==
  /\ x \in Invoker /\ kind[x] = "task" /\ status[x] = "CONSTRUCTING"
  /\ bound[x] = bound[h] /\ bound[h].call = "push_dependent"
  /\ \A f \in Frames : f.pc \in Claiming => f.tgt # x
Handles == /\ \A h \in Invoker : Pending(h) => Handled(h, bound[h].inv)
           /\ \A g, h \in Invoker : Pending(g) /\ Pending(h) /\ g # h => bound[g].inv # bound[h].inv

\* What the status of an invoker says of it.
StatusGood(t) ==
  /\ kind[t] = "none" => status[t] = "CONSTRUCTING"
  /\ status[t] = "ON_HOLD" => kind[t] \in {"task", "waiter", "control"}
  /\ runs[t] = IF status[t] \in {"RUNNING", "READY"} THEN 1 ELSE 0
Statuses == \A t \in Invoker : StatusGood(t)

CallsInv == OneFrame /\ FrameInv /\ AllApart /\ Handles /\ Statuses

(***************************************************************************)
(* The deque.                                                              *)
(***************************************************************************)
Distinct(q) == \A i, j \in DOMAIN q : i # j /\ q[i] = q[j] => q[i] = NULL
Ordered(q, index) ==
  \A i, j \in DOMAIN q : i < j /\ q[i] # NULL /\ q[j] # NULL =>
    0 < index[q[j]] - index[q[i]] /\ index[q[j]] - index[q[i]] <= j - i
Sound(q, index) == /\ q \in Seq(Invoker \cup {NULL}) /\ Distinct(q) /\ Ordered(q, index)
                   /\ q # <<>> => q[1] # NULL
In(q, t) == \E i \in DOMAIN q : q[i] = t
DequeInv == /\ Sound(invoker_queue, invoker_index)
            /\ \A t \in Invoker : status[t] = "ENQUEUED" <=> In(invoker_queue, t)

QueueInv == QueueTypeOK /\ CallsInv /\ DequeInv

(***************************************************************************)
(* The thread table.                                                       *)
(***************************************************************************)
\* Whoever resizes holds destroy_mutex_ and is alone with the table.
Resizer(th) == stack[th] # <<>> /\ Top(th).pc \in Resizes
Inner(pc) == pc \in {"body", "visit", "block", "finish", "dependent"}
Mutex ==
  /\ \A th \in Thread : \A i \in DOMAIN stack[th] : i < Len(stack[th]) => Inner(stack[th][i].pc)
  /\ \A th \in Thread : Resizer(th) <=> destroy_lock = th
  /\ \A w \in Worker : stack[w] # <<>> => worker[w] = "pop"
Entries ==
  /\ \A i \in DOMAIN threads : thread_index[threads[i]] = i - 1 /\ worker[threads[i]] # "none"
  /\ \A w \in Worker : worker[w] \in {"pop", "wait"} =>
       thread_index[w] < Len(threads) /\ threads[thread_index[w] + 1] = w
Present == \A i \in DOMAIN threads :
  i <= number_of_threads /\ worker[threads[i]] = "exited" => destroying
Table ==
  /\ Present
  /\ destroy_lock = NULL => Len(threads) = number_of_threads
  /\ \A th \in Thread : Resizer(th) => LET n == bound[Top(th).run].n IN
       CASE Top(th).pc = "spawn"  -> Len(threads) <= n /\ number_of_threads = n
         [] Top(th).pc = "shrink" -> n < Len(threads) /\ number_of_threads = Len(threads)
         [] OTHER                 -> n < Len(threads) /\ number_of_threads = n
TableInv == Mutex /\ Entries /\ Table

(***************************************************************************)
(* Sequences                                                               *)
(***************************************************************************)
LEMMA FrontOf ==
  ASSUME NEW S, NEW s \in Seq(S), s # <<>>
  PROVE  /\ Front(s) \in Seq(S) /\ Len(Front(s)) = Len(s) - 1 /\ Len(s) \in Nat \ {0}
         /\ \A i \in 1 .. Len(s) - 1 : Front(s)[i] = s[i]
<1>1. Len(s) \in Nat \ {0}
  BY EmptySeq
<1>2. PICK e \in 1 .. Len(s) : e = Len(s)
  BY <1>1
<1>3. 1 <= e /\ e \in Nat /\ Len(s) \in Nat
  BY <1>1, <1>2
<1>4. /\ SubSeq(s, 1, e - 1) \in Seq(S) /\ Len(SubSeq(s, 1, e - 1)) = e - 1
      /\ \A i \in 1 .. e - 1 : SubSeq(s, 1, e - 1)[i] = s[i]
  BY <1>2, <1>3, SubSeqProperties
<1>5. Front(s) = SubSeq(s, 1, e - 1)
  BY <1>2 DEF Front
<1>. QED BY <1>1, <1>2, <1>4, <1>5

\* What Goto, Enter and the start of a worker do to a stack.
LEMMA LastReplaced ==
  ASSUME NEW S, NEW s \in Seq(S), s # <<>>, NEW e \in S
  PROVE  LET r == Append(Front(s), e) IN
         /\ r \in Seq(S) /\ Len(r) = Len(s) /\ Len(s) \in Nat \ {0}
         /\ \A i \in 1 .. Len(s) : r[i] = IF i = Len(s) THEN e ELSE s[i]
BY FrontOf, AppendProperties

LEMMA Pushed ==
  ASSUME NEW S, NEW s \in Seq(S), NEW e \in S
  PROVE  LET r == Append(s, e) IN
         /\ r \in Seq(S) /\ Len(r) = Len(s) + 1
         /\ \A i \in 1 .. Len(s) + 1 : r[i] = IF i = Len(s) + 1 THEN e ELSE s[i]
BY AppendProperties

LEMMA TailOf ==
  ASSUME NEW S, NEW s \in Seq(S), s # <<>>
  PROVE  /\ Head(s) \in S /\ Head(s) = s[1] /\ Tail(s) \in Seq(S) /\ Len(Tail(s)) = Len(s) - 1
         /\ Len(s) \in Nat \ {0} /\ \A i \in 1 .. Len(s) - 1 : Tail(s)[i] = s[i + 1]
BY EmptySeq, HeadTailProperties

(***************************************************************************)
(* Calls and frames                                                        *)
(***************************************************************************)
LEMMA CallFacts ==
  ASSUME script \in Scripts, NEW r
  PROVE  /\ Calls(r) \in Seq(Call) /\ Len(Calls(r)) \in Nat /\ DOMAIN Calls(r) = 1 .. Len(Calls(r))
         /\ \A k \in DOMAIN Calls(r) : LET c == Calls(r)[k] IN
              /\ c \in Call
              /\ c.call \notin {"future_wait", "destroy"} => c.inv \in Invoker
              /\ c.call = "push_dependent" => c.aux \in Invoker /\ c.aux # c.inv
              /\ c.call = "future_wait" => c.on # <<>>
<1>1. CASE r \in DOMAIN script
  <2>1. Calls(r) = script[r] /\ script[r] \in Seq(Call)
    BY <1>1, ScriptAssumption DEF Calls
  <2>2. \A k \in DOMAIN script[r] : LET c == script[r][k] IN
              /\ c.call \notin {"future_wait", "destroy"} => c.inv \in Invoker
              /\ c.call = "push_dependent" => c.aux \in Invoker \ {c.inv}
              /\ c.call = "future_wait" => c.on # <<>>
    BY <1>1, ScriptAssumption
  <2>. QED BY <2>1, <2>2
<1>2. CASE r \notin DOMAIN script
  BY <1>2 DEF Calls
<1>. QED BY <1>1, <1>2

LEMMA Constants == NULL \notin Invoker /\ Client \cap Invoker = {} /\ Worker \cap Invoker = {} /\ NULL \notin Thread
BY ScriptAssumption DEF Thread

\* The frames are the members of the stacks.
LEMMA FramesAre ==
  /\ \A f : f \in Frames <=> \E th \in Thread : \E i \in DOMAIN stack[th] : f = stack[th][i]
  /\ \A f : f \in Frames' <=> \E th \in Thread : \E i \in DOMAIN stack'[th] : f = stack'[th][i]
BY DEF Frames, ToSet

LEMMA FrameTypes == QueueTypeOK => Frames \subseteq FrameRec
BY FramesAre DEF QueueTypeOK

LEMMA TopFrame ==
  ASSUME QueueTypeOK, OneFrame, NEW th \in Thread, stack[th] # <<>>
  PROVE  /\ Top(th) \in FrameRec /\ Top(th) \in Frames /\ Top(th) = stack[th][Len(stack[th])]
         /\ Len(stack[th]) \in DOMAIN stack[th]
         /\ \A e \in Frames : e.run = Top(th).run => e = Top(th)
<1>1. stack[th] \in Seq(FrameRec) /\ Len(stack[th]) \in DOMAIN stack[th] /\ Top(th) = stack[th][Len(stack[th])]
  BY EmptySeq DEF QueueTypeOK, Top, Last
<1>2. Top(th) \in FrameRec /\ Top(th) \in Frames
  BY <1>1, FramesAre
<1>3. ASSUME NEW e, e \in Frames, e.run = Top(th).run PROVE e = Top(th)
  <2>1. PICK u, i : u \in Thread /\ i \in DOMAIN stack[u] /\ e = stack[u][i]
    BY <1>3, FramesAre
  <2>2. u = th /\ i = Len(stack[th])
    BY <1>1, <1>3, <2>1 DEF OneFrame
  <2>. QED BY <1>1, <2>1, <2>2
<1>. QED BY <1>1, <1>2, <1>3

\* A frame goes on in the same code.
LEMMA GotoFrames ==
  ASSUME QueueTypeOK, OneFrame, NEW th \in Thread, stack[th] # <<>>,
         NEW g \in FrameRec, g.run = Top(th).run, Goto(th, g)
  PROVE  /\ stack' \in [Thread -> Seq(FrameRec)] /\ OneFrame'
         /\ Frames' = (Frames \ {Top(th)}) \cup {g}
         /\ \A u \in Thread : /\ DOMAIN stack'[u] = DOMAIN stack[u] /\ Len(stack'[u]) = Len(stack[u])
                              /\ \A i \in DOMAIN stack[u] :
                                   stack'[u][i] = IF u = th /\ i = Len(stack[th]) THEN g ELSE stack[u][i]
<1>. DEFINE r == Append(Front(stack[th]), g)
            n == Len(stack[th])
<1>1. stack \in [Thread -> Seq(FrameRec)] /\ stack[th] \in Seq(FrameRec)
  BY DEF QueueTypeOK
<1>2. r \in Seq(FrameRec) /\ Len(r) = n /\ n \in Nat \ {0} /\ \A i \in 1 .. n : r[i] = IF i = n THEN g ELSE stack[th][i]
  BY <1>1, LastReplaced
<1>3. stack' = [stack EXCEPT ![th] = r]
  BY DEF Goto
<1>. HIDE DEF r
<1>4. stack' \in [Thread -> Seq(FrameRec)]
  BY <1>1, <1>2, <1>3
<1>5. \A u \in Thread : /\ DOMAIN stack'[u] = DOMAIN stack[u] /\ Len(stack'[u]) = Len(stack[u])
                        /\ \A i \in DOMAIN stack[u] :
                             stack'[u][i] = IF u = th /\ i = n THEN g ELSE stack[u][i]
  <2>. TAKE u \in Thread
  <2>1. CASE u = th
    <3>1. stack'[u] = r /\ DOMAIN r = 1 .. n /\ DOMAIN stack[u] = 1 .. n
      BY <1>1, <1>2, <1>3, <2>1
    <3>. QED BY <1>2, <2>1, <3>1
  <2>2. CASE u # th
    BY <1>1, <1>3, <2>2
  <2>. QED BY <2>1, <2>2
<1>6. OneFrame'
  <2>. SUFFICES ASSUME NEW t \in Thread, NEW u \in Thread, NEW i \in DOMAIN stack'[t], NEW j \in DOMAIN stack'[u],
                       stack'[t][i].run = stack'[u][j].run
       PROVE  t = u /\ i = j
    BY DEF OneFrame
  <2>1. i \in DOMAIN stack[t] /\ j \in DOMAIN stack[u]
    BY <1>5
  <2>2. stack'[t][i].run = stack[t][i].run /\ stack'[u][j].run = stack[u][j].run
    BY <1>5, <2>1, TopFrame
  <2>3. stack[t][i].run = stack[u][j].run
    BY <2>2
  <2>. QED BY <2>1, <2>3 DEF OneFrame
<1>7. n \in DOMAIN stack[th] /\ Top(th) = stack[th][n]
  BY TopFrame
<1>8. ASSUME NEW e PROVE e \in Frames' <=> e \in (Frames \ {Top(th)}) \cup {g}
  <2>1. ASSUME e \in Frames' PROVE e \in (Frames \ {Top(th)}) \cup {g}
    <3>1. PICK u, i : u \in Thread /\ i \in DOMAIN stack'[u] /\ e = stack'[u][i]
      BY <2>1, FramesAre
    <3>2. CASE u = th /\ i = n
      BY <1>5, <3>1, <3>2, <1>7
    <3>3. CASE ~(u = th /\ i = n)
      <4>1. i \in DOMAIN stack[u] /\ e = stack[u][i]
        BY <1>5, <3>1, <3>3
      <4>2. e # Top(th)
        BY <3>1, <4>1, <3>3, <1>7 DEF OneFrame
      <4>. QED BY <3>1, <4>1, <4>2, FramesAre
    <3>. QED BY <3>2, <3>3
  <2>2. ASSUME e \in Frames, e # Top(th) PROVE e \in Frames'
    <3>1. PICK u, i : u \in Thread /\ i \in DOMAIN stack[u] /\ e = stack[u][i]
      BY <2>2, FramesAre
    <3>2. i \in DOMAIN stack'[u] /\ e = stack'[u][i]
      BY <1>5, <1>7, <3>1, <2>2
    <3>. QED BY <3>1, <3>2, FramesAre
  <2>3. g \in Frames'
    <3>1. n \in DOMAIN stack'[th] /\ g = stack'[th][n]
      BY <1>5, <1>7
    <3>. QED BY <3>1, FramesAre
  <2>. QED BY <2>1, <2>2, <2>3
<1>9. Frames' = (Frames \ {Top(th)}) \cup {g}
  BY <1>8
<1>. QED BY <1>4, <1>5, <1>6, <1>9

\* A frame runs an invoker that nobody runs yet.
LEMMA EnterFrames ==
  ASSUME QueueTypeOK, OneFrame, NEW th \in Thread, stack[th] # <<>>,
         NEW g \in FrameRec, g.run = Top(th).run, NEW h \in FrameRec, \A e \in Frames : e.run # h.run,
         Enter(th, g, h)
  PROVE  /\ stack' \in [Thread -> Seq(FrameRec)] /\ OneFrame'
         /\ Frames' = (Frames \ {Top(th)}) \cup {g, h}
         /\ \A u \in Thread : u # th => stack'[u] = stack[u]
         /\ Len(stack'[th]) = Len(stack[th]) + 1
         /\ \A i \in DOMAIN stack[th] :
              i \in DOMAIN stack'[th] /\ stack'[th][i] = IF i = Len(stack[th]) THEN g ELSE stack[th][i]
         /\ Len(stack[th]) + 1 \in DOMAIN stack'[th] /\ stack'[th][Len(stack[th]) + 1] = h
         /\ \A i \in DOMAIN stack'[th] : i = Len(stack[th]) + 1 \/ i \in DOMAIN stack[th]
<1>. DEFINE s == Append(Front(stack[th]), g)
            r == Append(s, h)
            n == Len(stack[th])
<1>1. stack \in [Thread -> Seq(FrameRec)] /\ stack[th] \in Seq(FrameRec)
  BY DEF QueueTypeOK
<1>2. s \in Seq(FrameRec) /\ Len(s) = n /\ n \in Nat \ {0} /\ \A i \in 1 .. n : s[i] = IF i = n THEN g ELSE stack[th][i]
  BY <1>1, LastReplaced
<1>. HIDE DEF s
<1>3. r \in Seq(FrameRec) /\ Len(r) = n + 1 /\ \A i \in 1 .. n + 1 : r[i] = IF i = n + 1 THEN h ELSE s[i]
  BY <1>2, Pushed
<1>4. stack' = [stack EXCEPT ![th] = r]
  BY DEF Enter, s
<1>. HIDE DEF r
<1>5. stack' \in [Thread -> Seq(FrameRec)]
  BY <1>1, <1>3, <1>4
<1>6. \A u \in Thread : u # th => stack'[u] = stack[u]
  BY <1>1, <1>4
<1>7. stack'[th] = r /\ DOMAIN r = 1 .. n + 1 /\ DOMAIN stack[th] = 1 .. n
  BY <1>1, <1>2, <1>3, <1>4
<1>8. /\ \A i \in DOMAIN stack[th] : i \in DOMAIN stack'[th] /\ stack'[th][i] = IF i = n THEN g ELSE stack[th][i]
      /\ n + 1 \in DOMAIN stack'[th] /\ stack'[th][n + 1] = h
      /\ \A i \in DOMAIN stack'[th] : i = n + 1 \/ i \in DOMAIN stack[th]
  <2>1. ASSUME NEW i \in 1 .. n PROVE i \in 1 .. n + 1 /\ r[i] = IF i = n THEN g ELSE stack[th][i]
    BY <1>2, <1>3
  <2>2. n + 1 \in 1 .. n + 1 /\ r[n + 1] = h
    BY <1>2, <1>3
  <2>3. \A i \in 1 .. n + 1 : i = n + 1 \/ i \in 1 .. n
    BY <1>2
  <2>. QED BY <1>7, <2>1, <2>2, <2>3
<1>9. n \in DOMAIN stack[th] /\ Top(th) = stack[th][n] /\ n + 1 \notin DOMAIN stack[th]
  BY TopFrame, <1>2, <1>7
<1>10. ASSUME NEW t \in Thread, NEW i \in DOMAIN stack'[t]
       PROVE  \/ t = th /\ i = n + 1 /\ stack'[t][i] = h
              \/ i \in DOMAIN stack[t] /\ stack'[t][i].run = stack[t][i].run /\ stack[t][i].run # h.run
  <2>1. CASE t = th /\ i = n + 1
    BY <1>8, <2>1
  <2>2. CASE t = th /\ i # n + 1
    <3>1. i \in DOMAIN stack[t] /\ stack'[t][i].run = stack[t][i].run
      BY <1>8, <1>9, <2>2
    <3>. QED BY <3>1, FramesAre
  <2>3. CASE t # th
    <3>1. i \in DOMAIN stack[t] /\ stack'[t][i] = stack[t][i]
      BY <1>6, <2>3
    <3>. QED BY <3>1, FramesAre
  <2>. QED BY <2>1, <2>2, <2>3
<1>11. OneFrame'
  <2>. SUFFICES ASSUME NEW t \in Thread, NEW u \in Thread, NEW i \in DOMAIN stack'[t], NEW j \in DOMAIN stack'[u],
                       stack'[t][i].run = stack'[u][j].run
       PROVE  t = u /\ i = j
    BY DEF OneFrame
  <2>. QED BY <1>10 DEF OneFrame
<1>12. ASSUME NEW e PROVE e \in Frames' <=> e \in (Frames \ {Top(th)}) \cup {g, h}
  <2>1. ASSUME e \in Frames' PROVE e \in (Frames \ {Top(th)}) \cup {g, h}
    <3>1. PICK u, i : u \in Thread /\ i \in DOMAIN stack'[u] /\ e = stack'[u][i]
      BY <2>1, FramesAre
    <3>2. CASE u = th /\ (i = n \/ i = n + 1)
      BY <1>8, <1>9, <3>1, <3>2
    <3>3. CASE ~(u = th /\ (i = n \/ i = n + 1))
      <4>1. i \in DOMAIN stack[u] /\ e = stack[u][i]
        BY <1>6, <1>8, <3>1, <3>3
      <4>2. e # Top(th)
        BY <3>1, <4>1, <3>3, <1>9 DEF OneFrame
      <4>. QED BY <3>1, <4>1, <4>2, FramesAre
    <3>. QED BY <3>2, <3>3
  <2>2. ASSUME e \in Frames, e # Top(th) PROVE e \in Frames'
    <3>1. PICK u, i : u \in Thread /\ i \in DOMAIN stack[u] /\ e = stack[u][i]
      BY <2>2, FramesAre
    <3>2. i \in DOMAIN stack'[u] /\ e = stack'[u][i]
      BY <1>6, <1>8, <1>9, <3>1, <2>2
    <3>. QED BY <3>1, <3>2, FramesAre
  <2>3. g \in Frames' /\ h \in Frames'
    <3>1. n \in DOMAIN stack'[th] /\ g = stack'[th][n]
      BY <1>8, <1>9
    <3>. QED BY <1>8, <3>1, FramesAre
  <2>. QED BY <2>1, <2>2, <2>3
<1>13. Frames' = (Frames \ {Top(th)}) \cup {g, h}
  BY <1>12
<1>14. Len(stack'[th]) = n + 1
  BY <1>3, <1>7
<1>. QED BY <1>5, <1>6, <1>8, <1>11, <1>13, <1>14

\* A frame ends.
LEMMA ReturnFrames ==
  ASSUME QueueTypeOK, OneFrame, NEW th \in Thread, stack[th] # <<>>, Return(th)
  PROVE  /\ stack' \in [Thread -> Seq(FrameRec)] /\ OneFrame'
         /\ Frames' = Frames \ {Top(th)}
         /\ \A u \in Thread : u # th => stack'[u] = stack[u]
         /\ Len(stack'[th]) = Len(stack[th]) - 1
         /\ \A i \in DOMAIN stack'[th] :
              i \in DOMAIN stack[th] /\ i < Len(stack[th]) /\ stack'[th][i] = stack[th][i]
<1>. DEFINE r == Front(stack[th])
            n == Len(stack[th])
<1>1. stack \in [Thread -> Seq(FrameRec)] /\ stack[th] \in Seq(FrameRec)
  BY DEF QueueTypeOK
<1>2. r \in Seq(FrameRec) /\ Len(r) = n - 1 /\ n \in Nat \ {0} /\ \A i \in 1 .. n - 1 : r[i] = stack[th][i]
  BY <1>1, FrontOf
<1>3. stack' = [stack EXCEPT ![th] = r]
  BY DEF Return
<1>. HIDE DEF r
<1>4. stack' \in [Thread -> Seq(FrameRec)]
  BY <1>1, <1>2, <1>3
<1>5. \A u \in Thread : u # th => stack'[u] = stack[u]
  BY <1>1, <1>3
<1>6. stack'[th] = r /\ DOMAIN r = 1 .. n - 1 /\ DOMAIN stack[th] = 1 .. n /\ Len(stack'[th]) = n - 1
  BY <1>1, <1>2, <1>3
<1>7. \A i \in DOMAIN stack'[th] : i \in DOMAIN stack[th] /\ i < n /\ stack'[th][i] = stack[th][i]
  BY <1>2, <1>6
<1>8. n \in DOMAIN stack[th] /\ Top(th) = stack[th][n]
  BY TopFrame
<1>9. OneFrame'
  <2>. SUFFICES ASSUME NEW t \in Thread, NEW u \in Thread, NEW i \in DOMAIN stack'[t], NEW j \in DOMAIN stack'[u],
                       stack'[t][i].run = stack'[u][j].run
       PROVE  t = u /\ i = j
    BY DEF OneFrame
  <2>1. /\ i \in DOMAIN stack[t] /\ stack'[t][i] = stack[t][i]
        /\ j \in DOMAIN stack[u] /\ stack'[u][j] = stack[u][j]
    BY <1>5, <1>7
  <2>. QED BY <2>1 DEF OneFrame
<1>10. ASSUME NEW e PROVE e \in Frames' <=> e \in Frames \ {Top(th)}
  <2>1. ASSUME e \in Frames' PROVE e \in Frames \ {Top(th)}
    <3>1. PICK u, i : u \in Thread /\ i \in DOMAIN stack'[u] /\ e = stack'[u][i]
      BY <2>1, FramesAre
    <3>2. i \in DOMAIN stack[u] /\ e = stack[u][i] /\ ~(u = th /\ i = n)
      BY <1>2, <1>5, <1>7, <3>1
    <3>3. e # Top(th)
      BY <3>1, <3>2, <1>8 DEF OneFrame
    <3>. QED BY <3>1, <3>2, <3>3, FramesAre
  <2>2. ASSUME e \in Frames, e # Top(th) PROVE e \in Frames'
    <3>1. PICK u, i : u \in Thread /\ i \in DOMAIN stack[u] /\ e = stack[u][i]
      BY <2>2, FramesAre
    <3>2. i \in DOMAIN stack'[u] /\ e = stack'[u][i]
      <4>1. CASE u = th
        <5>1. i \in 1 .. n - 1
          BY <1>2, <1>6, <1>8, <2>2, <3>1, <4>1
        <5>. QED BY <1>6, <1>7, <3>1, <4>1, <5>1
      <4>2. CASE u # th
        BY <1>5, <3>1, <4>2
      <4>. QED BY <4>1, <4>2
    <3>. QED BY <3>1, <3>2, FramesAre
  <2>. QED BY <2>1, <2>2
<1>11. Frames' = Frames \ {Top(th)}
  BY <1>10
<1>. QED BY <1>4, <1>5, <1>6, <1>7, <1>9, <1>11

\* A worker that has no frame runs an invoker.
LEMMA StartFrames ==
  ASSUME QueueTypeOK, OneFrame, NEW th \in Thread, stack[th] = <<>>,
         NEW h \in FrameRec, \A e \in Frames : e.run # h.run, stack' = [stack EXCEPT ![th] = <<h>>]
  PROVE  /\ stack' \in [Thread -> Seq(FrameRec)] /\ OneFrame'
         /\ Frames' = Frames \cup {h}
         /\ \A u \in Thread : u # th => stack'[u] = stack[u]
         /\ stack'[th] = <<h>>
<1>1. stack \in [Thread -> Seq(FrameRec)] /\ <<h>> \in Seq(FrameRec)
  BY DEF QueueTypeOK
<1>2. /\ \A u \in Thread : u # th => stack'[u] = stack[u]
      /\ stack'[th] = <<h>> /\ stack' \in [Thread -> Seq(FrameRec)]
  BY <1>1
<1>3. DOMAIN stack'[th] = {1} /\ stack'[th][1] = h /\ DOMAIN stack[th] = {}
  BY <1>2
<1>4. OneFrame'
  <2>. SUFFICES ASSUME NEW t \in Thread, NEW u \in Thread, NEW i \in DOMAIN stack'[t], NEW j \in DOMAIN stack'[u],
                       stack'[t][i].run = stack'[u][j].run
       PROVE  t = u /\ i = j
    BY DEF OneFrame
  <2>1. ASSUME NEW v \in Thread, NEW k \in DOMAIN stack'[v]
        PROVE  \/ v = th /\ k = 1 /\ stack'[v][k] = h
               \/ k \in DOMAIN stack[v] /\ stack'[v][k] = stack[v][k] /\ stack[v][k].run # h.run
    BY <1>2, <1>3, FramesAre
  <2>. QED BY <2>1 DEF OneFrame
<1>5. ASSUME NEW e PROVE e \in Frames' <=> e \in Frames \cup {h}
  <2>1. ASSUME e \in Frames' PROVE e \in Frames \cup {h}
    <3>1. PICK u, i : u \in Thread /\ i \in DOMAIN stack'[u] /\ e = stack'[u][i]
      BY <2>1, FramesAre
    <3>. QED BY <1>2, <1>3, <3>1, FramesAre
  <2>2. ASSUME e \in Frames PROVE e \in Frames'
    <3>1. PICK u, i : u \in Thread /\ i \in DOMAIN stack[u] /\ e = stack[u][i]
      BY <2>2, FramesAre
    <3>2. i \in DOMAIN stack'[u] /\ e = stack'[u][i]
      BY <1>2, <1>3, <3>1
    <3>. QED BY <3>1, <3>2, FramesAre
  <2>3. h \in Frames'
    BY <1>3, FramesAre
  <2>. QED BY <2>1, <2>2, <2>3
<1>6. Frames' = Frames \cup {h}
  BY <1>5
<1>. QED BY <1>2, <1>4, <1>6

(***************************************************************************)
(* The deque                                                               *)
(***************************************************************************)
LEMMA Least ==
  ASSUME NEW S \in SUBSET Nat, S # {}
  PROVE  \E x \in S : \A y \in S : x <= y
<1>. DEFINE Less == {ss \in Nat \X Nat : ss[1] < ss[2]}
<1>1. IsWellFoundedOn(Less, Nat)
  BY NatLessThanWellFounded, Zenon DEF OpToRel
<1>2. \A x, y \in Nat : y < x => <<y, x>> \in Less
  <2>. SUFFICES ASSUME NEW x \in Nat, NEW y \in Nat, y < x PROVE <<y, x>> \in Less
    OBVIOUS
  <2>1. <<y, x>> \in Nat \X Nat /\ <<y, x>>[1] < <<y, x>>[2]
    OBVIOUS
  <2>. QED BY <2>1, Zenon
<1>. HIDE DEF Less
<1>3. PICK x \in S : \A y \in S : ~ (<<y, x>> \in Less)
  BY <1>1, WFMin, Zenon
<1>4. \A y \in S : ~(y < x)
  BY <1>2, <1>3, Zenon
<1>. QED BY <1>4

Queued == Invoker \cup {NULL}

LEMMA FirstTask ==
  ASSUME NEW q \in Seq(Queued)
  PROVE  LET n == SelectInSeq(q, IsTask) IN
         /\ n = 0 => \A i \in DOMAIN q : q[i] = NULL
         /\ n # 0 => n \in DOMAIN q /\ q[n] # NULL /\ \A i \in DOMAIN q : i < n => q[i] = NULL
<1>. DEFINE I == {i \in 1 .. Len(q) : IsTask(q[i])}
<1>1. SelectInSeq(q, IsTask) = IF I # {} THEN Min(I) ELSE 0
  BY DEF SelectInSeq
<1>2. I # {} => Min(I) \in I /\ \A y \in I : Min(I) <= y
  <2>. SUFFICES ASSUME I # {} PROVE Min(I) \in I /\ \A y \in I : Min(I) <= y
    OBVIOUS
  <2>1. \E x \in I : \A y \in I : x <= y
    <3>. I \in SUBSET Nat
      OBVIOUS
    <3>. HIDE DEF I
    <3>. QED BY Least
  <2>. HIDE DEF I
  <2>. QED BY <2>1 DEF Min
<1>3. CASE I = {}
  <2>1. SelectInSeq(q, IsTask) = 0
    BY <1>1, <1>3
  <2>2. \A i \in DOMAIN q : q[i] = NULL
    BY <1>3 DEF IsTask
  <2>. QED BY <2>1, <2>2
<1>4. CASE I # {}
  <2>. DEFINE n == Min(I)
  <2>1. SelectInSeq(q, IsTask) = n
    BY <1>1, <1>4
  <2>2. n \in I /\ \A y \in I : n <= y
    BY <1>2, <1>4
  <2>. HIDE DEF n
  <2>3. n \in 1 .. Len(q) /\ q[n] # NULL
    BY <2>2 DEF IsTask
  <2>4. \A i \in DOMAIN q : i < n => q[i] = NULL
    BY <2>2, <2>3 DEF IsTask
  <2>. QED BY <2>1, <2>3, <2>4
<1>. QED BY <1>3, <1>4

LEMMA LastTask ==
  ASSUME NEW q \in Seq(Queued)
  PROVE  LET n == SelectLastInSeq(q, IsTask) IN
         /\ n = 0 => \A i \in DOMAIN q : q[i] = NULL
         /\ n # 0 => n \in DOMAIN q /\ q[n] # NULL /\ \A i \in DOMAIN q : n < i => q[i] = NULL
<1>. DEFINE I == {i \in 1 .. Len(q) : IsTask(q[i])}
            J == {Len(q) - i : i \in I}
<1>1. SelectLastInSeq(q, IsTask) = IF I # {} THEN Max(I) ELSE 0
  BY DEF SelectLastInSeq
<1>2. I # {} => Max(I) \in I /\ \A y \in I : Max(I) >= y
  <2>. SUFFICES ASSUME I # {} PROVE Max(I) \in I /\ \A y \in I : Max(I) >= y
    OBVIOUS
  <2>1. J # {} /\ J \in SUBSET Nat
    OBVIOUS
  <2>2. PICK j \in J : \A y \in J : j <= y
    <3>. HIDE DEF J
    <3>. QED BY <2>1, Least
  <2>3. PICK x \in I : j = Len(q) - x
    OBVIOUS
  <2>4. \A y \in I : x >= y
    <3>. TAKE y \in I
    <3>1. Len(q) - y \in J
      OBVIOUS
    <3>2. j <= Len(q) - y
      BY <2>2, <3>1
    <3>. QED BY <2>3, <3>2
  <2>. HIDE DEF I
  <2>. QED BY <2>4 DEF Max
<1>3. CASE I = {}
  <2>1. SelectLastInSeq(q, IsTask) = 0
    BY <1>1, <1>3
  <2>2. \A i \in DOMAIN q : q[i] = NULL
    BY <1>3 DEF IsTask
  <2>. QED BY <2>1, <2>2
<1>4. CASE I # {}
  <2>. DEFINE n == Max(I)
  <2>1. SelectLastInSeq(q, IsTask) = n
    BY <1>1, <1>4
  <2>2. n \in I /\ \A y \in I : n >= y
    BY <1>2, <1>4
  <2>. HIDE DEF n
  <2>3. n \in 1 .. Len(q) /\ q[n] # NULL
    BY <2>2 DEF IsTask
  <2>4. \A i \in DOMAIN q : n < i => q[i] = NULL
    BY <2>2, <2>3 DEF IsTask
  <2>. QED BY <2>1, <2>3, <2>4
<1>. QED BY <1>3, <1>4

\* pop_front_nullptr removes holes from the front, and nothing if there are none.
LEMMA PopNulls ==
  ASSUME NEW q \in Seq(Queued), NEW index, Distinct(q), Ordered(q, index)
  PROVE  LET r == pop_front_nullptr(q) IN
         /\ Sound(r, index) /\ \A t \in Invoker : In(r, t) <=> In(q, t)
         /\ (q # <<>> => q[1] # NULL) => r = q
<1>. DEFINE n == SelectInSeq(q, IsTask)
            r == pop_front_nullptr(q)
<1>1. /\ n = 0 => \A i \in DOMAIN q : q[i] = NULL
      /\ n # 0 => n \in DOMAIN q /\ q[n] # NULL /\ \A i \in DOMAIN q : i < n => q[i] = NULL
  BY FirstTask
<1>2. r = IF n = 0 THEN <<>> ELSE SubSeq(q, n, Len(q))
  BY DEF pop_front_nullptr
<1>. HIDE DEF n, r
<1>3. NULL \notin Invoker
  BY Constants
<1>4. CASE n = 0
  <2>1. r = <<>>
    BY <1>2, <1>4
  <2>2. \A t \in Invoker : ~In(q, t) /\ ~In(r, t)
    BY <1>1, <1>3, <1>4, <2>1 DEF In
  <2>3. (q # <<>> => q[1] # NULL) => r = q
    <3>. SUFFICES ASSUME q # <<>> PROVE q[1] = NULL
      BY <2>1
    <3>1. 1 \in DOMAIN q
      BY EmptySeq
    <3>. QED BY <1>1, <1>4, <3>1
  <2>4. Sound(r, index)
    BY <2>1 DEF Sound, Distinct, Ordered, Queued
  <2>. QED BY <2>2, <2>3, <2>4 DEF r
<1>5. CASE n # 0
  <2>1. n \in 1 .. Len(q) /\ Len(q) \in Nat
    BY <1>1, <1>5
  <2>2. r = SubSeq(q, n, Len(q))
    BY <1>2, <1>5
  <2>3. /\ r \in Seq(Queued) /\ Len(r) = Len(q) - n + 1 /\ DOMAIN r = 1 .. Len(q) - n + 1
        /\ \A i \in 1 .. Len(q) - n + 1 : r[i] = q[n + i - 1]
    BY <2>1, <2>2, SubSeqProperties
  <2>4. r[1] = q[n] /\ \A i \in DOMAIN r : n + i - 1 \in DOMAIN q /\ r[i] = q[n + i - 1] /\ i \in Nat
    BY <2>1, <2>3
  <2>5. Sound(r, index)
    <3>1. Distinct(r)
      BY <2>1, <2>4 DEF Distinct
    <3>2. Ordered(r, index)
      <4>. SUFFICES ASSUME NEW i \in DOMAIN r, NEW j \in DOMAIN r, i < j, r[i] # NULL, r[j] # NULL
           PROVE  0 < index[r[j]] - index[r[i]] /\ index[r[j]] - index[r[i]] <= j - i
        BY DEF Ordered
      <4>. DEFINE k == n + i - 1
                  m == n + j - 1
      <4>1. k \in DOMAIN q /\ m \in DOMAIN q /\ r[i] = q[k] /\ r[j] = q[m] /\ i \in Nat /\ j \in Nat
        BY <2>4
      <4>2. k < m /\ m - k = j - i
        BY <2>1, <4>1
      <4>. HIDE DEF k, m
      <4>. QED BY <4>1, <4>2 DEF Ordered
    <3>. QED BY <1>1, <1>5, <2>3, <2>4, <3>1, <3>2 DEF Sound, Queued
  <2>6. ASSUME NEW t \in Invoker PROVE In(r, t) <=> In(q, t)
    <3>1. ASSUME In(q, t) PROVE In(r, t)
      <4>1. PICK i \in DOMAIN q : q[i] = t
        BY <3>1 DEF In
      <4>2. ~(i < n) /\ i \in 1 .. Len(q)
        BY <1>1, <1>3, <1>5, <4>1
      <4>3. i - n + 1 \in 1 .. Len(q) - n + 1 /\ n + (i - n + 1) - 1 = i
        BY <2>1, <4>2
      <4>. QED BY <2>3, <4>1, <4>3 DEF In
    <3>2. ASSUME In(r, t) PROVE In(q, t)
      BY <2>4, <3>2 DEF In
    <3>. QED BY <3>1, <3>2
  <2>7. (q # <<>> => q[1] # NULL) => r = q
    <3>. SUFFICES ASSUME q # <<>> => q[1] # NULL PROVE r = q
      OBVIOUS
    <3>1. n = 1
      <4>1. 1 \in DOMAIN q /\ q # <<>>
        BY <2>1, EmptySeq
      <4>. QED BY <1>1, <1>5, <2>1, <4>1
    <3>2. Len(r) = Len(q) /\ \A i \in 1 .. Len(q) : r[i] = q[i]
      BY <2>1, <2>3, <3>1
    <3>. QED BY <2>3, <3>2, SeqEqual
  <2>. QED BY <2>5, <2>6, <2>7 DEF r
<1>. QED BY <1>4, <1>5

\* What is left when the front is popped.
LEMMA PopTask ==
  ASSUME NEW q, NEW index, Sound(q, index), q # <<>>
  PROVE  LET r == pop_front_nullptr(Tail(q)) IN
         /\ Head(q) \in Invoker /\ In(q, Head(q)) /\ Sound(r, index)
         /\ \A t \in Invoker : In(r, t) <=> In(q, t) /\ t # Head(q)
<1>1. q \in Seq(Queued) /\ Distinct(q) /\ Ordered(q, index) /\ q[1] # NULL
  BY DEF Sound, Queued
<1>. DEFINE u == Tail(q)
<1>2. /\ Head(q) = q[1] /\ Head(q) \in Queued /\ u \in Seq(Queued) /\ Len(u) = Len(q) - 1 /\ Len(q) \in Nat \ {0}
      /\ \A i \in 1 .. Len(q) - 1 : u[i] = q[i + 1]
  BY <1>1, TailOf
<1>. HIDE DEF u
<1>3. DOMAIN u = 1 .. Len(q) - 1 /\ DOMAIN q = 1 .. Len(q)
  BY <1>1, <1>2
<1>4. \A i \in DOMAIN u : i \in Nat /\ i + 1 \in DOMAIN q /\ u[i] = q[i + 1]
  BY <1>2, <1>3
<1>5. Distinct(u)
  BY <1>1, <1>4 DEF Distinct
<1>6. Ordered(u, index)
  <2>. SUFFICES ASSUME NEW i \in DOMAIN u, NEW j \in DOMAIN u, i < j, u[i] # NULL, u[j] # NULL
       PROVE  0 < index[u[j]] - index[u[i]] /\ index[u[j]] - index[u[i]] <= j - i
    BY DEF Ordered
  <2>. DEFINE k == i + 1
              m == j + 1
  <2>1. k \in DOMAIN q /\ m \in DOMAIN q /\ u[i] = q[k] /\ u[j] = q[m] /\ k < m /\ m - k = j - i
    BY <1>4
  <2>. HIDE DEF k, m
  <2>. QED BY <1>1, <2>1 DEF Ordered
<1>7. 1 \in DOMAIN q /\ Head(q) \in Invoker
  BY <1>1, <1>2, <1>3 DEF Queued
<1>8. ASSUME NEW t \in Invoker PROVE In(u, t) <=> In(q, t) /\ t # Head(q)
  <2>1. ASSUME In(u, t) PROVE In(q, t) /\ t # Head(q)
    <3>1. PICK i \in DOMAIN u : u[i] = t
      BY <2>1 DEF In
    <3>2. i + 1 \in DOMAIN q /\ q[i + 1] = t /\ i + 1 # 1
      BY <1>3, <1>4, <3>1
    <3>3. q[1] # q[i + 1]
      BY <1>1, <1>7, <3>2 DEF Distinct
    <3>. QED BY <1>2, <3>2, <3>3 DEF In
  <2>2. ASSUME In(q, t), t # Head(q) PROVE In(u, t)
    <3>1. PICK i \in DOMAIN q : q[i] = t
      BY <2>2 DEF In
    <3>2. i - 1 \in 1 .. Len(q) - 1 /\ (i - 1) + 1 = i
      BY <1>2, <1>3, <2>2, <3>1
    <3>. QED BY <1>3, <1>4, <3>1, <3>2 DEF In
  <2>. QED BY <2>1, <2>2
<1>9. LET r == pop_front_nullptr(u) IN Sound(r, index) /\ \A t \in Invoker : In(r, t) <=> In(u, t)
  BY <1>2, <1>5, <1>6, PopNulls
<1>10. In(q, Head(q))
  BY <1>2, <1>7 DEF In
<1>. QED BY <1>7, <1>8, <1>9, <1>10 DEF u

\* What is left when try_invoke takes the invoker at a place.
LEMMA TakeTask ==
  ASSUME Sound(invoker_queue, invoker_index), NEW slot \in DOMAIN invoker_queue, NEW t \in Invoker, invoker_queue[slot] = t
  PROVE  /\ Sound(taken(slot), invoker_index)
         /\ \A x \in Invoker : In(taken(slot), x) <=> In(invoker_queue, x) /\ x # t
<1>. DEFINE q == invoker_queue
<1>1. q \in Seq(Queued) /\ Distinct(q) /\ Ordered(q, invoker_index) /\ q # <<>> /\ DOMAIN q = 1 .. Len(q) /\ Len(q) \in Nat
  BY DEF Sound, Queued
<1>2. NULL \notin Invoker
  BY Constants
<1>3. CASE slot = 1
  <2>1. Head(q) = q[1] /\ q[1] = t
    BY <1>1, <1>3, TailOf
  <2>2. taken(slot) = pop_front_nullptr(Tail(q))
    BY <1>3 DEF taken
  <2>. QED BY <1>1, <2>1, <2>2, PopTask
<1>4. CASE slot # 1
  <2>1. taken(slot) = [q EXCEPT ![slot] = NULL]
    BY <1>4 DEF taken
  <2>. DEFINE r == taken(slot)
  <2>2. /\ r \in Seq(Queued) /\ Len(r) = Len(q) /\ DOMAIN r = DOMAIN q
        /\ \A i \in DOMAIN q : r[i] = IF i = slot THEN NULL ELSE q[i]
    <3>1. NULL \in Queued
      BY DEF Queued
    <3>. QED BY <1>1, <2>1, <3>1, ExceptSeq
  <2>. HIDE DEF r
  <2>3. Distinct(r) /\ Ordered(r, invoker_index)
    BY <1>1, <2>2 DEF Distinct, Ordered
  <2>4. r # <<>> => r[1] # NULL
    <3>1. q[1] # NULL /\ 1 \in DOMAIN q
      BY <1>1, EmptySeq DEF Sound
    <3>. QED BY <1>4, <2>2, <3>1
  <2>5. \A x \in Invoker : In(r, x) <=> In(q, x) /\ x # t
    BY <1>1, <1>2, <2>2 DEF In, Distinct
  <2>. QED BY <2>2, <2>3, <2>4, <2>5 DEF r, Sound, Queued
<1>. QED BY <1>3, <1>4

\* A new invoker behind the others.
LEMMA PushBack ==
  ASSUME Sound(invoker_queue, invoker_index), NEW t \in Invoker, ~In(invoker_queue, t), invoker_index \in [Invoker -> Int],
         NEW index, index = [invoker_index EXCEPT ![t] = back_invoker_index + 1]
  PROVE  LET r == Append(invoker_queue, t) IN
         /\ Sound(r, index) /\ index \in [Invoker -> Int]
         /\ \A x \in Invoker : In(r, x) <=> In(invoker_queue, x) \/ x = t
<1>. DEFINE q == invoker_queue
            n == Len(q)
            r == Append(q, t)
            last == SelectLastInSeq(q, IsTask)
<1>1. q \in Seq(Queued) /\ Distinct(q) /\ Ordered(q, invoker_index) /\ DOMAIN q = 1 .. n /\ n \in Nat /\ (q # <<>> => q[1] # NULL)
  BY DEF Sound, Queued
<1>2. NULL \notin Invoker /\ t \in Queued
  BY Constants DEF Queued
<1>3. r \in Seq(Queued) /\ Len(r) = n + 1 /\ DOMAIN r = 1 .. n + 1 /\ \A i \in 1 .. n + 1 : r[i] = IF i = n + 1 THEN t ELSE q[i]
  BY <1>1, <1>2, Pushed
<1>4. /\ last = 0 => \A i \in DOMAIN q : q[i] = NULL
      /\ last # 0 => last \in DOMAIN q /\ q[last] # NULL /\ \A i \in DOMAIN q : last < i => q[i] = NULL
  BY <1>1, LastTask
<1>5. back_invoker_index = IF last = 0 THEN -1 ELSE invoker_index[q[last]]
  BY DEF back_invoker_index
<1>. HIDE DEF r, last
<1>6. back_invoker_index \in Int
  <2>1. last # 0 => q[last] \in Invoker
    BY <1>1, <1>4 DEF Queued
  <2>. QED BY <1>5, <2>1
<1>7. index \in [Invoker -> Int] /\ index[t] = back_invoker_index + 1 /\ \A x \in Invoker : x # t => index[x] = invoker_index[x]
  BY <1>6
<1>8. \A i \in DOMAIN q : q[i] # t
  BY DEF In
<1>9. Distinct(r)
  BY <1>1, <1>3, <1>8 DEF Distinct
<1>10. \A i \in DOMAIN q : q[i] # NULL => q[i] \in Invoker /\ index[q[i]] = invoker_index[q[i]] /\ invoker_index[q[i]] \in Int
  BY <1>1, <1>7, <1>8 DEF Queued
<1>11. Ordered(r, index)
  <2>. SUFFICES ASSUME NEW i \in DOMAIN r, NEW j \in DOMAIN r, i < j, r[i] # NULL, r[j] # NULL
       PROVE  0 < index[r[j]] - index[r[i]] /\ index[r[j]] - index[r[i]] <= j - i
    BY DEF Ordered
  <2>1. i \in DOMAIN q /\ r[i] = q[i] /\ i \in Nat /\ j \in Nat
    BY <1>1, <1>3
  <2>2. CASE j # n + 1
    <3>1. j \in DOMAIN q /\ r[j] = q[j]
      BY <1>1, <1>3, <2>2
    <3>2. 0 < invoker_index[q[j]] - invoker_index[q[i]] /\ invoker_index[q[j]] - invoker_index[q[i]] <= j - i
      BY <1>1, <2>1, <3>1 DEF Ordered
    <3>. QED BY <1>10, <2>1, <3>1, <3>2
  <2>3. CASE j = n + 1
    <3>1. last # 0 /\ last \in DOMAIN q /\ q[last] # NULL /\ ~(last < i)
      BY <1>4, <2>1
    <3>2. index[r[j]] = invoker_index[q[last]] + 1 /\ invoker_index[q[last]] \in Int
      BY <1>3, <1>5, <1>7, <1>10, <2>3, <3>1
    <3>3. index[r[i]] = invoker_index[q[i]] /\ invoker_index[q[i]] \in Int
      BY <1>10, <2>1
    <3>4. CASE i = last
      BY <1>1, <2>1, <2>3, <3>2, <3>3, <3>4
    <3>5. CASE i < last
      <4>1. 0 < invoker_index[q[last]] - invoker_index[q[i]] /\ invoker_index[q[last]] - invoker_index[q[i]] <= last - i
        BY <1>1, <2>1, <3>1, <3>5 DEF Ordered
      <4>. QED BY <1>1, <2>1, <2>3, <3>1, <3>2, <3>3, <4>1
    <3>. QED BY <1>1, <2>1, <3>1, <3>4, <3>5
  <2>. QED BY <2>2, <2>3
<1>12. r # <<>> => r[1] # NULL
  <2>1. CASE n = 0
    BY <1>2, <1>3, <2>1
  <2>2. CASE n # 0
    <3>1. q # <<>> /\ r[1] = q[1]
      BY <1>1, <1>3, <2>2
    <3>. QED BY <1>1, <3>1
  <2>. QED BY <2>1, <2>2
<1>13. \A x \in Invoker : In(r, x) <=> In(q, x) \/ x = t
  <2>1. n + 1 \in DOMAIN r /\ r[n + 1] = t /\ \A i \in DOMAIN q : i \in DOMAIN r /\ r[i] = q[i]
    BY <1>1, <1>3
  <2>2. \A i \in DOMAIN r : r[i] = t \/ (i \in DOMAIN q /\ r[i] = q[i])
    BY <1>1, <1>3
  <2>. QED BY <2>1, <2>2 DEF In
<1>. QED BY <1>3, <1>7, <1>9, <1>11, <1>12, <1>13 DEF Sound, Queued, r

\* r is q with the invokers of l in front, each before the previous one.
Prepended(q, old, l, base, index, r) ==
  /\ l \in Seq(Invoker) /\ \A i, j \in DOMAIN l : l[i] = l[j] => i = j
  /\ \A i \in DOMAIN l : ~In(q, l[i])
  /\ base \in Int /\ (q # <<>> => base = old[q[1]])
  /\ \A i \in DOMAIN l : index[l[i]] = base - i
  /\ \A x \in Invoker : ~In(l, x) => index[x] = old[x]
  /\ r \in Seq(Queued) /\ Len(r) = Len(l) + Len(q)
  /\ \A i \in 1 .. Len(l) : r[i] = l[Len(l) - i + 1]
  /\ \A i \in 1 .. Len(q) : r[Len(l) + i] = q[i]

LEMMA PushFronts ==
  ASSUME NEW q, NEW old, Sound(q, old), old \in [Invoker -> Int],
         NEW l, NEW base, NEW index, NEW r, Prepended(q, old, l, base, index, r)
  PROVE  Sound(r, index) /\ \A x \in Invoker : In(r, x) <=> In(q, x) \/ In(l, x)
<1>0. PICK m \in Nat, n \in Nat : m = Len(l) /\ n = Len(q)
  BY DEF Sound, Prepended
<1>1. q \in Seq(Queued) /\ Distinct(q) /\ Ordered(q, old) /\ DOMAIN q = 1 .. n /\ n \in Nat /\ (q # <<>> => q[1] # NULL)
  BY <1>0 DEF Sound, Queued
<1>2. /\ DOMAIN l = 1 .. m /\ m \in Nat /\ DOMAIN r = 1 .. m + n /\ NULL \notin Invoker
      /\ \A i \in 1 .. m : r[i] = l[m - i + 1]
      /\ \A i \in 1 .. n : r[m + i] = q[i]
      /\ \A i, j \in DOMAIN l : l[i] = l[j] => i = j
  BY <1>0, <1>1, Constants DEF Prepended
<1>3. ASSUME NEW i \in DOMAIN r
      PROVE  \/ i <= m /\ i \in Nat /\ m - i + 1 \in DOMAIN l /\ r[i] = l[m - i + 1]
             \/ m < i /\ i \in Nat /\ i - m \in DOMAIN q /\ r[i] = q[i - m]
  <2>1. i \in 1 .. m + n
    BY <1>2
  <2>2. CASE i <= m
    <3>1. i \in 1 .. m /\ m - i + 1 \in 1 .. m
      BY <1>0, <2>1, <2>2
    <3>2. r[i] = l[m - i + 1]
      BY <1>2, <3>1
    <3>. QED BY <1>2, <2>2, <3>1, <3>2
  <2>3. CASE m < i
    <3>1. i - m \in 1 .. n /\ m + (i - m) = i
      BY <1>0, <1>1, <1>2, <2>1, <2>3
    <3>2. r[i] = q[i - m]
      BY <1>2, <3>1
    <3>. QED BY <1>1, <2>1, <2>3, <3>1, <3>2
  <2>. QED BY <1>0, <1>2, <2>1, <2>2, <2>3
<1>4. \A i \in DOMAIN l : l[i] \in Invoker /\ index[l[i]] = base - i /\ \A j \in DOMAIN q : q[j] # l[i]
  BY <1>2 DEF In, Prepended
<1>5. \A i \in DOMAIN q : q[i] # NULL => q[i] \in Invoker /\ index[q[i]] = old[q[i]] /\ old[q[i]] \in Int
  <2>. SUFFICES ASSUME NEW i \in DOMAIN q, q[i] # NULL PROVE q[i] \in Invoker /\ index[q[i]] = old[q[i]] /\ old[q[i]] \in Int
    OBVIOUS
  <2>1. q[i] \in Invoker
    BY <1>1 DEF Queued
  <2>2. ~In(l, q[i])
    BY <1>4 DEF In
  <2>. QED BY <2>1, <2>2 DEF Prepended
<1>6. Distinct(r)
  <2>. SUFFICES ASSUME NEW i \in DOMAIN r, NEW j \in DOMAIN r, r[i] = r[j], r[i] # NULL PROVE i = j
    BY DEF Distinct
  <2>1. CASE i <= m /\ j <= m
    <3>1. l[m - i + 1] = l[m - j + 1] /\ m - i + 1 \in DOMAIN l /\ m - j + 1 \in DOMAIN l /\ i \in Nat /\ j \in Nat
      BY <1>3, <2>1
    <3>2. m - i + 1 = m - j + 1
      BY <1>2, <3>1
    <3>. QED BY <1>0, <1>2, <3>1, <3>2
  <2>2. CASE i > m /\ j > m
    <3>1. q[i - m] = q[j - m] /\ i - m \in DOMAIN q /\ j - m \in DOMAIN q /\ i \in Nat /\ j \in Nat /\ q[i - m] # NULL
      BY <1>0, <1>2, <1>3, <2>2
    <3>2. i - m = j - m
      BY <1>1, <3>1 DEF Distinct
    <3>. QED BY <1>0, <1>2, <3>1, <3>2
  <2>3. CASE i <= m /\ j > m
    <3>1. m - i + 1 \in DOMAIN l /\ r[i] = l[m - i + 1] /\ j - m \in DOMAIN q /\ r[j] = q[j - m]
      BY <1>0, <1>2, <1>3, <2>3
    <3>. QED BY <1>4, <3>1
  <2>4. CASE i > m /\ j <= m
    <3>1. m - j + 1 \in DOMAIN l /\ r[j] = l[m - j + 1] /\ i - m \in DOMAIN q /\ r[i] = q[i - m]
      BY <1>0, <1>2, <1>3, <2>4
    <3>. QED BY <1>4, <3>1
  <2>. QED BY <1>0, <1>2, <1>3, <2>1, <2>2, <2>3, <2>4
<1>7. Ordered(r, index)
  <2>. SUFFICES ASSUME NEW i \in DOMAIN r, NEW j \in DOMAIN r, i < j, r[i] # NULL, r[j] # NULL
       PROVE  0 < index[r[j]] - index[r[i]] /\ index[r[j]] - index[r[i]] <= j - i
    BY DEF Ordered
  <2>0. i \in Nat /\ j \in Nat
    BY <1>2
  <2>1. CASE j <= m
    <3>0. /\ m - i + 1 \in DOMAIN l /\ r[i] = l[m - i + 1]
          /\ m - j + 1 \in DOMAIN l /\ r[j] = l[m - j + 1]
      BY <1>0, <1>2, <1>3, <2>0, <2>1
    <3>1. index[r[i]] = base - (m - i + 1) /\ index[r[j]] = base - (m - j + 1)
      BY <1>4, <3>0
    <3>2. index[r[j]] - index[r[i]] = j - i
      BY <1>0, <2>0, <3>1 DEF Prepended
    <3>. QED BY <2>0, <3>2
  <2>2. CASE m < i
    <3>1. i - m \in DOMAIN q /\ j - m \in DOMAIN q /\ r[i] = q[i - m] /\ r[j] = q[j - m] /\ i - m < j - m
      BY <1>0, <1>2, <1>3, <2>0, <2>2
    <3>2. 0 < old[r[j]] - old[r[i]] /\ old[r[j]] - old[r[i]] <= (j - m) - (i - m)
      BY <1>1, <3>1 DEF Ordered
    <3>3. index[r[i]] = old[r[i]] /\ index[r[j]] = old[r[j]]
      BY <1>5, <3>1
    <3>. QED BY <1>0, <1>2, <2>0, <3>2, <3>3
  <2>3. CASE i <= m /\ m < j
    <3>0. m - i + 1 \in DOMAIN l /\ r[i] = l[m - i + 1] /\ j - m \in DOMAIN q /\ r[j] = q[j - m]
      BY <1>0, <1>2, <1>3, <2>0, <2>3
    <3>1. index[r[i]] = base - (m - i + 1) /\ j - m \in DOMAIN q /\ r[j] = q[j - m]
      BY <1>4, <3>0
    <3>2. q # <<>> /\ 1 \in DOMAIN q /\ q[1] # NULL /\ base = old[q[1]] /\ base \in Int
      BY <1>1, <3>1, EmptySeq DEF Prepended
    <3>3. index[r[j]] = old[q[j - m]] /\ old[q[j - m]] \in Int
      BY <1>5, <3>1
    <3>4. CASE j - m = 1
      <4>1. index[r[j]] = base
        BY <3>2, <3>3, <3>4
      <4>2. index[r[j]] - index[r[i]] = m - i + 1
        BY <1>0, <2>0, <3>1, <3>2, <4>1
      <4>. QED BY <1>0, <2>0, <2>3, <3>4, <4>2
    <3>5. CASE j - m # 1
      <4>1. 1 < j - m
        BY <1>0, <1>2, <2>0, <2>3, <3>5
      <4>2. 0 < old[q[j - m]] - base /\ old[q[j - m]] - base <= (j - m) - 1
        BY <1>1, <3>1, <3>2, <4>1 DEF Ordered
      <4>3. index[r[j]] - index[r[i]] = (old[q[j - m]] - base) + (m - i + 1)
        BY <1>0, <2>0, <3>1, <3>2, <3>3
      <4>. QED BY <1>0, <2>0, <2>3, <3>2, <3>3, <4>2, <4>3
    <3>. QED BY <3>4, <3>5
  <2>. QED BY <1>0, <1>2, <2>0, <2>1, <2>2, <2>3
<1>8. r # <<>> => r[1] # NULL
  <2>1. CASE m # 0
    <3>1. m \in DOMAIN l /\ 1 \in 1 .. m /\ m - 1 + 1 = m
      BY <1>0, <1>2, <2>1
    <3>2. r[1] = l[m]
      BY <1>2, <3>1
    <3>. QED BY <1>0, <1>2, <1>4, <3>1, <3>2
  <2>2. CASE m = 0
    <3>1. \A i \in 1 .. n : r[i] = q[i]
      <4>. TAKE i \in 1 .. n
      <4>1. m + i = i
        BY <1>0, <2>2
      <4>. QED BY <1>2, <4>1
    <3>2. CASE n = 0
      <4>1. Len(r) = 0
        BY <1>0, <2>2, <3>2 DEF Prepended
      <4>. QED BY <4>1, EmptySeq DEF Prepended
    <3>3. CASE n # 0
      <4>1. q # <<>> /\ 1 \in 1 .. n
        BY <1>1, <3>3
      <4>. QED BY <1>1, <3>1, <4>1
    <3>. QED BY <3>2, <3>3
  <2>. QED BY <2>1, <2>2
<1>9. ASSUME NEW x \in Invoker PROVE In(r, x) <=> In(q, x) \/ In(l, x)
  <2>1. ASSUME In(r, x) PROVE In(q, x) \/ In(l, x)
    <3>1. PICK i \in DOMAIN r : r[i] = x
      BY <2>1 DEF In
    <3>. QED BY <1>3, <3>1 DEF In
  <2>2. ASSUME In(q, x) PROVE In(r, x)
    <3>1. PICK i \in DOMAIN q : q[i] = x
      BY <2>2 DEF In
    <3>2. m + i \in DOMAIN r /\ r[m + i] = x
      <4>1. i \in 1 .. n /\ m + i \in 1 .. m + n
        BY <1>0, <1>1
      <4>. QED BY <1>2, <3>1, <4>1
    <3>. QED BY <3>2 DEF In
  <2>3. ASSUME In(l, x) PROVE In(r, x)
    <3>1. PICK i \in DOMAIN l : l[i] = x
      BY <2>3 DEF In
    <3>2. m - i + 1 \in DOMAIN r /\ m - i + 1 \in 1 .. m /\ m - (m - i + 1) + 1 = i
      BY <1>0, <1>1, <1>2, <3>1
    <3>3. r[m - i + 1] = x
      BY <1>2, <3>1, <3>2
    <3>. QED BY <3>2, <3>3 DEF In
  <2>. QED BY <2>1, <2>2, <2>3
<1>. QED BY <1>6, <1>7, <1>8, <1>9 DEF Sound, Queued, Prepended

(***************************************************************************)
(* A step that touches the invokers of T and replaces the frames Old, of   *)
(* which there is one at most, by New.                                     *)
(***************************************************************************)
Untouched(T, e) ==
  /\ e.run \notin T
  /\ e.pc \in Claiming => e.tgt \notin T
  /\ e.pc \in Launching => \A i \in DOMAIN e.launch : e.launch[i] \notin T
Same(t) == /\ status'[t] = status[t] /\ kind'[t] = kind[t] /\ bound'[t] = bound[t] /\ runs'[t] = runs[t]
           /\ status[t] = "ON_HOLD" => remaining'[t] <= remaining[t]
Replaces(T, Old, New) ==
  /\ T \subseteq Invoker /\ Frames' = (Frames \ Old) \cup New /\ New \subseteq FrameRec /\ script' = script
  /\ \A t \in Invoker \ T : Same(t)
  /\ \A e \in Frames \ Old : Untouched(T, e)
NewFrames(Old, New) ==
  /\ \A e \in New : FrameGood(e)'
  /\ \A e \in New : \A f \in Frames \ Old : Apart(e, f)
  /\ \A e, f \in New : e.run # f.run => Apart(e, f)
NewHandles(T, New) ==
  /\ \A h \in Invoker \ T : Pending(h) =>
       bound[h].inv \notin T /\ \A e \in New : e.pc \in Claiming => e.tgt # bound[h].inv
  /\ \A h \in T : Pending(h)' => /\ Handled(h, bound[h].inv)'
                                 /\ \A g \in Invoker : Pending(g)' /\ g # h => bound'[g].inv # bound'[h].inv

LEMMA StepCalls ==
  ASSUME QueueTypeOK, CallsInv, remaining' \in [Invoker -> Int], OneFrame', NEW T, NEW Old, NEW New,
         Replaces(T, Old, New), NewFrames(Old, New), NewHandles(T, New), \A t \in T : StatusGood(t)'
  PROVE  CallsInv'
<1>1. FrameInv /\ AllApart /\ Handles /\ Statuses
  BY DEF CallsInv
<1>2. /\ \A t \in Invoker \ T : Same(t)
      /\ \A e \in Frames \ Old : Untouched(T, e) /\ e \in FrameRec
      /\ Frames' = (Frames \ Old) \cup New /\ New \subseteq FrameRec /\ T \subseteq Invoker /\ script' = script
  BY FrameTypes DEF Replaces
<1>3. FrameInv'
  <2>. SUFFICES ASSUME NEW e \in Frames' PROVE FrameGood(e)'
    BY DEF FrameInv
  <2>1. CASE e \in New
    BY <2>1 DEF NewFrames
  <2>2. CASE e \in Frames \ Old
    <3>1. FrameGood(e) /\ Untouched(T, e) /\ e \in FrameRec
      BY <1>1, <1>2, <2>2 DEF FrameInv
    <3>2. Running(e)'
      BY <1>2, <3>1 DEF FrameGood, Running, Untouched, Same, FrameRec
    <3>3. Claims(e)'
      BY <1>2, <3>1 DEF FrameGood, Claims, Untouched, Same
    <3>4. Helps(e)'
      BY <1>2, <3>1 DEF FrameGood, Helps, CallOf, Calls
    <3>5. Launches(e)'
      <4>1. ASSUME e.pc \in Launching, NEW i \in DOMAIN e.launch
            PROVE  LET t == e.launch[i] IN status'[t] = "ON_HOLD" /\ kind'[t] = "task" /\ remaining'[t] <= 0
        <5>. DEFINE t == e.launch[i]
        <5>1. t \in Invoker
          BY <3>1 DEF FrameRec
        <5>2. status[t] = "ON_HOLD" /\ kind[t] = "task" /\ remaining[t] <= 0 /\ t \notin T
          BY <3>1, <4>1 DEF FrameGood, Launches, Untouched
        <5>3. Same(t)
          BY <1>2, <5>1, <5>2
        <5>4. remaining[t] \in Int /\ remaining'[t] \in Int
          BY <5>1 DEF QueueTypeOK, VarsOK
        <5>. HIDE DEF t
        <5>5. status'[t] = "ON_HOLD" /\ kind'[t] = "task" /\ remaining'[t] <= remaining[t]
          BY <5>2, <5>3 DEF Same
        <5>6. remaining'[t] <= 0
          BY <5>2, <5>4, <5>5
        <5>. QED BY <5>5, <5>6 DEF t
      <4>. QED BY <3>1, <4>1 DEF FrameGood, Launches
    <3>. QED BY <3>2, <3>3, <3>4, <3>5 DEF FrameGood
  <2>. QED BY <1>2, <2>1, <2>2
<1>4. AllApart'
  <2>. SUFFICES ASSUME NEW e \in Frames', NEW f \in Frames', e.run # f.run PROVE Apart(e, f)
    BY DEF AllApart, Apart
  <2>1. CASE e \in Frames \ Old /\ f \in Frames \ Old
    BY <1>1, <2>1 DEF AllApart
  <2>2. CASE e \in New /\ f \in New
    BY <2>2 DEF NewFrames
  <2>3. CASE e \in New /\ f \in Frames \ Old
    BY <2>3 DEF NewFrames
  <2>4. CASE e \in Frames \ Old /\ f \in New
    <3>1. Apart(f, e)
      BY <2>4 DEF NewFrames
    <3>. QED BY <3>1 DEF Apart
  <2>. QED BY <1>2, <2>1, <2>2, <2>3, <2>4
<1>5. Handles'
  <2>1. ASSUME NEW h \in Invoker, Pending(h)', h \notin T
        PROVE  Pending(h) /\ bound'[h] = bound[h] /\ Handled(h, bound[h].inv)'
    <3>1. Pending(h) /\ bound'[h] = bound[h]
      BY <1>2, <2>1 DEF Same, Pending
    <3>0. PICK x : x = bound[h].inv
      OBVIOUS
    <3>2. Handled(h, x) /\ x \notin T /\ \A e \in New : e.pc \in Claiming => e.tgt # x
      BY <1>1, <2>1, <3>0, <3>1 DEF Handles, NewHandles
    <3>3. x \in Invoker /\ Same(x)
      BY <1>2, <3>2 DEF Handled
    <3>4. /\ kind'[x] = "task" /\ status'[x] = "CONSTRUCTING"
          /\ bound'[x] = bound'[h] /\ bound'[h].call = "push_dependent"
      BY <3>1, <3>2, <3>3 DEF Handled, Same
    <3>5. \A f \in Frames' : f.pc \in Claiming => f.tgt # x
      BY <1>2, <3>2 DEF Handled
    <3>6. Handled(h, x)'
      BY <3>3, <3>4, <3>5 DEF Handled
    <3>. QED BY <3>0, <3>1, <3>6
  <2>2. ASSUME NEW h \in Invoker, Pending(h)' PROVE Handled(h, bound[h].inv)'
    BY <2>1, <2>2 DEF NewHandles
  <2>3. ASSUME NEW g \in Invoker, NEW h \in Invoker, Pending(g)', Pending(h)', g # h PROVE bound'[g].inv # bound'[h].inv
    <3>1. CASE g \in T
      BY <2>3, <3>1 DEF NewHandles
    <3>2. CASE h \in T
      BY <2>3, <3>2 DEF NewHandles
    <3>3. CASE g \notin T /\ h \notin T
      <4>1. Pending(g) /\ Pending(h) /\ bound'[g] = bound[g] /\ bound'[h] = bound[h]
        BY <2>1, <2>3, <3>3
      <4>. QED BY <1>1, <2>3, <4>1 DEF Handles
    <3>. QED BY <3>1, <3>2, <3>3
  <2>. QED BY <2>2, <2>3 DEF Handles
<1>6. Statuses'
  <2>. SUFFICES ASSUME NEW t \in Invoker, t \notin T PROVE StatusGood(t)'
    BY DEF Statuses
  <2>. QED BY <1>1, <1>2 DEF Statuses, StatusGood, Same
<1>. QED BY <1>3, <1>4, <1>5, <1>6 DEF CallsInv

\* A step in which a frame goes on, no status changes and nothing is pushed.
Quiet(th, g) ==
  /\ th \in Thread /\ stack[th] # <<>> /\ Goto(th, g) /\ g \in FrameRec /\ g.run = Top(th).run
  /\ g.pc \in Claiming => Top(th).pc \in Claiming /\ g.tgt = Top(th).tgt
  /\ g.pc \in Launching => g.launch = <<>> \/ (Top(th).pc \in Launching /\ g.launch = Top(th).launch)
  /\ UNCHANGED <<script, status, kind, bound, runs>> /\ remaining' \in [Invoker -> Int]
  /\ \A t \in Invoker : status[t] = "ON_HOLD" => remaining'[t] <= remaining[t]

\* What the other frames are to the one on top of a stack.
LEMMA TopIsGood ==
  ASSUME QueueTypeOK, CallsInv, NEW th \in Thread, stack[th] # <<>>
  PROVE  /\ Top(th) \in FrameRec /\ Top(th) \in Frames /\ FrameGood(Top(th))
         /\ \A e \in Frames \ {Top(th)} : /\ e \in FrameRec /\ FrameGood(e) /\ e.run # Top(th).run
                                          /\ Apart(Top(th), e) /\ Apart(e, Top(th))
<1>1. OneFrame /\ FrameInv /\ AllApart
  BY DEF CallsInv
<1>2. Top(th) \in FrameRec /\ Top(th) \in Frames /\ \A e \in Frames : e.run = Top(th).run => e = Top(th)
  BY <1>1, TopFrame
<1>. QED BY <1>1, <1>2, FrameTypes DEF FrameInv, AllApart

LEMMA QuietStep ==
  ASSUME QueueTypeOK, CallsInv, NEW th, NEW g, Quiet(th, g), FrameGood(g)
  PROVE  /\ stack' \in [Thread -> Seq(FrameRec)] /\ CallsInv' /\ Frames' = (Frames \ {Top(th)}) \cup {g}
<1>. DEFINE f == Top(th)
<1>1. /\ th \in Thread /\ stack[th] # <<>> /\ Goto(th, g) /\ g \in FrameRec /\ g.run = f.run
      /\ UNCHANGED <<script, status, kind, bound, runs>> /\ remaining' \in [Invoker -> Int]
      /\ \A t \in Invoker : status[t] = "ON_HOLD" => remaining'[t] <= remaining[t]
  BY DEF Quiet
<1>2. OneFrame /\ FrameInv /\ AllApart /\ Handles
  BY DEF CallsInv
<1>3. stack' \in [Thread -> Seq(FrameRec)] /\ OneFrame' /\ Frames' = (Frames \ {f}) \cup {g}
  BY <1>1, <1>2, GotoFrames
<1>4. f \in FrameRec /\ f \in Frames /\ \A e \in Frames \ {f} : e \in FrameRec /\ e.run # f.run /\ Apart(f, e)
  BY <1>1, TopIsGood
<1>. HIDE DEF f
<1>5. Replaces({}, {f}, {g})
  BY <1>1, <1>3 DEF Replaces, Same, Untouched
<1>6. NewFrames({f}, {g})
  <2>1. FrameGood(g)'
    <3>1. Launches(g)'
      <4>1. ASSUME g.pc \in Launching, NEW i \in DOMAIN g.launch
            PROVE  LET t == g.launch[i] IN status'[t] = "ON_HOLD" /\ kind'[t] = "task" /\ remaining'[t] <= 0
        <5>1. PICK t : t = g.launch[i] /\ t \in Invoker
          BY <1>1, <4>1 DEF FrameRec
        <5>2. status[t] = "ON_HOLD" /\ kind[t] = "task" /\ remaining[t] <= 0
          BY <4>1, <5>1 DEF FrameGood, Launches
        <5>3. remaining[t] \in Int /\ remaining'[t] \in Int /\ remaining'[t] <= remaining[t]
          BY <1>1, <5>1, <5>2 DEF QueueTypeOK, VarsOK
        <5>4. remaining'[t] <= 0
          BY <5>2, <5>3
        <5>. QED BY <1>1, <5>1, <5>2, <5>4
      <4>. QED BY <4>1 DEF FrameGood, Launches
    <3>2. Running(g)' /\ Claims(g)' /\ Helps(g)'
      BY <1>1 DEF FrameGood, Running, Claims, Helps, CallOf, Calls
    <3>. QED BY <3>1, <3>2 DEF FrameGood
  <2>2. \A e \in Frames \ {f} : Apart(g, e)
    BY <1>4 DEF Quiet, Apart, f
  <2>. QED BY <2>1, <2>2 DEF NewFrames
<1>7. NewHandles({}, {g})
  <2>1. ASSUME NEW h \in Invoker, Pending(h), g.pc \in Claiming PROVE g.tgt # bound[h].inv
    BY <1>2, <1>4, <2>1 DEF Handles, Handled, Quiet, f
  <2>. QED BY <2>1 DEF NewHandles
<1>8. CallsInv'
  BY <1>1, <1>3, <1>5, <1>6, <1>7, StepCalls
<1>. QED BY <1>3, <1>8 DEF f

\* A step in which a frame ends, and nothing else happens.
LEMMA QuietReturn ==
  ASSUME QueueTypeOK, CallsInv, NEW th \in Thread, stack[th] # <<>>, Return(th),
         UNCHANGED <<script, status, kind, bound, runs, remaining>>
  PROVE  stack' \in [Thread -> Seq(FrameRec)] /\ CallsInv' /\ Frames' = Frames \ {Top(th)}
<1>1. OneFrame /\ Handles
  BY DEF CallsInv
<1>2. stack' \in [Thread -> Seq(FrameRec)] /\ OneFrame' /\ Frames' = Frames \ {Top(th)}
  BY <1>1, ReturnFrames
<1>3. remaining \in [Invoker -> Int]
  BY DEF QueueTypeOK, VarsOK
<1>4. Replaces({}, {Top(th)}, {})
  BY <1>2, <1>3 DEF Replaces, Same, Untouched
<1>5. NewFrames({Top(th)}, {}) /\ NewHandles({}, {})
  BY DEF NewFrames, NewHandles
<1>6. CallsInv'
  BY <1>2, <1>3, <1>4, <1>5, StepCalls
<1>. QED BY <1>2, <1>6

(***************************************************************************)
(* The quiet steps, one by one.                                            *)
(***************************************************************************)
LEMMA NextCallFrame ==
  ASSUME NEW f \in FrameRec
  PROVE  LET g == NextCall(f) IN
         /\ g \in FrameRec /\ g.run = f.run /\ g.pc = "body" /\ g.ip = f.ip + 1 /\ g.todo = <<>>
         /\ g.flag = FALSE /\ g.tgt = NULL /\ g.launch = f.launch
<1>. DEFINE g == NextCall(f)
<1>1. /\ f.run \in Client \cup Invoker /\ f.ip + 1 \in Nat \ {0} /\ f.launch \in Seq(Invoker)
      /\ "body" \in Pc /\ <<>> \in Seq(Invoker) /\ FALSE \in BOOLEAN /\ NULL \in Invoker \cup {NULL}
  BY DEF FrameRec, Pc
<1>2. g \in FrameRec
  BY <1>1 DEF NextCall, FrameRec
<1>3. /\ g.run = f.run /\ g.pc = "body" /\ g.ip = f.ip + 1 /\ g.todo = <<>>
      /\ g.flag = FALSE /\ g.tgt = NULL /\ g.launch = f.launch
  BY DEF NextCall, FrameRec
<1>. QED BY <1>2, <1>3

\* A frame that neither ends an invocation nor claims an invoker nor helps.
LEMMA PlainFrame ==
  ASSUME NEW f, NEW g, FrameGood(f), f.pc \notin Ending, g.run = f.run, g.launch = f.launch,
         g.pc \notin Ending \cup Claiming \cup Helping, g.pc \in Invoking => f.run \in Invoker
  PROVE  FrameGood(g)
BY DEF FrameGood, Running, Claims, Helps, Launches, Launching, Ending

Goes(th, g) == Quiet(th, g) /\ FrameGood(g)

LEMMA AtFrame ==
  ASSUME QueueInv, NEW th \in Thread, NEW where, At(th, where)
  PROVE  /\ stack[th] # <<>> /\ Top(th).pc = where /\ Top(th) \in FrameRec /\ FrameGood(Top(th)) /\ Top(th) \in Frames
         /\ remaining \in [Invoker -> Int] /\ script \in Scripts
         /\ where \notin Launching \cup {"wake"} => Top(th).launch = <<>>
<1>1. stack[th] # <<>> /\ Top(th).pc = where
  BY DEF At
<1>2. Top(th) \in FrameRec /\ FrameGood(Top(th)) /\ Top(th) \in Frames
  BY <1>1, TopIsGood DEF QueueInv
<1>. QED BY <1>1, <1>2 DEF FrameGood, Launches, QueueInv, QueueTypeOK, VarsOK

\* A call that a frame is about to make, or inside of which it is.
LEMMA CallOfFrame ==
  ASSUME script \in Scripts, NEW f \in FrameRec, f.ip <= Len(Calls(f.run))
  PROVE  /\ CallOf(f) = Calls(f.run)[f.ip] /\ f.ip \in DOMAIN Calls(f.run) /\ CallOf(f) \in Call /\ CallOf(f).on \in Seq(Invoker)
         /\ CallOf(f).call \notin {"future_wait", "destroy"} => CallOf(f).inv \in Invoker
         /\ CallOf(f).call = "push_dependent" => CallOf(f).aux \in Invoker /\ CallOf(f).aux # CallOf(f).inv
         /\ CallOf(f).call = "future_wait" => CallOf(f).on # <<>>
<1>1. f.ip \in 1 .. Len(Calls(f.run)) /\ Len(Calls(f.run)) \in Nat
  BY CallFacts DEF FrameRec
<1>. QED BY <1>1, CallFacts DEF CallOf, Call

LEMMA CallFrame ==
  ASSUME QueueInv, NEW th \in Thread, NEW name, AtCall(th, name)
  PROVE  LET f == Top(th) IN
         /\ stack[th] # <<>> /\ f.pc = "body" /\ f \in FrameRec /\ FrameGood(f) /\ f \in Frames /\ f.launch = <<>>
         /\ f.ip <= Len(Calls(f.run)) /\ CallOf(f).call = name /\ CallOf(f) \in Call /\ CallOf(f).on \in Seq(Invoker)
         /\ name \notin {"future_wait", "destroy"} => CallOf(f).inv \in Invoker
         /\ name = "push_dependent" => CallOf(f).aux \in Invoker /\ CallOf(f).aux # CallOf(f).inv
         /\ name = "future_wait" => CallOf(f).on # <<>>
<1>1. At(th, "body") /\ Top(th).ip <= Len(Calls(Top(th).run)) /\ Calls(Top(th).run)[Top(th).ip].call = name
  BY DEF AtCall
<1>2. /\ stack[th] # <<>> /\ Top(th).pc = "body" /\ Top(th) \in FrameRec /\ FrameGood(Top(th)) /\ Top(th) \in Frames
      /\ script \in Scripts /\ Top(th).launch = <<>>
  BY <1>1, AtFrame DEF Launching
<1>. QED BY <1>1, <1>2, CallOfFrame

LEMMA CallGoes ==
  ASSUME QueueInv, NEW th \in Thread, script' = script
  PROVE  /\ Notify(th) => Goes(th, NextCall(Top(th)))
         /\ Wait(th) => Goes(th, [Top(th) EXCEPT !.pc = "visit", !.todo = CallOf(Top(th)).on])
         /\ WaitReturn(th) => Goes(th, NextCall(Top(th)))
         /\ FutureWait(th) => Goes(th, NextCall(Top(th)))
<1>. DEFINE f == Top(th)
<1>0. remaining \in [Invoker -> Int] /\ \A t \in Invoker : remaining[t] <= remaining[t]
  BY DEF QueueInv, QueueTypeOK, VarsOK
<1>1. ASSUME NEW w, At(th, w), w \notin Invoking, w \notin Launching \cup {"wake"}
      PROVE  NextCall(f) \in FrameRec /\ NextCall(f).run = f.run /\ FrameGood(NextCall(f)) /\ NextCall(f).pc = "body"
  <2>1. /\ f \in FrameRec /\ FrameGood(f) /\ f.pc \notin Ending
        /\ NextCall(f) \in FrameRec /\ NextCall(f).run = f.run /\ NextCall(f).launch = f.launch /\ NextCall(f).pc = "body"
    BY <1>1, AtFrame, NextCallFrame DEF Invoking
  <2>. HIDE DEF f
  <2>2. "body" \notin Ending \cup Claiming \cup Helping \cup Invoking
    BY DEF Ending, Claiming, Helping, Invoking, Resizes, Registering
  <2>. QED BY <2>1, <2>2, PlainFrame
<1>2. {"notify", "body", "block"} \cap (Invoking \cup Launching \cup {"wake"}) = {} /\ "body" \notin Claiming \cup Launching
  BY DEF Launching, Invoking, Ending, Resizes, Claiming, Registering
<1>3. Notify(th) => Goes(th, NextCall(f))
  <2>. SUFFICES ASSUME Notify(th) PROVE Goes(th, NextCall(f))
    OBVIOUS
  <2>1. At(th, "notify") /\ Goto(th, NextCall(f)) /\ UNCHANGED <<status, kind, bound, runs, remaining>>
    BY DEF Notify, futureVars
  <2>2. stack[th] # <<>>
    BY <2>1 DEF At
  <2>3. NextCall(f) \in FrameRec /\ NextCall(f).run = f.run /\ FrameGood(NextCall(f)) /\ NextCall(f).pc = "body"
    BY <1>1, <1>2, <2>1
  <2>. QED BY <1>0, <1>2, <2>1, <2>2, <2>3 DEF Goes, Quiet
<1>4. WaitReturn(th) => Goes(th, NextCall(f))
  <2>. SUFFICES ASSUME WaitReturn(th) PROVE Goes(th, NextCall(f))
    OBVIOUS
  <2>1. At(th, "block") /\ Goto(th, NextCall(f)) /\ UNCHANGED <<status, kind, bound, runs, remaining>>
    BY DEF WaitReturn, futureVars
  <2>2. stack[th] # <<>>
    BY <2>1 DEF At
  <2>3. NextCall(f) \in FrameRec /\ NextCall(f).run = f.run /\ FrameGood(NextCall(f)) /\ NextCall(f).pc = "body"
    BY <1>1, <1>2, <2>1
  <2>. QED BY <1>0, <1>2, <2>1, <2>2, <2>3 DEF Goes, Quiet
<1>5. FutureWait(th) => Goes(th, NextCall(f))
  <2>. SUFFICES ASSUME FutureWait(th) PROVE Goes(th, NextCall(f))
    OBVIOUS
  <2>1. At(th, "body") /\ Goto(th, NextCall(f)) /\ UNCHANGED <<status, kind, bound, runs, remaining>>
    BY DEF FutureWait, AtCall, futureVars
  <2>2. stack[th] # <<>>
    BY <2>1 DEF At
  <2>3. NextCall(f) \in FrameRec /\ NextCall(f).run = f.run /\ FrameGood(NextCall(f)) /\ NextCall(f).pc = "body"
    BY <1>1, <1>2, <2>1
  <2>. QED BY <1>0, <1>2, <2>1, <2>2, <2>3 DEF Goes, Quiet
<1>6. Wait(th) => Goes(th, [f EXCEPT !.pc = "visit", !.todo = CallOf(f).on])
  <2>. SUFFICES ASSUME Wait(th) PROVE Goes(th, [f EXCEPT !.pc = "visit", !.todo = CallOf(f).on])
    OBVIOUS
  <2>. DEFINE g == [f EXCEPT !.pc = "visit", !.todo = CallOf(f).on]
  <2>1. AtCall(th, "wait") /\ Goto(th, g) /\ UNCHANGED <<status, kind, bound, runs, remaining>>
    BY DEF Wait, futureVars
  <2>2. /\ stack[th] # <<>> /\ f.pc = "body" /\ f \in FrameRec /\ FrameGood(f) /\ f.launch = <<>>
        /\ f.ip <= Len(Calls(f.run)) /\ CallOf(f).call = "wait" /\ CallOf(f).on \in Seq(Invoker)
    BY <2>1, CallFrame
  <2>. HIDE DEF f
  <2>3. /\ g \in FrameRec /\ g.run = f.run /\ g.pc = "visit" /\ g.launch = <<>> /\ g.ip = f.ip
        /\ g.todo = CallOf(f).on
    BY <2>2 DEF FrameRec, Pc, Helping
  <2>4. CallOf(g) = CallOf(f)
    BY <2>3 DEF CallOf
  <2>. HIDE DEF g
  <2>5. FrameGood(g)
    BY <2>2, <2>3, <2>4 DEF FrameGood, Running, Claims, Helps, Launches, Ending, Launching, Invoking, Resizes, Claiming, Registering
  <2>6. Goes(th, g)
    BY <1>0, <2>1, <2>2, <2>3, <2>5 DEF Goes, Quiet, f, Claiming, Registering, Launching
  <2>. QED BY <2>6 DEF g
<1>. QED BY <1>3, <1>4, <1>5, <1>6

\* What the steps below leave alone when they leave the deque and the statuses alone.
DequeKept == UNCHANGED <<invoker_queue, invoker_index, status>>

LEMMA KeepsDeque ==
  ASSUME QueueInv, DequeKept, VarsOK', stack' \in [Thread -> Seq(FrameRec)], CallsInv'
  PROVE  QueueInv'
<1>1. DequeInv'
  BY DEF QueueInv, DequeInv, DequeKept, Sound, Distinct, Ordered, In
<1>. QED BY <1>1 DEF QueueInv, QueueTypeOK

LEMMA GoesKeeps ==
  ASSUME QueueInv, DequeKept, VarsOK', NEW th, NEW g, Goes(th, g)
  PROVE  QueueInv'
<1>1. stack' \in [Thread -> Seq(FrameRec)] /\ CallsInv'
  BY QuietStep DEF QueueInv, Goes
<1>. QED BY <1>1, KeepsDeque

\* The steps that move no frame, change no future and push nothing.
Calm == UNCHANGED <<script, status, kind, bound, runs, remaining>>

LEMMA PlainGoes ==
  ASSUME QueueInv, NEW th \in Thread, NEW where, At(th, where), where \notin Ending, NEW g \in FrameRec, Goto(th, g),
         g.run = Top(th).run, g.launch = Top(th).launch, g.pc \notin Ending \cup Claiming \cup Helping,
         g.pc \in Invoking => where \in Invoking, Calm
  PROVE  Goes(th, g)
<1>1. /\ stack[th] # <<>> /\ Top(th).pc = where /\ Top(th) \in FrameRec /\ FrameGood(Top(th))
      /\ remaining \in [Invoker -> Int]
  BY AtFrame
<1>2. where \in Invoking => Top(th).run \in Invoker
  BY <1>1 DEF FrameGood, Running
<1>3. FrameGood(g)
  BY <1>1, <1>2, PlainFrame
<1>4. \A t \in Invoker : remaining[t] <= remaining[t]
  BY <1>1
<1>. QED BY <1>1, <1>3, <1>4 DEF Goes, Quiet, Launching, Ending, Calm

\* A frame that helps goes on helping.
LEMMA HelpGoes ==
  ASSUME QueueInv, NEW th \in Thread, NEW where \in Helping, At(th, where), NEW g \in FrameRec, Goto(th, g),
         g.run = Top(th).run, g.launch = Top(th).launch, g.ip = Top(th).ip, g.pc \in Helping,
         g.pc # "visit" => g.todo # <<>>, Calm
  PROVE  Goes(th, g)
<1>1. /\ stack[th] # <<>> /\ Top(th).pc = where /\ Top(th) \in FrameRec /\ FrameGood(Top(th))
      /\ remaining \in [Invoker -> Int]
  BY AtFrame
<1>2. Helping \cap (Invoking \cup Claiming \cup Launching \cup Ending) = {}
  BY DEF Helping, Invoking, Claiming, Registering, Launching, Ending, Resizes
<1>3. Running(g) /\ Claims(g) /\ Helps(g) /\ Launches(g)
  <2>1. Running(g)
    BY <1>1, <1>2 DEF FrameGood, Running
  <2>2. Helps(g)
    BY <1>1 DEF FrameGood, Helps, CallOf
  <2>3. Launches(g)
    BY <1>1, <1>2 DEF FrameGood, Launches, Ending
  <2>. QED BY <1>2, <2>1, <2>2, <2>3 DEF Claims
<1>4. \A t \in Invoker : remaining[t] <= remaining[t]
  BY <1>1
<1>. QED BY <1>1, <1>2, <1>3, <1>4 DEF Goes, Quiet, FrameGood, Calm

\* A frame that registers an invoker goes on registering it.
LEMMA RegisterGoes ==
  ASSUME QueueInv, NEW th \in Thread, NEW where \in Registering \cup {"controls"}, At(th, where), NEW g \in FrameRec, Goto(th, g),
         g.run = Top(th).run, g.launch = Top(th).launch, g.tgt = Top(th).tgt, g.pc \in Registering,
         g.pc # "register" => g.todo # <<>>,
         UNCHANGED <<script, status, kind, bound, runs>>, remaining' \in [Invoker -> Int],
         \A t \in Invoker : t # Top(th).tgt => remaining'[t] = remaining[t]
  PROVE  Goes(th, g)
<1>1. /\ stack[th] # <<>> /\ Top(th).pc = where /\ Top(th) \in FrameRec /\ FrameGood(Top(th))
      /\ remaining \in [Invoker -> Int]
  BY AtFrame
<1>2. /\ (Registering \cup {"controls"}) \cap (Invoking \cup Helping \cup Launching \cup Ending) = {}
      /\ Registering \cup {"controls"} \subseteq Claiming /\ "push" \notin Registering /\ "controls" \notin Registering
  BY DEF Helping, Invoking, Claiming, Registering, Launching, Ending, Resizes
<1>3. status[Top(th).tgt] = "CONSTRUCTING"
  BY <1>1, <1>2 DEF FrameGood, Claims
<1>4. Running(g) /\ Claims(g) /\ Helps(g) /\ Launches(g)
  <2>1. Running(g)
    BY <1>1, <1>2 DEF FrameGood, Running
  <2>2. Claims(g)
    BY <1>1, <1>2 DEF FrameGood, Claims
  <2>3. Launches(g)
    BY <1>1, <1>2 DEF FrameGood, Launches, Ending
  <2>. QED BY <1>2, <2>1, <2>2, <2>3 DEF Helps
<1>5. ASSUME NEW t \in Invoker, status[t] = "ON_HOLD" PROVE remaining'[t] <= remaining[t]
  BY <1>1, <1>3, <1>5
<1>. QED BY <1>1, <1>2, <1>4, <1>5 DEF Goes, Quiet, FrameGood

WorkerAt == {"none", "pop", "wait", "exited"}
LEMMA Wakes ==
  ASSUME worker \in [Worker -> WorkerAt], notify_one \/ notify_all
  PROVE  worker' \in [Worker -> WorkerAt]
BY DEF notify_one, notify_all, WorkerAt

LEMMA CallKeeps ==
  ASSUME QueueInv, NEW th \in Thread, script' = script, Notify(th) \/ Wait(th) \/ WaitReturn(th) \/ FutureWait(th)
  PROVE  QueueInv'
<1>1. \E g : Goes(th, g)
  BY CallGoes
<1>2. /\ DequeKept /\ UNCHANGED <<futureVars, threadVars, controlVars, lockVars, runs>>
      /\ notify_one \/ UNCHANGED worker
  BY DEF Notify, Wait, WaitReturn, FutureWait, DequeKept, queueVars
<1>3. worker' \in [Worker -> WorkerAt]
  BY <1>2, Wakes DEF QueueInv, QueueTypeOK, VarsOK, WorkerAt
<1>4. VarsOK'
  BY <1>2, <1>3 DEF QueueInv, QueueTypeOK, VarsOK, DequeKept, futureVars, threadVars, controlVars, lockVars, WorkerAt
<1>. QED BY <1>1, <1>2, <1>4, GoesKeeps

(***************************************************************************)
(* wait(): the visits                                                      *)
(***************************************************************************)
LEMMA VisitedFrame ==
  ASSUME NEW f \in FrameRec, f.todo # <<>>, NEW b \in BOOLEAN
  PROVE  LET g == Visited(f, b) IN
         /\ g \in FrameRec /\ g.run = f.run /\ g.pc = "visit" /\ g.ip = f.ip /\ g.todo = Tail(f.todo)
         /\ g.flag = (f.flag \/ b) /\ g.tgt = f.tgt /\ g.launch = f.launch
<1>. DEFINE g == Visited(f, b)
<1>1. /\ Tail(f.todo) \in Seq(Invoker) /\ "visit" \in Pc /\ (f.flag \/ b) \in BOOLEAN
  BY DEF FrameRec, Pc, Helping
<1>2. g \in FrameRec
  BY <1>1 DEF Visited, FrameRec
<1>3. /\ g.run = f.run /\ g.pc = "visit" /\ g.ip = f.ip /\ g.todo = Tail(f.todo)
      /\ g.flag = (f.flag \/ b) /\ g.tgt = f.tgt /\ g.launch = f.launch
  BY DEF Visited, FrameRec
<1>. QED BY <1>2, <1>3

LEMMA MovedFrame ==
  ASSUME NEW f \in FrameRec, NEW pc \in Pc
  PROVE  LET g == [f EXCEPT !.pc = pc] IN
         /\ g \in FrameRec /\ g.run = f.run /\ g.pc = pc /\ g.ip = f.ip /\ g.todo = f.todo
         /\ g.flag = f.flag /\ g.tgt = f.tgt /\ g.launch = f.launch
BY DEF FrameRec

LEMMA WaitVisitGoes ==
  ASSUME QueueInv, NEW th \in Thread, script' = script, WaitVisit(th)
  PROVE  \/ Goes(th, Visited(Top(th), FALSE)) /\ status[Head(Top(th).todo)] = "READY"
         \/ Goes(th, Visited(Top(th), TRUE))
         \/ Goes(th, [Top(th) EXCEPT !.pc = "try"])
<1>. DEFINE f == Top(th)
<1>1. /\ At(th, "visit") /\ f.todo # <<>> /\ Calm
      /\ \/ Goto(th, Visited(f, FALSE)) /\ status[Head(f.todo)] = "READY"
         \/ Goto(th, Visited(f, TRUE))
         \/ Goto(th, [f EXCEPT !.pc = "try"])
  BY DEF WaitVisit, futureVars, Calm
<1>2. f \in FrameRec
  BY <1>1, AtFrame
<1>3. "visit" \in Helping /\ "try" \in Helping /\ "try" \in Pc
  BY DEF Helping, Pc
<1>4. ASSUME NEW b \in BOOLEAN, Goto(th, Visited(f, b)) PROVE Goes(th, Visited(f, b))
  <2>1. /\ Visited(f, b) \in FrameRec /\ Visited(f, b).run = f.run /\ Visited(f, b).launch = f.launch
        /\ Visited(f, b).ip = f.ip /\ Visited(f, b).pc = "visit"
    BY <1>1, <1>2, VisitedFrame
  <2>. QED BY <1>1, <1>3, <1>4, <2>1, HelpGoes
<1>5. ASSUME Goto(th, [f EXCEPT !.pc = "try"]) PROVE Goes(th, [f EXCEPT !.pc = "try"])
  <2>. DEFINE g == [f EXCEPT !.pc = "try"]
  <2>1. g \in FrameRec /\ g.run = f.run /\ g.launch = f.launch /\ g.ip = f.ip /\ g.pc = "try" /\ g.todo = f.todo
    BY <1>2, <1>3, MovedFrame
  <2>. HIDE DEF g
  <2>2. Goes(th, g)
    BY <1>1, <1>3, <1>5, <2>1, HelpGoes DEF g
  <2>. QED BY <2>2 DEF g
<1>. QED BY <1>1, <1>4, <1>5

LEMMA WaitVisitKeeps ==
  ASSUME QueueInv, NEW th \in Thread, script' = script, WaitVisit(th)
  PROVE  QueueInv'
<1>1. \E g : Goes(th, g)
  BY WaitVisitGoes
<1>2. DequeKept /\ UNCHANGED <<futureVars, threadVars, controlVars, lockVars, runs, worker>>
  BY DEF WaitVisit, DequeKept, queueVars
<1>3. VarsOK'
  BY <1>2 DEF QueueInv, QueueTypeOK, VarsOK, DequeKept, futureVars, threadVars, controlVars, lockVars
<1>. QED BY <1>1, <1>2, <1>3, GoesKeeps

LEMMA WaitLockKeeps ==
  ASSUME QueueInv, NEW th \in Thread, script' = script, WaitLock(th)
  PROVE  /\ QueueInv' /\ DequeKept
         /\ Goes(th, Visited(Top(th), TRUE)) \/ Goes(th, [Top(th) EXCEPT !.pc = "take"])
<1>. DEFINE f == Top(th)
<1>0. invoker_queue' = pop_front_nullptr(invoker_queue) /\ At(th, "try")
  BY DEF WaitLock
<1>1. /\ Sound(invoker_queue, invoker_index) /\ invoker_queue \in Seq(Queued)
  BY DEF QueueInv, DequeInv, Sound, Queued
<1>2. invoker_queue' = invoker_queue
  BY <1>0, <1>1, PopNulls DEF Sound
<1>3. /\ Calm /\ DequeKept /\ UNCHANGED <<futureVars, threadVars, controlVars, future_lock, runs, worker>>
      /\ \/ Goto(th, Visited(f, TRUE)) /\ queue_lock' = queue_lock /\ invoker_queue = <<>>
         \/ Goto(th, [f EXCEPT !.pc = "take"]) /\ queue_lock' = th
  BY <1>0, <1>2 DEF WaitLock, futureVars, Calm, DequeKept
<1>4. f \in FrameRec /\ FrameGood(f) /\ f.pc = "try"
  BY <1>0, AtFrame
<1>5. "try" \in Helping /\ "visit" \in Helping /\ "take" \in Helping /\ "take" \in Pc
  BY DEF Helping, Pc
<1>6. f.todo # <<>>
  BY <1>4, <1>5 DEF FrameGood, Helps
<1>7. ASSUME Goto(th, Visited(f, TRUE)) PROVE Goes(th, Visited(f, TRUE))
  <2>1. /\ Visited(f, TRUE) \in FrameRec /\ Visited(f, TRUE).run = f.run /\ Visited(f, TRUE).launch = f.launch
        /\ Visited(f, TRUE).ip = f.ip /\ Visited(f, TRUE).pc = "visit"
    BY <1>6, <1>4, VisitedFrame
  <2>. QED BY <1>0, <1>3, <1>5, <1>7, <2>1, HelpGoes
<1>8. ASSUME Goto(th, [f EXCEPT !.pc = "take"]) PROVE Goes(th, [f EXCEPT !.pc = "take"])
  <2>. DEFINE g == [f EXCEPT !.pc = "take"]
  <2>1. g \in FrameRec /\ g.run = f.run /\ g.launch = f.launch /\ g.ip = f.ip /\ g.pc = "take" /\ g.todo = f.todo
    BY <1>4, <1>5, MovedFrame
  <2>. HIDE DEF g
  <2>2. Goes(th, g)
    BY <1>0, <1>3, <1>5, <1>6, <1>8, <2>1, HelpGoes DEF g
  <2>. QED BY <2>2 DEF g
<1>9. VarsOK'
  BY <1>3 DEF QueueInv, QueueTypeOK, VarsOK, Calm, DequeKept, futureVars, threadVars, controlVars
<1>10. QueueInv'
  BY <1>3, <1>7, <1>8, <1>9, GoesKeeps
<1>. QED BY <1>3, <1>7, <1>8, <1>10

(***************************************************************************)
(* Registration                                                            *)
(***************************************************************************)
LEMMA RegisterFrame ==
  ASSUME NEW f \in FrameRec, f.todo # <<>>
  PROVE  LET g == [f EXCEPT !.pc = "register", !.todo = Tail(@)] IN
         /\ g \in FrameRec /\ g.run = f.run /\ g.pc = "register" /\ g.ip = f.ip /\ g.todo = Tail(f.todo)
         /\ g.flag = f.flag /\ g.tgt = f.tgt /\ g.launch = f.launch
<1>1. /\ Tail(f.todo) \in Seq(Invoker) /\ "register" \in Pc
  BY DEF FrameRec, Pc, Claiming, Registering
<1>. QED BY <1>1 DEF FrameRec

LEMMA TailFrame ==
  ASSUME NEW f \in FrameRec, f.todo # <<>>
  PROVE  LET g == [f EXCEPT !.todo = Tail(@)] IN
         /\ g \in FrameRec /\ g.run = f.run /\ g.pc = f.pc /\ g.ip = f.ip /\ g.todo = Tail(f.todo)
         /\ g.flag = f.flag /\ g.tgt = f.tgt /\ g.launch = f.launch
<1>1. Tail(f.todo) \in Seq(Invoker)
  BY DEF FrameRec
<1>. QED BY <1>1 DEF FrameRec

\* A step of a registration, and the frame after it.
RegisterMove(th, g) ==
  LET f == Top(th) p == Head(Top(th).todo) IN
  /\ Goto(th, g) /\ g \in FrameRec /\ g.run = f.run /\ g.launch = f.launch /\ g.tgt = f.tgt /\ g.ip = f.ip
  /\ \/ /\ At(th, "register") /\ f.todo # <<>> /\ status[p] = "READY" /\ g.pc = "register" /\ g.todo = Tail(f.todo)
        /\ UNCHANGED <<remaining, dependents>>
     \/ /\ At(th, "register") /\ f.todo # <<>> /\ g.pc = "append" /\ g.todo = f.todo
        /\ UNCHANGED <<remaining, dependents>>
     \/ /\ At(th, "append") /\ f.todo # <<>> /\ status[p] = "READY" /\ g.pc = "register" /\ g.todo = Tail(f.todo)
        /\ UNCHANGED <<remaining, dependents>>
     \/ /\ At(th, "append") /\ f.todo # <<>> /\ status[p] # "READY" /\ g.pc = "count" /\ g.todo = f.todo
        /\ future_lock[p] = NULL
        /\ dependents' = [dependents EXCEPT ![p] = Append(@, f.tgt)] /\ UNCHANGED remaining
     \/ /\ At(th, "count") /\ f.todo # <<>> /\ g.pc = "register" /\ g.todo = Tail(f.todo)
        /\ remaining' = [remaining EXCEPT ![f.tgt] = @ + 1] /\ UNCHANGED dependents
     \/ /\ At(th, "controls") /\ g.pc = "register" /\ g.todo = f.todo
        /\ UNCHANGED <<remaining, dependents>>
RegisterStep(th) == Register(th) \/ RegisterAppend(th) \/ RegisterCount(th) \/ ControlDepends(th)

LEMMA RegisterMoves ==
  ASSUME QueueInv, NEW th \in Thread, RegisterStep(th)
  PROVE  \E g : RegisterMove(th, g)
<1>. DEFINE f == Top(th)
<1>1. \A w : At(th, w) => f \in FrameRec /\ FrameGood(f) /\ f.pc = w
  BY AtFrame
<1>2. \A w \in {"append", "count"} : At(th, w) => f.todo # <<>>
  BY <1>1 DEF FrameGood, Claims, Claiming, Registering
<1>3. {"register", "append", "count"} \subseteq Pc
  BY DEF Pc, Claiming, Registering
<1>4. CASE Register(th)
  <2>1. /\ At(th, "register") /\ f.todo # <<>> /\ UNCHANGED <<remaining, dependents>> /\ f \in FrameRec /\ f.pc = "register"
        /\ \/ status[Head(f.todo)] = "READY" /\ Goto(th, [f EXCEPT !.todo = Tail(@)])
           \/ Goto(th, [f EXCEPT !.pc = "append"])
    BY <1>1, <1>4 DEF Register, futureVars
  <2>2. CASE status[Head(f.todo)] = "READY" /\ Goto(th, [f EXCEPT !.todo = Tail(@)])
    <3>1. PICK g : g = [f EXCEPT !.todo = Tail(@)]
      OBVIOUS
    <3>2. /\ g \in FrameRec /\ g.run = f.run /\ g.pc = "register" /\ g.ip = f.ip /\ g.todo = Tail(f.todo)
          /\ g.flag = f.flag /\ g.tgt = f.tgt /\ g.launch = f.launch
      BY <2>1, <3>1, TailFrame
    <3>3. RegisterMove(th, g)
      BY <2>1, <2>2, <3>1, <3>2 DEF RegisterMove
    <3>. QED BY <3>3
  <2>3. CASE Goto(th, [f EXCEPT !.pc = "append"])
    <3>1. PICK g : g = [f EXCEPT !.pc = "append"]
      OBVIOUS
    <3>2. /\ g \in FrameRec /\ g.run = f.run /\ g.pc = "append" /\ g.ip = f.ip /\ g.todo = f.todo
          /\ g.flag = f.flag /\ g.tgt = f.tgt /\ g.launch = f.launch
      BY <1>3, <2>1, <3>1, MovedFrame
    <3>3. RegisterMove(th, g)
      BY <2>1, <2>3, <3>1, <3>2 DEF RegisterMove
    <3>. QED BY <3>3
  <2>. QED BY <2>1, <2>2, <2>3
<1>5. CASE RegisterAppend(th)
  <2>1. /\ At(th, "append") /\ f.todo # <<>> /\ UNCHANGED remaining /\ f \in FrameRec /\ f.pc = "append"
        /\ future_lock[Head(f.todo)] = NULL
        /\ \/ /\ status[Head(f.todo)] = "READY" /\ Goto(th, [f EXCEPT !.pc = "register", !.todo = Tail(@)])
              /\ UNCHANGED dependents
           \/ /\ status[Head(f.todo)] # "READY" /\ Goto(th, [f EXCEPT !.pc = "count"])
              /\ dependents' = [dependents EXCEPT ![Head(f.todo)] = Append(@, f.tgt)]
    BY <1>1, <1>2, <1>5 DEF RegisterAppend
  <2>2. CASE status[Head(f.todo)] = "READY"
    <3>1. PICK g : g = [f EXCEPT !.pc = "register", !.todo = Tail(@)]
      OBVIOUS
    <3>2. /\ g \in FrameRec /\ g.run = f.run /\ g.pc = "register" /\ g.ip = f.ip /\ g.todo = Tail(f.todo)
          /\ g.flag = f.flag /\ g.tgt = f.tgt /\ g.launch = f.launch
      BY <2>1, <3>1, RegisterFrame
    <3>3. RegisterMove(th, g)
      BY <2>1, <2>2, <3>1, <3>2 DEF RegisterMove
    <3>. QED BY <3>3
  <2>3. CASE status[Head(f.todo)] # "READY"
    <3>1. PICK g : g = [f EXCEPT !.pc = "count"]
      OBVIOUS
    <3>2. /\ g \in FrameRec /\ g.run = f.run /\ g.pc = "count" /\ g.ip = f.ip /\ g.todo = f.todo
          /\ g.flag = f.flag /\ g.tgt = f.tgt /\ g.launch = f.launch
      BY <1>3, <2>1, <3>1, MovedFrame
    <3>3. RegisterMove(th, g)
      BY <2>1, <2>3, <3>1, <3>2 DEF RegisterMove
    <3>. QED BY <3>3
  <2>. QED BY <2>2, <2>3
<1>6. CASE RegisterCount(th)
  <2>1. /\ At(th, "count") /\ f.todo # <<>> /\ f \in FrameRec /\ f.pc = "count" /\ UNCHANGED dependents
        /\ remaining' = [remaining EXCEPT ![f.tgt] = @ + 1] /\ Goto(th, [f EXCEPT !.pc = "register", !.todo = Tail(@)])
    BY <1>1, <1>2, <1>6 DEF RegisterCount
  <2>2. PICK g : g = [f EXCEPT !.pc = "register", !.todo = Tail(@)]
    OBVIOUS
  <2>3. /\ g \in FrameRec /\ g.run = f.run /\ g.pc = "register" /\ g.ip = f.ip /\ g.todo = Tail(f.todo)
        /\ g.flag = f.flag /\ g.tgt = f.tgt /\ g.launch = f.launch
    BY <2>1, <2>2, RegisterFrame
  <2>4. RegisterMove(th, g)
    BY <2>1, <2>2, <2>3 DEF RegisterMove
  <2>. QED BY <2>4
<1>7. CASE ControlDepends(th)
  <2>1. At(th, "controls") /\ f \in FrameRec /\ UNCHANGED <<remaining, dependents>> /\ Goto(th, [f EXCEPT !.pc = "register"])
    BY <1>1, <1>7 DEF ControlDepends, futureVars
  <2>2. PICK g : g = [f EXCEPT !.pc = "register"]
    OBVIOUS
  <2>3. /\ g \in FrameRec /\ g.run = f.run /\ g.pc = "register" /\ g.ip = f.ip /\ g.todo = f.todo
        /\ g.flag = f.flag /\ g.tgt = f.tgt /\ g.launch = f.launch
    BY <1>3, <2>1, <2>2, MovedFrame
  <2>4. RegisterMove(th, g)
    BY <2>1, <2>2, <2>3 DEF RegisterMove
  <2>. QED BY <2>4
<1>. QED BY <1>4, <1>5, <1>6, <1>7 DEF RegisterStep

LEMMA RegisterKeeps ==
  ASSUME QueueInv, NEW th \in Thread, script' = script, RegisterStep(th)
  PROVE  QueueInv' /\ DequeKept /\ \E g : RegisterMove(th, g) /\ Goes(th, g)
<1>. DEFINE f == Top(th)
<1>1. PICK g : RegisterMove(th, g)
  BY RegisterMoves
<1>2. PICK where : where \in Registering \cup {"controls"} /\ At(th, where)
  BY <1>1 DEF RegisterMove, Registering
<1>3. f \in FrameRec /\ FrameGood(f) /\ f.pc = where /\ f.tgt \in Invoker /\ f.todo \in Seq(Invoker)
  BY <1>2, AtFrame DEF FrameGood, Claims, Claiming, FrameRec
<1>4. /\ UNCHANGED <<script, status, kind, bound, runs>> /\ DequeKept
      /\ UNCHANGED <<threadVars, controlVars, lockVars, worker>>
  BY DEF RegisterStep, Register, RegisterAppend, RegisterCount, ControlDepends, DequeKept, queueVars, futureVars
<1>5. remaining \in [Invoker -> Int] /\ dependents \in [Invoker -> Seq(Invoker)]
  BY DEF QueueInv, QueueTypeOK, VarsOK
<1>6. /\ Goto(th, g) /\ g \in FrameRec /\ g.run = f.run /\ g.launch = f.launch /\ g.tgt = f.tgt
      /\ g.pc \in Registering /\ (g.pc # "register" => g.todo # <<>>)
      /\ remaining' = remaining \/ remaining' = [remaining EXCEPT ![f.tgt] = @ + 1]
      /\ \/ dependents' = dependents
         \/ f.todo # <<>> /\ dependents' = [dependents EXCEPT ![Head(f.todo)] = Append(@, f.tgt)]
  BY <1>1 DEF RegisterMove, Registering
<1>. HIDE DEF f
<1>7. remaining' \in [Invoker -> Int] /\ \A t \in Invoker : t # f.tgt => remaining'[t] = remaining[t]
  BY <1>3, <1>5, <1>6
<1>8. dependents' \in [Invoker -> Seq(Invoker)]
  <2>1. CASE f.todo # <<>> /\ dependents' = [dependents EXCEPT ![Head(f.todo)] = Append(@, f.tgt)]
    <3>1. Head(f.todo) \in Invoker
      BY <1>3, <2>1
    <3>2. Append(dependents[Head(f.todo)], f.tgt) \in Seq(Invoker)
      BY <1>3, <1>5, <3>1, AppendProperties
    <3>. QED BY <1>5, <2>1, <3>1, <3>2
  <2>. QED BY <1>5, <1>6, <2>1
<1>9. Goes(th, g)
  BY <1>2, <1>4, <1>6, <1>7, RegisterGoes DEF f
<1>10. VarsOK'
  BY <1>4, <1>7, <1>8 DEF QueueInv, QueueTypeOK, VarsOK, DequeKept, threadVars, controlVars, lockVars
<1>11. QueueInv'
  BY <1>4, <1>9, <1>10, GoesKeeps
<1>. QED BY <1>1, <1>4, <1>9, <1>11

(***************************************************************************)
(* The control function, the destructor and the workers                    *)
(***************************************************************************)
PlainStep(th) == \/ InvokeNonVoid(th) \/ ControlSkip(th) \/ Grow(th) \/ GrowDone(th) \/ Shrink(th) \/ ShrinkSet(th)
                 \/ ShrinkNotify(th) \/ ShrinkJoin(th) \/ Destroy(th) \/ DestroyNotify(th) \/ DestroySync(th)
\* Where such a step goes from and to.
PlainPcs == {<<"start", "body">>, <<"control", "finish">>, <<"control", "spawn">>, <<"spawn", "finish">>,
             <<"control", "shrink">>, <<"shrink", "dismiss">>, <<"dismiss", "join">>, <<"join", "finish">>,
             <<"body", "destroy">>, <<"destroy", "sync">>}
PlainMove(th, g) == /\ Goto(th, g) /\ Goes(th, g) /\ g \in FrameRec /\ g.run = Top(th).run
                    /\ \/ At(th, "sync") /\ g = NextCall(Top(th))
                       \/ \E p \in PlainPcs : At(th, p[1]) /\ g = [Top(th) EXCEPT !.pc = p[2]]

LEMMA PlainMoves ==
  ASSUME QueueInv, NEW th \in Thread, script' = script, PlainStep(th)
  PROVE  \E g : PlainMove(th, g)
<1>. DEFINE f == Top(th)
<1>1. DequeKept /\ Calm
  BY DEF PlainStep, InvokeNonVoid, ControlSkip, Grow, GrowDone, Shrink, ShrinkSet, ShrinkNotify, ShrinkJoin,
         Destroy, DestroyNotify, DestroySync, DequeKept, Calm, queueVars, futureVars
<1>2. CASE DestroySync(th)
  <2>1. At(th, "sync") /\ Goto(th, NextCall(f))
    BY <1>2 DEF DestroySync
  <2>2. f \in FrameRec
    BY <2>1, AtFrame
  <2>3. PICK g : g = NextCall(f)
    OBVIOUS
  <2>4. g \in FrameRec /\ g.run = f.run /\ g.launch = f.launch /\ g.pc = "body"
    BY <2>2, <2>3, NextCallFrame
  <2>5. "sync" \notin Ending /\ "body" \notin Ending \cup Claiming \cup Helping \cup Invoking
    BY DEF Ending, Claiming, Helping, Invoking, Resizes, Registering
  <2>6. Goes(th, g)
    BY <1>1, <2>1, <2>3, <2>4, <2>5, PlainGoes
  <2>. QED BY <2>1, <2>3, <2>4, <2>6 DEF PlainMove
<1>3. CASE ~DestroySync(th)
  <2>1. \E a, b : <<a, b>> \in PlainPcs /\ At(th, a) /\ Goto(th, [f EXCEPT !.pc = b])
    BY <1>3 DEF PlainStep, PlainPcs, InvokeNonVoid, ControlSkip, Grow, GrowDone, Shrink, ShrinkSet, ShrinkNotify,
                ShrinkJoin, Destroy, DestroyNotify, AtCall
  <2>2. PICK a, b : <<a, b>> \in PlainPcs /\ At(th, a) /\ Goto(th, [f EXCEPT !.pc = b])
    BY <2>1
  <2>3. /\ a \notin Ending /\ b \in Pc /\ b \notin Ending \cup Claiming \cup Helping
        /\ b \in Invoking => a \in Invoking
    BY <2>2 DEF PlainPcs, Pc, Ending, Claiming, Helping, Invoking, Resizes, Registering
  <2>4. f \in FrameRec
    BY <2>2, AtFrame
  <2>5. PICK g : g = [f EXCEPT !.pc = b]
    OBVIOUS
  <2>6. g \in FrameRec /\ g.run = f.run /\ g.launch = f.launch /\ g.pc = b
    BY <2>3, <2>4, <2>5, MovedFrame
  <2>7. Goes(th, g)
    BY <1>1, <2>2, <2>3, <2>5, <2>6, PlainGoes
  <2>8. \E p \in PlainPcs : At(th, p[1]) /\ g = [f EXCEPT !.pc = p[2]]
    <3>1. <<a, b>>[1] = a /\ <<a, b>>[2] = b
      OBVIOUS
    <3>. QED BY <2>2, <2>5, <3>1
  <2>. QED BY <2>2, <2>5, <2>6, <2>7, <2>8 DEF PlainMove
<1>. QED BY <1>2, <1>3

LEMMA PlainKeeps ==
  ASSUME QueueInv, NEW th \in Thread, script' = script, PlainStep(th),
         At(th, "join") => number_of_threads <= Len(threads)
  PROVE  QueueInv'
<1>. DEFINE f == Top(th)
           n == bound[f.run].n
<1>1. PICK g : PlainMove(th, g)
  BY PlainMoves
<1>2. DequeKept /\ UNCHANGED <<kind, bound, remaining, dependents, runs, control_futures, queue_lock>>
  BY DEF PlainStep, InvokeNonVoid, ControlSkip, Grow, GrowDone, Shrink, ShrinkSet, ShrinkNotify, ShrinkJoin,
         Destroy, DestroyNotify, DestroySync, DequeKept, queueVars, futureVars, controlVars, lockVars
<1>3. VarsOK
  BY DEF QueueInv, QueueTypeOK
<1>4. ASSUME NEW w, At(th, w), w \in {"control", "spawn", "shrink", "dismiss", "join", "start"} PROVE n \in Nat /\ f.run \in Invoker
  <2>1. f.run \in Invoker
    BY <1>4, AtFrame DEF FrameGood, Running, Invoking, Resizes
  <2>. HIDE DEF f
  <2>2. bound[f.run] \in Call
    BY <1>3, <2>1 DEF VarsOK
  <2>. QED BY <2>1, <2>2 DEF Call
<1>5. worker' \in [Worker -> WorkerAt]
  <2>1. worker' = worker \/ notify_all
    BY DEF PlainStep, InvokeNonVoid, ControlSkip, Grow, GrowDone, Shrink, ShrinkSet, ShrinkNotify, ShrinkJoin,
           Destroy, DestroyNotify, DestroySync
  <2>. QED BY <1>3, <2>1, Wakes DEF VarsOK, WorkerAt
<1>6. future_lock' \in [Invoker -> Thread \cup {NULL}]
  <2>1. \/ future_lock' = future_lock
        \/ future_lock' = [future_lock EXCEPT ![f.run] = th]
    BY DEF PlainStep, InvokeNonVoid, ControlSkip, Grow, GrowDone, Shrink, ShrinkSet, ShrinkNotify, ShrinkJoin,
           Destroy, DestroyNotify, DestroySync, lockVars
  <2>. HIDE DEF f
  <2>. QED BY <1>3, <2>1 DEF VarsOK
<1>7. destroy_lock' \in Thread \cup {NULL} /\ destroying' \in BOOLEAN
  BY <1>3 DEF PlainStep, InvokeNonVoid, ControlSkip, Grow, GrowDone, Shrink, ShrinkSet, ShrinkNotify, ShrinkJoin,
              Destroy, DestroyNotify, DestroySync, controlVars, VarsOK
<1>8. number_of_threads' \in Nat
  <2>1. CASE Grow(th) \/ ShrinkSet(th)
    BY <1>4, <2>1 DEF Grow, ShrinkSet
  <2>2. CASE number_of_threads' = number_of_threads
    BY <1>3, <2>2 DEF VarsOK
  <2>. QED BY <2>1, <2>2 DEF PlainStep, InvokeNonVoid, ControlSkip, GrowDone, Shrink, ShrinkNotify, ShrinkJoin,
                             Destroy, DestroyNotify, DestroySync, threadVars
<1>9. threads' \in Seq(Worker) /\ thread_index' \in [Worker -> Nat]
  <2>0. threads \in Seq(Worker) /\ thread_index \in [Worker -> Nat] /\ number_of_threads \in Nat
    BY <1>3 DEF VarsOK
  <2>1. CASE Shrink(th)
    <3>1. /\ Len(threads) > n /\ n \in Nat
          /\ \/ /\ th \in Worker /\ threads' = [threads EXCEPT ![1] = th, ![thread_index[th] + 1] = threads[1]]
                /\ thread_index' = [thread_index EXCEPT ![threads[1]] = thread_index[th], ![th] = 0]
             \/ UNCHANGED <<threads, thread_index>>
      BY <1>4, <2>1 DEF Shrink, MustSwap, swapped_index
    <3>2. threads[1] \in Worker
      <4>1. 1 \in DOMAIN threads
        BY <2>0, <3>1
      <4>. QED BY <2>0, <4>1
    <3>3. CASE /\ th \in Worker /\ threads' = [threads EXCEPT ![1] = th, ![thread_index[th] + 1] = threads[1]]
               /\ thread_index' = [thread_index EXCEPT ![threads[1]] = thread_index[th], ![th] = 0]
      <4>1. thread_index' \in [Worker -> Nat]
        BY <2>0, <3>2, <3>3
      <4>2. PICK k, w : k = thread_index[th] + 1 /\ w = threads[1] /\ w \in Worker /\ th \in Worker
        BY <3>2, <3>3
      <4>3. threads' = [threads EXCEPT ![1] = th, ![k] = w]
        BY <3>3, <4>2
      <4>4. threads \in [1 .. Len(threads) -> Worker] /\ Len(threads) \in Nat
        BY <2>0, LenProperties
      <4>5. threads' \in [1 .. Len(threads) -> Worker]
        BY <4>2, <4>3, <4>4
      <4>6. threads' \in Seq(Worker)
        BY <4>4, <4>5, SeqDef
      <4>. QED BY <4>1, <4>6
    <3>. QED BY <2>0, <3>1, <3>3
  <2>2. CASE ShrinkJoin(th)
    <3>1. /\ threads' = SubSeq(threads, 1, number_of_threads) /\ thread_index' = thread_index
          /\ number_of_threads <= Len(threads)
      BY <2>2 DEF ShrinkJoin
    <3>. QED BY <2>0, <3>1, SubSeqProperties
  <2>3. CASE UNCHANGED <<threads, thread_index>>
    BY <2>0, <2>3
  <2>. QED BY <2>1, <2>2, <2>3 DEF PlainStep, InvokeNonVoid, ControlSkip, Grow, GrowDone, ShrinkSet, ShrinkNotify,
                             Destroy, DestroyNotify, DestroySync, threadVars
<1>10. VarsOK'
  BY <1>2, <1>3, <1>5, <1>6, <1>7, <1>8, <1>9 DEF VarsOK, DequeKept, WorkerAt
<1>. QED BY <1>1, <1>2, <1>10, GoesKeeps DEF PlainMove

\* The steps that leave every stack alone.
LEMMA StillKeeps ==
  ASSUME QueueInv, NEW th \in Thread, script' = script,
         GrowSpawn(th) \/ (th \in Worker /\ (WorkerHold(th) \/ WorkerExit(th)))
  PROVE  QueueInv' /\ DequeKept
<1>1. VarsOK /\ stack \in [Thread -> Seq(FrameRec)] /\ CallsInv /\ Sound(invoker_queue, invoker_index)
  BY DEF QueueInv, QueueTypeOK, DequeInv
<1>2. pop_front_nullptr(invoker_queue) = invoker_queue
  BY <1>1, PopNulls DEF Sound, Queued
<1>3. /\ DequeKept /\ UNCHANGED <<futureVars, controlVars, lockVars, number_of_threads, runs, stack>>
      /\ \/ \E w \in Worker : /\ worker' = [worker EXCEPT ![w] = "pop"] /\ threads' = Append(threads, w)
                              /\ thread_index' = [thread_index EXCEPT ![w] = Len(threads)]
         \/ /\ UNCHANGED <<threads, thread_index>>
            /\ \E v \in {"wait", "exited"} : worker' = [worker EXCEPT ![th] = v]
  <2>1. CASE GrowSpawn(th)
    <3>1. PICK w : w = CHOOSE v \in Worker : worker[v] = "none"
      OBVIOUS
    <3>2. w \in Worker
      BY <2>1, <3>1 DEF GrowSpawn
    <3>. QED BY <2>1, <3>1, <3>2 DEF GrowSpawn, DequeKept, queueVars, next_index
  <2>2. CASE th \in Worker /\ WorkerHold(th)
    BY <2>2 DEF WorkerHold, DequeKept, queueVars, threadVars
  <2>3. CASE th \in Worker /\ WorkerExit(th)
    BY <1>2, <2>3 DEF WorkerExit, DequeKept, threadVars
  <2>. QED BY <2>1, <2>2, <2>3
<1>4. worker' \in [Worker -> WorkerAt] /\ threads' \in Seq(Worker) /\ thread_index' \in [Worker -> Nat]
  <2>1. worker \in [Worker -> WorkerAt] /\ threads \in Seq(Worker) /\ thread_index \in [Worker -> Nat]
    BY <1>1 DEF VarsOK, WorkerAt
  <2>2. CASE \E w \in Worker : /\ worker' = [worker EXCEPT ![w] = "pop"] /\ threads' = Append(threads, w)
                               /\ thread_index' = [thread_index EXCEPT ![w] = Len(threads)]
    <3>1. PICK w \in Worker : /\ worker' = [worker EXCEPT ![w] = "pop"] /\ threads' = Append(threads, w)
                              /\ thread_index' = [thread_index EXCEPT ![w] = Len(threads)]
      BY <2>2
    <3>2. threads' \in Seq(Worker) /\ Len(threads) \in Nat
      BY <2>1, <3>1, AppendProperties, LenProperties
    <3>. QED BY <2>1, <3>1, <3>2 DEF WorkerAt
  <2>3. CASE /\ UNCHANGED <<threads, thread_index>>
             /\ \E v \in {"wait", "exited"} : worker' = [worker EXCEPT ![th] = v]
    BY <2>1, <2>3 DEF WorkerAt
  <2>. QED BY <1>3, <2>2, <2>3
<1>5. VarsOK'
  BY <1>1, <1>3, <1>4 DEF VarsOK, DequeKept, futureVars, controlVars, lockVars, WorkerAt
<1>6. CallsInv'
  <2>1. UNCHANGED <<stack, script, status, kind, bound, runs, remaining>>
    BY <1>3 DEF futureVars, DequeKept
  <2>2. OneFrame' /\ AllApart' /\ Frames' = Frames
    BY <1>1, <2>1 DEF CallsInv, OneFrame, AllApart, Frames, Apart
  <2>3. FrameInv'
    BY <1>1, <2>1, <2>2 DEF CallsInv, FrameInv, FrameGood, Running, Claims, Helps, Launches, CallOf, Calls
  <2>4. Handles' /\ Statuses'
    BY <1>1, <2>1, <2>2 DEF CallsInv, Handles, Handled, Pending, Statuses, StatusGood
  <2>. QED BY <2>2, <2>3, <2>4 DEF CallsInv
<1>. QED BY <1>1, <1>3, <1>5, <1>6, KeepsDeque

(***************************************************************************)
(* signal_dependent_shared_futures                                         *)
(***************************************************************************)
LEMMA SignalKeeps ==
  ASSUME QueueInv, NEW th \in Thread, script' = script, Signal(th)
  PROVE  QueueInv' /\ DequeKept /\ \E g : /\ Goes(th, g) /\ g.pc = "dependent" /\ g.todo = dependents[Top(th).run]
                                          /\ g.tgt = Top(th).tgt /\ g.ip = Top(th).ip
<1>. DEFINE f == Top(th)
<1>1. PICK g : g = [f EXCEPT !.pc = "dependent", !.todo = dependents[f.run]]
  OBVIOUS
<1>2. /\ At(th, "signal") /\ Goto(th, g) /\ Calm /\ DequeKept
      /\ future_lock' = [future_lock EXCEPT ![f.run] = th]
      /\ UNCHANGED <<futureVars, threadVars, controlVars, queue_lock, worker>>
  BY <1>1 DEF Signal, Calm, DequeKept, queueVars, futureVars
<1>3. f \in FrameRec /\ FrameGood(f) /\ f.pc = "signal" /\ f.launch = <<>> /\ stack[th] # <<>> /\ remaining \in [Invoker -> Int]
  BY <1>2, AtFrame DEF Launching
<1>4. f.run \in Invoker /\ status[f.run] = "READY"
  BY <1>3 DEF FrameGood, Running, Invoking, Ending
<1>. HIDE DEF f
<1>5. dependents[f.run] \in Seq(Invoker) /\ VarsOK
  BY <1>4 DEF QueueInv, QueueTypeOK, VarsOK
<1>6. g \in FrameRec /\ g.run = f.run /\ g.launch = <<>> /\ g.pc = "dependent" /\ g.todo = dependents[f.run] /\ g.tgt = f.tgt /\ g.ip = f.ip
  BY <1>1, <1>3, <1>5 DEF FrameRec, Pc, Invoking, Ending
<1>7. "dependent" \in Ending /\ "dependent" \notin Claiming \cup Helping
  BY DEF Ending, Claiming, Registering, Helping
<1>8. FrameGood(g)
  BY <1>4, <1>6, <1>7 DEF FrameGood, Running, Claims, Helps, Launches, Launching
<1>10. Goes(th, g)
  <2>1. \A t \in Invoker : remaining[t] <= remaining[t]
    BY <1>3
  <2>. QED BY <1>2, <1>3, <1>6, <1>7, <1>8, <2>1 DEF Goes, Quiet, Calm, f
<1>11. VarsOK'
  BY <1>2, <1>5 DEF VarsOK, Calm, DequeKept, futureVars, threadVars, controlVars
<1>12. QueueInv'
  BY <1>2, <1>10, <1>11, GoesKeeps
<1>. QED BY <1>2, <1>6, <1>10, <1>12 DEF f

\* A frame ends: nothing else happens to the deque, the futures and the frames.
Ends(th) == stack[th] # <<>> /\ Return(th) /\ Calm

LEMMA EndsKeeps ==
  ASSUME QueueInv, DequeKept, VarsOK', NEW th \in Thread, Ends(th)
  PROVE  QueueInv' /\ Frames' = Frames \ {Top(th)}
<1>1. stack' \in [Thread -> Seq(FrameRec)] /\ CallsInv' /\ Frames' = Frames \ {Top(th)}
  BY QuietReturn DEF QueueInv, Ends, Calm
<1>. QED BY <1>1, KeepsDeque

LEMMA SignalDoneKeeps ==
  ASSUME QueueInv, NEW th \in Thread, script' = script, SignalDone(th)
  PROVE  /\ QueueInv' /\ DequeKept
         /\ \/ Ends(th)
            \/ \E g : Goes(th, g) /\ g.pc = "launch" /\ g.todo = <<>> /\ g.tgt = Top(th).tgt /\ g.ip = Top(th).ip
<1>. DEFINE f == Top(th)
<1>2. /\ At(th, "dependent") /\ Calm /\ DequeKept /\ f.todo = <<>>
      /\ future_lock' = [future_lock EXCEPT ![f.run] = NULL]
      /\ UNCHANGED <<futureVars, threadVars, controlVars, queue_lock, worker>>
      /\ IF f.launch = <<>> THEN Return(th) ELSE Goto(th, [f EXCEPT !.pc = "launch"])
  BY DEF SignalDone, Calm, DequeKept, queueVars, futureVars
<1>3. f \in FrameRec /\ FrameGood(f) /\ f.pc = "dependent" /\ stack[th] # <<>> /\ remaining \in [Invoker -> Int]
  BY <1>2, AtFrame
<1>4. VarsOK'
  BY <1>2 DEF QueueInv, QueueTypeOK, VarsOK, Calm, DequeKept, futureVars, threadVars, controlVars
<1>5. CASE f.launch = <<>>
  <2>1. Ends(th)
    BY <1>2, <1>3, <1>5 DEF Ends
  <2>. QED BY <1>2, <1>4, <2>1, EndsKeeps
<1>6. CASE f.launch # <<>>
  <2>1. PICK g : g = [f EXCEPT !.pc = "launch"]
    OBVIOUS
  <2>2. "launch" \in Pc /\ "launch" \in Ending /\ "launch" \notin Claiming \cup Helping /\ "dependent" \in Ending
    BY DEF Pc, Invoking, Ending, Claiming, Registering, Helping
  <2>3. /\ g \in FrameRec /\ g.run = f.run /\ g.launch = f.launch /\ g.pc = "launch" /\ g.todo = <<>> /\ g.tgt = f.tgt
        /\ g.ip = f.ip
    BY <1>2, <1>3, <2>1, <2>2, MovedFrame
  <2>4. FrameGood(g)
    BY <1>3, <1>6, <2>2, <2>3 DEF FrameGood, Running, Claims, Helps, Launches, Launching, Invoking
  <2>5. Goes(th, g)
    <3>1. \A t \in Invoker : remaining[t] <= remaining[t]
      BY <1>3
    <3>2. Goto(th, g)
      BY <1>2, <1>6, <2>1
    <3>. QED BY <1>2, <1>3, <2>2, <2>3, <2>4, <3>1, <3>2 DEF Goes, Quiet, Calm, Launching
  <2>6. QueueInv'
    BY <1>2, <1>4, <2>5, GoesKeeps
  <2>. QED BY <1>2, <2>3, <2>5, <2>6
<1>. QED BY <1>5, <1>6

LEMMA SignalWakeKeeps ==
  ASSUME QueueInv, NEW th \in Thread, script' = script, SignalWake(th)
  PROVE  /\ QueueInv' /\ DequeKept
         /\ \/ Ends(th)
            \/ \E g : Goes(th, g) /\ g.pc = "wake" /\ g.tgt = Top(th).tgt /\ g.ip = Top(th).ip
<1>. DEFINE f == Top(th)
<1>2. /\ At(th, "wake") /\ Calm /\ DequeKept
      /\ UNCHANGED <<futureVars, threadVars, controlVars, lockVars>> /\ notify_one
      /\ IF Len(f.launch) = 1 THEN Return(th) ELSE Goto(th, [f EXCEPT !.launch = Tail(@)])
  BY DEF SignalWake, Calm, DequeKept, queueVars, futureVars
<1>3. f \in FrameRec /\ FrameGood(f) /\ f.pc = "wake" /\ stack[th] # <<>> /\ remaining \in [Invoker -> Int]
  BY <1>2, AtFrame
<1>4. VarsOK'
  <2>1. worker' \in [Worker -> WorkerAt]
    BY <1>2, Wakes DEF QueueInv, QueueTypeOK, VarsOK, WorkerAt
  <2>. QED BY <1>2, <2>1 DEF QueueInv, QueueTypeOK, VarsOK, Calm, DequeKept, futureVars, threadVars, controlVars, lockVars, WorkerAt
<1>5. CASE Len(f.launch) = 1
  <2>1. Ends(th)
    BY <1>2, <1>3, <1>5 DEF Ends
  <2>. QED BY <1>2, <1>4, <2>1, EndsKeeps
<1>6. CASE Len(f.launch) # 1
  <2>1. PICK g : g = [f EXCEPT !.launch = Tail(@)]
    OBVIOUS
  <2>2. "wake" \in Ending /\ "wake" \notin Claiming \cup Helping \cup Launching
    BY DEF Ending, Claiming, Registering, Helping, Launching
  <2>3. f.launch # <<>> /\ f.launch \in Seq(Invoker)
    BY <1>3 DEF FrameGood, Launches, FrameRec
  <2>4. Tail(f.launch) \in Seq(Invoker) /\ Tail(f.launch) # <<>>
    <3>1. Tail(f.launch) \in Seq(Invoker) /\ Len(Tail(f.launch)) = Len(f.launch) - 1 /\ Len(f.launch) \in Nat \ {0}
      BY <2>3, TailOf
    <3>2. Len(Tail(f.launch)) # 0
      BY <1>6, <3>1
    <3>3. Len(<<>>) = 0
      OBVIOUS
    <3>. QED BY <3>1, <3>2, <3>3
  <2>5. /\ g \in FrameRec /\ g.run = f.run /\ g.launch = Tail(f.launch) /\ g.pc = "wake" /\ g.tgt = f.tgt /\ g.ip = f.ip
    BY <1>3, <2>1, <2>4 DEF FrameRec
  <2>6. FrameGood(g)
    BY <1>3, <2>2, <2>4, <2>5 DEF FrameGood, Running, Claims, Helps, Launches
  <2>7. Goes(th, g)
    <3>1. \A t \in Invoker : remaining[t] <= remaining[t]
      BY <1>3
    <3>2. Goto(th, g)
      BY <1>2, <1>6, <2>1
    <3>. QED BY <1>2, <1>3, <2>2, <2>5, <2>6, <3>1, <3>2 DEF Goes, Quiet, Calm
  <2>8. QueueInv'
    BY <1>2, <1>4, <2>7, GoesKeeps
  <2>. QED BY <1>2, <2>5, <2>7, <2>8
<1>. QED BY <1>5, <1>6

\* A dependent that has other futures to wait for.
LEMMA SignalWaitsKeeps ==
  ASSUME QueueInv, NEW th \in Thread, script' = script, SignalDependent(th), ~was_last_prior(Head(Top(th).todo))
  PROVE  QueueInv' /\ DequeKept /\ \E g : /\ Goes(th, g) /\ g.pc = "dependent" /\ g.todo = Tail(Top(th).todo)
                                          /\ g.tgt = Top(th).tgt /\ g.ip = Top(th).ip
<1>. DEFINE f == Top(th)
            d == Head(f.todo)
<1>1. PICK g : g = [f EXCEPT !.todo = Tail(@)]
  OBVIOUS
<1>2. /\ At(th, "dependent") /\ f.todo # <<>> /\ Goto(th, g) /\ DequeKept
      /\ remaining' = [remaining EXCEPT ![d] = @ - 1]
      /\ UNCHANGED <<script, status, runs, dependents, kind, bound, threadVars, controlVars, lockVars, worker>>
  BY <1>1 DEF SignalDependent, DequeKept, queueVars
<1>3. f \in FrameRec /\ FrameGood(f) /\ f.pc = "dependent" /\ stack[th] # <<>> /\ remaining \in [Invoker -> Int]
  BY <1>2, AtFrame
<1>4. g \in FrameRec /\ g.run = f.run /\ g.launch = f.launch /\ g.pc = "dependent" /\ g.todo = Tail(f.todo) /\ g.tgt = f.tgt /\ g.ip = f.ip
  BY <1>1, <1>2, <1>3, TailFrame
<1>. HIDE DEF d
<1>50. d \in Invoker
  BY <1>2, <1>3 DEF FrameRec, d
<1>5. /\ remaining' \in [Invoker -> Int]
      /\ \A t \in Invoker : remaining'[t] <= remaining[t]
  <2>1. remaining[d] \in Int /\ remaining[d] - 1 \in Int /\ remaining[d] - 1 <= remaining[d]
    BY <1>3, <1>50
  <2>2. \A t \in Invoker : remaining'[t] = IF t = d THEN remaining[d] - 1 ELSE remaining[t]
    BY <1>2, <1>3, <1>50
  <2>. QED BY <1>2, <1>3, <1>50, <2>1, <2>2
<1>6. "dependent" \in Ending /\ "dependent" \notin Claiming \cup Helping /\ "dependent" \in Launching
  BY DEF Ending, Claiming, Registering, Helping, Launching
<1>7. FrameGood(g)
  BY <1>3, <1>4, <1>6 DEF FrameGood, Running, Claims, Helps, Launches
<1>8. Goes(th, g)
  BY <1>2, <1>3, <1>4, <1>5, <1>6, <1>7 DEF Goes, Quiet
<1>10. VarsOK'
  BY <1>2, <1>5 DEF QueueInv, QueueTypeOK, VarsOK, DequeKept, threadVars, controlVars, lockVars
<1>11. QueueInv'
  BY <1>2, <1>8, <1>10, GoesKeeps
<1>. QED BY <1>2, <1>4, <1>8, <1>11

(***************************************************************************)
(* Starting an invoker                                                     *)
(***************************************************************************)
Starts(t, h) == /\ t \in Invoker /\ kind[t] # "none" /\ status[t] \notin {"RUNNING", "READY"} /\ Start(t)
                /\ h = Invocation(t) \/ h = [Invocation(t) EXCEPT !.flag = TRUE]
                /\ UNCHANGED <<script, kind, bound>>

LEMMA PlainInvocation ==
  ASSUME NEW t \in Invoker, NEW pc \in Pc, NEW h, h = Frame(t, pc) \/ h = [Frame(t, pc) EXCEPT !.flag = TRUE]
  PROVE  h \in FrameRec /\ h.run = t /\ h.pc = pc /\ h.ip = 1 /\ h.launch = <<>>
<1>1. t \in Client \cup Invoker /\ 1 \in Nat \ {0} /\ <<>> \in Seq(Invoker) /\ FALSE \in BOOLEAN /\ NULL \in Invoker \cup {NULL}
  OBVIOUS
<1>2. PICK f : f = Frame(t, pc)
  OBVIOUS
<1>3. f \in FrameRec /\ f.run = t /\ f.pc = pc /\ f.ip = 1 /\ f.launch = <<>>
  BY <1>1, <1>2 DEF Frame, FrameRec
<1>4. h = f \/ h = [f EXCEPT !.flag = TRUE]
  BY <1>2
<1>. QED BY <1>3, <1>4 DEF FrameRec

LEMMA InvocationFrame ==
  ASSUME QueueInv, NEW t \in Invoker, NEW h, h = Invocation(t) \/ h = [Invocation(t) EXCEPT !.flag = TRUE]
  PROVE  /\ h \in FrameRec /\ h.run = t /\ h.launch = <<>> /\ h.ip = 1
         /\ kind[t] = "handle" => h.pc = "register" /\ h.todo = bound[t].on /\ h.tgt = bound[t].inv
         /\ kind[t] = "control" => h.pc = "control"
         /\ kind[t] \notin {"handle", "control"} => h.pc = IF t \in NonVoid THEN "start" ELSE "body"
<1>1. bound[t] \in Call /\ bound[t].on \in Seq(Invoker) /\ bound[t].inv \in Invoker \cup {NULL}
  BY DEF QueueInv, QueueTypeOK, VarsOK, Call
<1>2. {"register", "control", "start", "body"} \subseteq Pc
  BY DEF Pc, Invoking, Claiming, Registering
<1>3. CASE kind[t] = "handle"
  <2>1. Invocation(t) = [Frame(t, "register") EXCEPT !.todo = bound[t].on, !.tgt = bound[t].inv]
    BY <1>3 DEF Invocation
  <2>2. t \in Client \cup Invoker /\ 1 \in Nat \ {0} /\ <<>> \in Seq(Invoker) /\ FALSE \in BOOLEAN /\ TRUE \in BOOLEAN
    OBVIOUS
  <2>3. /\ Invocation(t) \in FrameRec /\ Invocation(t).run = t /\ Invocation(t).launch = <<>> /\ Invocation(t).ip = 1
        /\ Invocation(t).pc = "register" /\ Invocation(t).todo = bound[t].on /\ Invocation(t).tgt = bound[t].inv
    BY <1>1, <1>2, <2>1, <2>2 DEF Frame, FrameRec
  <2>4. /\ h \in FrameRec /\ h.run = t /\ h.launch = <<>> /\ h.ip = 1
        /\ h.pc = "register" /\ h.todo = bound[t].on /\ h.tgt = bound[t].inv
    BY <2>2, <2>3 DEF FrameRec
  <2>. QED BY <1>3, <2>4
<1>4. CASE kind[t] # "handle"
  <2>1. PICK pc \in Pc : /\ pc = IF kind[t] = "control" THEN "control" ELSE IF t \in NonVoid THEN "start" ELSE "body"
                         /\ Invocation(t) = Frame(t, pc)
    BY <1>2, <1>4 DEF Invocation
  <2>2. h = Frame(t, pc) \/ h = [Frame(t, pc) EXCEPT !.flag = TRUE]
    BY <2>1
  <2>3. h \in FrameRec /\ h.run = t /\ h.pc = pc /\ h.launch = <<>> /\ h.ip = 1
    BY <2>2, PlainInvocation
  <2>. QED BY <1>4, <2>1, <2>3
<1>. QED BY <1>3, <1>4

LEMMA StartedFrame ==
  ASSUME QueueInv, NEW t, NEW h, Starts(t, h)
  PROVE  /\ h \in FrameRec /\ h.run = t /\ h.launch = <<>> /\ h.pc \notin Launching \cup Ending \cup Helping \cup {"block", "finish"}
         /\ \A e \in Frames : e.run # t /\ Apart(h, e) /\ Apart(e, h)
         /\ FrameGood(h)' /\ StatusGood(t)'
         /\ \A x \in Invoker : x # t /\ Pending(x) /\ h.pc \in Claiming => h.tgt # bound[x].inv
<1>1. /\ t \in Invoker /\ kind[t] # "none" /\ status[t] \notin {"RUNNING", "READY"} /\ UNCHANGED <<script, kind, bound>>
      /\ status' = [status EXCEPT ![t] = "RUNNING"] /\ runs' = [runs EXCEPT ![t] = @ + 1]
  BY DEF Starts, Start
<1>2. /\ h \in FrameRec /\ h.run = t /\ h.launch = <<>> /\ h.ip = 1
      /\ kind[t] = "handle" => h.pc = "register" /\ h.todo = bound[t].on /\ h.tgt = bound[t].inv
      /\ kind[t] # "handle" => h.pc \in {"control", "start", "body"}
  BY <1>1, InvocationFrame DEF Starts
<1>3. /\ h.pc \notin Launching \cup Ending \cup Helping \cup {"block", "finish", "wake"} \cup (Registering \ {"register"})
      /\ "control" \notin Claiming /\ "start" \notin Claiming /\ "body" \notin Claiming
  BY <1>2 DEF Launching, Ending, Helping, Claiming, Registering
<1>4. /\ VarsOK /\ CallsInv /\ FrameInv /\ Handles /\ Statuses
      /\ status \in [Invoker -> Status] /\ runs \in [Invoker -> Nat]
  BY DEF QueueInv, QueueTypeOK, CallsInv, VarsOK
<1>5. \A e \in Frames : e.run # t
  BY <1>1, <1>4 DEF FrameInv, FrameGood, Running
<1>6. h.pc \in Claiming => Pending(t) /\ h.tgt = bound[t].inv /\ Handled(t, bound[t].inv)
  BY <1>1, <1>2, <1>3, <1>4 DEF Handles, Pending
<1>7. \A e \in Frames : Apart(h, e) /\ Apart(e, h)
  BY <1>3, <1>6 DEF Apart, Handled
<1>8. StatusGood(t)'
  <2>1. runs[t] = 0 /\ status'[t] = "RUNNING" /\ runs'[t] = runs[t] + 1
    BY <1>1, <1>4 DEF Statuses, StatusGood
  <2>. QED BY <1>1, <2>1 DEF StatusGood
<1>9. FrameGood(h)'
  <2>1. Running(h)'
    BY <1>1, <1>2, <1>3, <1>4 DEF Running
  <2>2. Claims(h)'
    <3>1. SUFFICES ASSUME h.pc \in Claiming PROVE Claims(h)'
      BY DEF Claims
    <3>2. h.pc = "register" /\ h.tgt \in Invoker /\ kind[h.tgt] = "task" /\ status[h.tgt] = "CONSTRUCTING" /\ kind[t] = "handle"
      BY <1>2, <1>3, <1>6, <3>1 DEF Handled, Pending
    <3>3. status'[h.tgt] = "CONSTRUCTING"
      BY <1>1, <1>4, <3>2
    <3>4. h.run \in Invoker /\ kind'[h.tgt] = "task"
      BY <1>1, <1>2, <3>2
    <3>. QED BY <3>2, <3>3, <3>4 DEF Claims
  <2>3. Helps(h)' /\ Launches(h)'
    BY <1>2, <1>3 DEF Helps, Launches
  <2>. QED BY <2>1, <2>2, <2>3 DEF FrameGood
<1>10. ASSUME NEW x \in Invoker, x # t, Pending(x), h.pc \in Claiming PROVE h.tgt # bound[x].inv
  BY <1>1, <1>4, <1>6, <1>10 DEF Handles
<1>. QED BY <1>2, <1>3, <1>5, <1>7, <1>8, <1>9, <1>10

\* A frame g that starts the invoker t in a new frame h above it.
LEMMA StartCalls ==
  ASSUME QueueInv, NEW th \in Thread, stack[th] # <<>>, NEW t, NEW h, Starts(t, h),
         NEW g \in FrameRec, g.run = Top(th).run, Enter(th, g, h), g.pc \notin Claiming, FrameGood(g)',
         remaining' \in [Invoker -> Int], \A x \in Invoker : x # t => remaining'[x] = remaining[x],
         \A e \in Frames \ {Top(th)} : Untouched({t}, e) /\ Apart(g, e),
         \A x \in Invoker : x # t /\ Pending(x) => bound[x].inv # t
  PROVE  CallsInv' /\ stack' \in [Thread -> Seq(FrameRec)] /\ Frames' = (Frames \ {Top(th)}) \cup {g, h}
<1>1. /\ t \in Invoker /\ status' = [status EXCEPT ![t] = "RUNNING"] /\ runs' = [runs EXCEPT ![t] = @ + 1]
      /\ UNCHANGED <<script, kind, bound>>
  BY DEF Starts, Start
<1>2. QueueTypeOK /\ CallsInv /\ OneFrame /\ remaining \in [Invoker -> Int] /\ status \in [Invoker -> Status] /\ runs \in [Invoker -> Nat]
  BY DEF QueueInv, CallsInv, QueueTypeOK, VarsOK
<1>3. /\ h \in FrameRec /\ h.run = t /\ h.pc \notin Launching
      /\ \A e \in Frames : e.run # t /\ Apart(h, e) /\ Apart(e, h)
      /\ FrameGood(h)' /\ StatusGood(t)'
      /\ \A x \in Invoker : x # t /\ Pending(x) /\ h.pc \in Claiming => h.tgt # bound[x].inv
  BY StartedFrame
<1>4. /\ stack' \in [Thread -> Seq(FrameRec)] /\ OneFrame' /\ Frames' = (Frames \ {Top(th)}) \cup {g, h}
  BY <1>2, <1>3, EnterFrames
<1>5. Replaces({t}, {Top(th)}, {g, h})
  <2>1. ASSUME NEW x \in Invoker, x # t PROVE Same(x)
    <3>1. remaining'[x] = remaining[x] /\ remaining[x] \in Int
      BY <1>2, <2>1
    <3>. QED BY <1>1, <1>2, <2>1, <3>1 DEF Same
  <2>. QED BY <1>1, <1>3, <1>4, <2>1 DEF Replaces
<1>6. NewFrames({Top(th)}, {g, h})
  <2>1. Apart(g, h) /\ Apart(h, g)
    BY <1>3 DEF Apart
  <2>. QED BY <1>3, <2>1 DEF NewFrames
<1>7. NewHandles({t}, {g, h})
  <2>1. ~Pending(t)'
    BY <1>1, <1>2 DEF Pending
  <2>2. ASSUME NEW x \in Invoker \ {t}, Pending(x) PROVE bound[x].inv \notin {t} /\ \A e \in {g, h} : e.pc \in Claiming => e.tgt # bound[x].inv
    BY <1>3, <2>2
  <2>. QED BY <2>1, <2>2 DEF NewHandles
<1>8. CallsInv'
  <2>1. \A x \in {t} : StatusGood(x)'
    BY <1>3
  <2>. QED BY <1>2, <1>4, <1>5, <1>6, <1>7, <2>1, StepCalls
<1>. QED BY <1>4, <1>8

\* A status that changes, but not from or to ENQUEUED.
LEMMA StatusDeque ==
  ASSUME QueueInv, UNCHANGED <<invoker_queue, invoker_index>>,
         \A t \in Invoker : status'[t] = "ENQUEUED" <=> status[t] = "ENQUEUED"
  PROVE  DequeInv'
BY DEF QueueInv, DequeInv, Sound, Distinct, Ordered, In

\* An invoker in the deque is nobody's.
LEMMA QueuedIsFree ==
  ASSUME QueueInv, NEW t \in Invoker, status[t] = "ENQUEUED"
  PROVE  /\ kind[t] # "none" /\ \A e \in Frames : Untouched({t}, e)
         /\ \A x \in Invoker : Pending(x) => bound[x].inv # t
<1>1. FrameInv /\ Handles /\ StatusGood(t)
  BY DEF QueueInv, CallsInv, Statuses
<1>2. ASSUME NEW e \in Frames PROVE Untouched({t}, e)
  BY <1>1 DEF FrameInv, FrameGood, Running, Claims, Launches, Untouched
<1>3. ASSUME NEW x \in Invoker, Pending(x) PROVE bound[x].inv # t
  BY <1>1, <1>3 DEF Handles, Handled
<1>. QED BY <1>1, <1>2, <1>3 DEF StatusGood

LEMMA WorkerPopKeeps ==
  ASSUME QueueInv, NEW th \in Worker, script' = script, WorkerPop(th)
  PROVE  /\ QueueInv'
         /\ \E t, h : /\ Starts(t, h) /\ status[t] = "ENQUEUED" /\ h.run = t /\ stack[th] = <<>> /\ worker[th] = "pop"
                      /\ Frames' = Frames \cup {h} /\ stack' = [stack EXCEPT ![th] = <<h>>] /\ h \in FrameRec
<1>. DEFINE q == pop_front_nullptr(invoker_queue)
<1>1. Sound(invoker_queue, invoker_index) /\ VarsOK /\ QueueTypeOK /\ CallsInv /\ OneFrame /\ th \in Thread
  BY DEF QueueInv, QueueTypeOK, DequeInv, CallsInv, Thread
<1>2. q = invoker_queue
  BY <1>1, PopNulls DEF Sound, Queued
<1>3. PICK t, h : t = Head(invoker_queue) /\ h = Invocation(t)
  OBVIOUS
<1>4. /\ worker[th] = "pop" /\ stack[th] = <<>> /\ invoker_queue # <<>> /\ Start(t)
      /\ invoker_queue' = pop_front_nullptr(Tail(invoker_queue)) /\ stack' = [stack EXCEPT ![th] = <<h>>]
      /\ UNCHANGED <<invoker_index, futureVars, threadVars, controlVars, lockVars, worker>>
  BY <1>2, <1>3 DEF WorkerPop, can_continue
<1>5. /\ t \in Invoker /\ In(invoker_queue, t) /\ Sound(invoker_queue', invoker_index)
      /\ \A x \in Invoker : In(invoker_queue', x) <=> In(invoker_queue, x) /\ x # t
  BY <1>1, <1>3, <1>4, PopTask
<1>6. status[t] = "ENQUEUED"
  BY <1>5 DEF QueueInv, DequeInv
<1>7. /\ kind[t] # "none" /\ \A e \in Frames : Untouched({t}, e)
      /\ \A x \in Invoker : Pending(x) => bound[x].inv # t
  BY <1>5, <1>6, QueuedIsFree
<1>8. Starts(t, h) /\ UNCHANGED <<kind, bound, remaining, dependents, script>>
  BY <1>3, <1>4, <1>5, <1>6, <1>7 DEF Starts, futureVars
<1>9. /\ h \in FrameRec /\ h.run = t /\ h.pc \notin Launching
      /\ \A e \in Frames : e.run # t /\ Apart(h, e) /\ Apart(e, h)
      /\ FrameGood(h)' /\ StatusGood(t)'
      /\ \A x \in Invoker : x # t /\ Pending(x) /\ h.pc \in Claiming => h.tgt # bound[x].inv
  BY <1>8, StartedFrame
<1>10. stack' \in [Thread -> Seq(FrameRec)] /\ OneFrame' /\ Frames' = Frames \cup {h}
  BY <1>1, <1>4, <1>9, StartFrames
<1>11. status' = [status EXCEPT ![t] = "RUNNING"] /\ runs' = [runs EXCEPT ![t] = @ + 1]
  BY <1>4 DEF Start
<1>12. status \in [Invoker -> Status] /\ runs \in [Invoker -> Nat] /\ remaining \in [Invoker -> Int] /\ "RUNNING" \in Status
  BY <1>1 DEF VarsOK, Status
<1>13. CallsInv'
  <2>1. Replaces({t}, {}, {h})
    <3>1. ASSUME NEW x \in Invoker, x # t PROVE Same(x)
      <4>1. remaining'[x] = remaining[x] /\ remaining[x] \in Int
        BY <1>8, <1>12
      <4>. QED BY <1>8, <1>11, <1>12, <3>1, <4>1 DEF Same
    <3>. QED BY <1>5, <1>7, <1>8, <1>9, <1>10, <3>1 DEF Replaces
  <2>2. NewFrames({}, {h})
    BY <1>9 DEF NewFrames
  <2>3. NewHandles({t}, {h})
    <3>1. ~Pending(t)'
      BY <1>5, <1>11, <1>12 DEF Pending
    <3>. QED BY <1>7, <1>9, <3>1 DEF NewHandles
  <2>4. remaining' \in [Invoker -> Int] /\ \A x \in {t} : StatusGood(x)'
    BY <1>8, <1>9, <1>12
  <2>. QED BY <1>1, <1>10, <2>1, <2>2, <2>3, <2>4, StepCalls
<1>14. DequeInv'
  <2>1. \A x \in Invoker : status'[x] = "ENQUEUED" <=> status[x] = "ENQUEUED" /\ x # t
    BY <1>11, <1>12, <1>5
  <2>2. Sound(invoker_queue', invoker_index')
    BY <1>4, <1>5
  <2>. QED BY <1>5, <2>1, <2>2 DEF QueueInv, DequeInv, Sound, Distinct, Ordered, In
<1>15. VarsOK'
  <2>1. status' \in [Invoker -> Status] /\ runs' \in [Invoker -> Nat] /\ invoker_queue' \in Seq(Invoker \cup {NULL})
    BY <1>5, <1>11, <1>12 DEF Sound
  <2>. QED BY <1>1, <1>4, <2>1 DEF VarsOK, futureVars, threadVars, controlVars, lockVars
<1>. QED BY <1>4, <1>6, <1>8, <1>9, <1>10, <1>13, <1>14, <1>15 DEF QueueInv, QueueTypeOK

LEMMA WaitTakeKeeps ==
  ASSUME QueueInv, NEW th \in Thread, script' = script, WaitTake(th)
  PROVE  /\ QueueInv' /\ At(th, "take") /\ queue_lock' = NULL
         /\ \/ \E t, h : /\ Starts(t, h) /\ t = Head(Top(th).todo) /\ status[t] = "ENQUEUED" /\ h \in FrameRec
                         /\ Enter(th, Visited(Top(th), FALSE), h)
                         /\ Frames' = (Frames \ {Top(th)}) \cup {Visited(Top(th), FALSE), h}
            \/ Goes(th, Visited(Top(th), TRUE)) /\ DequeKept
<1>. DEFINE f == Top(th)
            t == Head(f.todo)
            slot == slot_of(t)
<1>1. /\ At(th, "take") /\ queue_lock' = NULL
      /\ UNCHANGED <<invoker_index, futureVars, threadVars, controlVars, future_lock, worker>>
  BY DEF WaitTake
<1>2. f \in FrameRec /\ FrameGood(f) /\ f.pc = "take" /\ stack[th] # <<>> /\ f \in Frames
  BY <1>1, AtFrame
<1>3. f.todo # <<>> /\ t \in Invoker /\ "take" \in Helping /\ "visit" \in Helping
  <2>1. f.todo # <<>> /\ f.todo \in Seq(Invoker) /\ "take" \in Helping /\ "visit" \in Helping
    BY <1>2 DEF FrameGood, Helps, Helping, FrameRec
  <2>. QED BY <2>1
<1>4. \A b \in BOOLEAN : /\ Visited(f, b) \in FrameRec /\ Visited(f, b).run = f.run /\ Visited(f, b).pc = "visit"
                         /\ Visited(f, b).ip = f.ip /\ Visited(f, b).launch = f.launch
  BY <1>2, <1>3, VisitedFrame
<1>5. VarsOK /\ Sound(invoker_queue, invoker_index) /\ status \in [Invoker -> Status] /\ runs \in [Invoker -> Nat] /\ "RUNNING" \in Status
      /\ remaining \in [Invoker -> Int]
  BY DEF QueueInv, QueueTypeOK, DequeInv, VarsOK, Status
<1>6. CASE status[t] = "ENQUEUED" /\ slot \in DOMAIN invoker_queue /\ invoker_queue[slot] = t
  <2>1. PICK g, h : g = Visited(f, FALSE) /\ h = Invocation(t)
    OBVIOUS
  <2>2. invoker_queue' = taken(slot) /\ Start(t) /\ Enter(th, g, h)
    BY <1>6, <2>1 DEF WaitTake
  <2>3. /\ kind[t] # "none" /\ \A e \in Frames : Untouched({t}, e)
        /\ \A x \in Invoker : Pending(x) => bound[x].inv # t
    BY <1>3, <1>6, QueuedIsFree
  <2>4. UNCHANGED <<kind, bound, remaining, dependents, script>>
    BY <1>1 DEF futureVars
  <2>5. Starts(t, h)
    BY <1>3, <1>6, <2>1, <2>2, <2>3, <2>4 DEF Starts
  <2>6. Sound(invoker_queue', invoker_index) /\ \A x \in Invoker : In(invoker_queue', x) <=> In(invoker_queue, x) /\ x # t
    BY <1>3, <1>5, <1>6, <2>2, TakeTask
  <2>7. PICK u : u = t
    OBVIOUS
  <2>. HIDE DEF t
  <2>8. g \in FrameRec /\ g.run = f.run /\ g.pc = "visit" /\ g.ip = f.ip /\ g.launch = f.launch
    BY <1>4, <2>1
  <2>9. FrameGood(g)'
    <3>1. "visit" \notin Ending \cup Claiming \cup Invoking \cup Launching /\ "take" \notin Ending \cup Launching \cup {"wake"}
      BY DEF Ending, Claiming, Invoking, Launching, Registering, Resizes
    <3>2. f.run \in Invoker => status'[f.run] = "RUNNING"
      <4>1. f.run \in Invoker => status[f.run] = "RUNNING"
        BY <1>2, <3>1 DEF FrameGood, Running
      <4>2. status' = [status EXCEPT ![t] = "RUNNING"]
        BY <2>2 DEF Start
      <4>. QED BY <1>5, <4>1, <4>2
    <3>3. Running(g)' /\ Claims(g)' /\ Launches(g)'
      BY <1>2, <2>8, <3>1, <3>2 DEF Running, Claims, Launches, FrameGood
    <3>4. Helps(g)'
      BY <1>2, <1>3, <2>4, <2>8 DEF FrameGood, Helps, CallOf, Calls
    <3>. QED BY <3>3, <3>4 DEF FrameGood
  <2>10. g.pc \notin Claiming /\ \A e \in Frames \ {f} : Apart(g, e)
    BY <2>8 DEF Apart, Claiming, Launching, Registering
  <2>11. remaining' \in [Invoker -> Int] /\ \A x \in Invoker : x # t => remaining'[x] = remaining[x]
    BY <1>5, <2>4
  <2>12. CallsInv' /\ stack' \in [Thread -> Seq(FrameRec)] /\ Frames' = (Frames \ {f}) \cup {g, h}
    <3>1. \A x \in Invoker : x # t /\ Pending(x) => bound[x].inv # t
      BY <2>3
    <3>. QED BY <1>2, <2>2, <2>3, <2>5, <2>8, <2>9, <2>10, <2>11, <3>1, StartCalls
  <2>13. status' = [status EXCEPT ![t] = "RUNNING"] /\ runs' = [runs EXCEPT ![t] = @ + 1]
    BY <2>2 DEF Start
  <2>14. DequeInv'
    <3>1. \A x \in Invoker : status'[x] = "ENQUEUED" <=> status[x] = "ENQUEUED" /\ x # t
      BY <1>3, <1>5, <2>13
    <3>2. Sound(invoker_queue', invoker_index')
      BY <1>1, <2>6
    <3>. QED BY <2>6, <3>1, <3>2 DEF QueueInv, DequeInv, Sound, Distinct, Ordered, In
  <2>15. VarsOK'
    <3>1. status' \in [Invoker -> Status] /\ runs' \in [Invoker -> Nat] /\ invoker_queue' \in Seq(Invoker \cup {NULL})
      BY <1>3, <1>5, <2>6, <2>13 DEF Sound
    <3>. QED BY <1>1, <1>5, <3>1 DEF VarsOK, futureVars, threadVars, controlVars
  <2>16. h \in FrameRec
    BY <2>5, StartedFrame
  <2>17. QueueInv'
    BY <2>12, <2>14, <2>15 DEF QueueInv, QueueTypeOK
  <2>. QED BY <1>1, <1>6, <2>1, <2>2, <2>5, <2>12, <2>16, <2>17 DEF t
<1>7. CASE ~(status[t] = "ENQUEUED" /\ slot \in DOMAIN invoker_queue /\ invoker_queue[slot] = t)
  <2>1. Goto(th, Visited(f, TRUE)) /\ UNCHANGED <<invoker_queue, status, runs>>
    BY <1>7 DEF WaitTake
  <2>2. Calm /\ DequeKept
    BY <1>1, <2>1 DEF Calm, DequeKept, futureVars
  <2>3. Goes(th, Visited(f, TRUE))
    BY <1>1, <1>3, <1>4, <2>1, <2>2, HelpGoes
  <2>4. VarsOK'
    BY <1>1, <1>5, <2>1 DEF VarsOK, futureVars, threadVars, controlVars
  <2>5. QueueInv'
    BY <2>2, <2>3, <2>4, GoesKeeps
  <2>. QED BY <1>1, <2>2, <2>3, <2>5
<1>. QED BY <1>6, <1>7

\* A frame goes on as g and touches the invokers of T.
LEMMA TouchCalls ==
  ASSUME QueueInv, NEW th \in Thread, stack[th] # <<>>, NEW T \in SUBSET Invoker,
         NEW g \in FrameRec, g.run = Top(th).run, Goto(th, g), script' = script, remaining' = remaining,
         \A x \in Invoker \ T : status'[x] = status[x] /\ kind'[x] = kind[x] /\ bound'[x] = bound[x] /\ runs'[x] = runs[x],
         FrameGood(g)', \A e \in Frames \ {Top(th)} : Untouched(T, e) /\ Apart(g, e),
         NewHandles(T, {g}), \A t \in T : StatusGood(t)'
  PROVE  CallsInv' /\ stack' \in [Thread -> Seq(FrameRec)] /\ Frames' = (Frames \ {Top(th)}) \cup {g}
<1>1. QueueTypeOK /\ CallsInv /\ OneFrame /\ remaining \in [Invoker -> Int]
  BY DEF QueueInv, CallsInv, QueueTypeOK, VarsOK
<1>2. /\ stack' \in [Thread -> Seq(FrameRec)] /\ OneFrame' /\ Frames' = (Frames \ {Top(th)}) \cup {g}
  BY <1>1, GotoFrames
<1>3. \A x \in Invoker \ T : Same(x)
  <2>1. \A x \in Invoker : remaining'[x] <= remaining[x]
    BY <1>1
  <2>. QED BY <2>1 DEF Same
<1>4. Replaces(T, {Top(th)}, {g})
  BY <1>2, <1>3 DEF Replaces
<1>5. NewFrames({Top(th)}, {g})
  BY DEF NewFrames
<1>6. remaining' \in [Invoker -> Int]
  BY <1>1
<1>7. CallsInv'
  BY <1>1, <1>2, <1>4, <1>5, <1>6, StepCalls
<1>. QED BY <1>2, <1>7

\* An invoker that a frame has for itself.
LEMMA ClaimedIsFree ==
  ASSUME QueueInv, NEW f \in Frames, f.pc \in Claiming
  PROVE  /\ f.tgt \in Invoker /\ status[f.tgt] = "CONSTRUCTING" /\ kind[f.tgt] # "none" /\ f.run # f.tgt
         /\ \A e \in Frames \ {f} : Untouched({f.tgt}, e)
         /\ \A x \in Invoker : Pending(x) => bound[x].inv # f.tgt
<1>1. FrameInv /\ Handles /\ AllApart /\ OneFrame /\ FrameGood(f)
  BY DEF QueueInv, CallsInv, FrameInv
<1>2. f.tgt \in Invoker /\ status[f.tgt] = "CONSTRUCTING" /\ kind[f.tgt] # "none"
  BY <1>1 DEF FrameGood, Claims
<1>3. ASSUME NEW e \in Frames, e # f PROVE Untouched({f.tgt}, e)
  <2>1. e.run # f.run
    BY <1>1, <1>3, FramesAre DEF OneFrame
  <2>2. FrameGood(e) /\ Apart(e, f)
    BY <1>1, <1>3, <2>1 DEF FrameInv, AllApart
  <2>. QED BY <1>2, <2>2 DEF FrameGood, Running, Launches, Apart, Untouched
<1>4. ASSUME NEW x \in Invoker, Pending(x) PROVE bound[x].inv # f.tgt
  BY <1>1, <1>4 DEF Handles, Handled
<1>5. f.run # f.tgt
  BY <1>1, <1>2 DEF FrameGood, Running
<1>. QED BY <1>2, <1>3, <1>4, <1>5

LEMMA RegisteredFrame ==
  ASSUME NEW f \in FrameRec
  PROVE  LET g == Registered(f) IN
         /\ g \in FrameRec /\ g.run = f.run /\ g.launch = f.launch
         /\ kind[f.tgt] = "waiter" => g.pc = "block" /\ g.ip = f.ip /\ g.todo = f.todo /\ g.tgt = f.tgt
         /\ kind[f.tgt] = "control" => g = NextCall(f) /\ g.pc = "body" /\ g.ip = f.ip + 1
         /\ kind[f.tgt] \notin {"waiter", "control"} => g.pc = "finish" /\ g.ip = f.ip /\ g.todo = f.todo /\ g.tgt = f.tgt
<1>1. "block" \in Pc /\ "finish" \in Pc
  BY DEF Pc, Invoking
<1>2. CASE kind[f.tgt] = "waiter"
  <2>1. PICK g : g = Registered(f) /\ g = [f EXCEPT !.pc = "block"]
    BY <1>2 DEF Registered
  <2>. QED BY <1>1, <1>2, <2>1, MovedFrame
<1>3. CASE kind[f.tgt] = "control"
  <2>1. PICK g : g = Registered(f) /\ g = NextCall(f)
    BY <1>3 DEF Registered
  <2>2. g \in FrameRec /\ g.run = f.run /\ g.launch = f.launch /\ g.pc = "body" /\ g.ip = f.ip + 1
    BY <2>1, NextCallFrame
  <2>. QED BY <1>3, <2>1, <2>2
<1>4. CASE kind[f.tgt] \notin {"waiter", "control"}
  <2>1. PICK g : g = Registered(f) /\ g = [f EXCEPT !.pc = "finish"]
    BY <1>4 DEF Registered
  <2>. QED BY <1>1, <1>4, <2>1, MovedFrame
<1>. QED BY <1>2, <1>3, <1>4

LEMMA RegisterSettleKeeps ==
  ASSUME QueueInv, NEW th \in Thread, script' = script, RegisterSettle(th)
  PROVE  /\ QueueInv' /\ At(th, "register") /\ Top(th).todo = <<>>
         /\ LET f == Top(th) t == Top(th).tgt g == Registered(f) IN
            /\ g \in FrameRec
            /\ \/ /\ remaining[t] # 0 /\ status' = [status EXCEPT ![t] = "ON_HOLD"] /\ Goto(th, g)
                  /\ Frames' = (Frames \ {f}) \cup {g}
               \/ /\ remaining[t] = 0 /\ \E h : /\ Starts(t, h) /\ Enter(th, g, h) /\ h \in FrameRec
                                                /\ Frames' = (Frames \ {f}) \cup {g, h}
<1>. DEFINE f == Top(th)
<1>1. /\ At(th, "register") /\ f.todo = <<>>
      /\ UNCHANGED <<queueVars, futureVars, threadVars, controlVars, lockVars, worker>>
  BY DEF RegisterSettle
<1>2. f \in FrameRec /\ FrameGood(f) /\ f.pc = "register" /\ stack[th] # <<>> /\ f \in Frames /\ f.launch = <<>>
  BY <1>1, AtFrame DEF Launching
<1>3. PICK t, g : t = f.tgt /\ g = Registered(f)
  OBVIOUS
<1>4. f.pc \in Claiming
  BY <1>2 DEF Claiming, Registering
<1>5. /\ t \in Invoker /\ status[t] = "CONSTRUCTING" /\ kind[t] # "none" /\ f.run # t
      /\ \A e \in Frames \ {f} : Untouched({t}, e)
      /\ \A x \in Invoker : Pending(x) => bound[x].inv # t
  BY <1>2, <1>3, <1>4, ClaimedIsFree
<1>6. kind[t] \in {"waiter", "control"} \/ (kind[t] = "task" /\ f.run \in Invoker)
  BY <1>2, <1>3, <1>4 DEF FrameGood, Claims
<1>7. /\ g \in FrameRec /\ g.run = f.run /\ g.launch = <<>> /\ g.pc \in {"block", "body", "finish"}
      /\ g.pc = "finish" => f.run \in Invoker
  BY <1>2, <1>3, <1>6, RegisteredFrame
<1>8. /\ g.pc \notin Ending \cup Claiming \cup Helping \cup Launching \cup {"wake"} /\ (g.pc \in Invoking => f.run \in Invoker)
      /\ "register" \notin Ending
  BY <1>7 DEF Ending, Claiming, Helping, Launching, Invoking, Registering, Resizes
<1>9. VarsOK /\ status \in [Invoker -> Status] /\ runs \in [Invoker -> Nat] /\ remaining \in [Invoker -> Int] /\ StatusGood(t)
      /\ kind \in [Invoker -> Kind]
  BY <1>5 DEF QueueInv, QueueTypeOK, VarsOK, CallsInv, Statuses
<1>10. UNCHANGED <<script, kind, bound, remaining, dependents, invoker_queue, invoker_index>>
  BY <1>1 DEF futureVars, queueVars
<1>11. ASSUME NEW s, status' = [status EXCEPT ![t] = s] PROVE FrameGood(g)'
  <2>1. f.run \in Invoker => status[f.run] = "RUNNING"
    BY <1>2, <1>8 DEF FrameGood, Running
  <2>2. f.run \in Invoker => status'[f.run] = "RUNNING"
    BY <1>5, <1>9, <1>11, <2>1
  <2>. QED BY <1>7, <1>8, <2>2 DEF FrameGood, Running, Claims, Helps, Launches
<1>12. \A e \in Frames \ {f} : Apart(g, e)
  BY <1>8 DEF Apart
<1>13. CASE remaining[t] # 0
  <2>1. status' = [status EXCEPT ![t] = "ON_HOLD"] /\ Goto(th, g) /\ runs' = runs
    BY <1>3, <1>13 DEF RegisterSettle
  <2>2. FrameGood(g)'
    BY <1>11, <2>1
  <2>3. NewHandles({t}, {g})
    <3>1. ~Pending(t)'
      BY <1>6, <1>10 DEF Pending
    <3>. QED BY <1>5, <1>8, <3>1 DEF NewHandles
  <2>4. StatusGood(t)'
    <3>1. status'[t] = "ON_HOLD" /\ runs'[t] = 0 /\ kind'[t] = kind[t]
      BY <1>5, <1>9, <1>10, <2>1 DEF StatusGood
    <3>. QED BY <1>6, <3>1 DEF StatusGood
  <2>5. \A x \in Invoker \ {t} : status'[x] = status[x] /\ kind'[x] = kind[x] /\ bound'[x] = bound[x] /\ runs'[x] = runs[x]
    BY <1>9, <1>10, <2>1
  <2>6. CallsInv' /\ stack' \in [Thread -> Seq(FrameRec)] /\ Frames' = (Frames \ {f}) \cup {g}
    <3>1. {t} \in SUBSET Invoker /\ \A x \in {t} : StatusGood(x)'
      BY <1>5, <2>4
    <3>. QED BY <1>2, <1>5, <1>7, <1>10, <1>12, <2>1, <2>2, <2>3, <2>5, <3>1, TouchCalls
  <2>7. DequeInv'
    <3>1. \A x \in Invoker : status'[x] = "ENQUEUED" <=> status[x] = "ENQUEUED"
      BY <1>5, <1>9, <2>1
    <3>. QED BY <1>10, <3>1, StatusDeque
  <2>8. VarsOK'
    <3>1. status' \in [Invoker -> Status] /\ runs' \in [Invoker -> Nat]
      BY <1>5, <1>9, <2>1 DEF Status
    <3>. QED BY <1>1, <1>9, <1>10, <3>1 DEF VarsOK, threadVars, controlVars, lockVars
  <2>. QED BY <1>1, <1>3, <1>7, <1>13, <2>1, <2>6, <2>7, <2>8 DEF QueueInv, QueueTypeOK
<1>14. CASE remaining[t] = 0
  <2>1. PICK h : h = Invocation(t)
    OBVIOUS
  <2>2. Start(t) /\ Enter(th, g, h)
    BY <1>3, <1>14, <2>1 DEF RegisterSettle
  <2>3. Starts(t, h)
    BY <1>5, <1>10, <2>1, <2>2 DEF Starts
  <2>4. status' = [status EXCEPT ![t] = "RUNNING"] /\ runs' = [runs EXCEPT ![t] = @ + 1]
    BY <2>2 DEF Start
  <2>5. FrameGood(g)'
    BY <1>11, <2>4
  <2>6. remaining' \in [Invoker -> Int] /\ \A x \in Invoker : x # t => remaining'[x] = remaining[x]
    BY <1>9, <1>10
  <2>7. CallsInv' /\ stack' \in [Thread -> Seq(FrameRec)] /\ Frames' = (Frames \ {f}) \cup {g, h}
    <3>1. \A x \in Invoker : x # t /\ Pending(x) => bound[x].inv # t
      BY <1>5
    <3>2. \A e \in Frames \ {Top(th)} : Untouched({t}, e) /\ Apart(g, e)
      BY <1>5, <1>12
    <3>. QED BY <1>2, <1>7, <1>8, <2>2, <2>3, <2>5, <2>6, <3>1, <3>2, StartCalls
  <2>8. DequeInv'
    <3>1. \A x \in Invoker : status'[x] = "ENQUEUED" <=> status[x] = "ENQUEUED"
      BY <1>5, <1>9, <2>4
    <3>. QED BY <1>10, <3>1, StatusDeque
  <2>9. VarsOK'
    <3>1. status' \in [Invoker -> Status] /\ runs' \in [Invoker -> Nat]
      BY <1>5, <1>9, <2>4 DEF Status
    <3>. QED BY <1>1, <1>9, <1>10, <3>1 DEF VarsOK, threadVars, controlVars, lockVars
  <2>10. h \in FrameRec
    BY <2>3, StartedFrame
  <2>11. QueueInv'
    BY <2>7, <2>8, <2>9 DEF QueueInv, QueueTypeOK
  <2>12. \E k : Starts(t, k) /\ Enter(th, g, k) /\ k \in FrameRec /\ Frames' = (Frames \ {f}) \cup {g, k}
    BY <2>2, <2>3, <2>7, <2>10
  <2>. QED BY <1>1, <1>3, <1>7, <1>14, <2>11, <2>12
<1>. QED BY <1>13, <1>14

\* The last future that a high-priority invoker waits for starts it.
LEMMA SignalStartsKeeps ==
  ASSUME QueueInv, NEW th \in Thread, script' = script, SignalDependent(th),
         was_last_prior(Head(Top(th).todo)), is_high_priority(Head(Top(th).todo))
  PROVE  /\ QueueInv' /\ UNCHANGED <<invoker_queue, invoker_index>>
         /\ LET f == Top(th) d == Head(Top(th).todo) IN
            \E g, h : /\ g \in FrameRec /\ h \in FrameRec /\ g.run = f.run /\ g.pc = "dependent" /\ g.todo = Tail(f.todo)
                      /\ g.tgt = f.tgt /\ g.ip = f.ip /\ Starts(d, h) /\ Enter(th, g, h)
                      /\ Frames' = (Frames \ {f}) \cup {g, h}
<1>. DEFINE f == Top(th)
<1>1. PICK d, g, h : d = Head(f.todo) /\ g = [f EXCEPT !.todo = Tail(@)] /\ h = Invocation(d)
  OBVIOUS
<1>2. /\ At(th, "dependent") /\ f.todo # <<>> /\ remaining' = [remaining EXCEPT ![d] = @ - 1]
      /\ Start(d) /\ Enter(th, g, h) /\ status[d] = "ON_HOLD" /\ remaining[d] = 1 /\ kind[d] \in {"waiter", "control"}
      /\ UNCHANGED <<queueVars, dependents, kind, bound, threadVars, controlVars, lockVars, worker>>
  BY <1>1 DEF SignalDependent, was_last_prior, is_high_priority
<1>3. /\ f \in FrameRec /\ FrameGood(f) /\ f.pc = "dependent" /\ stack[th] # <<>> /\ f \in Frames
      /\ \A e \in Frames \ {f} : e \in FrameRec /\ FrameGood(e) /\ Apart(f, e)
  BY <1>2, AtFrame, TopIsGood DEF QueueInv
<1>4. /\ g \in FrameRec /\ g.run = f.run /\ g.launch = f.launch /\ g.pc = "dependent" /\ g.todo = Tail(f.todo)
      /\ g.tgt = f.tgt /\ g.ip = f.ip
  BY <1>1, <1>2, <1>3, TailFrame
<1>5. d \in Invoker
  BY <1>1, <1>2, <1>3 DEF FrameRec
<1>6. VarsOK /\ status \in [Invoker -> Status] /\ runs \in [Invoker -> Nat] /\ remaining \in [Invoker -> Int] /\ Handles
  BY DEF QueueInv, QueueTypeOK, VarsOK, CallsInv
<1>7. Starts(d, h)
  BY <1>1, <1>2, <1>5 DEF Starts
<1>. HIDE DEF f
<1>8. status' = [status EXCEPT ![d] = "RUNNING"] /\ runs' = [runs EXCEPT ![d] = @ + 1]
  BY <1>2 DEF Start
<1>9. remaining' \in [Invoker -> Int] /\ \A x \in Invoker : x # d => remaining'[x] = remaining[x]
  BY <1>2, <1>5, <1>6
<1>10. "dependent" \in Ending /\ "dependent" \notin Claiming \cup Helping \cup {"wake"} /\ "dependent" \in Launching
  BY DEF Ending, Claiming, Registering, Helping, Launching
<1>11. FrameGood(g)'
  <2>1. f.run \in Invoker /\ status[f.run] = "READY"
    BY <1>3, <1>10 DEF FrameGood, Running, Invoking
  <2>2. Running(g)'
    BY <1>2, <1>4, <1>6, <1>8, <1>10, <2>1 DEF Running
  <2>3. ASSUME NEW i \in DOMAIN g.launch
        PROVE  LET t == g.launch[i] IN status'[t] = "ON_HOLD" /\ kind'[t] = "task" /\ remaining'[t] <= 0
    <3>1. PICK t : t = g.launch[i] /\ t \in Invoker
      BY <1>4, <2>3 DEF FrameRec
    <3>2. status[t] = "ON_HOLD" /\ kind[t] = "task" /\ remaining[t] <= 0
      BY <1>3, <1>4, <1>10, <2>3, <3>1 DEF FrameGood, Launches
    <3>3. status'[t] = "ON_HOLD" /\ kind'[t] = "task" /\ remaining'[t] = remaining[t]
      BY <1>2, <1>6, <1>8, <1>9, <3>1, <3>2
    <3>. QED BY <3>1, <3>2, <3>3
  <2>4. Launches(g)'
    BY <1>3, <1>4, <1>10, <2>3 DEF FrameGood, Launches
  <2>. QED BY <1>4, <1>10, <2>2, <2>4 DEF FrameGood, Claims, Helps
<1>12. \A e \in Frames \ {f} : Untouched({d}, e) /\ Apart(g, e)
  <2>. SUFFICES ASSUME NEW e \in Frames \ {f} PROVE Untouched({d}, e) /\ Apart(g, e)
    OBVIOUS
  <2>1. Untouched({d}, e)
    BY <1>2, <1>3, <1>5 DEF FrameGood, Running, Claims, Launches, Untouched
  <2>2. Apart(g, e)
    BY <1>3, <1>4, <1>10 DEF Apart
  <2>. QED BY <2>1, <2>2
<1>13. \A x \in Invoker : x # d /\ Pending(x) => bound[x].inv # d
  BY <1>2, <1>6 DEF Handles, Handled
<1>14. CallsInv' /\ stack' \in [Thread -> Seq(FrameRec)] /\ Frames' = (Frames \ {f}) \cup {g, h}
  <2>1. stack[th] # <<>> /\ g \in FrameRec /\ g.run = Top(th).run /\ Enter(th, g, h) /\ g.pc \notin Claiming
    BY <1>2, <1>3, <1>4, <1>10 DEF f
  <2>2. \A e \in Frames \ {Top(th)} : Untouched({d}, e) /\ Apart(g, e)
    BY <1>12 DEF f
  <2>. QED BY <1>7, <1>9, <1>11, <1>13, <2>1, <2>2, StartCalls DEF f
<1>15. UNCHANGED <<invoker_queue, invoker_index>> /\ DequeInv'
  <2>1. UNCHANGED <<invoker_queue, invoker_index>>
    BY <1>2 DEF queueVars
  <2>2. \A x \in Invoker : status'[x] = "ENQUEUED" <=> status[x] = "ENQUEUED"
    BY <1>2, <1>6, <1>8
  <2>. QED BY <2>1, <2>2, StatusDeque
<1>16. VarsOK'
  <2>1. status' \in [Invoker -> Status] /\ runs' \in [Invoker -> Nat]
    BY <1>5, <1>6, <1>8 DEF Status
  <2>. QED BY <1>2, <1>6, <1>9, <1>15, <2>1 DEF VarsOK, threadVars, controlVars, lockVars
<1>17. h \in FrameRec
  BY <1>7, StartedFrame
<1>18. QueueInv'
  BY <1>14, <1>15, <1>16 DEF QueueInv, QueueTypeOK
<1>. QED BY <1>1, <1>2, <1>4, <1>7, <1>14, <1>15, <1>17, <1>18 DEF f

\* The last future that a task waits for puts it among those to launch.
LEMMA SignalAppendsKeeps ==
  ASSUME QueueInv, NEW th \in Thread, script' = script, SignalDependent(th),
         was_last_prior(Head(Top(th).todo)), ~is_high_priority(Head(Top(th).todo))
  PROVE  /\ QueueInv' /\ DequeKept
         /\ LET f == Top(th) IN
            \E g : /\ g \in FrameRec /\ g.run = f.run /\ g.pc = "dependent" /\ g.todo = Tail(f.todo)
                   /\ g.tgt = f.tgt /\ g.ip = f.ip /\ Goto(th, g) /\ Frames' = (Frames \ {f}) \cup {g}
<1>. DEFINE f == Top(th)
<1>1. PICK d, g, r : d = Head(f.todo) /\ r = [f EXCEPT !.todo = Tail(@)] /\ g = [r EXCEPT !.launch = Append(@, d)]
  OBVIOUS
<1>2. /\ At(th, "dependent") /\ f.todo # <<>> /\ remaining' = [remaining EXCEPT ![d] = @ - 1]
      /\ Goto(th, g) /\ status[d] = "ON_HOLD" /\ remaining[d] = 1 /\ kind[d] \notin {"waiter", "control"}
      /\ UNCHANGED <<status, runs, queueVars, dependents, kind, bound, threadVars, controlVars, lockVars, worker>>
  BY <1>1 DEF SignalDependent, was_last_prior, is_high_priority
<1>3. /\ f \in FrameRec /\ FrameGood(f) /\ f.pc = "dependent" /\ stack[th] # <<>> /\ f \in Frames
      /\ \A e \in Frames \ {f} : e \in FrameRec /\ FrameGood(e) /\ Apart(f, e)
  BY <1>2, AtFrame, TopIsGood DEF QueueInv
<1>4. d \in Invoker
  BY <1>1, <1>2, <1>3 DEF FrameRec
<1>5. QueueTypeOK /\ VarsOK /\ remaining \in [Invoker -> Int] /\ Handles /\ OneFrame /\ CallsInv /\ StatusGood(d)
  BY <1>4 DEF QueueInv, QueueTypeOK, VarsOK, CallsInv, Statuses
<1>. HIDE DEF f
<1>6. /\ g \in FrameRec /\ g.run = f.run /\ g.launch = Append(f.launch, d) /\ g.pc = "dependent" /\ g.todo = Tail(f.todo)
      /\ g.tgt = f.tgt /\ g.ip = f.ip
  <2>1. /\ r \in FrameRec /\ r.run = f.run /\ r.launch = f.launch /\ r.pc = "dependent" /\ r.todo = Tail(f.todo)
        /\ r.tgt = f.tgt /\ r.ip = f.ip
    BY <1>1, <1>2, <1>3, TailFrame
  <2>2. Append(r.launch, d) \in Seq(Invoker)
    BY <1>4, <2>1, AppendProperties DEF FrameRec
  <2>. QED BY <1>1, <2>1, <2>2 DEF FrameRec
<1>7. kind[d] = "task"
  BY <1>2, <1>5 DEF StatusGood
<1>8. remaining' \in [Invoker -> Int] /\ remaining'[d] = 0 /\ \A x \in Invoker : x # d => remaining'[x] = remaining[x]
  BY <1>2, <1>4, <1>5
<1>9. "dependent" \in Ending /\ "dependent" \notin Claiming \cup Helping \cup {"wake"} /\ "dependent" \in Launching
  BY DEF Ending, Claiming, Registering, Helping, Launching
<1>10. /\ f.launch \in Seq(Invoker) /\ Len(f.launch) \in Nat
       /\ \A i \in DOMAIN g.launch : \/ i = Len(f.launch) + 1 /\ g.launch[i] = d
                                     \/ i \in DOMAIN f.launch /\ g.launch[i] = f.launch[i]
  <2>1. f.launch \in Seq(Invoker)
    BY <1>3 DEF FrameRec
  <2>2. /\ g.launch \in Seq(Invoker) /\ Len(g.launch) = Len(f.launch) + 1 /\ Len(f.launch) \in Nat
        /\ \A i \in 1 .. Len(f.launch) + 1 : g.launch[i] = IF i = Len(f.launch) + 1 THEN d ELSE f.launch[i]
    BY <1>4, <1>6, <2>1, Pushed, LenProperties
  <2>3. DOMAIN g.launch = 1 .. Len(f.launch) + 1 /\ DOMAIN f.launch = 1 .. Len(f.launch)
    BY <2>1, <2>2, LenProperties
  <2>. QED BY <2>1, <2>2, <2>3
<1>11. \A i \in DOMAIN f.launch : /\ status[f.launch[i]] = "ON_HOLD" /\ kind[f.launch[i]] = "task"
                                 /\ remaining[f.launch[i]] <= 0 /\ f.launch[i] # d /\ f.launch[i] \in Invoker
  <2>. SUFFICES ASSUME NEW i \in DOMAIN f.launch
                PROVE  /\ status[f.launch[i]] = "ON_HOLD" /\ kind[f.launch[i]] = "task"
                       /\ remaining[f.launch[i]] <= 0 /\ f.launch[i] # d /\ f.launch[i] \in Invoker
    OBVIOUS
  <2>1. status[f.launch[i]] = "ON_HOLD" /\ kind[f.launch[i]] = "task" /\ remaining[f.launch[i]] <= 0
    BY <1>3, <1>9 DEF FrameGood, Launches
  <2>2. f.launch[i] \in Invoker
    BY <1>10
  <2>. QED BY <1>2, <2>1, <2>2
<1>12. FrameGood(g)'
  <2>1. Running(g)'
    BY <1>2, <1>3, <1>6, <1>9 DEF FrameGood, Running
  <2>2. ASSUME NEW i \in DOMAIN g.launch
        PROVE  status'[g.launch[i]] = "ON_HOLD" /\ kind'[g.launch[i]] = "task" /\ remaining'[g.launch[i]] <= 0
    <3>1. CASE g.launch[i] = d
      BY <1>2, <1>7, <1>8, <3>1
    <3>2. CASE i \in DOMAIN f.launch /\ g.launch[i] = f.launch[i]
      BY <1>2, <1>8, <1>11, <3>2
    <3>. QED BY <1>10, <3>1, <3>2
  <2>3. \A i, j \in DOMAIN g.launch : g.launch[i] = g.launch[j] => i = j
    <3>1. \A i, j \in DOMAIN f.launch : f.launch[i] = f.launch[j] => i = j
      BY <1>3, <1>9 DEF FrameGood, Launches
    <3>. QED BY <1>10, <1>11, <3>1
  <2>4. Launches(g)'
    BY <1>6, <1>9, <2>2, <2>3 DEF Launches
  <2>. QED BY <1>6, <1>9, <2>1, <2>4 DEF FrameGood, Claims, Helps
<1>13. \A e \in Frames \ {f} : Apart(g, e)
  <2>. SUFFICES ASSUME NEW e \in Frames \ {f}, e.pc \in Launching, NEW i \in DOMAIN g.launch, NEW j \in DOMAIN e.launch
                PROVE  g.launch[i] # e.launch[j]
    BY <1>6, <1>9 DEF Apart
  <2>1. CASE g.launch[i] = d
    <3>1. remaining[e.launch[j]] <= 0
      BY <1>3 DEF FrameGood, Launches
    <3>. QED BY <1>2, <2>1, <3>1
  <2>2. CASE i \in DOMAIN f.launch /\ g.launch[i] = f.launch[i]
    BY <1>3, <1>9, <2>2 DEF Apart
  <2>. QED BY <1>10, <2>1, <2>2
<1>14. stack' \in [Thread -> Seq(FrameRec)] /\ OneFrame' /\ Frames' = (Frames \ {f}) \cup {g}
  BY <1>2, <1>3, <1>5, <1>6, GotoFrames DEF f
<1>15. CallsInv'
  <2>1. \A x \in Invoker : Same(x)
    <3>1. ASSUME NEW x \in Invoker PROVE remaining'[x] <= remaining[x]
      BY <1>2, <1>5, <1>8
    <3>. QED BY <1>2, <3>1 DEF Same
  <2>2. Replaces({}, {f}, {g})
    BY <1>6, <1>14, <2>1 DEF Replaces, Untouched
  <2>3. NewFrames({f}, {g})
    BY <1>12, <1>13 DEF NewFrames
  <2>4. NewHandles({}, {g})
    BY <1>6, <1>9 DEF NewHandles
  <2>. QED BY <1>5, <1>8, <1>14, <2>2, <2>3, <2>4, StepCalls
<1>16. DequeKept /\ VarsOK'
  BY <1>2, <1>5, <1>8 DEF DequeKept, queueVars, VarsOK, threadVars, controlVars, lockVars
<1>17. QueueInv'
  BY <1>14, <1>15, <1>16, KeepsDeque
<1>. QED BY <1>2, <1>6, <1>14, <1>16, <1>17 DEF f

(***************************************************************************)
(* push_control                                                            *)
(***************************************************************************)
LEMMA ControlInlineKeeps ==
  ASSUME QueueInv, NEW th \in Thread, script' = script, ControlInline(th)
  PROVE  /\ QueueInv' /\ UNCHANGED <<invoker_queue, invoker_index, remaining, dependents, kind, bound>>
         /\ LET f == Top(th) IN
            \E h : /\ At(th, "controls") /\ ~must_wait(f.todo) /\ Starts(f.tgt, h) /\ Enter(th, NextCall(f), h)
                   /\ h \in FrameRec /\ NextCall(f) \in FrameRec /\ Frames' = (Frames \ {f}) \cup {NextCall(f), h}
<1>. DEFINE f == Top(th)
<1>1. PICK t, g, h : t = f.tgt /\ g = NextCall(f) /\ h = [Invocation(t) EXCEPT !.flag = TRUE]
  OBVIOUS
<1>2. /\ At(th, "controls") /\ ~must_wait(f.todo) /\ Start(t) /\ Enter(th, g, h)
      /\ UNCHANGED <<queueVars, futureVars, threadVars, controlVars, lockVars, worker>>
  BY <1>1 DEF ControlInline
<1>3. f \in FrameRec /\ FrameGood(f) /\ f.pc = "controls" /\ stack[th] # <<>> /\ f \in Frames /\ f.launch = <<>>
  BY <1>2, AtFrame DEF Launching
<1>4. f.pc \in Claiming /\ "controls" \notin Ending
  BY <1>3 DEF Claiming, Ending
<1>5. /\ t \in Invoker /\ status[t] = "CONSTRUCTING" /\ kind[t] # "none" /\ f.run # t
      /\ \A e \in Frames \ {f} : Untouched({t}, e)
      /\ \A x \in Invoker : Pending(x) => bound[x].inv # t
  BY <1>1, <1>3, <1>4, ClaimedIsFree
<1>6. VarsOK /\ status \in [Invoker -> Status] /\ runs \in [Invoker -> Nat] /\ remaining \in [Invoker -> Int]
  BY DEF QueueInv, QueueTypeOK, VarsOK
<1>7. UNCHANGED <<invoker_queue, invoker_index, remaining, dependents, kind, bound>>
  BY <1>2 DEF queueVars, futureVars
<1>8. Starts(t, h)
  BY <1>1, <1>2, <1>5, <1>7 DEF Starts
<1>9. g \in FrameRec /\ g.run = f.run /\ g.pc = "body" /\ g.launch = <<>>
  BY <1>1, <1>3, NextCallFrame
<1>10. "body" \notin Ending \cup Claiming \cup Helping \cup Invoking \cup Launching
  BY DEF Ending, Claiming, Helping, Invoking, Launching, Registering, Resizes
<1>. HIDE DEF f
<1>11. status' = [status EXCEPT ![t] = "RUNNING"] /\ runs' = [runs EXCEPT ![t] = @ + 1]
  BY <1>2 DEF Start
<1>12. FrameGood(g)'
  <2>1. f.run \in Invoker => status[f.run] = "RUNNING"
    BY <1>3, <1>4 DEF FrameGood, Running
  <2>2. f.run \in Invoker => status'[f.run] = "RUNNING"
    BY <1>5, <1>6, <1>11, <2>1
  <2>. QED BY <1>9, <1>10, <2>2 DEF FrameGood, Running, Claims, Helps, Launches
<1>13. CallsInv' /\ stack' \in [Thread -> Seq(FrameRec)] /\ Frames' = (Frames \ {f}) \cup {g, h}
  <2>1. stack[th] # <<>> /\ g \in FrameRec /\ g.run = Top(th).run /\ Enter(th, g, h) /\ g.pc \notin Claiming
    BY <1>2, <1>3, <1>9, <1>10 DEF f
  <2>2. \A e \in Frames \ {Top(th)} : Untouched({t}, e) /\ Apart(g, e)
    BY <1>5, <1>9, <1>10 DEF f, Apart
  <2>3. remaining' \in [Invoker -> Int] /\ \A x \in Invoker : x # t => remaining'[x] = remaining[x]
    BY <1>6, <1>7
  <2>4. \A x \in Invoker : x # t /\ Pending(x) => bound[x].inv # t
    BY <1>5
  <2>. QED BY <1>8, <1>12, <2>1, <2>2, <2>3, <2>4, StartCalls DEF f
<1>14. DequeInv'
  <2>1. \A x \in Invoker : status'[x] = "ENQUEUED" <=> status[x] = "ENQUEUED"
    BY <1>5, <1>6, <1>11
  <2>. QED BY <1>7, <2>1, StatusDeque
<1>15. VarsOK'
  <2>1. status' \in [Invoker -> Status] /\ runs' \in [Invoker -> Nat]
    BY <1>5, <1>6, <1>11 DEF Status
  <2>. QED BY <1>2, <1>6, <1>7, <2>1 DEF VarsOK, threadVars, controlVars, lockVars
<1>16. h \in FrameRec
  BY <1>8, StartedFrame
<1>17. QueueInv'
  BY <1>13, <1>14, <1>15 DEF QueueInv, QueueTypeOK
<1>. QED BY <1>1, <1>2, <1>7, <1>8, <1>9, <1>13, <1>16, <1>17 DEF f

\* The two ways into the deque for an invoker that a frame has for itself.
PushesBack(t) == /\ invoker_index' = [invoker_index EXCEPT ![t] = back_invoker_index + 1]
                 /\ invoker_queue' = Append(invoker_queue, t)
PushesFront(t) == /\ invoker_index' = [invoker_index EXCEPT ![t] =
                       IF invoker_queue = <<>> THEN 0 ELSE front_invoker_index - 1]
                  /\ invoker_queue' = Cons(t, invoker_queue)

LEMMA PushFront ==
  ASSUME QueueInv, NEW t \in Invoker, ~In(invoker_queue, t), PushesFront(t)
  PROVE  /\ Sound(invoker_queue', invoker_index') /\ invoker_index' \in [Invoker -> Int]
         /\ \A x \in Invoker : In(invoker_queue', x) <=> In(invoker_queue, x) \/ x = t
<1>. DEFINE q == invoker_queue
            old == invoker_index
<1>1. Sound(q, old) /\ old \in [Invoker -> Int]
  BY DEF QueueInv, DequeInv, QueueTypeOK, VarsOK
<1>2. PICK l, base : l = <<t>> /\ base = IF q = <<>> THEN 1 ELSE old[q[1]]
  OBVIOUS
<1>3. q # <<>> => q[1] \in Invoker /\ q[1] # NULL /\ old[q[1]] \in Int /\ front_invoker_index = old[q[1]]
  <2>. SUFFICES ASSUME q # <<>> PROVE q[1] \in Invoker /\ q[1] # NULL /\ old[q[1]] \in Int /\ front_invoker_index = old[q[1]]
    OBVIOUS
  <2>1. q \in Seq(Queued) /\ q[1] # NULL /\ 1 \in DOMAIN q
    BY <1>1 DEF Sound, Queued
  <2>2. q[1] \in Invoker
    BY <2>1 DEF Queued
  <2>3. SelectInSeq(q, IsTask) = 1
    <3>1. PICK n : n = SelectInSeq(q, IsTask)
      OBVIOUS
    <3>2. /\ n = 0 => \A i \in DOMAIN q : q[i] = NULL
          /\ n # 0 => n \in DOMAIN q /\ q[n] # NULL /\ \A i \in DOMAIN q : i < n => q[i] = NULL
      BY <2>1, <3>1, FirstTask
    <3>3. n # 0
      BY <2>1, <3>2
    <3>4. ~(1 < n) /\ n \in 1 .. Len(q)
      BY <2>1, <3>2, <3>3
    <3>. QED BY <3>1, <3>4
  <2>. QED BY <1>1, <2>1, <2>2, <2>3 DEF front_invoker_index
<1>4. invoker_index' = [old EXCEPT ![t] = base - 1]
  <2>1. PICK k : k = IF q = <<>> THEN 0 ELSE front_invoker_index - 1
    OBVIOUS
  <2>2. invoker_index' = [old EXCEPT ![t] = k]
    BY <2>1 DEF PushesFront
  <2>3. k = base - 1
    BY <1>2, <1>3, <2>1
  <2>. QED BY <2>2, <2>3
<1>5. base \in Int /\ (q # <<>> => base = old[q[1]])
  BY <1>2, <1>3
<1>6. invoker_queue' = <<t>> \o q
  BY DEF PushesFront, Cons
<1>7. l \in Seq(Invoker) /\ Len(l) = 1 /\ DOMAIN l = {1} /\ l[1] = t
  BY <1>2
<1>8. q \in Seq(Queued) /\ Len(q) \in Nat /\ t \in Queued
  BY <1>1 DEF Sound, Queued
<1>9. /\ invoker_queue' \in Seq(Queued) /\ Len(invoker_queue') = 1 + Len(q) /\ invoker_queue'[1] = t
      /\ \A i \in 1 .. Len(q) : invoker_queue'[1 + i] = q[i]
  BY <1>6, <1>8
<1>. HIDE DEF q, old
<1>10. Prepended(q, old, l, base, invoker_index', invoker_queue')
  <2>1. \A i \in DOMAIN l : invoker_index'[l[i]] = base - i
    BY <1>1, <1>4, <1>7
  <2>2. \A x \in Invoker : ~In(l, x) => invoker_index'[x] = old[x]
    BY <1>1, <1>4, <1>7 DEF In
  <2>3. \A i \in 1 .. Len(l) : invoker_queue'[i] = l[Len(l) - i + 1]
    BY <1>7, <1>9
  <2>4. \A i \in DOMAIN l : ~In(q, l[i])
    BY <1>7 DEF q
  <2>. QED BY <1>5, <1>7, <1>9, <2>1, <2>2, <2>3, <2>4 DEF Prepended
<1>11. Sound(invoker_queue', invoker_index') /\ \A x \in Invoker : In(invoker_queue', x) <=> In(q, x) \/ In(l, x)
  BY <1>1, <1>10, PushFronts
<1>12. \A x \in Invoker : In(l, x) <=> x = t
  BY <1>7 DEF In
<1>13. invoker_index' \in [Invoker -> Int]
  BY <1>1, <1>4, <1>5
<1>. QED BY <1>11, <1>12, <1>13 DEF q

LEMMA EnqueueDeque ==
  ASSUME QueueInv, NEW t \in Invoker, status[t] # "ENQUEUED", status' = [status EXCEPT ![t] = "ENQUEUED"],
         PushesBack(t) \/ PushesFront(t)
  PROVE  DequeInv' /\ invoker_queue' \in Seq(Invoker \cup {NULL}) /\ invoker_index' \in [Invoker -> Int]
         /\ status' \in [Invoker -> Status]
<1>1. /\ Sound(invoker_queue, invoker_index) /\ status \in [Invoker -> Status] /\ invoker_index \in [Invoker -> Int]
      /\ \A x \in Invoker : status[x] = "ENQUEUED" <=> In(invoker_queue, x)
  BY DEF QueueInv, QueueTypeOK, VarsOK, DequeInv
<1>2. ~In(invoker_queue, t)
  BY <1>1
<1>3. /\ Sound(invoker_queue', invoker_index') /\ invoker_index' \in [Invoker -> Int]
      /\ \A x \in Invoker : In(invoker_queue', x) <=> In(invoker_queue, x) \/ x = t
  <2>1. CASE PushesBack(t)
    BY <1>1, <1>2, <2>1, PushBack DEF PushesBack
  <2>2. CASE PushesFront(t)
    BY <1>2, <2>2, PushFront
  <2>. QED BY <2>1, <2>2
<1>4. \A x \in Invoker : status'[x] = "ENQUEUED" <=> In(invoker_queue', x)
  BY <1>1, <1>3
<1>5. DequeInv'
  BY <1>3, <1>4 DEF DequeInv, Sound, Distinct, Ordered, In
<1>6. status' \in [Invoker -> Status]
  BY <1>1 DEF Status
<1>. QED BY <1>3, <1>5, <1>6 DEF Sound

\* PushTarget and ControlEnqueue.
EnqueueStep(th) == PushTarget(th) \/ ControlEnqueue(th)
LEMMA EnqueueKeeps ==
  ASSUME QueueInv, NEW th \in Thread, script' = script, EnqueueStep(th)
  PROVE  LET f == Top(th) g == [Top(th) EXCEPT !.pc = "notify"] IN
         /\ QueueInv' /\ status' = [status EXCEPT ![f.tgt] = "ENQUEUED"]
         /\ At(th, "push") \/ (At(th, "controls") /\ ~must_wait(f.todo))
         /\ UNCHANGED <<futureVars, threadVars, controlVars, lockVars, worker, runs>>
         /\ g \in FrameRec /\ Goto(th, g) /\ Frames' = (Frames \ {f}) \cup {g}
<1>. DEFINE f == Top(th)
<1>1. PICK t, g : t = f.tgt /\ g = [f EXCEPT !.pc = "notify"]
  OBVIOUS
<1>2. /\ At(th, "push") \/ (At(th, "controls") /\ ~must_wait(f.todo))
      /\ PushesBack(t) \/ PushesFront(t)
      /\ status' = [status EXCEPT ![t] = "ENQUEUED"] /\ Goto(th, g)
      /\ UNCHANGED <<futureVars, threadVars, controlVars, lockVars, worker, runs>>
  BY <1>1 DEF EnqueueStep, PushTarget, ControlEnqueue, emplace_back, PushesBack, PushesFront
<1>3. f \in FrameRec /\ FrameGood(f) /\ f.pc \in {"push", "controls"} /\ stack[th] # <<>> /\ f \in Frames /\ f.launch = <<>>
  BY <1>2, AtFrame DEF Launching
<1>4. f.pc \in Claiming \ Ending
  BY <1>3 DEF Claiming, Ending
<1>5. /\ t \in Invoker /\ status[t] = "CONSTRUCTING" /\ kind[t] # "none" /\ f.run # t
      /\ \A e \in Frames \ {f} : Untouched({t}, e)
      /\ \A x \in Invoker : Pending(x) => bound[x].inv # t
  BY <1>1, <1>3, <1>4, ClaimedIsFree
<1>6. VarsOK /\ status \in [Invoker -> Status] /\ runs \in [Invoker -> Nat] /\ Handles /\ StatusGood(t)
  BY <1>5 DEF QueueInv, QueueTypeOK, VarsOK, CallsInv, Statuses
<1>7. UNCHANGED <<remaining, dependents, kind, bound>>
  BY <1>2 DEF futureVars
<1>8. g \in FrameRec /\ g.run = f.run /\ g.pc = "notify" /\ g.launch = <<>>
  <2>1. "notify" \in Pc
    BY DEF Pc
  <2>. QED BY <1>1, <1>3, <2>1, MovedFrame
<1>9. "notify" \notin Ending \cup Claiming \cup Helping \cup Invoking \cup Launching
  BY DEF Ending, Claiming, Helping, Invoking, Launching, Registering, Resizes
<1>. HIDE DEF f
<1>10. FrameGood(g)'
  <2>1. f.run \in Invoker => status[f.run] = "RUNNING"
    BY <1>3, <1>4 DEF FrameGood, Running
  <2>2. f.run \in Invoker => status'[f.run] = "RUNNING"
    BY <1>2, <1>5, <1>6, <2>1
  <2>. QED BY <1>8, <1>9, <2>2 DEF FrameGood, Running, Claims, Helps, Launches
<1>11. NewHandles({t}, {g})
  <2>1. ASSUME Pending(t)'
        PROVE  /\ Handled(t, bound[t].inv)'
               /\ \A x \in Invoker : Pending(x)' /\ x # t => bound'[x].inv # bound'[t].inv
    <3>1. Pending(t)
      BY <1>5, <1>7, <2>1 DEF Pending
    <3>2. PICK y : y = bound[t].inv /\ Handled(t, y)
      BY <1>5, <1>6, <3>1 DEF Handles
    <3>3. y \in Invoker /\ y # t /\ status'[y] = "CONSTRUCTING"
      BY <1>2, <1>5, <1>6, <3>1, <3>2 DEF Handled
    <3>4. \A e \in Frames' : e.pc \in Claiming => e.tgt # y
      <4>1. Frames' = (Frames \ {f}) \cup {g}
        BY <1>2, <1>3, <1>8, GotoFrames DEF f, QueueInv, CallsInv
      <4>. QED BY <1>8, <1>9, <3>2, <4>1 DEF Handled
    <3>5. Handled(t, y)'
      BY <1>7, <3>2, <3>3, <3>4 DEF Handled
    <3>6. ASSUME NEW x \in Invoker, Pending(x)', x # t PROVE bound'[x].inv # bound'[t].inv
      <4>1. Pending(x)
        BY <1>2, <1>6, <1>7, <3>6 DEF Pending
      <4>. QED BY <1>5, <1>6, <1>7, <3>1, <3>6, <4>1 DEF Handles
    <3>. QED BY <1>7, <3>2, <3>5, <3>6
  <2>. QED BY <1>5, <1>8, <1>9, <2>1 DEF NewHandles
<1>12. StatusGood(t)'
  BY <1>2, <1>5, <1>6, <1>7 DEF StatusGood
<1>13. CallsInv' /\ stack' \in [Thread -> Seq(FrameRec)] /\ Frames' = (Frames \ {f}) \cup {g}
  <2>1. stack[th] # <<>> /\ g.run = Top(th).run /\ Goto(th, g) /\ remaining' = remaining
    BY <1>2, <1>3, <1>7, <1>8 DEF f
  <2>2. \A e \in Frames \ {Top(th)} : Untouched({t}, e) /\ Apart(g, e)
    BY <1>5, <1>8, <1>9 DEF f, Apart
  <2>3. \A x \in Invoker \ {t} : status'[x] = status[x] /\ kind'[x] = kind[x] /\ bound'[x] = bound[x] /\ runs'[x] = runs[x]
    BY <1>2, <1>6, <1>7
  <2>4. {t} \in SUBSET Invoker /\ \A x \in {t} : StatusGood(x)'
    BY <1>5, <1>12
  <2>. QED BY <1>8, <1>10, <1>11, <2>1, <2>2, <2>3, <2>4, TouchCalls DEF f
<1>14. DequeInv' /\ invoker_queue' \in Seq(Invoker \cup {NULL}) /\ invoker_index' \in [Invoker -> Int] /\ status' \in [Invoker -> Status]
  BY <1>2, <1>5, EnqueueDeque
<1>15. VarsOK'
  BY <1>2, <1>6, <1>7, <1>14 DEF VarsOK, threadVars, controlVars, lockVars
<1>16. QueueInv'
  BY <1>13, <1>14, <1>15 DEF QueueInv, QueueTypeOK
<1>. QED BY <1>1, <1>2, <1>8, <1>13, <1>16 DEF f

(***************************************************************************)
(* Allocation                                                              *)
(***************************************************************************)
LEMMA FreshIsFree ==
  ASSUME QueueInv, NEW t \in Invoker, Fresh(t)
  PROVE  /\ status[t] = "CONSTRUCTING" /\ runs[t] = 0 /\ ~Pending(t)
         /\ \A e \in Frames : Untouched({t}, e)
         /\ \A x \in Invoker : Pending(x) => bound[x].inv # t
<1>1. FrameInv /\ Handles /\ StatusGood(t)
  BY DEF QueueInv, CallsInv, Statuses
<1>2. status[t] = "CONSTRUCTING" /\ runs[t] = 0 /\ kind[t] = "none"
  BY <1>1 DEF StatusGood, Fresh
<1>3. ASSUME NEW e \in Frames PROVE Untouched({t}, e)
  BY <1>1, <1>2 DEF FrameInv, FrameGood, Running, Claims, Launches, Untouched
<1>4. ASSUME NEW x \in Invoker, Pending(x) PROVE bound[x].inv # t
  BY <1>1, <1>2, <1>4 DEF Handles, Handled
<1>. QED BY <1>2, <1>3, <1>4 DEF Pending

\* The frame g allocates the invoker t, which is no handle task.
LEMMA AllocCalls ==
  ASSUME QueueInv, NEW th \in Thread, stack[th] # <<>>, NEW t \in Invoker, Fresh(t),
         NEW k \in {"task", "waiter", "control"}, NEW s \in {"CONSTRUCTING", "ENQUEUED"}, script' = script, UNCHANGED <<remaining, runs>>,
         kind' = [kind EXCEPT ![t] = k], status' = [status EXCEPT ![t] = s],
         \A x \in Invoker : x # t => bound'[x] = bound[x],
         NEW g \in FrameRec, g.run = Top(th).run, Goto(th, g), g.launch = <<>>, g.pc \notin Ending \cup {"launch", "wake"},
         g.pc \in Invoking => g.run \in Invoker, Top(th).pc \notin Ending, g.pc \notin Helping,
         g.pc \in Claiming => g.tgt = t /\ s = "CONSTRUCTING" /\ Claims(g)'
  PROVE  CallsInv' /\ stack' \in [Thread -> Seq(FrameRec)] /\ Frames' = (Frames \ {Top(th)}) \cup {g}
<1>1. /\ status[t] = "CONSTRUCTING" /\ runs[t] = 0 /\ ~Pending(t)
      /\ \A e \in Frames : Untouched({t}, e)
      /\ \A x \in Invoker : Pending(x) => bound[x].inv # t
  BY FreshIsFree
<1>2. /\ kind \in [Invoker -> Kind] /\ status \in [Invoker -> Status] /\ runs \in [Invoker -> Nat] /\ QueueTypeOK /\ CallsInv
      /\ Handles
  BY DEF QueueInv, QueueTypeOK, VarsOK, CallsInv
<1>3. Top(th) \in Frames /\ FrameGood(Top(th)) /\ \A e \in Frames \ {Top(th)} : FrameGood(e)
  BY <1>2, TopIsGood
<1>4. kind'[t] = k /\ status'[t] = s /\ runs'[t] = 0
  BY <1>1, <1>2
<1>5. FrameGood(g)'
  <2>1. Running(g)'
    <3>1. g.run \in Invoker => status[g.run] = "RUNNING" /\ g.run # t
      BY <1>1, <1>3 DEF FrameGood, Running
    <3>2. g.run \in Invoker => status'[g.run] = "RUNNING"
      BY <1>2, <3>1
    <3>. QED BY <3>2 DEF Running
  <2>2. Launches(g)' /\ Helps(g)'
    <3>1. g.launch = <<>> /\ DOMAIN g.launch = {}
      OBVIOUS
    <3>. QED BY <3>1 DEF Launches, Helps
  <2>3. Claims(g)'
    BY DEF Claims
  <2>. QED BY <2>1, <2>2, <2>3 DEF FrameGood
<1>6. \A e \in Frames : Untouched({t}, e) /\ Apart(g, e)
  <2>. SUFFICES ASSUME NEW e \in Frames PROVE Apart(g, e)
    BY <1>1
  <2>1. g.launch = <<>> /\ DOMAIN g.launch = {}
    OBVIOUS
  <2>. QED BY <1>1, <2>1 DEF Apart, Untouched
<1>7. NewHandles({t}, {g})
  <2>1. ~Pending(t)'
    BY <1>4 DEF Pending
  <2>. QED BY <1>1, <2>1 DEF NewHandles
<1>8. \A x \in {t} : StatusGood(x)'
  BY <1>4 DEF StatusGood
<1>9. \A x \in Invoker \ {t} : status'[x] = status[x] /\ kind'[x] = kind[x] /\ bound'[x] = bound[x] /\ runs'[x] = runs[x]
  BY <1>2
<1>10. {t} \in SUBSET Invoker
  OBVIOUS
<1>. QED BY <1>5, <1>6, <1>7, <1>8, <1>9, <1>10, TouchCalls

LEMMA PushKeeps ==
  ASSUME QueueInv, NEW th \in Thread, script' = script, Push(th)
  PROVE  LET f == Top(th) g == [Top(th) EXCEPT !.pc = "notify"] IN
         /\ QueueInv' /\ AtCall(th, "push") /\ CallOf(f).inv \in Invoker /\ CallOf(f).call = "push"
         /\ g \in FrameRec /\ Goto(th, g) /\ Frames' = (Frames \ {f}) \cup {g}
<1>. DEFINE f == Top(th)
<1>1. PICK t, g : t = CallOf(f).inv /\ g = [f EXCEPT !.pc = "notify"]
  OBVIOUS
<1>2. /\ AtCall(th, "push") /\ Fresh(t) /\ PushesBack(t) /\ status' = [status EXCEPT ![t] = "ENQUEUED"]
      /\ kind' = [kind EXCEPT ![t] = "task"] /\ bound' = [bound EXCEPT ![t] = CallOf(f)]
      /\ Goto(th, g) /\ UNCHANGED <<remaining, dependents, threadVars, controlVars, lockVars, worker, runs>>
  BY <1>1 DEF Push, emplace_back, PushesBack
<1>3. /\ stack[th] # <<>> /\ f.pc = "body" /\ f \in FrameRec /\ f.launch = <<>>
      /\ CallOf(f) \in Call /\ t \in Invoker /\ CallOf(f).call = "push"
  BY <1>1, <1>2, CallFrame
<1>4. VarsOK
  BY DEF QueueInv, QueueTypeOK
<1>5. g \in FrameRec /\ g.run = f.run /\ g.pc = "notify" /\ g.launch = <<>>
  <2>1. "notify" \in Pc
    BY DEF Pc
  <2>. QED BY <1>1, <1>3, <2>1, MovedFrame
<1>6. "notify" \notin Ending \cup {"launch", "wake"} \cup Claiming \cup Helping \cup Invoking /\ "body" \notin Ending
  BY DEF Ending, Claiming, Helping, Invoking, Registering, Resizes
<1>7. \A x \in Invoker : x # t => bound'[x] = bound[x]
  BY <1>2, <1>4 DEF VarsOK
<1>8. CallsInv' /\ stack' \in [Thread -> Seq(FrameRec)] /\ Frames' = (Frames \ {f}) \cup {g}
  BY <1>2, <1>3, <1>5, <1>6, <1>7, AllocCalls
<1>9. DequeInv' /\ invoker_queue' \in Seq(Invoker \cup {NULL}) /\ invoker_index' \in [Invoker -> Int] /\ status' \in [Invoker -> Status]
  <2>1. status[t] = "CONSTRUCTING"
    BY <1>2, <1>3, FreshIsFree
  <2>. QED BY <1>2, <1>3, <2>1, EnqueueDeque
<1>10. VarsOK'
  <2>1. kind' \in [Invoker -> Kind] /\ bound' \in [Invoker -> Call]
    BY <1>2, <1>3, <1>4 DEF VarsOK, Kind
  <2>. QED BY <1>2, <1>4, <1>9, <2>1 DEF VarsOK, threadVars, controlVars, lockVars
<1>11. QueueInv'
  BY <1>8, <1>9, <1>10 DEF QueueInv, QueueTypeOK
<1>. QED BY <1>1, <1>2, <1>3, <1>5, <1>8, <1>11

LEMMA SetNumberKeeps ==
  ASSUME QueueInv, NEW th \in Thread, script' = script, SetNumberOfThreads(th)
  PROVE  /\ QueueInv' /\ DequeKept /\ AtCall(th, "set_number_of_threads") /\ CallOf(Top(th)).inv \in Invoker
         /\ \E g : /\ g \in FrameRec /\ Goto(th, g) /\ Frames' = (Frames \ {Top(th)}) \cup {g} /\ g.run = Top(th).run
                   /\ g.pc = "controls" /\ g.todo = control_futures /\ g.tgt = CallOf(Top(th)).inv /\ g.ip = Top(th).ip
<1>. DEFINE f == Top(th)
<1>1. PICK t, g : t = CallOf(f).inv /\ g = [f EXCEPT !.pc = "controls", !.todo = control_futures, !.tgt = t]
  OBVIOUS
<1>2. /\ AtCall(th, "set_number_of_threads") /\ Fresh(t)
      /\ kind' = [kind EXCEPT ![t] = "control"] /\ bound' = [bound EXCEPT ![t] = CallOf(f)]
      /\ control_futures' = Append(control_futures, t) /\ Goto(th, g)
      /\ UNCHANGED <<queueVars, remaining, dependents, threadVars, destroying, destroy_lock, lockVars, status, worker, runs>>
  BY <1>1 DEF SetNumberOfThreads
<1>3. /\ stack[th] # <<>> /\ f.pc = "body" /\ f \in FrameRec /\ f.launch = <<>>
      /\ CallOf(f) \in Call /\ t \in Invoker
  BY <1>1, <1>2, CallFrame
<1>4. VarsOK /\ control_futures \in Seq(Invoker)
  BY DEF QueueInv, QueueTypeOK, VarsOK
<1>. HIDE DEF f
<1>5. /\ g \in FrameRec /\ g.run = f.run /\ g.pc = "controls" /\ g.launch = <<>> /\ g.tgt = t
      /\ g.todo = control_futures /\ g.ip = f.ip
  <2>1. "controls" \in Pc
    BY DEF Pc, Claiming
  <2>. QED BY <1>1, <1>3, <1>4, <2>1 DEF FrameRec
<1>6. "controls" \notin Ending \cup {"launch", "wake"} \cup Helping \cup Invoking \cup Registering /\ "body" \notin Ending
  BY DEF Ending, Helping, Invoking, Resizes, Registering
<1>7. /\ \A x \in Invoker : x # t => bound'[x] = bound[x]
      /\ status[t] = "CONSTRUCTING" /\ status' = [status EXCEPT ![t] = "CONSTRUCTING"] /\ kind'[t] = "control"
  <2>1. status[t] = "CONSTRUCTING"
    BY <1>2, <1>3, FreshIsFree
  <2>. QED BY <1>2, <1>3, <1>4, <2>1 DEF VarsOK
<1>8. Claims(g)'
  BY <1>2, <1>3, <1>5, <1>6, <1>7 DEF Claims
<1>9. CallsInv' /\ stack' \in [Thread -> Seq(FrameRec)] /\ Frames' = (Frames \ {f}) \cup {g}
  <2>1. /\ stack[th] # <<>> /\ g.run = Top(th).run /\ Top(th).pc \notin Ending /\ g \in FrameRec /\ g.launch = <<>>
        /\ g.pc \notin Ending \cup {"launch", "wake"} /\ g.pc \notin Invoking /\ g.pc \notin Helping /\ g.tgt = t
    BY <1>3, <1>5, <1>6 DEF f
  <2>2. t \in Invoker /\ Fresh(t) /\ Goto(th, g) /\ UNCHANGED <<remaining, runs>> /\ kind' = [kind EXCEPT ![t] = "control"]
    BY <1>2, <1>3
  <2>3. CallsInv' /\ stack' \in [Thread -> Seq(FrameRec)] /\ Frames' = (Frames \ {Top(th)}) \cup {g}
    BY <1>7, <1>8, <2>1, <2>2, AllocCalls
  <2>. QED BY <2>3 DEF f
<1>10. VarsOK' /\ DequeKept
  <2>1. kind' \in [Invoker -> Kind] /\ bound' \in [Invoker -> Call] /\ control_futures' \in Seq(Invoker)
    BY <1>2, <1>3, <1>4, AppendProperties DEF VarsOK, Kind
  <2>. QED BY <1>2, <1>4, <2>1 DEF VarsOK, threadVars, queueVars, lockVars, DequeKept
<1>11. QueueInv'
  BY <1>9, <1>10, KeepsDeque
<1>. QED BY <1>1, <1>2, <1>3, <1>5, <1>9, <1>10, <1>11 DEF f

LEMMA WaitDecideKeeps ==
  ASSUME QueueInv, NEW th \in Thread, script' = script, WaitDecide(th)
  PROVE  LET f == Top(th) c == CallOf(Top(th)) IN
         /\ QueueInv' /\ DequeKept /\ At(th, "visit") /\ f.todo = <<>> /\ f.ip <= Len(Calls(f.run)) /\ c.call = "wait"
         /\ \/ /\ Goes(th, NextCall(f)) /\ ~(f.flag /\ must_wait(c.on)) /\ kind' = kind
            \/ /\ c.inv \in Invoker /\ Fresh(c.inv) /\ kind' = [kind EXCEPT ![c.inv] = "waiter"]
               /\ \E g : /\ g \in FrameRec /\ Goto(th, g) /\ Frames' = (Frames \ {f}) \cup {g} /\ g.run = f.run
                         /\ g.pc = "register" /\ g.todo = c.on /\ g.tgt = c.inv /\ g.ip = f.ip
<1>. DEFINE f == Top(th)
<1>1. /\ At(th, "visit") /\ f.todo = <<>>
      /\ UNCHANGED <<queueVars, remaining, dependents, bound, threadVars, controlVars, lockVars, status, worker, runs>>
  BY DEF WaitDecide
<1>2. f \in FrameRec /\ FrameGood(f) /\ f.pc = "visit" /\ stack[th] # <<>> /\ f \in Frames /\ f.launch = <<>> /\ script \in Scripts
  BY <1>1, AtFrame DEF Launching
<1>3. f.ip <= Len(Calls(f.run)) /\ CallOf(f).call = "wait"
  BY <1>2 DEF FrameGood, Helps, Helping
<1>4. CallOf(f) \in Call /\ CallOf(f).inv \in Invoker /\ CallOf(f).on \in Seq(Invoker)
  BY <1>2, <1>3, CallOfFrame
<1>5. VarsOK /\ DequeKept
  BY <1>1 DEF QueueInv, QueueTypeOK, DequeKept, queueVars
<1>6. CASE f.flag /\ must_wait(CallOf(f).on)
  <2>1. PICK t, g : t = CallOf(f).inv /\ g = [f EXCEPT !.pc = "register", !.todo = CallOf(f).on, !.tgt = t]
    OBVIOUS
  <2>2. Fresh(t) /\ kind' = [kind EXCEPT ![t] = "waiter"] /\ Goto(th, g)
    BY <1>6, <2>1 DEF WaitDecide
  <2>3. PICK on : on = CallOf(f).on
    OBVIOUS
  <2>4. f \in FrameRec /\ t \in Invoker /\ on \in Seq(Invoker) /\ f.launch = <<>> /\ g = [f EXCEPT !.pc = "register", !.todo = on, !.tgt = t]
    BY <1>2, <1>4, <2>1, <2>3
  <2>5. PICK e : e = f
    OBVIOUS
  <2>. HIDE DEF f
  <2>6. g \in FrameRec /\ g.run = f.run /\ g.pc = "register" /\ g.launch = <<>> /\ g.tgt = t /\ g.todo = on /\ g.ip = f.ip
    <3>1. "register" \in Pc
      BY DEF Pc, Claiming, Registering
    <3>. QED BY <2>4, <3>1 DEF FrameRec
  <2>7. "register" \notin Ending \cup {"launch", "wake"} \cup Helping \cup Invoking \cup {"push", "controls"} /\ "visit" \notin Ending
    BY DEF Ending, Helping, Invoking, Resizes
  <2>8. status[t] = "CONSTRUCTING" /\ status' = [status EXCEPT ![t] = "CONSTRUCTING"] /\ kind'[t] = "waiter"
    <3>1. status[t] = "CONSTRUCTING"
      BY <2>2, <2>4, FreshIsFree
    <3>. QED BY <1>1, <1>5, <2>2, <2>4, <3>1 DEF VarsOK
  <2>9. Claims(g)'
    BY <1>1, <2>4, <2>6, <2>7, <2>8 DEF Claims
  <2>10. CallsInv' /\ stack' \in [Thread -> Seq(FrameRec)] /\ Frames' = (Frames \ {f}) \cup {g}
    <3>1. stack[th] # <<>> /\ g.run = Top(th).run /\ Top(th).pc = "visit"
      BY <1>2, <2>6 DEF f
    <3>2. \A x \in Invoker : x # t => bound'[x] = bound[x]
      BY <1>1
    <3>3. /\ Top(th).pc \notin Ending /\ g \in FrameRec /\ g.launch = <<>> /\ g.tgt = t
          /\ g.pc \notin Ending \cup {"launch", "wake"} /\ g.pc \notin Invoking /\ g.pc \notin Helping
      BY <2>6, <2>7, <3>1
    <3>4. t \in Invoker /\ Fresh(t) /\ Goto(th, g) /\ UNCHANGED <<remaining, runs>> /\ kind' = [kind EXCEPT ![t] = "waiter"]
      BY <1>1, <2>2, <2>4
    <3>5. CallsInv' /\ stack' \in [Thread -> Seq(FrameRec)] /\ Frames' = (Frames \ {Top(th)}) \cup {g}
      BY <2>8, <2>9, <3>1, <3>2, <3>3, <3>4, AllocCalls
    <3>. QED BY <3>5 DEF f
  <2>11. VarsOK'
    <3>1. kind' \in [Invoker -> Kind]
      BY <1>5, <2>2, <2>4 DEF VarsOK, Kind
    <3>. QED BY <1>1, <1>5, <3>1 DEF VarsOK, threadVars, queueVars, lockVars, controlVars
  <2>12. QueueInv'
    BY <1>5, <2>10, <2>11, KeepsDeque
  <2>. QED BY <1>1, <1>3, <1>4, <1>5, <2>1, <2>2, <2>3, <2>6, <2>10, <2>12 DEF f
<1>7. CASE ~(f.flag /\ must_wait(CallOf(f).on))
  <2>1. Goto(th, NextCall(f)) /\ kind' = kind
    BY <1>7 DEF WaitDecide
  <2>2. NextCall(f) \in FrameRec /\ NextCall(f).run = f.run /\ NextCall(f).launch = f.launch /\ NextCall(f).pc = "body"
    BY <1>2, NextCallFrame
  <2>3. "visit" \notin Ending /\ "body" \notin Ending \cup Claiming \cup Helping \cup Invoking
    BY DEF Ending, Claiming, Helping, Invoking, Resizes, Registering
  <2>4. Goes(th, NextCall(f))
    BY <1>1, <2>1, <2>2, <2>3, PlainGoes DEF Calm
  <2>5. VarsOK'
    BY <1>1, <1>5, <2>1 DEF VarsOK, threadVars, queueVars, lockVars, controlVars
  <2>6. QueueInv'
    BY <1>5, <2>4, <2>5, GoesKeeps
  <2>. QED BY <1>1, <1>3, <1>5, <1>7, <2>1, <2>4, <2>6
<1>. QED BY <1>6, <1>7

LEMMA PushDependentKeeps ==
  ASSUME QueueInv, NEW th \in Thread, script' = script, PushDependent(th)
  PROVE  LET f == Top(th) c == CallOf(Top(th)) IN
         /\ QueueInv' /\ DequeKept /\ AtCall(th, "push_dependent") /\ c.call = "push_dependent"
         /\ c \in Call /\ c.inv \in Invoker /\ c.aux \in Invoker /\ c.aux # c.inv
         /\ \E g : /\ g \in FrameRec /\ Goto(th, g) /\ Frames' = (Frames \ {f}) \cup {g} /\ g.run = f.run /\ g.pc = "push"
                   /\ g.todo = f.todo /\ g.ip = f.ip /\ g.tgt = IF must_wait(c.on) THEN c.aux ELSE c.inv
<1>. DEFINE f == Top(th)
<1>1. PICK c, inv, aux, t, g : /\ c = CallOf(f) /\ inv = c.inv /\ aux = c.aux
                               /\ t = IF must_wait(c.on) THEN aux ELSE inv
                               /\ g = [f EXCEPT !.pc = "push", !.tgt = t]
  OBVIOUS
<1>2. /\ AtCall(th, "push_dependent") /\ Fresh(inv) /\ Fresh(aux) /\ Goto(th, g)
      /\ kind' = IF must_wait(c.on) THEN [kind EXCEPT ![inv] = "task", ![aux] = "handle"]
                 ELSE [kind EXCEPT ![inv] = "task"]
      /\ bound' = IF must_wait(c.on) THEN [bound EXCEPT ![inv] = c, ![aux] = c]
                  ELSE [bound EXCEPT ![inv] = c]
      /\ UNCHANGED <<queueVars, remaining, dependents, threadVars, controlVars, lockVars, status, worker, runs>>
  BY <1>1 DEF PushDependent
<1>3. /\ stack[th] # <<>> /\ f.pc = "body" /\ f \in FrameRec /\ FrameGood(f) /\ f.launch = <<>> /\ c.call = "push_dependent"
      /\ c \in Call /\ inv \in Invoker /\ aux \in Invoker /\ aux # inv
  BY <1>1, <1>2, CallFrame
<1>4. VarsOK /\ kind \in [Invoker -> Kind] /\ bound \in [Invoker -> Call] /\ status \in [Invoker -> Status]
  BY DEF QueueInv, QueueTypeOK, VarsOK
<1>5. t \in {inv, aux} /\ t \in Invoker
  BY <1>1, <1>3
<1>6. /\ \A x \in {inv, aux} : status[x] = "CONSTRUCTING" /\ runs[x] = 0 /\ ~Pending(x)
      /\ \A e \in Frames : Untouched({inv}, e) /\ Untouched({aux}, e)
      /\ \A x \in Invoker : Pending(x) => bound[x].inv \notin {inv, aux}
  BY <1>2, <1>3, FreshIsFree
<1>7. \A e \in Frames \ {Top(th)} : FrameGood(e)
  BY <1>3, TopIsGood DEF QueueInv
<1>. HIDE DEF f
<1>8. /\ g \in FrameRec /\ g.run = f.run /\ g.pc = "push" /\ g.launch = <<>> /\ g.tgt = t /\ g.todo = f.todo /\ g.ip = f.ip
  <2>1. "push" \in Pc
    BY DEF Pc, Claiming
  <2>. QED BY <1>1, <1>3, <1>5, <2>1 DEF FrameRec
<1>9. /\ "push" \notin Ending \cup {"launch", "wake"} \cup Helping \cup Invoking \cup Registering \cup Launching /\ "body" \notin Ending
  BY DEF Ending, Helping, Invoking, Resizes, Registering, Launching
<1>10. DequeKept
  BY <1>2 DEF DequeKept, queueVars
<1>11. CASE ~must_wait(c.on)
  <2>1. /\ kind' = [kind EXCEPT ![inv] = "task"] /\ bound' = [bound EXCEPT ![inv] = c] /\ t = inv
    BY <1>1, <1>2, <1>11
  <2>2. status' = [status EXCEPT ![inv] = "CONSTRUCTING"] /\ kind'[inv] = "task" /\ status'[inv] = "CONSTRUCTING"
        /\ \A x \in Invoker : x # inv => bound'[x] = bound[x]
    BY <1>2, <1>3, <1>4, <1>6, <2>1
  <2>3. Claims(g)'
    BY <1>3, <1>8, <1>9, <2>1, <2>2 DEF Claims
  <2>4. CallsInv' /\ stack' \in [Thread -> Seq(FrameRec)] /\ Frames' = (Frames \ {Top(th)}) \cup {g}
    <3>1. /\ stack[th] # <<>> /\ g.run = Top(th).run /\ Top(th).pc \notin Ending /\ g \in FrameRec /\ g.launch = <<>>
          /\ g.pc \notin Ending \cup {"launch", "wake"} /\ g.pc \notin Invoking /\ g.pc \notin Helping /\ g.tgt = inv
      BY <1>3, <1>8, <1>9, <2>1 DEF f
    <3>2. inv \in Invoker /\ Fresh(inv) /\ Goto(th, g) /\ UNCHANGED <<remaining, runs>>
      BY <1>2, <1>3
    <3>. QED BY <2>1, <2>2, <2>3, <3>1, <3>2, AllocCalls
  <2>5. VarsOK'
    <3>1. kind' \in [Invoker -> Kind] /\ bound' \in [Invoker -> Call]
      BY <1>3, <1>4, <2>1 DEF Kind
    <3>. QED BY <1>2, <1>4, <3>1 DEF VarsOK, threadVars, queueVars, lockVars, controlVars
  <2>6. QueueInv'
    BY <1>10, <2>4, <2>5, KeepsDeque
  <2>7. Frames' = (Frames \ {f}) \cup {g}
    BY <2>4 DEF f
  <2>. QED BY <1>1, <1>2, <1>3, <1>8, <1>10, <2>6, <2>7 DEF f
<1>12. CASE must_wait(c.on)
  <2>1. /\ kind' = [kind EXCEPT ![inv] = "task", ![aux] = "handle"] /\ bound' = [bound EXCEPT ![inv] = c, ![aux] = c] /\ t = aux
    BY <1>1, <1>2, <1>12
  <2>2. /\ kind'[inv] = "task" /\ kind'[aux] = "handle" /\ bound'[inv] = c /\ bound'[aux] = c /\ status' = status
        /\ runs' = runs /\ remaining' = remaining
        /\ \A x \in Invoker \ {inv, aux} : kind'[x] = kind[x] /\ bound'[x] = bound[x]
    BY <1>2, <1>3, <1>4, <2>1
  <2>3. \A e \in Frames : Untouched({inv, aux}, e) /\ Apart(g, e)
    <3>1. ASSUME NEW e \in Frames PROVE Untouched({inv, aux}, e)
      BY <1>6 DEF Untouched
    <3>2. ASSUME NEW e \in Frames PROVE Apart(g, e)
      BY <1>6, <1>8, <1>9, <2>1 DEF Apart, Untouched
    <3>. QED BY <3>1, <3>2
  <2>4. FrameGood(g)'
    <3>1. Running(g)'
      BY <1>3, <1>8, <1>9, <2>2 DEF FrameGood, Running
    <3>2. Claims(g)'
      BY <1>3, <1>6, <1>8, <1>9, <2>1, <2>2 DEF Claims
    <3>3. Helps(g)' /\ Launches(g)'
      BY <1>8, <1>9 DEF Helps, Launches
    <3>. QED BY <3>1, <3>2, <3>3 DEF FrameGood
  <2>5. stack[th] # <<>> /\ g.run = Top(th).run /\ Frames' = (Frames \ {Top(th)}) \cup {g}
    BY <1>2, <1>3, <1>8, GotoFrames DEF f, QueueInv, CallsInv
  <2>6. NewHandles({inv, aux}, {g})
    <3>1. \A h \in Invoker \ {inv, aux} : Pending(h) =>
            bound[h].inv \notin {inv, aux} /\ \A e \in {g} : e.pc \in Claiming => e.tgt # bound[h].inv
      BY <1>5, <1>6, <1>8
    <3>2. ~Pending(inv)'
      BY <2>2 DEF Pending
    <3>3. Handled(aux, inv)'
      <4>1. \A e \in Frames' : e.pc \in Claiming => e.tgt # inv
        BY <1>3, <1>6, <1>8, <2>1, <2>5 DEF Untouched
      <4>. QED BY <1>3, <1>6, <2>2, <4>1 DEF Handled
    <3>4. ASSUME NEW x \in Invoker, Pending(x)', x # aux PROVE bound'[x].inv # inv
      <4>1. x \notin {inv, aux}
        BY <3>2, <3>4
      <4>2. Pending(x) /\ bound'[x] = bound[x]
        BY <2>2, <3>4, <4>1 DEF Pending
      <4>. QED BY <1>6, <4>2
    <3>5. bound'[aux].inv = inv
      BY <1>1, <2>2
    <3>. QED BY <3>1, <3>2, <3>3, <3>4, <3>5 DEF NewHandles
  <2>7. \A x \in {inv, aux} : StatusGood(x)'
    BY <1>6, <2>2 DEF StatusGood
  <2>8. CallsInv' /\ stack' \in [Thread -> Seq(FrameRec)]
    <3>1. {inv, aux} \in SUBSET Invoker
      BY <1>3
    <3>2. \A x \in Invoker \ {inv, aux} : status'[x] = status[x] /\ kind'[x] = kind[x] /\ bound'[x] = bound[x] /\ runs'[x] = runs[x]
      BY <2>2
    <3>3. \A e \in Frames \ {Top(th)} : Untouched({inv, aux}, e) /\ Apart(g, e)
      BY <2>3
    <3>. QED BY <1>2, <1>8, <2>2, <2>4, <2>5, <2>6, <2>7, <3>1, <3>2, <3>3, TouchCalls
  <2>9. VarsOK'
    <3>1. kind' \in [Invoker -> Kind] /\ bound' \in [Invoker -> Call]
      BY <1>3, <1>4, <2>1 DEF Kind
    <3>. QED BY <1>2, <1>4, <3>1 DEF VarsOK, threadVars, queueVars, lockVars, controlVars
  <2>10. QueueInv'
    BY <1>10, <2>8, <2>9, KeepsDeque
  <2>11. Frames' = (Frames \ {f}) \cup {g}
    BY <2>5 DEF f
  <2>. QED BY <1>1, <1>2, <1>3, <1>8, <1>10, <2>10, <2>11 DEF f
<1>. QED BY <1>11, <1>12

LEMMA FinishKeeps ==
  ASSUME QueueInv, NEW th \in Thread, script' = script, Finish(th)
  PROVE  LET f == Top(th) g == [Top(th) EXCEPT !.pc = "signal"] IN
         /\ QueueInv' /\ f \in Frames /\ f.pc \in {"finish", "body"} /\ f.run \in Invoker /\ status' = [status EXCEPT ![f.run] = "READY"]
         /\ status[f.run] = "RUNNING" /\ stack[th] # <<>>
         /\ \/ f.flag /\ Return(th) /\ Frames' = Frames \ {f}
            \/ ~f.flag /\ g \in FrameRec /\ Goto(th, g) /\ Frames' = (Frames \ {f}) \cup {g}
<1>. DEFINE f == Top(th)
<1>1. PICK t, g : t = f.run /\ g = [f EXCEPT !.pc = "signal"]
  OBVIOUS
<1>2. /\ FunctionReturned(th) /\ future_lock' = [future_lock EXCEPT ![t] = NULL] /\ status' = [status EXCEPT ![t] = "READY"]
      /\ IF f.flag THEN Return(th) ELSE Goto(th, g)
      /\ UNCHANGED <<queueVars, futureVars, threadVars, controlVars, queue_lock, worker, runs>>
  BY <1>1 DEF Finish
<1>3. PICK where \in {"finish", "body"} : At(th, where) /\ (where = "body" => t \in Invoker)
  BY <1>1, <1>2 DEF FunctionReturned
<1>4. f \in FrameRec /\ FrameGood(f) /\ f.pc = where /\ stack[th] # <<>> /\ f \in Frames /\ f.launch = <<>>
  BY <1>3, AtFrame DEF Launching
<1>5. t \in Invoker /\ status[t] = "RUNNING"
  BY <1>1, <1>3, <1>4 DEF FrameGood, Running, Invoking, Ending
<1>6. /\ VarsOK /\ status \in [Invoker -> Status] /\ StatusGood(t) /\ Handles /\ OneFrame /\ QueueTypeOK /\ CallsInv
      /\ remaining \in [Invoker -> Int]
  BY <1>5 DEF QueueInv, QueueTypeOK, VarsOK, CallsInv, Statuses
<1>7. UNCHANGED <<script, kind, bound, remaining, dependents, runs>> /\ UNCHANGED <<invoker_queue, invoker_index>>
  BY <1>2 DEF futureVars, queueVars
<1>8. \A e \in Frames \ {f} : Untouched({t}, e)
  <2>1. \A e \in Frames \ {Top(th)} : FrameGood(e) /\ e.run # Top(th).run
    BY <1>4, <1>6, TopIsGood
  <2>. QED BY <1>1, <1>5, <2>1 DEF FrameGood, Claims, Launches, Untouched
<1>9. StatusGood(t)' /\ {t} \in SUBSET Invoker
  BY <1>2, <1>5, <1>6, <1>7 DEF StatusGood
<1>10. \A x \in Invoker \ {t} : status'[x] = status[x] /\ kind'[x] = kind[x] /\ bound'[x] = bound[x] /\ runs'[x] = runs[x]
  BY <1>2, <1>6, <1>7
<1>11. \A x \in Invoker : Pending(x) => bound[x].inv # t
  BY <1>5, <1>6 DEF Handles, Handled
<1>12. ~Pending(t)'
  BY <1>2, <1>5, <1>6 DEF Pending
<1>13. DequeInv'
  <2>1. \A x \in Invoker : status'[x] = "ENQUEUED" <=> status[x] = "ENQUEUED"
    BY <1>2, <1>5, <1>6
  <2>. QED BY <1>7, <2>1, StatusDeque
<1>14. VarsOK'
  <2>1. status' \in [Invoker -> Status] /\ future_lock' \in [Invoker -> Thread \cup {NULL}]
    BY <1>2, <1>6 DEF VarsOK, Status
  <2>. QED BY <1>2, <1>6, <1>7, <2>1 DEF VarsOK, threadVars, controlVars
<1>15. CASE f.flag
  <2>1. Return(th)
    BY <1>2, <1>15
  <2>2. stack' \in [Thread -> Seq(FrameRec)] /\ OneFrame' /\ Frames' = Frames \ {f}
    BY <1>4, <1>6, <2>1, ReturnFrames
  <2>. HIDE DEF f
  <2>3. Replaces({t}, {f}, {})
    <3>1. \A x \in Invoker \ {t} : Same(x)
      <4>1. \A x \in Invoker : remaining'[x] <= remaining[x]
        BY <1>6, <1>7
      <4>. QED BY <1>10, <4>1 DEF Same
    <3>. QED BY <1>7, <1>8, <1>9, <2>2, <3>1 DEF Replaces
  <2>4. NewFrames({f}, {}) /\ NewHandles({t}, {})
    BY <1>11, <1>12 DEF NewFrames, NewHandles
  <2>5. CallsInv'
    <3>1. remaining' \in [Invoker -> Int] /\ \A x \in {t} : StatusGood(x)'
      BY <1>6, <1>7, <1>9
    <3>. QED BY <1>6, <2>2, <2>3, <2>4, <3>1, StepCalls
  <2>6. QueueInv'
    BY <1>13, <1>14, <2>2, <2>5 DEF QueueInv, QueueTypeOK
  <2>. QED BY <1>1, <1>2, <1>3, <1>4, <1>5, <1>15, <2>1, <2>2, <2>6 DEF f
<1>16. CASE ~f.flag
  <2>1. Goto(th, g)
    BY <1>2, <1>16
  <2>2. "signal" \in Pc /\ "signal" \in Ending /\ "signal" \notin Claiming \cup Helping \cup Launching \cup {"wake"}
    BY DEF Pc, Invoking, Ending, Claiming, Registering, Helping, Launching
  <2>3. g \in FrameRec /\ g.run = t /\ g.pc = "signal" /\ g.launch = <<>>
    BY <1>1, <1>4, <2>2, MovedFrame
  <2>4. FrameGood(g)'
    BY <1>2, <1>5, <1>6, <2>2, <2>3 DEF FrameGood, Running, Claims, Helps, Launches
  <2>5. NewHandles({t}, {g})
    BY <1>11, <1>12, <2>2, <2>3 DEF NewHandles
  <2>6. CallsInv' /\ stack' \in [Thread -> Seq(FrameRec)] /\ Frames' = (Frames \ {Top(th)}) \cup {g}
    <3>1. stack[th] # <<>> /\ g.run = Top(th).run /\ remaining' = remaining /\ \A x \in {t} : StatusGood(x)'
      BY <1>1, <1>4, <1>7, <1>9, <2>3
    <3>2. \A e \in Frames \ {Top(th)} : Untouched({t}, e) /\ Apart(g, e)
      BY <1>8, <2>2, <2>3 DEF Apart
    <3>. QED BY <1>9, <1>10, <2>1, <2>3, <2>4, <2>5, <3>1, <3>2, TouchCalls
  <2>7. QueueInv'
    BY <1>13, <1>14, <2>6 DEF QueueInv, QueueTypeOK
  <2>. QED BY <1>1, <1>2, <1>3, <1>4, <1>5, <1>16, <2>1, <2>3, <2>6, <2>7
<1>. QED BY <1>15, <1>16

(***************************************************************************)
(* Launching                                                               *)
(***************************************************************************)
Position(l, t) == SelectInSeq(l, LAMBDA x : x = t)

LEMMA PositionOf ==
  ASSUME NEW l \in Seq(Invoker), \A i, j \in DOMAIN l : l[i] = l[j] => i = j, NEW k \in DOMAIN l
  PROVE  Position(l, l[k]) = k
<1>. DEFINE I == {i \in 1 .. Len(l) : l[i] = l[k]}
<1>1. Position(l, l[k]) = IF I # {} THEN Min(I) ELSE 0
  BY DEF Position, SelectInSeq
<1>2. I = {k} /\ k \in Nat
  OBVIOUS
<1>3. Min({k}) = k
  BY <1>2 DEF Min
<1>. HIDE DEF I
<1>. QED BY <1>1, <1>2, <1>3

LEMMA LaunchDeque ==
  ASSUME QueueInv, NEW th \in Thread, SignalLaunch(th), NEW l \in Seq(Invoker), l = Top(th).launch,
         \A i, j \in DOMAIN l : l[i] = l[j] => i = j, \A i \in DOMAIN l : status[l[i]] # "ENQUEUED"
  PROVE  /\ DequeInv' /\ invoker_queue' \in Seq(Invoker \cup {NULL}) /\ invoker_index' \in [Invoker -> Int]
         /\ status' = [x \in Invoker |-> IF In(l, x) THEN "ENQUEUED" ELSE status[x]] /\ status' \in [Invoker -> Status]
<1>. DEFINE q == invoker_queue
            old == invoker_index
<1>1. Sound(q, old) /\ old \in [Invoker -> Int] /\ status \in [Invoker -> Status] /\ \A x \in Invoker : status[x] = "ENQUEUED" <=> In(q, x)
  BY DEF QueueInv, DequeInv, QueueTypeOK, VarsOK
<1>2. pop_front_nullptr(q) = q
  BY <1>1, PopNulls DEF Sound, Queued
<1>3. PICK base : base = IF q = <<>> THEN Len(l) ELSE old[Head(q)]
  OBVIOUS
<1>4. /\ invoker_queue' = Reverse(l) \o q
      /\ invoker_index' = [t \in Invoker |-> IF Contains(l, t) THEN base - Position(l, t) ELSE old[t]]
      /\ status' = [t \in Invoker |-> IF Contains(l, t) THEN "ENQUEUED" ELSE status[t]]
  BY <1>2, <1>3, Zenon DEF SignalLaunch, Position
<1>5. q \in Seq(Queued) /\ Len(q) \in Nat /\ Len(l) \in Nat /\ DOMAIN l = 1 .. Len(l)
  BY <1>1 DEF Sound, Queued
<1>6. q # <<>> => Head(q) = q[1] /\ q[1] \in Invoker
  BY <1>1, <1>5 DEF Sound, Queued
<1>7. base \in Int /\ (q # <<>> => base = old[q[1]])
  BY <1>1, <1>3, <1>5, <1>6
<1>8. \A x : Contains(l, x) <=> In(l, x)
  BY <1>5 DEF Contains, In
<1>9. /\ Reverse(l) \in Seq(Queued) /\ Len(Reverse(l)) = Len(l)
      /\ \A i \in 1 .. Len(l) : Reverse(l)[i] = l[Len(l) - i + 1]
  <2>1. \A i \in 1 .. Len(l) : l[(Len(l) - i) + 1] \in Queued
    BY <1>5 DEF Queued
  <2>2. Reverse(l) \in [1 .. Len(l) -> Queued] /\ \A i \in 1 .. Len(l) : Reverse(l)[i] = l[(Len(l) - i) + 1]
    BY <2>1 DEF Reverse
  <2>3. Reverse(l) \in Seq(Queued)
    <3>1. PICK r, n : r = Reverse(l) /\ n = Len(l)
      OBVIOUS
    <3>2. n \in Nat /\ r \in [1 .. n -> Queued]
      BY <1>5, <2>2, <3>1
    <3>3. r \in Seq(Queued)
      BY <3>2, SeqDef
    <3>. QED BY <3>1, <3>3
  <2>4. Len(Reverse(l)) = Len(l)
    BY <1>5, <2>2, <2>3, LenProperties
  <2>. QED BY <2>2, <2>3, <2>4
<1>. HIDE DEF q, old
<1>10. /\ invoker_queue' \in Seq(Queued) /\ Len(invoker_queue') = Len(l) + Len(q)
       /\ \A i \in 1 .. Len(l) : invoker_queue'[i] = l[Len(l) - i + 1]
       /\ \A i \in 1 .. Len(q) : invoker_queue'[Len(l) + i] = q[i]
  <2>1. PICK r : r = Reverse(l)
    OBVIOUS
  <2>2. /\ r \in Seq(Queued) /\ Len(r) = Len(l) /\ invoker_queue' = r \o q
        /\ \A i \in 1 .. Len(l) : r[i] = l[Len(l) - i + 1]
    BY <1>4, <1>9, <2>1
  <2>3. /\ invoker_queue' \in Seq(Queued) /\ Len(invoker_queue') = Len(r) + Len(q)
        /\ \A i \in 1 .. Len(r) + Len(q) : invoker_queue'[i] = IF i <= Len(r) THEN r[i] ELSE q[i - Len(r)]
    <3>1. r \in Seq(Queued) /\ q \in Seq(Queued)
      BY <1>5, <2>2
    <3>2. /\ r \o q \in Seq(Queued) /\ Len(r \o q) = Len(r) + Len(q)
          /\ \A i \in 1 .. Len(r) + Len(q) : (r \o q)[i] = IF i <= Len(r) THEN r[i] ELSE q[i - Len(r)]
      BY <3>1, ConcatProperties
    <3>. QED BY <2>2, <3>2
  <2>4. ASSUME NEW i \in 1 .. Len(q) PROVE invoker_queue'[Len(l) + i] = q[i]
    <3>1. Len(l) + i \in 1 .. Len(r) + Len(q) /\ ~(Len(l) + i <= Len(r)) /\ (Len(l) + i) - Len(r) = i
      BY <1>5, <2>2
    <3>. QED BY <2>3, <3>1
  <2>5. ASSUME NEW i \in 1 .. Len(l) PROVE invoker_queue'[i] = l[Len(l) - i + 1]
    <3>1. i \in 1 .. Len(r) + Len(q) /\ i <= Len(r)
      BY <1>5, <2>2
    <3>. QED BY <2>2, <2>3, <3>1
  <2>. QED BY <2>2, <2>3, <2>4, <2>5
<1>11. \A i \in DOMAIN l : invoker_index'[l[i]] = base - i
  <2>. SUFFICES ASSUME NEW i \in DOMAIN l PROVE invoker_index'[l[i]] = base - i
    OBVIOUS
  <2>1. l[i] \in Invoker /\ Contains(l, l[i]) /\ Position(l, l[i]) = i
    BY <1>8, PositionOf DEF In
  <2>. QED BY <1>4, <2>1
<1>12. \A x \in Invoker : ~In(l, x) => invoker_index'[x] = old[x]
  BY <1>4, <1>8
<1>13. Prepended(q, old, l, base, invoker_index', invoker_queue')
  <2>1. \A i \in DOMAIN l : ~In(q, l[i])
    BY <1>1
  <2>. QED BY <1>7, <1>10, <1>11, <1>12, <2>1 DEF Prepended
<1>14. Sound(invoker_queue', invoker_index') /\ \A x \in Invoker : In(invoker_queue', x) <=> In(q, x) \/ In(l, x)
  BY <1>1, <1>13, PushFronts
<1>15. invoker_index' \in [Invoker -> Int]
  <2>. SUFFICES ASSUME NEW x \in Invoker PROVE invoker_index'[x] \in Int
    BY <1>4
  <2>1. CASE In(l, x)
    <3>1. PICK i \in DOMAIN l : l[i] = x
      BY <2>1 DEF In
    <3>2. invoker_index'[x] = base - i /\ i \in Int
      BY <1>5, <1>11, <3>1
    <3>. QED BY <1>7, <3>2
  <2>2. CASE ~In(l, x)
    BY <1>1, <1>12, <2>2
  <2>. QED BY <2>1, <2>2
<1>16. status' = [x \in Invoker |-> IF In(l, x) THEN "ENQUEUED" ELSE status[x]]
  BY <1>4, <1>8
<1>17. status' \in [Invoker -> Status]
  BY <1>1, <1>16 DEF Status
<1>18. \A x \in Invoker : status'[x] = "ENQUEUED" <=> In(invoker_queue', x)
  BY <1>1, <1>14, <1>16
<1>19. DequeInv'
  BY <1>14, <1>18 DEF DequeInv, Sound, Distinct, Ordered, In
<1>. QED BY <1>10, <1>15, <1>16, <1>17, <1>19 DEF Queued

LEMMA SignalLaunchKeeps ==
  ASSUME QueueInv, NEW th \in Thread, script' = script, SignalLaunch(th)
  PROVE  LET f == Top(th) g == [Top(th) EXCEPT !.pc = "wake"] IN
         /\ QueueInv' /\ At(th, "launch") /\ g \in FrameRec /\ Goto(th, g) /\ Frames' = (Frames \ {f}) \cup {g}
         /\ f.launch \in Seq(Invoker)
         /\ \A i \in DOMAIN f.launch : /\ status[f.launch[i]] = "ON_HOLD" /\ kind[f.launch[i]] = "task"
                                       /\ remaining[f.launch[i]] <= 0 /\ f.launch[i] \in Invoker
         /\ status' = [x \in Invoker |-> IF In(f.launch, x) THEN "ENQUEUED" ELSE status[x]]
<1>. DEFINE f == Top(th)
<1>1. PICK l, g : l = f.launch /\ g = [f EXCEPT !.pc = "wake"]
  OBVIOUS
<1>2. At(th, "launch") /\ Goto(th, g) /\ UNCHANGED <<futureVars, threadVars, controlVars, lockVars, worker, runs>>
  BY <1>1 DEF SignalLaunch
<1>3. f \in FrameRec /\ FrameGood(f) /\ f.pc = "launch" /\ stack[th] # <<>> /\ f \in Frames
  BY <1>2, AtFrame
<1>4. \A e \in Frames \ {f} : FrameGood(e) /\ Apart(f, e) /\ Apart(e, f)
  BY <1>3, TopIsGood DEF QueueInv
<1>5. /\ "launch" \in Launching \cap Ending /\ "wake" \in Pc \cap Ending
      /\ "wake" \notin Claiming \cup Helping \cup Launching
  BY DEF Pc, Invoking, Ending, Claiming, Registering, Helping, Launching
<1>6. g \in FrameRec /\ g.run = f.run /\ g.pc = "wake" /\ g.launch = l
  BY <1>1, <1>3, <1>5, MovedFrame
<1>7. /\ l \in Seq(Invoker) /\ l # <<>> /\ \A i, j \in DOMAIN l : l[i] = l[j] => i = j
      /\ \A i \in DOMAIN l : status[l[i]] = "ON_HOLD" /\ kind[l[i]] = "task" /\ remaining[l[i]] <= 0
  BY <1>1, <1>3, <1>5 DEF FrameGood, Launches, FrameRec
<1>8. \A i \in DOMAIN l : l[i] \in Invoker
  BY <1>7
<1>9. /\ VarsOK /\ status \in [Invoker -> Status] /\ kind \in [Invoker -> Kind] /\ Handles /\ Statuses
  BY DEF QueueInv, QueueTypeOK, VarsOK, CallsInv
<1>10. UNCHANGED <<script, kind, bound, remaining, dependents, runs>>
  BY <1>2 DEF futureVars
<1>11. /\ DequeInv' /\ invoker_queue' \in Seq(Invoker \cup {NULL}) /\ invoker_index' \in [Invoker -> Int]
       /\ status' = [x \in Invoker |-> IF In(l, x) THEN "ENQUEUED" ELSE status[x]] /\ status' \in [Invoker -> Status]
  <2>1. \A i \in DOMAIN l : status[l[i]] # "ENQUEUED"
    BY <1>7
  <2>. QED BY <1>1, <1>7, <2>1, LaunchDeque
<1>. HIDE DEF f
<1>12. PICK T : T = {x \in Invoker : In(l, x)}
  OBVIOUS
<1>13. T \in SUBSET Invoker /\ \A x \in T : status[x] = "ON_HOLD" /\ kind[x] = "task"
  BY <1>7, <1>12 DEF In
<1>14. \A i \in DOMAIN l : l[i] \in T
  BY <1>8, <1>12 DEF In
<1>15. FrameGood(g)'
  <2>1. f.run \in Invoker /\ status[f.run] = "READY"
    BY <1>3, <1>5 DEF FrameGood, Running, Invoking
  <2>2. status'[f.run] = "READY"
    BY <1>11, <1>12, <1>13, <2>1
  <2>. QED BY <1>5, <1>6, <1>7, <2>1, <2>2 DEF FrameGood, Running, Claims, Helps, Launches
<1>16. \A e \in Frames \ {f} : Untouched(T, e) /\ Apart(g, e)
  <2>. SUFFICES ASSUME NEW e \in Frames \ {f} PROVE Untouched(T, e) /\ Apart(g, e)
    OBVIOUS
  <2>1. FrameGood(e) /\ Apart(f, e)
    BY <1>4
  <2>2. Apart(g, e)
    BY <1>5, <1>6 DEF Apart
  <2>3. e.pc \in Launching => \A i \in DOMAIN e.launch : e.launch[i] \notin T
    BY <1>1, <1>3, <1>5, <1>12, <2>1 DEF Apart, In
  <2>4. e.run \notin T /\ (e.pc \in Claiming => e.tgt \notin T)
    BY <1>13, <2>1 DEF FrameGood, Running, Claims
  <2>. QED BY <2>2, <2>3, <2>4 DEF Untouched
<1>17. NewHandles(T, {g})
  <2>1. \A h \in Invoker : Pending(h) => bound[h].inv \notin T
    BY <1>9, <1>13 DEF Handles, Handled
  <2>2. \A h \in T : ~Pending(h)'
    BY <1>10, <1>13 DEF Pending
  <2>. QED BY <1>5, <1>6, <2>1, <2>2 DEF NewHandles
<1>18. \A t \in T : StatusGood(t)'
  <2>. SUFFICES ASSUME NEW t \in T PROVE StatusGood(t)'
    OBVIOUS
  <2>1. t \in Invoker /\ status'[t] = "ENQUEUED" /\ kind'[t] = "task" /\ runs'[t] = runs[t] /\ status[t] = "ON_HOLD"
    BY <1>10, <1>11, <1>12, <1>13
  <2>2. runs[t] = 0
    BY <1>9, <2>1 DEF Statuses, StatusGood
  <2>. QED BY <2>1, <2>2 DEF StatusGood
<1>19. \A x \in Invoker \ T : status'[x] = status[x] /\ kind'[x] = kind[x] /\ bound'[x] = bound[x] /\ runs'[x] = runs[x]
  BY <1>10, <1>11, <1>12
<1>20. CallsInv' /\ stack' \in [Thread -> Seq(FrameRec)] /\ Frames' = (Frames \ {Top(th)}) \cup {g}
  <2>1. stack[th] # <<>> /\ g.run = Top(th).run /\ remaining' = remaining
    BY <1>3, <1>6, <1>10 DEF f
  <2>2. \A e \in Frames \ {Top(th)} : Untouched(T, e) /\ Apart(g, e)
    BY <1>16 DEF f
  <2>. QED BY <1>2, <1>6, <1>13, <1>15, <1>17, <1>18, <1>19, <2>1, <2>2, TouchCalls
<1>21. VarsOK'
  BY <1>2, <1>9, <1>10, <1>11 DEF VarsOK, threadVars, controlVars, lockVars
<1>22. QueueInv'
  BY <1>11, <1>20, <1>21 DEF QueueInv, QueueTypeOK
<1>. QED BY <1>1, <1>2, <1>6, <1>7, <1>8, <1>11, <1>20, <1>22 DEF f

(***************************************************************************)
(* The thread table: what a step does to the stacks                        *)
(***************************************************************************)
Shape(th) ==
  /\ stack' \in [Thread -> Seq(FrameRec)] /\ \A u \in Thread : u # th => stack'[u] = stack[u]
  /\ \A i \in DOMAIN stack'[th] : i < Len(stack'[th]) => Inner(stack'[th][i].pc)

LEMMA GotoShape ==
  ASSUME QueueInv, Mutex, NEW th \in Thread, stack[th] # <<>>, stack' \in [Thread -> Seq(FrameRec)], NEW g, Goto(th, g)
  PROVE  Shape(th) /\ stack'[th] # <<>> /\ Top(th)' = g
<1>. DEFINE s == Append(Front(stack[th]), g)
            n == Len(stack[th])
<1>1. stack \in [Thread -> Seq(FrameRec)] /\ stack[th] \in Seq(FrameRec)
  BY DEF QueueInv, QueueTypeOK
<1>2. /\ Front(stack[th]) \in Seq(FrameRec) /\ Len(Front(stack[th])) = n - 1 /\ n \in Nat \ {0}
      /\ \A i \in 1 .. n - 1 : Front(stack[th])[i] = stack[th][i]
  BY <1>1, FrontOf
<1>3. stack' = [stack EXCEPT ![th] = s] /\ stack'[th] = s
  BY <1>1 DEF Goto
<1>4. PICK r : r = Front(stack[th]) /\ r \in Seq(FrameRec) /\ Len(r) = n - 1 /\ \A i \in 1 .. n - 1 : r[i] = stack[th][i]
  BY <1>2
<1>5. s \in Seq(FrameRec \cup {g}) /\ Len(s) = n /\ s[n] = g /\ \A i \in 1 .. n - 1 : s[i] = stack[th][i]
  <2>1. r \in Seq(FrameRec \cup {g}) /\ g \in FrameRec \cup {g} /\ s = Append(r, g)
    BY <1>4
  <2>. QED BY <1>2, <1>4, <2>1, AppendProperties
<1>. HIDE DEF s
<1>6. s # <<>> /\ DOMAIN s = 1 .. n /\ Last(s) = g
  BY <1>2, <1>5 DEF Last
<1>7. ASSUME NEW i \in DOMAIN s, i < Len(s) PROVE Inner(s[i].pc)
  <2>1. i \in 1 .. n - 1 /\ i \in DOMAIN stack[th] /\ i < Len(stack[th]) /\ s[i] = stack[th][i]
    <3>1. i \in 1 .. n /\ i < n /\ n \in Nat
      BY <1>2, <1>5, <1>6, <1>7
    <3>2. i \in 1 .. n - 1 /\ DOMAIN stack[th] = 1 .. n
      BY <1>1, <3>1
    <3>. QED BY <1>5, <3>1, <3>2
  <2>. QED BY <2>1 DEF Mutex
<1>8. \A u \in Thread : u # th => stack'[u] = stack[u]
  BY <1>1, <1>3
<1>. QED BY <1>3, <1>5, <1>6, <1>7, <1>8 DEF Shape, Top

LEMMA EnterShape ==
  ASSUME QueueInv, Mutex, NEW th \in Thread, stack[th] # <<>>, stack' \in [Thread -> Seq(FrameRec)],
         NEW g, Inner(g.pc), NEW h, Enter(th, g, h)
  PROVE  Shape(th) /\ stack'[th] # <<>> /\ Top(th)' = h
<1>. DEFINE s == Append(Append(Front(stack[th]), g), h)
            n == Len(stack[th])
            S == FrameRec \cup {g, h}
<1>1. stack \in [Thread -> Seq(FrameRec)] /\ stack[th] \in Seq(FrameRec)
  BY DEF QueueInv, QueueTypeOK
<1>2. PICK r : /\ r = Front(stack[th]) /\ r \in Seq(FrameRec) /\ Len(r) = n - 1 /\ n \in Nat \ {0}
               /\ \A i \in 1 .. n - 1 : r[i] = stack[th][i]
  BY <1>1, FrontOf
<1>3. stack' = [stack EXCEPT ![th] = s] /\ stack'[th] = s
  BY <1>1 DEF Enter
<1>4. PICK q : /\ q = Append(r, g) /\ q \in Seq(S) /\ Len(q) = n /\ q[n] = g
               /\ \A i \in 1 .. n - 1 : q[i] = stack[th][i]
  <2>1. r \in Seq(S) /\ g \in S
    BY <1>2
  <2>2. /\ Append(r, g) \in Seq(S) /\ Len(Append(r, g)) = n /\ Append(r, g)[n] = g
        /\ \A i \in 1 .. n - 1 : Append(r, g)[i] = stack[th][i]
    BY <1>2, <2>1, AppendProperties
  <2>. QED BY <2>2
<1>5. s \in Seq(S) /\ Len(s) = n + 1 /\ s[n + 1] = h /\ s[n] = g /\ \A i \in 1 .. n - 1 : s[i] = stack[th][i]
  <2>1. s = Append(q, h) /\ h \in S
    BY <1>2, <1>4
  <2>2. s \in Seq(S) /\ Len(s) = n + 1 /\ s[n + 1] = h /\ \A i \in 1 .. n : s[i] = q[i]
    BY <1>2, <1>4, <2>1, AppendProperties
  <2>. QED BY <1>2, <1>4, <2>2
<1>. HIDE DEF s, S
<1>6. s # <<>> /\ DOMAIN s = 1 .. n + 1 /\ Last(s) = h
  BY <1>2, <1>5 DEF Last
<1>7. ASSUME NEW i \in DOMAIN s, i < Len(s) PROVE Inner(s[i].pc)
  <2>1. CASE i = n
    BY <1>5, <2>1
  <2>2. CASE i # n
    <3>1. i \in 1 .. n - 1 /\ i \in DOMAIN stack[th] /\ i < Len(stack[th]) /\ s[i] = stack[th][i]
      BY <1>1, <1>2, <1>5, <1>6, <1>7, <2>2
    <3>. QED BY <3>1 DEF Mutex
  <2>. QED BY <2>1, <2>2
<1>8. \A u \in Thread : u # th => stack'[u] = stack[u]
  BY <1>1, <1>3
<1>. QED BY <1>3, <1>5, <1>6, <1>7, <1>8 DEF Shape, Top

LEMMA ReturnShape ==
  ASSUME QueueInv, Mutex, NEW th \in Thread, stack[th] # <<>>, stack' \in [Thread -> Seq(FrameRec)], Return(th)
  PROVE  Shape(th) /\ (stack'[th] # <<>> => Inner(Top(th)'.pc))
<1>. DEFINE s == Front(stack[th])
            n == Len(stack[th])
<1>1. stack \in [Thread -> Seq(FrameRec)] /\ stack[th] \in Seq(FrameRec)
  BY DEF QueueInv, QueueTypeOK
<1>2. s \in Seq(FrameRec) /\ Len(s) = n - 1 /\ n \in Nat \ {0} /\ \A i \in 1 .. n - 1 : s[i] = stack[th][i]
  BY <1>1, FrontOf
<1>3. stack' = [stack EXCEPT ![th] = s] /\ stack'[th] = s
  BY <1>1 DEF Return
<1>. HIDE DEF s
<1>4. \A i \in DOMAIN s : Inner(s[i].pc)
  <2>. SUFFICES ASSUME NEW i \in DOMAIN s PROVE Inner(s[i].pc)
    OBVIOUS
  <2>1. i \in 1 .. n - 1 /\ i \in DOMAIN stack[th] /\ i < Len(stack[th]) /\ s[i] = stack[th][i]
    BY <1>1, <1>2
  <2>. QED BY <2>1 DEF Mutex
<1>5. s # <<>> => Len(s) \in DOMAIN s /\ Last(s) = s[Len(s)]
  BY <1>2, EmptySeq DEF Last
<1>6. \A u \in Thread : u # th => stack'[u] = stack[u]
  BY <1>1, <1>3
<1>. QED BY <1>3, <1>4, <1>5, <1>6 DEF Shape, Top

(***************************************************************************)
(* The steps that leave the thread table alone                             *)
(***************************************************************************)
CalmTable ==
  /\ UNCHANGED <<threads, number_of_threads, thread_index, destroy_lock>> /\ (destroying => destroying')
  /\ notify_one \/ notify_all \/ UNCHANGED worker
  /\ \A t \in Invoker : kind[t] # "none" => bound'[t] = bound[t]

LEMMA ResizerFrame ==
  ASSUME QueueInv, NEW th \in Thread, Resizer(th)
  PROVE  /\ Top(th).run \in Invoker /\ kind[Top(th).run] # "none" /\ bound[Top(th).run].n \in Nat
<1>1. stack[th] # <<>> /\ Top(th).pc \in Resizes
  BY DEF Resizer
<1>2. FrameGood(Top(th)) /\ Statuses /\ bound \in [Invoker -> Call]
  BY <1>1, TopIsGood DEF QueueInv, QueueTypeOK, VarsOK, CallsInv
<1>3. Top(th).run \in Invoker /\ status[Top(th).run] \in {"READY", "RUNNING"}
  BY <1>1, <1>2 DEF FrameGood, Running, Invoking
<1>4. bound[Top(th).run] \in Call
  BY <1>2, <1>3
<1>. QED BY <1>2, <1>3, <1>4 DEF Statuses, StatusGood, Call

LEMMA WokenWorkers ==
  ASSUME VarsOK, notify_one \/ notify_all \/ UNCHANGED worker
  PROVE  \A w \in Worker : worker'[w] = worker[w] \/ (worker[w] = "wait" /\ worker'[w] = "pop")
BY DEF notify_one, notify_all, Waiting, VarsOK

LEMMA CalmKeeps ==
  ASSUME QueueInv, TableInv, NEW th \in Thread, Shape(th), CalmTable, ~Resizer(th), ~Resizer(th)',
         stack'[th] # <<>> /\ th \in Worker => worker[th] = "pop"
  PROVE  TableInv'
<1>1. VarsOK
  BY DEF QueueInv, QueueTypeOK
<1>2. \A w \in Worker : worker'[w] = worker[w] \/ (worker[w] = "wait" /\ worker'[w] = "pop")
  BY <1>1, WokenWorkers DEF CalmTable
<1>3. /\ UNCHANGED <<threads, number_of_threads, thread_index, destroy_lock>> /\ (destroying => destroying')
      /\ \A u \in Thread : u # th => stack'[u] = stack[u]
  BY DEF CalmTable, Shape
<1>4. \A u \in Thread : u # th => (Resizer(u)' <=> Resizer(u)) /\ Top(u)' = Top(u)
  BY <1>3 DEF Resizer, Top
<1>5. Mutex'
  <2>1. ASSUME NEW u \in Thread, NEW i \in DOMAIN stack'[u], i < Len(stack'[u]) PROVE Inner(stack'[u][i].pc)
    BY <1>3, <2>1 DEF Shape, TableInv, Mutex
  <2>2. \A u \in Thread : Resizer(u)' <=> destroy_lock' = u
    BY <1>3, <1>4 DEF TableInv, Mutex
  <2>3. ASSUME NEW w \in Worker, stack'[w] # <<>> PROVE worker'[w] = "pop"
    <3>1. worker[w] = "pop"
      BY <1>3, <2>3 DEF TableInv, Mutex, Thread
    <3>. QED BY <1>2, <3>1
  <2>. QED BY <2>1, <2>2, <2>3 DEF Mutex
<1>6. threads \in Seq(Worker)
  BY <1>1 DEF VarsOK
<1>7. \A i \in DOMAIN threads : threads[i] \in Worker
  BY <1>6
<1>8. Entries'
  BY <1>2, <1>3, <1>7 DEF TableInv, Entries
<1>9. Present'
  <2>. SUFFICES ASSUME NEW i \in DOMAIN threads, i <= number_of_threads, worker'[threads[i]] = "exited" PROVE destroying
    BY <1>3 DEF Present
  <2>1. worker[threads[i]] = "exited"
    BY <1>2, <1>7
  <2>. QED BY <2>1 DEF TableInv, Table, Present
<1>10. Table'
  <2>1. destroy_lock' = NULL => Len(threads') = number_of_threads'
    BY <1>3 DEF TableInv, Table
  <2>2. ASSUME NEW u \in Thread, Resizer(u)'
        PROVE  LET n == bound'[Top(u)'.run].n IN
               CASE Top(u)'.pc = "spawn"  -> Len(threads') <= n /\ number_of_threads' = n
                 [] Top(u)'.pc = "shrink" -> n < Len(threads') /\ number_of_threads' = Len(threads')
                 [] OTHER                 -> n < Len(threads') /\ number_of_threads' = n
    <3>1. Resizer(u) /\ Top(u)' = Top(u)
      BY <1>4, <2>2
    <3>2. bound'[Top(u)'.run] = bound[Top(u).run]
      BY <3>1, ResizerFrame DEF CalmTable
    <3>. QED BY <1>3, <3>1, <3>2 DEF TableInv, Table
  <2>. QED BY <1>9, <2>1, <2>2 DEF Table
<1>. QED BY <1>5, <1>8, <1>10 DEF TableInv

LEMMA CalmGoto ==
  ASSUME QueueInv, TableInv, QueueInv', NEW th \in Thread, NEW a, a \notin Resizes, At(th, a),
         NEW g, g.pc \notin Resizes, Goto(th, g), CalmTable
  PROVE  TableInv'
<1>1. stack[th] # <<>> /\ stack' \in [Thread -> Seq(FrameRec)] /\ Mutex /\ ~Resizer(th)
  BY DEF At, QueueInv, QueueTypeOK, TableInv, Resizer
<1>2. Shape(th) /\ Top(th)' = g
  BY <1>1, GotoShape
<1>3. ~Resizer(th)' /\ (th \in Worker => worker[th] = "pop")
  BY <1>1, <1>2 DEF Resizer, Mutex
<1>. QED BY <1>1, <1>2, <1>3, CalmKeeps

LEMMA CalmEnter ==
  ASSUME QueueInv, TableInv, QueueInv', NEW th \in Thread, NEW a, a \notin Resizes, At(th, a),
         NEW g, Inner(g.pc), NEW h, h.pc \notin Resizes, Enter(th, g, h), CalmTable
  PROVE  TableInv'
<1>1. stack[th] # <<>> /\ stack' \in [Thread -> Seq(FrameRec)] /\ Mutex /\ ~Resizer(th)
  BY DEF At, QueueInv, QueueTypeOK, TableInv, Resizer
<1>2. Shape(th) /\ Top(th)' = h
  BY <1>1, EnterShape
<1>3. ~Resizer(th)' /\ (th \in Worker => worker[th] = "pop")
  BY <1>1, <1>2 DEF Resizer, Mutex
<1>. QED BY <1>1, <1>2, <1>3, CalmKeeps

LEMMA CalmReturn ==
  ASSUME QueueInv, TableInv, QueueInv', NEW th \in Thread, NEW a, a \notin Resizes, At(th, a), Return(th), CalmTable
  PROVE  TableInv'
<1>1. stack[th] # <<>> /\ stack' \in [Thread -> Seq(FrameRec)] /\ Mutex /\ ~Resizer(th)
  BY DEF At, QueueInv, QueueTypeOK, TableInv, Resizer
<1>2. Shape(th) /\ (stack'[th] # <<>> => Inner(Top(th)'.pc))
  BY <1>1, ReturnShape
<1>3. ~Resizer(th)' /\ (th \in Worker => worker[th] = "pop")
  BY <1>1, <1>2 DEF Resizer, Resizes, Inner, Mutex
<1>. QED BY <1>1, <1>2, <1>3, CalmKeeps

LEMMA StartsOutside ==
  ASSUME QueueInv, NEW t, NEW h, Starts(t, h)
  PROVE  h.pc \notin Resizes
<1>1. t \in Invoker /\ (h = Invocation(t) \/ h = [Invocation(t) EXCEPT !.flag = TRUE])
  BY DEF Starts
<1>2. h.pc \in {"register", "control", "start", "body"}
  BY <1>1, InvocationFrame
<1>. QED BY <1>2 DEF Resizes

LEMMA OutsideResizes ==
  {"push", "notify", "visit", "try", "take", "body", "register", "append", "count", "block", "start", "finish",
   "signal", "dependent", "launch", "wake", "controls", "control", "destroy", "sync"} \cap Resizes = {}
BY DEF Resizes

LEMMA CallTable ==
  ASSUME QueueInv, TableInv, QueueInv', NEW th \in Thread,
         \/ Push(th) \/ PushDependent(th) \/ PushTarget(th) \/ Notify(th) \/ Wait(th) \/ WaitVisit(th)
         \/ WaitLock(th) \/ WaitDecide(th) \/ WaitReturn(th) \/ FutureWait(th)
         \/ Register(th) \/ RegisterAppend(th) \/ RegisterCount(th)
  PROVE  TableInv'
<1>. DEFINE f == Top(th)
<1>1. /\ kind \in [Invoker -> Kind] /\ bound \in [Invoker -> Call]
      /\ \A a : At(th, a) => f \in FrameRec
      /\ \A name : AtCall(th, name) => f \in FrameRec /\ At(th, "body") /\ CallOf(f).call = name
  BY AtFrame, CallFrame DEF QueueInv, QueueTypeOK, VarsOK, AtCall
<1>2. CASE Push(th)
  <2>1. At(th, "body") /\ Goto(th, [f EXCEPT !.pc = "notify"]) /\ f \in FrameRec
    BY <1>1, <1>2 DEF Push
  <2>2. CalmTable
    BY <1>1, <1>2 DEF Push, CalmTable, threadVars, controlVars, Fresh
  <2>3. [f EXCEPT !.pc = "notify"].pc = "notify"
    BY <2>1 DEF FrameRec
  <2>. QED BY <2>1, <2>2, <2>3, CalmGoto, OutsideResizes
<1>3. CASE PushDependent(th)
  <2>1. PICK g : /\ At(th, "body") /\ Goto(th, g) /\ f \in FrameRec
                 /\ \E t : g = [f EXCEPT !.pc = "push", !.tgt = t]
    BY <1>1, <1>3 DEF PushDependent
  <2>2. CalmTable
    BY <1>1, <1>3 DEF PushDependent, CalmTable, threadVars, controlVars, Fresh
  <2>3. g.pc = "push"
    BY <2>1 DEF FrameRec
  <2>. QED BY <2>1, <2>2, <2>3, CalmGoto, OutsideResizes
<1>4. CASE PushTarget(th)
  <2>1. At(th, "push") /\ Goto(th, [f EXCEPT !.pc = "notify"]) /\ f \in FrameRec
    BY <1>1, <1>4 DEF PushTarget
  <2>2. CalmTable
    BY <1>4 DEF PushTarget, CalmTable, threadVars, controlVars, futureVars
  <2>3. [f EXCEPT !.pc = "notify"].pc = "notify"
    BY <2>1 DEF FrameRec
  <2>. QED BY <2>1, <2>2, <2>3, CalmGoto, OutsideResizes
<1>5. CASE Notify(th) \/ WaitReturn(th) \/ FutureWait(th)
  <2>1. PICK a \in {"notify", "block", "body"} : At(th, a) /\ Goto(th, NextCall(f))
    BY <1>5 DEF Notify, WaitReturn, FutureWait, AtCall
  <2>2. CalmTable
    BY <1>5 DEF Notify, WaitReturn, FutureWait, CalmTable, threadVars, controlVars, futureVars
  <2>3. NextCall(f).pc = "body"
    BY <1>1, <2>1, NextCallFrame
  <2>. QED BY <2>1, <2>2, <2>3, CalmGoto, OutsideResizes
<1>6. CASE Wait(th) \/ WaitVisit(th) \/ WaitLock(th)
  <2>1. PICK a, g :
          /\ a \in {"body", "visit", "try"} /\ At(th, a) /\ Goto(th, g)
          /\ \/ \E s : g = [f EXCEPT !.pc = "visit", !.todo = s]
             \/ g = Visited(f, FALSE) \/ g = Visited(f, TRUE)
             \/ g = [f EXCEPT !.pc = "try"] \/ g = [f EXCEPT !.pc = "take"]
    BY <1>6 DEF Wait, WaitVisit, WaitLock, AtCall
  <2>2. CalmTable
    <3>1. UNCHANGED <<threads, number_of_threads, thread_index, destroying, destroy_lock, bound>>
      BY <1>6 DEF Wait, WaitVisit, WaitLock, threadVars, controlVars, futureVars
    <3>2. notify_one \/ UNCHANGED worker
      BY <1>6 DEF Wait, WaitVisit, WaitLock
    <3>. QED BY <3>1, <3>2 DEF CalmTable
  <2>3. g.pc \in {"visit", "try", "take"}
    BY <1>1, <2>1 DEF FrameRec, Visited
  <2>. QED BY <2>1, <2>2, <2>3, CalmGoto, OutsideResizes
<1>7. CASE WaitDecide(th)
  <2>1. /\ At(th, "visit")
        /\ Goto(th, NextCall(f)) \/ Goto(th, [f EXCEPT !.pc = "register", !.todo = CallOf(f).on, !.tgt = CallOf(f).inv])
    BY <1>7 DEF WaitDecide
  <2>2. CalmTable
    BY <1>7 DEF WaitDecide, CalmTable, threadVars, controlVars
  <2>3. NextCall(f).pc = "body" /\ [f EXCEPT !.pc = "register", !.todo = CallOf(f).on, !.tgt = CallOf(f).inv].pc = "register"
    BY <1>1, <2>1, NextCallFrame DEF FrameRec
  <2>. QED BY <2>1, <2>2, <2>3, CalmGoto, OutsideResizes
<1>8. CASE Register(th) \/ RegisterAppend(th) \/ RegisterCount(th)
  <2>1. PICK g : RegisterMove(th, g)
    BY <1>8, RegisterMoves DEF RegisterStep
  <2>2. PICK a \in {"register", "append", "count", "controls"} : At(th, a)
    BY <2>1 DEF RegisterMove
  <2>3. g.pc \in {"register", "append", "count"} /\ Goto(th, g)
    BY <2>1 DEF RegisterMove
  <2>4. CalmTable
    BY <1>8 DEF Register, RegisterAppend, RegisterCount, CalmTable, threadVars, controlVars, futureVars
  <2>. QED BY <2>2, <2>3, <2>4, CalmGoto, OutsideResizes
<1>. QED BY <1>2, <1>3, <1>4, <1>5, <1>6, <1>7, <1>8

LEMMA InvokeTable ==
  ASSUME QueueInv, TableInv, QueueInv', NEW th \in Thread,
         \/ InvokeNonVoid(th) \/ Finish(th) \/ Signal(th) \/ SignalDone(th) \/ SignalLaunch(th) \/ SignalWake(th)
  PROVE  TableInv'
<1>. DEFINE f == Top(th)
<1>1. \A a : At(th, a) => f \in FrameRec
  BY AtFrame
<1>2. CalmTable
  <2>1. UNCHANGED <<threads, number_of_threads, thread_index, destroying, destroy_lock, bound>>
    BY DEF InvokeNonVoid, Finish, Signal, SignalDone, SignalLaunch, SignalWake, threadVars, controlVars, futureVars
  <2>2. notify_one \/ UNCHANGED worker
    BY DEF InvokeNonVoid, Finish, Signal, SignalDone, SignalLaunch, SignalWake
  <2>. QED BY <2>1, <2>2 DEF CalmTable
<1>3. PICK a \in {"start", "finish", "body", "signal", "dependent", "launch", "wake"} : At(th, a)
  BY DEF InvokeNonVoid, Finish, FunctionReturned, Signal, SignalDone, SignalLaunch, SignalWake
<1>4. \/ Return(th)
      \/ Goto(th, [f EXCEPT !.pc = "body"]) \/ Goto(th, [f EXCEPT !.pc = "signal"])
      \/ Goto(th, [f EXCEPT !.pc = "dependent", !.todo = dependents[f.run]])
      \/ Goto(th, [f EXCEPT !.pc = "launch"]) \/ Goto(th, [f EXCEPT !.pc = "wake"])
      \/ Goto(th, [f EXCEPT !.launch = Tail(@)]) /\ SignalWake(th)
  BY DEF InvokeNonVoid, Finish, Signal, SignalDone, SignalLaunch, SignalWake
<1>5. ASSUME NEW g, Goto(th, g), g.pc \in {"body", "signal", "dependent", "launch", "wake"} PROVE TableInv'
  BY <1>2, <1>3, <1>5, CalmGoto, OutsideResizes
<1>6. CASE Return(th)
  BY <1>2, <1>3, <1>6, CalmReturn, OutsideResizes
<1>7. /\ [f EXCEPT !.pc = "body"].pc = "body" /\ [f EXCEPT !.pc = "signal"].pc = "signal"
      /\ [f EXCEPT !.pc = "dependent", !.todo = dependents[f.run]].pc = "dependent"
      /\ [f EXCEPT !.pc = "launch"].pc = "launch" /\ [f EXCEPT !.pc = "wake"].pc = "wake"
      /\ SignalWake(th) => [f EXCEPT !.launch = Tail(@)].pc = "wake"
  BY <1>1, <1>3 DEF FrameRec, SignalWake, At
<1>. QED BY <1>4, <1>5, <1>6, <1>7

\* The steps that start an invoker on a stack that is in use.
LEMMA StartTable ==
  ASSUME QueueInv, TableInv, QueueInv', NEW th \in Thread, script' = script,
         WaitTake(th) \/ RegisterSettle(th) \/ SignalDependent(th) \/ ControlInline(th)
  PROVE  TableInv'
<1>. DEFINE f == Top(th)
<1>1. \A a : At(th, a) => f \in FrameRec
  BY AtFrame
<1>2. CalmTable
  <2>1. UNCHANGED <<threads, number_of_threads, thread_index, destroying, destroy_lock, bound>>
    BY DEF WaitTake, RegisterSettle, SignalDependent, ControlInline, threadVars, controlVars, futureVars
  <2>2. notify_one \/ UNCHANGED worker
    BY DEF WaitTake, RegisterSettle, SignalDependent, ControlInline
  <2>. QED BY <2>1, <2>2 DEF CalmTable
<1>3. PICK a \in {"take", "register", "dependent", "controls"} : At(th, a)
  BY DEF WaitTake, RegisterSettle, SignalDependent, ControlInline
<1>4. ASSUME NEW g, Goto(th, g), g.pc \notin Resizes PROVE TableInv'
  BY <1>2, <1>3, <1>4, CalmGoto, OutsideResizes
<1>5. ASSUME NEW g, NEW t, NEW h, Starts(t, h), Enter(th, g, h), Inner(g.pc) PROVE TableInv'
  BY <1>2, <1>3, <1>5, CalmEnter, StartsOutside, OutsideResizes
<1>6. CASE WaitTake(th)
  <2>1. \/ \E t, h : Starts(t, h) /\ Enter(th, Visited(f, FALSE), h)
        \/ Goes(th, Visited(f, TRUE))
    BY <1>6, WaitTakeKeeps
  <2>2. \/ \E t, h : Starts(t, h) /\ Enter(th, Visited(f, FALSE), h)
        \/ Goto(th, Visited(f, TRUE))
    BY <2>1 DEF Goes, Quiet
  <2>3. Visited(f, FALSE).pc = "visit" /\ Visited(f, TRUE).pc = "visit"
    BY <1>1, <1>3 DEF FrameRec, Visited
  <2>. QED BY <1>4, <1>5, <2>2, <2>3, OutsideResizes DEF Inner
<1>7. CASE RegisterSettle(th)
  <2>1. \/ Goto(th, Registered(f))
        \/ \E h : Starts(f.tgt, h) /\ Enter(th, Registered(f), h)
    BY <1>7, RegisterSettleKeeps
  <2>2. Registered(f).pc \in {"block", "body", "finish"}
    BY <1>1, <1>3, RegisteredFrame
  <2>. QED BY <1>4, <1>5, <2>1, <2>2, OutsideResizes DEF Inner
<1>8. CASE SignalDependent(th)
  <2>1. CASE ~was_last_prior(Head(f.todo))
    <3>1. PICK g : Goes(th, g) /\ g.pc = "dependent"
      BY <1>8, <2>1, SignalWaitsKeeps
    <3>2. Goto(th, g)
      BY <3>1 DEF Goes, Quiet
    <3>. QED BY <1>4, <3>1, <3>2, OutsideResizes
  <2>2. CASE was_last_prior(Head(f.todo)) /\ is_high_priority(Head(f.todo))
    <3>1. PICK g, h : g.pc = "dependent" /\ Starts(Head(f.todo), h) /\ Enter(th, g, h)
      BY <1>8, <2>2, SignalStartsKeeps
    <3>. QED BY <1>5, <3>1 DEF Inner
  <2>3. CASE was_last_prior(Head(f.todo)) /\ ~is_high_priority(Head(f.todo))
    <3>1. PICK g : g.pc = "dependent" /\ Goto(th, g)
      BY <1>8, <2>3, SignalAppendsKeeps
    <3>. QED BY <1>4, <3>1, OutsideResizes
  <2>. QED BY <2>1, <2>2, <2>3
<1>9. CASE ControlInline(th)
  <2>1. PICK h : Starts(f.tgt, h) /\ Enter(th, NextCall(f), h)
    BY <1>9, ControlInlineKeeps
  <2>2. NextCall(f).pc = "body"
    BY <1>1, <1>3, NextCallFrame
  <2>. QED BY <1>5, <2>1, <2>2 DEF Inner
<1>. QED BY <1>6, <1>7, <1>8, <1>9

LEMMA ControlTable ==
  ASSUME QueueInv, TableInv, QueueInv', NEW th \in Thread,
         \/ SetNumberOfThreads(th) \/ ControlDepends(th) \/ ControlEnqueue(th) \/ ControlSkip(th)
         \/ DestroyNotify(th) \/ DestroySync(th)
  PROVE  TableInv'
<1>. DEFINE f == Top(th)
<1>1. /\ kind \in [Invoker -> Kind] /\ bound \in [Invoker -> Call]
      /\ \A a : At(th, a) => f \in FrameRec
  BY AtFrame DEF QueueInv, QueueTypeOK, VarsOK
<1>2. CalmTable
  <2>1. CASE SetNumberOfThreads(th)
    BY <1>1, <2>1 DEF SetNumberOfThreads, CalmTable, threadVars, Fresh
  <2>2. CASE ~SetNumberOfThreads(th)
    BY <2>2 DEF ControlDepends, ControlEnqueue, ControlSkip, DestroyNotify, DestroySync, CalmTable, threadVars,
                controlVars, futureVars
  <2>. QED BY <2>1, <2>2
<1>3. PICK a \in {"body", "controls", "control", "destroy", "sync"} : At(th, a)
  BY DEF SetNumberOfThreads, AtCall, ControlDepends, ControlEnqueue, ControlSkip, DestroyNotify, DestroySync
<1>4. \/ Goto(th, [f EXCEPT !.pc = "controls", !.todo = control_futures, !.tgt = CallOf(f).inv])
      \/ Goto(th, [f EXCEPT !.pc = "register"]) \/ Goto(th, [f EXCEPT !.pc = "notify"])
      \/ Goto(th, [f EXCEPT !.pc = "finish"]) \/ Goto(th, [f EXCEPT !.pc = "sync"]) \/ Goto(th, NextCall(f))
  BY DEF SetNumberOfThreads, ControlDepends, ControlEnqueue, ControlSkip, DestroyNotify, DestroySync
<1>5. ASSUME NEW g, Goto(th, g), g.pc \in {"controls", "register", "notify", "finish", "sync", "body"} PROVE TableInv'
  BY <1>2, <1>3, <1>5, CalmGoto, OutsideResizes
<1>6. /\ [f EXCEPT !.pc = "controls", !.todo = control_futures, !.tgt = CallOf(f).inv].pc = "controls"
      /\ [f EXCEPT !.pc = "register"].pc = "register" /\ [f EXCEPT !.pc = "notify"].pc = "notify"
      /\ [f EXCEPT !.pc = "finish"].pc = "finish" /\ [f EXCEPT !.pc = "sync"].pc = "sync"
      /\ NextCall(f).pc = "body"
  BY <1>1, <1>3, NextCallFrame DEF FrameRec
<1>. QED BY <1>4, <1>5, <1>6

(***************************************************************************)
(* The steps of the workers, and those that resize                         *)
(***************************************************************************)
LEMMA WorkerTable ==
  ASSUME QueueInv, TableInv, QueueInv', NEW th \in Worker, script' = script, WorkerHold(th) \/ WorkerPop(th) \/ WorkerExit(th)
  PROVE  TableInv'
<1>0. VarsOK /\ stack \in [Thread -> Seq(FrameRec)] /\ th \in Thread /\ Sound(invoker_queue, invoker_index)
  BY DEF QueueInv, QueueTypeOK, Thread, DequeInv
<1>1. CASE WorkerPop(th)
  <2>1. PICK t, h : Starts(t, h) /\ stack[th] = <<>> /\ worker[th] = "pop" /\ stack' = [stack EXCEPT ![th] = <<h>>]
    BY <1>1, WorkerPopKeeps
  <2>2. stack' \in [Thread -> Seq(FrameRec)]
    BY DEF QueueInv, QueueTypeOK
  <2>3. stack'[th] = <<h>> /\ \A u \in Thread : u # th => stack'[u] = stack[u]
    BY <1>0, <2>1
  <2>4. Shape(th) /\ Top(th)' = h
    BY <2>2, <2>3 DEF Shape, Top, Last
  <2>5. CalmTable
    BY <1>1 DEF WorkerPop, CalmTable, threadVars, controlVars, futureVars
  <2>6. ~Resizer(th) /\ ~Resizer(th)'
    BY <2>1, <2>3, <2>4, StartsOutside DEF Resizer
  <2>. QED BY <1>0, <2>1, <2>4, <2>5, <2>6, CalmKeeps
<1>2. CASE WorkerHold(th) \/ WorkerExit(th)
  <2>1. /\ UNCHANGED <<threads, number_of_threads, thread_index, destroying, destroy_lock, stack, bound>>
        /\ worker[th] = "pop" /\ stack[th] = <<>>
        /\ \E v \in {"wait", "exited"} : worker' = [worker EXCEPT ![th] = v]
    BY <1>2 DEF WorkerHold, WorkerExit, threadVars, controlVars, futureVars
  <2>2. /\ \A w \in Worker : w # th => worker'[w] = worker[w]
        /\ worker'[th] \in {"wait", "exited"}
    BY <1>0, <2>1 DEF VarsOK
  <2>3. (\A u \in Thread : Resizer(u)' <=> Resizer(u)) /\ \A u \in Thread : Top(u)' = Top(u)
    BY <2>1 DEF Resizer, Top
  <2>4. Mutex'
    BY <2>1, <2>2, <2>3 DEF TableInv, Mutex
  <2>5. \A i \in DOMAIN threads : threads[i] \in Worker
    BY <1>0 DEF VarsOK
  <2>6. Entries'
    BY <2>1, <2>2, <2>5 DEF TableInv, Entries
  <2>7. Present'
    <3>. SUFFICES ASSUME NEW i \in DOMAIN threads, i <= number_of_threads, worker'[threads[i]] = "exited" PROVE destroying
      BY <2>1 DEF Present
    <3>1. CASE threads[i] # th
      BY <2>2, <2>5, <3>1 DEF TableInv, Table, Present
    <3>2. CASE threads[i] = th
      <4>1. thread_index[th] = i - 1 /\ i \in Nat /\ number_of_threads \in Nat
        BY <1>0, <3>2 DEF TableInv, Entries, VarsOK
      <4>2. thread_index[th] < number_of_threads
        BY <4>1
      <4>3. WorkerExit(th)
        BY <1>0, <1>2, <2>2, <3>2 DEF WorkerHold, VarsOK
      <4>4. ~on_hold(th) /\ ~can_continue(th, pop_front_nullptr(invoker_queue))
        BY <4>3 DEF WorkerExit
      <4>5. pop_front_nullptr(invoker_queue) = invoker_queue
        BY <1>0, PopNulls DEF Sound, Queued
      <4>. QED BY <4>2, <4>4, <4>5 DEF on_hold, can_continue
    <3>. QED BY <3>1, <3>2
  <2>8. Table'
    BY <2>1, <2>3, <2>7 DEF TableInv, Table
  <2>. QED BY <2>4, <2>6, <2>8 DEF TableInv
<1>. QED BY <1>1, <1>2

LEMMA DestroyTable ==
  ASSUME QueueInv, TableInv, QueueInv', NEW th \in Thread, Destroy(th)
  PROVE  TableInv'
<1>1. At(th, "body") /\ Goto(th, [Top(th) EXCEPT !.pc = "destroy"]) /\ Top(th) \in FrameRec
  BY AtFrame DEF Destroy, AtCall
<1>2. CalmTable
  BY DEF Destroy, CalmTable, threadVars, futureVars
<1>3. [Top(th) EXCEPT !.pc = "destroy"].pc = "destroy"
  BY <1>1 DEF FrameRec
<1>. QED BY <1>1, <1>2, <1>3, CalmGoto, OutsideResizes

\* A thread starts, continues or ends a resize.
LEMMA ResizeStacks ==
  ASSUME QueueInv, TableInv, QueueInv', NEW th \in Thread, NEW a, At(th, a), NEW pc, Goto(th, [Top(th) EXCEPT !.pc = pc]),
         a \in Resizes \/ destroy_lock = NULL,
         destroy_lock' = IF pc \in Resizes THEN th ELSE NULL,
         \A w \in Worker : worker[w] = "pop" => worker'[w] = "pop"
  PROVE  /\ Mutex' /\ Top(th)'.pc = pc /\ Top(th)'.run = Top(th).run /\ (Resizer(th)' <=> pc \in Resizes)
         /\ \A u \in Thread : u # th => ~Resizer(u)'
<1>1. /\ Mutex /\ destroy_lock \in Thread \cup {NULL} /\ NULL \notin Thread
      /\ stack[th] # <<>> /\ Top(th).pc = a /\ Top(th) \in FrameRec /\ stack' \in [Thread -> Seq(FrameRec)]
  BY AtFrame, Constants DEF TableInv, QueueInv, QueueTypeOK, VarsOK
<1>2. PICK g : g = [Top(th) EXCEPT !.pc = pc] /\ Goto(th, g)
  OBVIOUS
<1>3. g.pc = pc /\ g.run = Top(th).run
  BY <1>1, <1>2 DEF FrameRec
<1>4. Shape(th) /\ stack'[th] # <<>> /\ Top(th)' = g
  BY <1>1, <1>2, GotoShape
<1>5. Resizer(th)' <=> pc \in Resizes
  BY <1>3, <1>4 DEF Resizer
<1>6. ASSUME NEW u \in Thread, u # th PROVE ~Resizer(u)'
  <2>1. Resizer(u)' <=> Resizer(u)
    BY <1>4, <1>6 DEF Shape, Resizer, Top
  <2>2. a \in Resizes => destroy_lock = th
    BY <1>1 DEF Mutex, Resizer
  <2>3. destroy_lock # u
    BY <1>1, <1>6, <2>2
  <2>. QED BY <1>1, <2>1, <2>3 DEF Mutex
<1>7. Mutex'
  <2>1. \A u \in Thread : \A i \in DOMAIN stack'[u] : i < Len(stack'[u]) => Inner(stack'[u][i].pc)
    BY <1>1, <1>4 DEF Shape, Mutex
  <2>2. \A u \in Thread : Resizer(u)' <=> destroy_lock' = u
    BY <1>1, <1>5, <1>6
  <2>3. \A w \in Worker : stack'[w] # <<>> => worker'[w] = "pop"
    BY <1>1, <1>4 DEF Shape, Mutex, Thread
  <2>. QED BY <2>1, <2>2, <2>3 DEF Mutex
<1>. QED BY <1>3, <1>4, <1>5, <1>6, <1>7

\* What the thread that starts or continues a resize knows of the table.
Size(th) == bound[Top(th).run].n
LEMMA ResizeFacts ==
  ASSUME QueueInv, TableInv, NEW th \in Thread
  PROVE  /\ VarsOK /\ Len(threads) \in Nat /\ DOMAIN threads = 1 .. Len(threads) /\ number_of_threads \in Nat
         /\ \A i \in DOMAIN threads : threads[i] \in Worker
         /\ \A i, j \in DOMAIN threads : threads[i] = threads[j] => i = j
         /\ At(th, "control") => Size(th) \in Nat
         /\ Resizer(th) => Size(th) \in Nat
         /\ At(th, "spawn") => Len(threads) <= Size(th) /\ number_of_threads = Size(th)
         /\ At(th, "shrink") => Size(th) < Len(threads) /\ number_of_threads = Len(threads)
         /\ At(th, "dismiss") \/ At(th, "join") => Size(th) < Len(threads) /\ number_of_threads = Size(th)
<1>1. VarsOK /\ threads \in Seq(Worker) /\ Entries /\ number_of_threads \in Nat /\ thread_index \in [Worker -> Nat]
  BY DEF QueueInv, QueueTypeOK, VarsOK, TableInv
<1>2. /\ Len(threads) \in Nat /\ DOMAIN threads = 1 .. Len(threads)
      /\ \A i \in DOMAIN threads : threads[i] \in Worker /\ thread_index[threads[i]] = i - 1
  BY <1>1 DEF Entries
<1>3. \A i, j \in DOMAIN threads : threads[i] = threads[j] => i = j
  BY <1>2
<1>4. At(th, "control") => Size(th) \in Nat
  <2>. SUFFICES ASSUME At(th, "control") PROVE Size(th) \in Nat
    OBVIOUS
  <2>1. Top(th).run \in Invoker
    BY AtFrame DEF FrameGood, Running, Invoking
  <2>2. bound[Top(th).run] \in Call
    BY <1>1, <2>1 DEF VarsOK
  <2>. QED BY <2>2 DEF Size, Call
<1>5. Resizer(th) => Size(th) \in Nat
  BY ResizerFrame DEF Size
<1>6. /\ At(th, "spawn") => Len(threads) <= Size(th) /\ number_of_threads = Size(th)
      /\ At(th, "shrink") => Size(th) < Len(threads) /\ number_of_threads = Len(threads)
      /\ At(th, "dismiss") \/ At(th, "join") => Size(th) < Len(threads) /\ number_of_threads = Size(th)
  BY DEF TableInv, Table, Resizer, At, Resizes, Size
<1>. QED BY <1>1, <1>2, <1>3, <1>4, <1>5, <1>6

\* The table after a step of the thread that resizes.
LEMMA ResizeTable ==
  ASSUME NEW th \in Thread, Present', bound' = bound, Top(th)'.run = Top(th).run,
         \A u \in Thread : u # th => ~Resizer(u)',
         destroy_lock' = NULL => Len(threads') = number_of_threads',
         Resizer(th)' => CASE Top(th)'.pc = "spawn"  -> Len(threads') <= Size(th) /\ number_of_threads' = Size(th)
                           [] Top(th)'.pc = "shrink" -> Size(th) < Len(threads') /\ number_of_threads' = Len(threads')
                           [] OTHER                  -> Size(th) < Len(threads') /\ number_of_threads' = Size(th)
  PROVE  Table'
BY DEF Table, Size

LEMMA GrowTable ==
  ASSUME QueueInv, TableInv, QueueInv', NEW th \in Thread, Grow(th) \/ GrowDone(th)
  PROVE  TableInv'
<1>1. PICK a \in {"control", "spawn"}, pc \in {"spawn", "finish"} :
        /\ At(th, a) /\ Goto(th, [Top(th) EXCEPT !.pc = pc])
        /\ a = "control" => /\ pc = "spawn" /\ destroy_lock = NULL /\ Len(threads) < Size(th) /\ destroy_lock' = th
                            /\ number_of_threads' = Size(th)
        /\ a = "spawn" => /\ pc = "finish" /\ Len(threads) = Size(th) /\ destroy_lock' = NULL
                          /\ number_of_threads' = number_of_threads
  <2>1. CASE Grow(th)
    BY <2>1 DEF Grow, Size
  <2>2. CASE GrowDone(th)
    BY <2>2 DEF GrowDone, Size, threadVars
  <2>. QED BY <2>1, <2>2
<1>2. UNCHANGED <<threads, thread_index, worker, destroying, bound>>
  BY DEF Grow, GrowDone, threadVars, futureVars
<1>3. "spawn" \in Resizes /\ "finish" \notin Resizes
  BY DEF Resizes
<1>4. /\ Mutex' /\ Top(th)'.pc = pc /\ Top(th)'.run = Top(th).run /\ (Resizer(th)' <=> pc \in Resizes)
      /\ \A u \in Thread : u # th => ~Resizer(u)'
  BY <1>1, <1>2, <1>3, ResizeStacks
<1>5. Entries'
  BY <1>2 DEF TableInv, Entries
<1>6. /\ Len(threads) \in Nat /\ DOMAIN threads = 1 .. Len(threads) /\ number_of_threads \in Nat
      /\ At(th, "control") => Size(th) \in Nat
      /\ At(th, "spawn") => Len(threads) <= Size(th) /\ number_of_threads = Size(th)
  BY ResizeFacts
<1>7. a = "control" => number_of_threads = Len(threads)
  BY <1>1 DEF TableInv, Table
<1>8. Present'
  BY <1>1, <1>2, <1>6, <1>7 DEF TableInv, Table, Present
<1>9. Table'
  <2>1. destroy_lock' = NULL => Len(threads') = number_of_threads'
    BY <1>1, <1>2, <1>6, Constants
  <2>2. Resizer(th)' => Top(th)'.pc = "spawn" /\ Len(threads') <= Size(th) /\ number_of_threads' = Size(th)
    BY <1>1, <1>2, <1>3, <1>4, <1>6
  <2>. QED BY <1>2, <1>4, <1>8, <2>1, <2>2, ResizeTable
<1>. QED BY <1>4, <1>5, <1>9 DEF TableInv

LEMMA SpawnTable ==
  ASSUME QueueInv, TableInv, QueueInv', NEW th \in Thread, GrowSpawn(th)
  PROVE  TableInv'
<1>1. PICK w \in Worker : /\ worker[w] = "none" /\ worker' = [worker EXCEPT ![w] = "pop"]
                          /\ thread_index' = [thread_index EXCEPT ![w] = Len(threads)] /\ threads' = Append(threads, w)
  <2>1. PICK w : w = CHOOSE v \in Worker : worker[v] = "none"
    OBVIOUS
  <2>2. w \in Worker /\ worker[w] = "none"
    BY <2>1 DEF GrowSpawn
  <2>. QED BY <2>1, <2>2 DEF GrowSpawn, next_index
<1>2. At(th, "spawn") /\ Len(threads) < Size(th) /\ UNCHANGED <<stack, bound, number_of_threads, destroying, destroy_lock>>
  BY DEF GrowSpawn, Size, futureVars, controlVars
<1>3. /\ VarsOK /\ Len(threads) \in Nat /\ DOMAIN threads = 1 .. Len(threads) /\ number_of_threads = Size(th)
      /\ \A i \in DOMAIN threads : threads[i] \in Worker
  BY <1>2, ResizeFacts
<1>4. /\ worker \in [Worker -> {"none", "pop", "wait", "exited"}] /\ thread_index \in [Worker -> Nat] /\ threads \in Seq(Worker)
      /\ Mutex /\ Entries /\ Present
  BY <1>3 DEF VarsOK, TableInv, Table
<1>5. /\ Len(threads') = Len(threads) + 1 /\ DOMAIN threads' = 1 .. Len(threads) + 1
      /\ threads'[Len(threads) + 1] = w /\ \A i \in DOMAIN threads : threads'[i] = threads[i]
  BY <1>1, <1>3, <1>4, AppendProperties
<1>6. /\ worker'[w] = "pop" /\ thread_index'[w] = Len(threads)
      /\ \A v \in Worker : v # w => worker'[v] = worker[v] /\ thread_index'[v] = thread_index[v]
  BY <1>1, <1>4
<1>7. \A i \in DOMAIN threads : threads[i] # w
  BY <1>1, <1>4 DEF Entries
<1>8. (\A u \in Thread : Resizer(u)' <=> Resizer(u)) /\ \A u \in Thread : Top(u)' = Top(u)
  BY <1>2 DEF Resizer, Top
<1>9. Mutex'
  BY <1>1, <1>2, <1>4, <1>6, <1>8 DEF Mutex
<1>10. Entries'
  <2>1. ASSUME NEW i \in DOMAIN threads' PROVE thread_index'[threads'[i]] = i - 1 /\ worker'[threads'[i]] # "none"
    <3>1. CASE i = Len(threads) + 1
      BY <1>3, <1>5, <1>6, <3>1
    <3>2. CASE i # Len(threads) + 1
      <4>1. i \in DOMAIN threads /\ threads'[i] = threads[i] /\ threads[i] # w /\ threads[i] \in Worker
        BY <1>3, <1>5, <1>7, <3>2
      <4>. QED BY <1>4, <1>6, <4>1 DEF Entries
    <3>. QED BY <3>1, <3>2
  <2>2. ASSUME NEW v \in Worker, worker'[v] \in {"pop", "wait"}
        PROVE  thread_index'[v] < Len(threads') /\ threads'[thread_index'[v] + 1] = v
    <3>1. CASE v = w
      BY <1>3, <1>5, <1>6, <3>1
    <3>2. CASE v # w
      <4>1. thread_index[v] < Len(threads) /\ threads[thread_index[v] + 1] = v /\ thread_index'[v] = thread_index[v]
        BY <1>4, <1>6, <2>2, <3>2 DEF Entries
      <4>2. thread_index[v] \in Nat
        BY <1>4
      <4>3. thread_index[v] + 1 \in DOMAIN threads
        BY <1>3, <4>1, <4>2
      <4>. QED BY <1>3, <1>5, <4>1, <4>2, <4>3
    <3>. QED BY <3>1, <3>2
  <2>. QED BY <2>1, <2>2 DEF Entries
<1>11. Present'
  <2>. SUFFICES ASSUME NEW i \in DOMAIN threads', i <= number_of_threads', worker'[threads'[i]] = "exited" PROVE destroying'
    BY DEF Present
  <2>1. i # Len(threads) + 1
    BY <1>5, <1>6
  <2>2. i \in DOMAIN threads /\ threads'[i] = threads[i] /\ threads[i] # w /\ threads[i] \in Worker
    BY <1>3, <1>5, <1>7, <2>1
  <2>. QED BY <1>2, <1>4, <1>6, <2>2 DEF Present
<1>12. Table'
  <2>1. destroy_lock' # NULL /\ \A u \in Thread : u # th => ~Resizer(u)'
    BY <1>2, <1>4, <1>8, Constants DEF Mutex, Resizer, At, Resizes
  <2>2. Top(th)'.pc = "spawn" /\ Top(th)'.run = Top(th).run
    BY <1>2, <1>8 DEF At
  <2>3. Len(threads') <= Size(th) /\ number_of_threads' = Size(th)
    <3>1. Size(th) \in Nat
      BY <1>3 DEF VarsOK
    <3>. QED BY <1>2, <1>3, <1>5, <3>1
  <2>. QED BY <1>2, <1>11, <2>1, <2>2, <2>3, ResizeTable
<1>. QED BY <1>9, <1>10, <1>12 DEF TableInv

LEMMA ShrinkTable ==
  ASSUME QueueInv, TableInv, QueueInv', NEW th \in Thread, Shrink(th)
  PROVE  TableInv'
<1>. DEFINE i == thread_index[th]
            w0 == threads[1]
<1>1. /\ At(th, "control") /\ destroy_lock = NULL /\ Len(threads) > Size(th) /\ destroy_lock' = th
      /\ Goto(th, [Top(th) EXCEPT !.pc = "shrink"])
      /\ UNCHANGED <<bound, number_of_threads, destroying, worker>>
      /\ \/ /\ th \in Worker /\ i # 0
            /\ threads' = [threads EXCEPT ![1] = th, ![i + 1] = w0]
            /\ thread_index' = [thread_index EXCEPT ![w0] = i, ![th] = 0]
         \/ UNCHANGED <<threads, thread_index>>
  BY DEF Shrink, Size, MustSwap, swapped_index, futureVars
<1>2. /\ VarsOK /\ Len(threads) \in Nat /\ DOMAIN threads = 1 .. Len(threads) /\ Size(th) \in Nat
      /\ \A k \in DOMAIN threads : threads[k] \in Worker
      /\ \A j, k \in DOMAIN threads : threads[j] = threads[k] => j = k
  BY <1>1, ResizeFacts
<1>3. /\ thread_index \in [Worker -> Nat] /\ threads \in Seq(Worker)
      /\ Mutex /\ Entries /\ Present /\ Len(threads) = number_of_threads /\ stack[th] # <<>>
  BY <1>1, <1>2 DEF VarsOK, TableInv, Table, At
<1>4. "shrink" \in Resizes
  BY DEF Resizes
<1>5. /\ Mutex' /\ Top(th)'.pc = "shrink" /\ Top(th)'.run = Top(th).run
      /\ \A u \in Thread : u # th => ~Resizer(u)'
  BY <1>1, <1>4, ResizeStacks
<1>6. Len(threads') = Len(threads) /\ Entries' /\ Present'
  <2>1. CASE UNCHANGED <<threads, thread_index>>
    BY <1>1, <1>3, <2>1 DEF Entries, Present
  <2>2. CASE /\ th \in Worker /\ i # 0
             /\ threads' = [threads EXCEPT ![1] = th, ![i + 1] = w0]
             /\ thread_index' = [thread_index EXCEPT ![w0] = i, ![th] = 0]
    <3>1. /\ worker[th] = "pop" /\ i < Len(threads) /\ threads[i + 1] = th /\ i \in Nat
      BY <1>3, <2>2 DEF Mutex, Entries
    <3>2. 1 \in DOMAIN threads /\ i + 1 \in DOMAIN threads /\ w0 \in Worker /\ w0 # th /\ i + 1 # 1
      <4>1. 1 \in DOMAIN threads /\ i + 1 \in DOMAIN threads
        BY <1>2, <3>1
      <4>2. w0 \in Worker /\ thread_index[w0] = 0
        BY <1>2, <1>3, <4>1 DEF Entries
      <4>. QED BY <2>2, <3>1, <4>1, <4>2
    <3>. HIDE DEF i, w0
    <3>3. /\ thread_index'[w0] = i /\ thread_index'[th] = 0
          /\ \A w \in Worker : w # w0 /\ w # th => thread_index'[w] = thread_index[w]
      BY <1>3, <2>2, <3>1, <3>2
    <3>4. /\ DOMAIN threads' = DOMAIN threads /\ threads'[1] = th /\ threads'[i + 1] = w0
          /\ \A k \in DOMAIN threads : k # 1 /\ k # i + 1 => threads'[k] = threads[k]
      BY <1>3, <2>2, <3>1, <3>2
    <3>5. Len(threads') = Len(threads)
      <4>1. threads' \in Seq(Worker)
        BY DEF QueueInv, QueueTypeOK, VarsOK
      <4>2. Len(threads') \in Nat /\ DOMAIN threads' = 1 .. Len(threads')
        BY <4>1
      <4>. QED BY <1>2, <3>4, <4>2
    <3>6. threads[1] = w0
      BY DEF w0
    <3>7. \A k \in DOMAIN threads : k # 1 /\ k # i + 1 => threads[k] \in Worker /\ threads[k] # w0 /\ threads[k] # th
      BY <1>2, <3>1, <3>2, <3>6
    <3>8. Entries'
      <4>1. ASSUME NEW k \in DOMAIN threads' PROVE thread_index'[threads'[k]] = k - 1 /\ worker'[threads'[k]] # "none"
        <5>1. CASE k = 1
          BY <1>1, <3>1, <3>3, <3>4, <5>1
        <5>2. CASE k = i + 1
          <6>1. worker[w0] # "none"
            BY <1>3, <3>2, <3>6 DEF Entries
          <6>. QED BY <1>1, <3>1, <3>3, <3>4, <5>2, <6>1
        <5>3. CASE k # 1 /\ k # i + 1
          BY <1>1, <1>3, <3>3, <3>4, <3>7, <5>3 DEF Entries
        <5>. QED BY <5>1, <5>2, <5>3
      <4>2. ASSUME NEW w \in Worker, worker'[w] \in {"pop", "wait"}
            PROVE  thread_index'[w] < Len(threads') /\ threads'[thread_index'[w] + 1] = w
        <5>1. CASE w = th
          BY <1>2, <3>1, <3>3, <3>4, <3>5, <5>1
        <5>2. CASE w = w0 /\ w # th
          BY <1>2, <3>1, <3>3, <3>4, <3>5, <5>2
        <5>3. CASE w # w0 /\ w # th
          <6>1. thread_index[w] < Len(threads) /\ threads[thread_index[w] + 1] = w /\ thread_index[w] \in Nat
            BY <1>1, <1>3, <4>2 DEF Entries
          <6>2. thread_index[w] + 1 \in DOMAIN threads
            BY <1>2, <6>1
          <6>3. thread_index[w] + 1 # 1 /\ thread_index[w] + 1 # i + 1
            BY <3>1, <3>6, <5>3, <6>1
          <6>. QED BY <3>3, <3>4, <3>5, <5>3, <6>1, <6>2, <6>3
        <5>. QED BY <5>1, <5>2, <5>3
      <4>. QED BY <4>1, <4>2 DEF Entries
    <3>9. Present'
      <4>. SUFFICES ASSUME NEW k \in DOMAIN threads', worker'[threads'[k]] = "exited" PROVE destroying'
        BY DEF Present
      <4>1. PICK j \in DOMAIN threads : threads'[k] = threads[j]
        BY <3>1, <3>2, <3>4, <3>6
      <4>. QED BY <1>1, <1>2, <1>3, <4>1 DEF Present
    <3>. QED BY <3>5, <3>8, <3>9
  <2>. QED BY <1>1, <2>1, <2>2
<1>7. Table'
  <2>1. destroy_lock' # NULL
    BY <1>1, Constants
  <2>. QED BY <1>1, <1>3, <1>5, <1>6, <2>1, ResizeTable
<1>. QED BY <1>5, <1>6, <1>7 DEF TableInv

LEMMA DismissTable ==
  ASSUME QueueInv, TableInv, QueueInv', NEW th \in Thread, ShrinkSet(th) \/ ShrinkNotify(th)
  PROVE  TableInv'
<1>1. PICK a \in {"shrink", "dismiss"}, pc \in {"dismiss", "join"} :
        /\ At(th, a) /\ Goto(th, [Top(th) EXCEPT !.pc = pc])
        /\ a = "shrink" => number_of_threads' = Size(th)
        /\ a = "dismiss" => number_of_threads' = number_of_threads
  <2>1. CASE ShrinkSet(th)
    BY <2>1 DEF ShrinkSet, Size
  <2>2. CASE ShrinkNotify(th)
    BY <2>2 DEF ShrinkNotify, threadVars
  <2>. QED BY <2>1, <2>2
<1>2. UNCHANGED <<threads, thread_index, destroying, destroy_lock, bound>> /\ (notify_all \/ UNCHANGED worker)
  BY DEF ShrinkSet, ShrinkNotify, threadVars, futureVars, controlVars
<1>3. /\ VarsOK /\ Len(threads) \in Nat /\ DOMAIN threads = 1 .. Len(threads) /\ number_of_threads \in Nat
      /\ \A i \in DOMAIN threads : threads[i] \in Worker
      /\ Resizer(th) => Size(th) \in Nat
      /\ At(th, "shrink") => Size(th) < Len(threads) /\ number_of_threads = Len(threads)
      /\ At(th, "dismiss") \/ At(th, "join") => Size(th) < Len(threads) /\ number_of_threads = Size(th)
  BY ResizeFacts
<1>4. {"shrink", "dismiss", "join"} \subseteq Resizes /\ Resizer(th)
  BY <1>1 DEF Resizes, Resizer, At
<1>5. destroy_lock = th /\ Entries /\ Present
  BY <1>4 DEF TableInv, Table, Mutex
<1>6. \A w \in Worker : worker'[w] = worker[w] \/ (worker[w] = "wait" /\ worker'[w] = "pop")
  BY <1>2, <1>3, WokenWorkers
<1>7. /\ Mutex' /\ Top(th)'.pc = pc /\ Top(th)'.run = Top(th).run
      /\ \A u \in Thread : u # th => ~Resizer(u)'
  <2>1. \A w \in Worker : worker[w] = "pop" => worker'[w] = "pop"
    BY <1>6
  <2>2. a \in Resizes /\ pc \in Resizes /\ destroy_lock' = th
    BY <1>1, <1>2, <1>4, <1>5
  <2>. QED BY <1>1, <2>1, <2>2, ResizeStacks
<1>8. Entries'
  BY <1>2, <1>3, <1>5, <1>6 DEF Entries
<1>9. Size(th) \in Nat /\ number_of_threads' = Size(th) /\ Size(th) < Len(threads) /\ Size(th) <= number_of_threads
  <2>1. CASE a = "shrink"
    BY <1>1, <1>3, <1>4, <2>1
  <2>2. CASE a = "dismiss"
    BY <1>1, <1>3, <1>4, <2>2
  <2>. QED BY <1>1, <2>1, <2>2
<1>10. Present'
  <2>. SUFFICES ASSUME NEW i \in DOMAIN threads, i <= number_of_threads', worker'[threads[i]] = "exited" PROVE destroying
    BY <1>2 DEF Present
  <2>1. worker[threads[i]] = "exited" /\ i <= number_of_threads
    <3>0. threads[i] \in Worker
      BY <1>3
    <3>1. i \in Nat
      <4>1. i \in 1 .. Len(threads) /\ Len(threads) \in Nat
        BY <1>3
      <4>. QED BY <4>1
    <3>2. i <= number_of_threads
      <4>1. number_of_threads \in Nat
        BY <1>3
      <4>. QED BY <1>9, <3>1, <4>1
    <3>. QED BY <1>6, <3>0, <3>2
  <2>. QED BY <1>5, <2>1 DEF Present
<1>11. Table'
  <2>1. destroy_lock' # NULL
    BY <1>2, <1>5, Constants
  <2>. QED BY <1>1, <1>2, <1>7, <1>9, <1>10, <2>1, ResizeTable
<1>. QED BY <1>7, <1>8, <1>11 DEF TableInv

LEMMA JoinTable ==
  ASSUME QueueInv, TableInv, QueueInv', NEW th \in Thread, ShrinkJoin(th)
  PROVE  TableInv'
<1>. DEFINE n == number_of_threads
<1>1. /\ At(th, "join") /\ Goto(th, [Top(th) EXCEPT !.pc = "finish"]) /\ destroy_lock' = NULL
      /\ threads' = SubSeq(threads, 1, n) /\ \A i \in n + 1 .. Len(threads) : worker[threads[i]] = "exited"
      /\ UNCHANGED <<number_of_threads, thread_index, destroying, worker, bound>>
  BY DEF ShrinkJoin, futureVars
<1>2. /\ VarsOK /\ Len(threads) \in Nat /\ DOMAIN threads = 1 .. Len(threads) /\ n \in Nat /\ n < Len(threads)
      /\ \A i \in DOMAIN threads : threads[i] \in Worker
  BY <1>1, ResizeFacts
<1>3. threads \in Seq(Worker) /\ thread_index \in [Worker -> Nat] /\ Entries /\ Present
  BY <1>2 DEF VarsOK, TableInv, Table
<1>4. Len(threads') = n /\ DOMAIN threads' = 1 .. n /\ \A i \in 1 .. n : threads'[i] = threads[i] /\ i \in DOMAIN threads
  BY <1>1, <1>2, <1>3, SubSeqProperties
<1>5. "join" \in Resizes /\ "finish" \notin Resizes
  BY DEF Resizes
<1>6. /\ Mutex' /\ Top(th)'.run = Top(th).run /\ ~Resizer(th)'
      /\ \A u \in Thread : u # th => ~Resizer(u)'
  BY <1>1, <1>5, ResizeStacks
<1>7. Entries'
  <2>1. \A i \in DOMAIN threads' : thread_index'[threads'[i]] = i - 1 /\ worker'[threads'[i]] # "none"
    BY <1>1, <1>3, <1>4 DEF Entries
  <2>2. ASSUME NEW w \in Worker, worker'[w] \in {"pop", "wait"}
        PROVE  thread_index'[w] < Len(threads') /\ threads'[thread_index'[w] + 1] = w
    <3>1. thread_index[w] < Len(threads) /\ threads[thread_index[w] + 1] = w /\ thread_index[w] \in Nat
      BY <1>1, <1>3, <2>2 DEF Entries
    <3>2. CASE thread_index[w] < n
      <4>1. thread_index[w] + 1 \in 1 .. n
        BY <1>2, <3>1, <3>2
      <4>. QED BY <1>1, <1>4, <3>1, <3>2, <4>1
    <3>3. CASE ~(thread_index[w] < n)
      <4>1. thread_index[w] + 1 \in n + 1 .. Len(threads)
        BY <1>2, <3>1, <3>3
      <4>. QED BY <1>1, <2>2, <3>1, <4>1
    <3>. QED BY <3>2, <3>3
  <2>. QED BY <2>1, <2>2 DEF Entries
<1>8. Present'
  BY <1>1, <1>3, <1>4 DEF Present
<1>9. Table'
  BY <1>1, <1>4, <1>6, <1>8, ResizeTable
<1>. QED BY <1>6, <1>7, <1>9 DEF TableInv

(***************************************************************************)
(* The invariants hold in every state                                      *)
(***************************************************************************)
TypeTable == QueueInv /\ TableInv

LEMMA InitialFrames ==
  ASSUME Init
  PROVE  /\ stack \in [Thread -> Seq(FrameRec)]
         /\ \A c \in Thread : stack[c] = IF c \in Client THEN <<Frame(c, "body")>> ELSE <<>>
         /\ \A th \in Thread : \A i \in DOMAIN stack[th] : /\ i = 1 /\ th \in Client /\ stack[th][i] = Frame(th, "body")
                                                           /\ stack[th][i].run = th /\ stack[th][i].pc = "body"
                                                           /\ stack[th][i].launch = <<>>
<1>1. \A c \in Client : Frame(c, "body") \in FrameRec
  BY DEF Frame, FrameRec, Pc
<1>2. stack = [th \in Thread |-> IF th \in Client THEN <<Frame(th, "body")>> ELSE <<>>]
  BY DEF Init
<1>3. \A c \in Thread : stack[c] = IF c \in Client THEN <<Frame(c, "body")>> ELSE <<>>
  BY <1>2
<1>4. stack \in [Thread -> Seq(FrameRec)]
  BY <1>1, <1>2
<1>5. ASSUME NEW th \in Thread, NEW i \in DOMAIN stack[th]
      PROVE  i = 1 /\ th \in Client /\ stack[th][i] = Frame(th, "body")
  <2>1. PICK s, e : s = stack[th] /\ e = Frame(th, "body")
    OBVIOUS
  <2>2. s = IF th \in Client THEN <<e>> ELSE <<>>
    BY <1>3, <2>1
  <2>3. i \in DOMAIN s
    BY <2>1
  <2>4. i = 1 /\ th \in Client /\ s[i] = e
    BY <2>2, <2>3
  <2>. QED BY <2>1, <2>4
<1>. QED BY <1>3, <1>4, <1>5 DEF Frame

LEMMA InitialQueue ==
  ASSUME Init
  PROVE  TypeTable
<1>1. VarsOK
  <2>1. NoCall \in Call
    BY DEF NoCall, Call, CallName
  <2>2. /\ bound \in [Invoker -> Call] /\ kind \in [Invoker -> Kind] /\ status \in [Invoker -> Status]
        /\ remaining \in [Invoker -> Int] /\ invoker_index \in [Invoker -> Int]
        /\ dependents \in [Invoker -> Seq(Invoker)] /\ runs \in [Invoker -> Nat]
        /\ future_lock \in [Invoker -> Thread \cup {NULL}]
    BY <2>1 DEF Init, Kind, Status
  <2>4. thread_index \in [Worker -> Nat] /\ worker \in [Worker -> {"none", "pop", "wait", "exited"}]
    BY DEF Init
  <2>5. invoker_queue \in Seq(Invoker \cup {NULL}) /\ control_futures \in Seq(Invoker) /\ threads \in Seq(Worker)
    BY DEF Init
  <2>3. /\ script \in Scripts /\ number_of_threads \in Nat /\ destroying \in BOOLEAN
        /\ queue_lock = NULL /\ destroy_lock = NULL
    BY DEF Init
  <2>. QED BY <2>2, <2>3, <2>4, <2>5 DEF VarsOK
<1>2. /\ stack \in [Thread -> Seq(FrameRec)]
      /\ \A c \in Thread : stack[c] = IF c \in Client THEN <<Frame(c, "body")>> ELSE <<>>
      /\ \A th \in Thread : \A i \in DOMAIN stack[th] : /\ i = 1 /\ th \in Client /\ stack[th][i] = Frame(th, "body")
                                                        /\ stack[th][i].run = th /\ stack[th][i].pc = "body"
                                                        /\ stack[th][i].launch = <<>>
  BY InitialFrames
<1>3. \A f \in Frames : f.run \in Client /\ f.pc = "body" /\ f.launch = <<>>
  BY <1>2, FramesAre
<1>4. /\ \A t \in Invoker : status[t] = "CONSTRUCTING" /\ kind[t] = "none" /\ runs[t] = 0
      /\ invoker_queue = <<>> /\ threads = <<>> /\ number_of_threads = 0 /\ destroy_lock = NULL
      /\ \A w \in Worker : worker[w] = "none"
  BY DEF Init
<1>5. CallsInv
  <2>1. OneFrame
    BY <1>2 DEF OneFrame
  <2>2. "body" \notin Invoking \cup Claiming \cup Helping \cup Launching
    BY DEF Invoking, Ending, Resizes, Claiming, Registering, Helping, Launching
  <2>3. FrameInv /\ AllApart
    BY <1>3, <2>2, Constants DEF FrameInv, FrameGood, Running, Claims, Helps, Launches, AllApart, Apart
  <2>4. Handles /\ Statuses
    BY <1>4 DEF Handles, Pending, Statuses, StatusGood
  <2>. QED BY <2>1, <2>3, <2>4 DEF CallsInv
<1>6. DequeInv
  BY <1>4 DEF DequeInv, Sound, Distinct, Ordered, In
<1>7. TableInv
  <2>1. \A th \in Thread : ~Resizer(th)
    <3>. SUFFICES ASSUME NEW th \in Thread, stack[th] # <<>> PROVE Top(th).pc \notin Resizes
      BY DEF Resizer
    <3>1. stack[th] = <<Frame(th, "body")>>
      BY <1>2
    <3>2. Top(th).pc = "body"
      BY <3>1 DEF Top, Last, Frame
    <3>. QED BY <3>2 DEF Resizes
  <2>2. \A w \in Worker : stack[w] = <<>>
    BY <1>2, ScriptAssumption DEF Thread
  <2>3. \A th \in Thread : \A i \in DOMAIN stack[th] : ~(i < Len(stack[th]))
    <3>. SUFFICES ASSUME NEW th \in Thread, NEW i \in DOMAIN stack[th] PROVE ~(i < Len(stack[th]))
      OBVIOUS
    <3>1. i = 1 /\ stack[th] = <<Frame(th, "body")>>
      BY <1>2
    <3>. QED BY <3>1
  <2>4. Mutex
    BY <1>4, <2>1, <2>2, <2>3, Constants DEF Mutex
  <2>. QED BY <1>4, <2>1, <2>4 DEF TableInv, Entries, Table, Present
<1>. QED BY <1>1, <1>2, <1>5, <1>6, <1>7 DEF TypeTable, QueueInv, QueueTypeOK

LEMMA StepTypeTable ==
  ASSUME TypeTable, NEW th \in Thread, Step(th)
  PROVE  TypeTable'
<1>. QueueInv /\ TableInv /\ script' = script
  BY DEF TypeTable, Step
<1>0. At(th, "join") => number_of_threads <= Len(threads)
  <2>. SUFFICES ASSUME At(th, "join") PROVE number_of_threads <= Len(threads)
    OBVIOUS
  <2>1. Resizer(th)
    BY DEF Resizer, At, Resizes
  <2>2. Size(th) \in Nat /\ Len(threads) \in Nat /\ Size(th) < Len(threads) /\ number_of_threads = Size(th)
    BY <2>1, ResizeFacts
  <2>. QED BY <2>2
<1>1. CASE Push(th)
  BY <1>1, PushKeeps, CallTable DEF TypeTable
<1>2. CASE PushDependent(th)
  BY <1>2, PushDependentKeeps, CallTable DEF TypeTable
<1>3. CASE PushTarget(th)
  BY <1>3, EnqueueKeeps, CallTable DEF TypeTable, EnqueueStep
<1>4. CASE Notify(th) \/ Wait(th) \/ WaitReturn(th) \/ FutureWait(th)
  BY <1>4, CallKeeps, CallTable DEF TypeTable
<1>5. CASE WaitVisit(th)
  BY <1>5, WaitVisitKeeps, CallTable DEF TypeTable
<1>6. CASE WaitLock(th)
  BY <1>6, WaitLockKeeps, CallTable DEF TypeTable
<1>7. CASE WaitTake(th)
  BY <1>7, WaitTakeKeeps, StartTable DEF TypeTable
<1>8. CASE WaitDecide(th)
  BY <1>8, WaitDecideKeeps, CallTable DEF TypeTable
<1>9. CASE Register(th) \/ RegisterAppend(th) \/ RegisterCount(th)
  BY <1>9, RegisterKeeps, CallTable DEF TypeTable, RegisterStep
<1>10. CASE RegisterSettle(th)
  BY <1>10, RegisterSettleKeeps, StartTable DEF TypeTable
<1>11. CASE InvokeNonVoid(th)
  BY <1>0, <1>11, PlainKeeps, InvokeTable DEF TypeTable, PlainStep
<1>12. CASE Finish(th)
  BY <1>12, FinishKeeps, InvokeTable DEF TypeTable
<1>13. CASE Signal(th)
  BY <1>13, SignalKeeps, InvokeTable DEF TypeTable
<1>14. CASE SignalDependent(th)
  BY <1>14, SignalWaitsKeeps, SignalStartsKeeps, SignalAppendsKeeps, StartTable DEF TypeTable
<1>15. CASE SignalDone(th)
  BY <1>15, SignalDoneKeeps, InvokeTable DEF TypeTable
<1>16. CASE SignalLaunch(th)
  BY <1>16, SignalLaunchKeeps, InvokeTable DEF TypeTable
<1>17. CASE SignalWake(th)
  BY <1>17, SignalWakeKeeps, InvokeTable DEF TypeTable
<1>18. CASE SetNumberOfThreads(th)
  BY <1>18, SetNumberKeeps, ControlTable DEF TypeTable
<1>19. CASE ControlDepends(th)
  BY <1>19, RegisterKeeps, ControlTable DEF TypeTable, RegisterStep
<1>20. CASE ControlInline(th)
  BY <1>20, ControlInlineKeeps, StartTable DEF TypeTable
<1>21. CASE ControlEnqueue(th)
  BY <1>21, EnqueueKeeps, ControlTable DEF TypeTable, EnqueueStep
<1>22. CASE ControlSkip(th) \/ DestroyNotify(th) \/ DestroySync(th)
  BY <1>0, <1>22, PlainKeeps, ControlTable DEF TypeTable, PlainStep
<1>23. CASE Grow(th) \/ GrowDone(th)
  BY <1>0, <1>23, PlainKeeps, GrowTable DEF TypeTable, PlainStep
<1>24. CASE GrowSpawn(th)
  BY <1>24, StillKeeps, SpawnTable DEF TypeTable
<1>25. CASE Shrink(th)
  BY <1>0, <1>25, PlainKeeps, ShrinkTable DEF TypeTable, PlainStep
<1>26. CASE ShrinkSet(th) \/ ShrinkNotify(th)
  BY <1>0, <1>26, PlainKeeps, DismissTable DEF TypeTable, PlainStep
<1>27. CASE ShrinkJoin(th)
  BY <1>0, <1>27, PlainKeeps, JoinTable DEF TypeTable, PlainStep
<1>28. CASE Destroy(th)
  BY <1>0, <1>28, PlainKeeps, DestroyTable DEF TypeTable, PlainStep
<1>29. CASE th \in Worker /\ WorkerPop(th)
  BY <1>29, WorkerPopKeeps, WorkerTable DEF TypeTable
<1>30. CASE th \in Worker /\ (WorkerHold(th) \/ WorkerExit(th))
  BY <1>30, StillKeeps, WorkerTable DEF TypeTable
<1>. QED BY <1>1, <1>2, <1>3, <1>4, <1>5, <1>6, <1>7, <1>8, <1>9, <1>10, <1>11, <1>12, <1>13, <1>14, <1>15, <1>16,
            <1>17, <1>18, <1>19, <1>20, <1>21, <1>22, <1>23, <1>24, <1>25, <1>26, <1>27, <1>28, <1>29, <1>30
            DEF Step, CallStep, InvokeStep, ControlStep, WorkerStep

LEMMA Types == QueueTypeOK => TypeOK
<1>. SUFFICES ASSUME QueueTypeOK PROVE TypeOK
  OBVIOUS
<1>1. VarsOK /\ stack \in [Thread -> Seq(FrameRec)]
  BY DEF QueueTypeOK
<1>2. \A f \in FrameRec : FrameOK(f)
  BY DEF FrameRec, FrameOK, Pc, Invoking, Ending, Resizes, Claiming, Registering, Helping
<1>3. ASSUME NEW th \in Thread
      PROVE  stack[th] \in Seq(Range(stack[th])) /\ \A i \in DOMAIN stack[th] : FrameOK(stack[th][i])
  <2>1. PICK s, n : s = stack[th] /\ s \in Seq(FrameRec) /\ n = Len(s) /\ n \in Nat /\ DOMAIN s = 1 .. n
    BY <1>1
  <2>2. s \in [1 .. n -> Range(s)]
    BY <2>1 DEF Range
  <2>3. s \in Seq(Range(s))
    BY <2>1, <2>2, SeqDef
  <2>. QED BY <1>2, <2>1, <2>3
<1>. QED BY <1>1, <1>3 DEF VarsOK, TypeOK, Kind

LEMMA TypeTableFacts == TypeTable => DequeSound /\ RunsOnce /\ ThreadTable
<1>. SUFFICES ASSUME TypeTable PROVE DequeSound /\ RunsOnce /\ ThreadTable
  OBVIOUS
<1>1. QueueTypeOK /\ VarsOK /\ Statuses /\ DequeInv /\ TableInv
  BY DEF TypeTable, QueueInv, QueueTypeOK, CallsInv
<1>2. TypeOK
  BY <1>1, Types
<1>3. QueueMatchesStatus
  <2>1. invoker_queue \in Seq(Invoker \cup {NULL}) /\ DOMAIN invoker_queue = 1 .. Len(invoker_queue)
    BY <1>1 DEF VarsOK
  <2>2. \A t : Contains(invoker_queue, t) <=> In(invoker_queue, t)
    BY <2>1 DEF Contains, In
  <2>. QED BY <1>1, <2>2 DEF QueueMatchesStatus, DequeInv, Sound, Distinct
<1>4. IndexOrder /\ FrontIsLive
  BY <1>1 DEF DequeInv, Sound, Ordered, IndexOrder, FrontIsLive
<1>5. RunsOnce
  <2>. SUFFICES ASSUME NEW t \in Invoker PROVE runs[t] <= 1
    BY DEF RunsOnce
  <2>1. StatusGood(t)
    BY <1>1 DEF Statuses
  <2>2. runs[t] = 1 \/ runs[t] = 0
    BY <2>1 DEF StatusGood
  <2>. QED BY <2>2
<1>6. ThreadTable
  <2>. SUFFICES ASSUME ~Resizing
                PROVE  /\ Len(threads) = number_of_threads
                       /\ \A i \in DOMAIN threads :
                            /\ thread_index[threads[i]] = i - 1
                            /\ worker[threads[i]] = "exited" => destroying
    BY DEF ThreadTable
  <2>1. \A th \in Thread : ~Resizer(th)
    BY DEF Resizing, Resizer, Resizes, At
  <2>2. destroy_lock = NULL
    BY <1>1, <2>1 DEF TableInv, Mutex, VarsOK
  <2>3. threads \in Seq(Worker) /\ Len(threads) \in Nat /\ DOMAIN threads = 1 .. Len(threads)
    BY <1>1 DEF VarsOK
  <2>. QED BY <1>1, <2>2, <2>3 DEF TableInv, Table, Present, Entries
<1>. QED BY <1>2, <1>3, <1>4, <1>5, <1>6 DEF DequeSound

LEMMA TypeTableStep == TypeTable /\ [Next]_vars => TypeTable'
<1>. SUFFICES ASSUME TypeTable, [Next]_vars PROVE TypeTable'
  OBVIOUS
<1>1. ASSUME NEW th \in Thread, Step(th) PROVE TypeTable'
  BY <1>1, StepTypeTable
<1>2. CASE UNCHANGED vars
  <2>1. UNCHANGED <<script, invoker_queue, invoker_index, status, remaining, dependents, kind, bound, control_futures>>
    BY <1>2 DEF vars, queueVars, futureVars, controlVars
  <2>2. UNCHANGED <<threads, number_of_threads, thread_index, worker, destroying, queue_lock, future_lock, destroy_lock,
                    stack, runs>>
    BY <1>2 DEF vars, threadVars, controlVars, lockVars
  <2>3. QueueTypeOK'
    BY <2>1, <2>2 DEF TypeTable, QueueInv, QueueTypeOK, VarsOK
  <2>4. Frames' = Frames /\ DequeInv'
    BY <2>1, <2>2 DEF TypeTable, QueueInv, DequeInv, Frames
  <2>5. OneFrame' /\ AllApart'
    BY <2>2, <2>4 DEF TypeTable, QueueInv, CallsInv, OneFrame, AllApart, Apart
  <2>6. FrameInv'
    BY <2>1, <2>4 DEF TypeTable, QueueInv, CallsInv, FrameInv, FrameGood, Running, Claims, Helps, Launches, CallOf, Calls
  <2>7. Handles' /\ Statuses'
    BY <2>1, <2>2, <2>4 DEF TypeTable, QueueInv, CallsInv, Handles, Handled, Pending, Statuses, StatusGood
  <2>8. (\A th \in Thread : Resizer(th)' <=> Resizer(th)) /\ \A th \in Thread : Top(th)' = Top(th)
    BY <2>2 DEF Resizer, Top
  <2>9. TableInv'
    BY <2>1, <2>2, <2>8 DEF TypeTable, TableInv, Mutex, Entries, Table, Present
  <2>. QED BY <2>3, <2>4, <2>5, <2>6, <2>7, <2>9 DEF TypeTable, QueueInv, CallsInv
<1>. QED BY <1>1, <1>2 DEF Next

\* The deque: an invoker is in it exactly while its status is ENQUEUED and only
\* once, and the front is never a hole, however push, pop, try_invoke and
\* signal_dependent_shared_futures interleave. Between two invokers
\* invoker_index_ grows by at least one and at most by the distance of their
\* places, so the slots that try_invoke computes are inside of the deque and
\* differ. Behind a hole such a slot need not be the invoker's own place.
THEOREM DequeStaysSound == Spec => []DequeSound
<1>1. Init => TypeTable
  BY InitialQueue
<1>2. TypeTable /\ [Next]_vars => TypeTable'
  BY TypeTableStep
<1>3. TypeTable => DequeSound
  BY TypeTableFacts
<1>. QED BY <1>1, <1>2, <1>3, PTL DEF Spec
=============================================================================
