-------------------------- MODULE ThreadPoolProofs --------------------------
(***************************************************************************)
(* Proofs about ThreadPool, for every number of threads, clients, proxies  *)
(* and jobs and every program in which a proxy is used by the code that    *)
(* has allocated it: the index that run_job keeps across a job names that  *)
(* job when it is erased, no job runs twice, neither join() nor the pool's *)
(* destructor returns before the jobs have run, and threads that wait in   *)
(* join() wait for higher threads only.                                    *)
(***************************************************************************)
EXTENDS ThreadPool, SequenceTheorems, NaturalsInduction, WellFoundedInduction, TLAPS

(***************************************************************************)
(* The inductive invariant                                                 *)
(***************************************************************************)
Places == {"body", "emplace", "notify", "help", "await", "wake", "leave"}

FrameRec == [run : Client \cup Job, pc : Places, ip : Nat \ {0}, index : Nat, old : Nat, to : Nat]

PoolTypeOK == /\ TypeOK /\ script \in Scripts
              /\ stack \in [Actor -> Seq(FrameRec)]

\* A frame that is inside a call has its program at that call.
InCall(f) ==
  /\ f.pc # "body" => f.ip \in DOMAIN Calls(f.run)
  /\ f.pc \in {"emplace", "notify"} => CallOf(f).call = "do_job" /\ f.to \in Thread
  /\ f.pc \in {"help", "await"} => CallOf(f).call = "join"
  /\ f.pc \in {"wake", "leave"} => CallOf(f).call = "destroy_pool" /\ (f.pc = "wake" => f.to \in Thread)

ClientFrame(c) == Len(stack[c]) = 1 /\ stack[c][1].run = c /\ stack[c][1].pc # "help"

\* The frames of a pool thread are jobs at growing places of its job stack;
\* all but the innermost one are helping inside of join().
JobFrame(t, i) ==
  LET f == stack[t][i] IN
  /\ f.run \in Job
  /\ f.index \in DOMAIN jobs[t] /\ jobs[t][f.index] = f.run
  /\ f.old = IF i = 1 THEN 0 ELSE stack[t][i - 1].index
  /\ i < Len(stack[t]) => f.pc = "help"
  /\ \A k \in 1 .. i - 1 : stack[t][k].index < f.index

Innermost(t) == running_job[t] = IF stack[t] = <<>> THEN 0 ELSE Top(t).index

Frames ==
  /\ \A a \in Actor : \A i \in DOMAIN stack[a] : InCall(stack[a][i])
  /\ \A c \in Client : ClientFrame(c)
  /\ \A t \in Thread : Innermost(t) /\ \A i \in DOMAIN stack[t] : JobFrame(t, i)

\* A job is in one place of one job stack, until it is finished.
Queues ==
  /\ \A t \in Thread : \A i \in DOMAIN jobs[t] : jobs[t][i] \notin finished /\ proxy[jobs[t][i]] # NULL
  /\ \A t, u \in Thread : \A i \in DOMAIN jobs[t], k \in DOMAIN jobs[u] :
       jobs[t][i] = jobs[u][k] => t = u /\ i = k
  /\ \A j \in finished : proxy[j] # NULL

Framed(j) == \E t \in Thread : \E i \in DOMAIN stack[t] : stack[t][i].run = j

Started == \A j \in Job : runs[j] = IF Framed(j) \/ j \in finished THEN 1 ELSE 0

\* What was submitted was submitted by a call that has been made.
Past(r, k) ==
  \/ r \in finished
  \/ \E a \in Actor : \E i \in DOMAIN stack[a] :
       /\ stack[a][i].run = r
       /\ k < stack[a][i].ip \/ (k = stack[a][i].ip /\ stack[a][i].pc = "notify")

Submits(r, k, j, p) == /\ r \in DOMAIN script /\ k \in DOMAIN script[r]
                       /\ script[r][k].call = "do_job" /\ script[r][k].job = j /\ script[r][k].p = p

Submitted == \A j \in Job : proxy[j] # NULL =>
               \E r \in Client \cup Job : \E k \in DOMAIN Calls(r) : Submits(r, k, j, proxy[j]) /\ Past(r, k)

\* The jobs that a running job has put on its own thread lie behind it.
ChildrenBehind ==
  \A t \in Thread : \A i \in DOMAIN stack[t] : \A k \in DOMAIN jobs[t] :
    \A m \in DOMAIN Calls(stack[t][i].run) :
      Submits(stack[t][i].run, m, jobs[t][k], Calls(stack[t][i].run)[m].p) => stack[t][i].index < k

\* A proxy that the code of a frame has allocated and not destroyed has
\* threads, and that of a pool thread begins with this thread.
Allocated(f, p) ==
  /\ \E m \in DOMAIN Calls(f.run) : m < f.ip /\ Calls(f.run)[m].call = "allocate" /\ Calls(f.run)[m].p = p
  /\ \A m \in DOMAIN Calls(f.run) : m < f.ip /\ Calls(f.run)[m].call = "destroy_proxy" => Calls(f.run)[m].p # p

OwnProxies ==
  /\ \A a \in Actor : \A i \in DOMAIN stack[a] : \A p \in Proxy :
       Allocated(stack[a][i], p) => threads[p] # <<>> /\ (a \in Thread => threads[p][1] = a)
  /\ \A c \in Client : \A m \in DOMAIN Calls(c) : Calls(c)[m].p \in Proxy => parent[Calls(c)[m].p] = NULL

PoolInv == PoolTypeOK /\ Frames /\ Queues /\ Started /\ Submitted /\ ChildrenBehind /\ OwnProxies

(***************************************************************************)
(* Sequences                                                               *)
(***************************************************************************)
LEMMA LastRemoved ==
  ASSUME NEW S, NEW s \in Seq(S), s # <<>>
  PROVE  /\ Front(s) \in Seq(S) /\ Len(Front(s)) = Len(s) - 1 /\ Len(s) \in Nat \ {0}
         /\ \A i \in 1 .. Len(s) - 1 : Front(s)[i] = s[i]
<1>. DEFINE u == SubSeq(s, 1, Len(s) - 1)
<1>1. Len(s) \in Nat \ {0}
  BY EmptySeq
<1>2. PICK e \in 1 .. Len(s) : e = Len(s)
  BY <1>1
<1>4. 1 <= e /\ e \in Nat /\ Len(s) \in Nat
  BY <1>1, <1>2
<1>5. /\ SubSeq(s, 1, e - 1) \in Seq(S) /\ Len(SubSeq(s, 1, e - 1)) = e - 1
      /\ \A i \in 1 .. e - 1 : SubSeq(s, 1, e - 1)[i] = s[i]
  BY <1>2, <1>4, SubSeqProperties
<1>3. Front(s) = u
  BY DEF Front
<1>. QED BY <1>1, <1>2, <1>3, <1>5

\* Replacing the last element of a sequence.
LEMMA LastReplaced ==
  ASSUME NEW S, NEW s \in Seq(S), s # <<>>, NEW e \in S
  PROVE  LET r == Append(Front(s), e) IN
         /\ r \in Seq(S) /\ Len(r) = Len(s) /\ Len(s) \in Nat \ {0}
         /\ \A i \in 1 .. Len(s) : r[i] = IF i = Len(s) THEN e ELSE s[i]
BY LastRemoved, AppendProperties

LEMMA ElementRemoved ==
  ASSUME NEW S, NEW s \in Seq(S), NEW e \in 1 .. Len(s)
  PROVE  /\ RemoveAt(s, e) \in Seq(S) /\ Len(RemoveAt(s, e)) = Len(s) - 1
         /\ \A i \in 1 .. Len(s) - 1 : RemoveAt(s, e)[i] = IF i < e THEN s[i] ELSE s[i + 1]
<1>. DEFINE u == SubSeq(s, 1, e - 1)
            v == SubSeq(s, e + 1, Len(s))
<1>1. Len(s) \in Nat /\ e \in Nat /\ 1 <= e /\ e <= Len(s)
  OBVIOUS
<1>2. u \in Seq(S) /\ Len(u) = e - 1 /\ \A i \in 1 .. e - 1 : u[i] = s[i]
  BY <1>1, SubSeqProperties
<1>3. v \in Seq(S) /\ Len(v) = Len(s) - e /\ \A i \in 1 .. Len(s) - e : v[i] = s[i + e]
  BY <1>1, SubSeqProperties
<1>4. RemoveAt(s, e) = u \o v
  BY DEF RemoveAt
<1>. HIDE DEF u, v
<1>5. /\ u \o v \in Seq(S) /\ Len(u \o v) = Len(s) - 1
      /\ \A i \in 1 .. Len(s) - 1 : (u \o v)[i] = IF i <= Len(u) THEN u[i] ELSE v[i - Len(u)]
  <2>. HIDE DEF u, v
  <2>1. /\ u \o v \in Seq(S) /\ Len(u \o v) = Len(u) + Len(v)
        /\ \A i \in 1 .. Len(u) + Len(v) : (u \o v)[i] = IF i <= Len(u) THEN u[i] ELSE v[i - Len(u)]
    BY <1>2, <1>3, ConcatProperties, Zenon
  <2>. QED BY <1>1, <1>2, <1>3, <2>1
<1>6. \A i \in 1 .. Len(s) - 1 : (u \o v)[i] = IF i < e THEN s[i] ELSE s[i + 1]
  <2>. TAKE i \in 1 .. Len(s) - 1
  <2>1. CASE i < e
    BY <1>1, <1>2, <1>5, <2>1
  <2>2. CASE ~(i < e)
    <3>1. i - Len(u) \in 1 .. Len(s) - e /\ i - Len(u) + e = i + 1
      BY <1>1, <1>2, <2>2
    <3>2. (u \o v)[i] = v[i - Len(u)]
      BY <1>1, <1>2, <1>5, <2>2
    <3>. QED BY <1>3, <2>2, <3>1, <3>2
  <2>. QED BY <2>1, <2>2
<1>. QED BY <1>4, <1>5, <1>6

LEMMA Appended ==
  ASSUME NEW S, NEW s \in Seq(S), NEW e \in S
  PROVE  /\ Append(s, e) \in Seq(S) /\ Len(Append(s, e)) = Len(s) + 1 /\ Len(s) \in Nat
         /\ DOMAIN Append(s, e) = DOMAIN s \cup {Len(s) + 1} /\ DOMAIN s = 1 .. Len(s)
         /\ Append(s, e)[Len(s) + 1] = e /\ \A i \in 1 .. Len(s) : Append(s, e)[i] = s[i]
OBVIOUS

\* A set of numbers that is not empty has a least one.
LEMMA LeastOfSet ==
  ASSUME NEW S \in SUBSET Nat, S # {}
  PROVE  \E m \in S : \A n \in S : m <= n
<1>. DEFINE Less == {ss \in Nat \X Nat : ss[1] < ss[2]}
<1>1. IsWellFoundedOn(Less, Nat)
  BY NatLessThanWellFounded, Zenon DEF OpToRel
<1>2. \A x, y \in Nat : y < x => <<y, x>> \in Less
  <2>. TAKE x, y \in Nat
  <2>. HAVE y < x
  <2>1. <<y, x>> \in Nat \X Nat
    OBVIOUS
  <2>2. <<y, x>>[1] < <<y, x>>[2]
    OBVIOUS
  <2>. QED BY <2>1, <2>2, Zenon
<1>. HIDE DEF Less
<1>3. PICK x \in S : \A y \in S : ~ (<<y, x>> \in Less)
  BY <1>1, WFMin, Zenon
<1>4. \A y \in S : ~(y < x)
  BY <1>2, <1>3, Zenon
<1>. QED BY <1>4

\* job_of names a job of the proxy, if it names one.
LEMMA JobOf ==
  ASSUME NEW t \in Thread, NEW p, jobs[t] \in Seq(Job), job_of(p, t) # 0
  PROVE  job_of(p, t) \in DOMAIN jobs[t] /\ proxy[jobs[t][job_of(p, t)]] = p
<1>. DEFINE I == {i \in 1 .. Len(jobs[t]) : proxy[jobs[t][i]] = p}
<1>1. job_of(p, t) = Min(I) /\ I # {}
  BY DEF job_of, SelectInSeq
<1>. I \in SUBSET Nat
  OBVIOUS
<1>2. PICK m \in I : \A n \in I : m <= n
  <2>. HIDE DEF I
  <2>. QED BY <1>1, LeastOfSet
<1>3. Min(I) \in I
  BY <1>2 DEF Min
<1>. QED BY <1>1, <1>3

\* The loop of fill_threads_for_nested_proxy: what it starts with, and its step.
FillStart(t) == [got |-> <<t>>, full |-> FALSE]
FillMore(par, max_count, r, i) ==
  LET got == IF is_free(par, i) THEN Append(r.got, i) ELSE r.got
  IN  [got |-> got, full |-> Len(got) = max_count]

FillRun(f, par, t, max_count) ==
  /\ \A i \in 0 .. N : f[i] = IF i = 0 THEN FillStart(t)
                            ELSE IF f[i - 1].full THEN f[i - 1]
                            ELSE FillMore(par, max_count, f[i - 1], i)
  /\ fill_threads_for_nested_proxy(par, t, max_count) =
       IF Len(threads[par]) = N THEN <<t>> ELSE f[N].got

LEMMA FillLoop ==
  ASSUME NEW par, NEW t \in Thread, NEW max_count
  PROVE  \E f : FillRun(f, par, t, max_count)
<1>. DEFINE B(f, i) == IF i = 0 THEN FillStart(t) ELSE IF f[i - 1].full THEN f[i - 1]
                       ELSE FillMore(par, max_count, f[i - 1], i)
            R(f, n) == f = [i \in 0 .. n |-> B(f, i)]
<1>1. N \in Nat
  BY ThreadPoolAssumption
<1>2. \A n \in Nat : \E f : R(f, n)
  <2>. DEFINE Bad == {n \in Nat : ~ \E f : R(f, n)}
  <2>. SUFFICES ASSUME Bad # {} PROVE FALSE
    OBVIOUS
  <2>1. PICK n \in Bad : \A m \in Bad : n <= m
    <3>. Bad \in SUBSET Nat
      OBVIOUS
    <3>. HIDE DEF Bad
    <3>. QED BY LeastOfSet
  <2>2. n \in Nat /\ ~ \E f : R(f, n)
    OBVIOUS
  <2>3. CASE n = 0
    <3>. DEFINE f == [i \in 0 .. 0 |-> FillStart(t)]
    <3>1. R(f, 0)
      OBVIOUS
    <3>. HIDE DEF R, f
    <3>. QED BY <2>2, <2>3, <3>1
  <2>4. CASE n # 0
    <3>1. n - 1 \in Nat /\ n - 1 \notin Bad
      <4>1. n - 1 \in Nat /\ ~(n <= n - 1)
        BY <2>2, <2>4
      <4>. HIDE DEF Bad
      <4>. QED BY <2>1, <4>1
    <3>2. PICK g : R(g, n - 1)
      BY <3>1
    <3>. HIDE DEF B
    <3>. DEFINE f == [i \in 0 .. n |-> IF i < n THEN g[i] ELSE B(g, n)]
    <3>3. \A i \in 0 .. n : i < n => f[i] = g[i] /\ f[i] = B(g, i)
      <4>. TAKE i \in 0 .. n
      <4>. HAVE i < n
      <4>1. i \in 0 .. n - 1 /\ f[i] = g[i]
        BY <2>2
      <4>2. g[i] = B(g, i)
        BY <3>2, <4>1
      <4>. QED BY <4>1, <4>2
    <3>4. \A i \in 0 .. n : f[i] = B(g, i)
      BY <3>3, <2>2
    <3>5. \A i \in 0 .. n : i # 0 => f[i - 1] = g[i - 1]
      <4>. TAKE i \in 0 .. n
      <4>. HAVE i # 0
      <4>1. i - 1 \in 0 .. n /\ i - 1 < n
        BY <2>2
      <4>. HIDE DEF f
      <4>. QED BY <3>3, <4>1
    <3>. HIDE DEF f
    <3>6. \A i \in 0 .. n : B(f, i) = B(g, i)
      BY <3>5 DEF B
    <3>7. f = [i \in 0 .. n |-> f[i]]
      BY DEF f
    <3>8. R(f, n)
      BY <3>4, <3>6, <3>7
    <3>. QED BY <2>2, <3>8
  <2>. QED BY <2>3, <2>4
<1>3. PICK f : /\ R(f, N)
               /\ fill_threads_for_nested_proxy(par, t, max_count) = IF Len(threads[par]) = N THEN <<t>> ELSE f[N].got
  <2>. DEFINE f == CHOOSE f : R(f, N)
  <2>1. R(f, N)
    BY <1>1, <1>2
  <2>2. fill_threads_for_nested_proxy(par, t, max_count) = IF Len(threads[par]) = N THEN <<t>> ELSE f[N].got
    BY DEF fill_threads_for_nested_proxy, FillStart, FillMore
  <2>. QED BY <2>1, <2>2
<1>. QED BY <1>3 DEF FillRun

\* A nested proxy of thread t has threads, and the first one is t.
LEMMA Filled ==
  ASSUME NEW par, NEW t \in Thread, NEW max_count
  PROVE  LET s == fill_threads_for_nested_proxy(par, t, max_count)
         IN  s \in Seq(Thread) /\ s # <<>> /\ s[1] = t
<1>. DEFINE start == FillStart(t)
            more(r, i) == FillMore(par, max_count, r, i)
            Good(r) == r.got \in Seq(Thread) /\ r.got # <<>> /\ r.got[1] = t
<1>1. N \in Nat
  BY ThreadPoolAssumption
<1>3. PICK f : FillRun(f, par, t, max_count)
  BY FillLoop
<1>4. \A i \in 0 .. N : f[i] = IF i = 0 THEN start ELSE IF f[i - 1].full THEN f[i - 1] ELSE more(f[i - 1], i)
  BY <1>3 DEF FillRun
<1>5. Good(start)
  BY DEF FillStart
<1>6. \A i \in 1 .. N : \A r : Good(r) => Good(more(r, i))
  <2>. TAKE i \in 1 .. N
  <2>. TAKE r
  <2>. HAVE Good(r)
  <2>1. /\ Append(r.got, i) \in Seq(Thread) /\ Append(r.got, i) # <<>>
        /\ Append(r.got, i)[1] = t
    <3>. DEFINE s == r.got
    <3>1. s \in Seq(Thread) /\ s # <<>> /\ s[1] = t /\ i \in Thread
      BY DEF Thread
    <3>. HIDE DEF s
    <3>2. 1 \in 1 .. Len(s) /\ Len(Append(s, i)) # 0
      BY <3>1
    <3>. QED BY <3>1, <3>2, Appended
  <2>. QED BY <2>1 DEF FillMore
<1>7. \A i \in 0 .. N : Good(f[i])
  <2>. DEFINE Bad == {i \in 0 .. N : ~Good(f[i])}
  <2>. SUFFICES ASSUME Bad # {} PROVE FALSE
    OBVIOUS
  <2>1. PICK n \in Bad : \A m \in Bad : n <= m
    <3>. Bad \in SUBSET Nat
      BY <1>1
    <3>. HIDE DEF Bad
    <3>. QED BY LeastOfSet
  <2>2. n \in 0 .. N /\ ~Good(f[n])
    OBVIOUS
  <2>3. n # 0
    BY <1>4, <1>5, <2>2
  <2>4. n - 1 \in 0 .. N /\ n - 1 \notin Bad /\ n \in 1 .. N
    BY <1>1, <2>1, <2>2, <2>3
  <2>5. Good(f[n - 1])
    BY <2>4
  <2>6. f[n] = f[n - 1] \/ f[n] = more(f[n - 1], n)
    BY <1>4, <2>2, <2>3
  <2>. HIDE DEF Good, more
  <2>. QED BY <1>6, <2>2, <2>4, <2>5, <2>6
<1>8. f[N].got \in Seq(Thread) /\ f[N].got # <<>> /\ f[N].got[1] = t
  BY <1>1, <1>7
<1>9. <<t>> \in Seq(Thread) /\ <<t>> # <<>> /\ <<t>>[1] = t
  OBVIOUS
<1>10. CASE Len(threads[par]) = N
  BY <1>3, <1>9, <1>10 DEF FillRun
<1>11. CASE Len(threads[par]) # N
  <2>1. fill_threads_for_nested_proxy(par, t, max_count) = f[N].got
    BY <1>3, <1>11 DEF FillRun
  <2>. QED BY <1>8, <2>1
<1>. QED BY <1>10, <1>11

(***************************************************************************)
(* Programs and frames                                                     *)
(***************************************************************************)
LEMMA ScriptCalls ==
  ASSUME script \in Scripts, NEW r
  PROVE  /\ Calls(r) \in Seq(Call) /\ DOMAIN Calls(r) = 1 .. Len(Calls(r)) /\ Len(Calls(r)) \in Nat
         /\ \A i \in DOMAIN Calls(r) : /\ r \in DOMAIN script /\ i \in DOMAIN script[r]
                                       /\ Calls(r)[i] = script[r][i] /\ Calls(r)[i] \in Call
<1>1. r \in DOMAIN script => script[r] \in Seq(Call)
  BY ThreadPoolAssumption
<1>. QED BY <1>1 DEF Calls

\* What a program does with proxies and jobs.
LEMMA Usage ==
  ASSUME script \in Scripts, NEW r, NEW i \in DOMAIN Calls(r)
  PROVE  LET c == Calls(r)[i] IN
         /\ c.call # "destroy_pool" => c.p \in Proxy /\ c.p # NULL
         /\ c.call = "do_job" => c.job \in Job
         /\ c.call \in {"do_job", "join"} =>
              /\ \E m \in DOMAIN Calls(r) : m < i /\ Calls(r)[m].call = "allocate" /\ Calls(r)[m].p = c.p
              /\ \A m \in DOMAIN Calls(r) : m < i /\ Calls(r)[m].call = "destroy_proxy" => Calls(r)[m].p # c.p
         /\ \A q : \A k \in DOMAIN Calls(q) :
              /\ c.p # NULL /\ Calls(q)[k].p = c.p => q = r
              /\ c.call = "do_job" /\ Calls(q)[k].call = "do_job" /\ Calls(q)[k].job = c.job => q = r /\ k = i
<1>. DEFINE c == Calls(r)[i]
<1>1. WellUsed(script) /\ NULL \notin Proxy
  BY ScriptsAssumption, ThreadPoolAssumption
<1>2. r \in DOMAIN script /\ i \in DOMAIN script[r] /\ c = script[r][i] /\ Calls(r) = script[r]
  BY ScriptCalls DEF Calls
<1>3. i \in Nat /\ DOMAIN Calls(r) = 1 .. Len(Calls(r)) /\ i <= Len(Calls(r)) /\ Len(Calls(r)) \in Nat
  BY ScriptCalls
<1>4. \A q : \A k \in DOMAIN Calls(q) : q \in DOMAIN script /\ k \in DOMAIN script[q] /\ Calls(q)[k] = script[q][k]
  BY ScriptCalls
<1>5. 1 .. i - 1 = {m \in DOMAIN Calls(r) : m < i}
  BY <1>3
<1>6. /\ c.call # "destroy_pool" => c.p \in Proxy /\ c.p # NULL
      /\ c.call = "do_job" => c.job \in Job
  BY <1>1, <1>2 DEF WellUsed
<1>7. c.call \in {"do_job", "join"} =>
              /\ \E m \in DOMAIN Calls(r) : m < i /\ Calls(r)[m].call = "allocate" /\ Calls(r)[m].p = c.p
              /\ \A m \in DOMAIN Calls(r) : m < i /\ Calls(r)[m].call = "destroy_proxy" => Calls(r)[m].p # c.p
  BY <1>1, <1>2, <1>5 DEF WellUsed
<1>8. \A q : \A k \in DOMAIN Calls(q) :
              /\ c.p # NULL /\ Calls(q)[k].p = c.p => q = r
              /\ c.call = "do_job" /\ Calls(q)[k].call = "do_job" /\ Calls(q)[k].job = c.job => q = r /\ k = i
  BY <1>1, <1>2, <1>4 DEF WellUsed
<1>. QED BY <1>6, <1>7, <1>8

\* The innermost frame of an actor.
LEMMA TopFrame ==
  ASSUME PoolInv, NEW a \in Actor, stack[a] # <<>>
  PROVE  LET n == Len(stack[a]) IN
         /\ stack[a] \in Seq(FrameRec) /\ n \in Nat \ {0} /\ n \in DOMAIN stack[a] /\ DOMAIN stack[a] = 1 .. n
         /\ Top(a) = stack[a][n] /\ Top(a) \in FrameRec /\ InCall(Top(a))
         /\ a \in Client => Top(a).run = a /\ Top(a).pc # "help" /\ n = 1
         /\ a \in Thread => /\ Top(a).run \in Job /\ running_job[a] = Top(a).index
                            /\ Top(a).index \in DOMAIN jobs[a] /\ jobs[a][Top(a).index] = Top(a).run
<1>. DEFINE n == Len(stack[a])
<1>1. stack[a] \in Seq(FrameRec)
  BY DEF PoolInv, PoolTypeOK
<1>2. n \in Nat \ {0} /\ n \in DOMAIN stack[a] /\ DOMAIN stack[a] = 1 .. n
  BY <1>1, EmptySeq
<1>3. Top(a) = stack[a][n]
  BY DEF Top, Last
<1>4. Top(a) \in FrameRec /\ InCall(Top(a))
  BY <1>1, <1>2, <1>3 DEF PoolInv, Frames
<1>5. a \in Client => Top(a).run = a /\ Top(a).pc # "help" /\ n = 1
  BY <1>3 DEF PoolInv, Frames, ClientFrame
<1>6. a \in Thread => JobFrame(a, n) /\ Innermost(a)
  BY <1>2 DEF PoolInv, Frames
<1>. QED BY <1>1, <1>2, <1>3, <1>4, <1>5, <1>6 DEF JobFrame, Innermost

\* The code of a client or a job runs in one frame at most, and not any more
\* when the job is finished.
LEMMA OneFrame ==
  ASSUME PoolInv, NEW a \in Actor, NEW b \in Actor, NEW i \in DOMAIN stack[a], NEW k \in DOMAIN stack[b],
         stack[a][i].run = stack[b][k].run
  PROVE  a = b /\ i = k /\ stack[a][i].run \notin finished
<1>1. ASSUME NEW c \in Client, NEW m \in DOMAIN stack[c]
      PROVE  m = 1 /\ stack[c][m].run = c /\ c \notin Job
  <2>1. ClientFrame(c) /\ stack[c] \in Seq(FrameRec)
    BY <1>1 DEF PoolInv, Frames, PoolTypeOK, Actor
  <2>2. c \notin Job
    BY ThreadPoolAssumption DEF Actor
  <2>. QED BY <1>1, <2>1, <2>2 DEF ClientFrame
<1>2. ASSUME NEW t \in Thread, NEW m \in DOMAIN stack[t]
      PROVE  /\ stack[t][m].run \in Job /\ stack[t][m].index \in DOMAIN jobs[t]
             /\ jobs[t][stack[t][m].index] = stack[t][m].run
  <2>1. JobFrame(t, m)
    BY <1>2 DEF PoolInv, Frames
  <2>. QED BY <2>1 DEF JobFrame
<1>3. finished \subseteq Job
  BY DEF PoolInv, PoolTypeOK, TypeOK
<1>4. CASE a \in Client
  <2>1. b \in Client
    BY <1>1, <1>2, <1>4 DEF Actor
  <2>. QED BY <1>1, <1>3, <1>4, <2>1
<1>5. CASE a \in Thread
  <2>1. b \in Thread
    BY <1>1, <1>2, <1>5 DEF Actor
  <2>2. a = b /\ stack[a][i].index = stack[b][k].index /\ stack[a][i].run \notin finished
    BY <1>2, <1>5, <2>1 DEF PoolInv, Queues
  <2>3. JobFrame(a, i) /\ JobFrame(a, k)
    BY <1>5, <2>2 DEF PoolInv, Frames
  <2>4. stack[a] \in Seq(FrameRec) /\ i \in Nat \ {0} /\ k \in Nat \ {0} /\ stack[a][i].index \in Nat
    <3>1. stack[a] \in Seq(FrameRec)
      BY DEF PoolInv, PoolTypeOK
    <3>2. i \in 1 .. Len(stack[a]) /\ k \in 1 .. Len(stack[a]) /\ stack[a][i] \in FrameRec
      BY <2>2, <3>1
    <3>3. Len(stack[a]) \in Nat
      BY <3>1
    <3>4. stack[a][i].index \in Nat
      BY <3>2 DEF FrameRec
    <3>. QED BY <3>1, <3>2, <3>3, <3>4
  <2>5. ~(i < k) /\ ~(k < i)
    BY <2>2, <2>3, <2>4 DEF JobFrame
  <2>. QED BY <2>2, <2>4, <2>5
<1>. QED BY <1>4, <1>5 DEF Actor

(***************************************************************************)
(* Steps inside one frame                                                  *)
(***************************************************************************)
\* The frame f goes on as g.
Advances(f, g) == /\ g.run = f.run /\ g.index = f.index /\ g.old = f.old
                  /\ f.ip < g.ip \/ (f.ip = g.ip /\ f.pc # "notify")

LEMMA GotoStack ==
  ASSUME PoolInv, NEW a \in Actor, stack[a] # <<>>, NEW g \in FrameRec, Goto(a, g)
  PROVE  /\ stack' \in [Actor -> Seq(FrameRec)]
         /\ \A b \in Actor : /\ Len(stack'[b]) = Len(stack[b]) /\ DOMAIN stack'[b] = DOMAIN stack[b]
                             /\ (stack'[b] = <<>>) = (stack[b] = <<>>)
                             /\ b # a => stack'[b] = stack[b]
         /\ \A i \in DOMAIN stack[a] : stack'[a][i] = IF i = Len(stack[a]) THEN g ELSE stack[a][i]
         /\ Len(stack[a]) \in DOMAIN stack[a] /\ Top(a) = stack[a][Len(stack[a])]
<1>. DEFINE r == Append(Front(stack[a]), g)
<1>1. stack \in [Actor -> Seq(FrameRec)] /\ stack' = [stack EXCEPT ![a] = r]
  BY DEF PoolInv, PoolTypeOK, Goto
<1>2. /\ r \in Seq(FrameRec) /\ Len(r) = Len(stack[a]) /\ Len(stack[a]) \in Nat \ {0}
      /\ \A i \in 1 .. Len(stack[a]) : r[i] = IF i = Len(stack[a]) THEN g ELSE stack[a][i]
  <2>1. stack[a] \in Seq(FrameRec)
    BY <1>1
  <2>. QED BY <2>1, LastReplaced
<1>3. DOMAIN r = DOMAIN stack[a] /\ DOMAIN stack[a] = 1 .. Len(stack[a]) /\ r # <<>>
  BY <1>1, <1>2
<1>. HIDE DEF r
<1>4. stack'[a] = r /\ \A b \in Actor : b # a => stack'[b] = stack[b]
  BY <1>1
<1>. QED BY <1>1, <1>2, <1>3, <1>4, TopFrame

LEMMA GotoFrames ==
  ASSUME PoolInv, NEW a \in Actor, stack[a] # <<>>, NEW g \in FrameRec, Goto(a, g),
         Advances(Top(a), g), InCall(g), a \in Client => g.pc # "help",
         script' = script, running_job' = running_job,
         \A t \in Thread : /\ DOMAIN jobs[t] \subseteq DOMAIN jobs'[t]
                           /\ \A i \in DOMAIN jobs[t] : jobs'[t][i] = jobs[t][i]
  PROVE  Frames'
<1>1. stack \in [Actor -> Seq(FrameRec)] /\ Frames /\ Client \cap Thread = {}
  BY ThreadPoolAssumption DEF PoolInv, PoolTypeOK
<1>2. ASSUME NEW b \in Actor, NEW i \in DOMAIN stack'[b] PROVE InCall(stack[b][i])'
  <2>1. InCall(stack'[b][i])
    BY <1>1, <1>2, GotoStack DEF Frames
  <2>. QED BY <2>1 DEF InCall, Calls, CallOf
<1>3. ASSUME NEW c \in Client PROVE ClientFrame(c)'
  <2>1. ClientFrame(c) /\ c \in Actor
    BY <1>1 DEF Frames, Actor
  <2>2. CASE c = a
    <3>1. Len(stack[a]) = 1 /\ Top(a) = stack[a][1] /\ Len(stack'[a]) = 1 /\ stack'[a][1] = g
      BY <2>1, <2>2, GotoStack DEF ClientFrame
    <3>. QED BY <2>1, <2>2, <3>1 DEF ClientFrame, Advances
  <2>3. CASE c # a
    BY <2>1, <2>3, GotoStack DEF ClientFrame
  <2>. QED BY <2>2, <2>3
<1>4. ASSUME NEW t \in Thread, t # a PROVE Innermost(t)' /\ \A i \in DOMAIN stack'[t] : JobFrame(t, i)'
  <2>1. stack'[t] = stack[t] /\ Innermost(t) /\ \A i \in DOMAIN stack[t] : JobFrame(t, i)
    BY <1>1, <1>4, GotoStack DEF Frames, Actor
  <2>. QED BY <2>1 DEF Innermost, JobFrame, Top
<1>5. ASSUME a \in Thread PROVE Innermost(a)' /\ \A i \in DOMAIN stack'[a] : JobFrame(a, i)'
  <2>. DEFINE n == Len(stack[a])
  <2>1. /\ n \in DOMAIN stack[a] /\ Top(a) = stack[a][n] /\ DOMAIN stack'[a] = DOMAIN stack[a]
        /\ Len(stack'[a]) = n /\ stack'[a] # <<>> /\ n \in Nat /\ DOMAIN stack[a] = 1 .. n
        /\ \A i \in DOMAIN stack[a] : stack'[a][i] = IF i = n THEN g ELSE stack[a][i]
    BY <1>1, GotoStack
  <2>2. Innermost(a) /\ \A i \in DOMAIN stack[a] : JobFrame(a, i)
    BY <1>1, <1>5 DEF Frames
  <2>. HIDE DEF n
  <2>3. Innermost(a)'
    <3>1. Top(a)' = g
      BY <2>1 DEF Top, Last
    <3>. QED BY <2>1, <2>2, <3>1 DEF Innermost, Advances
  <2>4. ASSUME NEW i \in DOMAIN stack[a] PROVE JobFrame(a, i)'
    <3>1. JobFrame(a, i) /\ i \in 1 .. n
      BY <2>1, <2>2
    <3>2. \A k \in 1 .. i : /\ stack'[a][k].run = stack[a][k].run /\ stack'[a][k].index = stack[a][k].index
                            /\ stack'[a][k].old = stack[a][k].old
                            /\ k < n => stack'[a][k].pc = stack[a][k].pc
      BY <2>1, <3>1 DEF Advances
    <3>3. i \in 1 .. i /\ (i # 1 => i - 1 \in 1 .. i) /\ \A k \in 1 .. i - 1 : k \in 1 .. i
      BY <3>1
    <3>. QED BY <1>5, <2>1, <3>1, <3>2, <3>3 DEF JobFrame
  <2>. QED BY <2>1, <2>3, <2>4
<1>. QED BY <1>2, <1>3, <1>4, <1>5 DEF Frames

\* A call that has been made stays made, and a job that has a frame keeps it.
LEMMA GotoKeeps ==
  ASSUME PoolInv, NEW a \in Actor, stack[a] # <<>>, NEW g \in FrameRec, Goto(a, g),
         Advances(Top(a), g), finished' = finished
  PROVE  /\ \A r : \A k \in Nat : Past(r, k) => Past(r, k)'
         /\ \A j : Framed(j)' = Framed(j)
<1>. DEFINE n == Len(stack[a])
<1>1. Top(a).ip \in Nat /\ g.ip \in Nat
  BY TopFrame DEF FrameRec
<1>2. \A b \in Actor : \A i \in DOMAIN stack[b] :
        /\ i \in DOMAIN stack'[b] /\ stack'[b][i].run = stack[b][i].run
        /\ stack'[b][i] = stack[b][i] \/ (stack[b][i] = Top(a) /\ stack'[b][i] = g)
  <2>. TAKE b \in Actor
  <2>. TAKE i \in DOMAIN stack[b]
  <2>1. i \in DOMAIN stack'[b]
    BY GotoStack
  <2>2. stack'[b][i] = stack[b][i] \/ (stack[b][i] = Top(a) /\ stack'[b][i] = g)
    <3>1. CASE b = a
      BY <3>1, GotoStack
    <3>2. CASE b # a
      <4>1. stack'[b] = stack[b]
        BY <3>2, GotoStack
      <4>. QED BY <4>1
    <3>. QED BY <3>1, <3>2
  <2>. QED BY <2>1, <2>2 DEF Advances
<1>3. \A b \in Actor : DOMAIN stack'[b] = DOMAIN stack[b]
  BY GotoStack
<1>4. ASSUME NEW r, NEW k \in Nat, Past(r, k) PROVE Past(r, k)'
  <2>1. CASE r \in finished
    BY <2>1 DEF Past
  <2>2. ASSUME NEW b \in Actor, NEW i \in DOMAIN stack[b], stack[b][i].run = r,
               k < stack[b][i].ip \/ (k = stack[b][i].ip /\ stack[b][i].pc = "notify")
        PROVE Past(r, k)'
    <3>1. i \in DOMAIN stack'[b] /\ stack'[b][i].run = r
      BY <1>2, <2>2
    <3>2. k < stack'[b][i].ip \/ (k = stack'[b][i].ip /\ stack'[b][i].pc = "notify")
      <4>1. CASE stack'[b][i] = stack[b][i]
        BY <2>2, <4>1
      <4>2. CASE stack[b][i] = Top(a) /\ stack'[b][i] = g
        BY <1>1, <1>4, <2>2, <4>2 DEF Advances
      <4>. QED BY <1>2, <4>1, <4>2
    <3>. QED BY <3>1, <3>2 DEF Past
  <2>. QED BY <1>4, <2>1, <2>2 DEF Past
<1>5. \A j : Framed(j)' = Framed(j)
  BY <1>2, <1>3 DEF Framed, Actor
<1>. QED BY <1>4, <1>5

\* A step of a frame that leaves the jobs alone.
LEMMA GotoRest ==
  ASSUME PoolInv, NEW a \in Actor, stack[a] # <<>>, NEW g \in FrameRec, Goto(a, g),
         Advances(Top(a), g), InCall(g), a \in Client => g.pc # "help",
         script' = script, UNCHANGED jobVars
  PROVE  Frames' /\ Queues' /\ Started' /\ Submitted' /\ ChildrenBehind'
<1>1. UNCHANGED <<script, jobs, running_job, proxy, finished, runs>>
  BY DEF jobVars
<1>2. Frames'
  BY <1>1, GotoFrames
<1>3. Queues'
  BY <1>1 DEF PoolInv, Queues
<1>4. Started'
  BY <1>1, GotoKeeps DEF PoolInv, Started
<1>5. Submitted'
  <2>. SUFFICES ASSUME NEW j \in Job, proxy[j] # NULL
       PROVE \E r \in Client \cup Job : \E k \in DOMAIN Calls(r)' : Submits(r, k, j, proxy[j])' /\ Past(r, k)'
    BY <1>1 DEF Submitted
  <2>0. PICK r \in Client \cup Job : \E k \in DOMAIN Calls(r) : Submits(r, k, j, proxy[j]) /\ Past(r, k)
    BY DEF PoolInv, Submitted
  <2>1. PICK k \in DOMAIN Calls(r) : Submits(r, k, j, proxy[j]) /\ Past(r, k)
    BY <2>0
  <2>2. k \in DOMAIN Calls(r)' /\ Submits(r, k, j, proxy[j])'
    BY <1>1, <2>1 DEF Submits, Calls
  <2>3. k \in Nat
    BY ScriptCalls DEF PoolInv, PoolTypeOK
  <2>. QED BY <1>1, <2>1, <2>2, <2>3, GotoKeeps
<1>6. ChildrenBehind'
  <2>. SUFFICES ASSUME NEW t \in Thread, NEW i \in DOMAIN stack'[t], NEW k \in DOMAIN jobs[t],
                       NEW m \in DOMAIN Calls(stack'[t][i].run),
                       Submits(stack'[t][i].run, m, jobs[t][k], Calls(stack'[t][i].run)[m].p)
       PROVE stack'[t][i].index < k
    BY <1>1 DEF ChildrenBehind, Calls, Submits
  <2>1. i \in DOMAIN stack[t] /\ stack'[t][i].run = stack[t][i].run /\ stack'[t][i].index = stack[t][i].index
    <3>1. t \in Actor /\ DOMAIN stack'[t] = DOMAIN stack[t]
      BY GotoStack DEF Actor
    <3>2. stack'[t][i] = stack[t][i] \/ (stack[t][i] = Top(a) /\ stack'[t][i] = g)
      <4>1. CASE t = a
        BY <3>1, <4>1, GotoStack
      <4>2. CASE t # a
        BY <3>1, <4>2, GotoStack
      <4>. QED BY <4>1, <4>2
    <3>. QED BY <3>1, <3>2 DEF Advances
  <2>. QED BY <2>1 DEF PoolInv, ChildrenBehind
<1>. QED BY <1>2, <1>3, <1>4, <1>5, <1>6

\* A step that neither allocates nor destroys a proxy.
LEMMA GotoProxies ==
  ASSUME PoolInv, NEW a \in Actor, stack[a] # <<>>, NEW g \in FrameRec, Goto(a, g), g.run = Top(a).run,
         \/ g.ip = Top(a).ip
         \/ g.ip = Top(a).ip + 1 /\ CallOf(Top(a)).call # "allocate",
         UNCHANGED <<script, threads, parent>>
  PROVE  OwnProxies'
<1>1. \A c \in Client : \A m \in DOMAIN Calls(c)' : Calls(c)'[m].p \in Proxy => parent'[Calls(c)'[m].p] = NULL
  BY DEF PoolInv, OwnProxies, Calls
<1>2. ASSUME NEW b \in Actor, NEW i \in DOMAIN stack'[b], NEW p \in Proxy, Allocated(stack'[b][i], p)
      PROVE threads[p] # <<>> /\ (b \in Thread => threads[p][1] = b)
  <2>1. i \in DOMAIN stack[b]
    BY GotoStack
  <2>2. Allocated(stack[b][i], p)
    <3>1. CASE stack'[b][i] = stack[b][i]
      BY <1>2, <3>1
    <3>2. CASE b = a /\ stack[b][i] = Top(a) /\ stack'[b][i] = g
      <4>1. Allocated(g, p) /\ Top(a).ip \in Nat
        BY <1>2, <3>2, TopFrame DEF FrameRec
      <4>2. \A m \in DOMAIN Calls(Top(a).run) : m \in Nat
        BY ScriptCalls DEF PoolInv, PoolTypeOK
      <4>3. Allocated(Top(a), p)
        BY <4>1, <4>2 DEF Allocated, CallOf
      <4>. QED BY <3>2, <4>3
    <3>. QED BY <3>1, <3>2, GotoStack
  <2>. QED BY <2>1, <2>2 DEF PoolInv, OwnProxies
<1>3. \A b \in Actor : \A i \in DOMAIN stack'[b] : \A p \in Proxy :
        Allocated(stack[b][i], p)' => threads'[p] # <<>> /\ (b \in Thread => threads'[p][1] = b)
  BY <1>2 DEF Allocated, Calls
<1>. QED BY <1>1, <1>3 DEF OwnProxies

\* A call to a proxy finds its threads; a nested one begins with the caller's.
LEMMA CallFacts ==
  ASSUME PoolInv, NEW a \in Actor, stack[a] # <<>>, Top(a).ip \in DOMAIN Calls(Top(a).run),
         CallOf(Top(a)).call \in {"do_job", "join"}
  PROVE  LET p == CallOf(Top(a)).p IN
         /\ p \in Proxy /\ threads[p] \in Seq(Thread) /\ threads[p] # <<>>
         /\ a \in Thread => threads[p][1] = a
         /\ a \in Client => parent[p] = NULL
<1>. DEFINE f == Top(a)
            p == CallOf(f).p
<1>1. script \in Scripts /\ OwnProxies /\ threads \in [Proxy -> Seq(Thread)]
  BY DEF PoolInv, PoolTypeOK, TypeOK
<1>2. f = stack[a][Len(stack[a])] /\ Len(stack[a]) \in DOMAIN stack[a] /\ (a \in Client => f.run = a)
  BY TopFrame
<1>3. p \in Proxy /\ Allocated(f, p)
  BY <1>1, Usage DEF CallOf, Allocated
<1>4. threads[p] # <<>> /\ (a \in Thread => threads[p][1] = a)
  BY <1>1, <1>2, <1>3 DEF OwnProxies
<1>5. a \in Client => parent[p] = NULL
  BY <1>1, <1>2, <1>3 DEF OwnProxies, CallOf
<1>. QED BY <1>1, <1>3, <1>4, <1>5

(***************************************************************************)
(* run_job                                                                 *)
(***************************************************************************)
\* Starting the job at place i of thread t, behind the jobs that it runs.
LEMMA RunStep ==
  ASSUME PoolInv, NEW t \in Thread, NEW i \in DOMAIN jobs[t],
         stack[t] # <<>> => Top(t).pc = "help",
         \A k \in DOMAIN stack[t] : stack[t][k].index < i,
         RunJob(t, i), UNCHANGED <<proxyVars, lock, worker, joining, program, script>>
  PROVE  PoolInv'
<1>. DEFINE n == Len(stack[t])
<1>job. PICK job : job = jobs[t][i]
  OBVIOUS
<1>1. /\ TypeOK /\ script \in Scripts /\ stack \in [Actor -> Seq(FrameRec)] /\ Frames /\ Queues /\ Started
      /\ Submitted /\ ChildrenBehind /\ OwnProxies
  BY DEF PoolInv, PoolTypeOK
<1>2. /\ jobs \in [Thread -> Seq(Job)] /\ running_job \in [Thread -> Nat] /\ runs \in [Job -> Nat]
      /\ job \in Job /\ i \in Nat /\ i <= Len(jobs[t]) /\ Len(jobs[t]) \in Nat /\ t \in Actor
  BY <1>1, <1>job DEF TypeOK, Actor
<1>3. /\ running_job' = [running_job EXCEPT ![t] = i] /\ runs' = [runs EXCEPT ![job] = @ + 1]
      /\ stack' = [stack EXCEPT ![t] = Append(@, [Frame(job) EXCEPT !.index = i, !.old = running_job[t]])]
      /\ UNCHANGED <<jobs, proxy, finished, parent, threads, next_thread, futures, lock, worker, joining, program, script>>
  BY <1>job DEF RunJob, proxyVars
<1>same. UNCHANGED <<jobs, proxy, finished, parent, threads, script>>
  BY <1>3
<1>new. PICK g : g = [Frame(job) EXCEPT !.index = i, !.old = running_job[t]]
  OBVIOUS
<1>4. /\ g \in FrameRec /\ g.run = job /\ g.pc = "body" /\ g.ip = 1 /\ g.index = i /\ g.old = running_job[t]
  <2>1. /\ g.run = job /\ g.pc = "body" /\ g.ip = 1 /\ g.index = i /\ g.old = running_job[t] /\ g.to = 0
    BY <1>new DEF Frame
  <2>2. g = [run |-> g.run, pc |-> g.pc, ip |-> g.ip, index |-> g.index, old |-> g.old, to |-> g.to]
    BY <1>new DEF Frame
  <2>3. running_job[t] \in Nat
    BY <1>2
  <2>. QED BY <1>2, <2>1, <2>2, <2>3 DEF FrameRec, Places
<1>. DEFINE r == Append(stack[t], g)
<1>5. /\ r \in Seq(FrameRec) /\ Len(r) = n + 1 /\ n \in Nat /\ DOMAIN stack[t] = 1 .. n /\ DOMAIN r = 1 .. n + 1
      /\ r[n + 1] = g /\ \A k \in 1 .. n : r[k] = stack[t][k]
  <2>1. stack[t] \in Seq(FrameRec)
    BY <1>1, <1>2
  <2>. QED BY <1>4, <2>1, Appended
<1>. HIDE DEF r
<1>6. stack' \in [Actor -> Seq(FrameRec)] /\ stack'[t] = r /\ \A b \in Actor : b # t => stack'[b] = stack[b]
  <2>1. stack' = [stack EXCEPT ![t] = r]
    BY <1>new, <1>1, <1>2, <1>3 DEF r
  <2>. QED BY <1>1, <1>2, <1>5, <2>1
<1>7. job \notin finished /\ ~Framed(job) /\ runs[job] = 0
  <2>1. job \notin finished
    BY <1>1, <1>job DEF Queues
  <2>2. ASSUME NEW u \in Thread, NEW k \in DOMAIN stack[u], stack[u][k].run = job PROVE FALSE
    <3>1. stack[u][k].index \in DOMAIN jobs[u] /\ jobs[u][stack[u][k].index] = job
      BY <1>1, <2>2 DEF Frames, JobFrame
    <3>2. u = t /\ stack[u][k].index = i
      BY <1>1, <1>job, <3>1 DEF Queues
    <3>. QED BY <1>2, <2>2, <3>2
  <2>. QED BY <1>1, <1>2, <2>1, <2>2 DEF Started, Framed
<1>8. ASSUME NEW b \in Actor, NEW k \in DOMAIN stack'[b]
      PROVE \/ k \in DOMAIN stack[b] /\ stack'[b][k] = stack[b][k]
            \/ b = t /\ k = n + 1 /\ stack'[b][k] = g
  BY <1>5, <1>6, <1>8
<1>9. \A b \in Actor : \A k \in DOMAIN stack[b] : k \in DOMAIN stack'[b] /\ stack'[b][k] = stack[b][k]
  <2>. TAKE b \in Actor
  <2>. TAKE k \in DOMAIN stack[b]
  <2>1. CASE b = t
    <3>1. k \in 1 .. n /\ k \in 1 .. n + 1
      BY <1>5, <2>1
    <3>. QED BY <1>5, <1>6, <2>1, <3>1
  <2>2. CASE b # t
    BY <1>6, <2>2
  <2>. QED BY <2>1, <2>2
<1>10. Frames'
  <2>1. ASSUME NEW b \in Actor, NEW k \in DOMAIN stack'[b] PROVE InCall(stack[b][k])'
    <3>1. InCall(stack'[b][k])
      <4>1. CASE k \in DOMAIN stack[b] /\ stack'[b][k] = stack[b][k]
        BY <1>1, <4>1 DEF Frames
      <4>2. CASE stack'[b][k] = g
        BY <1>4, <4>2 DEF InCall
      <4>. QED BY <1>8, <2>1, <4>1, <4>2
    <3>. QED BY <1>same, <3>1 DEF InCall, Calls, CallOf
  <2>2. ASSUME NEW c \in Client PROVE ClientFrame(c)'
    <3>1. c \in Actor /\ c # t /\ ClientFrame(c)
      BY <1>1, ThreadPoolAssumption DEF Frames, Actor
    <3>. QED BY <1>6, <3>1 DEF ClientFrame
  <2>3. ASSUME NEW u \in Thread, u # t PROVE Innermost(u)' /\ \A k \in DOMAIN stack'[u] : JobFrame(u, k)'
    <3>1. stack'[u] = stack[u] /\ running_job'[u] = running_job[u] /\ Innermost(u) /\ \A k \in DOMAIN stack[u] : JobFrame(u, k)
      BY <1>1, <1>2, <1>3, <1>6, <2>3 DEF Frames, Actor
    <3>2. Innermost(u)'
      BY <3>1 DEF Innermost, Top
    <3>3. \A k \in DOMAIN stack'[u] : JobFrame(u, k)'
      BY <1>same, <3>1 DEF JobFrame
    <3>. QED BY <3>2, <3>3
  <2>4. Innermost(t)'
    <3>1. Top(t)' = g /\ stack'[t] # <<>> /\ running_job'[t] = i
      BY <1>2, <1>3, <1>5, <1>6 DEF Top, Last
    <3>. QED BY <1>4, <3>1 DEF Innermost
  <2>5. ASSUME NEW k \in 1 .. n PROVE JobFrame(t, k)'
    <3>1. JobFrame(t, k) /\ k \in DOMAIN stack[t]
      BY <1>1, <1>5, <2>5 DEF Frames
    <3>2. \A m \in 1 .. k : stack'[t][m] = stack[t][m]
      BY <1>5, <1>6
    <3>3. k \in 1 .. k /\ (k # 1 => k - 1 \in 1 .. k) /\ \A m \in 1 .. k - 1 : m \in 1 .. k
      BY <1>5
    <3>4. stack'[t][k].pc = "help"
      <4>1. CASE k < n
        BY <1>5, <3>1, <3>2, <3>3, <4>1 DEF JobFrame
      <4>2. CASE k = n
        <5>1. stack[t] # <<>> /\ Top(t) = stack[t][n]
          BY <1>5, <4>2 DEF Top, Last
        <5>. QED BY <3>2, <3>3, <4>2, <5>1
      <4>. QED BY <1>5, <4>1, <4>2
    <3>. QED BY <1>3, <3>1, <3>2, <3>3, <3>4 DEF JobFrame
  <2>6. ASSUME NEW e \in Nat, e = n + 1 PROVE JobFrame(t, e)'
    <3>1. stack'[t][e] = g /\ Len(stack'[t]) = e /\ \A m \in 1 .. n : stack'[t][m] = stack[t][m]
      BY <1>5, <1>6, <2>6
    <3>2. g.old = IF e = 1 THEN 0 ELSE stack'[t][e - 1].index
      <4>1. Innermost(t)
        BY <1>1 DEF Frames
      <4>2. CASE n = 0
        <5>1. stack[t] = <<>>
          BY <1>1, <1>2, <4>2, EmptySeq
        <5>. QED BY <1>4, <2>6, <4>1, <4>2, <5>1 DEF Innermost
      <4>3. CASE n # 0
        <5>1. stack[t] # <<>> /\ Top(t) = stack[t][n] /\ e # 1 /\ e - 1 = n /\ n \in 1 .. n
          BY <1>5, <2>6, <4>3 DEF Top, Last
        <5>. QED BY <1>4, <3>1, <4>1, <5>1 DEF Innermost
      <4>. QED BY <4>2, <4>3
    <3>3. \A k \in 1 .. e - 1 : stack'[t][k].index < g.index
      <4>1. 1 .. e - 1 = 1 .. n
        BY <1>5, <2>6
      <4>. QED BY <1>4, <1>5, <3>1, <4>1
    <3>4. g.run \in Job /\ g.index \in DOMAIN jobs'[t] /\ jobs'[t][g.index] = g.run
      BY <1>2, <1>3, <1>4, <1>job
    <3>5. ~(e < Len(stack'[t]))
      BY <2>6, <3>1
    <3>. QED BY <3>1, <3>2, <3>3, <3>4, <3>5 DEF JobFrame
  <2>7. ASSUME NEW k \in DOMAIN stack'[t] PROVE JobFrame(t, k)'
    <3>1. k \in 1 .. n \/ (k \in Nat /\ k = n + 1)
      BY <1>5, <1>6, <2>7
    <3>. QED BY <2>5, <2>6, <3>1
  <2>. QED BY <2>1, <2>2, <2>3, <2>4, <2>7 DEF Frames
<1>11. Queues'
  BY <1>1, <1>same DEF Queues
<1>12. Started'
  <2>1. ASSUME NEW j \in Job PROVE Framed(j)' <=> Framed(j) \/ j = job
    <3>1. Framed(j)' => Framed(j) \/ j = job
      BY <1>4, <1>8 DEF Framed, Actor
    <3>2. Framed(j) => Framed(j)'
      BY <1>9 DEF Framed, Actor
    <3>3. Framed(job)'
      <4>1. n + 1 \in DOMAIN stack'[t] /\ stack'[t][n + 1].run = job
        BY <1>4, <1>5, <1>6
      <4>. QED BY <4>1 DEF Framed
    <3>. QED BY <3>1, <3>2, <3>3
  <2>2. \A j \in Job : runs'[j] = IF j = job THEN 1 ELSE runs[j]
    BY <1>2, <1>3, <1>7
  <2>. QED BY <1>1, <1>3, <1>7, <2>1, <2>2 DEF Started
<1>13. Submitted'
  <2>. SUFFICES ASSUME NEW j \in Job, proxy[j] # NULL
       PROVE \E q \in Client \cup Job : \E k \in DOMAIN Calls(q)' : Submits(q, k, j, proxy[j])' /\ Past(q, k)'
    BY <1>same DEF Submitted
  <2>1. PICK q \in Client \cup Job : \E k \in DOMAIN Calls(q) : Submits(q, k, j, proxy[j]) /\ Past(q, k)
    BY <1>1 DEF Submitted
  <2>2. PICK k \in DOMAIN Calls(q) : Submits(q, k, j, proxy[j]) /\ Past(q, k)
    BY <2>1
  <2>3. k \in DOMAIN Calls(q)' /\ Submits(q, k, j, proxy[j])'
    BY <1>same, <2>2 DEF Submits, Calls
  <2>4. Past(q, k)'
    BY <1>same, <1>9, <2>2 DEF Past
  <2>. QED BY <2>3, <2>4
<1>14. ChildrenBehind'
  <2>. SUFFICES ASSUME NEW u \in Thread, NEW k \in DOMAIN stack'[u], NEW m \in DOMAIN jobs[u],
                       NEW l \in DOMAIN Calls(stack'[u][k].run),
                       Submits(stack'[u][k].run, l, jobs[u][m], Calls(stack'[u][k].run)[l].p)
       PROVE stack'[u][k].index < m
    BY <1>same DEF ChildrenBehind, Calls, Submits
  <2>1. CASE k \in DOMAIN stack[u] /\ stack'[u][k] = stack[u][k]
    BY <1>1, <2>1 DEF ChildrenBehind
  <2>2. CASE u = t /\ stack'[u][k] = g
    <3>1. l \in DOMAIN Calls(job) /\ Submits(job, l, jobs[t][m], Calls(job)[l].p)
      BY <1>4, <2>2
    <3>2. jobs[t][m] \in Job /\ proxy[jobs[t][m]] # NULL
      BY <1>1, <1>2, <2>2 DEF Queues
    <3>3. PICK q \in Client \cup Job : \E z \in DOMAIN Calls(q) : Submits(q, z, jobs[t][m], proxy[jobs[t][m]]) /\ Past(q, z)
      BY <1>1, <3>2 DEF Submitted
    <3>4. PICK z \in DOMAIN Calls(q) : Submits(q, z, jobs[t][m], proxy[jobs[t][m]]) /\ Past(q, z)
      BY <3>3
    <3>5. /\ Calls(q)[z].call = "do_job" /\ Calls(q)[z].job = jobs[t][m]
          /\ Calls(job)[l].call = "do_job" /\ Calls(job)[l].job = jobs[t][m]
      BY <1>1, <3>1, <3>4, ScriptCalls DEF Submits
    <3>6. q = job
      BY <1>1, <3>1, <3>4, <3>5, Usage
    <3>7. job \notin Client
      BY <1>2, ThreadPoolAssumption DEF Actor
    <3>8. PICK b \in Actor : \E y \in DOMAIN stack[b] : stack[b][y].run = job
      BY <1>7, <3>4, <3>6 DEF Past
    <3>9. b \in Thread
      BY <1>1, <3>7, <3>8 DEF Frames, ClientFrame, Actor
    <3>. QED BY <1>7, <3>8, <3>9 DEF Framed
  <2>. QED BY <1>8, <2>1, <2>2 DEF Actor
<1>15. OwnProxies'
  <2>1. ASSUME NEW b \in Actor, NEW k \in DOMAIN stack'[b], NEW p \in Proxy, Allocated(stack'[b][k], p)
        PROVE threads[p] # <<>> /\ (b \in Thread => threads[p][1] = b)
    <3>1. CASE k \in DOMAIN stack[b] /\ stack'[b][k] = stack[b][k]
      BY <1>1, <2>1, <3>1 DEF OwnProxies
    <3>2. CASE stack'[b][k] = g
      <4>1. \A m \in DOMAIN Calls(g.run) : m \in Nat \ {0}
        BY <1>1, ScriptCalls
      <4>. QED BY <1>4, <2>1, <3>2, <4>1 DEF Allocated
    <3>. QED BY <1>8, <3>1, <3>2
  <2>2. \A b \in Actor : \A k \in DOMAIN stack'[b] : \A p \in Proxy :
          Allocated(stack[b][k], p)' => threads'[p] # <<>> /\ (b \in Thread => threads'[p][1] = b)
    BY <1>same, <2>1 DEF Allocated, Calls
  <2>3. \A c \in Client : \A m \in DOMAIN Calls(c)' : Calls(c)'[m].p \in Proxy => parent'[Calls(c)'[m].p] = NULL
    BY <1>1, <1>same DEF OwnProxies, Calls
  <2>. QED BY <2>2, <2>3 DEF OwnProxies
<1>16. TypeOK'
  <2>1. \A u \in Thread : running_job'[u] <= Len(jobs'[u])
    <3>1. \A u \in Thread : running_job[u] <= Len(jobs[u])
      BY <1>1 DEF TypeOK
    <3>2. \A u \in Thread : running_job'[u] = IF u = t THEN i ELSE running_job[u]
      BY <1>2, <1>3
    <3>. QED BY <1>2, <1>same, <3>1, <3>2
  <2>2. running_job' \in [Thread -> Nat] /\ DOMAIN stack' = Actor
    BY <1>2, <1>3, <1>6
  <2>3. runs' \in [Job -> Nat]
    <3>1. runs' = [runs EXCEPT ![job] = 1]
      BY <1>3, <1>7
    <3>. QED BY <1>2, <3>1
  <2>. QED BY <1>1, <1>3, <2>1, <2>2, <2>3 DEF TypeOK
<1>. QED BY <1>1, <1>3, <1>6, <1>10, <1>11, <1>12, <1>13, <1>14, <1>15, <1>16 DEF PoolInv, PoolTypeOK

\* Erasing the innermost job of thread t, which moves those behind it.
LEMMA ReturnStep ==
  ASSUME PoolInv, NEW t \in Thread, JobReturn(t), script' = script
  PROVE  PoolInv'
<1>. DEFINE n == Len(stack[t])
            f == Top(t)
<1>1. /\ TypeOK /\ script \in Scripts /\ stack \in [Actor -> Seq(FrameRec)] /\ Frames /\ Queues /\ Started
      /\ Submitted /\ ChildrenBehind /\ OwnProxies
  BY DEF PoolInv, PoolTypeOK
<1>2. stack[t] # <<>> /\ t \in Actor
  BY DEF JobReturn, At, Actor
<1>3. PICK job, e : job = f.run /\ e = f.index
  OBVIOUS
<1>4. /\ n \in Nat \ {0} /\ n \in DOMAIN stack[t] /\ DOMAIN stack[t] = 1 .. n /\ f = stack[t][n]
      /\ f \in FrameRec /\ job \in Job /\ running_job[t] = e /\ e \in DOMAIN jobs[t] /\ jobs[t][e] = job
  BY <1>2, <1>3, TopFrame
<1>5. /\ jobs \in [Thread -> Seq(Job)] /\ running_job \in [Thread -> Nat] /\ finished \subseteq Job
      /\ jobs[t] \in Seq(Job) /\ e \in 1 .. Len(jobs[t]) /\ Len(jobs[t]) \in Nat
  BY <1>1, <1>4 DEF TypeOK
<1>6. /\ finished' = finished \cup {job} /\ jobs' = [jobs EXCEPT ![t] = RemoveAt(jobs[t], e)]
      /\ running_job' = [running_job EXCEPT ![t] = f.old] /\ stack' = [stack EXCEPT ![t] = Front(@)]
      /\ UNCHANGED <<proxy, runs, proxyVars, lock, worker, joining, program>>
  BY <1>3, <1>4 DEF JobReturn, erased, restored
<1>7. UNCHANGED <<proxy, runs, parent, threads, script>>
  BY <1>6 DEF proxyVars
<1>8. /\ stack' \in [Actor -> Seq(FrameRec)] /\ \A b \in Actor : b # t => stack'[b] = stack[b]
      /\ Len(stack'[t]) = n - 1 /\ DOMAIN stack'[t] = 1 .. n - 1 /\ \A k \in 1 .. n - 1 : stack'[t][k] = stack[t][k]
  <2>1. stack[t] \in Seq(FrameRec)
    BY <1>1, <1>2
  <2>2. /\ Front(stack[t]) \in Seq(FrameRec) /\ Len(Front(stack[t])) = n - 1
        /\ \A k \in 1 .. n - 1 : Front(stack[t])[k] = stack[t][k]
    BY <1>2, <2>1, LastRemoved
  <2>3. DOMAIN Front(stack[t]) = 1 .. n - 1
    BY <2>2
  <2>4. stack'[t] = Front(stack[t])
    BY <1>1, <1>2, <1>6
  <2>. QED BY <1>1, <1>2, <1>6, <2>2, <2>3, <2>4
<1>9. ASSUME NEW b \in Actor, NEW k \in DOMAIN stack'[b]
      PROVE k \in DOMAIN stack[b] /\ stack'[b][k] = stack[b][k] /\ stack[b][k].run # job
  <2>1. k \in DOMAIN stack[b] /\ stack'[b][k] = stack[b][k] /\ (b = t => k # n)
    BY <1>4, <1>8, <1>9
  <2>2. stack[b][k].run # job
    BY <1>2, <1>3, <1>4, <2>1, OneFrame
  <2>. QED BY <2>1, <2>2
<1>10. ASSUME NEW b \in Actor, NEW k \in DOMAIN stack[b], stack[b][k].run # job
       PROVE  k \in DOMAIN stack'[b] /\ stack'[b][k] = stack[b][k]
  <2>1. b = t => k # n
    BY <1>3, <1>4, <1>10
  <2>. QED BY <1>4, <1>8, <1>10, <2>1
<1>11. /\ jobs' \in [Thread -> Seq(Job)] /\ Len(jobs'[t]) = Len(jobs[t]) - 1
       /\ \A i \in 1 .. Len(jobs[t]) - 1 : jobs'[t][i] = IF i < e THEN jobs[t][i] ELSE jobs[t][i + 1]
       /\ \A u \in Thread : u # t => jobs'[u] = jobs[u]
  <2>1. /\ RemoveAt(jobs[t], e) \in Seq(Job) /\ Len(RemoveAt(jobs[t], e)) = Len(jobs[t]) - 1
        /\ \A i \in 1 .. Len(jobs[t]) - 1 : RemoveAt(jobs[t], e)[i] = IF i < e THEN jobs[t][i] ELSE jobs[t][i + 1]
    BY <1>5, ElementRemoved
  <2>2. jobs'[t] = RemoveAt(jobs[t], e)
    BY <1>5, <1>6
  <2>. QED BY <1>5, <1>6, <2>1, <2>2
<1>. DEFINE before(u, i) == IF u = t /\ ~(i < e) THEN i + 1 ELSE i
<1>12. ASSUME NEW u \in Thread, NEW i \in DOMAIN jobs'[u]
       PROVE  /\ i \in Nat /\ before(u, i) \in DOMAIN jobs[u] /\ jobs'[u][i] = jobs[u][before(u, i)]
              /\ jobs[u][before(u, i)] # job
  <2>1. jobs'[u] \in Seq(Job) /\ jobs[u] \in Seq(Job)
    BY <1>5, <1>11
  <2>2. CASE u = t
    <3>1. i \in 1 .. Len(jobs[t]) - 1
      BY <1>11, <1>12, <2>1, <2>2
    <3>2. before(t, i) \in 1 .. Len(jobs[t]) /\ before(t, i) # e /\ jobs'[t][i] = jobs[t][before(t, i)]
      BY <1>5, <1>11, <3>1
    <3>3. jobs[t][before(t, i)] # job
      BY <1>1, <1>4, <1>5, <3>2 DEF Queues
    <3>. QED BY <1>5, <2>2, <3>1, <3>2, <3>3
  <2>3. CASE u # t
    <3>1. i \in DOMAIN jobs[u] /\ before(u, i) = i /\ jobs'[u][i] = jobs[u][i] /\ i \in Nat
      BY <1>11, <1>12, <2>1, <2>3
    <3>2. jobs[u][i] # job
      BY <1>1, <1>4, <2>3, <3>1 DEF Queues
    <3>. QED BY <3>1, <3>2
  <2>. QED BY <2>2, <2>3
<1>13. \A k \in 1 .. n - 1 : stack[t][k].index \in Nat /\ stack[t][k].index < e /\ JobFrame(t, k)
  <2>1. JobFrame(t, n) /\ n \in DOMAIN stack[t]
    BY <1>1, <1>4 DEF Frames
  <2>2. \A k \in 1 .. n - 1 : stack[t][k].index < e
    BY <1>3, <1>4, <2>1 DEF JobFrame
  <2>3. \A k \in 1 .. n - 1 : k \in DOMAIN stack[t] /\ stack[t][k] \in FrameRec
    BY <1>1, <1>2, <1>4
  <2>4. \A k \in 1 .. n - 1 : JobFrame(t, k)
    BY <1>1, <2>3 DEF Frames
  <2>. QED BY <2>2, <2>3, <2>4 DEF FrameRec
<1>14. f.old = IF n = 1 THEN 0 ELSE stack[t][n - 1].index
  <2>1. JobFrame(t, n) /\ f = stack[t][n]
    BY <1>1, <1>4 DEF Frames
  <2>. HIDE DEF n, f
  <2>. QED BY <2>1 DEF JobFrame
<1>15. f.old \in Nat /\ f.old <= Len(jobs[t]) - 1
  <2>1. CASE n = 1
    BY <1>5, <1>14, <2>1
  <2>2. CASE n # 1
    <3>1. n - 1 \in 1 .. n - 1
      <4>1. n \in Nat \ {0}
        BY <1>4
      <4>. HIDE DEF n
      <4>. QED BY <2>2, <4>1
    <3>. QED BY <1>5, <1>13, <1>14, <2>2, <3>1
  <2>. QED BY <2>1, <2>2
<1>. HIDE DEF before, f, n
<1>16. Frames'
  <2>1. ASSUME NEW b \in Actor, NEW k \in DOMAIN stack'[b] PROVE InCall(stack[b][k])'
    <3>1. InCall(stack'[b][k])
      BY <1>1, <1>9, <2>1 DEF Frames
    <3>. QED BY <1>7, <3>1 DEF InCall, Calls, CallOf
  <2>2. ASSUME NEW c \in Client PROVE ClientFrame(c)'
    <3>1. c \in Actor /\ c # t /\ ClientFrame(c)
      BY <1>1, ThreadPoolAssumption DEF Frames, Actor
    <3>. QED BY <1>8, <3>1 DEF ClientFrame
  <2>3. ASSUME NEW u \in Thread, u # t PROVE Innermost(u)' /\ \A k \in DOMAIN stack'[u] : JobFrame(u, k)'
    <3>1. /\ stack'[u] = stack[u] /\ running_job'[u] = running_job[u] /\ jobs'[u] = jobs[u]
          /\ Innermost(u) /\ \A k \in DOMAIN stack[u] : JobFrame(u, k)
      BY <1>1, <1>5, <1>6, <1>8, <1>11, <2>3 DEF Frames, Actor
    <3>. QED BY <3>1 DEF Innermost, JobFrame, Top
  <2>4. Innermost(t)'
    <3>1. running_job'[t] = f.old
      BY <1>5, <1>6
    <3>2. CASE n = 1
      <4>1. stack'[t] = <<>>
        BY <1>2, <1>8, <3>2, EmptySeq
      <4>. QED BY <1>14, <3>1, <3>2, <4>1 DEF Innermost
    <3>3. CASE n # 1
      <4>1. n - 1 \in 1 .. n - 1 /\ stack'[t] # <<>>
        BY <1>4, <1>8, <3>3
      <4>2. Top(t)' = stack[t][n - 1]
        BY <1>8, <4>1 DEF Top, Last
      <4>. QED BY <1>14, <3>1, <3>3, <4>1, <4>2 DEF Innermost
    <3>. QED BY <3>2, <3>3
  <2>5. ASSUME NEW k \in DOMAIN stack'[t] PROVE JobFrame(t, k)'
    <3>1. k \in 1 .. n - 1 /\ JobFrame(t, k) /\ \A m \in 1 .. k : stack'[t][m] = stack[t][m]
      BY <1>4, <1>8, <1>13, <2>5
    <3>2. k \in 1 .. k /\ (k # 1 => k - 1 \in 1 .. k) /\ \A m \in 1 .. k - 1 : m \in 1 .. k
      BY <1>4, <3>1
    <3>3. stack[t][k].index \in DOMAIN jobs[t] /\ jobs[t][stack[t][k].index] = stack[t][k].run /\ stack[t][k].run \in Job
      BY <3>1 DEF JobFrame
    <3>4. stack[t][k].index \in DOMAIN jobs'[t] /\ jobs'[t][stack[t][k].index] = stack[t][k].run
      <4>1. stack[t][k].index < e /\ stack[t][k].index \in 1 .. Len(jobs[t]) - 1
        BY <1>5, <1>13, <3>1, <3>3
      <4>2. jobs'[t] \in Seq(Job)
        BY <1>11
      <4>. QED BY <1>11, <3>3, <4>1, <4>2
    <3>5. stack'[t][k].pc = "help"
      BY <1>4, <3>1, <3>2 DEF JobFrame, n
    <3>6. stack'[t][k].old = IF k = 1 THEN 0 ELSE stack'[t][k - 1].index
      BY <3>1, <3>2 DEF JobFrame
    <3>7. \A m \in 1 .. k - 1 : stack'[t][m].index < stack'[t][k].index
      BY <3>1, <3>2 DEF JobFrame
    <3>. QED BY <3>1, <3>2, <3>3, <3>4, <3>5, <3>6, <3>7 DEF JobFrame
  <2>. QED BY <2>1, <2>2, <2>3, <2>4, <2>5 DEF Frames
<1>17. Queues'
  <2>1. ASSUME NEW u \in Thread, NEW i \in DOMAIN jobs'[u]
        PROVE jobs'[u][i] \notin finished' /\ proxy[jobs'[u][i]] # NULL
    <3>1. /\ before(u, i) \in DOMAIN jobs[u] /\ jobs'[u][i] = jobs[u][before(u, i)]
          /\ jobs[u][before(u, i)] # job
      BY <1>12, <2>1
    <3>2. jobs[u][before(u, i)] \notin finished /\ proxy[jobs[u][before(u, i)]] # NULL
      BY <1>1, <3>1 DEF Queues
    <3>3. finished' = finished \cup {job}
      BY <1>6
    <3>. QED BY <3>1, <3>2, <3>3
  <2>2. ASSUME NEW u \in Thread, NEW w \in Thread, NEW i \in DOMAIN jobs'[u], NEW k \in DOMAIN jobs'[w], jobs'[u][i] = jobs'[w][k]
        PROVE u = w /\ i = k
    <3>1. u = w /\ before(u, i) = before(w, k) /\ i \in Nat /\ k \in Nat
      BY <1>1, <1>12, <2>2 DEF Queues
    <3>. QED BY <1>5, <3>1 DEF before
  <2>3. \A j \in finished' : proxy[j] # NULL
    BY <1>1, <1>4, <1>6 DEF Queues
  <2>. QED BY <1>7, <2>1, <2>2, <2>3 DEF Queues
<1>18. Started'
  <2>1. ASSUME NEW j \in Job PROVE (Framed(j) \/ j \in finished)' <=> Framed(j) \/ j \in finished
    <3>1. Framed(j)' => Framed(j)
      BY <1>9 DEF Framed, Actor
    <3>2. Framed(j) => Framed(j)' \/ j = job
      BY <1>10 DEF Framed, Actor
    <3>3. Framed(job)
      BY <1>3, <1>4 DEF Framed
    <3>. QED BY <1>6, <3>1, <3>2, <3>3
  <2>. QED BY <1>1, <1>7, <2>1 DEF Started
<1>19. Submitted'
  <2>. SUFFICES ASSUME NEW j \in Job, proxy[j] # NULL
       PROVE \E q \in Client \cup Job : \E k \in DOMAIN Calls(q)' : Submits(q, k, j, proxy[j])' /\ Past(q, k)'
    BY <1>7 DEF Submitted
  <2>1. PICK q \in Client \cup Job : \E k \in DOMAIN Calls(q) : Submits(q, k, j, proxy[j]) /\ Past(q, k)
    BY <1>1 DEF Submitted
  <2>2. PICK k \in DOMAIN Calls(q) : Submits(q, k, j, proxy[j]) /\ Past(q, k)
    BY <2>1
  <2>3. k \in DOMAIN Calls(q)' /\ Submits(q, k, j, proxy[j])'
    BY <1>7, <2>2 DEF Submits, Calls
  <2>4. Past(q, k)'
    <3>1. CASE q \in finished \/ q = job
      BY <1>6, <3>1 DEF Past
    <3>2. CASE q # job /\ q \notin finished
      BY <1>10, <2>2, <3>2 DEF Past
    <3>. QED BY <3>1, <3>2
  <2>. QED BY <2>3, <2>4
<1>20. ChildrenBehind'
  <2>. SUFFICES ASSUME NEW u \in Thread, NEW k \in DOMAIN stack'[u], NEW m \in DOMAIN jobs'[u],
                       NEW l \in DOMAIN Calls(stack'[u][k].run),
                       Submits(stack'[u][k].run, l, jobs'[u][m], Calls(stack'[u][k].run)[l].p)
       PROVE stack'[u][k].index < m
    BY <1>7 DEF ChildrenBehind, Calls, Submits
  <2>1. k \in DOMAIN stack[u] /\ stack'[u][k] = stack[u][k] /\ u \in Actor
    BY <1>9 DEF Actor
  <2>2. m \in Nat /\ before(u, m) \in DOMAIN jobs[u] /\ jobs'[u][m] = jobs[u][before(u, m)]
    BY <1>12
  <2>3. stack[u][k].index < before(u, m)
    BY <1>1, <2>1, <2>2 DEF ChildrenBehind
  <2>4. CASE u = t
    <3>1. k \in 1 .. n - 1
      BY <1>8, <2>4
    <3>. QED BY <1>5, <1>13, <2>1, <2>2, <2>3, <2>4, <3>1 DEF before
  <2>5. CASE u # t
    BY <2>1, <2>3, <2>5 DEF before
  <2>. QED BY <2>4, <2>5
<1>21. OwnProxies'
  <2>1. ASSUME NEW b \in Actor, NEW k \in DOMAIN stack'[b], NEW p \in Proxy, Allocated(stack'[b][k], p)
        PROVE threads[p] # <<>> /\ (b \in Thread => threads[p][1] = b)
    BY <1>1, <1>9, <2>1 DEF OwnProxies
  <2>2. \A b \in Actor : \A k \in DOMAIN stack'[b] : \A p \in Proxy :
          Allocated(stack[b][k], p)' => threads'[p] # <<>> /\ (b \in Thread => threads'[p][1] = b)
    BY <1>7, <2>1 DEF Allocated, Calls
  <2>3. \A c \in Client : \A m \in DOMAIN Calls(c)' : Calls(c)'[m].p \in Proxy => parent'[Calls(c)'[m].p] = NULL
    BY <1>1, <1>7 DEF OwnProxies, Calls
  <2>. QED BY <2>2, <2>3 DEF OwnProxies
<1>22. TypeOK'
  <2>1. \A u \in Thread : running_job'[u] <= Len(jobs'[u])
    BY <1>1, <1>5, <1>6, <1>11, <1>15 DEF TypeOK
  <2>2. running_job' \in [Thread -> Nat] /\ DOMAIN stack' = Actor /\ finished' \subseteq Job
    BY <1>4, <1>5, <1>6, <1>8, <1>15
  <2>. QED BY <1>1, <1>6, <1>11, <2>1, <2>2 DEF TypeOK, proxyVars
<1>. QED BY <1>1, <1>7, <1>8, <1>16, <1>17, <1>18, <1>19, <1>20, <1>21, <1>22 DEF PoolInv, PoolTypeOK

(***************************************************************************)
(* The calls                                                               *)
(***************************************************************************)
\* The ways in which a frame goes on.
Fields(g, f, pc, ip) ==
  /\ g \in FrameRec /\ g.run = f.run /\ g.index = f.index /\ g.old = f.old
  /\ g.pc = pc /\ g.ip = ip

LEMMA RecordOf ==
  ASSUME NEW f \in FrameRec
  PROVE  /\ f = [run |-> f.run, pc |-> f.pc, ip |-> f.ip, index |-> f.index, old |-> f.old, to |-> f.to]
         /\ f.run \in Client \cup Job /\ f.pc \in Places /\ f.ip \in Nat \ {0} /\ f.index \in Nat
         /\ f.old \in Nat /\ f.to \in Nat
BY DEF FrameRec

LEMMA NextForm ==
  ASSUME NEW f \in FrameRec, NEW g, g = NextCall(f)
  PROVE  Fields(g, f, "body", f.ip + 1) /\ f.ip < g.ip
<1>1. PICK m \in Nat \ {0} : m = f.ip + 1
  BY RecordOf
<1>2. PICK x \in Places : x = "body"
  BY DEF Places
<1>zero. PICK z \in Nat : z = 0
  OBVIOUS
<1>3. g = [f EXCEPT !.pc = x, !.ip = m, !.to = z]
  BY <1>1, <1>2, <1>zero DEF NextCall
<1>4. g.run = f.run /\ g.index = f.index /\ g.old = f.old /\ g.pc = x /\ g.ip = m
  BY <1>3 DEF FrameRec
<1>5. g \in FrameRec
  BY <1>3 DEF FrameRec
<1>6. f.ip < f.ip + 1
  BY RecordOf
<1>. QED BY <1>1, <1>2, <1>4, <1>5, <1>6 DEF Fields

LEMMA PcForm ==
  ASSUME NEW f \in FrameRec, NEW x \in Places, NEW g, g = [f EXCEPT !.pc = x]
  PROVE  Fields(g, f, x, f.ip) /\ g.to = f.to
<1>1. g = [run |-> f.run, pc |-> x, ip |-> f.ip, index |-> f.index, old |-> f.old, to |-> f.to]
  BY RecordOf
<1>. QED BY <1>1, RecordOf DEF FrameRec, Fields

LEMMA ToForm ==
  ASSUME NEW f \in FrameRec, NEW n \in Nat, NEW g, g = [f EXCEPT !.to = n]
  PROVE  Fields(g, f, f.pc, f.ip) /\ g.to = n
<1>1. g = [run |-> f.run, pc |-> f.pc, ip |-> f.ip, index |-> f.index, old |-> f.old, to |-> n]
  BY RecordOf
<1>. QED BY <1>1, RecordOf DEF FrameRec, Fields

PcTo(f, x, n) == [f EXCEPT !.pc = x, !.to = n]

LEMMA PcToForm ==
  ASSUME NEW f \in FrameRec, NEW x \in Places, NEW n \in Nat, NEW g, g = PcTo(f, x, n)
  PROVE  Fields(g, f, x, f.ip) /\ g.to = n
<1>. USE DEF PcTo
<1>1. g.run = f.run /\ g.index = f.index /\ g.old = f.old /\ g.pc = x /\ g.ip = f.ip /\ g.to = n
  BY RecordOf DEF FrameRec
<1>2. g \in FrameRec
  BY RecordOf DEF FrameRec
<1>. QED BY <1>1, <1>2 DEF Fields

\* do_job is called once for a job, so the job is in no stack before.
LEMMA NewJob ==
  ASSUME PoolInv, NEW a \in Actor, stack[a] # <<>>, Top(a).pc = "emplace"
  PROVE  proxy[CallOf(Top(a)).job] = NULL
<1>1. script \in Scripts /\ Submitted
  BY DEF PoolInv, PoolTypeOK
<1>2. PICK f, c, j, n : f = Top(a) /\ c = CallOf(f) /\ j = c.job /\ n = Len(stack[a])
  OBVIOUS
<1>3. /\ f \in FrameRec /\ f.ip \in DOMAIN Calls(f.run) /\ c = Calls(f.run)[f.ip] /\ c.call = "do_job"
      /\ f.pc = "emplace" /\ n \in DOMAIN stack[a] /\ f = stack[a][n] /\ f.ip \in Nat
  BY <1>2, TopFrame, RecordOf DEF InCall, CallOf
<1>4. j \in Job
  BY <1>1, <1>2, <1>3, Usage
<1>. SUFFICES ASSUME proxy[j] # NULL PROVE FALSE
  BY <1>2
<1>5. PICK r \in Client \cup Job : \E k \in DOMAIN Calls(r) : Submits(r, k, j, proxy[j]) /\ Past(r, k)
  BY <1>1, <1>4 DEF Submitted
<1>6. PICK k \in DOMAIN Calls(r) : Submits(r, k, j, proxy[j]) /\ Past(r, k)
  BY <1>5
<1>7. Calls(r)[k].call = "do_job" /\ Calls(r)[k].job = j
  BY <1>1, <1>6, ScriptCalls DEF Submits
<1>8. r = f.run /\ k = f.ip
  BY <1>1, <1>2, <1>3, <1>7, Usage
<1>9. f.run \notin finished
  BY <1>3, OneFrame
<1>10. PICK b \in Actor : \E i \in DOMAIN stack[b] :
         /\ stack[b][i].run = f.run
         /\ f.ip < stack[b][i].ip \/ (f.ip = stack[b][i].ip /\ stack[b][i].pc = "notify")
  BY <1>6, <1>8, <1>9 DEF Past
<1>11. PICK i \in DOMAIN stack[b] :
         /\ stack[b][i].run = f.run
         /\ f.ip < stack[b][i].ip \/ (f.ip = stack[b][i].ip /\ stack[b][i].pc = "notify")
  BY <1>10
<1>12. b = a /\ i = n
  BY <1>3, <1>11, OneFrame
<1>. QED BY <1>3, <1>11, <1>12

\* The second half of do_job puts a job into a stack that was in none before.
LEMMA EmplaceStep ==
  ASSUME PoolInv, NEW a \in Actor, DoJobEmplace(a), script' = script
  PROVE  PoolInv'
<1>1. /\ TypeOK /\ script \in Scripts /\ Frames /\ Queues /\ Started
      /\ Submitted /\ ChildrenBehind
  BY DEF PoolInv, PoolTypeOK
<1>2. stack[a] # <<>> /\ Top(a).pc = "emplace"
  BY DEF DoJobEmplace, At
<1>3. PICK f, c, j, p, t, n : /\ f = Top(a) /\ c = CallOf(f) /\ j = c.job /\ p = c.p /\ t = f.to
                              /\ n = Len(stack[a])
  OBVIOUS
<1>4. PICK g : g = IF Own(p) THEN NextCall(f) ELSE [f EXCEPT !.pc = "notify"]
  OBVIOUS
<1>5. /\ f \in FrameRec /\ f.ip \in DOMAIN Calls(f.run) /\ c = Calls(f.run)[f.ip] /\ c.call = "do_job"
      /\ t \in Thread /\ f.pc = "emplace" /\ n \in DOMAIN stack[a] /\ f = stack[a][n] /\ f.run \in Client \cup Job
  BY <1>2, <1>3, TopFrame, RecordOf DEF InCall, CallOf
<1>6. j \in Job /\ p \in Proxy
  BY <1>1, <1>3, <1>5, Usage
<1>7. /\ jobs' = [jobs EXCEPT ![t] = Append(@, j)] /\ proxy' = [proxy EXCEPT ![j] = p]
      /\ futures' = [futures EXCEPT ![p] = kept(p, j)] /\ lock' = [lock EXCEPT ![t] = NULL]
      /\ Goto(a, g)
      /\ UNCHANGED <<running_job, finished, runs, parent, threads, next_thread, worker, joining, program>>
  BY <1>3, <1>4 DEF DoJobEmplace
<1>8. UNCHANGED <<running_job, finished, runs, parent, threads, script>>
  BY <1>7
<1>9. /\ g \in FrameRec /\ Advances(f, g) /\ g.pc # "help" /\ InCall(g) /\ g.run = f.run
      /\ \/ g.ip = f.ip + 1 /\ f.ip < g.ip
         \/ g.ip = f.ip /\ g.pc = "notify"
  <2>1. CASE Own(p)
    <3>1. Fields(g, f, "body", f.ip + 1) /\ f.ip < g.ip
      BY <1>4, <1>5, <2>1, NextForm
    <3>. QED BY <1>5, <3>1 DEF Fields, Advances, InCall
  <2>2. CASE ~Own(p)
    <3>1. Fields(g, f, "notify", f.ip) /\ g.to = f.to
      BY <1>4, <1>5, <2>2, PcForm DEF Places
    <3>. QED BY <1>3, <1>5, <3>1 DEF Fields, Advances, InCall, CallOf
  <2>. QED BY <2>1, <2>2
<1>10. f.ip \in Nat /\ Len(jobs[t]) \in Nat /\ jobs \in [Thread -> Seq(Job)] /\ proxy \in [Job -> Proxy \cup {NULL}]
  BY <1>1, <1>5, RecordOf DEF TypeOK
<1>11. proxy[j] = NULL
  BY <1>2, <1>3, NewJob
<1>12. j \notin finished /\ \A u \in Thread : \A i \in DOMAIN jobs[u] : jobs[u][i] # j
  BY <1>1, <1>11 DEF Queues
<1>13. /\ jobs' \in [Thread -> Seq(Job)] /\ Len(jobs'[t]) = Len(jobs[t]) + 1 /\ jobs'[t][Len(jobs[t]) + 1] = j
       /\ \A u \in Thread : u # t => jobs'[u] = jobs[u]
       /\ DOMAIN jobs'[t] = DOMAIN jobs[t] \cup {Len(jobs[t]) + 1} /\ DOMAIN jobs[t] = 1 .. Len(jobs[t])
       /\ \A i \in DOMAIN jobs[t] : jobs'[t][i] = jobs[t][i]
  <2>1. jobs[t] \in Seq(Job) /\ jobs'[t] = Append(jobs[t], j)
    BY <1>5, <1>7, <1>10
  <2>2. /\ Append(jobs[t], j) \in Seq(Job) /\ Len(Append(jobs[t], j)) = Len(jobs[t]) + 1
        /\ DOMAIN Append(jobs[t], j) = DOMAIN jobs[t] \cup {Len(jobs[t]) + 1} /\ DOMAIN jobs[t] = 1 .. Len(jobs[t])
        /\ Append(jobs[t], j)[Len(jobs[t]) + 1] = j /\ \A i \in 1 .. Len(jobs[t]) : Append(jobs[t], j)[i] = jobs[t][i]
    BY <1>6, <2>1, Appended
  <2>3. jobs' \in [Thread -> Seq(Job)] /\ \A u \in Thread : u # t => jobs'[u] = jobs[u]
    BY <1>5, <1>7, <1>10, <2>1, <2>2
  <2>. QED BY <2>1, <2>2, <2>3
<1>14. /\ proxy' \in [Job -> Proxy \cup {NULL}] /\ proxy'[j] = p /\ p # NULL
       /\ \A x \in Job : x # j => proxy'[x] = proxy[x]
  BY <1>6, <1>7, <1>10, ThreadPoolAssumption
<1>15. \A u \in Thread : DOMAIN jobs[u] \subseteq DOMAIN jobs'[u] /\ \A i \in DOMAIN jobs[u] : jobs'[u][i] = jobs[u][i]
  BY <1>13
<1>16. ASSUME NEW u \in Thread, NEW i \in DOMAIN jobs'[u]
       PROVE  \/ i \in DOMAIN jobs[u] /\ jobs'[u][i] = jobs[u][i] /\ jobs[u][i] # j
              \/ u = t /\ i = Len(jobs[t]) + 1 /\ jobs'[u][i] = j
  BY <1>12, <1>13, <1>16
<1>17. Frames'
  BY <1>2, <1>3, <1>7, <1>8, <1>9, <1>15, GotoFrames
<1>18. stack' \in [Actor -> Seq(FrameRec)] /\ n \in DOMAIN stack'[a] /\ stack'[a][n] = g
  BY <1>2, <1>3, <1>5, <1>7, <1>9, GotoStack
<1>19. /\ \A r : \A k \in Nat : Past(r, k) => Past(r, k)'
       /\ \A x : Framed(x)' = Framed(x)
  BY <1>2, <1>3, <1>7, <1>8, <1>9, GotoKeeps
<1>20. Queues'
  <2>1. ASSUME NEW u \in Thread, NEW i \in DOMAIN jobs'[u]
        PROVE  jobs'[u][i] \notin finished' /\ proxy'[jobs'[u][i]] # NULL
    <3>1. jobs'[u][i] \in Job
      BY <1>13, <2>1
    <3>2. CASE i \in DOMAIN jobs[u] /\ jobs'[u][i] = jobs[u][i] /\ jobs[u][i] # j
      BY <1>1, <1>8, <1>14, <3>1, <3>2 DEF Queues
    <3>3. CASE jobs'[u][i] = j
      BY <1>8, <1>12, <1>14, <3>3
    <3>. QED BY <1>16, <2>1, <3>2, <3>3
  <2>2. ASSUME NEW u \in Thread, NEW w \in Thread, NEW i \in DOMAIN jobs'[u], NEW k \in DOMAIN jobs'[w], jobs'[u][i] = jobs'[w][k]
        PROVE u = w /\ i = k
    BY <1>1, <1>16, <2>2 DEF Queues
  <2>3. ASSUME NEW x \in finished' PROVE proxy'[x] # NULL
    <3>1. x \in Job /\ x \in finished /\ x # j
      BY <1>1, <1>8, <1>12, <2>3 DEF TypeOK
    <3>. QED BY <1>1, <1>14, <3>1 DEF Queues
  <2>. QED BY <2>1, <2>2, <2>3 DEF Queues
<1>21. Started'
  BY <1>1, <1>8, <1>19 DEF Started
<1>22. Submitted'
  <2>. SUFFICES ASSUME NEW x \in Job, proxy'[x] # NULL
       PROVE \E q \in Client \cup Job : \E k \in DOMAIN Calls(q)' : Submits(q, k, x, proxy[x])' /\ Past(q, k)'
    BY DEF Submitted
  <2>1. CASE x = j
    <3>1. f.run \in Client \cup Job /\ f.ip \in DOMAIN Calls(f.run)'
      BY <1>5, <1>8 DEF Calls
    <3>2. Submits(f.run, f.ip, j, p)'
      BY <1>1, <1>3, <1>5, <1>8, ScriptCalls DEF Submits
    <3>3. Past(f.run, f.ip)'
      BY <1>9, <1>18 DEF Past
    <3>. QED BY <1>14, <2>1, <3>1, <3>2, <3>3
  <2>2. CASE x # j
    <3>1. PICK q \in Client \cup Job : \E k \in DOMAIN Calls(q) : Submits(q, k, x, proxy[x]) /\ Past(q, k)
      BY <1>1, <1>14, <2>2 DEF Submitted
    <3>2. PICK k \in DOMAIN Calls(q) : Submits(q, k, x, proxy[x]) /\ Past(q, k)
      BY <3>1
    <3>3. k \in DOMAIN Calls(q)' /\ Submits(q, k, x, proxy[x])'
      BY <1>8, <1>14, <2>2, <3>2 DEF Submits, Calls
    <3>4. k \in Nat
      BY <1>1, ScriptCalls
    <3>. QED BY <1>19, <3>2, <3>3, <3>4
  <2>. QED BY <2>1, <2>2
<1>23. ChildrenBehind'
  <2>. SUFFICES ASSUME NEW u \in Thread, NEW k \in DOMAIN stack'[u], NEW m \in DOMAIN jobs'[u],
                       NEW l \in DOMAIN Calls(stack'[u][k].run),
                       Submits(stack'[u][k].run, l, jobs'[u][m], Calls(stack'[u][k].run)[l].p)
       PROVE stack'[u][k].index < m
    BY <1>8 DEF ChildrenBehind, Calls, Submits
  <2>1. k \in DOMAIN stack[u] /\ stack'[u][k].run = stack[u][k].run /\ stack'[u][k].index = stack[u][k].index
    <3>1. u \in Actor /\ DOMAIN stack'[u] = DOMAIN stack[u]
      BY <1>2, <1>3, <1>7, <1>9, GotoStack DEF Actor
    <3>2. stack'[u][k] = stack[u][k] \/ (stack[u][k] = f /\ stack'[u][k] = g)
      <4>1. CASE u = a
        BY <1>2, <1>3, <1>7, <1>9, <3>1, <4>1, GotoStack
      <4>2. CASE u # a
        BY <1>2, <1>3, <1>7, <1>9, <3>1, <4>2, GotoStack
      <4>. QED BY <4>1, <4>2
    <3>. QED BY <1>9, <3>1, <3>2 DEF Advances
  <2>2. CASE m \in DOMAIN jobs[u] /\ jobs'[u][m] = jobs[u][m]
    BY <1>1, <2>1, <2>2 DEF ChildrenBehind
  <2>3. CASE u = t /\ m = Len(jobs[t]) + 1
    <3>1. stack[u][k].index \in DOMAIN jobs[t]
      BY <1>1, <2>1, <2>3 DEF Frames, JobFrame
    <3>. QED BY <1>10, <1>13, <2>1, <2>3, <3>1
  <2>. QED BY <1>16, <2>2, <2>3
<1>24. OwnProxies'
  <2>1. CallOf(f).call # "allocate"
    BY <1>3, <1>5
  <2>. QED BY <1>2, <1>3, <1>7, <1>8, <1>9, <2>1, GotoProxies
<1>25. TypeOK'
  <2>1. lock' \in [Thread -> Actor \cup {NULL}]
    BY <1>1, <1>7 DEF TypeOK
  <2>2. futures' \in [Proxy -> Seq(Job)]
    <3>1. futures \in [Proxy -> Seq(Job)] /\ futures[p] \in Seq(Job)
      BY <1>1, <1>6 DEF TypeOK
    <3>2. kept(p, j) \in Seq(Job)
      BY <1>6, <3>1, Appended DEF kept
    <3>. QED BY <1>7, <3>1, <3>2
  <2>3. \A u \in Thread : running_job'[u] <= Len(jobs'[u])
    <3>1. \A u \in Thread : running_job[u] \in Nat /\ running_job[u] <= Len(jobs[u])
      BY <1>1 DEF TypeOK
    <3>2. \A u \in Thread : Len(jobs'[u]) = Len(jobs[u]) \/ Len(jobs'[u]) = Len(jobs[u]) + 1
      BY <1>13
    <3>3. \A u \in Thread : Len(jobs[u]) \in Nat
      BY <1>10
    <3>. QED BY <1>8, <3>1, <3>2, <3>3
  <2>4. DOMAIN stack' = Actor
    BY <1>18
  <2>. QED BY <1>1, <1>7, <1>13, <1>14, <2>1, <2>2, <2>3, <2>4 DEF TypeOK
<1>. QED BY <1>1, <1>8, <1>17, <1>18, <1>20, <1>21, <1>22, <1>23, <1>24, <1>25 DEF PoolInv, PoolTypeOK

OtherTypes ==
  /\ lock \in [Thread -> Actor \cup {NULL}]
  /\ worker \in [Thread -> {"check", "blocking", "wait", "exited"}]
  /\ joining \in BOOLEAN
  /\ parent \in [Proxy -> Proxy \cup {NULL}]
  /\ threads \in [Proxy -> Seq(Thread)]
  /\ next_thread \in [Proxy -> Nat]
  /\ futures \in [Proxy -> Seq(Job)]
  /\ program \in {"running", "terminated", "corrupted"}

\* A step that touches neither the frames nor the jobs nor the proxies' threads.
LEMMA QuietStep ==
  ASSUME PoolInv, UNCHANGED <<jobVars, parent, threads, stack, script>>, OtherTypes'
  PROVE  PoolInv'
<1>1. UNCHANGED <<jobs, running_job, proxy, finished, runs, parent, threads, stack, script>>
  BY DEF jobVars
<1>2. Frames'
  <2>1. \A a \in Actor : \A i \in DOMAIN stack'[a] : InCall(stack[a][i])'
    <3>. TAKE a \in Actor
    <3>. TAKE i \in DOMAIN stack'[a]
    <3>1. InCall(stack[a][i])
      BY <1>1 DEF PoolInv, Frames
    <3>2. \A r : Calls(r)' = Calls(r)
      BY <1>1 DEF Calls
    <3>3. stack'[a][i] = stack[a][i] /\ CallOf(stack[a][i])' = CallOf(stack[a][i])
      BY <1>1, <3>2 DEF CallOf
    <3>. QED BY <3>1, <3>2, <3>3 DEF InCall
  <2>2. \A c \in Client : ClientFrame(c)'
    BY <1>1 DEF PoolInv, Frames, ClientFrame
  <2>3. \A t \in Thread : Innermost(t)'
    BY <1>1 DEF PoolInv, Frames, Innermost, Top
  <2>4. \A t \in Thread : \A i \in DOMAIN stack'[t] : JobFrame(t, i)'
    <3>. TAKE t \in Thread
    <3>. TAKE i \in DOMAIN stack'[t]
    <3>1. JobFrame(t, i)
      BY <1>1 DEF PoolInv, Frames
    <3>. QED BY <1>1, <3>1 DEF JobFrame
  <2>. QED BY <2>1, <2>2, <2>3, <2>4 DEF Frames
<1>3. Queues'
  BY <1>1 DEF PoolInv, Queues
<1>4. Started'
  BY <1>1 DEF PoolInv, Started, Framed
<1>5. Submitted'
  BY <1>1 DEF PoolInv, Submitted, Submits, Past, Calls
<1>6. ChildrenBehind'
  BY <1>1 DEF PoolInv, ChildrenBehind, Submits, Calls
<1>7. OwnProxies'
  BY <1>1 DEF PoolInv, OwnProxies, Allocated, Calls
<1>8. PoolTypeOK'
  BY <1>1 DEF PoolInv, PoolTypeOK, TypeOK, OtherTypes
<1>. QED BY <1>2, <1>3, <1>4, <1>5, <1>6, <1>7, <1>8 DEF PoolInv

\* A step of a frame that leaves the jobs alone.
LEMMA GotoStep ==
  ASSUME PoolInv, NEW a \in Actor, stack[a] # <<>>, NEW g \in FrameRec, Goto(a, g),
         Advances(Top(a), g), InCall(g), a \in Client => g.pc # "help",
         script' = script, UNCHANGED jobVars, OtherTypes', OwnProxies'
  PROVE  PoolInv'
<1>1. Frames' /\ Queues' /\ Started' /\ Submitted' /\ ChildrenBehind'
  BY GotoRest
<1>2. UNCHANGED <<jobs, running_job, proxy, finished, runs>>
  BY DEF jobVars
<1>3. stack' \in [Actor -> Seq(FrameRec)]
  BY GotoStack
<1>4. PoolTypeOK'
  <2>1. DOMAIN stack' = Actor
    BY <1>3
  <2>. QED BY <1>2, <1>3, <2>1 DEF PoolInv, PoolTypeOK, TypeOK, OtherTypes
<1>. QED BY <1>1, <1>4 DEF PoolInv

\* The same, without allocating or destroying a proxy.
LEMMA PlainStep ==
  ASSUME PoolInv, NEW a \in Actor, stack[a] # <<>>, NEW g, NEW pc, NEW ip, Goto(a, g),
         Fields(g, Top(a), pc, ip), InCall(g), a \in Client => g.pc # "help",
         \/ ip = Top(a).ip /\ Top(a).pc # "notify"
         \/ ip = Top(a).ip + 1 /\ CallOf(Top(a)).call # "allocate",
         UNCHANGED <<script, jobVars, threads, parent>>, OtherTypes'
  PROVE  PoolInv'
<1>1. g \in FrameRec /\ g.run = Top(a).run /\ g.index = Top(a).index /\ g.old = Top(a).old /\ g.ip = ip
  BY DEF Fields
<1>2. Top(a).ip \in Nat
  BY TopFrame, RecordOf
<1>3. Advances(Top(a), g)
  BY <1>1, <1>2 DEF Advances
<1>4. \/ g.ip = Top(a).ip
      \/ g.ip = Top(a).ip + 1 /\ CallOf(Top(a)).call # "allocate"
  BY <1>1
<1>5. OwnProxies'
  BY <1>1, <1>4, GotoProxies
<1>. QED BY <1>1, <1>3, <1>5, GotoStep

\* A call that is about to be made.
LEMMA AtCallFacts ==
  ASSUME PoolInv, NEW a \in Actor, NEW name, AtCall(a, name)
  PROVE  LET f == Top(a) IN
         /\ stack[a] # <<>> /\ f \in FrameRec /\ f.pc = "body"
         /\ f.ip \in DOMAIN Calls(f.run) /\ f.ip \in Nat /\ CallOf(f) = Calls(f.run)[f.ip] /\ CallOf(f) \in Call
         /\ CallOf(f).call = name
         /\ name # "destroy_pool" => CallOf(f).p \in Proxy /\ CallOf(f).p # NULL
         /\ program = "running"
<1>. DEFINE f == Top(a)
<1>1. stack[a] # <<>> /\ f.pc = "body" /\ f.ip <= Len(Calls(f.run)) /\ CallOf(f).call = name /\ program = "running"
  BY DEF AtCall, At
<1>2. f \in FrameRec /\ script \in Scripts
  BY <1>1, TopFrame DEF PoolInv, PoolTypeOK
<1>3. f.ip \in Nat \ {0}
  BY <1>2, RecordOf
<1>4. f.ip \in DOMAIN Calls(f.run)
  BY <1>1, <1>2, <1>3, ScriptCalls
<1>. QED BY <1>1, <1>2, <1>3, <1>4, ScriptCalls, Usage DEF CallOf

\* allocate_threads gives threads to a proxy that had none.
LEMMA AllocateStep ==
  ASSUME PoolInv, NEW a \in Actor, AtCall(a, "allocate"), NEW p, p = CallOf(Top(a)).p, threads[p] = <<>>,
         NEW g, g = NextCall(Top(a)), Goto(a, g), NEW new \in Seq(Thread), new # <<>>, a \in Thread => new[1] = a,
         threads' = [threads EXCEPT ![p] = new],
         parent' = parent \/ \E x \in Proxy : a \in Thread /\ parent' = [parent EXCEPT ![p] = x],
         UNCHANGED <<script, jobVars, next_thread, futures, lock, worker, joining, program>>
  PROVE  PoolInv'
<1>1. TypeOK /\ script \in Scripts /\ OwnProxies
  BY DEF PoolInv, PoolTypeOK
<1>2. threads \in [Proxy -> Seq(Thread)] /\ parent \in [Proxy -> Proxy \cup {NULL}]
  BY <1>1 DEF TypeOK
<1>3. PICK f : f = Top(a)
  OBVIOUS
<1>4. /\ stack[a] # <<>> /\ f \in FrameRec /\ f.pc = "body" /\ f.ip \in DOMAIN Calls(f.run) /\ f.ip \in Nat
      /\ Calls(f.run)[f.ip].call = "allocate" /\ Calls(f.run)[f.ip].p = p /\ p \in Proxy /\ p # NULL
  BY <1>3, AtCallFacts
<1>5. Fields(g, f, "body", f.ip + 1) /\ f.ip < g.ip
  BY <1>3, <1>4, NextForm
<1>6. g \in FrameRec /\ Advances(f, g) /\ InCall(g) /\ g.pc # "help" /\ g.run = f.run /\ g.ip = f.ip + 1
  BY <1>5 DEF Fields, Advances, InCall
<1>7. /\ threads' \in [Proxy -> Seq(Thread)] /\ threads'[p] = new /\ \A q \in Proxy : q # p => threads'[q] = threads[q]
      /\ parent' \in [Proxy -> Proxy \cup {NULL}] /\ (a \in Client => parent' = parent)
      /\ \A q \in Proxy : q # p => parent'[q] = parent[q]
  BY <1>2, <1>4, ThreadPoolAssumption
<1>8. ASSUME NEW b \in Actor, NEW i \in DOMAIN stack'[b], NEW q \in Proxy, Allocated(stack'[b][i], q)
      PROVE threads'[q] # <<>> /\ (b \in Thread => threads'[q][1] = b)
  <2>1. i \in DOMAIN stack[b]
    BY <1>3, <1>4, <1>6, GotoStack
  <2>2. stack'[b][i] = stack[b][i] \/ (b = a /\ stack[b][i] = f /\ stack'[b][i] = g)
    BY <1>3, <1>4, <1>6, <2>1, GotoStack
  <2>3. CASE stack'[b][i] = stack[b][i]
    <3>1. threads[q] # <<>> /\ (b \in Thread => threads[q][1] = b)
      BY <1>1, <1>8, <2>1, <2>3 DEF OwnProxies
    <3>. QED BY <1>7, <3>1
  <2>4. CASE b = a /\ stack[b][i] = f /\ stack'[b][i] = g
    <3>1. CASE q = p
      BY <1>7, <2>4, <3>1
    <3>2. CASE q # p
      <4>1. \A m \in DOMAIN Calls(f.run) : m \in Nat
        BY <1>1, ScriptCalls
      <4>2. Allocated(f, q)
        BY <1>4, <1>6, <1>8, <2>4, <3>2, <4>1 DEF Allocated
      <4>3. threads[q] # <<>> /\ (b \in Thread => threads[q][1] = b)
        BY <1>1, <2>1, <2>4, <4>2 DEF OwnProxies
      <4>. QED BY <1>7, <3>2, <4>3
    <3>. QED BY <3>1, <3>2
  <2>. QED BY <2>2, <2>3, <2>4
<1>9. ASSUME NEW c \in Client, NEW m \in DOMAIN Calls(c)', Calls(c)'[m].p \in Proxy PROVE parent'[Calls(c)'[m].p] = NULL
  <2>1. m \in DOMAIN Calls(c) /\ Calls(c)'[m] = Calls(c)[m]
    BY <1>9 DEF Calls
  <2>2. parent[Calls(c)[m].p] = NULL
    BY <1>1, <1>9, <2>1 DEF OwnProxies
  <2>3. CASE Calls(c)[m].p = p
    <3>1. f.run = c
      BY <1>1, <1>4, <2>1, <2>3, Usage
    <3>2. a \in Client
      <4>1. a \in Thread => f.run \in Job
        BY <1>3, <1>4, TopFrame
      <4>. QED BY <3>1, <4>1, ThreadPoolAssumption DEF Actor
    <3>. QED BY <1>7, <2>1, <2>2, <3>2
  <2>4. CASE Calls(c)[m].p # p
    BY <1>7, <1>9, <2>1, <2>2, <2>4
  <2>. QED BY <2>3, <2>4
<1>10. \A b \in Actor : \A i \in DOMAIN stack'[b] : \A q \in Proxy :
         Allocated(stack[b][i], q)' => threads'[q] # <<>> /\ (b \in Thread => threads'[q][1] = b)
  BY <1>8 DEF Allocated, Calls
<1>11. OwnProxies'
  BY <1>9, <1>10 DEF OwnProxies
<1>12. OtherTypes'
  BY <1>1, <1>7 DEF TypeOK, OtherTypes
<1>. QED BY <1>3, <1>4, <1>6, <1>11, <1>12, GotoStep

\* A proxy that is destroyed had been allocated by the same code.
LEMMA DestroyStep ==
  ASSUME PoolInv, NEW a \in Actor, AtCall(a, "destroy_proxy"), NEW p, p = CallOf(Top(a)).p,
         NEW g, g = NextCall(Top(a)), Goto(a, g), threads' = [threads EXCEPT ![p] = <<>>],
         UNCHANGED <<script, jobVars, parent, next_thread, futures, lock, worker, joining, program>>
  PROVE  PoolInv'
<1>1. TypeOK /\ script \in Scripts /\ OwnProxies
  BY DEF PoolInv, PoolTypeOK
<1>2. threads \in [Proxy -> Seq(Thread)]
  BY <1>1 DEF TypeOK
<1>3. PICK f, n : f = Top(a) /\ n = Len(stack[a])
  OBVIOUS
<1>4. /\ stack[a] # <<>> /\ f \in FrameRec /\ f.pc = "body" /\ f.ip \in DOMAIN Calls(f.run) /\ f.ip \in Nat
      /\ Calls(f.run)[f.ip].call = "destroy_proxy" /\ Calls(f.run)[f.ip].p = p /\ p \in Proxy /\ p # NULL
      /\ n \in DOMAIN stack[a] /\ f = stack[a][n]
  BY <1>3, AtCallFacts, TopFrame
<1>5. Fields(g, f, "body", f.ip + 1) /\ f.ip < g.ip
  BY <1>3, <1>4, NextForm
<1>6. g \in FrameRec /\ Advances(f, g) /\ InCall(g) /\ g.pc # "help" /\ g.run = f.run /\ g.ip = f.ip + 1 /\ f.ip < g.ip
  BY <1>5 DEF Fields, Advances, InCall
<1>7. threads' \in [Proxy -> Seq(Thread)] /\ \A q \in Proxy : q # p => threads'[q] = threads[q]
  BY <1>2, <1>4
<1>8. ASSUME NEW b \in Actor, NEW i \in DOMAIN stack'[b], NEW q \in Proxy, Allocated(stack'[b][i], q)
      PROVE threads'[q] # <<>> /\ (b \in Thread => threads'[q][1] = b)
  <2>1. i \in DOMAIN stack[b] /\ \A r : \A m \in DOMAIN Calls(r) : m \in Nat
    BY <1>1, <1>3, <1>4, <1>6, GotoStack, ScriptCalls
  <2>2. \/ stack'[b][i] = stack[b][i] /\ ~(b = a /\ i = n)
        \/ b = a /\ stack[b][i] = f /\ stack'[b][i] = g
    BY <1>3, <1>4, <1>6, <2>1, GotoStack
  <2>3. stack'[b][i].run = stack[b][i].run
    BY <1>6, <2>2
  <2>4. q # p
    <3>. SUFFICES ASSUME q = p PROVE FALSE
      OBVIOUS
    <3>1. PICK m \in DOMAIN Calls(stack'[b][i].run) : Calls(stack'[b][i].run)[m].p = p
      BY <1>8 DEF Allocated
    <3>2. stack[b][i].run = f.run
      BY <1>1, <1>4, <2>3, <3>1, Usage
    <3>3. b = a /\ i = n
      BY <1>4, <2>1, <3>2, OneFrame
    <3>4. stack'[b][i] = g
      BY <2>2, <3>3
    <3>. QED BY <1>4, <1>6, <1>8, <3>4 DEF Allocated
  <2>5. Allocated(stack[b][i], q)
    <3>1. CASE stack'[b][i] = stack[b][i]
      BY <1>8, <3>1
    <3>2. CASE stack[b][i] = f /\ stack'[b][i] = g
      BY <1>4, <1>6, <1>8, <2>1, <3>2 DEF Allocated
    <3>. QED BY <2>2, <3>1, <3>2
  <2>6. threads[q] # <<>> /\ (b \in Thread => threads[q][1] = b)
    BY <1>1, <2>1, <2>5 DEF OwnProxies
  <2>. QED BY <1>7, <2>4, <2>6
<1>9. \A b \in Actor : \A i \in DOMAIN stack'[b] : \A q \in Proxy :
         Allocated(stack[b][i], q)' => threads'[q] # <<>> /\ (b \in Thread => threads'[q][1] = b)
  BY <1>8 DEF Allocated, Calls
<1>10. \A c \in Client : \A m \in DOMAIN Calls(c)' : Calls(c)'[m].p \in Proxy => parent'[Calls(c)'[m].p] = NULL
  BY <1>1 DEF OwnProxies, Calls
<1>11. OwnProxies'
  BY <1>9, <1>10 DEF OwnProxies
<1>12. OtherTypes'
  BY <1>1, <1>7 DEF TypeOK, OtherTypes
<1>. QED BY <1>3, <1>4, <1>6, <1>11, <1>12, GotoStep

(***************************************************************************)
(* The invariant                                                           *)
(***************************************************************************)
\* Before the first call nothing is queued and only the clients have a frame.
LEMMA InitPoolInv == Init => PoolInv
<1>. SUFFICES ASSUME Init PROVE PoolInv
  OBVIOUS
<1>1. /\ script \in Scripts /\ jobs = [t \in Thread |-> <<>>] /\ running_job = [t \in Thread |-> 0]
      /\ parent = [p \in Proxy |-> NULL] /\ proxy = [j \in Job |-> NULL] /\ finished = {} /\ runs = [j \in Job |-> 0]
      /\ stack = [a \in Actor |-> IF a \in Client THEN <<Frame(a)>> ELSE <<>>]
  BY DEF Init
<1>2. \A c \in Client : /\ c \in Actor /\ Frame(c) \in FrameRec /\ stack[c] = <<Frame(c)>> /\ DOMAIN stack[c] = {1}
                        /\ Frame(c).run = c /\ Frame(c).pc = "body" /\ Frame(c).ip = 1
  BY <1>1 DEF Frame, FrameRec, Places, Actor
<1>3. \A t \in Thread : t \in Actor /\ stack[t] = <<>> /\ DOMAIN stack[t] = {} /\ jobs[t] = <<>> /\ DOMAIN jobs[t] = {}
  BY <1>1, ThreadPoolAssumption DEF Actor
<1>4. stack \in [Actor -> Seq(FrameRec)]
  BY <1>1, <1>2 DEF Actor
<1>5. TypeOK
  <2>1. /\ jobs \in [Thread -> Seq(Job)] /\ running_job \in [Thread -> Nat] /\ DOMAIN stack = Actor
        /\ proxy \in [Job -> Proxy \cup {NULL}] /\ finished \subseteq Job /\ runs \in [Job -> Nat]
    BY <1>1
  <2>2. \A t \in Thread : running_job[t] <= Len(jobs[t])
    BY <1>1
  <2>3. lock \in [Thread -> Actor \cup {NULL}] /\ worker \in [Thread -> {"check", "blocking", "wait", "exited"}]
    BY DEF Init
  <2>4. joining \in BOOLEAN /\ program \in {"running", "terminated", "corrupted"}
    BY DEF Init
  <2>5. parent \in [Proxy -> Proxy \cup {NULL}] /\ next_thread \in [Proxy -> Nat]
    BY DEF Init
  <2>6. threads \in [Proxy -> Seq(Thread)] /\ futures \in [Proxy -> Seq(Job)]
    BY DEF Init
  <2>. QED BY <2>1, <2>2, <2>3, <2>4, <2>5, <2>6 DEF TypeOK
<1>6. Frames
  <2>1. \A c \in Client : ClientFrame(c) /\ \A i \in DOMAIN stack[c] : InCall(stack[c][i])
    BY <1>2 DEF ClientFrame, InCall
  <2>2. \A t \in Thread : Innermost(t)
    BY <1>1, <1>3 DEF Innermost
  <2>. QED BY <1>3, <2>1, <2>2 DEF Frames, Actor
<1>7. Queues
  BY <1>1, <1>3 DEF Queues
<1>8. Started /\ Submitted
  BY <1>1, <1>3 DEF Started, Submitted, Framed
<1>9. ChildrenBehind
  BY <1>3 DEF ChildrenBehind
<1>10. OwnProxies
  <2>1. ASSUME NEW c \in Client, NEW p, Allocated(Frame(c), p) PROVE FALSE
    <3>1. \A m \in DOMAIN Calls(c) : m \in Nat \ {0}
      BY <1>1, ScriptCalls
    <3>. QED BY <1>2, <2>1, <3>1 DEF Allocated
  <2>2. \A a \in Actor : \A i \in DOMAIN stack[a] : \A p \in Proxy : ~Allocated(stack[a][i], p)
    BY <1>2, <1>3, <2>1 DEF Actor
  <2>3. \A c \in Client : \A m \in DOMAIN Calls(c) : Calls(c)[m].p \in Proxy => parent[Calls(c)[m].p] = NULL
    BY <1>1
  <2>. QED BY <2>2, <2>3 DEF OwnProxies
<1>. QED BY <1>1, <1>4, <1>5, <1>6, <1>7, <1>8, <1>9, <1>10 DEF PoolInv, PoolTypeOK

\* The calls of clients and jobs.
LEMMA CallStepPoolInv ==
  ASSUME PoolInv, NEW a \in Actor, CallStep(a), script' = script
  PROVE  PoolInv'
<1>1. TypeOK /\ OtherTypes /\ script \in Scripts
  BY DEF PoolInv, PoolTypeOK, TypeOK, OtherTypes
<1>2. N \in Nat \ {0} /\ Thread = 1 .. N
  BY ThreadPoolAssumption DEF Thread
<1>3. stack[a] # <<>> => /\ Top(a) \in FrameRec /\ InCall(Top(a)) /\ (a \in Client => Top(a).pc # "help")
                         /\ Top(a).ip \in Nat
  BY TopFrame, RecordOf
<1>4. CASE AllocateTopLevel(a)
  <2>1. PICK p, new, g : /\ p = CallOf(Top(a)).p /\ new = [i \in 1 .. granted(CallOf(Top(a)).n) |-> i]
                         /\ g = NextCall(Top(a))
    OBVIOUS
  <2>2. /\ a \in Client /\ AtCall(a, "allocate") /\ threads[p] = <<>> /\ threads' = [threads EXCEPT ![p] = new]
        /\ Goto(a, g) /\ UNCHANGED <<jobVars, parent, next_thread, futures, lock, worker, joining, program>>
    BY <1>4, <2>1 DEF AllocateTopLevel
  <2>3. CallOf(Top(a)).n \in Nat
    BY <2>2, AtCallFacts DEF Call
  <2>4. granted(CallOf(Top(a)).n) \in 1 .. N
    BY <1>2, <2>3 DEF granted
  <2>5. new \in Seq(Thread) /\ new # <<>>
    BY <1>2, <2>1, <2>4
  <2>6. a \notin Thread
    BY <2>2, ThreadPoolAssumption
  <2>. QED BY <2>1, <2>2, <2>5, <2>6, AllocateStep
<1>5. CASE AllocateNested(a)
  <2>1. PICK p, par, new, g :
          /\ p = CallOf(Top(a)).p /\ par = proxy[jobs[a][running_job[a]]]
          /\ new = fill_threads_for_nested_proxy(par, a, granted(CallOf(Top(a)).n))
          /\ g = NextCall(Top(a))
    OBVIOUS
  <2>2. /\ a \in Thread /\ AtCall(a, "allocate") /\ threads[p] = <<>> /\ threads' = [threads EXCEPT ![p] = new]
        /\ parent' = [parent EXCEPT ![p] = par]
        /\ Goto(a, g) /\ UNCHANGED <<jobVars, next_thread, futures, lock, worker, joining, program>>
    BY <1>5, <2>1 DEF AllocateNested
  <2>3. new \in Seq(Thread) /\ new # <<>> /\ new[1] = a
    BY <2>1, <2>2, Filled
  <2>4. par \in Proxy
    <3>1. running_job[a] \in DOMAIN jobs[a] /\ jobs[a] \in Seq(Job) /\ proxy \in [Job -> Proxy \cup {NULL}]
      BY <1>1, <2>2, AtCallFacts, TopFrame DEF TypeOK
    <3>2. proxy[jobs[a][running_job[a]]] # NULL
      BY <2>2, <3>1 DEF PoolInv, Queues
    <3>. QED BY <2>1, <3>1, <3>2
  <2>5. parent' = parent \/ \E x \in Proxy : a \in Thread /\ parent' = [parent EXCEPT ![p] = x]
    BY <2>2, <2>4
  <2>6. UNCHANGED <<script, jobVars, next_thread, futures, lock, worker, joining, program>>
    BY <2>2
  <2>7. AtCall(a, "allocate") /\ threads[p] = <<>> /\ threads' = [threads EXCEPT ![p] = new] /\ Goto(a, g)
    BY <2>2
  <2>8. p = CallOf(Top(a)).p /\ g = NextCall(Top(a))
    BY <2>1
  <2>. QED BY <2>3, <2>5, <2>6, <2>7, <2>8, AllocateStep
<1>6. CASE AllocateCorrupted(a)
  <2>1. OtherTypes'
    BY <1>1, <1>6 DEF AllocateCorrupted, OtherTypes, proxyVars
  <2>. QED BY <1>6, <2>1, QuietStep DEF AllocateCorrupted, proxyVars
<1>7. CASE DoJob(a)
  <2>1. PICK p, k, t, g : /\ p = CallOf(Top(a)).p /\ k = next_thread_of(p) /\ t = threads[p][k + 1]
                          /\ g = [Top(a) EXCEPT !.pc = "emplace", !.to = t]
    OBVIOUS
  <2>2. /\ AtCall(a, "do_job") /\ next_thread' = [next_thread EXCEPT ![p] = k] /\ lock' = [lock EXCEPT ![t] = a]
        /\ Goto(a, g) /\ UNCHANGED <<jobVars, parent, threads, futures, worker, joining, program>>
    BY <1>7, <2>1 DEF DoJob
  <2>3. /\ stack[a] # <<>> /\ Top(a).ip \in DOMAIN Calls(Top(a).run) /\ CallOf(Top(a)).call = "do_job"
        /\ CallOf(Top(a)) = Calls(Top(a).run)[Top(a).ip] /\ Top(a).pc = "body"
    BY <2>2, AtCallFacts
  <2>4. p \in Proxy /\ threads[p] \in Seq(Thread) /\ threads[p] # <<>>
    BY <2>1, <2>3, CallFacts
  <2>5. k \in Nat /\ k < Len(threads[p])
    <3>1. next_thread[p] \in Nat /\ Len(threads[p]) \in Nat /\ Len(threads[p]) > 0
      BY <1>1, <2>4, EmptySeq DEF TypeOK
    <3>. QED BY <2>1, <3>1 DEF next_thread_of
  <2>6. t \in Thread /\ t \in Nat
    <3>1. k + 1 \in 1 .. Len(threads[p])
      BY <2>4, <2>5
    <3>2. t \in Thread
      BY <2>1, <2>4, <3>1
    <3>. QED BY <1>2, <3>2
  <2>7. Fields(g, Top(a), "emplace", Top(a).ip) /\ g.to = t
    <3>1. PICK x \in Places : x = "emplace"
      BY DEF Places
    <3>2. g = PcTo(Top(a), x, t)
      BY <2>1, <3>1 DEF PcTo
    <3>3. Top(a) \in FrameRec /\ t \in Nat
      BY <1>3, <2>3, <2>6
    <3>4. Fields(g, Top(a), x, Top(a).ip) /\ g.to = t
      BY <3>2, <3>3, PcToForm
    <3>. QED BY <3>1, <3>4, Zenon
  <2>8. InCall(g) /\ g.pc # "help"
    BY <2>3, <2>6, <2>7 DEF InCall, Fields, CallOf
  <2>9. OtherTypes'
    BY <1>1, <2>2, <2>4, <2>5, <2>6 DEF OtherTypes
  <2>. QED BY <2>2, <2>3, <2>7, <2>8, <2>9, PlainStep
<1>8. CASE DoJobEmplace(a)
  BY <1>8, EmplaceStep
<1>9. ASSUME NEW g, g = NextCall(Top(a)), Goto(a, g), stack[a] # <<>>, Top(a).pc \in {"notify", "await", "leave"},
             UNCHANGED <<jobVars, threads, parent>>, OtherTypes'
      PROVE  PoolInv'
  <2>1. Fields(g, Top(a), "body", Top(a).ip + 1)
    BY <1>3, <1>9, NextForm
  <2>2. InCall(g) /\ g.pc # "help"
    BY <2>1 DEF InCall, Fields
  <2>3. CallOf(Top(a)).call # "allocate"
    BY <1>3, <1>9 DEF InCall
  <2>. QED BY <1>9, <2>1, <2>2, <2>3, PlainStep
<1>10. ASSUME NEW t PROVE Woken(t) => worker' \in [Thread -> {"check", "blocking", "wait", "exited"}]
  BY <1>1 DEF Woken, OtherTypes
<1>11. CASE DoJobNotify(a)
  <2>1. /\ stack[a] # <<>> /\ Top(a).pc = "notify" /\ Woken(Top(a).to) /\ Goto(a, NextCall(Top(a)))
        /\ UNCHANGED <<jobVars, parent, threads, next_thread, futures, lock, joining, program>>
    BY <1>11 DEF DoJobNotify, At, proxyVars
  <2>2. OtherTypes'
    BY <1>1, <1>10, <2>1 DEF OtherTypes
  <2>. QED BY <1>9, <2>1, <2>2
<1>12. CASE Join(a)
  <2>1. PICK p, x, g : /\ p = CallOf(Top(a)).p /\ x = IF helps(p) THEN "help" ELSE "await"
                       /\ g = [Top(a) EXCEPT !.pc = x]
    OBVIOUS
  <2>2. /\ AtCall(a, "join") /\ Goto(a, g)
        /\ UNCHANGED <<jobVars, parent, threads, next_thread, futures, lock, worker, joining, program>>
    BY <1>12, <2>1 DEF Join, proxyVars
  <2>3. /\ stack[a] # <<>> /\ Top(a).ip \in DOMAIN Calls(Top(a).run) /\ CallOf(Top(a)).call = "join"
        /\ CallOf(Top(a)) = Calls(Top(a).run)[Top(a).ip] /\ Top(a).pc = "body"
    BY <2>2, AtCallFacts
  <2>4. x \in {"help", "await"} /\ x \in Places /\ (a \in Client => x = "await")
    <3>1. a \in Client => parent[p] = NULL
      BY <2>1, <2>3, CallFacts
    <3>. QED BY <2>1, <3>1 DEF helps, is_top_level, Places
  <2>5. Fields(g, Top(a), x, Top(a).ip)
    BY <1>3, <2>1, <2>3, <2>4, PcForm
  <2>6. InCall(g) /\ (a \in Client => g.pc # "help")
    BY <2>3, <2>4, <2>5 DEF InCall, Fields, CallOf
  <2>7. OtherTypes'
    BY <1>1, <2>2 DEF OtherTypes
  <2>. QED BY <2>2, <2>3, <2>5, <2>6, <2>7, PlainStep
<1>13. CASE At(a, "help") /\ (JoinHelp(a) \/ JoinHelped(a))
  <2>1. stack[a] # <<>> /\ Top(a).pc = "help"
    BY <1>13 DEF At
  <2>2. a \in Thread
    BY <1>3, <2>1 DEF Actor
  <2>3. PICK p : p = CallOf(Top(a)).p
    OBVIOUS
  <2>4. Top(a).ip \in DOMAIN Calls(Top(a).run) /\ CallOf(Top(a)).call = "join"
    BY <1>3, <2>1 DEF InCall
  <2>5. p \in Proxy /\ p # NULL /\ threads[p][1] = a
    <3>1. p \in Proxy /\ threads[p][1] = a
      BY <2>1, <2>2, <2>3, <2>4, CallFacts
    <3>. QED BY <3>1, ThreadPoolAssumption
  <2>6. CASE JoinHelp(a)
    <3>1. PICK i : i = job_of(p, a)
      OBVIOUS
    <3>2. i # 0 /\ RunJob(a, i) /\ UNCHANGED <<proxyVars, lock, worker, joining, program>>
      BY <2>3, <2>5, <2>6, <3>1 DEF JoinHelp
    <3>3. jobs[a] \in Seq(Job)
      BY <1>1, <2>2 DEF TypeOK
    <3>4. i \in DOMAIN jobs[a] /\ proxy[jobs[a][i]] = p
      BY <2>2, <3>1, <3>2, <3>3, JobOf
    <3>5. jobs[a][i] \in Job
      BY <3>3, <3>4
    <3>6. PICK r \in Client \cup Job : \E k \in DOMAIN Calls(r) : Submits(r, k, jobs[a][i], p) /\ Past(r, k)
      BY <2>5, <3>4, <3>5 DEF PoolInv, Submitted
    <3>7. PICK k \in DOMAIN Calls(r) : Submits(r, k, jobs[a][i], p)
      BY <3>6
    <3>8. Calls(r)[k].p = p
      BY <1>1, <3>7, ScriptCalls DEF Submits
    <3>9. r = Top(a).run
      BY <1>1, <2>3, <2>4, <2>5, <3>7, <3>8, Usage DEF CallOf
    <3>10. Top(a).index < i
      <4>1. Len(stack[a]) \in DOMAIN stack[a] /\ Top(a) = stack[a][Len(stack[a])]
        BY <2>1, TopFrame
      <4>. QED BY <2>2, <3>4, <3>7, <3>8, <3>9, <4>1 DEF PoolInv, ChildrenBehind
    <3>11. \A m \in DOMAIN stack[a] : stack[a][m].index < i
      <4>. TAKE m \in DOMAIN stack[a]
      <4>. DEFINE n == Len(stack[a])
      <4>1. /\ stack[a] \in Seq(FrameRec) /\ n \in Nat \ {0} /\ n \in DOMAIN stack[a] /\ DOMAIN stack[a] = 1 .. n
            /\ Top(a) = stack[a][n]
        BY <2>1, TopFrame
      <4>2. JobFrame(a, n)
        BY <2>2, <4>1 DEF PoolInv, Frames
      <4>. HIDE DEF n
      <4>3. stack[a][m] \in FrameRec /\ stack[a][n] \in FrameRec /\ m \in 1 .. n
        BY <4>1
      <4>4. stack[a][m].index \in Nat /\ stack[a][n].index \in Nat /\ i \in Nat
        BY <3>3, <3>4, <4>3, RecordOf
      <4>5. CASE m = n
        BY <3>10, <4>1, <4>5
      <4>6. CASE m # n
        <5>1. m \in 1 .. n - 1
          BY <4>1, <4>3, <4>6
        <5>2. stack[a][m].index < stack[a][n].index
          BY <4>2, <5>1 DEF JobFrame
        <5>. QED BY <3>10, <4>1, <4>4, <5>2
      <4>. QED BY <4>5, <4>6
    <3>. QED BY <2>1, <2>2, <3>2, <3>4, <3>11, RunStep
  <2>7. CASE JoinHelped(a)
    <3>1. PICK g : g = [Top(a) EXCEPT !.pc = "await"]
      OBVIOUS
    <3>2. Goto(a, g) /\ UNCHANGED <<jobVars, parent, threads, next_thread, futures, lock, worker, joining, program>>
      BY <2>7, <3>1 DEF JoinHelped, proxyVars
    <3>3. Fields(g, Top(a), "await", Top(a).ip)
      <4>1. "await" \in Places
        BY DEF Places
      <4>. QED BY <1>3, <2>1, <3>1, <4>1, PcForm
    <3>4. InCall(g) /\ g.pc # "help"
      BY <2>4, <3>3 DEF InCall, Fields, CallOf
    <3>5. OtherTypes'
      BY <1>1, <3>2 DEF OtherTypes
    <3>. QED BY <2>1, <3>2, <3>3, <3>4, <3>5, PlainStep
  <2>. QED BY <1>13, <2>6, <2>7
<1>14. CASE JoinWait(a)
  <2>1. PICK p : p = CallOf(Top(a)).p
    OBVIOUS
  <2>2. /\ stack[a] # <<>> /\ Top(a).pc = "await" /\ Goto(a, NextCall(Top(a))) /\ futures' = [futures EXCEPT ![p] = <<>>]
        /\ UNCHANGED <<jobVars, parent, threads, next_thread, lock, worker, joining, program>>
    BY <1>14, <2>1 DEF JoinWait, At
  <2>3. futures' \in [Proxy -> Seq(Job)]
    <3>1. futures \in [Proxy -> Seq(Job)]
      BY <1>1 DEF OtherTypes
    <3>2. PICK e \in Seq(Job) : e = <<>>
      BY EmptySeq
    <3>3. futures' = [futures EXCEPT ![p] = e]
      BY <2>2, <3>2, Zenon
    <3>. QED BY <3>1, <3>3
  <2>4. OtherTypes'
    BY <1>1, <2>2, <2>3 DEF OtherTypes
  <2>. QED BY <1>9, <2>2, <2>4
<1>15. CASE DestroyProxy(a)
  <2>1. PICK p, g : p = CallOf(Top(a)).p /\ g = NextCall(Top(a))
    OBVIOUS
  <2>2. AtCall(a, "destroy_proxy") /\ UNCHANGED <<jobVars, parent, next_thread, futures, lock, worker, joining>>
    BY <1>15 DEF DestroyProxy
  <2>3. CASE futures[p] # <<>>
    <3>1. program' = "terminated" /\ UNCHANGED <<stack, threads>>
      BY <1>15, <2>1, <2>3 DEF DestroyProxy
    <3>2. OtherTypes'
      BY <1>1, <2>2, <3>1 DEF OtherTypes
    <3>. QED BY <2>2, <3>1, <3>2, QuietStep
  <2>4. CASE futures[p] = <<>>
    <3>1. threads' = [threads EXCEPT ![p] = <<>>] /\ Goto(a, g) /\ UNCHANGED program
      BY <1>15, <2>1, <2>4 DEF DestroyProxy
    <3>. QED BY <2>1, <2>2, <3>1, DestroyStep
  <2>. QED BY <2>3, <2>4
<1>16. CASE DestroyPool(a)
  <2>1. PICK g : g = [Top(a) EXCEPT !.pc = "wake", !.to = 1]
    OBVIOUS
  <2>2. /\ AtCall(a, "destroy_pool") /\ joining' = TRUE /\ Goto(a, g)
        /\ UNCHANGED <<jobVars, parent, threads, next_thread, futures, lock, worker, program>>
    BY <1>16, <2>1 DEF DestroyPool, proxyVars
  <2>3. /\ stack[a] # <<>> /\ Top(a).ip \in DOMAIN Calls(Top(a).run) /\ CallOf(Top(a)).call = "destroy_pool"
        /\ CallOf(Top(a)) = Calls(Top(a).run)[Top(a).ip] /\ Top(a).pc = "body"
    BY <2>2, AtCallFacts
  <2>4. Fields(g, Top(a), "wake", Top(a).ip) /\ g.to = 1
    <3>1. PICK x \in Places : x = "wake"
      BY DEF Places
    <3>2. PICK n \in Nat : n = 1
      OBVIOUS
    <3>3. g = PcTo(Top(a), x, n)
      BY <2>1, <3>1, <3>2 DEF PcTo
    <3>4. Top(a) \in FrameRec
      BY <1>3, <2>3
    <3>5. Fields(g, Top(a), x, Top(a).ip) /\ g.to = n
      BY <3>3, <3>4, PcToForm
    <3>. QED BY <3>1, <3>2, <3>5, Zenon
  <2>5. InCall(g) /\ g.pc # "help"
    BY <1>2, <2>3, <2>4 DEF InCall, Fields, CallOf
  <2>6. OtherTypes'
    BY <1>1, <2>2 DEF OtherTypes
  <2>. QED BY <2>2, <2>3, <2>4, <2>5, <2>6, PlainStep
<1>17. CASE DestroyPoolWake(a)
  <2>1. PICK g : g = IF Top(a).to < N THEN [Top(a) EXCEPT !.to = @ + 1] ELSE [Top(a) EXCEPT !.pc = "leave"]
    OBVIOUS
  <2>2. /\ stack[a] # <<>> /\ Top(a).pc = "wake" /\ Woken(Top(a).to) /\ Goto(a, g)
        /\ UNCHANGED <<jobVars, parent, threads, next_thread, futures, lock, joining, program>>
    BY <1>17, <2>1 DEF DestroyPoolWake, At, proxyVars
  <2>3. Top(a).ip \in DOMAIN Calls(Top(a).run) /\ CallOf(Top(a)).call = "destroy_pool" /\ Top(a).to \in Thread
    BY <1>3, <2>2 DEF InCall
  <2>4. PICK pc : Fields(g, Top(a), pc, Top(a).ip) /\ pc \in {"wake", "leave"} /\ (pc = "wake" => g.to \in Thread)
    <3>1. CASE Top(a).to < N
      <4>1. PICK m \in Nat : m = Top(a).to + 1 /\ m \in Thread
        BY <1>2, <2>3, <3>1
      <4>2. g = [Top(a) EXCEPT !.to = m]
        BY <2>1, <3>1, <4>1
      <4>3. Fields(g, Top(a), Top(a).pc, Top(a).ip) /\ g.to = m
        BY <1>3, <2>2, <4>2, ToForm
      <4>. QED BY <2>2, <4>1, <4>3
    <3>2. CASE ~(Top(a).to < N)
      <4>1. "leave" \in Places
        BY DEF Places
      <4>2. Fields(g, Top(a), "leave", Top(a).ip)
        BY <1>3, <2>1, <2>2, <3>2, <4>1, PcForm
      <4>. QED BY <4>2
    <3>. QED BY <3>1, <3>2
  <2>5. InCall(g) /\ g.pc # "help"
    BY <2>3, <2>4 DEF InCall, Fields, CallOf
  <2>6. OtherTypes'
    BY <1>1, <1>10, <2>2 DEF OtherTypes
  <2>. QED BY <2>2, <2>4, <2>5, <2>6, PlainStep
<1>18. CASE DestroyPoolJoin(a)
  <2>1. /\ stack[a] # <<>> /\ Top(a).pc = "leave" /\ Goto(a, NextCall(Top(a)))
        /\ UNCHANGED <<jobVars, parent, threads, next_thread, futures, lock, worker, joining, program>>
    BY <1>18 DEF DestroyPoolJoin, At, proxyVars
  <2>2. OtherTypes'
    BY <1>1, <2>1 DEF OtherTypes
  <2>. QED BY <1>9, <2>1, <2>2
<1>. QED
  BY <1>4, <1>5, <1>6, <1>7, <1>8, <1>11, <1>12, <1>13, <1>14, <1>15, <1>16, <1>17, <1>18
     DEF CallStep, JoinHelp, JoinHelped

\* The loop of a pool thread.
LEMMA WorkerStepPoolInv ==
  ASSUME PoolInv, NEW t \in Thread, WorkerStep(t), script' = script
  PROVE  PoolInv'
<1>1. OtherTypes /\ t \in Actor /\ jobs \in [Thread -> Seq(Job)]
  BY DEF PoolInv, PoolTypeOK, TypeOK, OtherTypes, Actor
<1>2. CASE WorkerCheck(t) \/ WorkerBlock(t) \/ WorkerExit(t)
  <2>1. UNCHANGED <<jobVars, parent, threads, next_thread, futures, stack, joining, program>>
    BY <1>2 DEF WorkerCheck, WorkerBlock, WorkerExit, proxyVars
  <2>2. lock' \in [Thread -> Actor \cup {NULL}] /\ worker' \in [Thread -> {"check", "blocking", "wait", "exited"}]
    BY <1>1, <1>2 DEF WorkerCheck, WorkerBlock, WorkerExit, OtherTypes
  <2>3. OtherTypes'
    BY <1>1, <2>1, <2>2 DEF OtherTypes
  <2>. QED BY <2>1, <2>3, QuietStep
<1>3. CASE WorkerRun(t)
  <2>1. PICK i : i = Len(jobs[t])
    OBVIOUS
  <2>2. stack[t] = <<>> /\ jobs[t] # <<>> /\ RunJob(t, i) /\ UNCHANGED <<proxyVars, lock, worker, joining, program>>
    BY <1>3, <2>1 DEF WorkerRun, leaves
  <2>3. i \in DOMAIN jobs[t]
    <3>1. jobs[t] \in Seq(Job) /\ Len(jobs[t]) # 0
      BY <1>1, <2>2, EmptySeq
    <3>. QED BY <2>1, <3>1
  <2>4. \A k \in DOMAIN stack[t] : stack[t][k].index < i
    BY <2>2
  <2>. QED BY <2>2, <2>3, <2>4, RunStep
<1>4. CASE JobReturn(t)
  BY <1>4, ReturnStep
<1>. QED BY <1>2, <1>3, <1>4 DEF WorkerStep

LEMMA NextPoolInv == PoolInv /\ [Next]_vars => PoolInv'
<1>. SUFFICES ASSUME PoolInv, [Next]_vars PROVE PoolInv'
  OBVIOUS
<1>1. ASSUME NEW a \in Actor, Step(a) PROVE PoolInv'
  <2>1. script' = script
    BY <1>1 DEF Step
  <2>. QED BY <1>1, <2>1, CallStepPoolInv, WorkerStepPoolInv DEF Step
<1>2. CASE UNCHANGED vars
  <2>1. UNCHANGED <<jobVars, parent, threads, next_thread, futures, lock, worker, joining, stack, program, script>>
    BY <1>2 DEF vars, proxyVars
  <2>2. OtherTypes'
    BY <2>1 DEF PoolInv, PoolTypeOK, TypeOK, OtherTypes
  <2>. QED BY <2>1, <2>2, QuietStep
<1>. QED BY <1>1, <1>2 DEF Next

\* The types, the frames and the job stacks stay consistent, whatever order
\* clients, pool threads and the jobs that they run take.
THEOREM PoolIsConsistent == Spec => []PoolInv
<1>1. Init => PoolInv
  BY InitPoolInv
<1>2. PoolInv /\ [Next]_vars => PoolInv'
  BY NextPoolInv
<1>. QED BY <1>1, <1>2, PTL DEF Spec

\* run_job erases the job that it has run although others were queued and
\* erased meanwhile, and neither the loop of a thread nor join() runs a job
\* for the second time.
THEOREM JobsAreRunOnce == Spec => []JobsRunOnce
<1>1. PoolInv => JobsRunOnce
  <2>. SUFFICES ASSUME PoolInv PROVE JobsRunOnce
    OBVIOUS
  <2>1. TypeOK
    BY DEF PoolInv, PoolTypeOK
  <2>2. IndexStaysValid
    BY DEF PoolInv, Frames, JobFrame, Innermost, IndexStaysValid, JobFrames
  <2>3. RunsOnce
    BY DEF PoolInv, Started, RunsOnce
  <2>. QED BY <2>1, <2>2, <2>3 DEF JobsRunOnce
<1>. QED BY <1>1, PoolIsConsistent, PTL

(***************************************************************************)
(* What join() and the destructor promise                                  *)
(***************************************************************************)
\* Frame f has made the call m of its code, which submits a job.
Made(f, m) ==
  /\ m \in DOMAIN Calls(f.run) /\ Calls(f.run)[m].call = "do_job"
  /\ m < f.ip \/ (m = f.ip /\ f.pc = "notify")

\* It has called name on the same proxy after that.
After(f, m, name) ==
  \E k \in DOMAIN Calls(f.run) : /\ m < k /\ k < f.ip
                                 /\ Calls(f.run)[k].call = name /\ Calls(f.run)[k].p = Calls(f.run)[m].p

QueuedOn(j, t) == \E i \in DOMAIN jobs[t] : jobs[t][i] = j

\* What was submitted has run, or the proxy holds its future until join() or the
\* proxy's destructor has seen it, or it waits on the submitter's own thread,
\* which join() helps with before it waits for the futures.
Owed(a, f, m) ==
  LET c == Calls(f.run)[m] IN
  /\ proxy[c.job] = c.p
  /\ \/ c.job \in finished
     \/ /\ ~After(f, m, "join")
        /\ \/ c.job \in ToSet(futures[c.p]) /\ ~After(f, m, "destroy_proxy")
           \/ /\ a \in Thread /\ parent[c.p] # NULL /\ QueuedOn(c.job, a)
              /\ ~(f.pc = "await" /\ CallOf(f).p = c.p)

Settled == \A a \in Actor : \A i \in DOMAIN stack[a] : \A f \in FrameRec : \A m \in Nat :
             f = stack[a][i] /\ Made(f, m) => Owed(a, f, m)

\* What a finished job has submitted is finished or on a thread that still runs.
Left == \A r \in finished : \A m \in DOMAIN Calls(r) : Calls(r)[m].call = "do_job" =>
          \/ Calls(r)[m].job \in finished
          \/ \E t \in Thread : QueuedOn(Calls(r)[m].job, t) /\ worker[t] # "exited"

Stored == \A j \in Job : proxy[j] # NULL => j \in finished \/ \E t \in Thread : QueuedOn(j, t)

\* Between the halves of do_job the proxy still points to the thread it locked.
Target == \A a \in Actor : \A i \in DOMAIN stack[a] : \A f \in FrameRec :
            f = stack[a][i] /\ f.pc = "emplace" =>
              f.to = threads[CallOf(f).p][next_thread[CallOf(f).p] + 1]

Working == \A t \in Thread : stack[t] # <<>> => worker[t] = "check"

\* When the pool is being destroyed the clients submit nothing any more, so
\* what an exited thread has in its stack was submitted by a job.
Closing == joining => \A c \in Client : \A f \in FrameRec : f = Top(c) =>
             \A k \in DOMAIN Calls(c) : Calls(c)[k].call = "do_job" => k < f.ip
FromJobs(t) == \A c \in Client : \A k \in DOMAIN Calls(c) :
                 Calls(c)[k].call = "do_job" => ~QueuedOn(Calls(c)[k].job, t)
Closed == \A t \in Thread : worker[t] = "exited" => joining /\ FromJobs(t)

Gone == \A c \in Client : \A f \in FrameRec : f = Top(c) => \A k \in DOMAIN Calls(c) :
          k < f.ip /\ Calls(c)[k].call = "destroy_pool" => \A t \in Thread : worker[t] = "exited"

DoneInv == Settled /\ Left /\ Stored /\ Target /\ Working /\ Closing /\ Closed /\ Gone

\* The rest of the assumption on programs.
LEMMA UsageAfter ==
  ASSUME script \in Scripts, NEW r, NEW i \in DOMAIN Calls(r)
  PROVE  LET c == Calls(r)[i] IN
         /\ c.call = "do_job" =>
              \E k \in DOMAIN Calls(r) : i < k /\ Calls(r)[k].call = "destroy_proxy" /\ Calls(r)[k].p = c.p
         /\ c.call = "destroy_pool" => \A k \in DOMAIN Calls(r) : i < k => Calls(r)[k].call # "do_job"
<1>1. WellUsed(script)
  BY ScriptsAssumption
<1>2. r \in DOMAIN script /\ i \in DOMAIN script[r] /\ Calls(r) = script[r]
  BY ScriptCalls DEF Calls
<1>3. i \in Nat /\ \A k \in DOMAIN Calls(r) : k \in Nat
  BY ScriptCalls
<1>4. ASSUME Calls(r)[i].call = "do_job"
      PROVE  \E k, m \in DOMAIN Calls(r) :
               /\ i < k /\ Calls(r)[k].call = "join" /\ Calls(r)[k].p = Calls(r)[i].p
               /\ k < m /\ Calls(r)[m].call = "destroy_proxy" /\ Calls(r)[m].p = Calls(r)[i].p
  BY <1>1, <1>2, <1>4 DEF WellUsed
<1>5. Calls(r)[i].call = "destroy_pool" => \A k \in DOMAIN Calls(r) : i < k => Calls(r)[k].call # "do_job"
  BY <1>1, <1>2 DEF WellUsed
<1>. QED BY <1>3, <1>4, <1>5

\* What is submitted is joined.
LEMMA JoinAfter ==
  ASSUME script \in Scripts, NEW r, NEW i \in DOMAIN Calls(r), Calls(r)[i].call = "do_job"
  PROVE  \E k \in DOMAIN Calls(r) : i < k /\ Calls(r)[k].call = "join" /\ Calls(r)[k].p = Calls(r)[i].p
<1>1. WellUsed(script)
  BY ScriptsAssumption
<1>2. r \in DOMAIN script /\ i \in DOMAIN script[r] /\ Calls(r) = script[r]
  BY ScriptCalls DEF Calls
<1>. QED BY <1>1, <1>2 DEF WellUsed

\* The frames after a step of the innermost frame of actor a.
LEMMA FrameOf ==
  ASSUME PoolInv, NEW a \in Actor, stack[a] # <<>>, NEW g \in FrameRec, Goto(a, g),
         NEW b \in Actor, NEW i \in DOMAIN stack'[b]
  PROVE  /\ i \in DOMAIN stack[b] /\ stack[b][i] \in FrameRec
         /\ \/ stack'[b][i] = stack[b][i] /\ ~(b = a /\ i = Len(stack[a]))
            \/ b = a /\ i = Len(stack[a]) /\ stack[b][i] = Top(a) /\ stack'[b][i] = g
<1>1. i \in DOMAIN stack[b] /\ stack[b] \in Seq(FrameRec)
  BY GotoStack DEF PoolInv, PoolTypeOK
<1>2. stack[b][i] \in FrameRec
  BY <1>1
<1>3. CASE b = a
  BY <1>1, <1>3, GotoStack
<1>4. CASE b # a
  BY <1>1, <1>4, GotoStack
<1>. QED BY <1>1, <1>2, <1>3, <1>4

\* Nobody else uses the proxy that the innermost frame of actor a works on.
LEMMA OtherProxy ==
  ASSUME PoolInv, NEW a \in Actor, stack[a] # <<>>, Top(a).ip \in DOMAIN Calls(Top(a).run),
         NEW b \in Actor, NEW i \in DOMAIN stack[b], ~(b = a /\ i = Len(stack[a])),
         NEW m \in DOMAIN Calls(stack[b][i].run), Calls(stack[b][i].run)[m].call # "destroy_pool"
  PROVE  /\ Calls(stack[b][i].run)[m].p \in Proxy /\ Calls(stack[b][i].run)[m].p # CallOf(Top(a)).p
<1>1. script \in Scripts
  BY DEF PoolInv, PoolTypeOK
<1>2. Calls(stack[b][i].run)[m].p \in Proxy /\ Calls(stack[b][i].run)[m].p # NULL
  BY <1>1, Usage
<1>3. ASSUME Calls(stack[b][i].run)[m].p = CallOf(Top(a)).p PROVE FALSE
  <2>1. Top(a).run = stack[b][i].run
    BY <1>1, <1>2, <1>3, Usage DEF CallOf
  <2>2. Len(stack[a]) \in DOMAIN stack[a] /\ Top(a) = stack[a][Len(stack[a])]
    BY TopFrame
  <2>. QED BY <2>1, <2>2, OneFrame
<1>. QED BY <1>2, <1>3

\* What is owed stays owed when no call on the proxy intervenes.
LEMMA OwedKept ==
  ASSUME NEW a, NEW f, NEW g, NEW m, Owed(a, f, m), g.run = f.run,
         UNCHANGED <<script, jobs, proxy, finished>>,
         LET c == Calls(f.run)[m] IN
         \/ c.job \in finished
         \/ /\ futures'[c.p] = futures[c.p]
            /\ parent[c.p] # NULL => parent'[c.p] # NULL
            /\ After(g, m, "join") => After(f, m, "join")
            /\ After(g, m, "destroy_proxy") => After(f, m, "destroy_proxy") \/ futures[c.p] = <<>>
            /\ g.pc = "await" /\ CallOf(g).p = c.p /\ parent[c.p] # NULL =>
                 ~QueuedOn(c.job, a) \/ (f.pc = "await" /\ CallOf(f).p = c.p)
  PROVE  Owed(a, g, m)'
<1>. DEFINE c == Calls(f.run)[m]
<1>1. /\ Calls(g.run)'[m] = c /\ CallOf(g)' = CallOf(g)
      /\ After(g, m, "join")' = After(g, m, "join")
      /\ After(g, m, "destroy_proxy")' = After(g, m, "destroy_proxy")
      /\ QueuedOn(c.job, a)' = QueuedOn(c.job, a)
  BY DEF Calls, CallOf, After, QueuedOn
<1>2. proxy'[c.job] = c.p
  BY DEF Owed
<1>3. CASE c.job \in finished
  BY <1>1, <1>2, <1>3 DEF Owed
<1>4. CASE c.job \notin finished
  <2>1. futures[c.p] = <<>> => c.job \notin ToSet(futures[c.p])
    BY DEF ToSet
  <2>. QED BY <1>1, <1>2, <1>4, <2>1 DEF Owed
<1>. QED BY <1>3, <1>4

\* The next point of the program of a frame: inside the call, or behind it.
Proceeds(f, g) ==
  /\ g.run = f.run
  /\ \/ g.ip = f.ip /\ (g.pc = "notify" => f.pc = "notify")
     \/ g.ip = f.ip + 1 /\ g.pc = "body" /\ (CallOf(f).call = "do_job" => f.pc = "notify")

LEMMA MadeBefore ==
  ASSUME script \in Scripts, NEW f \in FrameRec, NEW g \in FrameRec, Proceeds(f, g), NEW m \in Nat, Made(g, m)
  PROVE  /\ Made(f, m)
         /\ \A name : After(g, m, name) =>
              \/ After(f, m, name)
              \/ g.ip = f.ip + 1 /\ CallOf(f).call = name /\ CallOf(f).p = Calls(f.run)[m].p
<1>1. f.ip \in Nat /\ g.ip \in Nat /\ g.run = f.run
  BY RecordOf DEF Proceeds
<1>2. DOMAIN Calls(f.run) \subseteq Nat
  BY ScriptCalls
<1>3. CASE g.ip = f.ip /\ (g.pc = "notify" => f.pc = "notify")
  <2>1. Made(f, m)
    BY <1>1, <1>3 DEF Made
  <2>. QED BY <1>1, <1>3, <2>1 DEF After
<1>4. CASE g.ip = f.ip + 1 /\ g.pc = "body" /\ (CallOf(f).call = "do_job" => f.pc = "notify")
  <2>1. m < f.ip + 1 /\ m \in DOMAIN Calls(f.run) /\ Calls(f.run)[m].call = "do_job"
    BY <1>1, <1>4 DEF Made
  <2>2. m < f.ip \/ m = f.ip
    BY <1>1, <2>1
  <2>3. Made(f, m)
    BY <1>1, <1>4, <2>1, <2>2 DEF Made, CallOf
  <2>4. ASSUME NEW name, After(g, m, name)
        PROVE  After(f, m, name) \/ (CallOf(f).call = name /\ CallOf(f).p = Calls(f.run)[m].p)
    <3>1. PICK k \in DOMAIN Calls(f.run) : /\ m < k /\ k < f.ip + 1
                                           /\ Calls(f.run)[k].call = name /\ Calls(f.run)[k].p = Calls(f.run)[m].p
      BY <1>1, <1>4, <2>4 DEF After
    <3>2. k < f.ip \/ k = f.ip
      BY <1>1, <1>2, <3>1
    <3>. QED BY <3>1, <3>2 DEF After, CallOf
  <2>. QED BY <1>4, <2>3, <2>4
<1>. QED BY <1>3, <1>4 DEF Proceeds

\* The step of the innermost frame of a works on proxy p only, and what this
\* frame has submitted through p stays owed.
OthersKept(p) == \A q \in Proxy : /\ q # p => /\ futures'[q] = futures[q] /\ parent'[q] = parent[q]
                                              /\ threads'[q] = threads[q] /\ next_thread'[q] = next_thread[q]
                                  /\ parent[q] # NULL => parent'[q] # NULL
Respects(a, f, g, p) ==
  \A m \in Nat : Made(f, m) /\ Calls(f.run)[m].p = p =>
    LET j == Calls(f.run)[m].job IN
    \/ j \in finished
    \/ /\ futures'[p] = futures[p]
       /\ g.ip = f.ip + 1 => /\ CallOf(f).call # "join"
                             /\ CallOf(f).call = "destroy_proxy" => futures[p] = <<>>
       /\ g.pc = "await" /\ parent[p] # NULL => ~(proxy[j] = p /\ QueuedOn(j, a))

LEMMA GotoSettled ==
  ASSUME PoolInv, Settled, NEW a \in Actor, stack[a] # <<>>, NEW g \in FrameRec, Goto(a, g),
         Proceeds(Top(a), g), Top(a).ip \in DOMAIN Calls(Top(a).run), NEW p, p = CallOf(Top(a)).p,
         UNCHANGED <<script, jobs, proxy, finished>>, OthersKept(p), Respects(a, Top(a), g, p)
  PROVE  Settled'
<1>1. script \in Scripts
  BY DEF PoolInv, PoolTypeOK
<1>2. \A m \in Nat : \A h : Made(h, m)' => Made(h, m)
  BY DEF Made, Calls
<1>3. ASSUME NEW b \in Actor, NEW i \in DOMAIN stack'[b], NEW h \in FrameRec, NEW m \in Nat,
             h = stack'[b][i], Made(h, m)
      PROVE  Owed(b, h, m)'
  <2>1. i \in DOMAIN stack[b] /\ stack[b][i] \in FrameRec
    BY <1>3, FrameOf
  <2>2. m \in DOMAIN Calls(h.run) /\ Calls(h.run)[m].call = "do_job"
    BY <1>3 DEF Made
  <2>3. Calls(h.run)[m].p \in Proxy
    BY <1>1, <2>2, Usage
  <2>4. CASE h = stack[b][i] /\ ~(b = a /\ i = Len(stack[a]))
    <3>1. Owed(b, h, m)
      BY <1>3, <2>1, <2>4 DEF Settled
    <3>2. Calls(h.run)[m].p # p
      BY <2>1, <2>2, <2>4, OtherProxy
    <3>3. /\ futures'[Calls(h.run)[m].p] = futures[Calls(h.run)[m].p]
          /\ parent[Calls(h.run)[m].p] # NULL => parent'[Calls(h.run)[m].p] # NULL
      BY <2>3, <3>2 DEF OthersKept
    <3>. QED BY <3>1, <3>3, OwedKept
  <2>5. CASE b = a /\ i = Len(stack[a]) /\ h = g
    <3>. DEFINE f == Top(a)
                c == Calls(f.run)[m]
    <3>1. f \in FrameRec /\ f = stack[a][i] /\ g.run = f.run
      BY <2>1, <2>5, TopFrame DEF Proceeds
    <3>2. /\ Made(f, m)
          /\ \A name : After(g, m, name) =>
               \/ After(f, m, name)
               \/ g.ip = f.ip + 1 /\ CallOf(f).call = name /\ CallOf(f).p = c.p
      BY <1>1, <1>3, <2>5, <3>1, MadeBefore
    <3>3. Owed(a, f, m)
      BY <2>1, <2>5, <3>1, <3>2 DEF Settled
    <3>4. proxy[c.job] = c.p /\ c.p \in Proxy
      BY <2>3, <2>5, <3>1, <3>3 DEF Owed
    <3>5. parent[c.p] # NULL => parent'[c.p] # NULL
      BY <3>4 DEF OthersKept
    <3>6. g.pc = "await" => CallOf(g) = CallOf(f)
      BY <3>1 DEF Proceeds, CallOf
    <3>7. CASE c.p # p
      <4>1. futures'[c.p] = futures[c.p]
        BY <3>4, <3>7 DEF OthersKept
      <4>. QED BY <2>5, <3>1, <3>2, <3>3, <3>5, <3>6, <3>7, <4>1, OwedKept
    <3>8. CASE c.p = p
      <4>1. \/ c.job \in finished
            \/ /\ futures'[p] = futures[p]
               /\ g.ip = f.ip + 1 => /\ CallOf(f).call # "join"
                                     /\ CallOf(f).call = "destroy_proxy" => futures[p] = <<>>
               /\ g.pc = "await" /\ parent[p] # NULL => ~QueuedOn(c.job, a)
        BY <3>2, <3>4, <3>8 DEF Respects
      <4>. QED BY <2>5, <3>1, <3>2, <3>3, <3>5, <3>8, <4>1, OwedKept
    <3>. QED BY <3>7, <3>8
  <2>6. stack'[b][i] = h
    BY <1>3
  <2>. QED BY <1>3, <2>4, <2>5, <2>6, FrameOf
<1>. QED BY <1>2, <1>3 DEF Settled

LEMMA TopAfter ==
  ASSUME PoolInv, NEW a \in Actor, stack[a] # <<>>, NEW g \in FrameRec, Goto(a, g), NEW b \in Actor
  PROVE  Top(b)' = IF b = a THEN g ELSE Top(b)
<1>1. CASE b = a
  <2>1. Len(stack'[a]) = Len(stack[a]) /\ stack'[a][Len(stack[a])] = g
    BY GotoStack
  <2>. QED BY <1>1, <2>1 DEF Top, Last
<1>2. CASE b # a
  <2>1. stack'[b] = stack[b]
    BY <1>2, GotoStack
  <2>. QED BY <1>2, <2>1 DEF Top
<1>. QED BY <1>1, <1>2

\* A pool thread that runs code is still in its loop, and none leaves it.
WorkersKept == \A t \in Thread : /\ worker'[t] = "exited" <=> worker[t] = "exited"
                                 /\ worker[t] = "check" => worker'[t] = "check"

\* A step of a frame that leaves the jobs alone.
LEMMA GotoDone ==
  ASSUME PoolInv, DoneInv, NEW a \in Actor, stack[a] # <<>>, NEW g \in FrameRec, Goto(a, g),
         Proceeds(Top(a), g), Top(a).ip \in DOMAIN Calls(Top(a).run), NEW p, p = CallOf(Top(a)).p,
         UNCHANGED <<script, jobs, proxy, finished>>, OthersKept(p), Respects(a, Top(a), g, p),
         g.pc = "emplace" => g.to = threads'[p][next_thread'[p] + 1],
         WorkersKept, joining => joining', joining' = joining \/ Closing',
         g.ip = Top(a).ip + 1 /\ CallOf(Top(a)).call = "destroy_pool" => \A t \in Thread : worker[t] = "exited"
  PROVE  DoneInv'
<1>1. script \in Scripts /\ Thread \subseteq Actor /\ Client \subseteq Actor
  BY DEF PoolInv, PoolTypeOK, Actor
<1>f. PICK f : f = Top(a)
  OBVIOUS
<1>2. f \in FrameRec /\ f.ip \in Nat /\ f.ip \in DOMAIN Calls(f.run) /\ CallOf(f) = Calls(f.run)[f.ip]
  BY <1>f, TopFrame, RecordOf DEF CallOf
<1>3. g.run = f.run /\ (g.ip = f.ip \/ (g.ip = f.ip + 1 /\ g.pc = "body"))
  BY <1>f DEF Proceeds
<1>4. Settled'
  BY GotoSettled DEF DoneInv
<1>5. Left'
  BY DEF DoneInv, Left, Calls, QueuedOn, WorkersKept
<1>6. Stored'
  BY DEF DoneInv, Stored, QueuedOn
<1>7. Target'
  <2>1. ASSUME NEW b \in Actor, NEW i \in DOMAIN stack'[b], NEW h \in FrameRec, h = stack'[b][i], h.pc = "emplace"
        PROVE  h.to = threads'[CallOf(h).p][next_thread'[CallOf(h).p] + 1]
    <3>1. i \in DOMAIN stack[b] /\ stack[b][i] \in FrameRec
      BY <2>1, FrameOf
    <3>2. CASE h = stack[b][i] /\ ~(b = a /\ i = Len(stack[a]))
      <4>1. h.to = threads[CallOf(h).p][next_thread[CallOf(h).p] + 1]
        BY <2>1, <3>1, <3>2 DEF DoneInv, Target
      <4>2. InCall(h)
        BY <3>1, <3>2 DEF PoolInv, Frames
      <4>3. h.ip \in DOMAIN Calls(h.run) /\ Calls(h.run)[h.ip].call = "do_job" /\ CallOf(h) = Calls(h.run)[h.ip]
        BY <2>1, <4>2 DEF InCall, CallOf
      <4>4. CallOf(h).p \in Proxy /\ CallOf(h).p # p
        BY <3>1, <3>2, <4>3, OtherProxy
      <4>. QED BY <4>1, <4>4 DEF OthersKept
    <3>3. CASE b = a /\ h = g
      <4>1. CallOf(h) = CallOf(f)
        BY <1>3, <2>1, <3>3 DEF CallOf
      <4>. QED BY <1>f, <2>1, <3>3, <4>1
    <3>. QED BY <2>1, <3>2, <3>3, FrameOf
  <2>2. \A h : CallOf(h)' = CallOf(h)
    BY DEF CallOf, Calls
  <2>. QED BY <2>1, <2>2 DEF Target
<1>8. Working'
  <2>1. \A t \in Thread : stack'[t] # <<>> => stack[t] # <<>>
    BY <1>1, GotoStack
  <2>. QED BY <2>1 DEF DoneInv, Working, WorkersKept
<1>9. \A c \in Client : Top(c)' = IF c = a THEN g ELSE Top(c)
  BY <1>1, TopAfter
<1>10. \A c \in Client : Calls(c)' = Calls(c) /\ DOMAIN Calls(c) \subseteq Nat
  BY <1>1, ScriptCalls DEF Calls
<1>11. Closing'
  <2>. SUFFICES ASSUME joining' = joining, joining', NEW c \in Client, NEW h \in FrameRec, h = Top(c)',
                       NEW k \in DOMAIN Calls(c), Calls(c)[k].call = "do_job"
       PROVE  k < h.ip
    BY <1>10 DEF Closing
  <2>0. Top(c) \in FrameRec
    <3>1. stack[c] # <<>>
      <4>1. ClientFrame(c)
        BY DEF PoolInv, Frames
      <4>. QED BY <4>1 DEF ClientFrame
    <3>. QED BY <1>1, <3>1, TopFrame
  <2>1. k < Top(c).ip
    BY <2>0 DEF DoneInv, Closing
  <2>2. CASE c = a
    <3>1. h = g /\ k < f.ip /\ k \in Nat
      BY <1>f, <1>9, <1>10, <2>1, <2>2
    <3>. QED BY <1>2, <1>3, <3>1
  <2>. QED BY <1>9, <2>1, <2>2
<1>12. Closed'
  <2>1. \A t : FromJobs(t)' <=> FromJobs(t)
    BY DEF FromJobs, QueuedOn, Calls
  <2>. QED BY <2>1 DEF DoneInv, Closed, WorkersKept
<1>13. Gone'
  <2>. SUFFICES ASSUME NEW c \in Client, NEW h \in FrameRec, h = Top(c)',
                       NEW k \in DOMAIN Calls(c), k < h.ip, Calls(c)[k].call = "destroy_pool", NEW t \in Thread
       PROVE  worker[t] = "exited"
    BY <1>10 DEF Gone, WorkersKept
  <2>0. Top(c) \in FrameRec
    <3>1. stack[c] # <<>>
      <4>1. ClientFrame(c)
        BY DEF PoolInv, Frames
      <4>. QED BY <4>1 DEF ClientFrame
    <3>. QED BY <1>1, <3>1, TopFrame
  <2>1. CASE k < Top(c).ip
    BY <2>0, <2>1 DEF DoneInv, Gone
  <2>2. CASE ~(k < Top(c).ip)
    <3>1. c = a /\ h = g /\ k \in Nat /\ k < g.ip
      BY <1>9, <1>10, <2>2
    <3>2. g.ip = f.ip + 1 /\ k = f.ip
      BY <1>f, <1>2, <1>3, <2>2, <3>1
    <3>3. CallOf(f).call = "destroy_pool"
      <4>1. f.run = c
        BY <1>f, <3>1, TopFrame
      <4>. QED BY <1>2, <3>2, <4>1
    <3>. QED BY <1>f, <3>2, <3>3
  <2>. QED BY <2>1, <2>2
<1>. QED BY <1>4, <1>5, <1>6, <1>7, <1>8, <1>11, <1>12, <1>13 DEF DoneInv

\* A step that no frame takes: a thread without a frame may leave its loop.
LEMMA QuietDone ==
  ASSUME PoolInv, DoneInv, UNCHANGED <<script, jobs, proxy, finished, stack, proxyVars, joining>>,
         \A t \in Thread : /\ stack[t] # <<>> => worker'[t] = worker[t]
                           /\ worker[t] = "exited" => worker'[t] = "exited"
                           /\ worker'[t] = "exited" => worker[t] = "exited" \/ (jobs[t] = <<>> /\ joining)
  PROVE  DoneInv'
<1>1. UNCHANGED <<script, jobs, proxy, finished, stack, parent, threads, next_thread, futures, joining>>
  BY DEF proxyVars
<1>2. \A r : Calls(r)' = Calls(r)
  BY <1>1 DEF Calls
<1>3. \A h : CallOf(h)' = CallOf(h)
  BY <1>2 DEF CallOf
<1>4. Settled'
  <2>1. \A a \in Actor : \A i \in DOMAIN stack[a] : \A f \in FrameRec : \A m \in Nat :
          f = stack[a][i] /\ Made(f, m)' => Owed(a, f, m)'
    <3>. TAKE a \in Actor
    <3>. TAKE i \in DOMAIN stack[a]
    <3>. TAKE f \in FrameRec
    <3>. TAKE m \in Nat
    <3>. HAVE f = stack[a][i] /\ Made(f, m)'
    <3>1. Made(f, m)
      BY <1>2 DEF Made
    <3>2. Owed(a, f, m)
      BY <3>1 DEF DoneInv, Settled
    <3>. QED BY <1>1, <3>2, OwedKept
  <2>. QED BY <1>1, <2>1 DEF Settled
<1>5. Left'
  <2>. SUFFICES ASSUME NEW r \in finished, NEW m \in DOMAIN Calls(r), Calls(r)[m].call = "do_job",
                       Calls(r)[m].job \notin finished
       PROVE  \E t \in Thread : QueuedOn(Calls(r)[m].job, t) /\ worker'[t] # "exited"
    BY <1>1, <1>2 DEF Left, QueuedOn
  <2>1. PICK t \in Thread : QueuedOn(Calls(r)[m].job, t) /\ worker[t] # "exited"
    BY DEF DoneInv, Left
  <2>2. jobs[t] # <<>>
    BY <2>1 DEF QueuedOn
  <2>. QED BY <2>1, <2>2
<1>6. Stored'
  BY <1>1 DEF DoneInv, Stored, QueuedOn
<1>7. Target'
  BY <1>1, <1>3 DEF DoneInv, Target
<1>8. Working'
  BY <1>1 DEF DoneInv, Working
<1>9. Closing'
  BY <1>1, <1>2 DEF DoneInv, Closing, Top
<1>10. Closed'
  <2>. SUFFICES ASSUME NEW t \in Thread, worker'[t] = "exited" PROVE joining /\ FromJobs(t)'
    BY <1>1 DEF Closed
  <2>1. CASE worker[t] = "exited"
    BY <1>1, <1>2, <2>1 DEF DoneInv, Closed, FromJobs, QueuedOn
  <2>2. CASE jobs[t] = <<>> /\ joining
    BY <1>1, <2>2 DEF FromJobs, QueuedOn
  <2>. QED BY <2>1, <2>2
<1>11. Gone'
  BY <1>1, <1>2 DEF DoneInv, Gone, Top
<1>. QED BY <1>4, <1>5, <1>6, <1>7, <1>8, <1>9, <1>10, <1>11 DEF DoneInv

\* A job that is started has not submitted anything yet.
LEMMA RunDone ==
  ASSUME PoolInv, DoneInv, NEW t \in Thread, worker[t] = "check",
         NEW g \in FrameRec, g.ip = 1, g.pc = "body", stack' = [stack EXCEPT ![t] = Append(@, g)],
         UNCHANGED <<script, jobs, proxy, finished, proxyVars, worker, joining>>
  PROVE  DoneInv'
<1>1. UNCHANGED <<script, jobs, proxy, finished, parent, threads, next_thread, futures, worker, joining>>
  BY DEF proxyVars
<1>2. \A r : Calls(r)' = Calls(r)
  BY <1>1 DEF Calls
<1>3. \A h : CallOf(h)' = CallOf(h)
  BY <1>2 DEF CallOf
<1>4. script \in Scripts /\ stack \in [Actor -> Seq(FrameRec)] /\ t \in Actor /\ Client \cap Thread = {}
  BY ThreadPoolAssumption DEF PoolInv, PoolTypeOK, Actor
<1>5. ASSUME NEW b \in Actor, NEW i \in DOMAIN stack'[b]
      PROVE  \/ i \in DOMAIN stack[b] /\ stack'[b][i] = stack[b][i]
             \/ b = t /\ stack'[b][i] = g
  <2>1. CASE b = t
    <3>1. stack'[b] = Append(stack[t], g) /\ stack[t] \in Seq(FrameRec)
      BY <1>4, <2>1
    <3>2. i \in DOMAIN stack[t] \cup {Len(stack[t]) + 1} /\ DOMAIN stack[t] = 1 .. Len(stack[t])
      BY <1>5, <3>1, Appended
    <3>. QED BY <2>1, <3>1, <3>2, Appended
  <2>2. CASE b # t
    <3>1. stack'[b] = stack[b]
      BY <1>4, <2>2
    <3>. QED BY <1>5, <3>1
  <2>. QED BY <2>1, <2>2
<1>6. \A c \in Client : stack'[c] = stack[c]
  BY <1>4 DEF Actor
<1>7. Settled'
  <2>1. ASSUME NEW b \in Actor, NEW i \in DOMAIN stack'[b], NEW h \in FrameRec, NEW m \in Nat,
               h = stack'[b][i], Made(h, m)
        PROVE  Owed(b, h, m)'
    <3>1. CASE i \in DOMAIN stack[b] /\ h = stack[b][i]
      <4>1. Owed(b, h, m)
        BY <2>1, <3>1 DEF DoneInv, Settled
      <4>. QED BY <1>1, <4>1, OwedKept
    <3>2. CASE h = g
      <4>1. m \in 1 .. Len(Calls(g.run)) /\ m < 1
        BY <1>4, <2>1, <3>2, ScriptCalls DEF Made
      <4>. QED BY <4>1
    <3>. QED BY <1>5, <2>1, <3>1, <3>2
  <2>2. \A h : \A m \in Nat : Made(h, m)' => Made(h, m)
    BY <1>2 DEF Made
  <2>. QED BY <2>1, <2>2 DEF Settled
<1>8. Left' /\ Stored'
  BY <1>1, <1>2 DEF DoneInv, Left, Stored, QueuedOn
<1>9. Target'
  <2>1. \A b \in Actor : \A i \in DOMAIN stack'[b] : \A h \in FrameRec : h = stack'[b][i] /\ h.pc = "emplace" =>
          i \in DOMAIN stack[b] /\ h = stack[b][i]
    BY <1>5
  <2>2. Target
    BY DEF DoneInv
  <2>3. ASSUME NEW b \in Actor, NEW i \in DOMAIN stack'[b], NEW h \in FrameRec, h = stack'[b][i], h.pc = "emplace"
        PROVE  h.to = threads'[CallOf(h)'.p][next_thread'[CallOf(h)'.p] + 1]
    <3>1. i \in DOMAIN stack[b] /\ h = stack[b][i]
      BY <2>1, <2>3
    <3>2. h.to = threads[CallOf(h).p][next_thread[CallOf(h).p] + 1]
      BY <2>2, <2>3, <3>1 DEF Target
    <3>3. CallOf(h)' = CallOf(h) /\ threads' = threads /\ next_thread' = next_thread
      BY <1>1, <1>3
    <3>. QED BY <3>2, <3>3
  <2>. QED BY <2>3 DEF Target
<1>10. Working'
  <2>. SUFFICES ASSUME NEW u \in Thread, stack'[u] # <<>> PROVE worker[u] = "check"
    BY <1>1 DEF Working
  <2>1. CASE u = t
    BY <2>1
  <2>2. CASE u # t
    BY <1>4, <2>2 DEF DoneInv, Working, Actor
  <2>. QED BY <2>1, <2>2
<1>11. \A c \in Client : Top(c)' = Top(c)
  BY <1>6 DEF Top
<1>12. Closing' /\ Gone'
  BY <1>1, <1>2, <1>11 DEF DoneInv, Closing, Gone
<1>13. Closed'
  BY <1>1, <1>2 DEF DoneInv, Closed, FromJobs, QueuedOn
<1>. QED BY <1>7, <1>8, <1>9, <1>10, <1>12, <1>13 DEF DoneInv

\* What run_job changes behind a job: its frame and its place are gone.
LEMMA Returned ==
  ASSUME PoolInv, NEW t \in Thread, JobReturn(t)
  PROVE  LET job == Top(t).run IN
         /\ stack[t] # <<>> /\ job \in Job /\ Top(t) \in FrameRec /\ Top(t).ip > Len(Calls(job))
         /\ finished' = finished \cup {job}
         /\ \A b \in Actor : /\ b # t => stack'[b] = stack[b]
                             /\ \A k \in DOMAIN stack'[b] : k \in DOMAIN stack[b] /\ stack'[b][k] = stack[b][k]
         /\ \A u \in Thread, j \in Job : /\ QueuedOn(j, u)' => QueuedOn(j, u)
                                         /\ j # job /\ QueuedOn(j, u) => QueuedOn(j, u)'
<1>. DEFINE n == Len(stack[t])
            f == Top(t)
<1>1. /\ stack \in [Actor -> Seq(FrameRec)] /\ jobs \in [Thread -> Seq(Job)]
      /\ stack[t] # <<>> /\ t \in Actor /\ f.ip > Len(Calls(f.run))
  BY DEF PoolInv, PoolTypeOK, TypeOK, JobReturn, At, Actor
<1>2. PICK job, e : job = f.run /\ e = f.index
  OBVIOUS
<1>3. /\ f \in FrameRec /\ job \in Job /\ running_job[t] = e /\ e \in DOMAIN jobs[t] /\ jobs[t][e] = job
  BY <1>1, <1>2, TopFrame
<1>4. /\ finished' = finished \cup {job} /\ jobs' = [jobs EXCEPT ![t] = RemoveAt(jobs[t], e)]
      /\ stack' = [stack EXCEPT ![t] = Front(@)]
  BY <1>2, <1>3 DEF JobReturn, erased
<1>5. /\ \A b \in Actor : b # t => stack'[b] = stack[b]
      /\ \A k \in DOMAIN stack'[t] : k \in DOMAIN stack[t] /\ stack'[t][k] = stack[t][k]
  <2>1. stack[t] \in Seq(FrameRec) /\ stack'[t] = Front(stack[t])
    BY <1>1, <1>4
  <2>2. /\ Front(stack[t]) \in Seq(FrameRec) /\ Len(Front(stack[t])) = n - 1 /\ n \in Nat \ {0}
        /\ \A k \in 1 .. n - 1 : Front(stack[t])[k] = stack[t][k]
    BY <1>1, <2>1, LastRemoved
  <2>3. DOMAIN Front(stack[t]) = 1 .. n - 1 /\ DOMAIN stack[t] = 1 .. n
    BY <2>1, <2>2
  <2>4. \A b \in Actor : b # t => stack'[b] = stack[b]
    BY <1>1, <1>4
  <2>. HIDE DEF n
  <2>. QED BY <2>1, <2>2, <2>3, <2>4
<1>6. ASSUME NEW u \in Thread, NEW j \in Job
      PROVE  /\ QueuedOn(j, u)' => QueuedOn(j, u)
             /\ j # job /\ QueuedOn(j, u) => QueuedOn(j, u)'
  <2>1. CASE u # t
    <3>1. jobs'[u] = jobs[u]
      BY <1>1, <1>4, <2>1
    <3>. QED BY <3>1 DEF QueuedOn
  <2>2. CASE u = t
    <3>1. jobs[t] \in Seq(Job) /\ e \in 1 .. Len(jobs[t]) /\ Len(jobs[t]) \in Nat /\ DOMAIN jobs[t] = 1 .. Len(jobs[t])
      BY <1>1, <1>3
    <3>2. /\ RemoveAt(jobs[t], e) \in Seq(Job) /\ Len(RemoveAt(jobs[t], e)) = Len(jobs[t]) - 1
          /\ \A i \in 1 .. Len(jobs[t]) - 1 : RemoveAt(jobs[t], e)[i] = IF i < e THEN jobs[t][i] ELSE jobs[t][i + 1]
      BY <3>1, ElementRemoved
    <3>3. PICK s : s = jobs'[t]
      OBVIOUS
    <3>4. /\ s \in Seq(Job) /\ DOMAIN s = 1 .. Len(jobs[t]) - 1
          /\ \A i \in 1 .. Len(jobs[t]) - 1 : s[i] = IF i < e THEN jobs[t][i] ELSE jobs[t][i + 1]
      <4>1. s = RemoveAt(jobs[t], e)
        BY <1>1, <1>4, <3>3
      <4>2. s \in Seq(Job) /\ Len(s) = Len(jobs[t]) - 1
        BY <3>2, <4>1
      <4>3. DOMAIN s = 1 .. Len(jobs[t]) - 1
        BY <4>2
      <4>. QED BY <3>2, <4>1, <4>2, <4>3
    <3>5. ASSUME NEW i \in DOMAIN s, s[i] = j PROVE QueuedOn(j, t)
      <4>1. CASE i < e
        BY <3>1, <3>4, <3>5, <4>1 DEF QueuedOn
      <4>2. CASE ~(i < e)
        <5>1. i + 1 \in DOMAIN jobs[t]
          BY <3>1, <3>4, <3>5
        <5>2. jobs[t][i + 1] = j
          BY <3>4, <3>5, <4>2
        <5>. QED BY <5>1, <5>2 DEF QueuedOn
      <4>. QED BY <4>1, <4>2
    <3>6. ASSUME NEW i \in DOMAIN jobs[t], jobs[t][i] = j, j # job PROVE \E k \in DOMAIN s : s[k] = j
      <4>1. i # e
        BY <1>3, <3>6
      <4>2. CASE i < e
        <5>1. i \in 1 .. Len(jobs[t]) - 1
          BY <3>1, <3>6, <4>2
        <5>. QED BY <3>4, <3>6, <4>2, <5>1
      <4>3. CASE ~(i < e)
        <5>1. PICK k : k = i - 1
          OBVIOUS
        <5>2. k \in 1 .. Len(jobs[t]) - 1 /\ ~(k < e) /\ k + 1 = i
          BY <3>1, <3>6, <4>1, <4>3, <5>1
        <5>3. s[k] = jobs[t][i]
          BY <3>4, <5>2
        <5>. QED BY <3>4, <3>6, <5>2, <5>3
      <4>. QED BY <4>2, <4>3
    <3>. QED BY <2>2, <3>3, <3>5, <3>6 DEF QueuedOn
  <2>. QED BY <2>1, <2>2
<1>. HIDE DEF f, n
<1>7. \A b \in Actor : /\ b # t => stack'[b] = stack[b]
                       /\ \A k \in DOMAIN stack'[b] : k \in DOMAIN stack[b] /\ stack'[b][k] = stack[b][k]
  BY <1>5
<1>. QED BY <1>1, <1>2, <1>3, <1>4, <1>6, <1>7 DEF f

\* A job returns: what it has submitted without waiting for it is in the job
\* stack of the thread, which goes on to run it.
LEMMA ReturnDone ==
  ASSUME PoolInv, DoneInv, NEW t \in Thread, JobReturn(t), script' = script
  PROVE  DoneInv'
<1>. DEFINE f == Top(t)
<1>0. PICK job : job = f.run
  OBVIOUS
<1>1. /\ stack[t] # <<>> /\ job \in Job /\ f \in FrameRec /\ f.ip > Len(Calls(job))
      /\ finished' = finished \cup {job}
      /\ \A b \in Actor : /\ b # t => stack'[b] = stack[b]
                          /\ \A k \in DOMAIN stack'[b] : k \in DOMAIN stack[b] /\ stack'[b][k] = stack[b][k]
      /\ \A u \in Thread, j \in Job : /\ QueuedOn(j, u)' => QueuedOn(j, u)
                                      /\ j # job /\ QueuedOn(j, u) => QueuedOn(j, u)'
  BY <1>0, Returned
<1>2. UNCHANGED <<script, proxy, parent, threads, next_thread, futures, worker, joining>>
  BY DEF JobReturn, proxyVars
<1>3. /\ \A r : Calls(r)' = Calls(r)
      /\ \A h : CallOf(h)' = CallOf(h)
      /\ \A h, m, name : After(h, m, name)' = After(h, m, name)
      /\ \A h, m : Made(h, m)' = Made(h, m)
  BY <1>2 DEF Calls, CallOf, After, Made
<1>4. script \in Scripts /\ stack \in [Actor -> Seq(FrameRec)] /\ Client \cap Thread = {} /\ Thread \subseteq Actor
      /\ Client \subseteq Actor
  BY ThreadPoolAssumption DEF PoolInv, PoolTypeOK, Actor
<1>5. \A r : \A m \in DOMAIN Calls(r) : Calls(r)[m].call = "do_job" => Calls(r)[m].job \in Job
  BY <1>4, Usage
<1>6. Settled'
  <2>1. ASSUME NEW b \in Actor, NEW i \in DOMAIN stack'[b], NEW h \in FrameRec, NEW m \in Nat,
               h = stack'[b][i], Made(h, m)
        PROVE  Owed(b, h, m)'
    <3>. DEFINE c == Calls(h.run)[m]
    <3>1. i \in DOMAIN stack[b] /\ h = stack[b][i]
      BY <1>1, <2>1
    <3>2. Owed(b, h, m)
      BY <2>1, <3>1 DEF DoneInv, Settled
    <3>3. c.job \in Job
      BY <1>5, <2>1 DEF Made
    <3>4. CASE c.job \in finished'
      BY <1>2, <1>3, <3>2, <3>4 DEF Owed
    <3>5. CASE c.job \notin finished'
      <4>1. c.job \notin finished /\ c.job # job
        BY <1>1, <3>5
      <4>j. PICK j \in Job : j = c.job
        BY <3>3
      <4>2. b \in Thread /\ QueuedOn(j, b) => QueuedOn(j, b)'
        BY <1>1, <4>1, <4>j
      <4>3. /\ proxy[j] = c.p
            /\ ~After(h, m, "join")
            /\ \/ j \in ToSet(futures[c.p]) /\ ~After(h, m, "destroy_proxy")
               \/ /\ b \in Thread /\ parent[c.p] # NULL /\ QueuedOn(j, b)
                  /\ ~(h.pc = "await" /\ CallOf(h).p = c.p)
        BY <3>2, <4>1, <4>j DEF Owed
      <4>. HIDE DEF c
      <4>4. /\ proxy'[j] = c.p
            /\ ~After(h, m, "join")
            /\ \/ j \in ToSet(futures'[c.p]) /\ ~After(h, m, "destroy_proxy")
               \/ /\ b \in Thread /\ parent'[c.p] # NULL /\ QueuedOn(j, b)'
                  /\ ~(h.pc = "await" /\ CallOf(h).p = c.p)
        BY <1>2, <4>2, <4>3
      <4>. QED BY <1>3, <4>j, <4>4 DEF Owed, QueuedOn, c
    <3>. QED BY <3>4, <3>5
  <2>. QED BY <1>3, <2>1 DEF Settled
<1>7. Left'
  <2>. SUFFICES ASSUME NEW r \in finished', NEW m \in DOMAIN Calls(r), Calls(r)[m].call = "do_job",
                       NEW j \in Job, j = Calls(r)[m].job, j \notin finished'
       PROVE  \E u \in Thread : QueuedOn(j, u)' /\ worker'[u] # "exited"
    BY <1>3, <1>5 DEF Left, QueuedOn
  <2>1. j \notin finished /\ j # job
    BY <1>1
  <2>2. CASE r \in finished
    <3>1. PICK u \in Thread : QueuedOn(j, u) /\ worker[u] # "exited"
      BY <2>1, <2>2 DEF DoneInv, Left
    <3>2. QueuedOn(j, u)'
      BY <1>1, <2>1, <3>1
    <3>. QED BY <1>2, <3>1, <3>2
  <2>3. CASE r = job
    <3>1. m \in Nat /\ m < f.ip /\ m \in DOMAIN Calls(f.run) /\ DOMAIN Calls(f.run) = 1 .. Len(Calls(f.run))
          /\ Len(Calls(f.run)) \in Nat /\ f.ip \in Nat
      <4>1. m \in DOMAIN Calls(f.run) /\ f.ip > Len(Calls(f.run)) /\ f \in FrameRec
        BY <1>0, <1>1, <2>3
      <4>2. DOMAIN Calls(f.run) = 1 .. Len(Calls(f.run)) /\ Len(Calls(f.run)) \in Nat
        BY <1>4, ScriptCalls
      <4>3. f.ip \in Nat
        BY <4>1, RecordOf
      <4>. QED BY <4>1, <4>2, <4>3
    <3>2. Made(f, m)
      BY <1>0, <2>3, <3>1 DEF Made
    <3>3. Owed(t, f, m)
      <4>1. Len(stack[t]) \in DOMAIN stack[t] /\ f = stack[t][Len(stack[t])] /\ t \in Actor
        BY <1>1, <1>4, TopFrame
      <4>. QED BY <1>1, <3>1, <3>2, <4>1 DEF DoneInv, Settled
    <3>4. After(f, m, "destroy_proxy")
      <4>1. PICK k \in DOMAIN Calls(f.run) : /\ m < k /\ Calls(f.run)[k].call = "destroy_proxy"
                                             /\ Calls(f.run)[k].p = Calls(f.run)[m].p
        BY <1>0, <1>4, <2>3, <3>1, UsageAfter
      <4>2. k < f.ip
        BY <1>0, <1>1, <3>1, <4>1
      <4>. QED BY <4>1, <4>2 DEF After
    <3>5. QueuedOn(j, t)
      BY <1>0, <2>1, <2>3, <3>3, <3>4 DEF Owed
    <3>6. QueuedOn(j, t)' /\ worker[t] = "check"
      BY <1>1, <2>1, <3>5 DEF DoneInv, Working
    <3>. QED BY <1>2, <3>6
  <2>. QED BY <1>1, <2>2, <2>3
<1>8. Stored'
  <2>. SUFFICES ASSUME NEW j \in Job, proxy[j] # NULL, j \notin finished' PROVE \E u \in Thread : QueuedOn(j, u)'
    BY <1>2 DEF Stored
  <2>1. j # job /\ \E u \in Thread : QueuedOn(j, u)
    BY <1>1 DEF DoneInv, Stored
  <2>. QED BY <1>1, <2>1
<1>9. Target'
  BY <1>1, <1>2, <1>3 DEF DoneInv, Target
<1>10. Working'
  <2>1. \A u \in Thread : stack'[u] # <<>> => stack[u] # <<>>
    BY <1>1, <1>4
  <2>. QED BY <1>2, <2>1 DEF DoneInv, Working
<1>11. \A c \in Client : Top(c)' = Top(c)
  BY <1>1, <1>4 DEF Top
<1>12. Closing' /\ Gone'
  BY <1>2, <1>3, <1>11 DEF DoneInv, Closing, Gone
<1>13. Closed'
  <2>. SUFFICES ASSUME NEW u \in Thread, worker'[u] = "exited" PROVE joining /\ FromJobs(u)'
    BY <1>2 DEF Closed
  <2>1. joining /\ FromJobs(u)
    BY <1>2 DEF DoneInv, Closed
  <2>2. ASSUME NEW c \in Client, NEW k \in DOMAIN Calls(c), Calls(c)[k].call = "do_job"
        PROVE  ~ \E i \in DOMAIN jobs'[u] : jobs'[u][i] = Calls(c)[k].job
    <3>1. PICK j \in Job : j = Calls(c)[k].job
      BY <1>5, <2>2
    <3>2. ~QueuedOn(j, u)
      BY <2>1, <2>2, <3>1 DEF FromJobs
    <3>3. ~QueuedOn(j, u)'
      BY <1>1, <3>2
    <3>. QED BY <3>1, <3>3 DEF QueuedOn
  <2>. QED BY <1>3, <2>1, <2>2 DEF FromJobs, QueuedOn
<1>. QED BY <1>6, <1>7, <1>8, <1>9, <1>10, <1>12, <1>13 DEF DoneInv

Emplacing(f, p) == IF Own(p) THEN NextCall(f) ELSE [f EXCEPT !.pc = "notify"]

\* What the second half of do_job changes.
LEMMA Emplaced ==
  ASSUME PoolInv, NEW a \in Actor, DoJobEmplace(a),
         NEW f, NEW c, NEW j, NEW p, NEW t, NEW g,
         f = Top(a), c = CallOf(f), j = c.job, p = c.p, t = f.to,
         g = Emplacing(f, p)
  PROVE  /\ stack[a] # <<>> /\ f \in FrameRec /\ f.pc = "emplace" /\ f.ip \in Nat
         /\ f.ip \in DOMAIN Calls(f.run) /\ c = Calls(f.run)[f.ip] /\ c.call = "do_job" /\ p \in Proxy /\ j \in Job
         /\ t \in Thread
         /\ Goto(a, g) /\ g \in FrameRec /\ g.run = f.run
         /\ Own(p) => g.ip = f.ip + 1 /\ g.pc = "body"
         /\ ~Own(p) => g.ip = f.ip /\ g.pc = "notify" /\ j \in ToSet(futures'[p])
         /\ \A q \in Proxy : ToSet(futures[q]) \subseteq ToSet(futures'[q])
         /\ proxy'[j] = p /\ \A i \in Job : proxy[i] # NULL => i # j
         /\ \A i \in Job : i # j => proxy'[i] = proxy[i]
         /\ \A u \in Thread, i \in Job : QueuedOn(i, u)' <=> QueuedOn(i, u) \/ (i = j /\ u = t)
<1>1. /\ TypeOK /\ script \in Scripts
  BY DEF PoolInv, PoolTypeOK
<1>2. stack[a] # <<>> /\ Top(a).pc = "emplace"
  BY DEF DoJobEmplace, At
<1>3. f = Top(a) /\ c = CallOf(f) /\ j = c.job /\ p = c.p /\ t = f.to
  OBVIOUS
<1>4. g = IF Own(p) THEN NextCall(f) ELSE [f EXCEPT !.pc = "notify"]
  BY DEF Emplacing
<1>5. /\ f \in FrameRec /\ f.ip \in DOMAIN Calls(f.run) /\ c = Calls(f.run)[f.ip] /\ c.call = "do_job"
      /\ t \in Thread /\ f.pc = "emplace" /\ f.ip \in Nat
  BY <1>2, <1>3, TopFrame, RecordOf DEF InCall, CallOf
<1>6. j \in Job /\ p \in Proxy
  BY <1>1, <1>3, <1>5, Usage
<1>7. /\ jobs' = [jobs EXCEPT ![t] = Append(@, j)] /\ proxy' = [proxy EXCEPT ![j] = p]
      /\ futures' = [futures EXCEPT ![p] = kept(p, j)] /\ Goto(a, g)
  BY <1>3, <1>4 DEF DoJobEmplace
<1>8. /\ jobs \in [Thread -> Seq(Job)] /\ proxy \in [Job -> Proxy \cup {NULL}] /\ futures \in [Proxy -> Seq(Job)]
  BY <1>1 DEF TypeOK
<1>9. /\ g \in FrameRec /\ g.run = f.run
      /\ Own(p) => g.ip = f.ip + 1 /\ g.pc = "body"
      /\ ~Own(p) => g.ip = f.ip /\ g.pc = "notify"
  <2>1. CASE Own(p)
    <3>1. Fields(g, f, "body", f.ip + 1)
      BY <1>4, <1>5, <2>1, NextForm
    <3>. QED BY <2>1, <3>1 DEF Fields
  <2>2. CASE ~Own(p)
    <3>1. Fields(g, f, "notify", f.ip)
      BY <1>4, <1>5, <2>2, PcForm DEF Places
    <3>. QED BY <2>2, <3>1 DEF Fields
  <2>. QED BY <2>1, <2>2
<1>10. /\ \A q \in Proxy : ToSet(futures[q]) \subseteq ToSet(futures'[q])
       /\ ~Own(p) => j \in ToSet(futures'[p])
  <2>1. \A q \in Proxy : q # p => futures'[q] = futures[q]
    BY <1>7, <1>8
  <2>2. futures'[p] = kept(p, j) /\ futures[p] \in Seq(Job)
    BY <1>6, <1>7, <1>8
  <2>3. CASE Own(p)
    <3>1. \A q \in Proxy : futures'[q] = futures[q]
      BY <2>1, <2>2, <2>3 DEF kept
    <3>. QED BY <2>3, <3>1
  <2>4. CASE ~Own(p)
    <3>1. PICK s \in Seq(Job) : s = futures[p]
      BY <2>2
    <3>2. futures'[p] = Append(s, j)
      BY <2>2, <2>4, <3>1 DEF kept
    <3>3. ToSet(s) \subseteq ToSet(Append(s, j)) /\ j \in ToSet(Append(s, j))
      <4>1. /\ DOMAIN Append(s, j) = DOMAIN s \cup {Len(s) + 1} /\ DOMAIN s = 1 .. Len(s)
            /\ Append(s, j)[Len(s) + 1] = j /\ \A i \in 1 .. Len(s) : Append(s, j)[i] = s[i]
        BY <1>6, Appended
      <4>. QED BY <4>1 DEF ToSet
    <3>. QED BY <2>1, <3>1, <3>2, <3>3
  <2>. QED BY <2>3, <2>4
<1>11. proxy[j] = NULL
  BY <1>2, <1>3, NewJob
<1>12. /\ proxy'[j] = p /\ \A i \in Job : proxy[i] # NULL => i # j
       /\ \A i \in Job : i # j => proxy'[i] = proxy[i]
  BY <1>6, <1>7, <1>8, <1>11
<1>13. ASSUME NEW u \in Thread, NEW i \in Job
       PROVE  QueuedOn(i, u)' <=> QueuedOn(i, u) \/ (i = j /\ u = t)
  <2>1. CASE u # t
    <3>1. jobs'[u] = jobs[u]
      BY <1>7, <1>8, <2>1
    <3>. QED BY <2>1, <3>1 DEF QueuedOn
  <2>2. CASE u = t
    <3>1. jobs'[u] = Append(jobs[u], j) /\ jobs[u] \in Seq(Job)
      BY <1>7, <1>8, <2>2
    <3>2. /\ DOMAIN jobs'[u] = DOMAIN jobs[u] \cup {Len(jobs[u]) + 1} /\ DOMAIN jobs[u] = 1 .. Len(jobs[u])
          /\ jobs'[u][Len(jobs[u]) + 1] = j /\ \A k \in 1 .. Len(jobs[u]) : jobs'[u][k] = jobs[u][k]
      BY <1>6, <3>1, Appended
    <3>. QED BY <2>2, <3>2 DEF QueuedOn
  <2>. QED BY <2>1, <2>2
<1>. QED BY <1>2, <1>3, <1>4, <1>5, <1>6, <1>7, <1>9, <1>10, <1>12, <1>13

\* A job that is queued without a future is queued on the caller's own thread,
\* and a thread that has left its loop gets no job from a client any more.
LEMMA EmplaceDone ==
  ASSUME PoolInv, DoneInv, NEW a \in Actor, DoJobEmplace(a), script' = script
  PROVE  DoneInv'
<1>1. PICK f, c, j, p, t, g :
        /\ f = Top(a) /\ c = CallOf(f) /\ j = c.job /\ p = c.p /\ t = f.to
        /\ g = Emplacing(f, p)
  OBVIOUS
<1>2. /\ stack[a] # <<>> /\ f \in FrameRec /\ f.pc = "emplace" /\ f.ip \in Nat
      /\ f.ip \in DOMAIN Calls(f.run) /\ c = Calls(f.run)[f.ip] /\ c.call = "do_job" /\ p \in Proxy /\ j \in Job
      /\ t \in Thread
      /\ Goto(a, g) /\ g \in FrameRec /\ g.run = f.run
      /\ Own(p) => g.ip = f.ip + 1 /\ g.pc = "body"
      /\ ~Own(p) => g.ip = f.ip /\ g.pc = "notify" /\ j \in ToSet(futures'[p])
      /\ \A q \in Proxy : ToSet(futures[q]) \subseteq ToSet(futures'[q])
      /\ proxy'[j] = p /\ \A i \in Job : proxy[i] # NULL => i # j
      /\ \A i \in Job : i # j => proxy'[i] = proxy[i]
      /\ \A u \in Thread, i \in Job : QueuedOn(i, u)' <=> QueuedOn(i, u) \/ (i = j /\ u = t)
  <2>1. /\ stack[a] # <<>> /\ f \in FrameRec /\ f.pc = "emplace" /\ f.ip \in Nat
        /\ f.ip \in DOMAIN Calls(f.run) /\ c = Calls(f.run)[f.ip] /\ c.call = "do_job" /\ p \in Proxy /\ j \in Job
        /\ t \in Thread
    BY <1>1, Emplaced
  <2>2. /\ Goto(a, g) /\ g \in FrameRec /\ g.run = f.run
        /\ Own(p) => g.ip = f.ip + 1 /\ g.pc = "body"
    BY <1>1, Emplaced
  <2>3. ~Own(p) => g.ip = f.ip /\ g.pc = "notify" /\ j \in ToSet(futures'[p])
    BY <1>1, Emplaced
  <2>4. \A q \in Proxy : ToSet(futures[q]) \subseteq ToSet(futures'[q])
    BY <1>1, Emplaced
  <2>5. /\ proxy'[j] = p /\ \A i \in Job : proxy[i] # NULL => i # j
        /\ \A i \in Job : i # j => proxy'[i] = proxy[i]
    BY <1>1, Emplaced
  <2>6. \A u \in Thread, i \in Job : QueuedOn(i, u)' <=> QueuedOn(i, u) \/ (i = j /\ u = t)
    BY <1>1, Emplaced
  <2>. QED BY <2>1, <2>2, <2>3, <2>4, <2>5, <2>6
<1>3. UNCHANGED <<script, finished, parent, threads, next_thread, worker, joining>>
  BY DEF DoJobEmplace
<1>4. /\ \A r : Calls(r)' = Calls(r)
      /\ \A h : CallOf(h)' = CallOf(h)
      /\ \A h, m, name : After(h, m, name)' = After(h, m, name)
      /\ \A h, m : Made(h, m)' = Made(h, m)
  BY <1>3 DEF Calls, CallOf, After, Made
<1>5. script \in Scripts /\ Thread \subseteq Actor /\ Client \subseteq Actor /\ Job \cap Actor = {} /\ NULL \notin Proxy
  BY ThreadPoolAssumption DEF PoolInv, PoolTypeOK, Actor
<1>6. \A r : \A m \in DOMAIN Calls(r) : Calls(r)[m].call = "do_job" => Calls(r)[m].job \in Job /\ Calls(r)[m].p \in Proxy
  BY <1>5, Usage
<1>7. g.ip \in Nat /\ (g.ip = f.ip \/ g.ip = f.ip + 1)
  BY <1>2, RecordOf
<1>8. Len(stack[a]) \in DOMAIN stack[a] /\ f = stack[a][Len(stack[a])]
  BY <1>1, <1>2, TopFrame
<1>9. f.to = threads[p][next_thread[p] + 1]
  <2>1. Target
    BY DEF DoneInv
  <2>2. f.to = threads[CallOf(f).p][next_thread[CallOf(f).p] + 1]
    BY <1>2, <1>8, <2>1 DEF Target
  <2>. QED BY <1>1, <2>2
<1>10. Own(p) => a \in Thread /\ t = a /\ parent[p] # NULL
  <2>. SUFFICES ASSUME Own(p) PROVE a \in Thread /\ t = a /\ parent[p] # NULL
    OBVIOUS
  <2>1. parent[p] # NULL /\ next_thread[p] = 0
    BY DEF Own, is_top_level
  <2>2. (a \in Thread => threads[p][1] = a) /\ (a \in Client => parent[p] = NULL)
    <3>1. Top(a).ip \in DOMAIN Calls(Top(a).run) /\ CallOf(Top(a)).call \in {"do_job", "join"} /\ CallOf(Top(a)).p = p
      BY <1>1, <1>2
    <3>. QED BY <1>2, <3>1, CallFacts
  <2>3. a \in Thread
    BY <2>1, <2>2 DEF Actor
  <2>. QED BY <1>1, <1>9, <2>1, <2>2, <2>3
<1>11. ASSUME NEW b \in Actor, NEW h \in FrameRec, NEW m \in Nat, m \in DOMAIN Calls(h.run),
              Calls(h.run)[m].call = "do_job", NEW k \in FrameRec, k.run = h.run, Owed(b, h, m),
              \A name \in {"join", "destroy_proxy"} : After(k, m, name) => After(h, m, name),
              k.pc = "await" => k = h
       PROVE  Owed(b, k, m)'
  <2>1. PICK d, i, q : d = Calls(h.run)[m] /\ i = d.job /\ q = d.p
    OBVIOUS
  <2>2. i \in Job /\ q \in Proxy
    BY <1>6, <1>11, <2>1
  <2>3. proxy[i] = q /\ i # j /\ proxy'[i] = q
    BY <1>2, <1>5, <1>11, <2>1, <2>2 DEF Owed
  <2>4. \/ i \in finished
        \/ /\ ~After(h, m, "join")
           /\ \/ i \in ToSet(futures[q]) /\ ~After(h, m, "destroy_proxy")
              \/ b \in Thread /\ parent[q] # NULL /\ QueuedOn(i, b) /\ ~(h.pc = "await" /\ CallOf(h).p = q)
    BY <1>11, <2>1 DEF Owed
  <2>5. \/ i \in finished
        \/ /\ ~After(k, m, "join")
           /\ \/ i \in ToSet(futures'[q]) /\ ~After(k, m, "destroy_proxy")
              \/ b \in Thread /\ parent[q] # NULL /\ QueuedOn(i, b)' /\ ~(k.pc = "await" /\ CallOf(k).p = q)
    BY <1>2, <1>11, <2>2, <2>4
  <2>6. \A u : (\E e \in DOMAIN jobs'[u] : jobs'[u][e] = i) <=> QueuedOn(i, u)'
    BY DEF QueuedOn
  <2>. QED BY <1>3, <1>4, <1>11, <2>1, <2>3, <2>5, <2>6 DEF Owed, QueuedOn
<1>12. Settled'
  <2>1. ASSUME NEW b \in Actor, NEW i \in DOMAIN stack'[b], NEW h \in FrameRec, NEW m \in Nat,
               h = stack'[b][i], Made(h, m)
        PROVE  Owed(b, h, m)'
    <3>1. i \in DOMAIN stack[b] /\ stack[b][i] \in FrameRec
      BY <1>2, <2>1, FrameOf
    <3>2. m \in DOMAIN Calls(h.run) /\ Calls(h.run)[m].call = "do_job"
      BY <2>1 DEF Made
    <3>3. CASE h = stack[b][i]
      <4>1. Owed(b, h, m)
        BY <2>1, <3>1, <3>3 DEF DoneInv, Settled
      <4>. QED BY <1>11, <3>2, <4>1
    <3>4. CASE b = a /\ h = g /\ m < f.ip
      <4>1. Made(f, m)
        BY <1>2, <3>2, <3>4 DEF Made
      <4>2. Owed(a, f, m)
        BY <1>2, <1>8, <4>1 DEF DoneInv, Settled
      <4>3. \A name \in {"join", "destroy_proxy"} : After(g, m, name) => After(f, m, name)
        <5>. SUFFICES ASSUME NEW name \in {"join", "destroy_proxy"}, NEW k \in DOMAIN Calls(f.run), m < k, k < g.ip,
                             Calls(f.run)[k].call = name, Calls(f.run)[k].p = Calls(f.run)[m].p
             PROVE  After(f, m, name)
          BY <1>2 DEF After
        <5>1. k # f.ip /\ k \in Nat
          BY <1>2, <1>5, ScriptCalls
        <5>2. k < f.ip
          BY <1>2, <1>7, <5>1
        <5>. QED BY <5>2 DEF After
      <4>. QED BY <1>2, <1>11, <3>2, <3>4, <4>2, <4>3
    <3>5. CASE b = a /\ h = g /\ ~(m < f.ip)
      <4>1. m = f.ip
        BY <1>2, <1>7, <2>1, <3>5 DEF Made
      <4>2. ASSUME NEW name, After(g, m, name) PROVE FALSE
        <5>1. PICK k \in DOMAIN Calls(g.run) : m < k /\ k < g.ip
          BY <4>2 DEF After
        <5>2. k \in Nat
          BY <1>5, ScriptCalls
        <5>. QED BY <1>2, <1>7, <4>1, <5>1, <5>2
      <4>3. Calls(g.run)[m] = c
        BY <1>2, <4>1
      <4>4. CASE Own(p)
        <5>1. QueuedOn(j, a)' /\ parent'[p] # NULL /\ g.pc # "await" /\ proxy'[j] = p /\ a \in Thread
          BY <1>2, <1>3, <1>10, <4>4
        <5>2. \E e \in DOMAIN jobs'[a] : jobs'[a][e] = j
          BY <5>1 DEF QueuedOn
        <5>. QED BY <1>1, <1>4, <3>5, <4>2, <4>3, <5>1, <5>2 DEF Owed, QueuedOn
      <4>5. CASE ~Own(p)
        <5>1. j \in ToSet(futures'[p]) /\ proxy'[j] = p
          BY <1>2, <4>5
        <5>. QED BY <1>1, <1>4, <3>5, <4>2, <4>3, <5>1 DEF Owed
      <4>. QED BY <4>4, <4>5
    <3>. QED BY <1>2, <2>1, <3>3, <3>4, <3>5, FrameOf
  <2>. QED BY <1>4, <2>1 DEF Settled
<1>13. Left'
  <2>. SUFFICES ASSUME NEW r \in finished, NEW m \in DOMAIN Calls(r), Calls(r)[m].call = "do_job",
                       NEW i \in Job, i = Calls(r)[m].job, i \notin finished
       PROVE  \E u \in Thread : QueuedOn(i, u)' /\ worker[u] # "exited"
    BY <1>3, <1>4, <1>6 DEF Left, QueuedOn
  <2>1. PICK u \in Thread : QueuedOn(i, u) /\ worker[u] # "exited"
    BY DEF DoneInv, Left
  <2>. QED BY <1>2, <2>1
<1>14. Stored'
  <2>. SUFFICES ASSUME NEW i \in Job, proxy'[i] # NULL, i \notin finished PROVE \E u \in Thread : QueuedOn(i, u)'
    BY <1>3 DEF Stored
  <2>1. CASE i = j
    BY <1>2, <2>1
  <2>2. CASE i # j
    <3>1. PICK u \in Thread : QueuedOn(i, u)
      BY <1>2, <2>2 DEF DoneInv, Stored
    <3>. QED BY <1>2, <3>1
  <2>. QED BY <2>1, <2>2
<1>15. Target'
  <2>. SUFFICES ASSUME NEW b \in Actor, NEW i \in DOMAIN stack'[b], NEW h \in FrameRec, h = stack'[b][i], h.pc = "emplace"
       PROVE  h.to = threads[CallOf(h).p][next_thread[CallOf(h).p] + 1]
    BY <1>3, <1>4 DEF Target
  <2>1. h # g
    BY <1>2
  <2>2. i \in DOMAIN stack[b] /\ h = stack[b][i]
    BY <1>2, <2>1, FrameOf
  <2>3. Target
    BY DEF DoneInv
  <2>. QED BY <2>2, <2>3 DEF Target
<1>16. Working'
  <2>1. \A u \in Thread : stack'[u] # <<>> => stack[u] # <<>>
    BY <1>2, <1>5, GotoStack
  <2>. QED BY <1>3, <2>1 DEF DoneInv, Working
<1>17. stack[a] # <<>> /\ Goto(a, g) /\ g \in FrameRec /\ f = Top(a) /\ f.ip \in Nat /\ g.ip \in Nat
       /\ (g.ip = f.ip \/ g.ip = f.ip + 1)
  BY <1>1, <1>2, <1>7
<1>18. \A b \in Client : Top(b)' = IF b = a THEN g ELSE Top(b)
  BY <1>5, <1>17, TopAfter
<1>19. \A b \in Client : Top(b) \in FrameRec /\ Top(b).run = b
  <2>. TAKE b \in Client
  <2>1. stack[b] # <<>> /\ b \in Actor
    <3>1. ClientFrame(b)
      BY DEF PoolInv, Frames
    <3>. QED BY <1>5, <3>1 DEF ClientFrame
  <2>. QED BY <2>1, TopFrame
<1>20. \A r : DOMAIN Calls(r) \subseteq Nat
  BY <1>5, ScriptCalls
<1>21. /\ f.ip \in DOMAIN Calls(f.run) /\ Calls(f.run)[f.ip].call = "do_job" /\ Calls(f.run)[f.ip].job = j
  BY <1>1, <1>2
<1>22. Closing /\ Gone /\ Closed
  BY DEF DoneInv
<1>23. Closing'
  <2>. SUFFICES ASSUME joining, NEW b \in Client, NEW h \in FrameRec, h = Top(b)',
                       NEW k \in DOMAIN Calls(b), Calls(b)[k].call = "do_job"
       PROVE  k < h.ip
    BY <1>3, <1>4 DEF Closing
  <2>1. k < Top(b).ip /\ k \in Nat
    BY <1>19, <1>20, <1>22 DEF Closing
  <2>2. CASE b = a
    <3>1. h = g /\ k < f.ip
      BY <1>17, <1>18, <2>1, <2>2
    <3>. QED BY <1>17, <2>1, <3>1
  <2>. QED BY <1>18, <2>1, <2>2
<1>24. Gone'
  <2>. SUFFICES ASSUME NEW b \in Client, NEW h \in FrameRec, h = Top(b)',
                       NEW k \in DOMAIN Calls(b), k < h.ip, Calls(b)[k].call = "destroy_pool", NEW u \in Thread
       PROVE  worker[u] = "exited"
    BY <1>3, <1>4 DEF Gone
  <2>1. k < Top(b).ip
    <3>1. CASE b # a
      BY <1>18, <3>1
    <3>2. CASE b = a
      <4>1. h = g /\ f = Top(b) /\ f.run = b /\ k \in Nat
        BY <1>17, <1>18, <1>19, <1>20, <3>2
      <4>2. k # f.ip
        BY <1>21, <4>1
      <4>. QED BY <1>17, <4>1, <4>2
    <3>. QED BY <3>1, <3>2
  <2>. QED BY <1>19, <1>22, <2>1 DEF Gone
<1>25. Closed'
  <2>. SUFFICES ASSUME NEW u \in Thread, worker[u] = "exited", NEW b \in Client, NEW k \in DOMAIN Calls(b),
                       Calls(b)[k].call = "do_job", NEW i \in Job, i = Calls(b)[k].job
       PROVE  ~QueuedOn(i, u)'
    BY <1>3, <1>4, <1>6, <1>22 DEF Closed, FromJobs, QueuedOn
  <2>1. joining /\ ~QueuedOn(i, u)
    BY <1>22 DEF Closed, FromJobs
  <2>2. i # j
    <3>. SUFFICES ASSUME i = j PROVE FALSE
      OBVIOUS
    <3>0. script \in Scripts /\ Calls(b)[k].job = Calls(f.run)[f.ip].job
      BY <1>5, <1>21
    <3>1. b = f.run /\ k = f.ip
      BY <1>21, <3>0, Usage
    <3>2. f = Top(b)
      <4>1. a \notin Thread
        BY <1>5, <1>17, <3>1, TopFrame
      <4>. QED BY <1>17, <3>1, <4>1, TopFrame DEF Actor
    <3>3. k < Top(b).ip
      BY <1>19, <1>22, <2>1 DEF Closing
    <3>. QED BY <1>17, <3>1, <3>2, <3>3
  <2>. QED BY <1>2, <2>1, <2>2
<1>. QED BY <1>12, <1>13, <1>14, <1>15, <1>16, <1>23, <1>24, <1>25 DEF DoneInv

\* A step that neither waits in join() nor leaves a call that has waited.
LEMMA PlainDone ==
  ASSUME PoolInv, DoneInv, NEW a \in Actor, stack[a] # <<>>, NEW g, NEW pc, NEW ip, Goto(a, g),
         Fields(g, Top(a), pc, ip), Top(a).ip \in DOMAIN Calls(Top(a).run),
         NEW p, p = CallOf(Top(a)).p, NEW name, name = CallOf(Top(a)).call,
         \/ ip = Top(a).ip /\ pc \notin {"notify", "await"}
         \/ /\ ip = Top(a).ip + 1 /\ pc = "body" /\ name \notin {"join", "destroy_proxy"}
            /\ name = "do_job" => Top(a).pc = "notify"
            /\ name = "destroy_pool" => \A t \in Thread : worker[t] = "exited",
         UNCHANGED <<script, jobs, proxy, finished, futures>>, OthersKept(p),
         pc = "emplace" => g.to = threads'[p][next_thread'[p] + 1],
         WorkersKept, joining => joining', joining' = joining \/ Closing'
  PROVE  DoneInv'
<1>1. g \in FrameRec /\ g.run = Top(a).run /\ g.pc = pc /\ g.ip = ip
  BY DEF Fields
<1>2. Top(a).ip \in Nat
  BY TopFrame, RecordOf
<1>3. Proceeds(Top(a), g)
  BY <1>1, <1>2 DEF Proceeds
<1>4. Respects(a, Top(a), g, p)
  <2>1. g.pc # "await" /\ (g.ip = Top(a).ip + 1 => CallOf(Top(a)).call \notin {"join", "destroy_proxy"})
    BY <1>1, <1>2
  <2>. QED BY <2>1 DEF Respects
<1>5. g.ip = Top(a).ip + 1 /\ CallOf(Top(a)).call = "destroy_pool" => \A t \in Thread : worker[t] = "exited"
  BY <1>1, <1>2
<1>6. g.pc = "emplace" => g.to = threads'[p][next_thread'[p] + 1]
  BY <1>1
<1>7. UNCHANGED <<script, jobs, proxy, finished>>
  OBVIOUS
<1>. QED BY <1>1, <1>3, <1>4, <1>5, <1>6, <1>7, GotoDone

\* The last step of a call that has not waited for jobs.
LEMMA CallDone ==
  ASSUME PoolInv, DoneInv, NEW a \in Actor, stack[a] # <<>>, NEW g, g = NextCall(Top(a)), Goto(a, g),
         Top(a).ip \in DOMAIN Calls(Top(a).run),
         NEW p, p = CallOf(Top(a)).p, NEW name, name = CallOf(Top(a)).call,
         name # "join", name # "destroy_proxy", name = "do_job" => Top(a).pc = "notify",
         name = "destroy_pool" => \A t \in Thread : worker[t] = "exited",
         UNCHANGED <<script, jobs, proxy, finished, futures, joining>>, OthersKept(p), WorkersKept
  PROVE  DoneInv'
<1>1. Top(a) \in FrameRec
  BY TopFrame
<1>2. PICK pc, ip : pc = "body" /\ ip = Top(a).ip + 1
  OBVIOUS
<1>3. Fields(g, Top(a), pc, ip)
  BY <1>1, <1>2, NextForm
<1>4. pc # "emplace" /\ name \notin {"join", "destroy_proxy"} /\ (joining => joining')
  BY <1>2
<1>. QED BY <1>2, <1>3, <1>4, PlainDone

\* job_of misses no job of the proxy.
LEMMA NoJobOf ==
  ASSUME NEW t \in Thread, NEW p, jobs[t] \in Seq(Job), job_of(p, t) = 0, NEW j, QueuedOn(j, t)
  PROVE  proxy[j] # p
<1>. DEFINE I == {i \in 1 .. Len(jobs[t]) : proxy[jobs[t][i]] = p}
<1>. SUFFICES ASSUME proxy[j] = p PROVE FALSE
  OBVIOUS
<1>1. I # {} /\ I \in SUBSET Nat /\ 0 \notin I
  BY DEF QueuedOn
<1>2. job_of(p, t) = Min(I)
  BY <1>1 DEF job_of, SelectInSeq
<1>3. PICK m \in I : \A n \in I : m <= n
  <2>. HIDE DEF I
  <2>. QED BY <1>1, LeastOfSet
<1>4. Min(I) \in I
  BY <1>3 DEF Min
<1>. HIDE DEF I
<1>. QED BY <1>1, <1>2, <1>4

LEMMA WokenKept ==
  ASSUME PoolInv, NEW t, Woken(t)
  PROVE  WorkersKept
<1>1. worker \in [Thread -> {"check", "blocking", "wait", "exited"}]
  BY DEF PoolInv, PoolTypeOK, TypeOK
<1>. QED BY <1>1 DEF Woken, WorkersKept

\* run_job starts a job on a thread that is in its loop.
LEMMA StartDone ==
  ASSUME PoolInv, DoneInv, NEW t \in Thread, NEW i \in DOMAIN jobs[t], worker[t] = "check",
         RunJob(t, i), UNCHANGED <<script, proxyVars, worker, joining>>
  PROVE  DoneInv'
<1>1. PICK g, job, old : /\ g = [Frame(job) EXCEPT !.index = i, !.old = old]
                         /\ job = jobs[t][i] /\ old = running_job[t]
  OBVIOUS
<1>2. jobs \in [Thread -> Seq(Job)] /\ running_job \in [Thread -> Nat]
  BY DEF PoolInv, PoolTypeOK, TypeOK
<1>3. job \in Job /\ old \in Nat /\ i \in Nat
  BY <1>1, <1>2
<1>4. g \in FrameRec /\ g.ip = 1 /\ g.pc = "body"
  <2>1. /\ g.run = job /\ g.pc = "body" /\ g.ip = 1 /\ g.index = i /\ g.old = old /\ g.to = 0
        /\ g = [run |-> g.run, pc |-> g.pc, ip |-> g.ip, index |-> g.index, old |-> g.old, to |-> g.to]
    BY <1>1 DEF Frame
  <2>. QED BY <1>3, <2>1 DEF FrameRec, Places
<1>5. stack' = [stack EXCEPT ![t] = Append(@, g)]
  BY <1>1 DEF RunJob
<1>6. UNCHANGED <<script, jobs, proxy, finished, proxyVars, worker, joining>>
  BY DEF RunJob
<1>. QED BY <1>4, <1>5, <1>6, RunDone

LEMMA CallStepDone ==
  ASSUME PoolInv, DoneInv, NEW a \in Actor, CallStep(a), script' = script
  PROVE  DoneInv'
<1>1. TypeOK /\ script \in Scripts
  BY DEF PoolInv, PoolTypeOK
<1>2. stack[a] # <<>> => /\ Top(a) \in FrameRec /\ InCall(Top(a)) /\ Top(a).ip \in Nat
                         /\ Len(stack[a]) \in DOMAIN stack[a] /\ Top(a) = stack[a][Len(stack[a])]
  BY TopFrame, RecordOf
<1>3. PICK p, name : p = CallOf(Top(a)).p /\ name = CallOf(Top(a)).call
  OBVIOUS
<1>4. UNCHANGED worker => WorkersKept
  BY DEF WorkersKept
<1>5. UNCHANGED <<futures, parent, threads, next_thread>> => OthersKept(p)
  BY DEF OthersKept
<1>6. CASE AllocateTopLevel(a) \/ AllocateNested(a)
  <2>1. PICK g : g = NextCall(Top(a))
    OBVIOUS
  <2>2. /\ AtCall(a, "allocate") /\ Goto(a, g)
        /\ UNCHANGED <<script, jobs, proxy, finished, next_thread, futures, worker, joining>>
    BY <1>6, <2>1 DEF AllocateTopLevel, AllocateNested, jobVars
  <2>3. /\ stack[a] # <<>> /\ Top(a).ip \in DOMAIN Calls(Top(a).run) /\ name = "allocate" /\ p \in Proxy
    BY <1>3, <2>2, AtCallFacts
  <2>5. OthersKept(p)
    <3>1. \A q \in Proxy : q # p => threads'[q] = threads[q]
      BY <1>1, <1>3, <1>6 DEF AllocateTopLevel, AllocateNested, TypeOK
    <3>2. CASE AllocateTopLevel(a)
      BY <2>2, <3>1, <3>2 DEF OthersKept, AllocateTopLevel
    <3>3. CASE AllocateNested(a)
      <4>1. PICK par : par = proxy[jobs[a][running_job[a]]]
        OBVIOUS
      <4>2. parent' = [parent EXCEPT ![p] = par] /\ a \in Thread
        BY <1>3, <3>3, <4>1 DEF AllocateNested
      <4>3. par # NULL
        <5>1. running_job[a] \in DOMAIN jobs[a]
          BY <2>3, <4>2, TopFrame
        <5>. QED BY <4>1, <4>2, <5>1 DEF PoolInv, Queues
      <4>4. \A q \in Proxy : parent'[q] = IF q = p THEN par ELSE parent[q]
        BY <1>1, <4>2 DEF TypeOK
      <4>. QED BY <2>2, <3>1, <4>3, <4>4 DEF OthersKept
    <3>. QED BY <1>6, <3>2, <3>3
  <2>6. WorkersKept
    BY <1>4, <2>2
  <2>. QED BY <1>3, <2>1, <2>2, <2>3, <2>5, <2>6, CallDone
<1>7. CASE AllocateCorrupted(a)
  BY <1>7, QuietDone DEF AllocateCorrupted, jobVars
<1>8. CASE DoJob(a)
  <2>1. PICK k, t, g : /\ k = next_thread_of(p) /\ t = threads[p][k + 1]
                       /\ g = [Top(a) EXCEPT !.pc = "emplace", !.to = t]
    OBVIOUS
  <2>2. /\ AtCall(a, "do_job") /\ next_thread' = [next_thread EXCEPT ![p] = k] /\ Goto(a, g)
        /\ UNCHANGED <<jobs, proxy, finished, parent, threads, futures, worker, joining>>
    BY <1>3, <1>8, <2>1 DEF DoJob, jobVars
  <2>3. stack[a] # <<>> /\ Top(a).ip \in DOMAIN Calls(Top(a).run) /\ name = "do_job" /\ p \in Proxy
    BY <1>3, <2>2, AtCallFacts
  <2>4. next_thread \in [Proxy -> Nat]
    BY <1>1 DEF TypeOK
  <2>5. next_thread'[p] = k /\ \A q \in Proxy : q # p => next_thread'[q] = next_thread[q]
    BY <2>2, <2>3, <2>4
  <2>6. t \in Nat
    <3>1. threads[p] \in Seq(Thread) /\ threads[p] # <<>>
      BY <1>3, <2>3, CallFacts
    <3>2. Len(threads[p]) \in Nat /\ Len(threads[p]) > 0 /\ next_thread[p] \in Nat
      BY <2>3, <2>4, <3>1, EmptySeq
    <3>3. k + 1 \in 1 .. Len(threads[p])
      BY <2>1, <3>2 DEF next_thread_of
    <3>4. t \in Thread
      BY <2>1, <3>1, <3>3
    <3>. QED BY <3>4, ThreadPoolAssumption DEF Thread
  <2>7. Fields(g, Top(a), "emplace", Top(a).ip) /\ g.to = t
    <3>1. PICK x \in Places : x = "emplace"
      BY DEF Places
    <3>2. g = PcTo(Top(a), x, t)
      BY <2>1, <3>1 DEF PcTo
    <3>3. Fields(g, Top(a), x, Top(a).ip) /\ g.to = t
      BY <1>2, <2>3, <2>6, <3>2, PcToForm
    <3>. QED BY <3>1, <3>3, Zenon
  <2>8. g.to = threads'[p][next_thread'[p] + 1]
    BY <2>1, <2>2, <2>5, <2>7
  <2>9. OthersKept(p) /\ WorkersKept
    BY <1>4, <2>2, <2>5 DEF OthersKept
  <2>. QED BY <1>3, <2>2, <2>3, <2>7, <2>8, <2>9, PlainDone
<1>9. CASE DoJobEmplace(a)
  BY <1>9, EmplaceDone
<1>10. CASE DoJobNotify(a)
  <2>1. PICK g : g = NextCall(Top(a))
    OBVIOUS
  <2>2. /\ stack[a] # <<>> /\ Top(a).pc = "notify" /\ Woken(Top(a).to) /\ Goto(a, g)
        /\ UNCHANGED <<script, jobs, proxy, finished, parent, threads, next_thread, futures, joining>>
    BY <1>10, <2>1 DEF DoJobNotify, At, proxyVars, jobVars
  <2>3. Top(a).ip \in DOMAIN Calls(Top(a).run) /\ name = "do_job"
    BY <1>2, <1>3, <2>2 DEF InCall
  <2>5. OthersKept(p) /\ WorkersKept
    BY <1>5, <2>2, WokenKept
  <2>. QED BY <1>3, <2>1, <2>2, <2>3, <2>5, CallDone
<1>11. CASE Join(a)
  <2>1. PICK x, g : x = (IF helps(p) THEN "help" ELSE "await") /\ g = [Top(a) EXCEPT !.pc = x]
    OBVIOUS
  <2>2. AtCall(a, "join") /\ Goto(a, g) /\ UNCHANGED <<jobVars, proxyVars, worker, joining>>
    BY <1>3, <1>11, <2>1 DEF Join
  <2>3. stack[a] # <<>> /\ Top(a).ip \in DOMAIN Calls(Top(a).run) /\ name = "join"
    BY <1>3, <2>2, AtCallFacts
  <2>4. x \in Places /\ x \in {"help", "await"} /\ (x = "await" => parent[p] = NULL)
    BY <2>1 DEF Places, helps, is_top_level
  <2>5. Fields(g, Top(a), x, Top(a).ip)
    BY <1>2, <2>1, <2>3, <2>4, PcForm
  <2>6. UNCHANGED <<script, jobs, proxy, finished, futures, parent, threads, next_thread, worker, joining>>
    BY <2>2 DEF jobVars, proxyVars
  <2>7. OthersKept(p) /\ WorkersKept
    BY <1>4, <1>5, <2>6
  <2>8. /\ g \in FrameRec /\ Proceeds(Top(a), g) /\ g.pc # "emplace" /\ ~(g.ip = Top(a).ip + 1)
        /\ g.pc = "await" => parent[p] = NULL
    BY <1>2, <2>3, <2>4, <2>5 DEF Fields, Proceeds
  <2>9. Respects(a, Top(a), g, p)
    BY <2>6, <2>8 DEF Respects
  <2>. QED BY <1>3, <2>2, <2>3, <2>6, <2>7, <2>8, <2>9, GotoDone
<1>12. CASE At(a, "help") /\ (JoinHelp(a) \/ JoinHelped(a))
  <2>1. stack[a] # <<>> /\ Top(a).pc = "help"
    BY <1>12 DEF At
  <2>2. a \in Thread /\ Top(a).ip \in DOMAIN Calls(Top(a).run) /\ name = "join"
    BY <1>2, <1>3, <2>1, TopFrame DEF InCall, Actor
  <2>3. threads[p][1] = a
    BY <1>3, <2>1, <2>2, CallFacts
  <2>4. CASE JoinHelp(a)
    <3>1. PICK i : i = job_of(p, a)
      OBVIOUS
    <3>2. i # 0 /\ RunJob(a, i) /\ UNCHANGED <<script, proxyVars, worker, joining>>
      BY <1>3, <2>3, <2>4, <3>1 DEF JoinHelp
    <3>3. jobs[a] \in Seq(Job)
      BY <1>1, <2>2 DEF TypeOK
    <3>4. i \in DOMAIN jobs[a]
      BY <2>2, <3>1, <3>2, <3>3, JobOf
    <3>5. worker[a] = "check"
      BY <2>1, <2>2 DEF DoneInv, Working
    <3>. QED BY <2>2, <3>2, <3>4, <3>5, StartDone
  <2>5. CASE JoinHelped(a)
    <3>1. PICK g : g = [Top(a) EXCEPT !.pc = "await"]
      OBVIOUS
    <3>2. job_of(p, a) = 0 /\ Goto(a, g) /\ UNCHANGED <<jobVars, proxyVars, worker, joining>>
      BY <1>3, <2>3, <2>5, <3>1 DEF JoinHelped
    <3>3. Fields(g, Top(a), "await", Top(a).ip)
      <4>1. "await" \in Places
        BY DEF Places
      <4>. QED BY <1>2, <2>1, <3>1, <4>1, PcForm
    <3>4. UNCHANGED <<script, jobs, proxy, finished, futures, parent, threads, next_thread, worker, joining>>
      BY <3>2 DEF jobVars, proxyVars
    <3>5. OthersKept(p) /\ WorkersKept
      BY <1>4, <1>5, <3>4
    <3>6. g \in FrameRec /\ Proceeds(Top(a), g) /\ g.pc # "emplace" /\ ~(g.ip = Top(a).ip + 1)
      BY <1>2, <2>1, <3>3 DEF Fields, Proceeds
    <3>7. \A j : QueuedOn(j, a) => proxy[j] # p
      <4>1. jobs[a] \in Seq(Job)
        BY <1>1, <2>2 DEF TypeOK
      <4>. QED BY <2>2, <3>2, <4>1, NoJobOf
    <3>8. Respects(a, Top(a), g, p)
      BY <3>4, <3>6, <3>7 DEF Respects
    <3>. QED BY <1>3, <2>1, <2>2, <3>2, <3>4, <3>5, <3>6, <3>8, GotoDone
  <2>. QED BY <1>12, <2>4, <2>5
<1>13. ASSUME NEW g, g = NextCall(Top(a)), Goto(a, g), stack[a] # <<>>, Top(a).ip \in DOMAIN Calls(Top(a).run),
              name \in {"join", "destroy_proxy"},
              UNCHANGED <<jobs, proxy, finished, worker, joining>>, OthersKept(p), Respects(a, Top(a), g, p)
       PROVE  DoneInv'
  <2>1. Fields(g, Top(a), "body", Top(a).ip + 1)
    BY <1>2, <1>13, NextForm
  <2>2. g \in FrameRec /\ Proceeds(Top(a), g) /\ g.pc # "emplace"
    BY <1>3, <1>13, <2>1 DEF Fields, Proceeds
  <2>3. CallOf(Top(a)).call # "destroy_pool"
    BY <1>3, <1>13
  <2>4. WorkersKept /\ UNCHANGED <<script, jobs, proxy, finished, joining>>
    BY <1>4, <1>13
  <2>. QED BY <1>3, <1>13, <2>2, <2>3, <2>4, GotoDone
<1>14. CASE JoinWait(a)
  <2>1. PICK g : g = NextCall(Top(a))
    OBVIOUS
  <2>2. /\ stack[a] # <<>> /\ Top(a).pc = "await" /\ Goto(a, g) /\ futures' = [futures EXCEPT ![p] = <<>>]
        /\ ToSet(futures[p]) \subseteq finished
        /\ UNCHANGED <<jobs, proxy, finished, parent, threads, next_thread, worker, joining>>
    BY <1>3, <1>14, <2>1 DEF JoinWait, At, jobVars
  <2>3. Top(a).ip \in DOMAIN Calls(Top(a).run) /\ name = "join"
    BY <1>2, <1>3, <2>2 DEF InCall
  <2>4. OthersKept(p)
    <3>1. \A q \in Proxy : q # p => futures'[q] = futures[q]
      BY <1>1, <2>2 DEF TypeOK
    <3>. QED BY <2>2, <3>1 DEF OthersKept
  <2>5. Respects(a, Top(a), g, p)
    <3>. SUFFICES ASSUME NEW m \in Nat, Made(Top(a), m), Calls(Top(a).run)[m].p = p
         PROVE  Calls(Top(a).run)[m].job \in finished
      BY DEF Respects
    <3>1. Owed(a, Top(a), m)
      BY <1>2, <2>2 DEF DoneInv, Settled
    <3>. QED BY <1>3, <2>2, <3>1 DEF Owed
  <2>. QED BY <2>1, <2>2, <2>3, <2>4, <2>5, <1>13
<1>15. CASE DestroyProxy(a)
  <2>1. PICK g : g = NextCall(Top(a))
    OBVIOUS
  <2>2. AtCall(a, "destroy_proxy") /\ UNCHANGED <<jobVars, parent, next_thread, futures, worker, joining>>
    BY <1>15 DEF DestroyProxy
  <2>3. stack[a] # <<>> /\ Top(a).ip \in DOMAIN Calls(Top(a).run) /\ name = "destroy_proxy"
    BY <1>3, <2>2, AtCallFacts
  <2>4. UNCHANGED <<script, jobs, proxy, finished, futures, worker, joining>>
    BY <2>2 DEF jobVars
  <2>5. CASE futures[p] # <<>>
    <3>1. UNCHANGED <<stack, threads>>
      BY <1>3, <1>15, <2>5 DEF DestroyProxy
    <3>2. UNCHANGED <<script, jobs, proxy, finished, stack, proxyVars, joining>>
      BY <2>2, <2>4, <3>1 DEF proxyVars
    <3>. QED BY <2>4, <3>2, QuietDone
  <2>6. CASE futures[p] = <<>>
    <3>1. threads' = [threads EXCEPT ![p] = <<>>] /\ Goto(a, g)
      BY <1>3, <1>15, <2>1, <2>6 DEF DestroyProxy
    <3>2. OthersKept(p)
      <4>1. \A q \in Proxy : q # p => threads'[q] = threads[q]
        BY <1>1, <3>1 DEF TypeOK
      <4>. QED BY <2>2, <4>1 DEF OthersKept
    <3>3. Respects(a, Top(a), g, p)
      <4>1. g.pc # "await"
        <5>1. Fields(g, Top(a), "body", Top(a).ip + 1)
          BY <1>2, <2>1, <2>3, NextForm
        <5>. QED BY <5>1 DEF Fields
      <4>2. futures'[p] = futures[p] /\ CallOf(Top(a)).call # "join"
        BY <1>3, <2>3, <2>4
      <4>. QED BY <2>6, <4>1, <4>2 DEF Respects
    <3>. QED BY <2>1, <2>3, <2>4, <3>1, <3>2, <3>3, <1>13
  <2>. QED BY <2>5, <2>6
<1>16. CASE DestroyPool(a)
  <2>1. PICK g : g = [Top(a) EXCEPT !.pc = "wake", !.to = 1]
    OBVIOUS
  <2>2. /\ AtCall(a, "destroy_pool") /\ joining' = TRUE /\ Goto(a, g)
        /\ UNCHANGED <<jobVars, proxyVars, worker>>
        /\ \A c \in Client \ {a} : Finished(c)
    BY <1>16, <2>1 DEF DestroyPool
  <2>3. /\ stack[a] # <<>> /\ Top(a).ip \in DOMAIN Calls(Top(a).run) /\ name = "destroy_pool"
        /\ CallOf(Top(a)) = Calls(Top(a).run)[Top(a).ip]
    BY <1>3, <2>2, AtCallFacts
  <2>4. Fields(g, Top(a), "wake", Top(a).ip)
    <3>1. PICK x \in Places : x = "wake"
      BY DEF Places
    <3>2. PICK n \in Nat : n = 1
      OBVIOUS
    <3>3. g = PcTo(Top(a), x, n)
      BY <2>1, <3>1, <3>2 DEF PcTo
    <3>4. Top(a) \in FrameRec
      BY <1>2, <2>3
    <3>5. Fields(g, Top(a), x, Top(a).ip)
      BY <3>3, <3>4, PcToForm
    <3>. QED BY <3>1, <3>5, Zenon
  <2>5. UNCHANGED <<script, jobs, proxy, finished, futures, parent, threads, next_thread, worker>>
    BY <2>2 DEF jobVars, proxyVars
  <2>6. OthersKept(p) /\ WorkersKept
    BY <1>4, <1>5, <2>5
  <2>7. Closing'
    <3>1. g \in FrameRec /\ g.ip = Top(a).ip /\ Top(a).ip \in Nat
      BY <1>2, <2>3, <2>4 DEF Fields
    <3>2. ASSUME NEW c \in Client, NEW k \in DOMAIN Calls(c), Calls(c)[k].call = "do_job" PROVE k < Top(c)'.ip
      <4>1. c \in Actor /\ DOMAIN Calls(c) = 1 .. Len(Calls(c)) /\ Len(Calls(c)) \in Nat
        BY <1>1, ScriptCalls DEF Actor
      <4>2. Top(c)' = IF c = a THEN g ELSE Top(c)
        BY <2>2, <2>3, <3>1, <4>1, TopAfter
      <4>3. CASE c = a
        <5>1. Top(a).run = c
          BY <2>3, <4>3, TopFrame
        <5>2. ~(Top(a).ip < k) /\ k # Top(a).ip
          BY <1>1, <1>3, <2>3, <3>2, <5>1, UsageAfter
        <5>. QED BY <3>1, <4>1, <4>2, <4>3, <5>2
      <4>4. CASE c # a
        <5>0. Finished(c) /\ ClientFrame(c)
          BY <2>2, <4>4 DEF PoolInv, Frames
        <5>1. Top(c).ip > Len(Calls(c)) /\ stack[c] # <<>>
          BY <5>0 DEF Finished, ClientFrame
        <5>2. Top(c).ip \in Nat
          BY <4>1, <5>1, TopFrame, RecordOf
        <5>. QED BY <4>1, <4>2, <4>4, <5>1, <5>2
      <4>. QED BY <4>3, <4>4
    <3>. QED BY <2>5, <3>2 DEF Closing, Calls
  <2>8. /\ "wake" \notin {"notify", "await"} /\ "wake" # "emplace" /\ (joining => joining')
    BY <2>2
  <2>. QED BY <1>3, <2>2, <2>3, <2>4, <2>5, <2>6, <2>7, <2>8, PlainDone
<1>17. CASE DestroyPoolWake(a)
  <2>1. PICK g : g = IF Top(a).to < N THEN [Top(a) EXCEPT !.to = @ + 1] ELSE [Top(a) EXCEPT !.pc = "leave"]
    OBVIOUS
  <2>2. /\ stack[a] # <<>> /\ Top(a).pc = "wake" /\ Woken(Top(a).to) /\ Goto(a, g)
        /\ UNCHANGED <<script, jobs, proxy, finished, parent, threads, next_thread, futures, joining>>
    BY <1>17, <2>1 DEF DestroyPoolWake, At, proxyVars, jobVars
  <2>3. Top(a).ip \in DOMAIN Calls(Top(a).run) /\ Top(a).to \in Thread
    BY <1>2, <2>2 DEF InCall
  <2>4. PICK pc : Fields(g, Top(a), pc, Top(a).ip) /\ pc \in {"wake", "leave"}
    <3>1. CASE Top(a).to < N
      <4>1. PICK m \in Nat : m = Top(a).to + 1
        BY <2>3 DEF Thread
      <4>2. g = [Top(a) EXCEPT !.to = m]
        BY <2>1, <3>1, <4>1
      <4>3. Fields(g, Top(a), Top(a).pc, Top(a).ip)
        BY <1>2, <2>2, <4>2, ToForm
      <4>. QED BY <2>2, <4>3
    <3>2. CASE ~(Top(a).to < N)
      <4>1. "leave" \in Places
        BY DEF Places
      <4>2. Fields(g, Top(a), "leave", Top(a).ip)
        BY <1>2, <2>1, <2>2, <3>2, <4>1, PcForm
      <4>. QED BY <4>2
    <3>. QED BY <3>1, <3>2
  <2>5. OthersKept(p) /\ WorkersKept
    BY <1>5, <2>2, WokenKept
  <2>6. pc \notin {"notify", "await"} /\ pc # "emplace" /\ (joining => joining')
    BY <2>2, <2>4
  <2>. QED BY <1>3, <2>2, <2>3, <2>4, <2>5, <2>6, PlainDone
<1>18. CASE DestroyPoolJoin(a)
  <2>1. PICK g : g = NextCall(Top(a))
    OBVIOUS
  <2>2. /\ stack[a] # <<>> /\ Top(a).pc = "leave" /\ Goto(a, g) /\ \A t \in Thread : worker[t] = "exited"
        /\ UNCHANGED <<script, jobs, proxy, finished, parent, threads, next_thread, futures, worker, joining>>
    BY <1>18, <2>1 DEF DestroyPoolJoin, At, proxyVars, jobVars
  <2>3. Top(a).ip \in DOMAIN Calls(Top(a).run) /\ name = "destroy_pool"
    BY <1>2, <1>3, <2>2 DEF InCall
  <2>4. OthersKept(p) /\ WorkersKept
    BY <1>4, <1>5, <2>2
  <2>. QED BY <1>3, <2>1, <2>2, <2>3, <2>4, CallDone
<1>. QED
  BY <1>6, <1>7, <1>8, <1>9, <1>10, <1>11, <1>12, <1>14, <1>15, <1>16, <1>17, <1>18
     DEF CallStep, JoinHelp, JoinHelped

LEMMA WorkerStepDone ==
  ASSUME PoolInv, DoneInv, NEW t \in Thread, WorkerStep(t), script' = script
  PROVE  DoneInv'
<1>1. CASE WorkerCheck(t) \/ WorkerBlock(t) \/ WorkerExit(t)
  <2>1. UNCHANGED <<script, jobs, proxy, finished, stack, proxyVars, joining>>
    BY <1>1 DEF WorkerCheck, WorkerBlock, WorkerExit, jobVars
  <2>2. worker \in [Thread -> {"check", "blocking", "wait", "exited"}]
    BY DEF PoolInv, PoolTypeOK, TypeOK
  <2>3. PICK w : w = worker'[t]
    OBVIOUS
  <2>4. /\ worker' = [worker EXCEPT ![t] = w] /\ worker[t] # "exited" /\ stack[t] = <<>>
        /\ w = "exited" => jobs[t] = <<>> /\ joining
    <3>1. CASE WorkerCheck(t)
      BY <2>2, <2>3, <3>1 DEF WorkerCheck
    <3>2. CASE WorkerBlock(t)
      <4>1. worker[t] = "blocking" /\ worker' = [worker EXCEPT ![t] = "wait"]
        BY <3>2 DEF WorkerBlock
      <4>2. stack[t] = <<>>
        BY <4>1 DEF DoneInv, Working
      <4>. QED BY <2>2, <2>3, <4>1, <4>2
    <3>3. CASE WorkerExit(t)
      BY <2>2, <2>3, <3>3 DEF WorkerExit, leaves, may_go_on
    <3>. QED BY <1>1, <3>1, <3>2, <3>3
  <2>5. \A u \in Thread : /\ stack[u] # <<>> => worker'[u] = worker[u]
                          /\ worker[u] = "exited" => worker'[u] = "exited"
                          /\ worker'[u] = "exited" => worker[u] = "exited" \/ (jobs[u] = <<>> /\ joining)
    BY <2>2, <2>4
  <2>. QED BY <2>1, <2>5, QuietDone
<1>2. CASE WorkerRun(t)
  <2>1. PICK i : i = Len(jobs[t])
    OBVIOUS
  <2>2. /\ worker[t] = "check" /\ jobs[t] # <<>> /\ RunJob(t, i)
        /\ UNCHANGED <<script, proxyVars, worker, joining>>
    BY <1>2, <2>1 DEF WorkerRun, leaves
  <2>3. i \in DOMAIN jobs[t]
    <3>1. jobs[t] \in Seq(Job)
      BY DEF PoolInv, PoolTypeOK, TypeOK
    <3>2. Len(jobs[t]) # 0
      BY <2>2, <3>1, EmptySeq
    <3>. QED BY <2>1, <3>1, <3>2
  <2>. QED BY <2>2, <2>3, StartDone
<1>3. CASE JobReturn(t)
  BY <1>3, ReturnDone
<1>. QED BY <1>1, <1>2, <1>3 DEF WorkerStep

LEMMA NextDoneInv == PoolInv /\ DoneInv /\ [Next]_vars => DoneInv'
<1>. SUFFICES ASSUME PoolInv, DoneInv, [Next]_vars PROVE DoneInv'
  OBVIOUS
<1>1. ASSUME NEW a \in Actor, Step(a) PROVE DoneInv'
  <2>1. script' = script
    BY <1>1 DEF Step
  <2>. QED BY <1>1, <2>1, CallStepDone, WorkerStepDone DEF Step
<1>2. CASE UNCHANGED vars
  <2>1. UNCHANGED <<script, jobs, proxy, finished, stack, proxyVars, joining, worker>>
    BY <1>2 DEF vars, jobVars
  <2>. QED BY <2>1, QuietDone
<1>. QED BY <1>1, <1>2 DEF Next

LEMMA InitDoneInv == Init => DoneInv
<1>. SUFFICES ASSUME Init PROVE DoneInv
  OBVIOUS
<1>1. /\ jobs = [t \in Thread |-> <<>>] /\ worker = [t \in Thread |-> "check"] /\ joining = FALSE
      /\ proxy = [j \in Job |-> NULL] /\ finished = {} /\ script \in Scripts
      /\ stack = [a \in Actor |-> IF a \in Client THEN <<Frame(a)>> ELSE <<>>]
  BY DEF Init
<1>2. ASSUME NEW a \in Actor, NEW i \in DOMAIN stack[a]
      PROVE  a \in Client /\ stack[a][i].ip = 1 /\ stack[a][i].pc = "body"
  <2>1. a \in Client /\ stack[a] = <<Frame(a)>>
    BY <1>1, <1>2
  <2>2. stack[a][i] = Frame(a)
    BY <1>2, <2>1
  <2>. QED BY <2>1, <2>2 DEF Frame
<1>3. ASSUME NEW f \in FrameRec, f.ip = 1, f.pc = "body", NEW m \in Nat, Made(f, m) PROVE FALSE
  <2>1. m \in 1 .. Len(Calls(f.run)) /\ m < 1
    BY <1>1, <1>3, ScriptCalls DEF Made
  <2>. QED BY <2>1
<1>4. Settled
  BY <1>2, <1>3 DEF Settled
<1>5. Left /\ Stored /\ Closing /\ Closed
  BY <1>1 DEF Left, Stored, Closing, Closed
<1>6. Target
  BY <1>2 DEF Target
<1>7. Working
  BY <1>1, ThreadPoolAssumption DEF Working, Actor
<1>8. Gone
  <2>. SUFFICES ASSUME NEW c \in Client, NEW f \in FrameRec, f = Top(c), NEW k \in DOMAIN Calls(c), k < f.ip
       PROVE  FALSE
    BY DEF Gone
  <2>1. stack[c] = <<Frame(c)>>
    BY <1>1 DEF Actor
  <2>2. f.ip = 1
    BY <2>1 DEF Top, Last, Frame
  <2>3. k \in 1 .. Len(Calls(c))
    BY <1>1, ScriptCalls
  <2>. QED BY <2>2, <2>3
<1>. QED BY <1>4, <1>5, <1>6, <1>7, <1>8 DEF DoneInv

\* join() returns after every job submitted before through the proxy has run,
\* also those that a nested proxy queued without a future; and when the pool's
\* destructor has returned, every job that was ever submitted has run, because
\* a thread leaves its loop with an empty job stack and only jobs that it
\* runs could have put something on it afterwards.
THEOREM JobsDoFinish == Spec => []JobsFinish
<1>1. PoolInv /\ DoneInv => JoinMeansDone
  <2>. SUFFICES ASSUME PoolInv, DoneInv, NEW a \in Actor, NEW i \in DOMAIN stack[a], NEW f, f = stack[a][i],
                       NEW k \in DOMAIN Calls(f.run), NEW m \in 1 .. k - 1,
                       k < f.ip, Calls(f.run)[k].call = "join",
                       Calls(f.run)[m].call = "do_job", Calls(f.run)[m].p = Calls(f.run)[k].p
       PROVE  Calls(f.run)[m].job \in finished
    BY DEF JoinMeansDone
  <2>1. script \in Scripts /\ stack[a] \in Seq(FrameRec)
    BY DEF PoolInv, PoolTypeOK
  <2>2. f \in FrameRec /\ f.ip \in Nat
    BY <2>1, RecordOf
  <2>3. m \in Nat /\ m < k /\ m < f.ip /\ m \in DOMAIN Calls(f.run)
    BY <2>1, <2>2, ScriptCalls
  <2>4. Made(f, m) /\ After(f, m, "join")
    BY <2>3 DEF Made, After
  <2>5. Owed(a, f, m)
    BY <2>2, <2>3, <2>4 DEF DoneInv, Settled
  <2>. QED BY <2>4, <2>5 DEF Owed
<1>2. PoolInv /\ DoneInv => DestroyFinishesJobs
  <2>. SUFFICES ASSUME PoolInv, DoneInv, NEW c \in Client, NEW n \in DOMAIN Calls(c), n < Top(c).ip,
                       Calls(c)[n].call = "destroy_pool", NEW j \in Job, proxy[j] # NULL, j \notin finished
       PROVE  FALSE
    BY DEF DestroyFinishesJobs, PoolDestroyed
  <2>1. script \in Scripts /\ Client \subseteq Actor
    BY DEF PoolInv, PoolTypeOK, Actor
  <2>2. \A t \in Thread : worker[t] = "exited" /\ stack[t] = <<>>
    <3>1. Top(c) \in FrameRec
      <4>1. ClientFrame(c)
        BY DEF PoolInv, Frames
      <4>2. stack[c] # <<>>
        BY <4>1 DEF ClientFrame
      <4>. QED BY <2>1, <4>2, TopFrame
    <3>2. \A t \in Thread : worker[t] = "exited"
      BY <3>1 DEF DoneInv, Gone
    <3>. QED BY <3>2 DEF DoneInv, Working
  <2>3. PICK t \in Thread : QueuedOn(j, t)
    BY DEF DoneInv, Stored
  <2>4. PICK r \in Client \cup Job : \E k \in DOMAIN Calls(r) : Submits(r, k, j, proxy[j]) /\ Past(r, k)
    BY DEF PoolInv, Submitted
  <2>5. PICK k \in DOMAIN Calls(r) : Submits(r, k, j, proxy[j]) /\ Past(r, k)
    BY <2>4
  <2>6. Calls(r)[k].call = "do_job" /\ Calls(r)[k].job = j
    BY <2>1, <2>5, ScriptCalls DEF Submits
  <2>7. r \notin Client
    BY <2>2, <2>3, <2>6 DEF DoneInv, Closed, FromJobs
  <2>8. r \in finished
    <3>. SUFFICES ASSUME NEW b \in Actor, NEW i \in DOMAIN stack[b], stack[b][i].run = r PROVE FALSE
      BY <2>5 DEF Past
    <3>1. b \in Client
      BY <2>2 DEF Actor
    <3>2. ClientFrame(b) /\ stack[b] \in Seq(FrameRec)
      BY <2>1, <3>1 DEF PoolInv, PoolTypeOK, Frames
    <3>. QED BY <2>7, <3>1, <3>2 DEF ClientFrame
  <2>9. PICK u \in Thread : worker[u] # "exited"
    BY <2>6, <2>8 DEF DoneInv, Left
  <2>. QED BY <2>2, <2>9
<1>3. Init => DoneInv
  BY InitDoneInv
<1>4. PoolInv /\ DoneInv /\ [Next]_vars => DoneInv'
  BY NextDoneInv
<1>5. PoolInv /\ DoneInv => JobsFinish
  BY <1>1, <1>2 DEF JobsFinish
<1>. QED BY <1>3, <1>4, <1>5, PoolIsConsistent, PTL DEF Spec

(***************************************************************************)
(* Threads wait for higher threads only                                    *)
(***************************************************************************)
\* The actor whose code has allocated proxy p is still in p's scope.
Active(p) == \E a \in Actor : \E i \in DOMAIN stack[a] : \E f \in FrameRec :
               f = stack[a][i] /\ Allocated(f, p)

\* What a finished job has submitted is finished.
LeftDone == \A r \in finished : \A m \in DOMAIN Calls(r) :
              Calls(r)[m].call = "do_job" => Calls(r)[m].job \in finished

\* The parent of a job's proxies is the proxy that has run the job.
Nested == \A t \in Thread : \A i \in DOMAIN stack[t] : \A f \in FrameRec : \A p \in Proxy :
            f = stack[t][i] /\ Allocated(f, p) => parent[p] = proxy[f.run]

\* The threads of a proxy and its ancestors are the first ones of the pool.
Taken(p) == {t \in Thread : \E q \in Ancestors(p) : Uses(q, t)}
Segments == \A p \in Proxy : Active(p) => \E m \in 0 .. N : Taken(p) = 1 .. m

\* A job waits or runs on a thread of its proxy.
Members == \A t \in Thread : \A j \in Job : QueuedOn(j, t) => Uses(proxy[j], t)

\* Between the halves of do_job the proxy points to one of its threads.
Aimed == \A a \in Actor : \A i \in DOMAIN stack[a] : \A f \in FrameRec :
           f = stack[a][i] /\ f.pc = "emplace" =>
             next_thread[CallOf(f).p] + 1 \in DOMAIN threads[CallOf(f).p]

\* The other threads of a nested proxy are higher than the one that joins it.
Above == \A p \in Proxy : Active(p) /\ parent[p] # NULL =>
           \A i \in DOMAIN threads[p] : i # 1 => threads[p][1] < threads[p][i]

\* A job whose future a nested proxy holds is on a higher thread.
Held == \A p \in Proxy : \A j \in ToSet(futures[p]) :
          /\ proxy[j] = p
          /\ parent[p] # NULL => \A t \in Thread : QueuedOn(j, t) => threads[p][1] < t

UpInv == LeftDone /\ Nested /\ Segments /\ Members /\ Aimed /\ Above /\ Held

\* A proxy is its own ancestor, and the ancestors of its parent are the others.
LEMMA Hierarchy ==
  ASSUME parent \in [Proxy -> Proxy \cup {NULL}], NEW p \in Proxy
  PROVE  /\ p \in Ancestors(p) /\ Ancestors(p) \subseteq Proxy /\ Upwards(Ancestors(p))
         /\ \A S \in SUBSET Proxy : p \in S /\ Upwards(S) => Ancestors(p) \subseteq S
         /\ parent[p] # NULL => Ancestors(p) = {p} \cup Ancestors(parent[p])
         /\ parent[p] = NULL => Ancestors(p) = {p}
<1>1. \A q \in Proxy : /\ q \in Ancestors(q) /\ Ancestors(q) \subseteq Proxy
                       /\ \A S \in SUBSET Proxy : q \in S /\ Upwards(S) => Ancestors(q) \subseteq S
  BY DEF Ancestors
<1>2. \A q \in Proxy : Upwards(Ancestors(q))
  <2>. TAKE q \in Proxy
  <2>. SUFFICES ASSUME NEW r \in Ancestors(q), parent[r] # NULL PROVE parent[r] \in Ancestors(q)
    BY DEF Upwards
  <2>1. r \in Proxy /\ parent[r] \in Proxy
    BY <1>1
  <2>. SUFFICES ASSUME NEW S \in SUBSET Proxy, q \in S, Upwards(S) PROVE parent[r] \in S
    BY <2>1 DEF Ancestors
  <2>2. r \in S
    BY DEF Ancestors
  <2>. QED BY <2>2 DEF Upwards
<1>3. ASSUME parent[p] # NULL PROVE Ancestors(p) = {p} \cup Ancestors(parent[p])
  <2>. DEFINE r == parent[p]
  <2>1. r \in Proxy
    BY <1>3
  <2>2. r \in Ancestors(p)
    BY <1>1, <1>2, <1>3 DEF Upwards
  <2>3. Ancestors(r) \subseteq Ancestors(p)
    BY <1>1, <1>2, <2>1, <2>2
  <2>4. Upwards({p} \cup Ancestors(r)) /\ p \in {p} \cup Ancestors(r)
    BY <1>1, <1>2, <2>1 DEF Upwards
  <2>5. {p} \cup Ancestors(r) \in SUBSET Proxy
    BY <1>1, <2>1
  <2>6. Ancestors(p) \subseteq {p} \cup Ancestors(r)
    BY <1>1, <2>4, <2>5
  <2>. QED BY <1>1, <2>3, <2>6
<1>4. ASSUME parent[p] = NULL PROVE Ancestors(p) = {p}
  <2>1. Upwards({p}) /\ p \in {p} /\ {p} \in SUBSET Proxy
    BY <1>4 DEF Upwards
  <2>. QED BY <1>1, <2>1
<1>. QED BY <1>1, <1>2, <1>3, <1>4

Chain == parent \in [Proxy -> Proxy \cup {NULL}] => \A q \in Proxy :
           /\ \A r \in Proxy : parent[q] = r => Ancestors(q) = {q} \cup Ancestors(r)
           /\ parent[q] = NULL => Ancestors(q) = {q}

LEMMA ChainsEnd == Chain
<1>. NULL \notin Proxy
  BY ThreadPoolAssumption
<1>. QED BY Hierarchy DEF Chain

\* The ancestors of a proxy stay the same if no parent among them changes.
LEMMA SameAncestors ==
  ASSUME parent \in [Proxy -> Proxy \cup {NULL}], parent' \in [Proxy -> Proxy \cup {NULL}],
         NEW p \in Proxy, \A q \in Ancestors(p) : parent'[q] = parent[q]
  PROVE  Ancestors(p)' = Ancestors(p)
<1>1. /\ p \in Ancestors(p) /\ Ancestors(p) \subseteq Proxy /\ Upwards(Ancestors(p))
      /\ \A S \in SUBSET Proxy : p \in S /\ Upwards(S) => Ancestors(p) \subseteq S
  BY Hierarchy
<1>2. Ancestors(p)' \subseteq Ancestors(p)
  <2>1. \A q \in Ancestors(p) : parent'[q] \in Ancestors(p) \cup {NULL}
    BY <1>1 DEF Upwards
  <2>. QED BY <1>1, <2>1 DEF Ancestors, Upwards
<1>3. Ancestors(p) \subseteq Ancestors(p)'
  <2>. SUFFICES ASSUME NEW q \in Ancestors(p), NEW S \in SUBSET Proxy, p \in S, \A r \in S : parent'[r] \in S \cup {NULL}
       PROVE  q \in S
    BY <1>1 DEF Ancestors, Upwards
  <2>. DEFINE T == S \cap Ancestors(p)
  <2>1. Upwards(T) /\ p \in T /\ T \in SUBSET Proxy
    BY <1>1 DEF Upwards
  <2>. QED BY <1>1, <2>1
<1>. QED BY <1>2, <1>3

\* A nested proxy gets the next threads that its ancestors do not use.
LEMMA FilledAbove ==
  ASSUME NEW par, NEW t \in Thread, NEW max_count, NEW m \in 0 .. N, t <= m,
         \A u \in Thread : is_free(par, u) <=> m < u
  PROVE  LET s == fill_threads_for_nested_proxy(par, t, max_count)
         IN  /\ \A i \in DOMAIN s : i # 1 => m < s[i]
             /\ \E b \in m .. N : (1 .. m) \cup ToSet(s) = 1 .. b
<1>. DEFINE start == FillStart(t)
            more(r, i) == FillMore(par, max_count, r, i)
            Got(s, b) == /\ s \in Seq(Thread) /\ s # <<>> /\ \A i \in DOMAIN s : i # 1 => m < s[i]
                         /\ (1 .. m) \cup ToSet(s) = 1 .. b
            Good(r, i) == \E b \in m .. N : Got(r.got, b) /\ (r.full \/ b = IF i < m THEN m ELSE i)
<1>1. N \in Nat /\ m \in Nat /\ t \in Nat /\ t >= 1
  BY ThreadPoolAssumption DEF Thread
<1>2. PICK f : FillRun(f, par, t, max_count)
  BY FillLoop
<1>3. Got(<<t>>, m) /\ start.got = <<t>> /\ start.full = FALSE
  <2>1. ToSet(<<t>>) = {t}
    BY DEF ToSet
  <2>2. (1 .. m) \cup {t} = 1 .. m
    BY <1>1
  <2>. QED BY <2>1, <2>2 DEF FillStart
<1>4. ASSUME NEW i \in 1 .. N, NEW r, Good(r, i - 1), ~r.full PROVE Good(more(r, i), i)
  <2>1. PICK b \in m .. N : Got(r.got, b) /\ b = IF i - 1 < m THEN m ELSE i - 1
    BY <1>4
  <2>2. CASE is_free(par, i)
    <3>1. i \in Thread /\ m < i /\ b = i - 1
      BY <1>1, <2>1, <2>2 DEF Thread
    <3>2. more(r, i).got = Append(r.got, i)
      BY <2>2 DEF FillMore
    <3>3. Got(Append(r.got, i), i)
      <4>1. PICK s : s = r.got
        OBVIOUS
      <4>2. s \in Seq(Thread) /\ Got(s, i - 1)
        BY <2>1, <3>1, <4>1
      <4>3. /\ Append(s, i) \in Seq(Thread) /\ Append(s, i) # <<>>
            /\ \A k \in DOMAIN Append(s, i) : k # 1 => m < Append(s, i)[k]
        BY <3>1, <4>2
      <4>4. ToSet(Append(s, i)) = ToSet(s) \cup {i}
        <5>1. s \in Seq(Thread)
          BY <4>2
        <5>2. /\ DOMAIN Append(s, i) = DOMAIN s \cup {Len(s) + 1} /\ DOMAIN s = 1 .. Len(s)
              /\ Append(s, i)[Len(s) + 1] = i /\ \A k \in 1 .. Len(s) : Append(s, i)[k] = s[k]
          BY <3>1, <5>1, Appended
        <5>. QED BY <5>2 DEF ToSet
      <4>5. 1 .. i = (1 .. i - 1) \cup {i}
        BY <1>1
      <4>6. (1 .. m) \cup ToSet(Append(s, i)) = 1 .. i
        BY <4>2, <4>4, <4>5
      <4>. QED BY <4>1, <4>3, <4>6
    <3>4. i \in m .. N /\ i = IF i < m THEN m ELSE i
      BY <1>1, <3>1
    <3>. QED BY <3>2, <3>3, <3>4
  <2>3. CASE ~is_free(par, i)
    <3>1. more(r, i).got = r.got
      BY <2>3 DEF FillMore
    <3>2. i <= m /\ b = m
      BY <1>1, <2>1, <2>3 DEF Thread
    <3>3. m = IF i < m THEN m ELSE i
      BY <1>1, <3>2
    <3>. QED BY <2>1, <3>1, <3>2, <3>3
  <2>. QED BY <2>2, <2>3
<1>5. \A i \in 0 .. N : Good(f[i], i)
  <2>. DEFINE Bad == {i \in 0 .. N : ~Good(f[i], i)}
  <2>. SUFFICES ASSUME Bad # {} PROVE FALSE
    OBVIOUS
  <2>1. PICK n \in Bad : \A k \in Bad : n <= k
    <3>. Bad \in SUBSET Nat
      BY <1>1
    <3>. HIDE DEF Bad
    <3>. QED BY LeastOfSet
  <2>2. n \in 0 .. N /\ ~Good(f[n], n)
    OBVIOUS
  <2>3. n # 0
    <3>. SUFFICES ASSUME n = 0 PROVE FALSE
      OBVIOUS
    <3>1. f[n] = start
      BY <1>2, <2>2 DEF FillRun
    <3>2. m \in m .. N /\ m = IF 0 < m THEN m ELSE 0
      BY <1>1
    <3>. QED BY <1>3, <2>2, <3>1, <3>2
  <2>4. n - 1 \in 0 .. N /\ n - 1 \notin Bad /\ n \in 1 .. N
    <3>1. n \in Nat /\ n - 1 \in 0 .. N /\ n \in 1 .. N /\ ~(n <= n - 1)
      BY <1>1, <2>2, <2>3
    <3>. HIDE DEF Bad
    <3>. QED BY <2>1, <3>1
  <2>5. Good(f[n - 1], n - 1)
    BY <2>4
  <2>6. IF f[n - 1].full THEN f[n] = f[n - 1] ELSE f[n] = more(f[n - 1], n)
    BY <1>2, <2>2, <2>3 DEF FillRun
  <2>7. CASE f[n - 1].full
    BY <2>2, <2>5, <2>6, <2>7
  <2>8. CASE ~f[n - 1].full
    <3>. HIDE DEF Good, more
    <3>. QED BY <1>4, <2>2, <2>4, <2>5, <2>6, <2>8
  <2>. QED BY <2>7, <2>8
<1>6. \E b \in m .. N : Got(f[N].got, b)
  BY <1>1, <1>5
<1>7. m \in m .. N
  BY <1>1
<1>8. CASE Len(threads[par]) = N
  BY <1>2, <1>3, <1>7, <1>8 DEF FillRun
<1>9. CASE Len(threads[par]) # N
  <2>1. fill_threads_for_nested_proxy(par, t, max_count) = f[N].got
    BY <1>2, <1>9 DEF FillRun
  <2>. QED BY <1>6, <2>1
<1>. QED BY <1>8, <1>9

\* The code that has submitted an unfinished job is still in the scope of the
\* proxy it has used: it joins the proxy before it leaves this scope.
LEMMA SubmitterStays ==
  ASSUME PoolInv, DoneInv, LeftDone, NEW j \in Job, proxy[j] # NULL, j \notin finished
  PROVE  Active(proxy[j])
<1>1. script \in Scripts /\ stack \in [Actor -> Seq(FrameRec)]
  BY DEF PoolInv, PoolTypeOK
<1>2. PICK r \in Client \cup Job : \E k \in DOMAIN Calls(r) : Submits(r, k, j, proxy[j]) /\ Past(r, k)
  BY DEF PoolInv, Submitted
<1>3. PICK k \in DOMAIN Calls(r) : Submits(r, k, j, proxy[j]) /\ Past(r, k)
  BY <1>2
<1>4. Calls(r)[k].call = "do_job" /\ Calls(r)[k].job = j /\ Calls(r)[k].p = proxy[j] /\ k \in Nat
  BY <1>1, <1>3, ScriptCalls DEF Submits
<1>5. r \notin finished
  BY <1>4 DEF LeftDone
<1>6. PICK a \in Actor : \E i \in DOMAIN stack[a] :
        /\ stack[a][i].run = r
        /\ k < stack[a][i].ip \/ (k = stack[a][i].ip /\ stack[a][i].pc = "notify")
  BY <1>3, <1>5 DEF Past
<1>7. PICK i \in DOMAIN stack[a] :
        /\ stack[a][i].run = r
        /\ k < stack[a][i].ip \/ (k = stack[a][i].ip /\ stack[a][i].pc = "notify")
  BY <1>6
<1>8. PICK f \in FrameRec : f = stack[a][i]
  BY <1>1
<1>9. Made(f, k) /\ f.run = r /\ f.ip \in Nat /\ k <= f.ip
  <2>1. f.ip \in Nat
    BY <1>8, RecordOf
  <2>. QED BY <1>4, <1>7, <1>8, <2>1 DEF Made
<1>10. ~After(f, k, "join")
  <2>1. Owed(a, f, k)
    BY <1>4, <1>8, <1>9 DEF DoneInv, Settled
  <2>. QED BY <1>4, <1>9, <2>1 DEF Owed
<1>11. PICK m \in DOMAIN Calls(r) : m < k /\ Calls(r)[m].call = "allocate" /\ Calls(r)[m].p = proxy[j]
  BY <1>1, <1>4, Usage
<1>12. ASSUME NEW n \in DOMAIN Calls(r), n < f.ip, Calls(r)[n].call = "destroy_proxy", Calls(r)[n].p = proxy[j]
       PROVE  FALSE
  <2>1. DOMAIN Calls(r) \subseteq Nat
    BY <1>1, ScriptCalls
  <2>2. ~(n < k) /\ n # k
    BY <1>1, <1>4, <1>12, Usage
  <2>3. PICK e \in DOMAIN Calls(r) : k < e /\ Calls(r)[e].call = "join" /\ Calls(r)[e].p = proxy[j]
    BY <1>1, <1>4, JoinAfter
  <2>4. ~(n < e) /\ n # e
    BY <1>1, <1>12, <2>3, Usage
  <2>5. e < f.ip
    BY <1>9, <1>12, <2>1, <2>4
  <2>. QED BY <1>4, <1>9, <1>10, <2>3, <2>5 DEF After
<1>13. Allocated(f, proxy[j])
  <2>1. m < f.ip
    BY <1>1, <1>4, <1>9, <1>11, ScriptCalls
  <2>. QED BY <1>9, <1>11, <1>12, <2>1 DEF Allocated
<1>. QED BY <1>8, <1>13 DEF Active

\* A proxy in use has threads, and so do the ones up the hierarchy.
LEMMA InUse ==
  ASSUME PoolInv, DoneInv, LeftDone, Nested, NEW p \in Proxy, Active(p)
  PROVE  /\ threads[p] # <<>>
         /\ \A q \in Ancestors(p) : q \in Proxy /\ Active(q)
<1>1. parent \in [Proxy -> Proxy \cup {NULL}] /\ script \in Scripts
  BY DEF PoolInv, PoolTypeOK, TypeOK
<1>2. threads[p] # <<>>
  BY DEF Active, PoolInv, OwnProxies
<1>. DEFINE S == {q \in Proxy : Active(q)}
<1>3. ASSUME NEW q \in S PROVE parent[q] \in S \cup {NULL}
  <2>1. PICK a \in Actor : \E i \in DOMAIN stack[a] : \E f \in FrameRec : f = stack[a][i] /\ Allocated(f, q)
    BY <1>3 DEF Active
  <2>2. PICK i \in DOMAIN stack[a] : \E f \in FrameRec : f = stack[a][i] /\ Allocated(f, q)
    BY <2>1
  <2>3. PICK f \in FrameRec : f = stack[a][i] /\ Allocated(f, q)
    BY <2>2
  <2>4. CASE a \in Client
    <3>1. f.run = a
      <4>1. ClientFrame(a) /\ stack[a] \in Seq(FrameRec)
        BY <2>4 DEF PoolInv, PoolTypeOK, Frames
      <4>. QED BY <2>3, <4>1 DEF ClientFrame
    <3>2. PICK m \in DOMAIN Calls(a) : Calls(a)[m].p = q
      BY <2>3, <3>1 DEF Allocated
    <3>. QED BY <2>4, <3>2 DEF PoolInv, OwnProxies
  <2>5. CASE a \in Thread
    <3>1. parent[q] = proxy[f.run]
      BY <2>3, <2>5 DEF Nested
    <3>2. f.run \in Job /\ f.run \notin finished /\ proxy[f.run] # NULL
      <4>1. JobFrame(a, i)
        BY <2>5 DEF PoolInv, Frames
      <4>. QED BY <2>3, <2>5, <4>1 DEF JobFrame, PoolInv, Queues
    <3>3. Active(proxy[f.run])
      BY <3>2, SubmitterStays
    <3>. QED BY <1>1, <3>1, <3>3
  <2>. QED BY <2>4, <2>5 DEF Actor
<1>4. Upwards(S) /\ p \in S /\ S \in SUBSET Proxy
  BY <1>3 DEF Upwards
<1>5. Ancestors(p) \subseteq S
  <2>. HIDE DEF S
  <2>. QED BY <1>1, <1>4, Hierarchy
<1>. QED BY <1>2, <1>5

\* The proxy of a job that waits or runs is in use.
LEMMA QueuedInUse ==
  ASSUME PoolInv, DoneInv, LeftDone, NEW t \in Thread, NEW j, QueuedOn(j, t)
  PROVE  j \in Job /\ j \notin finished /\ proxy[j] \in Proxy /\ Active(proxy[j])
<1>1. PICK i \in DOMAIN jobs[t] : jobs[t][i] = j
  BY DEF QueuedOn
<1>2. j \in Job /\ proxy[j] \in Proxy \cup {NULL}
  <2>1. jobs[t] \in Seq(Job) /\ proxy \in [Job -> Proxy \cup {NULL}]
    BY DEF PoolInv, PoolTypeOK, TypeOK
  <2>2. j \in Job
    BY <1>1, <2>1
  <2>. QED BY <2>1, <2>2
<1>3. j \notin finished /\ proxy[j] # NULL
  BY <1>1 DEF PoolInv, Queues
<1>. QED BY <1>2, <1>3, SubmitterStays

UsesActive == PoolInv /\ DoneInv /\ LeftDone /\ Nested =>
                \A p \in Proxy : Active(p) => \A q \in Ancestors(p) : q \in Proxy /\ Active(q)
QueuedActive == PoolInv /\ DoneInv /\ LeftDone =>
                  \A t \in Thread : \A j \in Job : QueuedOn(j, t) => proxy[j] \in Proxy /\ Active(proxy[j])

LEMMA ActiveUpwards == UsesActive
BY InUse DEF UsesActive

LEMMA QueuedIsActive == QueuedActive
BY QueuedInUse DEF QueuedActive

\* What a frame has allocated before a step of this frame.
LEMMA AllocatedBefore ==
  ASSUME NEW f \in FrameRec, NEW g, g.run = f.run, NEW q, Allocated(g, q)', script' = script, script \in Scripts,
         \/ g.ip = f.ip
         \/ g.ip = f.ip + 1 /\ ~(CallOf(f).call = "allocate" /\ CallOf(f).p = q)
  PROVE  Allocated(f, q)
<1>1. Calls(f.run)' = Calls(f.run) /\ f.ip \in Nat /\ DOMAIN Calls(f.run) \subseteq Nat
  BY RecordOf, ScriptCalls DEF Calls
<1>2. PICK m \in DOMAIN Calls(f.run) : m < g.ip /\ Calls(f.run)[m].call = "allocate" /\ Calls(f.run)[m].p = q
  BY <1>1 DEF Allocated
<1>3. m < f.ip
  BY <1>1, <1>2 DEF CallOf
<1>4. \A n \in DOMAIN Calls(f.run) : n < f.ip /\ Calls(f.run)[n].call = "destroy_proxy" => Calls(f.run)[n].p # q
  BY <1>1 DEF Allocated
<1>. QED BY <1>2, <1>3, <1>4 DEF Allocated

\* A step that leaves the proxies alone and allocates nothing.
FramesShrink ==
  \A b \in Actor : \A i \in DOMAIN stack'[b] : \A f \in FrameRec : \A q \in Proxy :
    f = stack'[b][i] /\ Allocated(f, q)' =>
      \E k \in DOMAIN stack[b] : \E h \in FrameRec : h = stack[b][k] /\ h.run = f.run /\ Allocated(h, q)

LEMMA ProxiesKept ==
  ASSUME PoolInv, UpInv, FramesShrink, UNCHANGED <<parent, threads>>,
         \A j \in Job : proxy[j] # NULL => proxy'[j] = proxy[j]
  PROVE  Nested' /\ Segments' /\ Above' /\ \A q \in Proxy : Active(q)' => Active(q)
<1>1. \A q \in Proxy : Active(q)' => Active(q)
  BY DEF FramesShrink, Active
<1>2. Nested'
  <2>. SUFFICES ASSUME NEW t \in Thread, NEW i \in DOMAIN stack'[t], NEW f \in FrameRec, NEW p \in Proxy,
                       f = stack'[t][i], Allocated(f, p)'
       PROVE  parent'[p] = proxy'[f.run]
    BY DEF Nested
  <2>1. t \in Actor
    BY DEF Actor
  <2>2. PICK k \in DOMAIN stack[t] : \E h \in FrameRec : h = stack[t][k] /\ h.run = f.run /\ Allocated(h, p)
    BY <2>1 DEF FramesShrink
  <2>3. PICK h \in FrameRec : h = stack[t][k] /\ h.run = f.run /\ Allocated(h, p)
    BY <2>2
  <2>4. parent[p] = proxy[h.run]
    BY <2>3 DEF UpInv, Nested
  <2>5. h.run \in Job /\ proxy[h.run] # NULL
    <3>1. JobFrame(t, k)
      BY DEF PoolInv, Frames
    <3>. QED BY <2>3, <3>1 DEF JobFrame, PoolInv, Queues
  <2>. QED BY <2>3, <2>4, <2>5
<1>3. \A p \in Proxy : Taken(p)' = Taken(p)
  BY DEF Taken, Ancestors, Upwards, Uses
<1>4. Segments'
  BY <1>1, <1>3 DEF UpInv, Segments
<1>5. Above'
  BY <1>1 DEF UpInv, Above
<1>. QED BY <1>1, <1>2, <1>4, <1>5

\* A step that leaves the jobs and their proxies alone, too.
LEMMA JobsKept ==
  ASSUME PoolInv, UpInv, FramesShrink, UNCHANGED <<parent, threads, proxy>>, LeftDone', Aimed',
         \A q \in Proxy : ToSet(futures'[q]) \subseteq ToSet(futures[q]),
         \A t \in Thread, j \in Job : QueuedOn(j, t)' => QueuedOn(j, t)
  PROVE  UpInv'
<1>1. Nested' /\ Segments' /\ Above'
  BY ProxiesKept
<1>2. Members'
  BY DEF UpInv, Members, Uses
<1>3. Held'
  <2>. SUFFICES ASSUME NEW p \in Proxy, NEW j \in ToSet(futures'[p])
       PROVE  /\ proxy[j] = p
              /\ parent[p] # NULL => \A t \in Thread : QueuedOn(j, t)' => threads[p][1] < t
    BY DEF Held
  <2>1. j \in ToSet(futures[p])
    OBVIOUS
  <2>2. j \in Job
    <3>1. futures[p] \in Seq(Job)
      BY DEF PoolInv, PoolTypeOK, TypeOK
    <3>. QED BY <2>1, <3>1 DEF ToSet
  <2>. QED BY <2>1, <2>2 DEF UpInv, Held
<1>. QED BY <1>1, <1>2, <1>3 DEF UpInv

\* A step of the innermost frame of actor a that allocates nothing.
LEMMA GotoShrinks ==
  ASSUME PoolInv, NEW a \in Actor, stack[a] # <<>>, NEW g \in FrameRec, Goto(a, g), g.run = Top(a).run,
         script' = script,
         \/ g.ip = Top(a).ip
         \/ g.ip = Top(a).ip + 1 /\ CallOf(Top(a)).call # "allocate"
  PROVE  FramesShrink
<1>. SUFFICES ASSUME NEW b \in Actor, NEW i \in DOMAIN stack'[b], NEW f \in FrameRec, NEW q \in Proxy,
                     f = stack'[b][i], Allocated(f, q)'
     PROVE  \E k \in DOMAIN stack[b] : \E h \in FrameRec : h = stack[b][k] /\ h.run = f.run /\ Allocated(h, q)
  BY DEF FramesShrink
<1>1. script \in Scripts
  BY DEF PoolInv, PoolTypeOK
<1>2. /\ i \in DOMAIN stack[b] /\ stack[b][i] \in FrameRec
      /\ \/ stack'[b][i] = stack[b][i]
         \/ stack[b][i] = Top(a) /\ stack'[b][i] = g
  BY FrameOf
<1>3. PICK h \in FrameRec : h = stack[b][i]
  BY <1>2
<1>4. f.run = h.run /\ (f.ip = h.ip \/ (f.ip = h.ip + 1 /\ CallOf(h).call # "allocate"))
  <2>1. CASE f = h
    BY <2>1
  <2>2. CASE h = Top(a) /\ f = g
    BY <2>2
  <2>. QED BY <1>2, <1>3, <2>1, <2>2
<1>5. Allocated(h, q)
  BY <1>1, <1>3, <1>4, AllocatedBefore
<1>. QED BY <1>2, <1>3, <1>4, <1>5

\* ... and that is not the first half of do_job.
LEMMA GotoUp ==
  ASSUME PoolInv, UpInv, NEW a \in Actor, stack[a] # <<>>, NEW g \in FrameRec, Goto(a, g), g.run = Top(a).run,
         \/ g.ip = Top(a).ip
         \/ g.ip = Top(a).ip + 1 /\ CallOf(Top(a)).call # "allocate",
         g.pc # "emplace", UNCHANGED <<script, jobs, proxy, finished, parent, threads, next_thread>>,
         \A q \in Proxy : ToSet(futures'[q]) \subseteq ToSet(futures[q])
  PROVE  UpInv'
<1>1. FramesShrink
  BY GotoShrinks
<1>2. LeftDone'
  BY DEF UpInv, LeftDone, Calls
<1>3. Aimed'
  <2>. SUFFICES ASSUME NEW b \in Actor, NEW i \in DOMAIN stack'[b], NEW f \in FrameRec,
                       f = stack'[b][i], f.pc = "emplace"
       PROVE  next_thread[CallOf(f).p] + 1 \in DOMAIN threads[CallOf(f).p]
    BY DEF Aimed, CallOf, Calls
  <2>1. i \in DOMAIN stack[b] /\ stack[b][i] = f
    BY FrameOf
  <2>. QED BY <2>1 DEF UpInv, Aimed
<1>4. \A t \in Thread, j \in Job : QueuedOn(j, t)' => QueuedOn(j, t)
  BY DEF QueuedOn
<1>. QED BY <1>1, <1>2, <1>3, <1>4, JobsKept

\* The first half of do_job.
LEMMA DoJobUp ==
  ASSUME PoolInv, UpInv, NEW a \in Actor, DoJob(a), script' = script
  PROVE  UpInv'
<1>1. TypeOK /\ script \in Scripts
  BY DEF PoolInv, PoolTypeOK
<1>2. PICK p, k, t, g : /\ p = CallOf(Top(a)).p /\ k = next_thread_of(p) /\ t = threads[p][k + 1]
                        /\ g = [Top(a) EXCEPT !.pc = "emplace", !.to = t]
  OBVIOUS
<1>3. /\ AtCall(a, "do_job") /\ next_thread' = [next_thread EXCEPT ![p] = k] /\ Goto(a, g)
      /\ UNCHANGED <<jobs, proxy, finished, parent, threads, futures>>
  BY <1>2 DEF DoJob, jobVars
<1>4. /\ stack[a] # <<>> /\ Top(a) \in FrameRec /\ Top(a).ip \in DOMAIN Calls(Top(a).run)
      /\ CallOf(Top(a)).call = "do_job" /\ p \in Proxy
  BY <1>2, <1>3, AtCallFacts
<1>5. next_thread'[p] = k /\ \A q \in Proxy : q # p => next_thread'[q] = next_thread[q]
  BY <1>1, <1>3, <1>4 DEF TypeOK
<1>6. k + 1 \in DOMAIN threads[p] /\ t \in Nat
  <2>1. threads[p] \in Seq(Thread) /\ threads[p] # <<>>
    BY <1>2, <1>4, CallFacts
  <2>2. Len(threads[p]) \in Nat /\ Len(threads[p]) > 0 /\ next_thread[p] \in Nat
    BY <1>1, <1>4, <2>1, EmptySeq DEF TypeOK
  <2>3. k + 1 \in 1 .. Len(threads[p])
    BY <1>2, <2>2 DEF next_thread_of
  <2>4. t \in Thread
    BY <1>2, <2>1, <2>3
  <2>. QED BY <2>1, <2>3, <2>4, ThreadPoolAssumption DEF Thread
<1>7. g \in FrameRec /\ g.run = Top(a).run /\ g.ip = Top(a).ip
  <2>1. PICK x \in Places : x = "emplace"
    BY DEF Places
  <2>2. g = PcTo(Top(a), x, t)
    BY <1>2, <2>1 DEF PcTo
  <2>3. Fields(g, Top(a), x, Top(a).ip)
    BY <1>4, <1>6, <2>2, PcToForm
  <2>4. Fields(g, Top(a), "emplace", Top(a).ip)
    BY <2>1, <2>3, Zenon
  <2>. QED BY <1>4, <2>4, RecordOf DEF Fields
<1>8. FramesShrink
  BY <1>3, <1>4, <1>7, GotoShrinks
<1>9. LeftDone'
  BY <1>3 DEF UpInv, LeftDone, Calls
<1>10. Aimed'
  <2>. SUFFICES ASSUME NEW b \in Actor, NEW i \in DOMAIN stack'[b], NEW f \in FrameRec,
                       f = stack'[b][i], f.pc = "emplace"
       PROVE  next_thread'[CallOf(f).p] + 1 \in DOMAIN threads[CallOf(f).p]
    BY <1>3 DEF Aimed, CallOf, Calls
  <2>1. /\ i \in DOMAIN stack[b]
        /\ \/ stack'[b][i] = stack[b][i] /\ ~(b = a /\ i = Len(stack[a]))
           \/ b = a /\ i = Len(stack[a]) /\ stack[b][i] = Top(a) /\ stack'[b][i] = g
    BY <1>3, <1>4, <1>7, FrameOf
  <2>2. CASE f = g
    <3>1. CallOf(f).p = p
      BY <1>2, <1>7, <2>2 DEF CallOf
    <3>. QED BY <1>5, <1>6, <3>1
  <2>3. CASE f # g
    <3>1. f = stack[b][i] /\ ~(b = a /\ i = Len(stack[a]))
      BY <2>1, <2>3
    <3>2. InCall(f)
      BY <2>1, <3>1 DEF PoolInv, Frames
    <3>3. f.ip \in DOMAIN Calls(f.run) /\ Calls(f.run)[f.ip].call = "do_job"
      BY <3>2 DEF InCall, CallOf
    <3>4. CallOf(f).p \in Proxy /\ CallOf(f).p # p
      BY <1>2, <1>4, <2>1, <3>1, <3>3, OtherProxy DEF CallOf
    <3>. QED BY <1>5, <2>1, <3>1, <3>4 DEF UpInv, Aimed
  <2>. QED BY <2>2, <2>3
<1>11. \A u \in Thread, j \in Job : QueuedOn(j, u)' => QueuedOn(j, u)
  BY <1>3 DEF QueuedOn
<1>. QED BY <1>3, <1>8, <1>9, <1>10, <1>11, JobsKept

\* A step of a thread that starts no call: run_job's first half, a wait.
LEMMA QuietUp ==
  ASSUME PoolInv, UpInv, UNCHANGED <<script, proxyVars, jobs, proxy, finished, stack>>
  PROVE  UpInv'
<1>1. UNCHANGED <<parent, threads, next_thread, futures>>
  BY DEF proxyVars
<1>2. FramesShrink
  BY DEF FramesShrink, Allocated, Calls
<1>3. LeftDone' /\ Aimed'
  BY <1>1 DEF UpInv, LeftDone, Aimed, CallOf, Calls
<1>4. \A t \in Thread, j \in Job : QueuedOn(j, t)' => QueuedOn(j, t)
  BY DEF QueuedOn
<1>. QED BY <1>1, <1>2, <1>3, <1>4, JobsKept

\* A job that starts has allocated nothing.
LEMMA StartUp ==
  ASSUME PoolInv, UpInv, NEW t \in Thread, NEW i \in DOMAIN jobs[t], RunJob(t, i), UNCHANGED <<script, proxyVars>>
  PROVE  UpInv'
<1>1. PICK g : g = [Frame(jobs[t][i]) EXCEPT !.index = i, !.old = running_job[t]]
  OBVIOUS
<1>2. /\ stack' = [stack EXCEPT ![t] = Append(@, g)]
      /\ UNCHANGED <<jobs, proxy, finished, parent, threads, next_thread, futures>>
  BY <1>1 DEF RunJob, proxyVars
<1>3. g.pc = "body" /\ g.ip = 1
  BY <1>1 DEF Frame
<1>4. stack \in [Actor -> Seq(FrameRec)] /\ script \in Scripts /\ t \in Actor
  BY DEF PoolInv, PoolTypeOK, Actor
<1>5. \A b \in Actor : \A k \in DOMAIN stack'[b] :
        \/ k \in DOMAIN stack[b] /\ stack'[b][k] = stack[b][k] /\ stack[b][k] \in FrameRec
        \/ stack'[b][k] = g
  <2>. TAKE b \in Actor
  <2>. TAKE k \in DOMAIN stack'[b]
  <2>1. stack[b] \in Seq(FrameRec)
    BY <1>4
  <2>2. CASE b # t
    BY <1>2, <1>4, <2>1, <2>2
  <2>3. CASE b = t
    <3>1. stack'[b] = Append(stack[b], g)
      BY <1>2, <1>4, <2>3
    <3>2. k \in 1 .. Len(stack[b]) + 1
      BY <2>1, <3>1
    <3>. QED BY <2>1, <3>1, <3>2
  <2>. QED BY <2>2, <2>3
<1>6. FramesShrink
  <2>. SUFFICES ASSUME NEW b \in Actor, NEW k \in DOMAIN stack'[b], NEW f \in FrameRec, NEW q \in Proxy,
                       f = stack'[b][k], Allocated(f, q)'
       PROVE  \E n \in DOMAIN stack[b] : \E h \in FrameRec : h = stack[b][n] /\ h.run = f.run /\ Allocated(h, q)
    BY DEF FramesShrink
  <2>1. Allocated(f, q)
    BY DEF Allocated, Calls
  <2>2. f # g
    <3>. SUFFICES ASSUME f = g PROVE FALSE
      OBVIOUS
    <3>1. PICK m \in DOMAIN Calls(f.run) : m < 1
      BY <1>3, <2>1 DEF Allocated
    <3>2. m \in 1 .. Len(Calls(f.run))
      BY <1>4, ScriptCalls
    <3>. QED BY <3>1, <3>2
  <2>. QED BY <1>5, <2>1, <2>2
<1>7. LeftDone'
  BY <1>2 DEF UpInv, LeftDone, Calls
<1>8. Aimed'
  <2>. SUFFICES ASSUME NEW b \in Actor, NEW k \in DOMAIN stack'[b], NEW f \in FrameRec,
                       f = stack'[b][k], f.pc = "emplace"
       PROVE  next_thread[CallOf(f).p] + 1 \in DOMAIN threads[CallOf(f).p]
    BY <1>2 DEF Aimed, CallOf, Calls
  <2>1. k \in DOMAIN stack[b] /\ f = stack[b][k]
    BY <1>3, <1>5
  <2>. QED BY <2>1 DEF UpInv, Aimed
<1>9. \A u \in Thread, j \in Job : QueuedOn(j, u)' => QueuedOn(j, u)
  BY <1>2 DEF QueuedOn
<1>. QED BY <1>2, <1>6, <1>7, <1>8, <1>9, JobsKept

\* A job that returns has joined what it has submitted.
LEMMA ReturnUp ==
  ASSUME PoolInv, DoneInv, UpInv, NEW t \in Thread, JobReturn(t), script' = script
  PROVE  UpInv'
<1>1. script \in Scripts /\ stack \in [Actor -> Seq(FrameRec)] /\ t \in Actor
  BY DEF PoolInv, PoolTypeOK, Actor
<1>2. UNCHANGED <<proxy, parent, threads, next_thread, futures>>
  BY DEF JobReturn, proxyVars
<1>3. PICK f \in FrameRec : f = Top(t)
  BY Returned
<1>4. PICK job \in Job : job = f.run
  BY <1>3, Returned
<1>5. /\ stack[t] # <<>> /\ f.ip > Len(Calls(job)) /\ finished' = finished \cup {job}
      /\ \A b \in Actor : \A k \in DOMAIN stack'[b] : k \in DOMAIN stack[b] /\ stack'[b][k] = stack[b][k]
      /\ \A u \in Thread, j \in Job : QueuedOn(j, u)' => QueuedOn(j, u)
  BY <1>3, <1>4, Returned
<1>6. FramesShrink
  <2>. SUFFICES ASSUME NEW b \in Actor, NEW k \in DOMAIN stack'[b], NEW h \in FrameRec, NEW q \in Proxy,
                       h = stack'[b][k], Allocated(h, q)'
       PROVE  k \in DOMAIN stack[b] /\ h = stack[b][k] /\ Allocated(h, q)
    BY DEF FramesShrink
  <2>1. Allocated(h, q)
    BY DEF Allocated, Calls
  <2>. QED BY <1>5, <2>1
<1>7. LeftDone'
  <2>. SUFFICES ASSUME NEW r \in finished', NEW m \in DOMAIN Calls(r), Calls(r)[m].call = "do_job"
       PROVE  Calls(r)[m].job \in finished'
    BY DEF LeftDone, Calls
  <2>1. CASE r \in finished
    BY <1>5, <2>1 DEF UpInv, LeftDone
  <2>2. CASE r = job
    <3>1. m \in Nat /\ m < f.ip /\ f.ip \in Nat /\ DOMAIN Calls(job) = 1 .. Len(Calls(job)) /\ Len(Calls(job)) \in Nat
      BY <1>1, <1>3, <1>5, <2>2, ScriptCalls, RecordOf
    <3>2. Made(f, m)
      BY <1>4, <2>2, <3>1 DEF Made
    <3>3. PICK k \in DOMAIN Calls(job) : m < k /\ Calls(job)[k].call = "join" /\ Calls(job)[k].p = Calls(job)[m].p
      BY <1>1, <2>2, JoinAfter
    <3>4. After(f, m, "join")
      <4>1. k < f.ip
        BY <1>5, <3>1, <3>3
      <4>. QED BY <1>4, <3>3, <4>1 DEF After
    <3>5. Owed(t, f, m)
      <4>1. Len(stack[t]) \in DOMAIN stack[t] /\ Top(t) = stack[t][Len(stack[t])]
        BY <1>1, <1>5, TopFrame
      <4>. QED BY <1>1, <1>3, <3>1, <3>2, <4>1 DEF DoneInv, Settled
    <3>. QED BY <1>4, <1>5, <2>2, <3>4, <3>5 DEF Owed
  <2>. QED BY <1>5, <2>1, <2>2
<1>8. Aimed'
  BY <1>2, <1>5 DEF UpInv, Aimed, CallOf, Calls
<1>. QED BY <1>2, <1>5, <1>6, <1>7, <1>8, JobsKept

\* allocate_threads: the proxy was not in use, and a nested one gets the running
\* job's thread first and then threads above those of its ancestors.
LEMMA AllocateUp ==
  ASSUME PoolInv, DoneInv, UpInv, NEW a \in Actor, AllocateTopLevel(a) \/ AllocateNested(a), script' = script
  PROVE  UpInv'
<1>1. TypeOK /\ script \in Scripts /\ stack \in [Actor -> Seq(FrameRec)] /\ LeftDone /\ Nested
  BY DEF PoolInv, PoolTypeOK, UpInv
<1>2. PICK p, g, f : p = CallOf(Top(a)).p /\ g = NextCall(Top(a)) /\ f = Top(a)
  OBVIOUS
<1>3. /\ AtCall(a, "allocate") /\ Goto(a, g) /\ threads[p] = <<>>
      /\ UNCHANGED <<jobs, proxy, finished, next_thread, futures>>
  BY <1>2 DEF AllocateTopLevel, AllocateNested, jobVars
<1>4. /\ stack[a] # <<>> /\ f \in FrameRec /\ f.ip \in DOMAIN Calls(f.run) /\ CallOf(f).call = "allocate"
      /\ CallOf(f) = Calls(f.run)[f.ip] /\ CallOf(f).p = p /\ p \in Proxy
  BY <1>2, <1>3, AtCallFacts
<1>5. g \in FrameRec /\ g.run = f.run /\ g.ip = f.ip + 1 /\ g.pc = "body"
  <2>1. Fields(g, f, "body", f.ip + 1)
    BY <1>2, <1>4, NextForm
  <2>. QED BY <1>4, <2>1, RecordOf DEF Fields
<1>6. /\ \A q \in Proxy : q # p => threads'[q] = threads[q] /\ parent'[q] = parent[q]
      /\ parent' \in [Proxy -> Proxy \cup {NULL}]
  <2>1. CASE AllocateTopLevel(a)
    BY <1>1, <1>2, <2>1 DEF AllocateTopLevel, TypeOK
  <2>2. CASE AllocateNested(a)
    <3>1. PICK par : par = proxy[jobs[a][running_job[a]]]
      OBVIOUS
    <3>2. /\ parent' = [parent EXCEPT ![p] = par] /\ a \in Thread
          /\ \A q \in Proxy : q # p => threads'[q] = threads[q]
      BY <1>1, <1>2, <2>2, <3>1 DEF AllocateNested, TypeOK
    <3>3. par \in Proxy \cup {NULL}
      <4>1. Top(a).index \in DOMAIN jobs[a] /\ running_job[a] = Top(a).index /\ jobs[a] \in Seq(Job)
        BY <1>1, <1>4, <3>2, TopFrame DEF TypeOK
      <4>2. jobs[a][running_job[a]] \in Job
        BY <4>1
      <4>. QED BY <1>1, <3>1, <4>2 DEF TypeOK
    <3>. QED BY <1>1, <3>2, <3>3 DEF TypeOK
  <2>. QED BY <2>1, <2>2
<1>7. ~Active(p) /\ \A q \in Proxy : Active(q) => p \notin Ancestors(q)
  BY <1>1, <1>3, <1>4, InUse
<1>8. ASSUME NEW b \in Actor, NEW i \in DOMAIN stack'[b], NEW h \in FrameRec, h = stack'[b][i],
             NEW q \in Proxy, q # p, Allocated(h, q)'
      PROVE  i \in DOMAIN stack[b] /\ \E k \in FrameRec : k = stack[b][i] /\ k.run = h.run /\ Allocated(k, q)
  <2>1. /\ i \in DOMAIN stack[b] /\ stack[b][i] \in FrameRec
        /\ \/ stack'[b][i] = stack[b][i]
           \/ stack[b][i] = f /\ stack'[b][i] = g
    BY <1>2, <1>3, <1>4, <1>5, FrameOf
  <2>2. PICK k \in FrameRec : k = stack[b][i]
    BY <2>1
  <2>3. k.run = h.run /\ (h.ip = k.ip \/ (h.ip = k.ip + 1 /\ ~(CallOf(k).call = "allocate" /\ CallOf(k).p = q)))
    <3>1. CASE h = k
      BY <3>1
    <3>2. CASE k = f /\ h = g
      BY <1>4, <1>5, <1>8, <3>2
    <3>. QED BY <1>8, <2>1, <2>2, <3>1, <3>2
  <2>4. Allocated(k, q)
    BY <1>1, <1>8, <2>2, <2>3, AllocatedBefore
  <2>. QED BY <2>1, <2>2, <2>3, <2>4
<1>9. \A q \in Proxy : q # p /\ Active(q)' => Active(q)
  BY <1>8 DEF Active
<1>10. \A q \in Proxy : Active(q) =>
         /\ q # p /\ threads'[q] = threads[q] /\ parent'[q] = parent[q]
         /\ Ancestors(q)' = Ancestors(q) /\ Taken(q)' = Taken(q)
  <2>. TAKE q \in Proxy
  <2>. HAVE Active(q)
  <2>1. q # p /\ \A r \in Ancestors(q) : r \in Proxy /\ r # p
    BY <1>1, <1>7, InUse
  <2>2. \A r \in Ancestors(q) : parent'[r] = parent[r] /\ threads'[r] = threads[r]
    BY <1>6, <2>1
  <2>3. Ancestors(q)' = Ancestors(q)
    BY <1>1, <1>6, <2>2, SameAncestors DEF TypeOK
  <2>4. Taken(q)' = Taken(q)
    BY <2>2, <2>3 DEF Taken, Uses
  <2>. QED BY <1>6, <2>1, <2>3, <2>4
<1>11. \A j : \A t \in Thread : QueuedOn(j, t) => j \in Job /\ j \notin finished /\ proxy[j] \in Proxy /\ Active(proxy[j])
  BY <1>1, QueuedInUse
<1>12. \A j : \A t \in Thread : QueuedOn(j, t)' <=> QueuedOn(j, t)
  BY <1>3 DEF QueuedOn
<1>13. /\ \A r \in Proxy : parent'[p] = r => Ancestors(p)' = {p} \cup Ancestors(r)'
       /\ parent'[p] = NULL => Ancestors(p)' = {p}
  <2>1. Chain'
    BY ChainsEnd, PTL
  <2>. QED BY <1>4, <1>6, <2>1 DEF Chain
<1>14. /\ \E b \in 0 .. N : Taken(p)' = 1 .. b
       /\ a \in Thread => parent'[p] = proxy[f.run]
       /\ parent'[p] # NULL => \A i \in DOMAIN threads'[p] : i # 1 => threads'[p][1] < threads'[p][i]
  <2>1. CASE AllocateTopLevel(a)
    <3>1. parent' = parent /\ a \in Client /\ threads'[p] = [i \in 1 .. granted(CallOf(f).n) |-> i]
      BY <1>1, <1>2, <1>4, <2>1 DEF AllocateTopLevel, TypeOK
    <3>2. parent[p] = NULL
      <4>1. f.run = a
        BY <1>2, <1>4, <3>1, TopFrame
      <4>. QED BY <1>4, <3>1, <4>1 DEF PoolInv, OwnProxies
    <3>3. PICK k \in 1 .. N : k = granted(CallOf(f).n)
      <4>1. CallOf(f).n \in Nat
        BY <1>2, <1>3, AtCallFacts DEF Call
      <4>. QED BY <4>1, ThreadPoolAssumption DEF granted
    <3>4. Taken(p)' = {t \in Thread : Contains(threads'[p], t)}
      BY <1>13, <3>1, <3>2 DEF Taken, Uses
    <3>5. Taken(p)' = 1 .. k
      <4>1. \A t \in Thread : Contains([i \in 1 .. k |-> i], t) <=> t \in 1 .. k
        <5>1. Len([i \in 1 .. k |-> i]) = k
          OBVIOUS
        <5>. QED BY <5>1 DEF Contains
      <4>2. 1 .. k \subseteq Thread
        BY ThreadPoolAssumption DEF Thread
      <4>. QED BY <3>1, <3>3, <3>4, <4>1, <4>2
    <3>6. a \notin Thread
      BY <3>1, ThreadPoolAssumption
    <3>. QED BY <3>1, <3>2, <3>5, <3>6, ThreadPoolAssumption
  <2>2. CASE AllocateNested(a)
    <3>1. PICK par, c, s : /\ par = proxy[jobs[a][running_job[a]]] /\ c = granted(CallOf(f).n)
                           /\ s = fill_threads_for_nested_proxy(par, a, c)
      OBVIOUS
    <3>2. parent'[p] = par /\ a \in Thread /\ threads'[p] = s
      BY <1>1, <1>2, <1>4, <2>2, <3>1 DEF AllocateNested, TypeOK
    <3>3. running_job[a] \in DOMAIN jobs[a] /\ jobs[a][running_job[a]] = f.run
      BY <1>2, <1>4, <3>2, TopFrame
    <3>4. QueuedOn(f.run, a) /\ par = proxy[f.run]
      BY <3>1, <3>3 DEF QueuedOn
    <3>5. f.run \in Job /\ par \in Proxy /\ Active(par)
      BY <1>11, <3>2, <3>4
    <3>6. PICK m \in 0 .. N : Taken(par) = 1 .. m
      BY <3>5 DEF UpInv, Segments
    <3>7. \A u \in Thread : is_free(par, u) <=> m < u
      <4>1. \A u \in Thread : is_free(par, u) <=> u \notin Taken(par)
        BY DEF is_free, Taken
      <4>. QED BY <3>6, <4>1, ThreadPoolAssumption DEF Thread
    <3>8. a <= m
      <4>1. Uses(par, a)
        BY <3>2, <3>4, <3>5 DEF UpInv, Members
      <4>2. par \in Ancestors(par)
        BY <1>1, <3>5, Hierarchy DEF TypeOK
      <4>3. a \in Taken(par)
        BY <3>2, <4>1, <4>2 DEF Taken
      <4>. QED BY <3>6, <4>3
    <3>9. s \in Seq(Thread) /\ s # <<>> /\ s[1] = a
      BY <3>1, <3>2, Filled
    <3>10. /\ \A i \in DOMAIN s : i # 1 => m < s[i]
           /\ \E b \in m .. N : (1 .. m) \cup ToSet(s) = 1 .. b
      BY <3>1, <3>2, <3>7, <3>8, FilledAbove
    <3>11. Ancestors(p)' = {p} \cup Ancestors(par) /\ Taken(par)' = Taken(par) /\ Ancestors(par)' = Ancestors(par)
      BY <1>10, <1>13, <3>2, <3>5
    <3>12. Taken(p)' = Taken(par) \cup ToSet(s)
      <4>1. Taken(p)' = {t \in Thread : Contains(s, t)} \cup Taken(par)'
        BY <3>2, <3>11 DEF Taken, Uses
      <4>2. \A t \in Thread : Contains(s, t) <=> t \in ToSet(s)
        BY <3>9 DEF Contains, ToSet
      <4>3. ToSet(s) \subseteq Thread
        BY <3>9 DEF ToSet
      <4>. QED BY <3>11, <4>1, <4>2, <4>3
    <3>13. \E b \in 0 .. N : Taken(p)' = 1 .. b
      <4>1. PICK b \in m .. N : (1 .. m) \cup ToSet(s) = 1 .. b
        BY <3>10
      <4>2. b \in 0 .. N
        BY ThreadPoolAssumption
      <4>. QED BY <3>6, <3>12, <4>1, <4>2
    <3>14. \A i \in DOMAIN s : i # 1 => s[1] < s[i]
      <4>. SUFFICES ASSUME NEW i \in DOMAIN s, i # 1 PROVE s[1] < s[i]
        OBVIOUS
      <4>1. m < s[i] /\ s[i] \in Thread
        BY <3>9, <3>10
      <4>. QED BY <3>2, <3>8, <3>9, <4>1, ThreadPoolAssumption DEF Thread
    <3>. QED BY <3>2, <3>4, <3>13, <3>14
  <2>. QED BY <2>1, <2>2
<1>15. LeftDone'
  BY <1>1, <1>3 DEF LeftDone, Calls
<1>16. Nested'
  <2>. SUFFICES ASSUME NEW t \in Thread, NEW i \in DOMAIN stack'[t], NEW h \in FrameRec, NEW q \in Proxy,
                       h = stack'[t][i], Allocated(h, q)'
       PROVE  parent'[q] = proxy[h.run]
    BY <1>3 DEF Nested
  <2>1. t \in Actor
    BY DEF Actor
  <2>2. CASE q # p
    <3>1. i \in DOMAIN stack[t] /\ \E k \in FrameRec : k = stack[t][i] /\ k.run = h.run /\ Allocated(k, q)
      BY <1>8, <2>1, <2>2
    <3>2. parent[q] = proxy[h.run]
      BY <1>1, <3>1 DEF Nested
    <3>. QED BY <1>6, <2>2, <3>2
  <2>3. CASE q = p
    <3>1. /\ i \in DOMAIN stack[t] /\ stack[t][i] \in FrameRec
          /\ \/ stack'[t][i] = stack[t][i] /\ ~(t = a /\ i = Len(stack[a]))
             \/ t = a /\ i = Len(stack[a]) /\ stack[t][i] = f /\ stack'[t][i] = g
      BY <1>2, <1>3, <1>4, <1>5, <2>1, FrameOf
    <3>2. CASE h = g /\ t = a
      BY <1>5, <1>14, <2>3, <3>2
    <3>3. CASE h = stack[t][i] /\ ~(t = a /\ i = Len(stack[a]))
      <4>1. Allocated(h, p)
        BY <2>3 DEF Allocated, Calls
      <4>. QED BY <1>7, <2>1, <3>1, <3>3, <4>1 DEF Active
    <3>. QED BY <3>1, <3>2, <3>3
  <2>. QED BY <2>2, <2>3
<1>17. Segments'
  <2>. SUFFICES ASSUME NEW q \in Proxy, Active(q)' PROVE \E b \in 0 .. N : Taken(q)' = 1 .. b
    BY DEF Segments
  <2>1. CASE q = p
    BY <1>14, <2>1
  <2>2. CASE q # p
    BY <1>9, <1>10, <2>2 DEF UpInv, Segments
  <2>. QED BY <2>1, <2>2
<1>18. Members'
  <2>. SUFFICES ASSUME NEW t \in Thread, NEW j \in Job, QueuedOn(j, t) PROVE Uses(proxy[j], t)'
    BY <1>3, <1>12 DEF Members, Uses
  <2>1. Uses(proxy[j], t) /\ threads'[proxy[j]] = threads[proxy[j]]
    BY <1>10, <1>11 DEF UpInv, Members
  <2>. QED BY <1>3, <2>1 DEF Uses
<1>19. Aimed'
  <2>. SUFFICES ASSUME NEW b \in Actor, NEW i \in DOMAIN stack'[b], NEW h \in FrameRec,
                       h = stack'[b][i], h.pc = "emplace"
       PROVE  next_thread[CallOf(h).p] + 1 \in DOMAIN threads'[CallOf(h).p]
    BY <1>3 DEF Aimed, CallOf, Calls
  <2>1. i \in DOMAIN stack[b] /\ h = stack[b][i] /\ ~(b = a /\ i = Len(stack[a]))
    BY <1>2, <1>3, <1>4, <1>5, FrameOf
  <2>2. InCall(h)
    BY <2>1 DEF PoolInv, Frames
  <2>3. h.ip \in DOMAIN Calls(h.run) /\ Calls(h.run)[h.ip].call = "do_job"
    BY <2>2 DEF InCall, CallOf
  <2>4. CallOf(h).p \in Proxy /\ CallOf(h).p # p
    BY <1>2, <1>4, <2>1, <2>3, OtherProxy DEF CallOf
  <2>. QED BY <1>6, <2>1, <2>4 DEF UpInv, Aimed
<1>20. Above'
  <2>. SUFFICES ASSUME NEW q \in Proxy, Active(q)', parent'[q] # NULL, NEW i \in DOMAIN threads'[q], i # 1
       PROVE  threads'[q][1] < threads'[q][i]
    BY DEF Above
  <2>1. CASE q = p
    BY <1>14, <2>1
  <2>2. CASE q # p
    BY <1>6, <1>9, <2>2 DEF UpInv, Above
  <2>. QED BY <2>1, <2>2
<1>21. Held'
  <2>. SUFFICES ASSUME NEW q \in Proxy, NEW j \in ToSet(futures[q])
       PROVE  /\ proxy[j] = q
              /\ parent'[q] # NULL => \A t \in Thread : QueuedOn(j, t) => threads'[q][1] < t
    BY <1>3, <1>12 DEF Held
  <2>1. /\ proxy[j] = q
        /\ parent[q] # NULL => \A t \in Thread : QueuedOn(j, t) => threads[q][1] < t
    BY DEF UpInv, Held
  <2>2. CASE q = p
    <3>1. \A t \in Thread : ~QueuedOn(j, t)
      BY <1>7, <1>11, <2>1, <2>2
    <3>. QED BY <2>1, <3>1
  <2>3. CASE q # p
    BY <1>6, <2>1, <2>3
  <2>. QED BY <2>2, <2>3
<1>. QED BY <1>15, <1>16, <1>17, <1>18, <1>19, <1>20, <1>21 DEF UpInv

\* The second half of do_job: the job goes to a thread of the proxy, and not to
\* the first one of a nested proxy that keeps its future.
LEMMA EmplaceUp ==
  ASSUME PoolInv, DoneInv, UpInv, NEW a \in Actor, DoJobEmplace(a), script' = script
  PROVE  UpInv'
<1>1. TypeOK /\ script \in Scripts /\ LeftDone /\ Nested
  BY DEF PoolInv, PoolTypeOK, UpInv
<1>2. PICK f, c, j, p, t, g : f = Top(a) /\ c = CallOf(f) /\ j = c.job /\ p = c.p /\ t = f.to /\ g = Emplacing(f, p)
  OBVIOUS
<1>3. /\ stack[a] # <<>> /\ f \in FrameRec /\ f.pc = "emplace" /\ f.ip \in Nat
      /\ f.ip \in DOMAIN Calls(f.run) /\ c = Calls(f.run)[f.ip] /\ c.call = "do_job" /\ p \in Proxy /\ j \in Job
      /\ t \in Thread
      /\ Goto(a, g) /\ g \in FrameRec /\ g.run = f.run
      /\ Own(p) => g.ip = f.ip + 1 /\ g.pc = "body"
      /\ ~Own(p) => g.ip = f.ip /\ g.pc = "notify"
      /\ proxy'[j] = p /\ \A i \in Job : proxy[i] # NULL => i # j
      /\ \A i \in Job : i # j => proxy'[i] = proxy[i]
      /\ \A u \in Thread, i \in Job : QueuedOn(i, u)' <=> QueuedOn(i, u) \/ (i = j /\ u = t)
  BY <1>2, Emplaced
<1>4. /\ UNCHANGED <<finished, parent, threads, next_thread>> /\ futures' = [futures EXCEPT ![p] = kept(p, j)]
  BY <1>2 DEF DoJobEmplace
<1>5. g.pc # "emplace" /\ (g.ip = f.ip \/ g.ip = f.ip + 1)
  BY <1>3
<1>6. FramesShrink
  BY <1>2, <1>3, <1>5, GotoShrinks
<1>7. Nested' /\ Segments' /\ Above'
  BY <1>3, <1>4, <1>6, ProxiesKept
<1>8. LeftDone'
  BY <1>1, <1>4 DEF LeftDone, Calls
<1>9. Aimed'
  <2>. SUFFICES ASSUME NEW b \in Actor, NEW i \in DOMAIN stack'[b], NEW h \in FrameRec,
                       h = stack'[b][i], h.pc = "emplace"
       PROVE  next_thread[CallOf(h).p] + 1 \in DOMAIN threads[CallOf(h).p]
    BY <1>4 DEF Aimed, CallOf, Calls
  <2>1. i \in DOMAIN stack[b] /\ h = stack[b][i]
    BY <1>3, <1>5, FrameOf
  <2>. QED BY <2>1 DEF UpInv, Aimed
<1>10. /\ t = threads[p][next_thread[p] + 1] /\ next_thread[p] + 1 \in DOMAIN threads[p]
       /\ Len(stack[a]) \in DOMAIN stack[a] /\ f = stack[a][Len(stack[a])]
  <2>1. Len(stack[a]) \in DOMAIN stack[a] /\ f = stack[a][Len(stack[a])]
    BY <1>2, <1>3, TopFrame
  <2>2. a \in Actor /\ f.pc = "emplace" /\ f \in FrameRec /\ CallOf(f).p = p
    BY <1>2, <1>3
  <2>3. next_thread[p] + 1 \in DOMAIN threads[p]
    BY <2>1, <2>2 DEF UpInv, Aimed
  <2>4. t = threads[p][next_thread[p] + 1]
    BY <2>1, <2>2, <1>2 DEF DoneInv, Target
  <2>. QED BY <2>1, <2>3, <2>4
<1>11. Uses(p, t)
  <2>1. threads[p] \in Seq(Thread)
    BY <1>1, <1>3 DEF TypeOK
  <2>. QED BY <1>10, <2>1 DEF Uses, Contains
<1>12. \A u \in Thread, i \in Job : QueuedOn(i, u) => i # j
  <2>. TAKE u \in Thread, i \in Job
  <2>. HAVE QueuedOn(i, u)
  <2>1. proxy[i] # NULL
    BY DEF QueuedOn, PoolInv, Queues
  <2>. QED BY <1>3, <2>1
<1>13. Members'
  <2>. SUFFICES ASSUME NEW u \in Thread, NEW i \in Job, QueuedOn(i, u)' PROVE Uses(proxy'[i], u)
    BY <1>4 DEF Members, Uses
  <2>1. CASE QueuedOn(i, u)
    BY <1>3, <1>12, <2>1 DEF UpInv, Members
  <2>2. CASE i = j /\ u = t
    BY <1>3, <1>11, <2>2
  <2>. QED BY <1>3, <2>1, <2>2
<1>14. \A q \in Proxy : q # p => futures'[q] = futures[q]
  BY <1>1, <1>4 DEF TypeOK
<1>15. \A i : i \in ToSet(futures'[p]) => i \in ToSet(futures[p]) \/ (i = j /\ ~Own(p))
  <2>1. futures'[p] = kept(p, j) /\ futures[p] \in Seq(Job)
    BY <1>1, <1>3, <1>4 DEF TypeOK
  <2>2. CASE Own(p)
    BY <2>1, <2>2 DEF kept
  <2>3. CASE ~Own(p)
    <3>1. futures'[p] = Append(futures[p], j)
      BY <2>1, <2>3 DEF kept
    <3>2. /\ DOMAIN Append(futures[p], j) = DOMAIN futures[p] \cup {Len(futures[p]) + 1}
          /\ DOMAIN futures[p] = 1 .. Len(futures[p])
          /\ Append(futures[p], j)[Len(futures[p]) + 1] = j
          /\ \A k \in 1 .. Len(futures[p]) : Append(futures[p], j)[k] = futures[p][k]
      BY <1>3, <2>1, Appended
    <3>. QED BY <2>3, <3>1, <3>2 DEF ToSet
  <2>. QED BY <2>2, <2>3
<1>16. Active(p)
  <2>1. PICK m \in DOMAIN Calls(f.run) : m < f.ip /\ Calls(f.run)[m].call = "allocate" /\ Calls(f.run)[m].p = p
    BY <1>1, <1>2, <1>3, Usage
  <2>2. \A n \in DOMAIN Calls(f.run) : n < f.ip /\ Calls(f.run)[n].call = "destroy_proxy" => Calls(f.run)[n].p # p
    BY <1>1, <1>2, <1>3, Usage
  <2>3. Allocated(f, p)
    BY <2>1, <2>2 DEF Allocated
  <2>. QED BY <1>3, <1>10, <2>3 DEF Active
<1>17. ~Own(p) /\ parent[p] # NULL => threads[p][1] < t
  <2>. SUFFICES ASSUME ~Own(p), parent[p] # NULL PROVE threads[p][1] < t
    OBVIOUS
  <2>1. next_thread[p] # 0 /\ next_thread[p] \in Nat
    BY <1>1, <1>3 DEF Own, is_top_level, TypeOK
  <2>. QED BY <1>3, <1>10, <1>16, <2>1 DEF UpInv, Above
<1>18. Held'
  <2>. SUFFICES ASSUME NEW q \in Proxy, NEW i \in ToSet(futures'[q])
       PROVE  /\ proxy'[i] = q
              /\ parent[q] # NULL => \A u \in Thread : QueuedOn(i, u)' => threads[q][1] < u
    BY <1>4 DEF Held
  <2>1. CASE i \in ToSet(futures[q])
    <3>1. i \in Job
      <4>1. futures[q] \in Seq(Job)
        BY <1>1 DEF TypeOK
      <4>. QED BY <2>1, <4>1 DEF ToSet
    <3>2. proxy[i] = q /\ (parent[q] # NULL => \A u \in Thread : QueuedOn(i, u) => threads[q][1] < u)
      BY <2>1 DEF UpInv, Held
    <3>3. proxy[i] # NULL
      BY <3>2, ThreadPoolAssumption
    <3>. QED BY <1>3, <3>1, <3>2, <3>3
  <2>2. CASE i \notin ToSet(futures[q])
    <3>1. q = p /\ i = j /\ ~Own(p)
      BY <1>14, <1>15, <2>2
    <3>2. \A u \in Thread : QueuedOn(j, u)' => u = t
      BY <1>3, <1>12
    <3>. QED BY <1>3, <1>17, <3>1, <3>2
  <2>. QED BY <2>1, <2>2
<1>. QED BY <1>7, <1>8, <1>9, <1>13, <1>18 DEF UpInv

\* The destructor of a proxy: it was joined, so nobody uses it any more.
LEMMA DestroyUp ==
  ASSUME PoolInv, DoneInv, UpInv, PoolInv', DoneInv', NEW a \in Actor, DestroyProxy(a), script' = script
  PROVE  UpInv'
<1>1. TypeOK /\ script \in Scripts /\ LeftDone /\ Nested
  BY DEF PoolInv, PoolTypeOK, UpInv
<1>2. PICK p, g, f : p = CallOf(Top(a)).p /\ g = NextCall(Top(a)) /\ f = Top(a)
  OBVIOUS
<1>3. AtCall(a, "destroy_proxy") /\ UNCHANGED <<jobs, proxy, finished, parent, next_thread, futures>>
  BY DEF DestroyProxy, jobVars
<1>4. /\ stack[a] # <<>> /\ f \in FrameRec /\ f.ip \in DOMAIN Calls(f.run) /\ CallOf(f).call = "destroy_proxy"
      /\ CallOf(f) = Calls(f.run)[f.ip] /\ CallOf(f).p = p /\ p \in Proxy
  BY <1>2, <1>3, AtCallFacts
<1>5. CASE futures[p] # <<>>
  <2>1. UNCHANGED <<stack, threads>>
    BY <1>2, <1>5 DEF DestroyProxy
  <2>2. UNCHANGED <<script, proxyVars, jobs, proxy, finished, stack>>
    BY <1>3, <2>1 DEF proxyVars
  <2>. QED BY <2>2, QuietUp
<1>6. CASE futures[p] = <<>>
  <2>1. threads' = [threads EXCEPT ![p] = <<>>] /\ Goto(a, g)
    BY <1>2, <1>6 DEF DestroyProxy
  <2>2. \A q \in Proxy : q # p => threads'[q] = threads[q]
    BY <1>1, <2>1 DEF TypeOK
  <2>3. g \in FrameRec /\ g.run = f.run /\ g.ip = f.ip + 1 /\ g.pc = "body"
    <3>1. Fields(g, f, "body", f.ip + 1)
      BY <1>2, <1>4, NextForm
    <3>. QED BY <1>4, <3>1, RecordOf DEF Fields
  <2>4. FramesShrink
    BY <1>2, <1>4, <2>1, <2>3, GotoShrinks
  <2>5. LeftDone'
    BY <1>1, <1>3 DEF LeftDone, Calls
  <2>6. \A q \in Proxy : Active(q)' => Active(q)
    BY <2>4 DEF FramesShrink, Active
  <2>7. Nested'
    <3>. SUFFICES ASSUME NEW t \in Thread, NEW i \in DOMAIN stack'[t], NEW h \in FrameRec, NEW q \in Proxy,
                         h = stack'[t][i], Allocated(h, q)'
         PROVE  parent[q] = proxy[h.run]
      BY <1>3 DEF Nested
    <3>1. t \in Actor
      BY DEF Actor
    <3>2. PICK k \in DOMAIN stack[t] : \E e \in FrameRec : e = stack[t][k] /\ e.run = h.run /\ Allocated(e, q)
      BY <2>4, <3>1 DEF FramesShrink
    <3>. QED BY <1>1, <3>2 DEF Nested
  <2>8. ~Active(p)'
    <3>1. threads'[p] = <<>>
      BY <1>1, <1>4, <2>1 DEF TypeOK
    <3>. QED BY <1>4, <3>1 DEF Active, PoolInv, OwnProxies
  <2>9. \A q \in Proxy : Active(q)' => Taken(q)' = Taken(q)
    <3>. TAKE q \in Proxy
    <3>. HAVE Active(q)'
    <3>1. Ancestors(q)' = Ancestors(q)
      BY <1>3 DEF Ancestors, Upwards
    <3>2. \A r \in Ancestors(q)' : r \in Proxy /\ Active(r)'
      <4>1. UsesActive'
        BY ActiveUpwards, PTL
      <4>. QED BY <2>5, <2>7, <4>1 DEF UsesActive
    <3>3. \A r \in Ancestors(q) : threads'[r] = threads[r]
      BY <2>2, <2>8, <3>1, <3>2
    <3>. QED BY <3>1, <3>3 DEF Taken, Uses
  <2>10. Segments'
    BY <2>6, <2>9 DEF UpInv, Segments
  <2>11. Members'
    <3>. SUFFICES ASSUME NEW t \in Thread, NEW j \in Job, QueuedOn(j, t)' PROVE Uses(proxy[j], t)'
      BY <1>3 DEF Members, Uses
    <3>1. PICK q \in Proxy : q = proxy[j] /\ Active(q)'
      <4>1. QueuedActive'
        BY QueuedIsActive, PTL
      <4>2. proxy'[j] \in Proxy /\ Active(proxy[j])'
        BY <2>5, <4>1 DEF QueuedActive
      <4>. QED BY <1>3, <4>2 DEF Active
    <3>2. Uses(proxy[j], t)
      BY <1>3 DEF UpInv, Members, QueuedOn
    <3>3. threads'[proxy[j]] = threads[proxy[j]]
      BY <2>2, <2>8, <3>1
    <3>. QED BY <1>3, <3>2, <3>3 DEF Uses
  <2>12. Aimed'
    <3>. SUFFICES ASSUME NEW b \in Actor, NEW i \in DOMAIN stack'[b], NEW h \in FrameRec,
                         h = stack'[b][i], h.pc = "emplace"
         PROVE  next_thread[CallOf(h).p] + 1 \in DOMAIN threads'[CallOf(h).p]
      BY <1>3 DEF Aimed, CallOf, Calls
    <3>1. i \in DOMAIN stack[b] /\ h = stack[b][i] /\ ~(b = a /\ i = Len(stack[a]))
      BY <1>4, <2>1, <2>3, FrameOf
    <3>2. InCall(h)
      BY <3>1 DEF PoolInv, Frames
    <3>3. h.ip \in DOMAIN Calls(h.run) /\ Calls(h.run)[h.ip].call = "do_job"
      BY <3>2 DEF InCall, CallOf
    <3>4. CallOf(h).p \in Proxy /\ CallOf(h).p # p
      BY <1>2, <1>4, <3>1, <3>3, OtherProxy DEF CallOf
    <3>. QED BY <2>2, <3>1, <3>4 DEF UpInv, Aimed
  <2>13. Above'
    <3>. SUFFICES ASSUME NEW q \in Proxy, Active(q)', parent[q] # NULL, NEW i \in DOMAIN threads'[q], i # 1
         PROVE  threads'[q][1] < threads'[q][i]
      BY <1>3 DEF Above
    <3>1. q # p
      BY <2>8
    <3>. QED BY <2>2, <2>6, <3>1 DEF UpInv, Above
  <2>14. Held'
    <3>. SUFFICES ASSUME NEW q \in Proxy, NEW j \in ToSet(futures[q])
         PROVE  /\ proxy[j] = q
                /\ parent[q] # NULL => \A t \in Thread : QueuedOn(j, t) => threads'[q][1] < t
      BY <1>3 DEF Held, QueuedOn
    <3>1. q # p
      BY <1>6 DEF ToSet
    <3>. QED BY <2>2, <3>1 DEF UpInv, Held
  <2>. QED BY <2>5, <2>7, <2>10, <2>11, <2>12, <2>13, <2>14 DEF UpInv
<1>. QED BY <1>5, <1>6

LEMMA NextUpInv == PoolInv /\ DoneInv /\ UpInv /\ PoolInv' /\ DoneInv' /\ [Next]_vars => UpInv'
<1>. SUFFICES ASSUME PoolInv, DoneInv, UpInv, PoolInv', DoneInv', [Next]_vars PROVE UpInv'
  OBVIOUS
<1>1. TypeOK /\ script \in Scripts
  BY DEF PoolInv, PoolTypeOK
<1>2. \A a \in Actor : stack[a] # <<>> => Top(a) \in FrameRec /\ InCall(Top(a)) /\ Top(a).ip \in Nat
  BY TopFrame, RecordOf
<1>3. ASSUME NEW a \in Actor, script' = script, NEW g, Goto(a, g), stack[a] # <<>>,
             NEW pc, NEW ip, Fields(g, Top(a), pc, ip), pc # "emplace",
             \/ ip = Top(a).ip
             \/ ip = Top(a).ip + 1 /\ CallOf(Top(a)).call # "allocate",
             UNCHANGED <<jobs, proxy, finished, parent, threads, next_thread>>,
             \A q \in Proxy : ToSet(futures'[q]) \subseteq ToSet(futures[q])
      PROVE  UpInv'
  <2>1. g \in FrameRec /\ g.run = Top(a).run /\ g.ip = ip /\ g.pc = pc
    BY <1>2, <1>3, RecordOf DEF Fields
  <2>. QED BY <1>3, <2>1, GotoUp
<1>4. ASSUME NEW a \in Actor, CallStep(a), script' = script PROVE UpInv'
  <2>1. PICK p : p = CallOf(Top(a)).p
    OBVIOUS
  <2>2. CASE AllocateTopLevel(a) \/ AllocateNested(a)
    BY <1>4, <2>2, AllocateUp
  <2>3. CASE AllocateCorrupted(a)
    BY <1>4, <2>3, QuietUp DEF AllocateCorrupted, jobVars
  <2>4. CASE DoJob(a)
    BY <1>4, <2>4, DoJobUp
  <2>5. CASE DoJobEmplace(a)
    BY <1>4, <2>5, EmplaceUp
  <2>6. CASE DoJobNotify(a)
    <3>1. PICK g : g = NextCall(Top(a))
      OBVIOUS
    <3>2. /\ stack[a] # <<>> /\ Top(a).pc = "notify" /\ Goto(a, g)
          /\ UNCHANGED <<jobs, proxy, finished, parent, threads, next_thread, futures>>
      BY <2>6, <3>1 DEF DoJobNotify, At, proxyVars, jobVars
    <3>3. CallOf(Top(a)).call = "do_job"
      BY <1>2, <3>2 DEF InCall
    <3>4. Fields(g, Top(a), "body", Top(a).ip + 1)
      BY <1>2, <3>1, <3>2, NextForm
    <3>. QED BY <1>3, <1>4, <3>2, <3>3, <3>4
  <2>7. CASE Join(a)
    <3>1. PICK x, g : x = (IF helps(p) THEN "help" ELSE "await") /\ g = [Top(a) EXCEPT !.pc = x]
      OBVIOUS
    <3>2. AtCall(a, "join") /\ Goto(a, g) /\ UNCHANGED <<jobVars, proxyVars>>
      BY <2>1, <2>7, <3>1 DEF Join
    <3>3. stack[a] # <<>> /\ x \in Places /\ x # "emplace"
      BY <3>1, <3>2, AtCallFacts DEF Places
    <3>4. Fields(g, Top(a), x, Top(a).ip)
      BY <1>2, <3>1, <3>3, PcForm
    <3>5. UNCHANGED <<jobs, proxy, finished, parent, threads, next_thread, futures>>
      BY <3>2 DEF jobVars, proxyVars
    <3>. QED BY <1>3, <1>4, <3>2, <3>3, <3>4, <3>5
  <2>8. CASE At(a, "help") /\ (JoinHelp(a) \/ JoinHelped(a))
    <3>1. stack[a] # <<>> /\ Top(a).pc = "help"
      BY <2>8 DEF At
    <3>2. a \in Thread /\ Top(a).ip \in DOMAIN Calls(Top(a).run) /\ CallOf(Top(a)).call = "join"
      BY <1>2, <3>1, TopFrame DEF InCall, Actor
    <3>3. threads[p][1] = a
      BY <2>1, <3>1, <3>2, CallFacts
    <3>4. CASE JoinHelp(a)
      <4>1. PICK i : i = job_of(p, a)
        OBVIOUS
      <4>2. i # 0 /\ RunJob(a, i) /\ UNCHANGED <<script, proxyVars>>
        BY <1>4, <2>1, <3>3, <3>4, <4>1 DEF JoinHelp
      <4>3. jobs[a] \in Seq(Job)
        BY <1>1, <3>2 DEF TypeOK
      <4>4. i \in DOMAIN jobs[a]
        BY <3>2, <4>1, <4>2, <4>3, JobOf
      <4>. QED BY <3>2, <4>2, <4>4, StartUp
    <3>5. CASE JoinHelped(a)
      <4>1. PICK g : g = [Top(a) EXCEPT !.pc = "await"]
        OBVIOUS
      <4>2. Goto(a, g) /\ UNCHANGED <<jobVars, proxyVars>>
        BY <3>5, <4>1 DEF JoinHelped
      <4>3. Fields(g, Top(a), "await", Top(a).ip)
        <5>1. "await" \in Places
          BY DEF Places
        <5>. QED BY <1>2, <3>1, <4>1, <5>1, PcForm
      <4>4. UNCHANGED <<jobs, proxy, finished, parent, threads, next_thread, futures>>
        BY <4>2 DEF jobVars, proxyVars
      <4>. QED BY <1>3, <1>4, <3>1, <4>2, <4>3, <4>4
    <3>. QED BY <2>8, <3>4, <3>5
  <2>9. CASE JoinWait(a)
    <3>1. PICK g : g = NextCall(Top(a))
      OBVIOUS
    <3>2. /\ stack[a] # <<>> /\ Top(a).pc = "await" /\ Goto(a, g) /\ futures' = [futures EXCEPT ![p] = <<>>]
          /\ UNCHANGED <<jobs, proxy, finished, parent, threads, next_thread>>
      BY <2>1, <2>9, <3>1 DEF JoinWait, At, jobVars
    <3>3. CallOf(Top(a)).call = "join"
      BY <1>2, <3>2 DEF InCall
    <3>4. Fields(g, Top(a), "body", Top(a).ip + 1)
      BY <1>2, <3>1, <3>2, NextForm
    <3>5. \A q \in Proxy : ToSet(futures'[q]) \subseteq ToSet(futures[q])
      <4>1. \A q \in Proxy : futures'[q] = futures[q] \/ futures'[q] = <<>>
        BY <1>1, <3>2 DEF TypeOK
      <4>2. ToSet(<<>>) = {}
        BY DEF ToSet
      <4>. QED BY <4>1, <4>2
    <3>. QED BY <1>3, <1>4, <3>2, <3>3, <3>4, <3>5
  <2>10. CASE DestroyProxy(a)
    BY <1>4, <2>10, DestroyUp
  <2>11. CASE DestroyPool(a)
    <3>1. PICK g : g = [Top(a) EXCEPT !.pc = "wake", !.to = 1]
      OBVIOUS
    <3>2. /\ AtCall(a, "destroy_pool") /\ Goto(a, g) /\ UNCHANGED <<jobVars, proxyVars>>
      BY <2>11, <3>1 DEF DestroyPool
    <3>3. stack[a] # <<>>
      BY <3>2, AtCallFacts
    <3>4. Fields(g, Top(a), "wake", Top(a).ip)
      <4>1. PICK x \in Places : x = "wake"
        BY DEF Places
      <4>2. PICK n \in Nat : n = 1
        OBVIOUS
      <4>3. g = PcTo(Top(a), x, n)
        BY <3>1, <4>1, <4>2 DEF PcTo
      <4>4. Fields(g, Top(a), x, Top(a).ip)
        BY <1>2, <3>3, <4>3, PcToForm
      <4>. QED BY <4>1, <4>4, Zenon
    <3>5. UNCHANGED <<jobs, proxy, finished, parent, threads, next_thread, futures>>
      BY <3>2 DEF jobVars, proxyVars
    <3>. QED BY <1>3, <1>4, <3>2, <3>3, <3>4, <3>5
  <2>12. CASE DestroyPoolWake(a)
    <3>1. PICK g : g = IF Top(a).to < N THEN [Top(a) EXCEPT !.to = @ + 1] ELSE [Top(a) EXCEPT !.pc = "leave"]
      OBVIOUS
    <3>2. /\ stack[a] # <<>> /\ Top(a).pc = "wake" /\ Goto(a, g)
          /\ UNCHANGED <<jobs, proxy, finished, parent, threads, next_thread, futures>>
      BY <2>12, <3>1 DEF DestroyPoolWake, At, proxyVars, jobVars
    <3>3. Top(a).to \in Thread
      BY <1>2, <3>2 DEF InCall
    <3>4. PICK pc : Fields(g, Top(a), pc, Top(a).ip) /\ pc # "emplace"
      <4>1. CASE Top(a).to < N
        <5>1. PICK m \in Nat : m = Top(a).to + 1
          BY <3>3 DEF Thread
        <5>2. g = [Top(a) EXCEPT !.to = m]
          BY <3>1, <4>1, <5>1
        <5>3. Fields(g, Top(a), Top(a).pc, Top(a).ip)
          BY <1>2, <3>2, <5>2, ToForm
        <5>. QED BY <3>2, <5>3
      <4>2. CASE ~(Top(a).to < N)
        <5>1. "leave" \in Places
          BY DEF Places
        <5>2. Fields(g, Top(a), "leave", Top(a).ip)
          BY <1>2, <3>1, <3>2, <4>2, <5>1, PcForm
        <5>. QED BY <5>2
      <4>. QED BY <4>1, <4>2
    <3>. QED BY <1>3, <1>4, <3>2, <3>4
  <2>13. CASE DestroyPoolJoin(a)
    <3>1. PICK g : g = NextCall(Top(a))
      OBVIOUS
    <3>2. /\ stack[a] # <<>> /\ Top(a).pc = "leave" /\ Goto(a, g)
          /\ UNCHANGED <<jobs, proxy, finished, parent, threads, next_thread, futures>>
      BY <2>13, <3>1 DEF DestroyPoolJoin, At, proxyVars, jobVars
    <3>3. CallOf(Top(a)).call = "destroy_pool"
      BY <1>2, <3>2 DEF InCall
    <3>4. Fields(g, Top(a), "body", Top(a).ip + 1)
      BY <1>2, <3>1, <3>2, NextForm
    <3>. QED BY <1>3, <1>4, <3>2, <3>3, <3>4
  <2>. QED
    BY <1>4, <2>2, <2>3, <2>4, <2>5, <2>6, <2>7, <2>8, <2>9, <2>10, <2>11, <2>12, <2>13
       DEF CallStep, JoinHelp, JoinHelped
<1>5. ASSUME NEW t \in Thread, WorkerStep(t), script' = script PROVE UpInv'
  <2>1. CASE WorkerCheck(t) \/ WorkerBlock(t) \/ WorkerExit(t)
    <3>1. UNCHANGED <<script, proxyVars, jobs, proxy, finished, stack>>
      BY <1>5, <2>1 DEF WorkerCheck, WorkerBlock, WorkerExit, jobVars
    <3>. QED BY <3>1, QuietUp
  <2>2. CASE WorkerRun(t)
    <3>1. PICK i : i = Len(jobs[t])
      OBVIOUS
    <3>2. jobs[t] # <<>> /\ RunJob(t, i) /\ UNCHANGED <<script, proxyVars>>
      BY <1>5, <2>2, <3>1 DEF WorkerRun, leaves
    <3>3. i \in DOMAIN jobs[t]
      <4>1. jobs[t] \in Seq(Job)
        BY <1>1 DEF TypeOK
      <4>2. Len(jobs[t]) # 0
        BY <3>2, <4>1, EmptySeq
      <4>. QED BY <3>1, <4>1, <4>2
    <3>. QED BY <3>2, <3>3, StartUp
  <2>3. CASE JobReturn(t)
    BY <1>5, <2>3, ReturnUp
  <2>. QED BY <1>5, <2>1, <2>2, <2>3 DEF WorkerStep
<1>6. CASE UNCHANGED vars
  <2>1. UNCHANGED <<script, proxyVars, jobs, proxy, finished, stack>>
    BY <1>6 DEF vars, jobVars
  <2>. QED BY <2>1, QuietUp
<1>. QED BY <1>4, <1>5, <1>6 DEF Next, Step

LEMMA InitUpInv == Init => UpInv
<1>. SUFFICES ASSUME Init PROVE UpInv
  OBVIOUS
<1>1. /\ jobs = [t \in Thread |-> <<>>] /\ finished = {} /\ script \in Scripts
      /\ futures = [p \in Proxy |-> <<>>]
      /\ stack = [a \in Actor |-> IF a \in Client THEN <<Frame(a)>> ELSE <<>>]
  BY DEF Init
<1>2. ASSUME NEW a \in Actor, NEW i \in DOMAIN stack[a]
      PROVE  a \in Client /\ stack[a][i].ip = 1 /\ stack[a][i].pc = "body"
  <2>1. a \in Client /\ stack[a] = <<Frame(a)>>
    BY <1>1, <1>2
  <2>2. stack[a][i] = Frame(a)
    BY <1>2, <2>1
  <2>. QED BY <2>1, <2>2 DEF Frame
<1>3. \A p \in Proxy : ~Active(p)
  <2>. SUFFICES ASSUME NEW p \in Proxy, NEW a \in Actor, NEW i \in DOMAIN stack[a], Allocated(stack[a][i], p)
       PROVE  FALSE
    BY DEF Active
  <2>1. PICK m \in DOMAIN Calls(stack[a][i].run) : m < 1
    BY <1>2 DEF Allocated
  <2>2. m \in 1 .. Len(Calls(stack[a][i].run))
    BY <1>1, ScriptCalls
  <2>. QED BY <2>1, <2>2
<1>4. Nested /\ Segments /\ Above /\ LeftDone
  <2>1. \A t \in Thread : t \in Actor
    BY DEF Actor
  <2>2. Nested
    BY <1>1, <1>3, <2>1 DEF Nested, Active
  <2>5. Above
    BY <1>1, <1>3, <2>1 DEF Above, Active
  <2>3. Segments
    BY <1>1, <1>3, <2>1 DEF Segments
  <2>4. LeftDone
    BY <1>1, <1>3, <2>1 DEF LeftDone, Active
  <2>. QED BY <2>2, <2>3, <2>4, <2>5
<1>5. Members /\ Aimed
  BY <1>1, <1>2 DEF Members, Aimed, QueuedOn
<1>6. Held
  BY <1>1 DEF Held, ToSet
<1>. QED BY <1>4, <1>5, <1>6 DEF UpInv

\* A pool thread that waits in join() waits for jobs of threads with higher
\* numbers only: a nested proxy keeps the futures of the jobs it gives to
\* threads other than its own, and allocate_threads has taken these from above
\* all threads of the proxies up the hierarchy.  So the threads of the pool
\* never wait for each other in a circle, whatever the nesting.
THEOREM ThreadsWaitUpwards == Spec => []WaitsUpwards
<1>1. PoolInv /\ DoneInv /\ UpInv => WaitsUpwards
  <2>. SUFFICES ASSUME PoolInv, DoneInv, UpInv, NEW t \in Thread, At(t, "await"), NEW p, p = CallOf(Top(t)).p,
                       NEW j \in ToSet(futures[p]) \ finished
       PROVE  \E u \in Thread : u > t /\ j \in Queued(u)
    BY DEF WaitsUpwards
  <2>1. stack[t] # <<>> /\ Top(t).pc = "await" /\ t \in Actor /\ script \in Scripts
    BY DEF At, Actor, PoolInv, PoolTypeOK
  <2>2. /\ Len(stack[t]) \in DOMAIN stack[t] /\ Top(t) = stack[t][Len(stack[t])] /\ Top(t) \in FrameRec
        /\ Top(t).ip \in DOMAIN Calls(Top(t).run) /\ CallOf(Top(t)).call = "join" /\ Top(t).run \in Job
        /\ Top(t).index \in DOMAIN jobs[t] /\ jobs[t][Top(t).index] = Top(t).run
    BY <2>1, TopFrame DEF InCall
  <2>3. p \in Proxy /\ threads[p][1] = t
    BY <2>1, <2>2, CallFacts
  <2>4. Allocated(Top(t), p)
    <3>1. PICK m \in DOMAIN Calls(Top(t).run) :
            m < Top(t).ip /\ Calls(Top(t).run)[m].call = "allocate" /\ Calls(Top(t).run)[m].p = p
      BY SMTT(30), <2>1, <2>2, Usage DEF CallOf
    <3>2. \A n \in DOMAIN Calls(Top(t).run) :
            n < Top(t).ip /\ Calls(Top(t).run)[n].call = "destroy_proxy" => Calls(Top(t).run)[n].p # p
      BY <2>1, <2>2, Usage DEF CallOf
    <3>. QED BY <3>1, <3>2 DEF Allocated
  <2>5. parent[p] # NULL
    <3>1. parent[p] = proxy[Top(t).run]
      BY <2>2, <2>3, <2>4 DEF UpInv, Nested
    <3>. QED BY <2>2, <3>1 DEF PoolInv, Queues
  <2>6. proxy[j] = p /\ \A u \in Thread : QueuedOn(j, u) => t < u
    BY <2>3, <2>5 DEF UpInv, Held
  <2>7. j \in Job
    <3>1. futures[p] \in Seq(Job)
      BY <2>3 DEF PoolInv, PoolTypeOK, TypeOK
    <3>. QED BY <3>1 DEF ToSet
  <2>8. PICK u \in Thread : QueuedOn(j, u)
    <3>1. p # NULL
      BY <2>3, ThreadPoolAssumption
    <3>. QED BY <2>6, <2>7, <3>1 DEF DoneInv, Stored
  <2>9. j \in Queued(u)
    BY <2>8 DEF Queued, ToSet, QueuedOn
  <2>10. t < u /\ t \in Nat /\ u \in Nat
    BY <2>6, <2>8 DEF Thread
  <2>11. u > t
    BY <2>10
  <2>. QED BY <2>9, <2>11
<1>2. PoolInv /\ [Next]_vars => PoolInv'
  BY NextPoolInv
<1>3. PoolInv /\ DoneInv /\ [Next]_vars => DoneInv'
  BY NextDoneInv
<1>. QED BY <1>1, <1>2, <1>3, InitPoolInv, InitDoneInv, InitUpInv, NextUpInv, PTL DEF Spec
=============================================================================
