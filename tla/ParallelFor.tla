---------------------------- MODULE ParallelFor ----------------------------
(***************************************************************************)
(* parallel_tools::parallel_for on its three backends: the pool of         *)
(* std::threads (ThreadPool has its jobs and joins in detail), OpenMP and  *)
(* TBB. A thread has a stack of what it is doing; a call of parallel_for   *)
(* is a record of its functor and its range, and a functor may call        *)
(* parallel_for again. What the threads of a backend may run is external:  *)
(* any idle member takes a chunk, and so does the thread that has made the *)
(* call, except one that waits for the pool of std::threads from outside.  *)
(* The stack of thread ids behind single_thread() is left out.             *)
(***************************************************************************)
EXTENDS Integers, FiniteSetsExt, SequencesExt

CONSTANTS Caller,      \* threads of the application
          Member,      \* threads of the backend
          Calls,       \* the calls: a function from names to records
          ForPrograms, \* backends, members, settings and the calls each caller makes
          SizeLimit    \* 2^w, the numbers of size_t

\* The loop over the chunks must not wrap around the end of size_t.
ASSUME NoWrap ==
  \A c \in DOMAIN Calls : Calls[c].last + Calls[c].grain < SizeLimit

VARIABLES setup,       \* rigid: a member of ForPrograms
          calls,       \* the calls that each caller has still to make
          stack,       \* what each thread is doing, innermost last
          todo,        \* chunks of each call that no thread has taken
          is_parallel, \* is_parallel_ of the TBB and OpenMP backends
          outer,       \* calls that have found is_parallel_ FALSE
          flags,       \* the flags "initialized" that are set
          initialized, \* history: <<call, thread>> of every Initialize()
          executed,    \* history: how often each index of a call was run
          returned     \* history: calls that are over, Reduce() included

fvars == <<setup, calls, stack, todo, is_parallel, outer, flags, initialized, executed, returned>>

ForThread == Caller \cup Member
Doing(kind, c, from, to) == [kind |-> kind, c |-> c, from |-> from, to |-> to]

FInit == /\ setup \in ForPrograms
         /\ calls = setup.calls
         /\ stack = [t \in ForThread |-> <<>>]
         /\ todo = [c \in DOMAIN Calls |-> {}]
         /\ is_parallel = FALSE /\ outer = {}
         /\ flags = {} /\ initialized = {}
         /\ executed = [c \in DOMAIN Calls |-> [i \in {} |-> 0]]
         /\ returned = {}

Top(t) == Last(stack[t])
Is(t, kind) == stack[t] # <<>> /\ Top(t).kind = kind
Replace(t, d) == Append(Front(stack[t]), d)

Call(t) ==
  /\ t \in Caller /\ stack[t] = <<>> /\ calls[t] # <<>>
  /\ calls' = [calls EXCEPT ![t] = Tail(@)]
  /\ stack' = [stack EXCEPT ![t] = <<Doing("call", Head(calls[t]), 0, 0)>>]
  /\ UNCHANGED <<setup, todo, is_parallel, outer, flags, initialized, executed, returned>>

(***************************************************************************)
(* parallel_for of the backends                                            *)
(***************************************************************************)
Size(c) == (Calls[c].last - Calls[c].first) % SizeLimit

\* A grain of zero asks for four chunks a thread.
EstimatedGrain(c) == LET g == Size(c) \div (setup.threads * 4) IN IF g > 0 THEN g ELSE 1

Grain(c) == IF Calls[c].grain = 0 THEN EstimatedGrain(c) ELSE Calls[c].grain

\* The loop of the std::thread and OpenMP backends
Chunks(c) ==
  LET from == {Calls[c].first + k * Grain(c) : k \in 0..Size(c)}
  IN  {<<f, Min({f + Grain(c), Calls[c].last})>> : f \in {i \in from : i < Calls[c].last}}

\* tbb::parallel_for divides the range as it likes.
Divisions(c) ==
  LET borders(cut) == cut \cup {Calls[c].first, Calls[c].last}
  IN  {{<<i, Min({j \in borders(cut) : j > i})>> : i \in borders(cut) \ {Calls[c].last}} :
         cut \in SUBSET ((Calls[c].first + 1)..(Calls[c].last - 1))}

\* std_thread: whether this thread belongs to the pool
in_pool(t) == t \in Member

Inline(t, c) ==
  CASE setup.backend = "std" -> Calls[c].grain >= Size(c) \/ (~setup.nested /\ in_pool(t))
    [] setup.backend = "openmp" -> Calls[c].grain >= Size(c)
    [] setup.backend = "tbb" -> ~setup.nested /\ is_parallel

ForSerial(t) ==
  LET c == Top(t).c IN
  /\ Is(t, "call")
  /\ setup.backend # "tbb" => Size(c) > 0
  /\ Inline(t, c)
  /\ stack' = [stack EXCEPT ![t] = Append(Replace(t, Doing("reduce", c, 0, 0)),
                                          Doing("execute", c, Calls[c].first, Calls[c].last))]
  /\ UNCHANGED <<setup, calls, todo, is_parallel, outer, flags, initialized, executed, returned>>

ForEmpty(t) ==
  /\ Is(t, "call") /\ setup.backend # "tbb" /\ Size(Top(t).c) = 0
  /\ stack' = [stack EXCEPT ![t] = Replace(t, Doing("reduce", Top(t).c, 0, 0))]
  /\ UNCHANGED <<setup, calls, todo, is_parallel, outer, flags, initialized, executed, returned>>

ForParallel(t) ==
  LET c == Top(t).c IN
  /\ Is(t, "call")
  /\ setup.backend # "tbb" => Size(c) > 0
  /\ ~Inline(t, c)
  /\ \E chunks \in IF setup.backend = "tbb" /\ Size(c) > 0 THEN Divisions(c) ELSE {Chunks(c)} :
       todo' = [todo EXCEPT ![c] = chunks]
  /\ stack' = [stack EXCEPT ![t] = Replace(t, Doing("join", c, 0, 0))]
  /\ IF setup.backend = "std"
     THEN UNCHANGED <<is_parallel, outer>>
     ELSE /\ is_parallel' = TRUE
          /\ outer' = IF is_parallel THEN outer ELSE outer \cup {c}
  /\ UNCHANGED <<setup, calls, flags, initialized, executed, returned>>

\* omp_set_max_active_levels(nested): a region inside of as many active ones
\* is run by its own thread alone.
ActiveRegions == {c \in DOMAIN Calls : \E t \in Caller : \E i \in DOMAIN stack[t] :
                     stack[t][i] = Doing("join", c, 0, 0) /\ i = 1}
Serialized(c) == setup.backend = "openmp" /\ (~setup.nested \/ c \notin ActiveRegions)

Take(t, c, d) ==
  /\ \/ t \in setup.members /\ stack[t] = <<>> /\ ~Serialized(c)
     \/ Is(t, "join") /\ Top(t).c = c /\ ~(setup.backend = "std" /\ t \in Caller)
  /\ todo' = [todo EXCEPT ![c] = @ \ {d}]
  /\ stack' = [stack EXCEPT ![t] = Append(@, Doing("execute", c, d[1], d[2]))]
  /\ UNCHANGED <<setup, calls, is_parallel, outer, flags, initialized, executed, returned>>

\* is_parallel_ &= from_parallel_code, by one compare_exchange_weak, which on
\* some machines (setup.weak) may fail although the value is the expected one
Unparallel_stored(c) == c \notin outer
Unparallel(c) == is_parallel /\ c \notin outer

AllRun(t, c) ==
  todo[c] = {} /\ \A u \in ForThread \ {t} : \A i \in DOMAIN stack[u] : stack[u][i].c # c

Join(t) ==
  LET c == Top(t).c IN
  /\ Is(t, "join")
  /\ AllRun(t, c)
  /\ IF setup.backend = "std"
     THEN UNCHANGED <<is_parallel, outer>>
     ELSE /\ is_parallel' \in {Unparallel(c)} \cup (IF setup.weak THEN {is_parallel} ELSE {})
          /\ outer' = outer \ {c}
  /\ stack' = [stack EXCEPT ![t] = Replace(t, Doing("reduce", c, 0, 0))]
  /\ UNCHANGED <<setup, calls, todo, flags, initialized, executed, returned>>

\* The functor's Reduce(), if it has one, and the return
Reduce(t) ==
  /\ Is(t, "reduce")
  /\ returned' = returned \cup {Top(t).c}
  /\ stack' = [stack EXCEPT ![t] = Front(@)]
  /\ UNCHANGED <<setup, calls, todo, is_parallel, outer, flags, initialized, executed>>

(***************************************************************************)
(* parallel_tools_functor_internal::Execute. The flag that Initialize()    *)
(* has run on a thread is a variable of the thread: one for each type of   *)
(* functor (std_thread), one for all of them (OpenMP), or a variable of    *)
(* the call (TBB).                                                         *)
(***************************************************************************)
Flag(t, c) ==
  CASE setup.backend = "std" -> <<t, Calls[c].type>>
    [] setup.backend = "openmp" -> <<t>>
    [] setup.backend = "tbb" -> <<t, c>>

Execute(t) ==
  LET d == Top(t)
      first_here == Calls[d.c].initialize /\ Flag(t, d.c) \notin flags
  IN  /\ Is(t, "execute")
      /\ flags' = IF first_here THEN flags \cup {Flag(t, d.c)} ELSE flags
      /\ initialized' = IF first_here THEN initialized \cup {<<d.c, t>>} ELSE initialized
      /\ stack' = [stack EXCEPT ![t] = Replace(t, [d EXCEPT !.kind = "body"])]
      /\ UNCHANGED <<setup, calls, todo, is_parallel, outer, executed, returned>>

\* The functor runs over its chunk; one that contains the first index calls
\* parallel_for itself if the call has an inner one.
Body(t) ==
  LET d == Top(t)
      seen(i) == IF i \in DOMAIN executed[d.c] THEN executed[d.c][i] ELSE 0
      inner == {c \in Calls[d.c].inner : d.from = Calls[d.c].first}
  IN  /\ Is(t, "body")
      /\ executed' = [executed EXCEPT ![d.c] = [i \in d.from..(d.to - 1) |-> seen(i) + 1] @@ @]
      /\ \/ inner = {} /\ stack' = [stack EXCEPT ![t] = Front(@)]
         \/ \E c \in inner : stack' = [stack EXCEPT ![t] = Append(Replace(t, [d EXCEPT !.kind = "end"]),
                                                                 Doing("call", c, 0, 0))]
      /\ UNCHANGED <<setup, calls, todo, is_parallel, outer, flags, initialized, returned>>

ExecuteEnd(t) ==
  /\ Is(t, "end")
  /\ stack' = [stack EXCEPT ![t] = Front(@)]
  /\ UNCHANGED <<setup, calls, todo, is_parallel, outer, flags, initialized, executed, returned>>

ForStep(t) ==
  \/ ForSerial(t) \/ ForEmpty(t) \/ ForParallel(t) \/ Join(t) \/ Reduce(t)
  \/ \E c \in DOMAIN Calls : \E d \in todo[c] : Take(t, c, d)
  \/ Execute(t) \/ Body(t) \/ ExecuteEnd(t)

FNext == \E t \in ForThread : Call(t) \/ ForStep(t)

(***************************************************************************)
(* Properties                                                              *)
(***************************************************************************)

\* A call that has returned, and that has thus called Reduce(), has run
\* every index of its range exactly once, whatever the grain, the number of
\* threads, the nesting and the threads that have done the work.
CoversOnce ==
  \A c \in returned :
    /\ DOMAIN executed[c] = Calls[c].first..(Calls[c].last - 1)
    /\ \A i \in DOMAIN executed[c] : executed[c][i] = 1

\* "Initialize() method for per-thread initialization": a thread does not
\* run a functor that was not initialized on it.
InitializedFirst ==
  \A t \in ForThread : (Is(t, "body") /\ Calls[Top(t).c].initialize) => <<Top(t).c, t>> \in initialized

\* TBB, whose flag belongs to the call, keeps that promise.
InitializedFirstTBB == setup.backend = "tbb" => InitializedFirst

\* When every call is over the backend is not left in a parallel scope, in
\* which a later call would run serially, even if calls of several threads
\* have overlapped in any order, where compare_exchange_weak does not fail
\* spuriously.
ScopeEnds == (~setup.weak /\ \A t \in ForThread : stack[t] = <<>>) => ~is_parallel

\* Every call returns.
ForReturns == \A t \in Caller : stack[t] # <<>> ~> stack[t] = <<>>

\* parallel_for runs every index once, on an initialized functor where the
\* flag allows it, and leaves the backend as it was.
ForSound == CoversOnce /\ InitializedFirstTBB /\ ScopeEnds
=============================================================================
