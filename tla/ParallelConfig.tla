--------------------------- MODULE ParallelConfig ---------------------------
(***************************************************************************)
(* The settings behind parallel_tools: how many threads parallel_for may   *)
(* use, on each backend, and local_scope, which changes them for the time  *)
(* of a function. The value of PARALLEL_MAX_THREADS is a number; -1 stands *)
(* for none, and 0 also for one that from_chars rejects.                   *)
(***************************************************************************)
EXTENDS Integers, FiniteSetsExt, SequencesExt

CONSTANTS Hardware,     \* std::thread::hardware_concurrency(), and what OpenMP and TBB begin with
          ThreadCounts, \* the numbers that initialize() and local_scope() are called with
          Environments, \* what PARALLEL_MAX_THREADS may be
          ConfigDepth,  \* bound: scopes within scopes
          ConfigCalls   \* bound: calls

ASSUME ConfigAssumption == Hardware \in Nat \ {0} /\ ThreadCounts \subseteq Nat /\ Environments \subseteq Nat \cup {-1}

VARIABLES engine,       \* rigid: the backend
          env,          \* rigid: PARALLEL_MAX_THREADS
          desired,      \* desired_number_of_thread_
          number,       \* a pair: specified_num_threads_std, _omp or _tbb, and the number
                        \* of the library: omp_get_max_threads(), or max_concurrency()
          nesting,      \* nested_activated_
          scopes,       \* the scopes that are open, innermost last
          configured    \* calls so far

cvars == <<engine, env, desired, number, nesting, scopes, configured>>

Unset == -1

\* What num_threads is after the environment was asked
requested(n) == IF n = 0 /\ env # Unset THEN env ELSE n

\* backend_impl_.initialize(n). With no number in the environment, zero
\* takes the specified one back.
initialize_std_kept(n, old) ==
  IF requested(n) > 0 THEN <<Min({requested(n), Hardware}), old[2]>> ELSE old
initialize_std(n, old) ==
  IF requested(n) > 0 THEN <<Min({requested(n), Hardware}), old[2]>>
  ELSE IF n = 0 /\ env = Unset THEN <<0, old[2]>> ELSE old

\* OpenMP's default is the number that was set last.
initialize_openmp(n, old) ==
  IF requested(n) > 0 THEN LET k == Min({requested(n), old[2]}) IN <<k, k>>
  ELSE IF n = 0 /\ env = Unset THEN <<0, old[2]>> ELSE old

\* The arena is as large as it was initialized; larger numbers are ignored.
initialize_tbb(n, old) ==
  LET reset == IF n = 0 /\ env = Unset THEN <<0, old[2]>> ELSE old
  IN  IF requested(n) \in 1..old[2] THEN <<requested(n), requested(n)>> ELSE reset

backend_initialize(n, old) ==
  CASE engine = "std" -> initialize_std(n, old)
    [] engine = "openmp" -> initialize_openmp(n, old)
    [] engine = "tbb" -> initialize_tbb(n, old)

estimated_number_of_threads ==
  IF number[1] > 0 THEN number[1] ELSE IF engine = "std" THEN Hardware ELSE number[2]

CInit == /\ engine \in {"std", "openmp", "tbb"}
         /\ env \in Environments
         /\ desired = 0
         /\ number = backend_initialize(0, <<0, Hardware>>)
         /\ nesting = TRUE
         /\ scopes = <<>> /\ configured = 0

\* initialize, then set_backend, which initializes again (both in
\* operator<<; set_backend only if the name is the backend's)
Twice(n, named) ==
  LET once == backend_initialize(n, number)
  IN  IF named THEN backend_initialize(n, once) ELSE once

Counted == configured < ConfigCalls /\ configured' = configured + 1

Initialize(n) ==
  /\ Counted
  /\ desired' = n
  /\ number' = backend_initialize(n, number)
  /\ UNCHANGED <<engine, env, nesting, scopes>>

SetNested(on) ==
  /\ Counted
  /\ nesting' = on
  /\ UNCHANGED <<engine, env, desired, number, scopes>>

EnterScope(n, on, named) ==
  /\ Counted /\ Len(scopes) < ConfigDepth
  /\ scopes' = Append(scopes, [desired |-> desired, nesting |-> nesting, before |-> estimated_number_of_threads])
  /\ desired' = n
  /\ number' = Twice(n, named)
  /\ nesting' = on
  /\ UNCHANGED <<engine, env>>

\* Also when the function throws.
LeaveScope ==
  /\ scopes # <<>>
  /\ scopes' = Front(scopes)
  /\ desired' = Last(scopes).desired
  /\ number' = Twice(Last(scopes).desired, TRUE)
  /\ nesting' = Last(scopes).nesting
  /\ UNCHANGED <<engine, env, configured>>

CNext == \/ \E n \in ThreadCounts : Initialize(n)
         \/ \E on \in BOOLEAN : SetNested(on)
         \/ \E n \in ThreadCounts, on, named \in BOOLEAN : EnterScope(n, on, named)
         \/ LeaveScope

(***************************************************************************)
(* Properties                                                              *)
(***************************************************************************)

\* "Change the number of threads locally within this scope": the number of
\* threads after the scope is the one before it, whatever was initialized
\* inside of it. So it is for std_thread, unless the environment has a
\* number that counts as none.
RestoredStd ==
  [][(engine = "std" /\ env # 0 /\ Len(scopes') < Len(scopes)) =>
        estimated_number_of_threads' = Last(scopes).before]_cvars

\* No backend is ever asked for more threads than there are, and there is
\* always at least one, by which parallel_for divides.
WithinHardware == estimated_number_of_threads \in 1..Hardware

\* The number of threads is one that there is, and local_scope restores it.
SettingsHold == []WithinHardware /\ RestoredStd
=============================================================================
