---------------------------- MODULE MCThreadPool ----------------------------
(***************************************************************************)
(* Client programs for model checking ThreadPool.                          *)
(***************************************************************************)
EXTENDS ThreadPool

CONSTANTS o, u,                 \* the client threads
          p1, p2, p3, p4,       \* proxies
          a, b, g, x, y, z      \* jobs

Blank == [call |-> "join", p |-> NULL, job |-> NULL, n |-> 0]
Allocates(pp, n) == [Blank EXCEPT !.call = "allocate", !.p = pp, !.n = n]
Does(pp, j) == [Blank EXCEPT !.call = "do_job", !.p = pp, !.job = j]
Joins(pp) == [Blank EXCEPT !.p = pp]
Drops(pp) == [Blank EXCEPT !.call = "destroy_proxy", !.p = pp]
Destroys == [Blank EXCEPT !.call = "destroy_pool"]

\* Two jobs of one proxy each nest a proxy of their own, and a job of one of
\* those nests again when no thread is free any more.
NestScript ==
  o :> <<Allocates(p1, 2), Does(p1, a), Does(p1, b), Joins(p1), Drops(p1)>>
  @@ a :> <<Allocates(p3, 2), Does(p3, y), Joins(p3), Drops(p3)>>
  @@ b :> <<Allocates(p2, 0), Does(p2, g), Does(p2, x), Joins(p2), Drops(p2)>>
  @@ y :> <<Allocates(p4, 2), Does(p4, z), Joins(p4), Drops(p4)>>

\* Two clients append to the stack of a thread whose jobs nest.
CrowdScript ==
  o :> <<Allocates(p1, 1), Does(p1, a), Does(p1, b), Joins(p1), Drops(p1)>>
  @@ u :> <<Allocates(p2, 1), Does(p2, g), Joins(p2), Drops(p2)>>
  @@ a :> <<Allocates(p3, 2), Does(p3, x), Does(p3, y), Joins(p3), Drops(p3)>>
  @@ x :> <<Allocates(p4, 0), Does(p4, z), Joins(p4), Drops(p4)>>

\* The pool is destroyed while jobs may be pending.
ShutdownScript ==
  o :> <<Allocates(p1, 0), Does(p1, a), Does(p1, b), Destroys, Joins(p1), Drops(p1)>>

\* The sets of programs of the runs.
PoolScripts == {NestScript, CrowdScript, ShutdownScript}
ShutdownScripts == {ShutdownScript}
=============================================================================
