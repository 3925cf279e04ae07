----------------------------- MODULE MCParallel -----------------------------
(***************************************************************************)
(* parallel_for and its settings, multi_threader, and the graph library. A *)
(* behaviour exercises one of them.                                        *)
(***************************************************************************)
EXTENDS ParallelFor, ParallelConfig, MultiThreader, GraphExecutor

CONSTANTS u1, u2, m1, m2, f1, f2, f3, f4, f5,   \* callers, members, calls of parallel_for
          K1, K2, K3, K4                        \* keys of a traced graph

VARIABLE part         \* rigid: the component

(***************************************************************************)
(* Calls of parallel_for. f1 leaves the grain to the backend, f2 has a     *)
(* last chunk that is smaller, f3 nests f4, and f5 is empty.               *)
(***************************************************************************)
Range0(first, last, grain, type, initialize, inner) ==
  [first |-> first, last |-> last, grain |-> grain, type |-> type, initialize |-> initialize, inner |-> inner]
MCCalls == (f1 :> Range0(0, 2, 0, "A", TRUE, {})) @@ (f2 :> Range0(1, 4, 2, "A", TRUE, {}))
           @@ (f3 :> Range0(0, 2, 1, "B", FALSE, {f4})) @@ (f4 :> Range0(0, 2, 1, "C", TRUE, {}))
           @@ (f5 :> Range0(2, 2, 0, "D", FALSE, {}))

Uses(first, second, members, weak) ==
  [backend : {"std", "openmp", "tbb"}, nested : BOOLEAN, threads : {1}, weak : weak,
   calls : {(u1 :> first) @@ (u2 :> second)}, members : {members}]
MCForPrograms ==
  Uses(<<f1>>, <<f2>>, {m1}, {FALSE}) \cup Uses(<<f3>>, <<>>, {m1, m2}, {FALSE})
  \cup Uses(<<f5, f4>>, <<>>, {m1, m2}, BOOLEAN)

MCEnvironments == {-1, 0, 3, 9}

(***************************************************************************)
(* Graphs: every list of up to three edges on three nodes, with an unknown *)
(* one in the shorter lists; a diamond on two threads with every set of    *)
(* works that throw; the ways in which three keys may need each other.     *)
(***************************************************************************)
Declares(n, edges, throws, threads) ==
  [mode |-> "declare", names |-> [i \in 1..n |-> i - 1], edges |-> edges, roots |-> <<>>,
   needs |-> <<>>, fails |-> {}, throws |-> throws, threads |-> threads]
Traces(mode, needs, roots, fails) ==
  [mode |-> mode, names |-> <<>>, edges |-> <<>>, roots |-> roots,
   needs |-> needs, fails |-> fails, throws |-> {}, threads |-> 1]

UpTo(n, S) == UNION {[1..k -> S] : k \in 0..n}
Plainly(s) == [i \in DOMAIN s |-> <<s[i], {}>>]
Diamond == <<<<1, 0>>, <<2, 0>>, <<3, 2>>, <<3, 1>>>>
Lists == {(K1 :> Plainly(l1)) @@ (K2 :> Plainly(l2)) @@ (K3 :> Plainly(l3)) :
            l1 \in UpTo(2, {K1, K2, K3}), l2 \in UpTo(2, {K1, K3}), l3 \in UpTo(1, {K1, K2, K3})}

\* K3 is revealed when K2 is known, and needs K4.
Revealing == (K1 :> <<<<K2, {}>>, <<K3, {K2}>>>>) @@ (K2 :> <<>>) @@ (K3 :> Plainly(<<K4>>)) @@ (K4 :> <<>>)
\* K2 and K3 both need K4.
Shared == (K1 :> Plainly(<<K2, K3>>)) @@ (K2 :> Plainly(<<K4>>)) @@ (K3 :> Plainly(<<K4>>)) @@ (K4 :> <<>>)

MCGraphUses ==
  {Declares(3, edges, {}, 1) : edges \in UpTo(2, (0..3) \X (0..3)) \cup [1..3 -> (0..2) \X (0..2)]}
  \cup {Declares(4, Diamond, throws, 2) : throws \in SUBSET (0..3)}
  \cup {Declares(4, <<<<0, 3>>, <<2, 1>>, <<2, 1>>>>, {1, 3}, 2), Declares(0, <<>>, {}, 1)}
  \cup {Traces("resolve", needs, <<K1, K2>>, {}) : needs \in Lists}
  \cup {Traces(mode, needs, <<K1, K2>>, {K3}) : mode \in {"resolve", "discover"}, needs \in Lists}
  \cup {Traces("discover", needs, <<K1>>, {}) : needs \in {Revealing, Shared}}
SharedUses == {Traces("discover", Shared, <<K1>>, {})}

(***************************************************************************)
(* The composition                                                         *)
(***************************************************************************)
AProgram == CHOOSE p \in ForPrograms : TRUE
AGraph == CHOOSE g \in GraphUses : TRUE

MCInit ==
  /\ part \in {"for", "config", "threader", "graph"}
  /\ part # "for" => setup = AProgram
  /\ part # "config" => engine = "std" /\ env = -1
  /\ part # "threader" => serial = TRUE /\ maximum = 0
  /\ part # "graph" => use = AGraph
  /\ FInit /\ CInit /\ AInit /\ GInit

Only(p, others) == part = p /\ UNCHANGED <<part, others>>

MCNext == \/ Only("for", <<cvars, avars, gvars>>) /\ FNext
          \/ Only("config", <<fvars, avars, gvars>>) /\ CNext
          \/ Only("threader", <<fvars, cvars, gvars>>) /\ ANext
          \/ Only("graph", <<fvars, cvars, avars>>) /\ GNext

mcvars == <<part, fvars, cvars, avars, gvars>>

\* While some thread inside of a call can go on, some thread does.
Progress ==
  \/ Only("for", <<cvars, avars, gvars>>) /\ \E t \in ForThread : ForStep(t)
  \/ /\ Only("threader", <<fvars, cvars, gvars>>)
     /\ (\E a \in Agent : AgentStep(a)) \/ (\E x \in DOMAIN live : SpawnedReturns(x))
  \/ /\ Only("graph", <<fvars, cvars, avars>>)
     /\ Push \/ RunReturns \/ \E n \in DOMAIN stage : TaskStep(n)

MCSpec == MCInit /\ [][MCNext]_mcvars /\ WF_mcvars(Progress)

\* Every call of parallel_for, multi_threader and graph_executor returns.
ParallelReturns == ForReturns /\ AgentsReturn /\ RunEnds

\* The graph library alone
GSpec == MCInit /\ part = "graph"
         /\ [][Only("graph", <<fvars, cvars, avars>>) /\ GNext]_mcvars
=============================================================================
