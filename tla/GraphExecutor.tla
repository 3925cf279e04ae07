--------------------------- MODULE GraphExecutor ---------------------------
(***************************************************************************)
(* graph_executor::run on the graph of GraphBuilder. Every node is pushed  *)
(* to a threaded_callback_queue behind its dependencies; what the queue    *)
(* does inside of push_dependent and wait is in CallbackQueue, here a task *)
(* is queued as soon as the tasks that it depends on are ready. The thread *)
(* that has called run() helps while it waits.                             *)
(***************************************************************************)
EXTENDS GraphBuilder

VARIABLES stage,            \* where the task of each node is
          value,            \* what the future of each node holds
          node_failed,      \* node_failed
          failure_recorded, failed_node_id,
          ran,              \* history: how often the work of each node was called
          results           \* out_results

gevars == <<stage, value, node_failed, failure_recorded, failed_node_id, ran, results>>
gvars == <<gbvars, gevars>>

Empty == <<>>               \* std::any{}
OfNodes(x) == [n \in Ids |-> x]

GInit == /\ GBInit
         /\ stage = Empty /\ value = Empty /\ node_failed = Empty /\ ran = Empty /\ results = Empty
         /\ failure_recorded = FALSE /\ failed_node_id = 0

Run ==
  /\ phase = "built" /\ phase' = "push"
  /\ stage' = OfNodes("none") /\ value' = OfNodes(Empty)
  /\ node_failed' = OfNodes(FALSE) /\ ran' = OfNodes(0)
  /\ failure_recorded' = FALSE /\ failed_node_id' = 0
  /\ UNCHANGED <<use, tracing, status, sorting, results>>

Ready(s, n) == \A d \in upstream(n) : s[d] = "ready"

\* The nodes are pushed in topological order, then run() waits.
Push ==
  /\ phase = "push"
  /\ \/ /\ \A i \in DOMAIN order : stage[order[i]] # "none"
        /\ phase' = "wait" /\ UNCHANGED stage
     \/ /\ \E i \in DOMAIN order :
             /\ stage[order[i]] = "none" /\ \A j \in 1..(i - 1) : stage[order[j]] # "none"
             /\ stage' = [stage EXCEPT ![order[i]] = IF Ready(stage, order[i]) THEN "queued" ELSE "held"]
        /\ UNCHANGED phase
  /\ UNCHANGED <<use, tracing, status, sorting, value, node_failed, failure_recorded, failed_node_id, ran, results>>

(***************************************************************************)
(* A task: "check", "work", "throw", "record", "write", "finish"           *)
(***************************************************************************)
Move(n, from, to) == stage[n] = from /\ stage' = [stage EXCEPT ![n] = to]
Busy == {n \in DOMAIN stage : stage[n] \notin {"none", "held", "queued", "ready"}}

TakeTask(n) ==
  /\ Cardinality(Busy) < use.threads + (IF phase = "wait" THEN 1 ELSE 0)
  /\ Move(n, "queued", "check")
  /\ UNCHANGED <<value, node_failed, failure_recorded, failed_node_id, ran>>

\* A node behind a failed one counts as failed itself.
Skipped(n) == [node_failed EXCEPT ![n] = TRUE]

CheckUpstream(n) ==
  /\ \/ /\ \E d \in upstream(n) : node_failed[d]
        /\ Move(n, "check", "finish")
        /\ node_failed' = Skipped(n)
     \/ /\ \A d \in upstream(n) : ~node_failed[d]
        /\ Move(n, "check", "work")
        /\ UNCHANGED node_failed
  /\ UNCHANGED <<value, failure_recorded, failed_node_id, ran>>

\* The result of a work that does not throw stands for what it has been
\* given: its name and its inputs.
Inputs_unordered(n) == LET in == SetToSeq(Range(dependencies(n))) IN [i \in DOMAIN in |-> value[in[i]]]
Inputs(n) == [i \in DOMAIN dependencies(n) |-> value[dependencies(n)[i]]]

Work(n) ==
  /\ ran' = [ran EXCEPT ![n] = @ + 1]
  /\ IF nodes_[n + 1] \in use.throws
     THEN Move(n, "work", "throw") /\ UNCHANGED value
     ELSE Move(n, "work", "finish") /\ value' = [value EXCEPT ![n] = <<nodes_[n + 1], Inputs(n)>>]
  /\ UNCHANGED <<node_failed, failure_recorded, failed_node_id>>

CatchFailure(n) ==
  /\ Move(n, "throw", "record")
  /\ node_failed' = [node_failed EXCEPT ![n] = TRUE]
  /\ UNCHANGED <<value, failure_recorded, failed_node_id, ran>>

\* record_failure: the first one wins.
RecordFailure(n) ==
  /\ Move(n, "record", IF failure_recorded THEN "finish" ELSE "write")
  /\ failure_recorded' = TRUE
  /\ UNCHANGED <<value, node_failed, failed_node_id, ran>>

WriteFailure(n) ==
  /\ Move(n, "write", "finish")
  /\ failed_node_id' = n
  /\ UNCHANGED <<value, node_failed, failure_recorded, ran>>

\* The future is ready; the tasks that wait for nothing else are queued.
Launched_any(s, m) == s[m] = "held" /\ \E d \in upstream(m) : s[d] = "ready"
Launched_stale(s, m) == s[m] = "held" /\ Ready(stage, m)
Launched(s, m) == s[m] = "held" /\ Ready(s, m)

Finish(n) ==
  LET finished == [stage EXCEPT ![n] = "ready"] IN
  /\ stage[n] = "finish"
  /\ stage' = [m \in Ids |-> IF Launched(finished, m) THEN "queued" ELSE finished[m]]
  /\ UNCHANGED <<value, node_failed, failure_recorded, failed_node_id, ran>>

TaskStep(n) ==
  /\ phase \in {"push", "wait"}
  /\ \/ TakeTask(n) \/ CheckUpstream(n) \/ Work(n) \/ CatchFailure(n)
     \/ RecordFailure(n) \/ WriteFailure(n) \/ Finish(n)
  /\ UNCHANGED <<gbvars, results>>

\* wait() has returned: every result, and the recorded failure.
RunReturns ==
  /\ phase = "wait" /\ \A n \in Ids : stage[n] = "ready"
  /\ phase' = "returned"
  /\ results' = value
  /\ UNCHANGED <<use, tracing, status, sorting, stage, value, node_failed, failure_recorded, failed_node_id, ran>>

GStep == GBNext /\ UNCHANGED gevars
GNext == GStep \/ Run \/ Push \/ RunReturns \/ \E n \in DOMAIN stage : TaskStep(n)

RunSpec == GInit /\ [][GNext]_gvars

(***************************************************************************)
(* Properties                                                              *)
(***************************************************************************)
Throws == {n \in Ids : nodes_[n + 1] \in use.throws}

\* The value of a node, by recursion over its dependencies
Expected == LET v[n \in Ids] == <<nodes_[n + 1], [i \in DOMAIN dependencies(n) |-> v[dependencies(n)[i]]]>> IN v

\* run() gives every node its own value, computed from the values of its
\* dependencies in their declared order, and an empty one exactly to the
\* nodes whose work throws or that depend, directly or not, on such a node.
ResultsAreRight ==
  phase = "returned" =>
     \A n \in Ids :
       results[n] = IF n \in Throws \/ \E m \in Throws : Closure[n, m] THEN Empty ELSE Expected[n]

\* The run implements GraphEvaluation: whatever threads take the tasks, each
\* node is evaluated once, after its dependencies, and the status names a
\* node that has failed if there is one.
Outcome(n) ==
  IF stage[n] # "ready" THEN "pending"
  ELSE IF ~node_failed[n] THEN "done" ELSE IF ran[n] > 0 THEN "failed" ELSE "skipped"
RunReport ==
  CASE phase \in {"push", "wait"} -> <<"running">>
    [] phase = "returned" -> IF failure_recorded THEN <<"failed", failed_node_id>> ELSE <<"ok">>
    [] OTHER -> <<"idle">>

Started == phase \in {"push", "wait", "returned"}
Evaluation == INSTANCE GraphEvaluation WITH
  before <- IF Started THEN [n \in Ids |-> upstream(n)] ELSE Empty,
  thrown <- IF Started THEN Throws ELSE {},
  outcome <- IF Started THEN [n \in Ids |-> Outcome(n)] ELSE Empty,
  report <- RunReport

Evaluates == Evaluation!EvalSpec

\* run() returns, if the threads go on and the work of the nodes ends.
RunEnds == phase = "push" ~> phase = "returned"
=============================================================================
