-------------------------- MODULE GraphEvaluation --------------------------
(***************************************************************************)
(* What graph_executor::run promises, without threads and queues: each     *)
(* node is evaluated once, after its dependencies; a node is skipped if a  *)
(* dependency has failed or was skipped; the report is success, or one     *)
(* node that has failed.                                                   *)
(***************************************************************************)
EXTENDS Naturals

VARIABLES before,        \* the dependencies of each node
          thrown,        \* the nodes whose work throws
          outcome,       \* "pending", "done", "failed" or "skipped", for each node
          report         \* <<"idle">>, <<"running">>, <<"ok">> or <<"failed", node>>

EvalInit == report = <<"idle">>

\* run() is called with any graph.
Submit ==
  /\ report = <<"idle">> /\ report' = <<"running">>
  /\ thrown' \subseteq DOMAIN before'
  /\ outcome' = [n \in DOMAIN before' |-> "pending"]

Settled(n) == outcome[n] # "pending"
Bad(n) == outcome[n] \in {"failed", "skipped"}

\* A node is settled once all of its dependencies are.
Evaluate(n) ==
  /\ report = <<"running">>
  /\ ~Settled(n) /\ \A d \in before[n] : Settled(d)
  /\ outcome' = [outcome EXCEPT ![n] = IF \E d \in before[n] : Bad(d) THEN "skipped"
                                       ELSE IF n \in thrown THEN "failed" ELSE "done"]
  /\ UNCHANGED <<before, thrown, report>>

\* run() returns when nothing is pending.
Report ==
  /\ report = <<"running">> /\ \A n \in DOMAIN before : Settled(n)
  /\ \/ \E n \in DOMAIN before : outcome[n] = "failed" /\ report' = <<"failed", n>>
     \/ (\A n \in DOMAIN before : outcome[n] # "failed") /\ report' = <<"ok">>
  /\ UNCHANGED <<before, thrown, outcome>>

EvalNext == Submit \/ Report \/ \E n \in DOMAIN before : Evaluate(n)

EvalSpec == EvalInit /\ [][EvalNext]_<<before, thrown, outcome, report>>
=============================================================================
