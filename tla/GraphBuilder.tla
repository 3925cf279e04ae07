---------------------------- MODULE GraphBuilder ----------------------------
(***************************************************************************)
(* graph_builder and keyed_graph_builder. Nodes and edges are declared one *)
(* by one, or traced: resolve() keeps a stack of frames, one for each key  *)
(* whose resolver is running, and gives the key a node when the resolver   *)
(* returns. build() is Kahn's algorithm, one step for each node that it    *)
(* takes from its queue.                                                   *)
(*                                                                         *)
(* What the callbacks of a user do is data: a resolver needs the keys of a *)
(* list, in its order, and discover_fn sees a key of the list once the     *)
(* keys that reveal it are resolved. A resolver returns the status of the  *)
(* first resolve() that fails, and so does resolve_with_discovery.         *)
(***************************************************************************)
EXTENDS Integers, FiniteSetsExt, SequencesExt, Relation

CONSTANT GraphUses     \* what the users do: records, see GInit

VARIABLES use,         \* rigid: a member of GraphUses
          phase,       \* "trace", "sort", "built", "refused", and the executor's
          declared,    \* edges or root keys that were passed so far
          nodes_,      \* nodes_ of the builder: the name or key of each, id 0 first
          edges_,      \* edges_ of the builder: <<node, dependency>>
          resolved_,   \* resolved_: the node of each key
          frames,      \* frame_stack_ and the locals of the resolvers that run
          status,      \* the status that resolve() or build() returns
          in_degree, ready, order   \* the locals of build()

gbvars == <<use, phase, declared, nodes_, edges_, resolved_, frames, status, in_degree, ready, order>>
tracing == <<declared, nodes_, edges_, resolved_, frames>>
sorting == <<in_degree, ready, order>>

Ids == 0..(Len(nodes_) - 1)

\* use.mode: "declare" passes use.names to add_node and use.edges to
\* depends_on; "resolve" and "discover" resolve use.roots. use.needs[k] lists
\* <<key, the keys that reveal it>>; use.fails has the keys that cannot be built.
GBInit == /\ use \in GraphUses
          /\ phase = "trace" /\ declared = 0
          /\ nodes_ = (IF use.mode = "declare" THEN use.names ELSE <<>>)
          /\ edges_ = <<>>
          /\ resolved_ = [k \in {} |-> 0]
          /\ frames = <<>>
          /\ status = "ok"
          /\ in_degree = [n \in {} |-> 0] /\ ready = <<>> /\ order = <<>>

DependsOn ==
  /\ phase = "trace" /\ use.mode = "declare" /\ declared < Len(use.edges)
  /\ edges_' = Append(edges_, use.edges[declared + 1])
  /\ declared' = declared + 1
  /\ UNCHANGED <<use, phase, nodes_, resolved_, frames, status, sorting>>

(***************************************************************************)
(* resolve                                                                 *)
(***************************************************************************)
Frame(k) == [key |-> k, left |-> IF use.mode = "resolve" THEN [i \in DOMAIN use.needs[k] |-> use.needs[k][i][1]]
                                 ELSE <<>>,
             settled |-> use.mode = "resolve", dependencies |-> <<>>]
in_progress == {frames[i].key : i \in DOMAIN frames}
is_resolved(k) == k \in DOMAIN resolved_

\* record_in_caller_frame
Recorded(stack, id) ==
  IF stack = <<>> THEN stack
  ELSE Append(Front(stack), [Last(stack) EXCEPT !.dependencies = Append(@, id)])

\* What resolve(k) does before it calls the resolver, on the stack of its caller
Found(stack, k) == Recorded(stack, resolved_[k])

Lookup(stack, k) ==
  CASE is_resolved(k) -> frames' = Found(stack, k) /\ UNCHANGED status
    [] k \in in_progress -> frames' = stack /\ status' = "cycle_detected"
    [] OTHER -> frames' = Append(stack, Frame(k)) /\ UNCHANGED status

ResolveRoot ==
  /\ phase = "trace" /\ use.mode # "declare" /\ frames = <<>> /\ declared < Len(use.roots)
  /\ declared' = declared + 1
  /\ status' = "ok"
  /\ frames' = IF is_resolved(use.roots[declared + 1]) THEN <<>> ELSE <<Frame(use.roots[declared + 1])>>
  /\ UNCHANGED <<use, phase, nodes_, edges_, resolved_, sorting>>

\* The resolver asks for its next dependency.
ResolveDependency ==
  /\ phase = "trace" /\ frames # <<>> /\ status = "ok" /\ Last(frames).left # <<>>
  /\ Lookup(Append(Front(frames), [Last(frames) EXCEPT !.left = Tail(@)]), Head(Last(frames).left))
  /\ UNCHANGED <<use, phase, declared, nodes_, edges_, resolved_, sorting>>

\* A pass of resolve_with_discovery
newly_needed(k) ==
  LET seen == SelectSeq(use.needs[k], LAMBDA d : d[2] \subseteq DOMAIN resolved_ /\ ~is_resolved(d[1]))
  IN  [i \in DOMAIN seen |-> seen[i][1]]

\* The pass that ends the discovery
fixed_point(k) == newly_needed(k) = <<>>

Discover ==
  LET f == Last(frames) IN
  /\ phase = "trace" /\ frames # <<>> /\ status = "ok" /\ f.left = <<>> /\ ~f.settled
  /\ frames' = Append(Front(frames), [f EXCEPT !.left = newly_needed(f.key), !.settled = fixed_point(f.key)])
  /\ UNCHANGED <<use, phase, declared, nodes_, edges_, resolved_, status, sorting>>

\* The resolver returns: a node and its edges, or a failure.
ResolverReturns ==
  LET f == Last(frames)
      id == Len(nodes_)
      failed == status # "ok" \/ f.key \in use.fails
  IN  /\ phase = "trace" /\ frames # <<>>
      /\ status # "ok" \/ (f.left = <<>> /\ f.settled)
      /\ IF failed
         THEN /\ frames' = Front(frames)
              /\ status' = (IF status = "ok" THEN "resolver_failed" ELSE status)
              /\ UNCHANGED <<nodes_, edges_, resolved_>>
         ELSE /\ nodes_' = Append(nodes_, f.key)
              /\ edges_' = edges_ \o [i \in DOMAIN f.dependencies |-> <<id, f.dependencies[i]>>]
              /\ resolved_' = (f.key :> id) @@ resolved_
              /\ frames' = Recorded(Front(frames), id)
              /\ UNCHANGED status
      /\ UNCHANGED <<use, phase, declared, sorting>>

(***************************************************************************)
(* build                                                                   *)
(***************************************************************************)
\* edges_ keeps the order of the depends_on calls.
successors(n) ==
  LET out == SelectSeq(edges_, LAMBDA e : e[2] = n) IN [i \in DOMAIN out |-> out[i][1]]
dependencies(n) ==
  LET into == SelectSeq(edges_, LAMBDA e : e[1] = n) IN [i \in DOMAIN into |-> into[i][2]]
\* The same nodes, without their order
upstream(n) == {edges_[i][2] : i \in {j \in DOMAIN edges_ : edges_[j][1] = n}}

Traced == /\ phase = "trace" /\ frames = <<>>
          /\ declared = Len(IF use.mode = "declare" THEN use.edges ELSE use.roots)

Build ==
  /\ Traced
  /\ IF \E i \in DOMAIN edges_ : edges_[i][1] \notin Ids \/ edges_[i][2] \notin Ids
     THEN phase' = "refused" /\ status' = "unknown_node_reference" /\ UNCHANGED sorting
     ELSE /\ phase' = "sort"
          /\ status' = "ok"
          /\ in_degree' = [n \in Ids |-> Len(dependencies(n))]
          /\ ready' = SelectSeq([i \in 1..Len(nodes_) |-> i - 1], LAMBDA n : dependencies(n) = <<>>)
          /\ order' = <<>>
  /\ UNCHANGED <<use, tracing>>

\* One pop of the queue: each successor loses one of its edges, a successor
\* that is listed twice loses two.
Released_eager(degree) == degree <= 1
Released(degree) == degree = 0

Sort ==
  LET step(s, n) == [in_degree |-> [s.in_degree EXCEPT ![n] = @ - 1],
                     ready |-> IF Released(s.in_degree[n] - 1) THEN Append(s.ready, n) ELSE s.ready]
      done == FoldLeft(step, [in_degree |-> in_degree, ready |-> Tail(ready)], successors(Head(ready)))
  IN  /\ phase = "sort" /\ ready # <<>>
      /\ order' = Append(order, Head(ready))
      /\ in_degree' = done.in_degree
      /\ ready' = done.ready
      /\ UNCHANGED <<use, phase, tracing, status>>

BuildReturns ==
  /\ phase = "sort" /\ ready = <<>>
  /\ IF Len(order) # Len(nodes_)
     THEN phase' = "refused" /\ status' = "cycle_detected"
     ELSE phase' = "built" /\ UNCHANGED status
  /\ UNCHANGED <<use, tracing, sorting>>

GBNext == \/ DependsOn \/ ResolveRoot \/ ResolveDependency \/ Discover \/ ResolverReturns
          \/ Build \/ Sort \/ BuildReturns

(***************************************************************************)
(* Properties                                                              *)
(***************************************************************************)
Edges == {<<edges_[i][1], edges_[i][2]>> : i \in DOMAIN edges_}
Closure == TransitiveClosure([p \in Ids \X Ids |-> p \in Edges], Ids)
Cyclic == \E n \in Ids : Closure[n, n]

\* build() accepts exactly the graphs whose edges name nodes and have no
\* cycle, whatever edges are repeated, and its order has every node once,
\* after all of its dependencies.
BuildIsRight ==
  /\ phase = "refused" /\ status = "unknown_node_reference" => ~(Edges \subseteq Ids \X Ids)
  /\ phase = "refused" /\ status = "cycle_detected" => Cyclic
  /\ phase = "built" =>
       /\ Edges \subseteq Ids \X Ids /\ ~Cyclic
       /\ Len(order) = Len(nodes_) /\ Range(order) = Ids
       /\ \A i, j \in DOMAIN order : <<order[i], order[j]>> \in Edges => j < i

\* A trace is never refused ("structurally unreachable"), whatever has
\* failed on the way: every node is that of one resolved key, the keys that
\* it needs were resolved before it, and resolve() leaves no frame behind.
TraceIsClean ==
  use.mode # "declare" =>
     /\ phase # "refused"
     /\ Len(nodes_) = Cardinality(DOMAIN resolved_)
     /\ \A k \in DOMAIN resolved_ :
          /\ nodes_[resolved_[k] + 1] = k
          /\ \A d \in Range(use.needs[k]) : is_resolved(d[1]) /\ resolved_[d[1]] < resolved_[k]
     /\ Cardinality(in_progress) = Len(frames)

\* "for every key `out_work` depends on, in the order `out_work`'s input
\* vector should receive their results": the dependencies of a node are the
\* keys that its resolver needs, in order.
InputsAreNeeds ==
  \A k \in DOMAIN resolved_ :
     dependencies(resolved_[k]) =
       [i \in DOMAIN use.needs[k] |-> resolved_[use.needs[k][i][1]]]

\* That is what resolve() records, also of a key that was resolved before.
ResolveRecordsNeeds == use.mode = "resolve" => InputsAreNeeds

\* A graph that build() returns is the one that was declared or traced.
GraphSound == BuildIsRight /\ TraceIsClean /\ ResolveRecordsNeeds
=============================================================================
