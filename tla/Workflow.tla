------------------------------- MODULE Workflow -------------------------------
(***************************************************************************)
(* The local executor of DSL workflows (dsl_executor/workflow_executor.py): *)
(* the constructor sorts the graph of modules and loads them, execute runs *)
(* them in that order.                                                     *)
(*                                                                         *)
(* The graph is a dictionary of lists.  An edge is a mention of a target   *)
(* in the list of a source: a list may mention a target more than once.    *)
(* The order of dictionaries and lists is left open.                       *)
(***************************************************************************)
EXTENDS Integers, Sequences, FiniteSets

CONSTANTS
    Nodes,    \* keys that a graph may speak of
    Modules,  \* those of them that name a module
    Mentions, \* numbers that tell the mentions of a target in one list apart
    Graphs    \* the graphs that clients store

Edge == Nodes \X Nodes \X Mentions

(* A graph has its keys and its edges, which leave keys only.              *)
ASSUME WorkflowConstants ==
    /\ IsFiniteSet(Nodes)
    /\ Modules \subseteq Nodes
    /\ \A g \in Graphs : /\ g.keys \subseteq Nodes
                         /\ g.edges \subseteq Edge
                         /\ IsFiniteSet(g.edges)
                         /\ \A e \in g.edges : e[1] \in g.keys

VARIABLES
    graph,   \* the workflow
    phase,   \* where constructor and execute are
    degree,  \* in_degree
    queue,   \* nodes that can be visited
    order,   \* execution_order
    outputs, \* previous_outputs: modules that have run
    answer   \* the sink whose output is the answer, once there is one

workflowVars == <<graph, phase, degree, queue, order, outputs, answer>>

Into(n) == {e \in graph.edges : e[2] = n}
Out(n) == {e \in graph.edges : e[1] = n}
Seen == {e[1] : e \in graph.edges} \cup {e[2] : e \in graph.edges}
Sinks == {k \in graph.keys : Out(k) = {}}
Range_(s) == {s[i] : i \in DOMAIN s}

(* The ways to append the members of a set to a list.                      *)
Distinct(s) == \A i, j \in DOMAIN s : s[i] = s[j] => i = j
Appended(list, set) ==
    {list \o s : s \in {t \in [1..Cardinality(set) -> set] : Distinct(t) /\ Range_(t) = set}}

-----------------------------------------------------------------------------
(* validate_and_sort_graph: keys first, then degrees.                      *)
Validate ==
    /\ phase = "new"
    /\ UNCHANGED <<graph, order, outputs, answer>>
    /\ \/ /\ ~ graph.keys \subseteq Modules
          /\ phase' = "undefined"
          /\ UNCHANGED <<degree, queue>>
       \/ /\ graph.keys \subseteq Modules
          /\ phase' = "sorting"
          /\ degree' = [n \in Nodes |-> Cardinality(Into(n))]
          /\ queue' \in Appended(<<>>, {n \in Seen : degree'[n] = 0})

(* One turn of the loop.                                                   *)
Visit ==
    LET current == Head(queue)
        hits(n) == Into(n) \cap Out(current) IN
    /\ phase = "sorting"
    /\ queue # <<>>
    /\ order' = Append(order, current)
    /\ degree' = [n \in Nodes |-> degree[n] - Cardinality(hits(n))]
    /\ queue' \in Appended(Tail(queue), {n \in Nodes : hits(n) # {} /\ degree'[n] = 0})
    /\ UNCHANGED <<graph, phase, outputs, answer>>

(* visited_count counts what was appended.                                 *)
Mut_CountKeys ==
    /\ phase = "sorting"
    /\ queue = <<>>
    /\ phase' = IF Len(order) >= Cardinality(graph.keys) THEN "loading" ELSE "cyclic"
    /\ UNCHANGED <<graph, degree, queue, order, outputs, answer>>
Sorted ==
    /\ phase = "sorting"
    /\ queue = <<>>
    /\ phase' = IF Len(order) = Cardinality(Seen) THEN "loading" ELSE "cyclic"
    /\ UNCHANGED <<graph, degree, queue, order, outputs, answer>>

(* load_modules: the code of any module may fail to load.                  *)
LoadModules ==
    /\ phase = "loading"
    /\ phase' \in {"running", "unloadable"}
    /\ UNCHANGED <<graph, degree, queue, order, outputs, answer>>

-----------------------------------------------------------------------------
(* execute: the next module runs on the outputs so far.  A node that names *)
(* no module is a KeyError.                                                *)
Next_ == order[Cardinality(outputs) + 1]
Evaluate ==
    /\ phase = "running"
    /\ Cardinality(outputs) < Len(order)
    /\ \/ Next_ \in Modules /\ outputs' = outputs \cup {Next_} /\ UNCHANGED phase
       \/ Next_ \in Modules /\ phase' = "raised" /\ UNCHANGED outputs
       \/ Next_ \notin Modules /\ phase' = "keyError" /\ UNCHANGED outputs
    /\ UNCHANGED <<graph, degree, queue, order, answer>>

(* The answer is the output of the first key without targets: it fails     *)
(* when there is none, or when it is no node of an edge and never ran.     *)
Answer ==
    /\ phase = "running"
    /\ Cardinality(outputs) = Len(order)
    /\ \/ Sinks = {} /\ phase' = "noSink" /\ UNCHANGED answer
       \/ \E k \in Sinks :
            \/ k \in outputs /\ phase' = "answered" /\ answer' = {k}
            \/ k \notin outputs /\ phase' = "notRun" /\ UNCHANGED answer
    /\ UNCHANGED <<graph, degree, queue, order, outputs>>

-----------------------------------------------------------------------------
WorkflowInit ==
    /\ graph \in Graphs
    /\ phase = "new"
    /\ degree = [n \in Nodes |-> 0]
    /\ queue = <<>>
    /\ order = <<>>
    /\ outputs = {}
    /\ answer = {}

WorkflowNext == Validate \/ Visit \/ Sorted \/ LoadModules \/ Evaluate \/ Answer

WorkflowSpec == WorkflowInit /\ [][WorkflowNext]_workflowVars

-----------------------------------------------------------------------------
Accepted == phase \notin {"new", "undefined", "sorting", "cyclic"}

(* Type invariant.                                                         *)
WorkflowTypeOK ==
    /\ graph.keys \subseteq Nodes /\ graph.edges \subseteq Edge
    /\ phase \in {"new", "undefined", "sorting", "cyclic", "loading", "unloadable", "running",
                  "raised", "keyError", "noSink", "notRun", "answered"}
    /\ degree \in [Nodes -> Nat]
    /\ queue \in Seq(Nodes)
    /\ order \in Seq(Nodes)
    /\ outputs \subseteq Modules
    /\ answer \subseteq graph.keys

(* Whatever the order of dictionaries and lists, and however often a list  *)
(* mentions a target, no node is visited before each node that feeds it,   *)
(* and none twice.                                                         *)
InputsFirst ==
    /\ Distinct(order)
    /\ \A i \in DOMAIN order : \A e \in Into(order[i]) :
            \E j \in 1..(i - 1) : order[j] = e[1]

(* A module runs on the outputs of all modules that feed it.               *)
RunsOnItsInputs ==
    \A m \in outputs : \A e \in Into(m) : e[1] \in outputs

(* The constructor refuses a graph with a cycle, and no other: the nodes   *)
(* that a node can reach are the least set that edges from the node, and   *)
(* from the set itself, do not leave.                                      *)
Targets(set) == {e[2] : e \in {f \in graph.edges : f[1] \in set}}
Reachable(n) == {m \in Nodes : \A set \in SUBSET Nodes : Targets(set \cup {n}) \subseteq set => m \in set}
HasCycle == \E n \in Nodes : n \in Reachable(n)
OnlyCyclesRefused ==
    /\ Accepted => ~HasCycle
    /\ phase = "cyclic" => HasCycle

(* A workflow that is accepted, and none of whose modules raises, fails    *)
(* only when a target names no module, or no key lacks targets, or one     *)
(* that does is in no edge.  Otherwise every node of the graph has run     *)
(* before the answer, which is the output of a key without targets.        *)
FailsOnlyWhenUnsound ==
    /\ phase = "keyError" => ~ Seen \subseteq Modules
    /\ phase = "noSink" => Sinks = {}
    /\ phase = "notRun" => \E k \in Sinks : k \notin Seen
    /\ phase = "answered" => Seen = outputs /\ answer \subseteq Sinks \cap outputs
=============================================================================
