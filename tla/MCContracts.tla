----------------------------- MODULE MCContracts -----------------------------
(* Small instances of the three services around contracts.  They share no  *)
(* state, so that one run explores them side by side: part says which of   *)
(* them moves, and for the store which contracts clients name, whether one *)
(* thread serves them or two, and whether reports are asked for.           *)
EXTENDS ContractReport, VerificationServer, Workflow

CONSTANT Parts  \* the parts that a run explores

VARIABLE part

storeParts == {"alone", "deleting", "reporting"}
ASSUME MCParts == Parts \subseteq storeParts \cup {"server", "workflow"}

partVars == <<reportVars, serverVars, workflowVars, part>>

-----------------------------------------------------------------------------
Clause(form, ids) == [form |-> form, ids |-> ids]
Plain == Clause("none", {})
Doc(x, id, of, clause, fields, version) ==
    [coll |-> x, doc |-> [id |-> id, of |-> of, clause |-> clause, fields |-> fields,
                          version |-> version]]

(* A contract with one sub-contract of one clause and one of each kind.    *)
Whole(c, version) ==
    [contract |-> c, docs |->
        << Doc("contracts", c, "none", Plain, "all", version),
           Doc("sub_contracts", "s", c, Clause("dict", {"k"}), "all", version),
           Doc("actions", "a", "k", Plain, "all", version),
           Doc("verification_entries", "v", "k", Plain, "all", version),
           Doc("constraints", "n", "k", Plain, "all", version) >>]

(* A contract with two sub-contracts, and an action of each.               *)
Wide(c) ==
    [contract |-> c, docs |->
        << Doc("contracts", c, "none", Plain, "all", 1),
           Doc("sub_contracts", "s1", c, Clause("dict", {"k1"}), "all", 1),
           Doc("sub_contracts", "s2", c, Clause("dict", {"k2"}), "all", 1),
           Doc("actions", "a1", "k1", Plain, "all", 1),
           Doc("actions", "a2", "k2", Plain, "all", 1),
           Doc("constraints", "n3", "k2", Plain, "all", 1) >>]

(* A contract with one sub-contract and one action, under its own ids.     *)
Other(c, version) ==
    [contract |-> c, docs |->
        << Doc("contracts", c, "none", Plain, "all", version),
           Doc("sub_contracts", c \o "t", c, Clause("dict", {c \o "m"}), "all", version),
           Doc("actions", c \o "b", c \o "m", Plain, "all", version) >>]

(* An update that names only the fields that the parser requires, and a    *)
(* contract with an action that has a field too many.                      *)
Sparse(c) ==
    [contract |-> c, docs |->
        << Doc("contracts", c, "none", Plain, "some", 3),
           Doc("sub_contracts", c \o "t", c, Plain, "some", 3) >>]
Extra(c) ==
    [contract |-> c, docs |->
        << Doc("contracts", c, "none", Plain, "all", 1),
           Doc("sub_contracts", c \o "t", c, Clause("dict", {c \o "m"}), "all", 1),
           Doc("actions", c \o "b", c \o "m", Plain, "extra", 1) >>]

MCSpecs ==
    {Whole("c", 1), Whole("c", 2), Other("d", 1), Sparse("d"), Extra("d"),
     Wide("e")}
MCRemovable ==
    {[coll |-> "sub_contracts", id |-> "s"], [coll |-> "actions", id |-> "a"],
     [coll |-> "verification_entries", id |-> "v"], [coll |-> "constraints", id |-> "n"]}

(* What reports are asked of: a sub-contract whose clause data are a list. *)
Itemised(version) ==
    [contract |-> "g", docs |->
        << Doc("contracts", "g", "none", Plain, "all", version),
           Doc("sub_contracts", "t", "g", Clause("list", {"m", "n"}), "all", version),
           Doc("actions", "b", "m", Plain, "all", version),
           Doc("constraints", "p", "n", Plain, "all", version) >>]
MCReportSpecs == {Itemised(1), Itemised(2)}
MCReportRemovable ==
    {[coll |-> "sub_contracts", id |-> "t"], [coll |-> "actions", id |-> "b"]}

(* What the theorems about the store assume of specifications, all of them *)
(* or those of the part in which one thread serves every operation.        *)
ASSUME MCSpecsAreWellShaped == WellShaped
ASSUME MCSpecsAreNeat == \A s \in MCSpecs : s.contract \in {"c", "d"} => NeatSpec(s)

(* In "alone" one thread serves every operation and calls may fail; in     *)
(* "deleting" two threads create and delete one contract; in "reporting"   *)
(* one thread serves creations and one every other operation, while a      *)
(* report is asked for.                                                    *)
InPart ==
    LET contracts == {request[w].contract : w \in Workers} \ {"none"}
        ops == {request[w].op : w \in Workers}
    IN  CASE part = "alone" -> /\ \A w \in Workers \ {"w"} : request[w] = Idle
                               /\ contracts \subseteq {"c", "d"} /\ report = NoReport
          [] part = "deleting" -> /\ contracts \subseteq {"e"} /\ errors = 0
                                  /\ ops \subseteq {"idle", "create", "delete"}
                                  /\ report = NoReport
          [] part = "reporting" -> \A w \in Workers : request[w] # Idle =>
                                       IF w = "w"
                                       THEN request[w].op = "create" /\ Task(w).doc.version = 1
                                       ELSE request[w].op # "create"
          [] OTHER -> TRUE

-----------------------------------------------------------------------------
Graph(keys, edges) == [keys |-> keys, edges |-> edges]
Sources(edges) == {e[1] : e \in edges}

(* All graphs of three modules, whose sources are modules and may be keys  *)
(* without targets; x can only be a target, unless it is a key that names  *)
(* no module.  And all graphs of two modules whose lists mention a target  *)
(* up to twice.                                                            *)
MCGraphs ==
    {Graph(Sources(edges) \cup more, edges) :
        edges \in SUBSET ({"a", "b", "c"} \X Nodes \X {1}), more \in {{}, {"c"}, {"x"}}}
    \cup
    {Graph(Sources(edges) \cup more, edges) :
        edges \in SUBSET ({"a", "b"} \X {"a", "b"} \X Mentions), more \in {{}, {"b"}}}

-----------------------------------------------------------------------------
PartsInit ==
    /\ part \in Parts
    /\ ReportInit /\ ServerInit /\ WorkflowInit
    /\ part # "workflow" => graph = Graph({}, {})

PartsNext ==
    /\ UNCHANGED part
    /\ \/ /\ part \in storeParts
          /\ report.at \notin {"told", "refused"}
          /\ ReportNext /\ InPart'
          /\ UNCHANGED <<serverVars, workflowVars>>
       \/ /\ part = "server"
          /\ ServerNext
          /\ UNCHANGED <<reportVars, workflowVars>>
       \/ /\ part = "workflow"
          /\ WorkflowNext
          /\ UNCHANGED <<reportVars, serverVars>>

PartsSpec == PartsInit /\ [][PartsNext]_partVars
==============================================================================
