--------------------------- MODULE ContractReport ---------------------------
(***************************************************************************)
(* The report on a contract (db/core/report.py): five reads of the contract *)
(* store, between which its requests go on.  A report only reads, and one  *)
(* at a time, which is begun and begun again, meets all that many meet.    *)
(***************************************************************************)
EXTENDS ContractStore

VARIABLE
    report  \* the report under way: the collection that it reads next, or how it ended,
            \* the sub-clauses that it found, what it shows, and whether a read failed;
            \* for the property, the ids that were there when it began and have been since

reportVars == <<storeVars, report>>

Nothing == [x \in Collections |-> {}]
NoReport == [at |-> "none", of |-> "none", clauses |-> {}, shown |-> Nothing,
             failed |-> FALSE, kept |-> Nothing]

After == [contracts |-> "sub_contracts", sub_contracts |-> "actions",
          actions |-> "verification_entries", verification_entries |-> "constraints",
          constraints |-> "told"]

Ids(x) == {d.id : d \in Held(x)}

-----------------------------------------------------------------------------
Ask(c) ==
    /\ report.at \notin Collections
    /\ report' = [NoReport EXCEPT !.at = "contracts", !.of = c,
                                  !.kept = [x \in Collections |-> {d.id : d \in FamilyOf(c)[x]}]]

(* What a read found is shown, and the next one follows.                   *)
Shows(found, clauses) ==
    report' = [report EXCEPT !.at = After[@], !.clauses = clauses, !.shown[report.at] = found]

(* get_by_id, of one of the documents with the id.  Without a contract, or *)
(* with one that has not just the fields of its class, there is no report. *)
ReadContract ==
    /\ report.at = "contracts"
    /\ \/ \E d \in WithId("contracts", report.of) : d.fields = "all" /\ Shows({d}, {})
       \/ /\ \/ WithId("contracts", report.of) = {}
             \/ \E d \in WithId("contracts", report.of) : d.fields # "all"
          /\ report' = [report EXCEPT !.at = "refused"]

(* The sub-clauses are those of clause data that are lists.                *)
SubsOf(c) == {d \in Held("sub_contracts") : d.of = c}
Mut_FirstClause(found) ==
    {CHOOSE k \in d.clause.ids : TRUE :
        d \in {e \in found : e.clause.form = "list" /\ e.clause.ids # {}}}
ClausesListed(found) == UNION {d.clause.ids : d \in {e \in found : e.clause.form = "list"}}
ReadSubContracts ==
    /\ report.at = "sub_contracts"
    /\ Shows(SubsOf(report.of), ClausesListed(SubsOf(report.of)))

ReadKind(x) ==
    /\ report.at = x
    /\ Shows({d \in Held(x) : d.of \in report.clauses}, report.clauses)

(* MongoDB fails: there is no contract, or a query finds nothing.          *)
ReadFails ==
    \/ /\ report.at = "contracts"
       /\ report' = [report EXCEPT !.at = "refused"]
    \/ /\ report.at \in Collections \ {"contracts"}
       /\ report' = [report EXCEPT !.at = After[@], !.failed = TRUE]

-----------------------------------------------------------------------------
ReportInit == StoreInit /\ report = NoReport

ReportStep ==
    \/ \E c \in Contracts : Ask(c)
    \/ ReadContract
    \/ ReadSubContracts
    \/ \E x \in Kinds : ReadKind(x)
    \/ ReadFails

ReportNext ==
    \/ /\ StoreNext
       /\ report' = [report EXCEPT !.kept = [x \in Collections |-> @[x] \cap Ids(x)']]
    \/ ReportStep /\ UNCHANGED storeVars

ReportSpec == ReportInit /\ [][ReportNext]_reportVars

-----------------------------------------------------------------------------
(* A report shows nothing of another contract; and it shows every document *)
(* of the contract that was there from its beginning to its end, whatever  *)
(* requests changed the store between its reads (report.py:46 "Combine     *)
(* everything").  The second holds of clause data that are lists, as long  *)
(* as no read of the report and no call of a request has failed, and the   *)
(* contract has been neither deleted nor taken apart.                      *)
ReportIsWhole ==
    report.at = "told" =>
        /\ \A x \in Collections : \A d \in report.shown[x] : InSpecsOf(report.of, x, d.id)
        /\ ~report.failed /\ errors = 0 /\ ClausesAre(report.of, "list")
              /\ fate[report.of] = "written"
           => \A x \in Collections : report.kept[x] \subseteq {d.id : d \in report.shown[x]}
=============================================================================
