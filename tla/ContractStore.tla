---------------------------- MODULE ContractStore ----------------------------
(***************************************************************************)
(* The contract store (db/core): ContractManager over five MongoDB         *)
(* collections, called by the threads of the Flask application.            *)
(*                                                                         *)
(* Every call of a collection is one step, so that requests interleave     *)
(* between any two of them; no request holds a lock or a transaction.  A   *)
(* request is the list of calls that it still has to make.                 *)
(***************************************************************************)
EXTENDS Integers, Sequences, FiniteSets, Bags

CONSTANTS
    Workers,     \* threads of the application
    Contracts,   \* contract ids
    Specs,       \* specifications that clients post and put
    Ops,         \* operations that clients call
    Removable,   \* sub-documents that clients delete one at a time
    MaxRequests, \* bound: requests
    MaxErrors    \* bound: calls of MongoDB that fail

Kinds == {"actions", "verification_entries", "constraints"}
Collections == {"contracts", "sub_contracts"} \cup Kinds

(* A document: its id, what it belongs to (a sub-contract names its         *)
(* contract, the others a sub-clause), the sub-clauses of a sub-contract,  *)
(* whether it has just the fields of its class, and its other content.     *)
Document(d) ==
    /\ DOMAIN d = {"id", "of", "clause", "fields", "version"}
    /\ DOMAIN d.clause = {"form", "ids"}
    /\ d.clause.form \in {"none", "dict", "list"}
    /\ IsFiniteSet(d.clause.ids)
    /\ d.fields \in {"all", "some", "extra"}

(* A specification that the parser accepts: the documents in the order in  *)
(* which create and update write them, the contract first.                 *)
ASSUME ContractStoreConstants ==
    /\ MaxRequests \in Nat
    /\ MaxErrors \in Nat
    /\ Ops \subseteq {"create", "update", "delete", "remove"}
    /\ \A r \in Removable : r.coll \in Collections \ {"contracts"}
    /\ \A s \in Specs :
        /\ s.contract \in Contracts
        /\ s.docs \in Seq({s.docs[i] : i \in DOMAIN s.docs}) \ {<<>>}
        /\ \A i \in DOMAIN s.docs : s.docs[i].coll \in Collections /\ Document(s.docs[i].doc)

(* Specifications that keep to one shape, which the parser does not ask:   *)
(* a document belongs to one contract, to one thing in it and, when its    *)
(* clause data are given, to the same clauses in every specification; no   *)
(* clause is of two contracts; and a document of a clause comes with a     *)
(* sub-contract of that clause.                                            *)
SpecsAgree ==
    \A s, t \in Specs : \A i \in DOMAIN s.docs, j \in DOMAIN t.docs :
        LET a == s.docs[i].doc  b == t.docs[j].doc IN
        /\ s.docs[i].coll = t.docs[j].coll /\ a.id = b.id =>
              /\ s.contract = t.contract /\ a.of = b.of
              /\ "none" \in {a.clause.form, b.clause.form} \/ a.clause = b.clause
        /\ s.docs[i].coll \in Kinds /\ t.docs[j].coll = "sub_contracts" /\ a.of \in b.clause.ids
              => s.contract = t.contract
SpecsNest ==
    \A s \in Specs : \A i \in DOMAIN s.docs :
        LET d == s.docs[i].doc IN
        /\ s.docs[i].coll = "contracts" => d.id = s.contract
        /\ s.docs[i].coll = "sub_contracts" => d.of = s.contract
        /\ s.docs[i].coll \in Kinds =>
              \E j \in 1..(i - 1) :
                  /\ s.docs[j].coll = "sub_contracts" /\ s.docs[j].doc.clause.form # "none"
                  /\ d.of \in s.docs[j].doc.clause.ids
WellShaped == SpecsAgree /\ SpecsNest

(* A specification that names a document once, and clause data that a      *)
(* deletion reads, dictionaries.                                           *)
NeatSpec(s) ==
    /\ \A i, j \in DOMAIN s.docs :
          s.docs[i].coll = s.docs[j].coll /\ s.docs[i].doc.id = s.docs[j].doc.id => i = j
    /\ "delete" \in Ops => \A i \in DOMAIN s.docs :
          s.docs[i].doc.clause.form = "dict" \/ s.docs[i].doc.clause.ids = {}
Neat == \A s \in Specs : NeatSpec(s)

VARIABLES
    docs,    \* what each collection holds: nothing keeps an id from being there twice
    request, \* what each worker has in hand
    served,  \* requests begun
    errors,  \* calls of MongoDB that failed and documents that were refused
    fate,    \* what became of each contract: new, written, deleted, or apart
    before   \* collections, served and errors when no request was last under way

storeVars == <<docs, request, served, errors, fate, before>>

Idle == [op |-> "idle", contract |-> "none", todo |-> <<>>, clauses |-> {}]
Quiet == \A w \in Workers : request[w] = Idle

Held(c) == BagToSet(docs[c])
WithId(c, id) == {d \in Held(c) : d.id = id}

-----------------------------------------------------------------------------
(* The calls of a request.                                                 *)
Call(do, c, id, d) == [do |-> do, coll |-> c, id |-> id, doc |-> d]
NoDoc == [id |-> "none", of |-> "none", clause |-> [form |-> "none", ids |-> {}],
          fields |-> "some", version |-> 0]
CallsFor(do, s) ==
    [i \in DOMAIN s.docs |-> Call(do, s.docs[i].coll, s.docs[i].doc.id, s.docs[i].doc)]
DeletePlan(c) ==
    << Call("delete", "contracts", c, NoDoc), Call("query", "sub_contracts", c, NoDoc),
       Call("query", "actions", c, NoDoc), Call("query", "verification_entries", c, NoDoc),
       Call("query", "constraints", c, NoDoc) >>

Task(w) == Head(request[w].todo)

(* The worker goes on with calls, or answers when there are none left.     *)
Mut_NeverAnswers(w, calls, clauses) ==
    request' = [request EXCEPT ![w].todo = calls, ![w].clauses = clauses]
Proceed(w, calls, clauses) ==
    request' = [request EXCEPT ![w] =
        IF calls = <<>> THEN Idle ELSE [@ EXCEPT !.todo = calls, !.clauses = clauses]]
Proceeds(w) == Proceed(w, Tail(request[w].todo), request[w].clauses)

Begin(w, op, c, calls) ==
    /\ request[w] = Idle
    /\ op \in Ops
    /\ served < MaxRequests
    /\ served' = served + 1
    /\ request' = [request EXCEPT ![w] = [op |-> op, contract |-> c, todo |-> calls,
                                          clauses |-> {}]]
    /\ UNCHANGED <<docs, errors>>

(* The documents that the specifications of a contract speak of, and the   *)
(* form in which they give clause data.                                    *)
InSpecsOf(c, x, id) ==
    \E s \in Specs : s.contract = c
        /\ \E i \in DOMAIN s.docs : s.docs[i].coll = x /\ s.docs[i].doc.id = id
FamilyOf(c) == [x \in Collections |-> {d \in Held(x) : InSpecsOf(c, x, d.id)}]
ClausesAre(c, form) ==
    \A s \in Specs : s.contract = c =>
        \A i \in DOMAIN s.docs : s.docs[i].doc.clause.form \in {"none", form}

(* For the properties.  A contract is apart, for good, once a write and a  *)
(* deletion of it have been under way together, a sub-contract of it has   *)
(* been removed alone, or it is written after a deletion that could not    *)
(* read its clauses.                                                       *)
Becomes(c, now) ==
    LET others == {request[w].op : w \in {v \in Workers : request[v].contract = c}}
        clash == IF now = "deleted" THEN {"create", "update"} ELSE {"delete"}
        leftovers == now = "written" /\ fate[c] = "deleted" /\ ~ClausesAre(c, "dict")
    IN  fate' = [fate EXCEPT ![c] = IF @ = "apart" \/ others \cap clash # {} \/ leftovers
                                    THEN "apart" ELSE now]

(* POST and PUT.  A specification that the parser refuses changes nothing. *)
Create(w, s) == /\ Begin(w, "create", s.contract, CallsFor("insert", s))
                /\ Becomes(s.contract, "written")
Update(w, s) == /\ Begin(w, "update", s.contract, CallsFor("update", s))
                /\ Becomes(s.contract, "written")

Mut_NoConstraints(w, c) ==
    /\ Begin(w, "delete", c, SubSeq(DeletePlan(c), 1, 4))
    /\ Becomes(c, "deleted")
Delete(w, c) ==
    /\ Begin(w, "delete", c, DeletePlan(c))
    /\ Becomes(c, "deleted")

(* delete_sub_document.                                                    *)
Remove(w, r) ==
    /\ Begin(w, "remove", "none", << Call("delete", r.coll, r.id, NoDoc) >>)
    /\ fate' = [c \in Contracts |-> IF r.coll = "sub_contracts" /\ InSpecsOf(c, r.coll, r.id)
                                     THEN "apart" ELSE fate[c]]

-----------------------------------------------------------------------------
(* BaseMongoCRUD: one document at a time, the first that MongoDB meets.    *)
Insert(w) ==
    LET t == Task(w) IN
    /\ t.do = "insert"
    /\ \/ /\ t.doc.fields = "all"
          /\ docs' = [docs EXCEPT ![t.coll] = @ (+) SetToBag({t.doc})]
          /\ Proceeds(w)
          /\ UNCHANGED errors
       \/ /\ t.doc.fields # "all"    \* from_dict raises: the request ends here
          /\ request' = [request EXCEPT ![w] = Idle]
          /\ errors' = errors + 1
          /\ UNCHANGED docs

(* update_one with $set: fields that the update does not name stay.        *)
Merge(old, new) ==
    [new EXCEPT !.clause = IF @.form = "none" THEN old.clause ELSE @,
                !.fields = IF "extra" \in {old.fields, @} THEN "extra"
                           ELSE IF "all" \in {old.fields, @} THEN "all" ELSE "some"]
Upserted(bag, d) ==
    LET olds == {o \in BagToSet(bag) : o.id = d.id} IN
    IF olds = {} THEN {bag (+) SetToBag({d})}
    ELSE {(bag (-) SetToBag({o})) (+) SetToBag({Merge(o, d)}) : o \in olds}
Mut_NoUpsert(w) ==
    LET t == Task(w) IN
    /\ t.do = "update"
    /\ \/ \E o \in WithId(t.coll, t.id) :
            docs' = [docs EXCEPT ![t.coll] = (@ (-) SetToBag({o})) (+) SetToBag({Merge(o, t.doc)})]
       \/ WithId(t.coll, t.id) = {} /\ UNCHANGED docs
    /\ Proceeds(w)
Upsert(w) ==
    LET t == Task(w) IN
    /\ t.do = "update"
    /\ \E bag \in Upserted(docs[t.coll], t.doc) : docs' = [docs EXCEPT ![t.coll] = bag]
    /\ Proceeds(w)

DeleteOne(w) ==
    LET t == Task(w) IN
    /\ t.do = "delete"
    /\ \/ \E d \in WithId(t.coll, t.id) : docs' = [docs EXCEPT ![t.coll] = @ (-) SetToBag({d})]
       \/ WithId(t.coll, t.id) = {} /\ UNCHANGED docs
    /\ Proceeds(w)

(* The documents that delete looks for: the sub-contracts of the contract, *)
(* then what belongs to the sub-clauses that it found in them.  Clause     *)
(* data that is not one dictionary names none.                             *)
Matches(w, c) ==
    {d \in Held(c) : IF c = "sub_contracts" THEN d.of = request[w].contract
                     ELSE d.of \in request[w].clauses}
ClausesIn(found) == UNION {d.clause.ids : d \in {e \in found : e.clause.form = "dict"}}
Copies(bag, found) == UNION {{d} \X (1..bag[d]) : d \in found}
Listed(c, found) ==
    LET n == Cardinality(Copies(docs[c], found)) IN
    {q \in [1..n -> found] : \A d \in found : Cardinality({i \in 1..n : q[i] = d}) = docs[c][d]}
Query(w) ==
    LET t == Task(w)
        found == Matches(w, t.coll) IN
    /\ t.do = "query"
    /\ \E q \in Listed(t.coll, found) :
         Proceed(w, [i \in DOMAIN q |-> Call("delete", t.coll, q[i].id, NoDoc)]
                        \o Tail(request[w].todo),
                 IF t.coll = "sub_contracts" THEN ClausesIn(found) ELSE request[w].clauses)
    /\ UNCHANGED docs

(* A call of MongoDB fails: it is reported in the answer, and the request  *)
(* goes on; a query that fails finds nothing.                              *)
Fails(w) ==
    /\ errors < MaxErrors
    /\ Task(w).do = "insert" => Task(w).doc.fields = "all"
    /\ errors' = errors + 1
    /\ Proceeds(w)
    /\ UNCHANGED docs

Calls(w) ==
    /\ request[w] # Idle
    /\ \/ Insert(w)
       \/ (Upsert(w) \/ DeleteOne(w) \/ Query(w)) /\ UNCHANGED errors
       \/ Fails(w)
    /\ UNCHANGED <<served, fate>>

-----------------------------------------------------------------------------
Snapshot == [docs |-> docs, served |-> served, errors |-> errors]

StoreInit ==
    /\ docs = [c \in Collections |-> EmptyBag]
    /\ request = [w \in Workers |-> Idle]
    /\ served = 0
    /\ errors = 0
    /\ fate = [c \in Contracts |-> "new"]
    /\ before = Snapshot

StoreStep(w) ==
    \/ \E s \in Specs : Create(w, s) \/ Update(w, s)
    \/ \E c \in Contracts : Delete(w, c)
    \/ \E r \in Removable : Remove(w, r)
    \/ Calls(w)

StoreNext ==
    \E w \in Workers :
        /\ StoreStep(w)
        /\ before' = IF Quiet' THEN Snapshot' ELSE before

StoreSpec == StoreInit /\ [][StoreNext]_storeVars

-----------------------------------------------------------------------------
(* Type invariant: collections are bags of documents, and a request is a   *)
(* list of calls or has been answered.                                     *)
StoreTypeOK ==
    /\ DOMAIN docs = Collections
    /\ \A x \in Collections : IsABag(docs[x]) /\ \A d \in Held(x) : Document(d)
    /\ \A w \in Workers : request[w] = Idle \/ request[w].todo # <<>>
    /\ served \in 0..MaxRequests
    /\ errors \in 0..(MaxErrors + MaxRequests)
    /\ fate \in [Contracts -> {"new", "written", "deleted", "apart"}]

(* Deletions of one contract at the same time, each of which may see only  *)
(* part of it, leave nothing of it between them when the last is answered  *)
(* (ContractManager.delete, clause data as dictionaries, no call failed):  *)
(* neither sub-contracts nor what belongs to their clauses, unless a write *)
(* and a deletion of the contract have overlapped or a sub-contract of it  *)
(* has been removed alone.                                                 *)
DeletedIsGone ==
    \A c \in Contracts :
        /\ ClausesAre(c, "dict") /\ errors = 0
        /\ fate[c] = "deleted" /\ (\A w \in Workers : request[w].contract # c)
        => \A x \in Collections \ {"contracts"} : FamilyOf(c)[x] = {}

(* Once a contract is deleted, no orphan sub-contract or action remains    *)
(* (docs/contracts.md:39): what belongs to a contract is not there without *)
(* the contract.                                                           *)
NoOrphans ==
    Quiet => \A c \in Contracts : WithId("contracts", c) = {} =>
        \A x \in Collections : FamilyOf(c)[x] = {}

(* A request that no other overlaps, none of whose calls fails and none of *)
(* whose documents is refused is one step of a store in which every        *)
(* operation happens at once on the whole contract: unless it takes away a *)
(* sub-contract whose clauses, in a list, a deletion does not read.        *)
Atomic == INSTANCE AtomicContracts WITH contents <- before.docs
Undisturbed ==
    /\ before'.served = before.served + 1
    /\ before'.errors = before.errors
    /\ \A d \in BagToSet(before.docs["sub_contracts"]) \ BagToSet(before'.docs["sub_contracts"]) :
          d.clause.form = "dict" \/ d.clause.ids = {}
IsAtomicContracts ==
    Atomic!AtomicInit /\ [][Undisturbed => Atomic!AtomicNext]_before
=============================================================================
