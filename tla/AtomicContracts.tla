--------------------------- MODULE AtomicContracts ---------------------------
(***************************************************************************)
(* What the contract store promises a client that is alone: every          *)
(* operation happens at once, on the whole contract.                       *)
(***************************************************************************)
EXTENDS Integers, Sequences, FiniteSets, Bags

CONSTANTS Contracts, Specs, Removable

VARIABLE contents  \* a bag of documents in each collection

Collections == {"contracts", "sub_contracts", "actions", "verification_entries", "constraints"}

Without(bag, gone) == [d \in BagToSet(bag) \ gone |-> bag[d]]

Created(s) ==
    contents' = [x \in Collections |->
        contents[x] (+) SetToBag({s.docs[i].doc : i \in {j \in DOMAIN s.docs : s.docs[j].coll = x}})]

(* After an update, each document of the specification is there, with what *)
(* the specification says of it, and no other document has changed.        *)
SaysWhat(d, e) == d.id = e.id /\ d.of = e.of /\ d.version = e.version
Updated(s) ==
    \A x \in Collections :
        LET wanted == {s.docs[i].doc : i \in {j \in DOMAIN s.docs : s.docs[j].coll = x}}
            others(bag) == Without(bag, {d \in BagToSet(bag) : \E e \in wanted : d.id = e.id})
        IN  /\ others(contents'[x]) = others(contents[x])
            /\ \A e \in wanted :
                /\ \E d \in BagToSet(contents'[x]) : SaysWhat(d, e)
                /\ {d \in BagToSet(contents[x]) : d.id = e.id} = {}
                    => {d \in BagToSet(contents'[x]) : d.id = e.id} = {e}

(* A deletion takes one document with the id of the contract, and all that *)
(* hangs on it.                                                            *)
Deleted(c) ==
    LET subs == {d \in BagToSet(contents["sub_contracts"]) : d.of = c}
        clauses == UNION {d.clause.ids : d \in subs}
        hanging == [x \in Collections |->
            CASE x = "contracts" -> {}
              [] x = "sub_contracts" -> subs
              [] OTHER -> {d \in BagToSet(contents[x]) : d.of \in clauses}]
    IN  \/ \E d \in BagToSet(contents["contracts"]) :
            /\ d.id = c
            /\ contents' = [x \in Collections |->
                    IF x = "contracts" THEN contents[x] (-) SetToBag({d})
                    ELSE Without(contents[x], hanging[x])]
        \/ /\ \A d \in BagToSet(contents["contracts"]) : d.id # c
           /\ contents' = [x \in Collections |-> Without(contents[x], hanging[x])]

(* A removal takes one document with the id, if there is one.              *)
Removed(r) ==
    \/ \E d \in BagToSet(contents[r.coll]) :
         /\ d.id = r.id
         /\ contents' = [contents EXCEPT ![r.coll] = @ (-) SetToBag({d})]
    \/ /\ \A d \in BagToSet(contents[r.coll]) : d.id # r.id
       /\ UNCHANGED contents

AtomicInit == contents = [x \in Collections |-> EmptyBag]
AtomicNext ==
    \/ \E s \in Specs : Created(s) \/ Updated(s)
    \/ \E c \in Contracts : Deleted(c)
    \/ \E r \in Removable : Removed(r)

AtomicSpec == AtomicInit /\ [][AtomicNext]_contents
=============================================================================
