----------------------------- MODULE MCWitness -----------------------------
(* Small instances of the witness: one AID whose inception A0 is contested *)
(* by B0, two rival extensions A1 and B1 of A0, and A2 that extends A1.  An *)
(* event sent before its prior is escrowed.                                *)
EXTENDS Witness

Icp(said) == [aid |-> "aid", sn |-> 0, said |-> said, prior |-> NoSaid,
              ilk |-> "icp", keys |-> TRUE, wits |-> TRUE]
Ext(sn, said, prior, ilk) ==
    [aid |-> "aid", sn |-> sn, said |-> said, prior |-> prior,
     ilk |-> ilk, keys |-> FALSE, wits |-> TRUE]

MCAids == {"aid"}
MCSaids == {"A0", "B0", "A1", "B1", "A2"}

A0 == Icp("A0")
A1 == Ext(1, "A1", "A0", "rot")
A2 == Ext(2, "A2", "A1", "ixn")

ContestedRaws == {A0, A1, A2, Icp("B0"), Ext(1, "B1", "A0", "ixn")}

(* Fewer rivals, an extension and an inception that the validator refuses. *)
SerialRaws == {A0, A1, Icp("B0"), Ext(1, "B1", "A0", "ixn"),
               [Ext(1, "A2", "A0", "drt") EXCEPT !.wits = FALSE],
               [Icp("B0") EXCEPT !.keys = FALSE]}

SignedOrNot == {{}, {"valid"}}
=============================================================================
