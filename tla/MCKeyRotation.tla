--------------------------- MODULE MCKeyRotation ---------------------------
(* Small instances of the node: two AIDs, one of which may be the other's  *)
(* delegator.  For both no order is kept, or for both it is, or for one of *)
(* them only.                                                              *)
EXTENDS KeyRotation, TLC

MCSeedKeys == {"s1", "s2"}
MCKeys == MCSeedKeys \cup {"k1", "k2", "k3", "k4"}
MCAids == {"A", "B"}
MCPrefix == "s1" :> "A" @@ "s2" :> "B"

OneKey == {{}, {"s1"}}
TwoBackups == {<<"k1", "k2">>, <<"k2">>}

(* Keys for one rotation of each AID that keeps to the order.              *)
KeysOf(a, keys) == preRotated[a] \in keys \cup {NoKey}
InPart ==
    CASE Ordered = Aids -> TRUE
      [] Ordered = {} -> events <= 2 /\ \A a \in Aids : KeysOf(a, {"k1", "k2"})
      [] OTHER -> /\ Ordered = {"A"} /\ events <= 3 /\ saves = 0
                  /\ recovery["B"] = <<>>
                  /\ KeysOf("A", {"k2", "k3"}) /\ incoming["A"] \in {NoKey, "k3"}
                  /\ KeysOf("B", {"k1", "k4"})

MCInit == RotationInit /\ InPart
MCNext == RotationNext /\ InPart'

MCSpec == MCInit /\ [][MCNext]_vars
=============================================================================
