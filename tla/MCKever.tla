------------------------------- MODULE MCKever -------------------------------
(* Small logs: what a controller, honest or not, has signed.  scenario     *)
(* says which of it reaches the validator.                                 *)
EXTENDS Kever

VARIABLE scenario

Icp(keys, sith, next, nsith, wits, toad) ==
    [sn |-> 0, ilk |-> "icp", prior |-> None, keys |-> keys, sith |-> sith,
     next |-> next, nsith |-> nsith, wits |-> wits, cuts |-> {}, adds |-> {},
     toad |-> toad, estOnly |-> FALSE]
Ixn(sn, prior) ==
    [sn |-> sn, ilk |-> "ixn", prior |-> prior, keys |-> {}, sith |-> 0, next |-> {},
     nsith |-> 0, wits |-> {}, cuts |-> {}, adds |-> {}, toad |-> 0, estOnly |-> FALSE]
Rot(sn, prior, keys, sith, next, nsith, cuts, adds, toad) ==
    [sn |-> sn, ilk |-> "rot", prior |-> prior, keys |-> keys, sith |-> sith,
     next |-> next, nsith |-> nsith, wits |-> {}, cuts |-> cuts, adds |-> adds,
     toad |-> toad, estOnly |-> FALSE]

-----------------------------------------------------------------------------
(* recovery: an inception, two interactions and a rotation that recovers   *)
(* from the second, with an interaction after it; the witness stays.  A    *)
(* rival rotation from the same keys, an interaction after it, and a       *)
(* rotation of its keys that claims to follow what it superseded, are      *)
(* signed as well.  The inception comes first, in the others anything may. *)
(* honest: the first five of them, each with all its signatures.           *)
(* stale: a short log and a rotation that lacks its receipt, as time       *)
(* passes.                                                                 *)
(* split: two keys of which both must sign and two witnesses of which one  *)
(* must receipt; the rotation, cutting a witness for another, exposes a    *)
(* reserve.  Signatures and receipts come one by one.                      *)
MCKed ==
    [icp |-> Icp({"k1"}, 1, {"k2"}, 1, {"w1"}, 1),
     ix1 |-> Ixn(1, "icp"),
     ix2 |-> Ixn(2, "ix1"),
     rot |-> Rot(2, "ix1", {"k2"}, 1, {"k3"}, 1, {}, {}, 1),
     ix3 |-> Ixn(3, "rot"),
     riv |-> Rot(1, "icp", {"k2"}, 1, {"k3"}, 1, {}, {}, 1),
     bad |-> Rot(2, "ix1", {"k3"}, 1, {"k4"}, 1, {}, {}, 1),
     ixr |-> Ixn(2, "riv"),
     late |-> Rot(1, "icp", {"k2"}, 1, {"k4"}, 1, {}, {}, 1),
     sicp |-> Icp({"k1", "k2"}, 2, {"k3", "k4"}, 2, {"w1", "w2"}, 1),
     srot |-> Rot(1, "sicp", {"k3", "k4"}, 1, {"k5"}, 1, {"w2"}, {"w3"}, 2)]

Honest == {"icp", "ix1", "ix2", "rot", "ix3"}
Story == CASE scenario = "recovery" ->
                IF Known(db) THEN Honest \cup {"riv", "bad", "ixr"} ELSE {"icp"}
           [] scenario = "honest" -> Honest
           [] scenario = "stale" -> {"icp", "ix1", "late"}
           [] scenario = "split" -> {"sicp", "srot"}

MCMsgs ==
    {[ev |-> e, sigs |-> {"k1"}, wigs |-> {"w1"}] : e \in {"icp", "ix1", "ix2"}}
    \cup {[ev |-> e, sigs |-> {"k2"}, wigs |-> {"w1"}] : e \in {"ix3", "riv", "ixr"}}
    \cup {[ev |-> e, sigs |-> {"k2"}, wigs |-> {}] : e \in {"rot", "late"}}
    \cup {[ev |-> "bad", sigs |-> {"k3"}, wigs |-> {"w1"}]}
    \cup {[ev |-> "sicp", sigs |-> {k}, wigs |-> {}] : k \in {"k1", "k2"}}
    \cup {[ev |-> "srot", sigs |-> {k}, wigs |-> {}] : k \in {"k3", "k4"}}
    \cup {[ev |-> "srot", sigs |-> {"k3", "k4"}, wigs |-> {"w2", "w3"}]}
MCRcts ==
    {<<"rot", "w1">>, <<"late", "w1">>}
    \cup {<<"sicp", w>> : w \in {"w1", "w2"}} \cup {<<"srot", w>> : w \in {"w1", "w2", "w3"}}

-----------------------------------------------------------------------------
ScenariosInit == KeverInit /\ scenario \in {"recovery", "honest", "stale", "split"}

ScenariosNext ==
    /\ UNCHANGED scenario
    /\ \/ Hear({m \in Msgs : m.ev \in Story}, {r \in Rcts : r[1] \in Story})
       \/ ProcessEscrows
       \/ scenario = "stale" /\ \E e \in Events : Age(e)

(* The scenario "honest" is as fair as FairKeverSpec has it.               *)
Unasked == scenario # "honest"
Fair ==
    /\ \A m \in {x \in Msgs : x.ev \in Honest} :
          []<>(Unasked \/ Received(m) = db) \/ []<><<~Unasked /\ Receive(m)>>_vars
    /\ \A r \in {x \in Rcts : x[1] \in Honest} :
          \/ []<>(Unasked \/ Receipted(db, r[1], r[2]) = db)
          \/ []<><<~Unasked /\ ReceiveReceipt(r)>>_vars
    /\ []<>(Unasked \/ Processed = db) \/ []<><<~Unasked /\ ProcessEscrows>>_vars

ScenariosSpec == ScenariosInit /\ [][ScenariosNext]_<<db, scenario>> /\ Fair

(* An honest log that is sent again and again is accepted to its end.      *)
HonestLogIsAccepted == scenario = "honest" => ReachesTheTip
==============================================================================
