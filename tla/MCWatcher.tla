----------------------------- MODULE MCWatcher -----------------------------
(* Small instances of the watcher: one AID with an inception A0, an event  *)
(* A1 that extends it, its rival B1, and A2.  An event that arrives before *)
(* its prior is escrowed.                                                  *)
EXTENDS Watcher

Event_(sn, said, ilk, keys) ==
    [aid |-> "aid", sn |-> sn, keys |-> keys, said |-> said, ilk |-> ilk]

MCAids == {"aid"}
MCSaids == {"A0", "A1", "B1", "A2"}

Both == {"s", "sn"}
A0 == Event_(0, "A0", "icp", Both)
A1 == Event_(1, "A1", "ixn", Both)
B1 == Event_(1, "B1", "drt", Both)
A2 == Event_(2, "A2", "ixn", Both)

(* The same, and B1 without "sn", and A2 without "s".                      *)
ContestedRaws == {A0, A1, B1, [B1 EXCEPT !.keys = {"s"}], [A2 EXCEPT !.keys = {"sn"}]}
ChainRaws == {A0, A1, A2}
=============================================================================
