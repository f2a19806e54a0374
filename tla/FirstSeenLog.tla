---------------------------- MODULE FirstSeenLog ----------------------------
(***************************************************************************)
(* What a witness or a watcher promises about the events it has seen first *)
(* (KERI's first-seen policy), without saying how: a log of slots          *)
(* <<aid, sn>>, each holding one said for good, filled in sequence order.  *)
(*                                                                         *)
(* Watcher implements it with any number of workers, Witness with a single *)
(* writer.                                                                 *)
(***************************************************************************)
EXTENDS Integers

CONSTANTS Aids, Digests

VARIABLE log

Entry == [aid : Aids, sn : Nat, said : Digests]

Seen(aid, sn) == \E e \in log : e.aid = aid /\ e.sn = sn

See(e) ==
    /\ ~Seen(e.aid, e.sn)
    /\ e.sn > 0 => Seen(e.aid, e.sn - 1)
    /\ log' = log \cup {e}

Init == log = {}

(* The new entry is taken from the step: Entry is infinite.                *)
Next == \E e \in log' \ log : e \in Entry /\ See(e)

Spec == Init /\ [][Next]_log

=============================================================================
