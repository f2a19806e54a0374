----------------------------- MODULE Gatekeeper -----------------------------
(***************************************************************************)
(* What the message pipeline of a node promises the reader of its answers: *)
(* a message gets at most one answer; the answer allows it exactly when    *)
(* there is evidence of it on file, unless the message has a word of its   *)
(* own on that, which is then the answer; and evidence stays on file.      *)
(***************************************************************************)
CONSTANT Messages

VARIABLES
    asked,    \* messages taken in, each with its own word
    evidence, \* those with evidence on file
    answers   \* [msg, allowed] of those answered

(* What a message says itself of whether it is allowed.                    *)
Words == {"nothing", "yes", "no"}

Taken(m) == \E word \in Words : <<m, word>> \in asked
Open(m) == Taken(m) /\ \A v \in BOOLEAN : [msg |-> m, allowed |-> v] \notin answers

Init == asked = {} /\ evidence = {} /\ answers = {}

Ask(m, word) ==
    /\ ~Taken(m)
    /\ asked' = asked \cup {<<m, word>>}
    /\ UNCHANGED <<evidence, answers>>

Record(m) ==
    /\ Open(m)
    /\ evidence' = evidence \cup {m}
    /\ UNCHANGED <<asked, answers>>

Answer(m, v) ==
    /\ Open(m)
    /\ v <=> \/ <<m, "yes">> \in asked
             \/ <<m, "nothing">> \in asked /\ m \in evidence
    /\ answers' = answers \cup {[msg |-> m, allowed |-> v]}
    /\ UNCHANGED <<asked, evidence>>

Next ==
    \E m \in Messages :
        \/ \E word \in Words : Ask(m, word)
        \/ Record(m)
        \/ \E v \in BOOLEAN : Answer(m, v)

Spec == Init /\ [][Next]_<<asked, evidence, answers>>
=============================================================================
