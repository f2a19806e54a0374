----------------------------- MODULE Revocation -----------------------------
(***************************************************************************)
(* The pipeline with a memory of revocations: which messages were barred   *)
(* under which policy while they were still queued.                        *)
(***************************************************************************)
EXTENDS NodePipeline

VARIABLE barred
revocationVars == <<pipeVars, barred>>

(* The policy does not let the message pass: of a schema that it requires, *)
(* the message presents only credentials with a revoked ancestor.          *)
Barred(n, p) ==
    \E s \in p.required : \A i \in DOMAIN Says(n).credentials :
        LET c == Says(n).credentials[i]
        IN  \/ c \in Held /\ store[c].schema # s
            \/ Ancestry(c) \cap revoked # {}

BarredNow == {b \in Message \X Policies : b[1] \in Range(inQueue) /\ Barred(b[1], b[2])}

RevocationInit == PipeInit /\ barred = {}
RevocationNext == PipeNext /\ barred' = barred \cup BarredNow'
RevocationSpec == RevocationInit /\ [][RevocationNext]_revocationVars

(* A revocation before a worker takes the message is never overtaken: no   *)
(* decision under such a policy allows the message, whatever the           *)
(* credentials looked like when it was sent, and whatever is issued,       *)
(* evicted or received while it is checked.                                *)
RevocationIsPrompt ==
    \A w \in Workers : allowed[w] => <<hand[w], context[w].policy>> \notin barred

=============================================================================
