--------------------------- MODULE MCNodePipeline ---------------------------
(* Two small instances of the pipeline in one run.  In "messages" two      *)
(* workers meet payloads of every kind, under a policy that asks for no    *)
(* credentials; in "credentials" one worker checks a message while         *)
(* credentials and policy change.  Output handlers may raise in both.      *)
(* In the second, identity and schema come before a credential, and only   *)
(* credential 1 may expire.                                                *)
EXTENDS Revocation, TLC

VARIABLE scenario
mcVars == <<pipeVars, barred, scenario>>

Msg(credentials, payload) ==
    [sender |-> "A", credentials |-> credentials, payload |-> payload]
Requires(schemas_, threshold) == [required |-> schemas_, threshold |-> threshold]

(* A credential with two parents: the first is issued here, the second is  *)
(* the credential itself.                                                  *)
Loop == {11}
LoopCred == 11 :> [issuer |-> "A", schema |-> "s", chain |-> <<1, 11>>, expiry |-> "none"]

Lenient == {Requires({}, 1)}
Strict == {Requires({"s"}, 1), Requires({"s"}, 2)}
AllPolicies == Lenient \cup Strict

AllPayloads == {Msg(<<>>, p) : p \in Payloads}
Presenting == {Msg(<<2>>, "plain"), Msg(<<11>>, "plain")}
AllContents == AllPayloads \cup Presenting

InScenario ==
    CASE scenario = "messages" ->
            /\ policy \in Lenient
            /\ schemas = {} /\ Held = {} /\ revoked = {}
            /\ Range(ingested) \subseteq AllPayloads
      [] scenario = "credentials" ->
            /\ policy \in Strict
            /\ pc["w"] = "idle"
            /\ 2 \in Held => store[2].expiry = "none"
            /\ known = {} => schemas = {} /\ Held = {} /\ revoked = {}
            /\ schemas = {} => Held = {} /\ revoked = {}
            /\ Len(ingested) <= 1 /\ Range(ingested) \subseteq Presenting

MCInit == RevocationInit /\ scenario \in {"messages", "credentials"} /\ InScenario
Stays == UNCHANGED scenario /\ InScenario'
MCNext == RevocationNext /\ Stays

(* The fairness of FairPipeSpec, for the workers of the scenario.          *)
MCSpec ==
    /\ MCInit /\ [][MCNext]_mcVars
    /\ \A w \in Workers : WF_pipeVars(Process(w) /\ Stays)
    /\ WF_pipeVars(Collect /\ Stays)
=============================================================================
