---------------------------- MODULE NodePipeline ----------------------------
(***************************************************************************)
(* The message pipeline of the KERI node: threads of the application take  *)
(* messages in, call process (verify the sender, check presented           *)
(* credentials against the policy, file evidence, submit an envelope), and *)
(* collect envelopes, while credentials are issued and revoked.            *)
(*                                                                         *)
(* The queues are thread-safe and nothing else is locked: a thread runs    *)
(* from one access to shared state to the next.                            *)
(***************************************************************************)
EXTENDS Credentials, Functions

CONSTANTS
    Workers,      \* threads that call process
    Contents,     \* what the messages say
    Policies,     \* the policies set_policy sets
    Signing,      \* whether the node has an output signing key
    HandlersFail, \* whether an output handler may raise
    MaxMessages   \* bound: messages taken in

(* What a payload does to the handler: a dict; a dict with a key "allowed" *)
(* of its own; no dict; a dict that json.dumps refuses.                    *)
Payloads == {"plain", "saysYes", "saysNo", "noDict", "opaque"}

Content == [sender : Aids, credentials : Seq(Ids), payload : Payloads]
Policy == [required : SUBSET Schemas, threshold : Nat]

ASSUME PipelineConstants ==
    /\ Contents \subseteq Content
    /\ Policies \subseteq Policy /\ Policies # {}
    /\ Signing \in BOOLEAN
    /\ HandlersFail \in BOOLEAN
    /\ MaxMessages \in Nat

VARIABLES
    policy,    \* TrustGuard._policy
    ingested,  \* the messages, in the order they were taken in
    inQueue,   \* InputQueue, of positions in ingested
    pc,        \* where each worker is in process
    hand,      \* the message it has taken, 0 for none
    allowed,   \* what it decided
    context,   \* its DecisionContext, with the checks still to make
    evidence,  \* EvidenceStoreAPI: messages with evidence
    returned,  \* what the calls of process returned
    outQueue,  \* OutputQueue
    batch,     \* envelopes collect_all has drained and not dropped
    collecting,\* where the collecting thread is
    collected, \* OutputCollector._collected
    dropped    \* ghost: envelopes drained and lost behind a handler that raised

queues == <<ingested, inQueue, evidence, returned, outQueue>>
collector == <<batch, collecting, collected, dropped>>
locals == <<hand, allowed, context>>
pipeVars == <<credVars, policy, queues, pc, locals, collector>>

Message == 1..MaxMessages

(* An envelope has what its reader finds under payload["allowed"].         *)
Envelope == [msg : Message, allowed : BOOLEAN]
Context == [policy : Policies, todo : Seq(Ids), walk : Seq(Seq(Ids)), presented : Seq(Schemas)]
Steps == {"idle", "verify", "context", "check", "decided", "filed"}

NoContext == [policy |-> CHOOSE p \in Policies : TRUE, todo |-> <<>>, walk |-> <<>>,
              presented |-> <<>>]

Says(n) == ingested[n]
Busy == {w \in Workers : pc[w] # "idle"}

-----------------------------------------------------------------------------
(* Parsing fails before the queue is touched: the message is not taken in. *)
Ingest(m) ==
    /\ Len(ingested) < MaxMessages
    /\ ingested' = Append(ingested, m)
    /\ inQueue' = Append(inQueue, Len(ingested) + 1)
    /\ UNCHANGED <<credVars, policy, evidence, returned, outQueue, pc, locals, collector>>

SetPolicy(p) ==
    /\ p # policy
    /\ policy' = p
    /\ UNCHANGED <<credVars, queues, pc, locals, collector>>

Goto(w, step) == pc' = [pc EXCEPT ![w] = step]
Return(w) ==
    /\ Goto(w, "idle")
    /\ hand' = [hand EXCEPT ![w] = 0]
    /\ allowed' = [allowed EXCEPT ![w] = FALSE]
    /\ context' = [context EXCEPT ![w] = NoContext]

(* process_next takes the first message; no message in time: None.         *)
Get(w) ==
    /\ pc[w] = "idle"
    /\ inQueue # <<>>
    /\ inQueue' = Tail(inQueue)
    /\ hand' = [hand EXCEPT ![w] = Head(inQueue)]
    /\ Goto(w, "verify")
    /\ UNCHANGED <<credVars, policy, ingested, evidence, returned, outQueue, allowed, context,
                   collector>>

(* SenderCredentialVerifier.verify; is_allowed is not called for a sender  *)
(* it does not know.                                                       *)
VerifySender(w) ==
    /\ pc[w] = "verify"
    /\ Goto(w, IF Says(hand[w]).sender \in known THEN "context" ELSE "decided")
    /\ UNCHANGED <<credVars, policy, queues, locals, collector>>

(* evaluate_message reads the policy, then builds the context.             *)
ReadPolicy(w) ==
    /\ pc[w] = "context"
    /\ context' = [context EXCEPT ![w].policy = policy, ![w].todo = Says(hand[w]).credentials]
    /\ Goto(w, "check")
    /\ UNCHANGED <<credVars, policy, queues, hand, allowed, collector>>

(* An exception in the handler: the message has left the queue and process *)
(* returns None.                                                           *)
Raise(w) ==
    /\ Return(w)
    /\ UNCHANGED <<credVars, policy, queues, collector>>

(* The recursion of verify as the stack of the parents still to look at:   *)
(* frames that have none left return.                                      *)
Unwind(walk) ==
    LET unfinished == {i \in DOMAIN walk : walk[i] # <<>>}
    IN  IF unfinished = {} THEN <<>>
        ELSE SubSeq(walk, CHOOSE i \in unfinished : \A j \in unfinished : i <= j, Len(walk))

(* One credential looked at, presented itself or an ancestor of one; the   *)
(* store and the revocation cache may change before the next.              *)
Mut_PresentedOnly(w) ==
    LET c == Head(context[w].todo)
    IN  /\ pc[w] = "check"
        /\ context[w].todo # <<>>
        /\ context' = [context EXCEPT ![w].todo = Tail(@),
                              ![w].presented = IF Usable(c) THEN Append(@, store[c].schema) ELSE @]
        /\ UNCHANGED <<credVars, policy, queues, pc, hand, allowed, collector>>
CheckCredential(w) ==
    LET walk == IF context[w].walk = <<>> THEN <<<<Head(context[w].todo)>>>> ELSE context[w].walk
        c == Head(Head(walk))
        rest == Unwind(<<Chain(c), Tail(Head(walk))>> \o Tail(walk))
        presented == Head(context[w].todo)
    IN  /\ pc[w] = "check"
        /\ context[w].todo # <<>>
        /\ IF Len(walk) > Depth THEN Raise(w)
           ELSE /\ IF ~Usable(c)
                   THEN context' = [context EXCEPT ![w].todo = Tail(@), ![w].walk = <<>>]
                   ELSE IF rest # <<>>
                   THEN context' = [context EXCEPT ![w].walk = rest]
                   ELSE context' = [context EXCEPT
                            ![w].todo = Tail(@), ![w].walk = <<>>,
                            ![w].presented = IF presented \in Held
                                             THEN Append(@, store[presented].schema) ELSE @]
                /\ UNCHANGED <<credVars, policy, queues, pc, hand, allowed, collector>>

(* PolicyEngine.evaluate.                                                  *)
Satisfies(presented, p) ==
    /\ p.required \subseteq {presented[i] : i \in DOMAIN presented}
    /\ p.threshold > 1 => Len(presented) >= p.threshold

Decide(w) ==
    /\ pc[w] = "check"
    /\ context[w].todo = <<>>
    /\ allowed' = [allowed EXCEPT ![w] = Satisfies(context[w].presented, context[w].policy)]
    /\ Goto(w, "decided")
    /\ UNCHANGED <<credVars, policy, queues, hand, context, collector>>

(* EvidencePipeline.process, for a message that is allowed.                *)
FileEvidence(w) ==
    /\ pc[w] = "decided"
    /\ allowed[w]
    /\ IF Says(hand[w]).payload = "opaque" THEN Raise(w)
       ELSE /\ evidence' = evidence \cup {hand[w]}
            /\ Goto(w, "filed")
            /\ UNCHANGED <<credVars, policy, ingested, inQueue, returned, outQueue, locals, collector>>

(* {"allowed": allowed, **payload}: a key "allowed" of the payload is what *)
(* the reader of the envelope finds, and the verdict is when it has none.  *)
OwnWord(payload) ==
    IF payload = "saysYes" THEN "yes" ELSE IF payload = "saysNo" THEN "no" ELSE "nothing"
Told(payload, verdict) ==
    \/ OwnWord(payload) = "yes"
    \/ OwnWord(payload) = "nothing" /\ verdict

(* OutputManager.submit, task_done, and the envelope is returned.          *)
Hand(w, envelope) ==
    /\ outQueue' = Append(outQueue, envelope)
    /\ returned' = returned \cup {envelope}
    /\ Return(w)
    /\ UNCHANGED <<credVars, policy, ingested, inQueue, evidence, collector>>

Mut_SubmitFirst(w) ==
    /\ pc[w] \in {"decided", "filed"}
    /\ Hand(w, [msg |-> hand[w], allowed |-> Told(Says(hand[w]).payload, allowed[w])])
Submit(w) ==
    /\ pc[w] \in {"decided", "filed"}
    /\ allowed[w] => pc[w] = "filed"
    /\ LET n == hand[w]
           payload == Says(n).payload
       IN  IF payload = "noDict" \/ (payload = "opaque" /\ Signing) THEN Raise(w)
           ELSE Hand(w, [msg |-> n, allowed |-> Told(payload, allowed[w])])

-----------------------------------------------------------------------------
(* The collecting thread.  collect_all drains until it finds the queue     *)
(* empty, then dispatches what it drained.                                 *)
CollectAll ==
    /\ collecting = "idle"
    /\ outQueue # <<>>
    /\ collecting' = "draining"
    /\ UNCHANGED <<credVars, policy, queues, pc, locals, batch, collected, dropped>>

Drain ==
    /\ collecting = "draining"
    /\ IF outQueue # <<>>
       THEN /\ batch' = Append(batch, Head(outQueue))
            /\ outQueue' = Tail(outQueue)
            /\ UNCHANGED collecting
       ELSE collecting' = "dispatching" /\ UNCHANGED <<batch, outQueue>>
    /\ UNCHANGED <<credVars, policy, ingested, inQueue, evidence, returned, pc, locals, collected, dropped>>

(* One turn of the loop.  A handler that raises takes collect_all with it, *)
(* and the envelopes behind.                                               *)
Mut_DispatchFirst ==
    /\ collecting = "dispatching"
    /\ collecting' = "idle"
    /\ batch' = <<>>
    /\ collected' = IF batch = <<>> THEN collected ELSE Append(collected, Head(batch))
    /\ UNCHANGED <<credVars, policy, queues, pc, locals, dropped>>
Dispatch ==
    /\ collecting = "dispatching"
    /\ \/ /\ batch = <<>>
          /\ collecting' = "idle"
          /\ UNCHANGED <<batch, collected, dropped>>
       \/ /\ batch # <<>>
          /\ collected' = Append(collected, Head(batch))
          /\ batch' = Tail(batch)
          /\ UNCHANGED <<collecting, dropped>>
       \/ /\ HandlersFail
          /\ batch # <<>>
          /\ collected' = Append(collected, Head(batch))
          /\ dropped' = dropped \cup Range(Tail(batch))
          /\ batch' = <<>>
          /\ collecting' = "idle"
    /\ UNCHANGED <<credVars, policy, queues, pc, locals>>

(* collect_next takes one envelope and swallows what a handler raises.     *)
CollectNext ==
    /\ collecting = "idle"
    /\ outQueue # <<>>
    /\ outQueue' = Tail(outQueue)
    /\ collected' = Append(collected, Head(outQueue))
    /\ UNCHANGED <<credVars, policy, ingested, inQueue, evidence, returned, pc, locals, batch,
                   collecting, dropped>>

-----------------------------------------------------------------------------
PipeInit ==
    /\ CredInit
    /\ policy \in Policies
    /\ ingested = <<>> /\ inQueue = <<>>
    /\ pc = [w \in Workers |-> "idle"]
    /\ hand = [w \in Workers |-> 0]
    /\ allowed = [w \in Workers |-> FALSE]
    /\ context = [w \in Workers |-> NoContext]
    /\ evidence = {} /\ returned = {}
    /\ outQueue = <<>> /\ batch = <<>> /\ collecting = "idle"
    /\ collected = <<>> /\ dropped = {}

Process(w) ==
    \/ Get(w) \/ VerifySender(w) \/ ReadPolicy(w) \/ CheckCredential(w)
    \/ Decide(w) \/ FileEvidence(w) \/ Submit(w)

Collect == CollectAll \/ Drain \/ Dispatch \/ CollectNext

PipeNext ==
    \/ CredNext /\ UNCHANGED <<policy, queues, pc, locals, collector>>
    \/ \E m \in Contents : Ingest(m)
    \/ \E p \in Policies : SetPolicy(p)
    \/ \E w \in Workers : Process(w)
    \/ Collect

PipeSpec == PipeInit /\ [][PipeNext]_pipeVars

(* The application keeps calling process and collect_all.                  *)
FairPipeSpec ==
    /\ PipeSpec
    /\ \A w \in Workers : WF_pipeVars(Process(w))
    /\ WF_pipeVars(Collect)

-----------------------------------------------------------------------------
PipeTypeOK ==
    /\ CredTypeOK
    /\ policy \in Policies
    /\ ingested \in Seq(Contents) /\ Len(ingested) <= MaxMessages
    /\ inQueue \in Seq(Message)
    /\ pc \in [Workers -> Steps]
    /\ hand \in [Workers -> Message \cup {0}]
    /\ allowed \in [Workers -> BOOLEAN]
    /\ context \in [Workers -> Context]
    /\ evidence \subseteq Message
    /\ \A q \in {outQueue, batch, collected} : q \in Seq(Envelope)
    /\ dropped \subseteq Envelope
    /\ collecting \in {"idle", "draining", "dispatching"}

Answered == {e.msg : e \in returned}
InHand == {hand[w] : w \in Busy}

(* A message the handler may fail on: its payload, or a cycle that it is   *)
(* led into when it presents credentials.                                  *)
Fragile(m) ==
    \/ m.payload \in {"noDict", "opaque"}
    \/ m.credentials # <<>> /\ \E d \in Held : OnCycle(d)

(* A message is with one worker only, or still queued once, or answered    *)
(* once and for all.                                                       *)
AnsweredOnce ==
    /\ \A d, e \in returned : d.msg = e.msg => d = e
    /\ \A i, j \in DOMAIN inQueue : inQueue[i] = inQueue[j] => i = j
    /\ \A v, w \in Busy : hand[v] = hand[w] => v = w
    /\ Range(inQueue) \cap (InHand \cup Answered) = {} /\ InHand \cap Answered = {}

(* What the reader of an envelope finds is what the evidence on file says, *)
(* of a message whose payload does not speak for itself, and what the      *)
(* payload says of one that does.  Evidence without an envelope is of a    *)
(* message that a worker still has or failed on.                           *)
EvidenceMatchesAnswers ==
    /\ \A e \in returned :
          LET own == OwnWord(Says(e.msg).payload)
          IN  /\ own = "nothing" => (e.allowed <=> e.msg \in evidence)
              /\ own # "nothing" => (e.allowed <=> own = "yes")
    /\ \A n \in evidence \ Answered : n \in InHand \/ Says(n).payload = "noDict"

(* What process returned is queued, drained, collected or dropped, nothing *)
(* else is, and only handlers that raise make collect_all drop envelopes.  *)
EnvelopesAreKept ==
    /\ returned = Range(outQueue) \cup Range(batch) \cup Range(collected) \cup dropped
    /\ dropped # {} => HandlersFail

(* Every message that does not make its handler fail is answered, and its  *)
(* envelope collected in the end, unless an output handler raised on one   *)
(* that was drained before it: nothing else gets lost, however calls of    *)
(* process, collect_all and collect_next overlap.                          *)
EveryMessageCollected ==
    \A n \in Message :
        n \in Range(inQueue) ~>
            \/ n <= Len(ingested) /\ Fragile(Says(n))
            \/ \E e \in Range(collected) \cup dropped : e.msg = n

(* The pipeline keeps the promises of the abstract gatekeeper; what a      *)
(* message says itself is what its payload does.                           *)
Asked == {<<n, OwnWord(Says(n).payload)>> : n \in 1..Len(ingested)}
Gate == INSTANCE Gatekeeper WITH
    Messages <- Message,
    asked <- Asked,
    answers <- returned
IsGatekeeper == Gate!Spec

=============================================================================
