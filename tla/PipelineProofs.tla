--------------------------- MODULE PipelineProofs ---------------------------
(***************************************************************************)
(* Proofs about the message pipeline, for any number of workers, messages  *)
(* and credentials, any policies and payloads: every message is with one   *)
(* worker at most and answered once at most, the evidence on file agrees   *)
(* with the answers, and the pipeline implements the abstract gatekeeper;  *)
(* what verify and resolve_chain return is trust in the whole ancestry; and*)
(* a revocation is heeded by every worker that takes the message later.    *)
(***************************************************************************)
EXTENDS Revocation, StackLemmas, FiniteSetTheorems, TLAPS

Taken == 1..Len(ingested)

Types ==
    /\ ingested \in Seq(Contents) /\ Len(ingested) <= MaxMessages
    /\ inQueue \in Seq(Nat)
    /\ pc \in [Workers -> Steps]
    /\ hand \in [Workers -> Nat]
    /\ allowed \in [Workers -> BOOLEAN]
    /\ returned \subseteq [msg : Nat, allowed : BOOLEAN]
    /\ Range(inQueue) \cup InHand \cup Answered \cup evidence \subseteq Taken

(* A worker has filed evidence of its message when it says so, and only    *)
(* for a message it allows; nothing is filed for a queued message.         *)
Filing ==
    /\ \A w \in Workers : allowed[w] => pc[w] \in {"decided", "filed"}
    /\ \A w \in Busy : /\ hand[w] \in evidence <=> pc[w] = "filed"
                       /\ pc[w] = "filed" => allowed[w] /\ Says(hand[w]).payload # "opaque"
    /\ Range(inQueue) \cap evidence = {}

PipeInv == Types /\ AnsweredOnce /\ Filing /\ EvidenceMatchesAnswers

(* What is in a sequence with one more member, or one less.                *)
LEMMA AppendRange ==
    ASSUME NEW S, NEW s \in Seq(S), NEW x \in S
    PROVE  Range(Append(s, x)) = Range(s) \cup {x}
<1>1. Len(s) \in Nat /\ DOMAIN s = 1..Len(s) /\ DOMAIN Append(s, x) = 1..(Len(s) + 1)
  BY LenProperties, AppendProperties
<1>2. Append(s, x)[Len(s) + 1] = x /\ \A i \in 1..Len(s) : Append(s, x)[i] = s[i]
  BY AppendProperties
<1> QED BY <1>1, <1>2 DEF Range

LEMMA TailRange ==
    ASSUME NEW S, NEW s \in Seq(S), s # <<>>,
           \A i, j \in DOMAIN s : s[i] = s[j] => i = j
    PROVE  /\ Head(s) \in Range(s)
           /\ Range(Tail(s)) = Range(s) \ {Head(s)}
           /\ \A i, j \in DOMAIN Tail(s) : Tail(s)[i] = Tail(s)[j] => i = j
<1>1. /\ Len(s) \in Nat \ {0} /\ DOMAIN s = 1..Len(s) /\ Head(s) = s[1]
      /\ DOMAIN Tail(s) = 1..(Len(s) - 1)
      /\ \A i \in 1..(Len(s) - 1) : Tail(s)[i] = s[i + 1]
  BY LenProperties, HeadTailProperties, EmptySeq
<1>2. \A i \in 2..Len(s) : i - 1 \in 1..(Len(s) - 1) /\ s[i] = Tail(s)[i - 1]
  BY <1>1
<1>3. Range(Tail(s)) = {s[i] : i \in 2..Len(s)}
  <2>1. \A i \in DOMAIN Tail(s) : Tail(s)[i] \in {s[j] : j \in 2..Len(s)}
    BY <1>1
  <2>2. ASSUME NEW i \in 2..Len(s) PROVE s[i] \in Range(Tail(s))
    <3>1. i - 1 \in DOMAIN Tail(s) /\ s[i] = Tail(s)[i - 1]
      BY <1>1, <1>2
    <3> QED BY <3>1, Zenon DEF Range
  <2> QED BY <2>1, <2>2 DEF Range
<1>4. {s[i] : i \in 2..Len(s)} = Range(s) \ {s[1]}
  BY <1>1 DEF Range
<1>5. \A i, j \in DOMAIN Tail(s) : Tail(s)[i] = Tail(s)[j] => i = j
  BY <1>1
<1>6. Head(s) \in Range(s)
  BY <1>1 DEF Range
<1> QED BY <1>1, <1>3, <1>4, <1>5, <1>6

(* The invariant looks at the queue, the workers and the answers only.     *)
LEMMA OthersKeep ==
    ASSUME PipeInv, UNCHANGED <<ingested, inQueue, evidence, returned, pc, hand, allowed>>
    PROVE  PipeInv'
<1>1. Busy' = Busy /\ InHand' = InHand /\ Answered' = Answered /\ Taken' = Taken
  BY DEF Busy, InHand, Answered, Taken
<1>2. Range(inQueue)' = Range(inQueue)
  BY DEF Range
<1>3. Types'
  BY <1>1, <1>2 DEF PipeInv, Types
<1>4. AnsweredOnce'
  BY <1>1, <1>2 DEF PipeInv, AnsweredOnce
<1>5. Filing'
  BY <1>1, <1>2 DEF PipeInv, Filing, Says
<1>6. EvidenceMatchesAnswers'
  BY <1>1 DEF PipeInv, EvidenceMatchesAnswers, Says
<1> QED BY <1>3, <1>4, <1>5, <1>6 DEF PipeInv

(* A worker that is neither idle nor done moves on with its message.       *)
LEMMA MoveKeeps ==
    ASSUME PipeInv, NEW w \in Workers, NEW step \in Steps \ {"idle", "filed"}, NEW v \in BOOLEAN,
           pc[w] \notin {"idle", "filed"}, v => step = "decided",
           UNCHANGED <<ingested, inQueue, evidence, returned, hand>>,
           pc' = [pc EXCEPT ![w] = step], allowed' = [allowed EXCEPT ![w] = v]
    PROVE  PipeInv'
<1>1. Busy' = Busy
  BY DEF Busy, PipeInv, Types
<1>2. InHand' = InHand /\ Answered' = Answered /\ Taken' = Taken
  BY <1>1 DEF InHand, Answered, Taken
<1>3. Types'
  BY <1>2 DEF PipeInv, Types, Range
<1>4. AnsweredOnce'
  BY <1>1, <1>2 DEF PipeInv, AnsweredOnce, Range
<1>5. Filing'
  BY <1>1 DEF PipeInv, Types, Filing, Says, Range
<1>6. EvidenceMatchesAnswers'
  BY <1>2 DEF PipeInv, EvidenceMatchesAnswers, Says
<1> QED BY <1>3, <1>4, <1>5, <1>6 DEF PipeInv

(* What the workers have in hand when one of them returns.                 *)
LEMMA ReturnDrops ==
    ASSUME PipeInv, NEW w \in Workers, pc[w] # "idle", Return(w)
    PROVE  /\ Busy' = Busy \ {w}
           /\ \A v \in Busy' : hand'[v] = hand[v] /\ pc'[v] = pc[v] /\ allowed'[v] = allowed[v]
           /\ InHand' = InHand \ {hand[w]}
           /\ hand[w] \in InHand
           /\ pc' \in [Workers -> Steps] /\ hand' \in [Workers -> Nat]
           /\ allowed' \in [Workers -> BOOLEAN]
           /\ \A v \in Workers : allowed'[v] => allowed[v] /\ pc'[v] = pc[v]
<1>1. /\ pc' = [pc EXCEPT ![w] = "idle"] /\ hand' = [hand EXCEPT ![w] = 0]
      /\ allowed' = [allowed EXCEPT ![w] = FALSE]
  BY DEF Return, Goto
<1>2. pc \in [Workers -> Steps] /\ hand \in [Workers -> Nat] /\ allowed \in [Workers -> BOOLEAN]
  BY DEF PipeInv, Types
<1>3. Busy' = Busy \ {w} /\ w \in Busy
  BY <1>1, <1>2 DEF Busy
<1>4. \A v \in Busy' : v # w /\ v \in Workers
  BY <1>3 DEF Busy
<1>5. \A v \in Busy' : hand'[v] = hand[v] /\ pc'[v] = pc[v] /\ allowed'[v] = allowed[v]
  BY <1>1, <1>2, <1>4
<1>6. \A v \in Busy' : hand[v] # hand[w]
  BY <1>3, <1>4 DEF PipeInv, AnsweredOnce
<1>7. InHand' = InHand \ {hand[w]} /\ hand[w] \in InHand
  BY <1>3, <1>5, <1>6 DEF InHand
<1>8. pc' \in [Workers -> Steps] /\ hand' \in [Workers -> Nat] /\ allowed' \in [Workers -> BOOLEAN]
  BY <1>1, <1>2 DEF Steps
<1>9. \A v \in Workers : allowed'[v] => allowed[v] /\ pc'[v] = pc[v]
  BY <1>1, <1>2
<1> QED BY <1>3, <1>5, <1>7, <1>8, <1>9

LEMMA RaiseKeeps ==
    ASSUME PipeInv, NEW w \in Workers, pc[w] # "idle", Raise(w),
           pc[w] = "filed" => Says(hand[w]).payload = "noDict"
    PROVE  PipeInv'
<1>1. Return(w) /\ UNCHANGED <<ingested, inQueue, evidence, returned>>
  BY DEF Raise, queues
<1>2. /\ Busy' = Busy \ {w}
      /\ \A v \in Busy' : hand'[v] = hand[v] /\ pc'[v] = pc[v] /\ allowed'[v] = allowed[v]
      /\ InHand' = InHand \ {hand[w]} /\ hand[w] \in InHand
      /\ pc' \in [Workers -> Steps] /\ hand' \in [Workers -> Nat] /\ allowed' \in [Workers -> BOOLEAN]
      /\ \A v \in Workers : allowed'[v] => allowed[v] /\ pc'[v] = pc[v]
  BY <1>1, ReturnDrops
<1>3. Answered' = Answered /\ Taken' = Taken
  BY <1>1 DEF Answered, Taken
<1>4. Types'
  BY <1>1, <1>2, <1>3 DEF PipeInv, Types, Range
<1>5. AnsweredOnce'
  BY <1>1, <1>2, <1>3 DEF PipeInv, AnsweredOnce, Range
<1>6. Filing'
  BY <1>1, <1>2 DEF PipeInv, Filing, Says, Range
<1>7. EvidenceMatchesAnswers'
  <2>1. w \in Busy
    BY DEF Busy
  <2>2. hand[w] \in evidence => Says(hand[w]).payload = "noDict"
    BY <2>1 DEF PipeInv, Filing
  <2> QED BY <1>1, <1>2, <1>3, <2>2 DEF PipeInv, EvidenceMatchesAnswers, Says
<1> QED BY <1>4, <1>5, <1>6, <1>7 DEF PipeInv

LEMMA IngestKeeps ==
    ASSUME PipeInv, NEW m \in Contents, Ingest(m)
    PROVE  PipeInv' /\ Taken' = Taken \cup {Len(ingested) + 1}
<1> DEFINE n == Len(ingested) + 1
<1>1. /\ ingested' = Append(ingested, m) /\ inQueue' = Append(inQueue, n)
      /\ Len(ingested) < MaxMessages
      /\ UNCHANGED <<evidence, returned, pc, hand, allowed>>
  BY DEF Ingest, locals
<1>2. Len(ingested) \in Nat /\ n \in Nat /\ n \notin Taken
  BY LenProperties DEF PipeInv, Types, Taken
<1>3. /\ ingested' \in Seq(Contents) /\ Len(ingested') = n
      /\ \A k \in Taken : ingested'[k] = ingested[k]
  BY <1>1, AppendProperties DEF PipeInv, Types, Taken
<1>4. Taken' = Taken \cup {n}
  BY <1>2, <1>3 DEF Taken
<1>5. Busy' = Busy /\ InHand' = InHand /\ Answered' = Answered
  BY <1>1 DEF Busy, InHand, Answered
<1>6. Range(inQueue)' = Range(inQueue) \cup {n}
  BY <1>1, <1>2, AppendRange DEF PipeInv, Types
<1>7. inQueue' \in Seq(Nat) /\ \A i, j \in DOMAIN inQueue' : inQueue'[i] = inQueue'[j] => i = j
  <2>1. /\ Len(inQueue) \in Nat /\ DOMAIN inQueue = 1..Len(inQueue)
        /\ \A i \in 1..Len(inQueue) : inQueue[i] # n
    BY <1>2, LenProperties DEF PipeInv, Types, Range
  <2>2. /\ inQueue' \in Seq(Nat) /\ DOMAIN inQueue' = 1..(Len(inQueue) + 1)
        /\ inQueue'[Len(inQueue) + 1] = n
        /\ \A i \in 1..Len(inQueue) : inQueue'[i] = inQueue[i]
    BY <1>1, <1>2, AppendProperties DEF PipeInv, Types
  <2>3. \A i, j \in 1..Len(inQueue) : inQueue[i] = inQueue[j] => i = j
    BY <2>1 DEF PipeInv, AnsweredOnce
  <2> QED BY <2>1, <2>2, <2>3
<1>8. Types'
  BY <1>1, <1>2, <1>3, <1>4, <1>5, <1>6, <1>7, PipelineConstants DEF PipeInv, Types
<1>9. AnsweredOnce'
  BY <1>1, <1>2, <1>5, <1>6, <1>7 DEF PipeInv, Types, AnsweredOnce
<1>10. Filing'
  <2>1. \A w \in Busy : Says(hand[w])' = Says(hand[w])
    BY <1>1, <1>3 DEF PipeInv, Types, InHand, Says
  <2> QED BY <1>1, <1>2, <1>5, <1>6, <2>1 DEF PipeInv, Types, Filing
<1>11. EvidenceMatchesAnswers'
  <2>1. \A k \in Taken : ingested'[k] = ingested[k]
    BY <1>3
  <2>2. evidence \subseteq Taken /\ \A e \in returned : e.msg \in Taken
    BY DEF PipeInv, Types, Answered
  <2>3. \A e \in returned : OwnWord(ingested'[e.msg].payload) = OwnWord(ingested[e.msg].payload)
    BY <2>1, <2>2
  <2> QED BY <1>1, <1>5, <2>1, <2>2, <2>3 DEF PipeInv, EvidenceMatchesAnswers, Says
<1> QED BY <1>4, <1>8, <1>9, <1>10, <1>11 DEF PipeInv

LEMMA GetKeeps ==
    ASSUME PipeInv, NEW w \in Workers, Get(w)
    PROVE  PipeInv'
<1> DEFINE n == Head(inQueue)
<1>1. /\ pc[w] = "idle" /\ inQueue # <<>> /\ inQueue' = Tail(inQueue)
      /\ hand' = [hand EXCEPT ![w] = n] /\ pc' = [pc EXCEPT ![w] = "verify"]
      /\ UNCHANGED <<ingested, evidence, returned, allowed>>
  BY DEF Get, Goto
<1>2. /\ n \in Range(inQueue) /\ Range(inQueue)' = Range(inQueue) \ {n}
      /\ \A i, j \in DOMAIN inQueue' : inQueue'[i] = inQueue'[j] => i = j
  BY <1>1, TailRange DEF PipeInv, Types, AnsweredOnce
<1>3. inQueue' \in Seq(Nat) /\ n \in Nat
  BY <1>1, HeadTailProperties DEF PipeInv, Types
<1>4. Busy' = Busy \cup {w} /\ w \notin Busy
  BY <1>1 DEF Busy, PipeInv, Types
<1>5. hand'[w] = n /\ pc'[w] = "verify"
      /\ \A v \in Busy : hand'[v] = hand[v] /\ pc'[v] = pc[v]
  BY <1>1, <1>4 DEF Busy, PipeInv, Types
<1>6. InHand' = InHand \cup {n} /\ Answered' = Answered /\ Taken' = Taken
  BY <1>1, <1>4, <1>5 DEF InHand, Answered, Taken
<1>7. n \notin InHand /\ n \notin Answered /\ n \in Taken /\ n \notin evidence
  BY <1>2 DEF PipeInv, Types, AnsweredOnce, Filing
<1>8. Types'
  BY <1>1, <1>2, <1>3, <1>6, <1>7 DEF PipeInv, Types, Steps
<1>9. AnsweredOnce'
  <2>1. \A u, v \in Busy' : hand'[u] = hand'[v] => u = v
    BY <1>4, <1>5, <1>7 DEF InHand, PipeInv, AnsweredOnce
  <2> QED BY <1>1, <1>2, <1>6, <1>7, <2>1 DEF PipeInv, AnsweredOnce
<1>10. Filing'
  <2>1. ~allowed[w]
    BY <1>1 DEF PipeInv, Filing
  <2>2. \A v \in Workers : allowed'[v] => pc'[v] \in {"decided", "filed"}
    BY <1>1, <2>1 DEF PipeInv, Types, Filing
  <2> QED BY <1>1, <1>2, <1>4, <1>5, <1>7, <2>2 DEF PipeInv, Filing, Says
<1>11. EvidenceMatchesAnswers'
  BY <1>1, <1>6 DEF PipeInv, EvidenceMatchesAnswers, Says
<1> QED BY <1>8, <1>9, <1>10, <1>11 DEF PipeInv

LEMMA FileKeeps ==
    ASSUME PipeInv, NEW w \in Workers, FileEvidence(w), pc'[w] = "filed"
    PROVE  PipeInv' /\ evidence' = evidence \cup {hand[w]}
<1>1. /\ pc[w] = "decided" /\ allowed[w]
      /\ Says(hand[w]).payload # "opaque"
      /\ evidence' = evidence \cup {hand[w]} /\ pc' = [pc EXCEPT ![w] = "filed"]
      /\ UNCHANGED <<ingested, inQueue, returned, hand, allowed>>
  <2>1. ~Raise(w)
    BY DEF Raise, Return, Goto, PipeInv, Types
  <2> QED BY <2>1 DEF FileEvidence, Goto, locals
<1>2. Busy' = Busy /\ w \in Busy
  BY <1>1 DEF Busy, PipeInv, Types
<1>3. InHand' = InHand /\ Answered' = Answered /\ Taken' = Taken /\ hand[w] \in InHand
      /\ Range(inQueue)' = Range(inQueue)
  BY <1>1, <1>2 DEF InHand, Answered, Taken, Range
<1>4. pc'[w] = "filed" /\ \A v \in Workers \ {w} : pc'[v] = pc[v]
  BY <1>1 DEF PipeInv, Types
<1>5. Types'
  BY <1>1, <1>3 DEF PipeInv, Types, Steps
<1>6. AnsweredOnce'
  BY <1>1, <1>2, <1>3 DEF PipeInv, AnsweredOnce
<1>7. Filing'
  <2>1. \A v \in Busy \ {w} : hand[v] # hand[w] /\ v \in Workers
    BY <1>2 DEF PipeInv, AnsweredOnce, Busy
  <2>2. hand[w] \notin Range(inQueue)
    BY <1>3 DEF PipeInv, AnsweredOnce
  <2>3. \A v \in Workers : allowed'[v] => pc'[v] \in {"decided", "filed"}
    BY <1>1, <1>4 DEF PipeInv, Filing
  <2>4. \A v \in Busy' : /\ hand'[v] \in evidence' <=> pc'[v] = "filed"
                         /\ pc'[v] = "filed" => allowed'[v] /\ Says(hand[v])'.payload # "opaque"
    BY <1>1, <1>2, <1>4, <2>1 DEF PipeInv, Filing, Says
  <2> QED BY <1>1, <1>3, <2>2, <2>3, <2>4 DEF PipeInv, Filing, Says
<1>8. EvidenceMatchesAnswers'
  BY <1>1, <1>3 DEF PipeInv, AnsweredOnce, EvidenceMatchesAnswers, Answered, Says
<1> QED BY <1>1, <1>5, <1>6, <1>7, <1>8 DEF PipeInv

LEMMA SubmitKeeps ==
    ASSUME PipeInv, NEW w \in Workers,
           pc[w] \in {"decided", "filed"}, allowed[w] => pc[w] = "filed",
           Hand(w, [msg |-> hand[w], allowed |-> Told(Says(hand[w]).payload, allowed[w])])
    PROVE  PipeInv'
<1> DEFINE own == OwnWord(Says(hand[w]).payload)
           x == [msg |-> hand[w], allowed |-> Told(Says(hand[w]).payload, allowed[w])]
<1>1. /\ Return(w) /\ returned' = returned \cup {x}
      /\ UNCHANGED <<ingested, inQueue, evidence>>
  BY DEF Hand
<1>2. /\ Busy' = Busy \ {w}
      /\ \A v \in Busy' : hand'[v] = hand[v] /\ pc'[v] = pc[v] /\ allowed'[v] = allowed[v]
      /\ InHand' = InHand \ {hand[w]} /\ hand[w] \in InHand
      /\ pc' \in [Workers -> Steps] /\ hand' \in [Workers -> Nat] /\ allowed' \in [Workers -> BOOLEAN]
      /\ \A v \in Workers : allowed'[v] => allowed[v] /\ pc'[v] = pc[v]
  BY <1>1, ReturnDrops
<1>3. /\ x \in [msg : Nat, allowed : BOOLEAN]
      /\ x.msg = hand[w]
      /\ x.allowed <=> own = "yes" \/ (own = "nothing" /\ allowed[w])
  <2>1. Told(Says(hand[w]).payload, allowed[w]) \in BOOLEAN
    BY DEF Told
  <2>2. Told(Says(hand[w]).payload, allowed[w]) <=> own = "yes" \/ (own = "nothing" /\ allowed[w])
    BY DEF Told
  <2>3. hand[w] \in Nat
    BY DEF PipeInv, Types
  <2> HIDE DEF own
  <2> QED BY <2>1, <2>2, <2>3
<1> HIDE DEF x
<1>4. Answered' = Answered \cup {hand[w]} /\ Taken' = Taken /\ Range(inQueue)' = Range(inQueue)
  BY <1>1, <1>3 DEF Answered, Taken, Range
<1>5. hand[w] \notin Answered /\ hand[w] \in Taken /\ hand[w] \notin Range(inQueue)
  BY <1>2 DEF PipeInv, Types, AnsweredOnce
<1>6. Types'
  BY <1>1, <1>2, <1>3, <1>4, <1>5 DEF PipeInv, Types
<1>7. AnsweredOnce'
  <2>1. \A e \in returned : e.msg # x.msg
    BY <1>3, <1>5 DEF Answered
  <2>2. \A d, e \in returned' : d.msg = e.msg => d = e
    BY <1>1, <2>1 DEF PipeInv, AnsweredOnce
  <2> QED BY <1>1, <1>2, <1>4, <1>5, <2>2 DEF PipeInv, AnsweredOnce
<1>8. Filing'
  BY <1>1, <1>2, <1>4 DEF PipeInv, Filing, Says
<1>9. EvidenceMatchesAnswers'
  <2>1. w \in Busy
    BY DEF Busy
  <2>2. allowed[w] <=> x.msg \in evidence
    BY <1>3, <2>1 DEF PipeInv, Filing
  <2>3. own = OwnWord(Says(x.msg).payload)
    BY <1>3
  <2> HIDE DEF own
  <2>4. /\ own = "nothing" => (x.allowed <=> x.msg \in evidence)
        /\ own # "nothing" => (x.allowed <=> own = "yes")
    BY <1>3, <2>2
  <2>5. \A e \in returned' :
            /\ OwnWord(Says(e.msg).payload) = "nothing" => (e.allowed <=> e.msg \in evidence)
            /\ OwnWord(Says(e.msg).payload) # "nothing"
               => (e.allowed <=> OwnWord(Says(e.msg).payload) = "yes")
    BY <1>1, <2>3, <2>4 DEF PipeInv, EvidenceMatchesAnswers
  <2>6. (\A n \in evidence \ Answered : n \in InHand \/ Says(n).payload = "noDict")'
    BY <1>1, <1>2, <1>4 DEF PipeInv, EvidenceMatchesAnswers, Says
  <2> QED BY <1>1, <2>5, <2>6 DEF EvidenceMatchesAnswers, Says
<1> QED BY <1>6, <1>7, <1>8, <1>9 DEF PipeInv

(* The step of a worker: what each of its actions does to the queue, the   *)
(* workers and the answers.                                                *)
LEMMA ProcessKeeps ==
    ASSUME PipeInv, NEW w \in Workers, Process(w)
    PROVE  PipeInv'
<1> USE DEF queues, Goto, locals
<1>1. ASSUME Get(w) PROVE PipeInv'
  BY <1>1, GetKeeps
<1>2. ASSUME VerifySender(w) PROVE PipeInv'
  <2>1. PICK step \in {"context", "decided"} : pc' = [pc EXCEPT ![w] = step]
    BY <1>2 DEF VerifySender
  <2>2. ~allowed[w] /\ allowed' = [allowed EXCEPT ![w] = FALSE]
    BY <1>2 DEF VerifySender, PipeInv, Types, Filing
  <2> QED BY <1>2, <2>1, <2>2, MoveKeeps DEF VerifySender, Steps
<1>3. ASSUME ReadPolicy(w) PROVE PipeInv'
  <2>1. ~allowed[w] /\ allowed' = [allowed EXCEPT ![w] = FALSE]
    BY <1>3 DEF ReadPolicy, PipeInv, Types, Filing
  <2> QED BY <1>3, <2>1, MoveKeeps DEF ReadPolicy, Steps
<1>4. ASSUME CheckCredential(w) PROVE PipeInv'
  <2>1. CASE Raise(w)
    BY <1>4, <2>1, RaiseKeeps DEF CheckCredential
  <2>2. CASE UNCHANGED <<credVars, policy, queues, pc, hand, allowed, collector>>
    BY <2>2, OthersKeep
  <2> QED BY <1>4, <2>1, <2>2 DEF CheckCredential
<1>5. ASSUME Decide(w) PROVE PipeInv'
  <2>1. Satisfies(context[w].presented, context[w].policy) \in BOOLEAN
    BY DEF Satisfies
  <2> QED BY <1>5, <2>1, MoveKeeps DEF Decide, Steps
<1>6. ASSUME FileEvidence(w) PROVE PipeInv'
  <2>1. CASE Raise(w)
    BY <1>6, <2>1, RaiseKeeps DEF FileEvidence
  <2>2. CASE pc' = [pc EXCEPT ![w] = "filed"]
    BY <1>6, <2>2, FileKeeps DEF PipeInv, Types
  <2> QED BY <1>6, <2>1, <2>2 DEF FileEvidence
<1>7. ASSUME Submit(w) PROVE PipeInv'
  <2>1. CASE Raise(w)
    <3>1. pc[w] = "filed" => Says(hand[w]).payload = "noDict"
      <4>1. CASE pc[w] = "filed"
        <5>1. w \in Busy /\ Says(hand[w]).payload # "opaque"
          BY <4>1 DEF Busy, PipeInv, Filing
        <5>2. Says(hand[w]).payload \notin {"noDict", "opaque"} => ~Raise(w)
          BY <1>7 DEF Submit, Hand, Raise
        <5> QED BY <2>1, <5>1, <5>2
      <4> QED BY <4>1
    <3> QED BY <1>7, <2>1, <3>1, RaiseKeeps DEF Submit
  <2>2. CASE Hand(w, [msg |-> hand[w], allowed |-> Told(Says(hand[w]).payload, allowed[w])])
    BY <1>7, <2>2, SubmitKeeps DEF Submit
  <2> QED BY <1>7, <2>1, <2>2 DEF Submit
<1> QED BY <1>1, <1>2, <1>3, <1>4, <1>5, <1>6, <1>7 DEF Process

LEMMA StepKeeps ==
    ASSUME PipeInv, [PipeNext]_pipeVars
    PROVE  PipeInv'
<1> USE DEF queues, locals
<1>1. CASE UNCHANGED pipeVars
  BY <1>1, OthersKeep DEF pipeVars
<1>2. CASE CredNext /\ UNCHANGED <<policy, queues, pc, locals, collector>>
  BY <1>2, OthersKeep
<1>3. CASE \E m \in Contents : Ingest(m)
  BY <1>3, IngestKeeps
<1>4. CASE \E p \in Policies : SetPolicy(p)
  BY <1>4, OthersKeep DEF SetPolicy
<1>5. CASE \E w \in Workers : Process(w)
  BY <1>5, ProcessKeeps
<1>6. CASE Collect
  BY <1>6, OthersKeep DEF Collect, CollectAll, Drain, Dispatch, CollectNext
<1> QED BY <1>1, <1>2, <1>3, <1>4, <1>5, <1>6 DEF PipeNext

LEMMA InitInv == PipeInit => PipeInv
<1> SUFFICES ASSUME PipeInit PROVE PipeInv
  OBVIOUS
<1>1. Busy = {} /\ Answered = {} /\ Range(inQueue) = {}
  BY DEF PipeInit, Busy, Answered, Range
<1>2. InHand = {}
  BY <1>1 DEF InHand
<1>3. Len(ingested) = 0 /\ ingested \in Seq(Contents) /\ inQueue \in Seq(Nat)
  BY DEF PipeInit
<1>4. Types
  BY <1>1, <1>2, <1>3, PipelineConstants DEF PipeInit, Types, Steps
<1> QED BY <1>1, <1>2, <1>4 DEF PipeInit, PipeInv, AnsweredOnce, Filing, EvidenceMatchesAnswers

LEMMA PipeInvariance == PipeSpec => []PipeInv
BY InitInv, StepKeeps, PTL DEF PipeSpec

(* No message is with two workers, queued again or answered twice.         *)
THEOREM OneAnswerEach == PipeSpec => []AnsweredOnce
<1>1. PipeInv => AnsweredOnce
  BY DEF PipeInv
<1> QED BY <1>1, PipeInvariance, PTL

(* An envelope says what the evidence on file says, or else what the       *)
(* payload says itself; evidence without an envelope is of a message in    *)
(* hand or one whose handler failed on its payload.                        *)
THEOREM EvidenceAgrees == PipeSpec => []EvidenceMatchesAnswers
<1>1. PipeInv => EvidenceMatchesAnswers
  BY DEF PipeInv
<1> QED BY <1>1, PipeInvariance, PTL

-----------------------------------------------------------------------------
(* The way of an envelope from process to the collector.                   *)

LEMMA HeadRange ==
    ASSUME NEW S, NEW s \in Seq(S), s # <<>>
    PROVE  /\ Head(s) \in S /\ Tail(s) \in Seq(S)
           /\ Range(s) = {Head(s)} \cup Range(Tail(s))
<1>1. /\ Len(s) \in Nat \ {0} /\ DOMAIN s = 1..Len(s) /\ Head(s) = s[1]
      /\ DOMAIN Tail(s) = 1..(Len(s) - 1)
      /\ \A i \in 1..(Len(s) - 1) : Tail(s)[i] = s[i + 1]
      /\ Head(s) \in S /\ Tail(s) \in Seq(S)
  BY LenProperties, HeadTailProperties, EmptySeq
<1>2. \A i \in 2..Len(s) : i - 1 \in 1..(Len(s) - 1) /\ s[i] = Tail(s)[i - 1]
  BY <1>1
<1>3. ASSUME NEW i \in DOMAIN s PROVE s[i] \in {Head(s)} \cup Range(Tail(s))
  <2>1. CASE i = 1
    BY <1>1, <2>1
  <2>2. CASE i # 1
    <3>1. i \in 2..Len(s)
      BY <1>1, <1>3, <2>2
    <3> QED BY <1>1, <1>2, <3>1 DEF Range
  <2> QED BY <2>1, <2>2
<1>4. ASSUME NEW i \in DOMAIN Tail(s) PROVE Tail(s)[i] \in Range(s)
  <2>1. i + 1 \in DOMAIN s /\ Tail(s)[i] = s[i + 1]
    BY <1>1, <1>4
  <2> QED BY <2>1 DEF Range
<1>5. Head(s) \in Range(s)
  BY <1>1 DEF Range
<1> QED BY <1>1, <1>3, <1>4, <1>5 DEF Range

Envelopes == [msg : Nat, allowed : BOOLEAN]
WayInv ==
    /\ PipeInv /\ EnvelopesAreKept
    /\ outQueue \in Seq(Envelopes) /\ batch \in Seq(Envelopes) /\ collected \in Seq(Envelopes)

LEMMA WayOfHand ==
    ASSUME WayInv, NEW e \in Envelopes, NEW w \in Workers, Hand(w, e)
    PROVE  EnvelopesAreKept' /\ outQueue' \in Seq(Envelopes)
<1>1. outQueue' = Append(outQueue, e) /\ returned' = returned \cup {e}
      /\ UNCHANGED <<batch, collected, dropped>>
  BY DEF Hand, collector
<1>2. Range(outQueue') = Range(outQueue) \cup {e} /\ outQueue' \in Seq(Envelopes)
  BY <1>1, AppendRange, AppendProperties DEF WayInv
<1> QED BY <1>1, <1>2 DEF WayInv, EnvelopesAreKept, Range

LEMMA WayOfCollector ==
    ASSUME WayInv, Collect
    PROVE  /\ EnvelopesAreKept'
           /\ outQueue' \in Seq(Envelopes) /\ batch' \in Seq(Envelopes)
           /\ collected' \in Seq(Envelopes)
<1>1. /\ outQueue \in Seq(Envelopes) /\ batch \in Seq(Envelopes) /\ collected \in Seq(Envelopes)
      /\ returned = Range(outQueue) \cup Range(batch) \cup Range(collected) \cup dropped
      /\ dropped # {} => HandlersFail
  BY DEF WayInv, EnvelopesAreKept
<1>2. Range(<<>>) = {} /\ <<>> \in Seq(Envelopes)
  BY DEF Range
<1>3. UNCHANGED returned
  BY DEF Collect, CollectAll, Drain, Dispatch, CollectNext, queues
<1>4. CASE UNCHANGED <<outQueue, batch, collected, dropped>>
  BY <1>1, <1>3, <1>4 DEF EnvelopesAreKept, Range
<1>5. CASE outQueue # <<>> /\ batch' = Append(batch, Head(outQueue)) /\ outQueue' = Tail(outQueue)
           /\ UNCHANGED <<collected, dropped>>
  <2>1. /\ Head(outQueue) \in Envelopes /\ outQueue' \in Seq(Envelopes)
        /\ Range(outQueue) = {Head(outQueue)} \cup Range(outQueue')
    BY <1>1, <1>5, HeadRange
  <2>2. Range(batch') = Range(batch) \cup {Head(outQueue)} /\ batch' \in Seq(Envelopes)
    BY <1>1, <1>5, <2>1, AppendRange, AppendProperties
  <2>3. Range(collected') = Range(collected)
    BY <1>5
  <2> QED BY <1>1, <1>3, <1>5, <2>1, <2>2, <2>3 DEF EnvelopesAreKept
<1>6. CASE batch # <<>> /\ collected' = Append(collected, Head(batch)) /\ UNCHANGED outQueue
           /\ \/ batch' = Tail(batch) /\ UNCHANGED dropped
              \/ batch' = <<>> /\ dropped' = dropped \cup Range(Tail(batch)) /\ HandlersFail
  <2>1. /\ Head(batch) \in Envelopes /\ Tail(batch) \in Seq(Envelopes)
        /\ Range(batch) = {Head(batch)} \cup Range(Tail(batch))
    BY <1>1, <1>6, HeadRange
  <2>2. Range(collected') = Range(collected) \cup {Head(batch)} /\ collected' \in Seq(Envelopes)
    BY <1>1, <1>6, <2>1, AppendRange, AppendProperties
  <2>3. Range(outQueue') = Range(outQueue)
    BY <1>6
  <2> QED BY <1>1, <1>2, <1>3, <1>6, <2>1, <2>2, <2>3 DEF EnvelopesAreKept
<1>7. CASE outQueue # <<>> /\ outQueue' = Tail(outQueue)
           /\ collected' = Append(collected, Head(outQueue)) /\ UNCHANGED <<batch, dropped>>
  <2>1. /\ Head(outQueue) \in Envelopes /\ outQueue' \in Seq(Envelopes)
        /\ Range(outQueue) = {Head(outQueue)} \cup Range(outQueue')
    BY <1>1, <1>7, HeadRange
  <2>2. Range(collected') = Range(collected) \cup {Head(outQueue)} /\ collected' \in Seq(Envelopes)
    BY <1>1, <1>7, <2>1, AppendRange, AppendProperties
  <2>3. Range(batch') = Range(batch)
    BY <1>7
  <2> QED BY <1>1, <1>3, <1>7, <2>1, <2>2, <2>3 DEF EnvelopesAreKept
<1> QED BY <1>4, <1>5, <1>6, <1>7 DEF Collect, CollectAll, Drain, Dispatch, CollectNext, queues

LEMMA WayKept == ASSUME WayInv, [PipeNext]_pipeVars PROVE WayInv'
<1> USE DEF queues, collector, locals
<1>1. PipeInv'
  BY StepKeeps DEF WayInv
<1>2. CASE UNCHANGED <<returned, outQueue, batch, collected, dropped>>
  <2>1. EnvelopesAreKept'
    BY <1>2 DEF WayInv, EnvelopesAreKept, Range
  <2> QED BY <1>1, <1>2, <2>1 DEF WayInv
<1>3. CASE Collect
  BY <1>1, <1>3, WayOfCollector DEF WayInv
<1>4. ASSUME NEW w \in Workers, NEW e \in Envelopes, Hand(w, e) PROVE WayInv'
  BY <1>1, <1>4, WayOfHand DEF WayInv, Hand
<1>5. ASSUME NEW w \in Workers, Submit(w) PROVE WayInv'
  <2>1. CASE Raise(w)
    BY <1>2, <2>1 DEF Raise
  <2>2. ASSUME Hand(w, [msg |-> hand[w], allowed |-> Told(Says(hand[w]).payload, allowed[w])])
        PROVE  WayInv'
    <3>1. PICK v \in BOOLEAN : v = Told(Says(hand[w]).payload, allowed[w])
      BY DEF Told
    <3>2. [msg |-> hand[w], allowed |-> v] \in Envelopes
      BY DEF WayInv, PipeInv, Types, Envelopes
    <3> QED BY <1>4, <2>2, <3>1, <3>2
  <2> QED BY <1>5, <2>1, <2>2 DEF Submit
<1>6. ASSUME NEW w \in Workers, Process(w), ~Submit(w)
      PROVE  UNCHANGED <<returned, outQueue, batch, collected, dropped>>
  BY <1>6 DEF Process, Get, VerifySender, ReadPolicy, CheckCredential, Decide, FileEvidence, Raise
<1>7. CASE \E w \in Workers : Process(w)
  BY <1>2, <1>5, <1>6, <1>7
<1> QED BY <1>2, <1>3, <1>7 DEF PipeNext, pipeVars, Ingest, SetPolicy

(* Whatever overlaps, an envelope that process returned waits, is          *)
(* collected, or was dropped behind one on which a handler raised.         *)
THEOREM NoEnvelopeLost == PipeSpec => []EnvelopesAreKept
<1>1. PipeInit => WayInv
  <2> SUFFICES ASSUME PipeInit PROVE WayInv
    OBVIOUS
  <2>1. EnvelopesAreKept
    BY DEF PipeInit, EnvelopesAreKept, Range
  <2> QED BY <2>1, InitInv DEF PipeInit, WayInv
<1>2. WayInv => EnvelopesAreKept
  BY DEF WayInv
<1> QED BY <1>1, <1>2, WayKept, PTL DEF PipeSpec

-----------------------------------------------------------------------------
(* The refinement: taking a message in asks, filing records, submitting    *)
(* answers, and everything else changes nothing the gatekeeper shows.      *)

LEMMA OpenInHand ==
    ASSUME PipeInv, NEW w \in Workers, pc[w] # "idle"
    PROVE  /\ hand[w] \in Message /\ Gate!Open(hand[w])
           /\ <<hand[w], OwnWord(Says(hand[w]).payload)>> \in Asked
           /\ \A word : <<hand[w], word>> \in Asked => word = OwnWord(Says(hand[w]).payload)
<1>1. hand[w] \in InHand
  BY DEF Busy, InHand
<1>2. hand[w] \in Taken /\ hand[w] \notin Answered
  BY <1>1 DEF PipeInv, Types, AnsweredOnce
<1>3. hand[w] \in Message
  BY <1>2, LenProperties, PipelineConstants DEF PipeInv, Types, Taken, Message
<1>4. \A v \in BOOLEAN : [msg |-> hand[w], allowed |-> v] \notin returned
  BY <1>2 DEF Answered
<1>5. /\ <<hand[w], OwnWord(Says(hand[w]).payload)>> \in Asked
      /\ \A word : <<hand[w], word>> \in Asked => word = OwnWord(Says(hand[w]).payload)
  BY <1>2 DEF Taken, Asked
<1>6. OwnWord(Says(hand[w]).payload) \in Gate!Words
  BY DEF OwnWord, Gate!Words
<1> QED BY <1>3, <1>4, <1>5, <1>6 DEF Gate!Open, Gate!Taken

LEMMA GateStep ==
    ASSUME PipeInv, [PipeNext]_pipeVars
    PROVE  [Gate!Next]_<<Asked, evidence, returned>>
<1> USE DEF queues, locals, Goto
<1> SUFFICES Gate!Next \/ UNCHANGED <<Asked, evidence, returned>>
  OBVIOUS
<1>1. CASE UNCHANGED <<ingested, evidence, returned>>
  BY <1>1 DEF Asked, Says
<1>2. CASE \E m \in Contents : Ingest(m)
  <2>1. PICK m \in Contents : Ingest(m)
    BY <1>2
  <2> DEFINE n == Len(ingested) + 1
           word == OwnWord(m.payload)
  <2>2. /\ Len(ingested) \in Nat /\ Len(ingested) < MaxMessages /\ n \in Message
        /\ ingested \in Seq(Contents) /\ word \in Gate!Words
    BY <2>1, LenProperties, PipelineConstants
       DEF PipeInv, Types, Ingest, Message, OwnWord, Gate!Words
  <2>3. ~Gate!Taken(n)
    BY <2>2 DEF Gate!Taken, Asked
  <2>4. Asked' = Asked \cup {<<n, word>>}
    <3>1. /\ Len(ingested') = n /\ ingested'[n] = m
          /\ \A k \in 1..Len(ingested) : ingested'[k] = ingested[k]
      BY <2>1, <2>2, AppendProperties DEF Ingest
    <3>2. Asked' = {<<k, OwnWord(ingested'[k].payload)>> : k \in 1..n}
      BY <3>1 DEF Asked, Says
    <3>3. 1..n = 1..Len(ingested) \cup {n}
      BY <2>2
    <3> HIDE DEF n
    <3> QED BY <3>1, <3>2, <3>3 DEF Asked, Says
  <2>5. UNCHANGED <<evidence, returned>>
    BY <2>1 DEF Ingest
  <2>6. Gate!Ask(n, word)
    BY <2>3, <2>4, <2>5 DEF Gate!Ask
  <2> QED BY <2>2, <2>6 DEF Gate!Next
<1>3. ASSUME NEW w \in Workers, FileEvidence(w) PROVE Gate!Next \/ UNCHANGED <<Asked, evidence, returned>>
  <2>1. CASE Raise(w)
    BY <2>1, <1>1 DEF Raise
  <2>2. CASE evidence' = evidence \cup {hand[w]} /\ UNCHANGED <<ingested, returned>>
    <3>1. hand[w] \in Message /\ Gate!Open(hand[w])
      BY <1>3, OpenInHand DEF FileEvidence
    <3>2. Gate!Record(hand[w])
      BY <2>2, <3>1 DEF Gate!Record, Asked, Says
    <3> QED BY <3>1, <3>2 DEF Gate!Next
  <2> QED BY <1>3, <2>1, <2>2 DEF FileEvidence
<1>4. ASSUME NEW w \in Workers, Submit(w) PROVE Gate!Next \/ UNCHANGED <<Asked, evidence, returned>>
  <2>1. CASE Raise(w)
    BY <2>1, <1>1 DEF Raise
  <2>2. ASSUME Hand(w, [msg |-> hand[w], allowed |-> Told(Says(hand[w]).payload, allowed[w])])
        PROVE  Gate!Next
    <3> DEFINE own == OwnWord(Says(hand[w]).payload)
    <3>1. /\ hand[w] \in Message /\ Gate!Open(hand[w])
          /\ <<hand[w], own>> \in Asked
          /\ \A word : <<hand[w], word>> \in Asked => word = own
      BY <1>4, OpenInHand DEF Submit
    <3>2. allowed[w] \in BOOLEAN /\ (allowed[w] <=> hand[w] \in evidence)
      <4>1. w \in Busy
        BY <1>4 DEF Submit, Busy
      <4> QED BY <1>4, <4>1 DEF Submit, PipeInv, Types, Filing
    <3>3. PICK v \in BOOLEAN : v = Told(Says(hand[w]).payload, allowed[w])
      BY DEF Told
    <3>4. v <=> own = "yes" \/ (own = "nothing" /\ hand[w] \in evidence)
      BY <3>2, <3>3 DEF Told
    <3>5. returned' = returned \cup {[msg |-> hand[w], allowed |-> v]}
          /\ UNCHANGED <<Asked, evidence>>
      BY <2>2, <3>3 DEF Hand, Asked, Says
    <3> HIDE DEF own
    <3>6. v <=> \/ <<hand[w], "yes">> \in Asked
                \/ <<hand[w], "nothing">> \in Asked /\ hand[w] \in evidence
      BY <3>1, <3>4
    <3>7. Gate!Answer(hand[w], v)
      BY <3>1, <3>5, <3>6 DEF Gate!Answer
    <3> QED BY <3>1, <3>7, Zenon DEF Gate!Next
  <2> QED BY <1>4, <2>1, <2>2 DEF Submit
<1>5. ASSUME NEW w \in Workers, Process(w), ~FileEvidence(w), ~Submit(w)
      PROVE  UNCHANGED <<ingested, evidence, returned>>
  BY <1>5 DEF Process, Get, VerifySender, ReadPolicy, CheckCredential, Decide, Raise
<1>6. CASE \E w \in Workers : Process(w)
  BY <1>1, <1>3, <1>4, <1>5, <1>6
<1> QED BY <1>1, <1>2, <1>6 DEF PipeNext, pipeVars, SetPolicy, Collect, CollectAll, Drain, Dispatch,
     CollectNext

(* The pipeline implements the gatekeeper.                                 *)
THEOREM PipelineIsGatekeeper == PipeSpec => IsGatekeeper
<1>1. PipeInit => Gate!Init
  <2> SUFFICES ASSUME PipeInit PROVE Gate!Init
    OBVIOUS
  <2>1. Len(ingested) = 0 /\ returned = {} /\ evidence = {}
    BY DEF PipeInit
  <2>2. Asked = {}
    BY <2>1 DEF Asked
  <2> QED BY <2>1, <2>2 DEF Gate!Init
<1>2. PipeInv /\ [PipeNext]_pipeVars => [Gate!Next]_<<Asked, evidence, returned>>
  BY GateStep
<1> QED BY <1>1, <1>2, PipeInvariance, PTL DEF PipeSpec, IsGatekeeper, Gate!Spec

(* Credentials keep their types: ids are those issued here or foreign.     *)
CredInv ==
    /\ CredTypeOK
    /\ Held \subseteq (1..issued) \cup Foreign

(* There are finitely many ids, so verify has a number of frames to spend. *)
LEMMA IdFacts ==
    /\ IsFiniteSet(Ids) /\ Cardinality(Ids) \in Nat
    /\ Depth \in Nat /\ Depth = Cardinality(Ids) + 1
    /\ (1..MaxIssued) \cap Foreign = {}
  <1>1. IsFiniteSet(1..MaxIssued)
    BY CredentialConstants, FS_Interval
  <1>2. IsFiniteSet(Ids)
    BY <1>1, CredentialConstants, FS_Union DEF Ids
  <1>3. Cardinality(Ids) \in Nat
    BY <1>2, FS_CardinalityType
  <1>4. (1..MaxIssued) \cap Foreign = {}
    BY CredentialConstants
  <1> QED BY <1>2, <1>3, <1>4 DEF Depth

(* The store starts empty.                                                 *)
LEMMA CredInitial == CredInit => CredInv
  <1> SUFFICES ASSUME CredInit PROVE CredInv
    OBVIOUS
  <1>1. Held = {}
    BY DEF CredInit, Held
  <1> QED BY <1>1, CredentialConstants DEF CredInit, CredInv, CredTypeOK

(* What putting a credential into the store does.                          *)
LEMMA PutKeeps ==
    ASSUME CredInv, NEW c \in Ids, NEW cred \in Credential, Put(c, cred)
    PROVE  /\ Held' = Held \cup {c}
           /\ store'[c] = cred
           /\ \A x \in Held \ {c} : store'[x] = store[x]
           /\ Held' \subseteq Ids /\ \A x \in Held' : store'[x] \in Credential
  BY DEF Put, Held, CredInv, CredTypeOK

(* Every operation on credentials keeps their types.                       *)
LEMMA CredStep == CredInv /\ [CredNext]_credVars => CredInv'
  <1> SUFFICES ASSUME CredInv, [CredNext]_credVars PROVE CredInv'
    OBVIOUS
  <1>1. CASE UNCHANGED credVars
    BY <1>1 DEF credVars, CredInv, CredTypeOK, Held
  <1>2. ASSUME NEW a \in Aids, Know(a) PROVE CredInv'
    BY <1>2 DEF Know, CredInv, CredTypeOK, Held
  <1>3. ASSUME NEW s \in Schemas, RegisterSchema(s) PROVE CredInv'
    BY <1>3 DEF RegisterSchema, CredInv, CredTypeOK, Held
  <1>4. ASSUME NEW a \in Aids, NEW s \in Schemas, NEW chain \in Parents, NEW x \in {"none", "ahead"},
               Issue(a, s, chain, x)
        PROVE  CredInv'
    <2> DEFINE cred == [issuer |-> a, schema |-> s, chain |-> chain, expiry |-> x]
    <2>1. /\ issued \in Nat /\ issued < MaxIssued /\ issued' = issued + 1 /\ MaxIssued \in Nat
          /\ Put(issued + 1, cred) /\ UNCHANGED <<known, schemas, revoked>>
      BY <1>4, CredentialConstants DEF Issue, CredInv, CredTypeOK
    <2>2. issued + 1 \in Ids /\ issued' \in 0..MaxIssued /\ 1..issued \subseteq Ids
      BY <2>1 DEF Ids
    <2>3. chain \in Seq(Ids)
      <3>1. <<>> \in Seq(Ids) /\ \A c \in Ids : <<c>> \in Seq(Ids)
        OBVIOUS
      <3>2. \A c \in (1..issued) \cup Foreign : c \in Ids
        BY <2>2 DEF Ids
      <3> QED BY <3>1, <3>2 DEF Parents
    <2>4. cred \in Credential
      BY <2>3 DEF Credential
    <2> HIDE DEF cred
    <2>5. /\ Held' = Held \cup {issued + 1} /\ Held' \subseteq Ids
          /\ \A y \in Held' : store'[y] \in Credential
      BY <2>1, <2>2, <2>4, PutKeeps
    <2>6. Held' \subseteq (1..issued') \cup Foreign
      BY <2>1, <2>5 DEF CredInv
    <2> QED BY <2>1, <2>2, <2>5, <2>6 DEF CredInv, CredTypeOK
  <1>5. ASSUME NEW c \in Foreign, Receive(c) PROVE CredInv'
    <2>1. c \in Ids /\ ForeignCred[c] \in Credential
      BY CredentialConstants DEF Ids
    <2>2. Put(c, ForeignCred[c]) /\ UNCHANGED <<known, schemas, revoked, issued>>
      BY <1>5 DEF Receive
    <2>3. /\ Held' = Held \cup {c} /\ Held' \subseteq Ids
          /\ \A y \in Held' : store'[y] \in Credential
      BY <2>1, <2>2, PutKeeps
    <2> QED BY <2>2, <2>3 DEF CredInv, CredTypeOK
  <1>6. ASSUME NEW c \in Held, Remove(c) PROVE CredInv'
    <2>1. /\ store' = [x \in Held \ {c} |-> store[x]] /\ UNCHANGED <<known, schemas, revoked, issued>>
      BY <1>6 DEF Remove
    <2>2. Held' = Held \ {c} /\ \A x \in Held' : store'[x] = store[x]
      BY <2>1 DEF Held
    <2> QED BY <2>1, <2>2 DEF CredInv, CredTypeOK
  <1>7. ASSUME NEW c \in Held, Expire(c) PROVE CredInv'
    <2>1. /\ store' = [store EXCEPT ![c].expiry = "past"]
          /\ UNCHANGED <<known, schemas, revoked, issued>>
      BY <1>7 DEF Expire
    <2>2. Held' = Held
      BY <2>1 DEF Held
    <2>3. store[c] \in Credential
      BY DEF CredInv, CredTypeOK
    <2>4. [store[c] EXCEPT !.expiry = "past"] \in Credential
      BY <2>3 DEF Credential
    <2>5. \A x \in Held : store'[x] = IF x = c THEN [store[c] EXCEPT !.expiry = "past"] ELSE store[x]
      BY <2>1 DEF Held
    <2>6. \A x \in Held' : store'[x] \in Credential
      BY <2>2, <2>4, <2>5 DEF CredInv, CredTypeOK
    <2> QED BY <2>1, <2>2, <2>6 DEF CredInv, CredTypeOK
  <1>8. ASSUME NEW c \in (1..issued) \cup Foreign, Revoke(c) PROVE CredInv'
    <2>1. revoked' = revoked \cup {c} /\ UNCHANGED <<known, schemas, store, issued>>
      BY <1>8 DEF Revoke
    <2>2. c \in Ids
      BY CredentialConstants DEF CredInv, CredTypeOK, Ids
    <2> QED BY <2>1, <2>2 DEF CredInv, CredTypeOK, Held
  <1> QED BY <1>1, <1>2, <1>3, <1>4, <1>5, <1>6, <1>7, <1>8, Zenon DEF CredNext

(* No step of the pipeline itself touches the credentials.                 *)
LEMMA PipeCredStep == [PipeNext]_pipeVars => [CredNext]_credVars
  BY DEF PipeNext, pipeVars, Ingest, SetPolicy, Process, Get, VerifySender, ReadPolicy,
         CheckCredential, Decide, FileEvidence, Submit, Raise, Hand, Collect, CollectAll, Drain,
         Dispatch, CollectNext

LEMMA CredInvariance == PipeSpec => []CredInv
  <1>1. PipeInit => CredInv
    BY CredInitial DEF PipeInit
  <1>2. CredInv /\ [PipeNext]_pipeVars => CredInv'
    BY CredStep, PipeCredStep
  <1> QED BY <1>1, <1>2, PTL DEF PipeSpec

(* Credentials keep their types.                                           *)
THEOREM CredentialTypes == PipeSpec => []CredTypeOK
  <1>1. CredInv => CredTypeOK
    BY DEF CredInv
  <1> QED BY <1>1, CredInvariance, PTL

-----------------------------------------------------------------------------
(* The ancestry of a credential holds it and the parents of its members,   *)
(* and is part of each set that does.                                      *)
LEMMA AncestryFacts ==
    ASSUME CredInv, NEW c \in Ids
    PROVE  /\ Ancestry(c) \in SUBSET Ids /\ c \in Ancestry(c)
           /\ \A x \in Ancestry(c) : Parent(x) \subseteq Ancestry(c)
           /\ \A set \in SUBSET Ids :
                 c \in set /\ (\A x \in set : Parent(x) \subseteq set) => Ancestry(c) \subseteq set
           /\ \A x \in Ancestry(c) : Ancestry(x) \subseteq Ancestry(c)
           /\ Parent(c) \in SUBSET Ids
  <1>1. \A x \in Ids : Parent(x) \in SUBSET Ids
    <2> SUFFICES ASSUME NEW x \in Held, NEW i \in DOMAIN Chain(x) PROVE Chain(x)[i] \in Ids
      BY DEF Parent
    <2>1. Chain(x) \in Seq(Ids)
      BY DEF CredInv, CredTypeOK, Chain, Credential
    <2> QED BY <2>1
  <1>2. Ancestry(c) \in SUBSET Ids /\ c \in Ancestry(c)
    BY DEF Ancestry
  <1>3. ASSUME NEW x \in Ancestry(c), NEW y \in Parent(x) PROVE y \in Ancestry(c)
    <2>1. y \in Ids
      BY <1>1, <1>2
    <2> QED BY <1>3, <2>1 DEF Ancestry
  <1>4. \A set \in SUBSET Ids :
           c \in set /\ (\A x \in set : Parent(x) \subseteq set) => Ancestry(c) \subseteq set
    BY DEF Ancestry
  <1>5. ASSUME NEW x \in Ancestry(c) PROVE Ancestry(x) \subseteq Ancestry(c)
    BY <1>2, <1>3 DEF Ancestry
  <1> QED BY <1>1, <1>2, <1>3, <1>4, <1>5

(* g gives what n times of the step F lead to from base, up to N times.    *)
Repeats(g, S, F, base, N) ==
    g \in [0..N -> S] /\ g[0] = base /\ \A n \in 1..N : g[n] = F[g[n - 1]]

(* A step can be repeated any number of times: the argument is that no     *)
(* number is the least one for which it cannot.                            *)
LEMMA Iterated ==
    ASSUME NEW S, NEW F \in [S -> S], NEW base \in S, NEW N \in Nat
    PROVE  \E g : Repeats(g, S, F, base, N)
  <1> USE DEF Repeats
  <1> DEFINE Upto(k) == {g \in [0..k -> S] : g[0] = base /\ \A n \in 1..k : g[n] = F[g[n - 1]]}
             lacking == {k \in Nat : Upto(k) = {}}
  <1>1. SUFFICES lacking = {}
    BY <1>1
  <1>2. SUFFICES ASSUME lacking # {} PROVE FALSE
    OBVIOUS
  <1>3. PICK k \in lacking : \A l \in lacking : k <= l
    <2> HIDE DEF lacking
    <2>1. lacking \in SUBSET Nat
      BY DEF lacking
    <2> QED BY <1>2, <2>1, LeastNumber
  <1>4. k # 0
    <2>1. [n \in 0..0 |-> base] \in Upto(0)
      OBVIOUS
    <2> QED BY <2>1
  <1>5. k - 1 \in Nat /\ k - 1 \notin lacking
    <2>1. k \in Nat
      OBVIOUS
    <2>2. k - 1 \in Nat /\ ~(k <= k - 1)
      BY <1>4, <2>1
    <2> QED BY <1>3, <2>2
  <1>6. PICK g \in Upto(k - 1) : TRUE
    BY <1>5
  <1> DEFINE h == [n \in 0..k |-> IF n = k THEN F[g[k - 1]] ELSE g[n]]
  <1>7. h \in [0..k -> S]
    <2>1. k - 1 \in 0..(k - 1)
      BY <1>5
    <2>2. \A n \in 0..k : n = k \/ n \in 0..(k - 1)
      BY <1>5
    <2> QED BY <1>6, <2>1, <2>2
  <1>8. h[0] = base
    BY <1>4, <1>5, <1>6
  <1>9. ASSUME NEW n \in 1..k PROVE h[n] = F[h[n - 1]]
    <2>1. n \in 0..k /\ n - 1 \in 0..k /\ n - 1 # k
      BY <1>5
    <2>2. CASE n = k
      BY <2>1, <2>2
    <2>3. CASE n # k
      BY <1>5, <1>6, <2>1, <2>3
    <2> QED BY <2>2, <2>3
  <1>10. h \in Upto(k)
    <2> HIDE DEF h
    <2> QED BY <1>7, <1>8, <1>9
  <1> QED BY <1>10

(* It is the only one that does, as far as members of S are concerned.     *)
Follows(h, S, F, base, N) ==
    /\ h = [n \in 0..N |-> h[n]]
    /\ h[0] = base
    /\ \A n \in 1..N : h[n - 1] \in S => h[n] = F[h[n - 1]]

(* Such a function is the one that repeats the step.                       *)
LEMMA IteratedOnce ==
    ASSUME NEW S, NEW F \in [S -> S], NEW base \in S, NEW N \in Nat,
           NEW g, Repeats(g, S, F, base, N), NEW h, Follows(h, S, F, base, N)
    PROVE  h = g
  <1> USE DEF Repeats, Follows
  <1> DEFINE differ == {n \in 0..N : h[n] # g[n]}
  <1>1. differ = {}
    <2> SUFFICES ASSUME differ # {} PROVE FALSE
      OBVIOUS
    <2>1. PICK n \in differ : \A m \in differ : n <= m
      <3>1. differ \in SUBSET Nat
        OBVIOUS
      <3> HIDE DEF differ
      <3> QED BY <3>1, LeastNumber
    <2>2. n # 0
      OBVIOUS
    <2>3. n \in 1..N /\ n - 1 \in 0..N /\ ~(n <= n - 1)
      BY <2>2
    <2>4. h[n - 1] = g[n - 1]
      BY <2>1, <2>3
    <2>5. g[n - 1] \in S
      BY <2>3
    <2>6. h[n] = g[n]
      BY <2>3, <2>4, <2>5
    <2> QED BY <2>6
  <1>2. g = [n \in 0..N |-> g[n]]
    OBVIOUS
  <1> QED BY <1>1, <1>2

Verdicts == {"yes", "no", "raises"}
Stops(x, answers) == {i \in DOMAIN Chain(x) : answers[Chain(x)[i]] # "yes"}

(* What a credential is answered, given the answers for its parents.       *)
LEMMA JudgeFacts ==
    ASSUME CredInv, NEW answers \in [Ids -> Verdicts], NEW x \in Ids
    PROVE  /\ Judge(answers) \in [Ids -> Verdicts]
           /\ ~Usable(x) => Judge(answers)[x] = "no"
           /\ Usable(x) /\ (\A p \in Parent(x) : answers[p] = "yes") => Judge(answers)[x] = "yes"
           /\ Usable(x) /\ (\E p \in Parent(x) : answers[p] # "yes") =>
                 /\ Judge(answers)[x] # "yes"
                 /\ \E p \in Parent(x) : answers[p] = Judge(answers)[x]
  <1>1. ASSUME NEW y \in Ids, Usable(y)
        PROVE  /\ Stops(y, answers) = {} => Judge(answers)[y] = "yes"
               /\ Stops(y, answers) # {} =>
                     \E i \in Stops(y, answers) : Judge(answers)[y] = answers[Chain(y)[i]]
    <2> DEFINE stops == Stops(y, answers)
               first == CHOOSE i \in stops : \A j \in stops : i <= j
    <2>1. Judge(answers)[y] = IF stops = {} THEN "yes" ELSE answers[Chain(y)[first]]
      BY <1>1 DEF Judge, Stops
    <2>2. ASSUME stops # {} PROVE first \in stops
      <3>1. Chain(y) \in Seq(Ids)
        BY <1>1 DEF Usable, CredInv, CredTypeOK, Chain, Credential
      <3>2. stops \in SUBSET Nat
        BY <3>1, LenProperties DEF Stops
      <3>3. \E i \in stops : \A j \in stops : i <= j
        <4> HIDE DEF stops
        <4> QED BY <2>2, <3>2, LeastNumber
      <3> QED BY <3>3
    <2> QED BY <2>1, <2>2
  <1>2. \A y \in Ids : ~Usable(y) => Judge(answers)[y] = "no"
    BY DEF Judge
  <1>3. \A y \in Ids : \A i \in Stops(y, answers) : Usable(y) => Chain(y)[i] \in Parent(y)
                                                /\ Chain(y)[i] \in Ids /\ answers[Chain(y)[i]] # "yes"
    <2> SUFFICES ASSUME NEW y \in Ids, NEW i \in Stops(y, answers), Usable(y)
                 PROVE  Chain(y)[i] \in Parent(y) /\ Chain(y)[i] \in Ids
                        /\ answers[Chain(y)[i]] # "yes"
      OBVIOUS
    <2>1. Chain(y)[i] \in Parent(y)
      BY DEF Stops, Parent, Usable
    <2> QED BY <2>1, AncestryFacts DEF Stops
  <1>4. ASSUME NEW y \in Ids PROVE Judge(answers)[y] \in Verdicts
    <2>1. CASE Usable(y)
      <3>1. CASE Stops(y, answers) = {}
        BY <1>1, <2>1, <3>1 DEF Verdicts
      <3>2. CASE Stops(y, answers) # {}
        <4>1. PICK i \in Stops(y, answers) : Judge(answers)[y] = answers[Chain(y)[i]]
          BY <1>1, <2>1, <3>2
        <4> QED BY <1>3, <2>1, <4>1
      <3> QED BY <3>1, <3>2
    <2> QED BY <1>2, <2>1 DEF Verdicts
  <1>5. Judge(answers) \in [Ids -> Verdicts]
    <2>1. Judge(answers) = [y \in Ids |-> Judge(answers)[y]]
      BY DEF Judge
    <2> QED BY <1>4, <2>1
  <1>6. ASSUME Usable(x) PROVE Stops(x, answers) = {} <=> \A p \in Parent(x) : answers[p] = "yes"
    BY <1>6 DEF Stops, Parent, Usable
  <1>7. ASSUME Usable(x), \E p \in Parent(x) : answers[p] # "yes"
        PROVE  /\ Judge(answers)[x] # "yes"
               /\ \E p \in Parent(x) : answers[p] = Judge(answers)[x]
    <2>1. PICK i \in Stops(x, answers) : Judge(answers)[x] = answers[Chain(x)[i]]
      BY <1>1, <1>6, <1>7
    <2> QED BY <1>3, <1>7, <2>1
  <1> QED BY <1>1, <1>2, <1>5, <1>6, <1>7

(* The answers with each number of frames left.                            *)
LEMMA VerdictFacts ==
    ASSUME CredInv
    PROVE  /\ Verdict \in [0..Depth -> [Ids -> Verdicts]]
           /\ \A x \in Ids : Verdict[0][x] = "raises"
           /\ \A d \in 1..Depth : Verdict[d] = Judge(Verdict[d - 1])
  <1> DEFINE base == [x \in Ids |-> "raises"]
             S == [Ids -> Verdicts]
             F == [answers \in S |-> Judge(answers)]
             Is(g) == g = [d \in 0..Depth |-> IF d = 0 THEN base ELSE Judge(g[d - 1])]
  <1>1. base \in S
    BY DEF Verdicts
  <1>2. F \in [S -> S]
    <2> SUFFICES ASSUME NEW answers \in S PROVE Judge(answers) \in S
      OBVIOUS
    <2>1. CASE Ids = {}
      BY <2>1 DEF Judge
    <2>2. CASE Ids # {}
      BY <2>2, JudgeFacts
    <2> QED BY <2>1, <2>2
  <1>3. PICK g \in [0..Depth -> S] : g[0] = base /\ \A n \in 1..Depth : g[n] = F[g[n - 1]]
    <2>1. Depth \in Nat
      BY IdFacts
    <2>2. \E g : Repeats(g, S, F, base, Depth)
      <3> HIDE DEF S, F, base
      <3> QED BY <1>1, <1>2, <2>1, Iterated, Zenon
    <2> QED BY <2>2 DEF Repeats
  <1>4. Is(g)
    <2> SUFFICES ASSUME NEW d \in 0..Depth PROVE g[d] = IF d = 0 THEN base ELSE Judge(g[d - 1])
      BY <1>3
    <2>1. CASE d = 0
      BY <1>3, <2>1
    <2>2. CASE d # 0
      <3>1. d \in 1..Depth /\ d - 1 \in 0..Depth
        BY <2>2, IdFacts
      <3>2. g[d - 1] \in S
        BY <1>3, <3>1
      <3> QED BY <1>3, <2>2, <3>1, <3>2
    <2> QED BY <2>1, <2>2
  <1>5. Verdict = CHOOSE v : Is(v)
    BY DEF Verdict
  <1>6. Is(Verdict)
    <2> HIDE DEF Is
    <2> QED BY <1>4, <1>5
  <1>7. Verdict = [d \in 0..Depth |-> IF d = 0 THEN base ELSE Judge(Verdict[d - 1])]
    BY <1>6
  <1>8. \A d \in 0..Depth : Verdict[d] = IF d = 0 THEN base ELSE Judge(Verdict[d - 1])
    BY <1>7, Zenon
  <1>9. Verdict[0] = base
    BY <1>8, IdFacts
  <1>10. \A d \in 1..Depth : Verdict[d] = Judge(Verdict[d - 1])
    <2> SUFFICES ASSUME NEW d \in 1..Depth PROVE Verdict[d] = Judge(Verdict[d - 1])
      OBVIOUS
    <2>1. d \in 0..Depth /\ d # 0
      BY IdFacts
    <2> QED BY <1>8, <2>1
  <1>11. Verdict = g
    <2>1. Verdict = [d \in 0..Depth |-> Verdict[d]]
      BY <1>7, Zenon
    <2>2. Repeats(g, S, F, base, Depth)
      BY <1>3 DEF Repeats
    <2>3. Follows(Verdict, S, F, base, Depth)
      BY <1>9, <1>10, <2>1 DEF Follows
    <2>4. Depth \in Nat
      BY IdFacts
    <2> HIDE DEF S, F, base
    <2> QED BY <1>1, <1>2, <2>2, <2>3, <2>4, IteratedOnce, Zenon
  <1> QED BY <1>3, <1>9, <1>10, <1>11
-----------------------------------------------------------------------------
(* Where an answer comes from.                                             *)
LEMMA AnswerFacts ==
    ASSUME CredInv, NEW d \in 0..Depth, NEW x \in Ids
    PROVE  /\ Verdict[d][x] \in Verdicts
           /\ Verdict[d][x] = "yes" => /\ d # 0 /\ Usable(x)
                                       /\ \A p \in Parent(x) : Verdict[d - 1][p] = "yes"
           /\ Verdict[d][x] = "no" =>
                 /\ d # 0
                 /\ ~Usable(x) \/ \E p \in Parent(x) : Verdict[d - 1][p] = "no"
           /\ Verdict[d][x] = "raises" =>
                 d = 0 \/ \E p \in Parent(x) : Verdict[d - 1][p] = "raises"
  <1>1. Verdict[d] \in [Ids -> Verdicts]
    BY VerdictFacts
  <1>2. CASE d = 0
    BY <1>1, <1>2, VerdictFacts
  <1>3. CASE d # 0
    <2>1. d \in 1..Depth /\ d - 1 \in 0..Depth
      BY <1>3, IdFacts
    <2>2. Verdict[d - 1] \in [Ids -> Verdicts] /\ Verdict[d] = Judge(Verdict[d - 1])
      BY <2>1, VerdictFacts
    <2> DEFINE answers == Verdict[d - 1]
    <2>3. /\ ~Usable(x) => Verdict[d][x] = "no"
          /\ Usable(x) /\ (\A p \in Parent(x) : answers[p] = "yes") => Verdict[d][x] = "yes"
          /\ Usable(x) /\ (\E p \in Parent(x) : answers[p] # "yes") =>
                /\ Verdict[d][x] # "yes"
                /\ \E p \in Parent(x) : answers[p] = Verdict[d][x]
      BY <2>2, JudgeFacts
    <2> QED BY <1>1, <1>3, <2>3
  <1> QED BY <1>2, <1>3

(* What verify says yes to with some number of frames up to k.             *)
YesWithin(k) == {x \in Ids : \E d \in 0..k : Verdict[d][x] = "yes"}

(* What verify says yes to is closed: the parents of a yes are yes.        *)
LEMMA YesIsClosed ==
    ASSUME CredInv, NEW k \in 0..Depth, NEW x \in YesWithin(k)
    PROVE  /\ Usable(x)
           /\ Parent(x) \subseteq YesWithin(k)
           /\ Ancestry(x) \subseteq YesWithin(k)
  <1>1. ASSUME NEW y \in YesWithin(k) PROVE Usable(y) /\ Parent(y) \subseteq YesWithin(k)
    <2>1. PICK d \in 0..k : Verdict[d][y] = "yes"
      BY DEF YesWithin
    <2>2. y \in Ids /\ d \in 0..Depth
      BY IdFacts DEF YesWithin
    <2>3. /\ d # 0 /\ Usable(y) /\ \A p \in Parent(y) : Verdict[d - 1][p] = "yes"
      BY <2>1, <2>2, AnswerFacts
    <2>4. d - 1 \in 0..k
      BY <2>3, IdFacts
    <2>5. Parent(y) \in SUBSET Ids
      BY <2>2, AncestryFacts
    <2> QED BY <2>3, <2>4, <2>5 DEF YesWithin
  <1>2. YesWithin(k) \in SUBSET Ids
    BY DEF YesWithin
  <1> QED BY <1>1, <1>2, AncestryFacts

(* A credential that verify says yes to is on no cycle: its parents get a  *)
(* yes with fewer frames.                                                  *)
LEMMA YesHasNoCycle ==
    ASSUME CredInv, NEW x \in YesWithin(Depth)
    PROVE  ~OnCycle(x)
  <1> DEFINE ds == {d \in 0..Depth : Verdict[d][x] = "yes"}
  <1>1. ds \in SUBSET Nat /\ ds # {} /\ x \in Ids
    BY IdFacts DEF YesWithin
  <1>2. PICK d \in ds : \A e \in ds : d <= e
    <2> HIDE DEF ds
    <2> QED BY <1>1, LeastNumber
  <1>3. d # 0 /\ \A p \in Parent(x) : Verdict[d - 1][p] = "yes"
    BY <1>1, AnswerFacts
  <1>4. d - 1 \in 0..Depth /\ \A e \in 0..(d - 1) : e \in 0..Depth /\ ~(d <= e)
    BY <1>3, IdFacts
  <1>5. x \notin YesWithin(d - 1)
    BY <1>2, <1>4 DEF YesWithin
  <1> SUFFICES ASSUME NEW p \in Parent(x), x \in Ancestry(p) PROVE FALSE
    BY DEF OnCycle
  <1>6. p \in Ids
    BY <1>1, AncestryFacts
  <1>7. p \in YesWithin(d - 1)
    <2>1. d - 1 \in 0..(d - 1)
      BY <1>4
    <2> QED BY <1>3, <1>6, <2>1 DEF YesWithin
  <1> QED BY <1>4, <1>5, <1>7, YesIsClosed

(* A no comes from an ancestor.                                            *)
LEMMA NoIsUnusable ==
    ASSUME CredInv, NEW x \in Ids, NEW k \in 0..Depth, Verdict[k][x] = "no"
    PROVE  \E a \in Ancestry(x) : ~Usable(a)
  <1> SUFFICES ASSUME \A a \in Ancestry(x) : Usable(a) PROVE FALSE
    OBVIOUS
  <1> DEFINE ds == {d \in 0..Depth : \E y \in Ancestry(x) : Verdict[d][y] = "no"}
  <1>0. Ancestry(x) \in SUBSET Ids /\ x \in Ancestry(x)
    BY AncestryFacts
  <1>1. ds \in SUBSET Nat /\ ds # {}
    BY <1>0, IdFacts
  <1>2. PICK d \in ds : \A e \in ds : d <= e
    <2> HIDE DEF ds
    <2> QED BY <1>1, LeastNumber
  <1>3. PICK y \in Ancestry(x) : Verdict[d][y] = "no"
    OBVIOUS
  <1>4. d # 0 /\ \E p \in Parent(y) : Verdict[d - 1][p] = "no"
    BY <1>0, <1>3, AnswerFacts
  <1>5. Parent(y) \subseteq Ancestry(x)
    BY AncestryFacts
  <1>6. d - 1 \in 0..Depth /\ ~(d <= d - 1)
    BY <1>4, IdFacts
  <1> QED BY <1>2, <1>4, <1>5, <1>6

(* Recursion goes too deep only for an ancestry with a cycle: without one, *)
(* the ancestry of a parent is smaller.                                    *)
LEMMA RaisesIsCyclic ==
    ASSUME CredInv, NEW x \in Ids, Verdict[Depth][x] = "raises"
    PROVE  \E a \in Ancestry(x) : OnCycle(a)
  <1> SUFFICES ASSUME \A a \in Ancestry(x) : ~OnCycle(a) PROVE FALSE
    OBVIOUS
  <1> DEFINE size(y) == Cardinality(Ancestry(y))
             ds == {d \in 0..Depth : \E y \in Ancestry(x) : Verdict[d][y] = "raises" /\ size(y) <= d}
  <1>0. Ancestry(x) \in SUBSET Ids /\ x \in Ancestry(x)
    BY AncestryFacts
  <1>1. ASSUME NEW y \in Ids
        PROVE  /\ IsFiniteSet(Ancestry(y)) /\ size(y) \in Nat /\ size(y) # 0 /\ size(y) <= Depth
    <2>1. Ancestry(y) \in SUBSET Ids /\ y \in Ancestry(y)
      BY AncestryFacts
    <2>2. /\ IsFiniteSet(Ancestry(y)) /\ Cardinality(Ancestry(y)) \in Nat
          /\ Cardinality(Ancestry(y)) <= Cardinality(Ids)
      BY <2>1, IdFacts, FS_Subset, FS_CardinalityType
    <2>3. Cardinality(Ancestry(y)) # 0
      BY <2>1, <2>2, FS_EmptySet
    <2> QED BY <2>2, <2>3, IdFacts
  <1>2. ds \in SUBSET Nat /\ ds # {}
    <2>1. Depth \in 0..Depth
      BY IdFacts
    <2>2. Depth \in ds
      BY <1>0, <1>1, <2>1
    <2> QED BY <2>2, IdFacts
  <1>3. PICK d \in ds : \A e \in ds : d <= e
    <2> HIDE DEF ds
    <2> QED BY <1>2, LeastNumber
  <1>4. PICK y \in Ancestry(x) : Verdict[d][y] = "raises" /\ size(y) <= d
    OBVIOUS
  <1>5. y \in Ids /\ d \in Nat /\ d # 0
    BY <1>0, <1>1, <1>2, <1>4
  <1>6. PICK p \in Parent(y) : Verdict[d - 1][p] = "raises"
    BY <1>4, <1>5, AnswerFacts
  <1>7. p \in Ancestry(x) /\ p \in Ids /\ p \in Ancestry(y)
    BY <1>0, <1>5, AncestryFacts
  <1>8. size(p) < size(y)
    <2>1. Ancestry(p) \subseteq Ancestry(y) /\ y \in Ancestry(y)
      BY <1>5, <1>7, AncestryFacts
    <2>2. y \notin Ancestry(p)
      BY DEF OnCycle
    <2>3. Ancestry(p) \subseteq Ancestry(y) \ {y}
      BY <2>1, <2>2
    <2>4. Cardinality(Ancestry(y) \ {y}) = Cardinality(Ancestry(y)) - 1
      BY <1>1, <1>5, <2>1, FS_RemoveElement
    <2>5. IsFiniteSet(Ancestry(y) \ {y})
      BY <1>1, <1>5, FS_RemoveElement
    <2>6. Cardinality(Ancestry(p)) <= Cardinality(Ancestry(y) \ {y})
      BY <2>3, <2>5, FS_Subset
    <2> QED BY <1>1, <1>5, <1>7, <2>4, <2>6
  <1>9. d - 1 \in 0..Depth /\ ~(d <= d - 1) /\ size(p) <= d - 1
    BY <1>1, <1>4, <1>5, <1>7, <1>8, IdFacts
  <1>10. d - 1 \in ds
    BY <1>6, <1>7, <1>9
  <1> QED BY <1>3, <1>9, <1>10

-----------------------------------------------------------------------------
(* The resolver: at most one id is next.                                   *)
TurnStates == {t \in [chain : Seq(Ids), next : SUBSET Ids] : \A x, y \in t.next : x = y}

(* A turn of resolve_chain adds a held id that it has not met, or ends.    *)
LEMMA ResolveFacts ==
    ASSUME CredInv, NEW t \in TurnStates
    PROVE  /\ Resolve(t) \in TurnStates
           /\ t.next = {} => Resolve(t) = t
           /\ \A x \in t.next :
                 x \in Held /\ (\A i \in DOMAIN t.chain : t.chain[i] # x) =>
                    Resolve(t) = [chain |-> <<x>> \o t.chain,
                                  next |-> IF Chain(x) = <<>> THEN {} ELSE {Head(Chain(x))}]
  <1> DEFINE visited == {t.chain[i] : i \in DOMAIN t.chain}
             y == CHOOSE z \in t.next : TRUE
             on(x) == [chain |-> <<x>> \o t.chain,
                       next |-> IF Chain(x) = <<>> THEN {} ELSE {Head(Chain(x))}]
  <1>1. Resolve(t) = IF t.next \cap (Held \ visited) = {} THEN [t EXCEPT !.next = {}] ELSE on(y)
    BY DEF Resolve
  <1>2. /\ t = [chain |-> t.chain, next |-> t.next]
        /\ t.chain \in Seq(Ids) /\ t.next \in SUBSET Ids /\ \A a, b \in t.next : a = b
    BY DEF TurnStates
  <1>3. [t EXCEPT !.next = {}] = [chain |-> t.chain, next |-> {}]
    <2>1. \A a, b : [[chain |-> a, next |-> b] EXCEPT !.next = {}] = [chain |-> a, next |-> {}]
      OBVIOUS
    <2>2. \A a, b : t = [chain |-> a, next |-> b] => [t EXCEPT !.next = {}] = [chain |-> a, next |-> {}]
      BY <2>1
    <2> QED BY <1>2, <2>2, Zenon
  <1>4. ASSUME NEW x \in t.next, x \in Held PROVE on(x) \in TurnStates
    <2>1. Chain(x) \in Seq(Ids)
      BY <1>4 DEF CredInv, CredTypeOK, Chain, Credential
    <2>2. Chain(x) # <<>> => Head(Chain(x)) \in Ids
      BY <2>1
    <2>3. <<x>> \o t.chain \in Seq(Ids)
      <3>1. <<x>> \in Seq(Ids)
        BY <1>2
      <3> QED BY <1>2, <3>1, ConcatProperties
    <2> DEFINE next == IF Chain(x) = <<>> THEN {} ELSE {Head(Chain(x))}
    <2>4. next \in SUBSET Ids /\ \A a, b \in next : a = b
      BY <2>2
    <2> HIDE DEF next
    <2>5. [chain |-> <<x>> \o t.chain, next |-> next] \in TurnStates
      BY <2>3, <2>4 DEF TurnStates
    <2> QED BY <2>5 DEF next
  <1>5. \A x \in t.next : y = x
    BY <1>2
  <1>6. Resolve(t) \in TurnStates
    <2>1. CASE t.next \cap (Held \ visited) = {}
      <3>1. Resolve(t) = [chain |-> t.chain, next |-> {}]
        BY <1>1, <1>3, <2>1
      <3> QED BY <1>2, <3>1 DEF TurnStates
    <2>2. CASE t.next \cap (Held \ visited) # {}
      <3>1. PICK x \in t.next : x \in Held
        BY <2>2
      <3>2. Resolve(t) = on(y) /\ y = x
        BY <1>1, <1>5, <2>2
      <3> HIDE DEF on, y
      <3> QED BY <1>4, <3>1, <3>2
    <2> QED BY <2>1, <2>2
  <1>7. ASSUME NEW x \in t.next, x \in Held, \A i \in DOMAIN t.chain : t.chain[i] # x
        PROVE  Resolve(t) = on(x)
    <2>1. y = x /\ t.next \cap (Held \ visited) # {}
      BY <1>5, <1>7
    <2> QED BY <1>1, <2>1
  <1>8. ASSUME t.next = {} PROVE Resolve(t) = t
    BY <1>1, <1>2, <1>3, <1>8
  <1> QED BY <1>6, <1>7, <1>8

(* The turns of resolve_chain are what their recursion says.               *)
LEMMA TurnFacts ==
    ASSUME CredInv, NEW c \in Ids
    PROVE  /\ Turns(c) \in [0..Depth -> TurnStates]
           /\ Turns(c)[0] = [chain |-> <<>>, next |-> {c}]
           /\ \A n \in 1..Depth : Turns(c)[n] = Resolve(Turns(c)[n - 1])
  <1> DEFINE base == [chain |-> <<>>, next |-> {c}]
             F == [t \in TurnStates |-> Resolve(t)]
             Is(g) == g = [n \in 0..Depth |-> IF n = 0 THEN base ELSE Resolve(g[n - 1])]
  <1>0. Depth \in Nat
    BY IdFacts
  <1>1. base \in TurnStates
    <2>1. <<>> \in Seq(Ids) /\ {c} \in SUBSET Ids
      OBVIOUS
    <2> QED BY <2>1 DEF TurnStates
  <1>2. F \in [TurnStates -> TurnStates]
    BY ResolveFacts
  <1>3. PICK g : Repeats(g, TurnStates, F, base, Depth)
    <2> HIDE DEF F, base
    <2> QED BY <1>0, <1>1, <1>2, Iterated, Zenon
  <1>4. /\ g \in [0..Depth -> TurnStates] /\ g[0] = base
        /\ \A n \in 1..Depth : g[n] = F[g[n - 1]]
    BY <1>3 DEF Repeats
  <1>5. \A n \in 1..Depth : n \in 0..Depth /\ n - 1 \in 0..Depth /\ n # 0
    BY <1>0
  <1>6. \A n \in 1..Depth : g[n] = Resolve(g[n - 1])
    <2> SUFFICES ASSUME NEW n \in 1..Depth PROVE g[n] = Resolve(g[n - 1])
      OBVIOUS
    <2>1. g[n - 1] \in TurnStates
      BY <1>4, <1>5
    <2> QED BY <1>4, <2>1
  <1>7. Is(g)
    <2>1. \A n \in 0..Depth : n = 0 \/ n \in 1..Depth
      BY <1>0
    <2>2. \A n \in 0..Depth : g[n] = IF n = 0 THEN base ELSE Resolve(g[n - 1])
      BY <1>4, <1>5, <1>6, <2>1
    <2> QED BY <1>4, <2>2
  <1>8. Turns(c) = CHOOSE t : Is(t)
    BY DEF Turns
  <1>9. Is(Turns(c))
    <2> HIDE DEF Is
    <2> QED BY <1>7, <1>8
  <1>10. Turns(c) = [n \in 0..Depth |-> IF n = 0 THEN base ELSE Resolve(Turns(c)[n - 1])]
    BY <1>9
  <1>11. \A n \in 0..Depth : Turns(c)[n] = IF n = 0 THEN base ELSE Resolve(Turns(c)[n - 1])
    BY <1>10, Zenon
  <1>12. Turns(c)[0] = base /\ \A n \in 1..Depth : Turns(c)[n] = Resolve(Turns(c)[n - 1])
    <2>1. 0 \in 0..Depth
      BY <1>0
    <2> HIDE DEF base
    <2> QED BY <1>5, <1>11, <2>1
  <1>13. Turns(c) = g
    <2>1. Turns(c) = [n \in 0..Depth |-> Turns(c)[n]]
      BY <1>10, Zenon
    <2>2. Follows(Turns(c), TurnStates, F, base, Depth)
      BY <1>12, <2>1 DEF Follows
    <2> HIDE DEF F, base
    <2> QED BY <1>0, <1>1, <1>2, <1>3, <2>2, IteratedOnce, Zenon
  <1> QED BY <1>4, <1>12, <1>13

(* What the resolver knows after n turns from a credential that verify     *)
(* says yes to.                                                            *)
OnTheWay(t, n, c) ==
    /\ \A i \in DOMAIN t.chain : t.chain[i] \in YesWithin(Depth)
    /\ \A i \in 2..Len(t.chain) : Head(Chain(t.chain[i])) = t.chain[i - 1]
    /\ t.chain # <<>> => t.chain[Len(t.chain)] = c
    /\ t.next = {} => t.chain # <<>> /\ Chain(t.chain[1]) = <<>>
    /\ \A x \in t.next :
          /\ Verdict[Depth - n][x] = "yes"
          /\ IF t.chain = <<>> THEN x = c ELSE x = Head(Chain(t.chain[1]))
          /\ \A i \in DOMAIN t.chain : \E p \in Parent(t.chain[i]) : x \in Ancestry(p)

(* A turn on the way moves on to the first parent.                         *)
LEMMA ResolveOn ==
    ASSUME CredInv, NEW c \in Ids, NEW n \in 0..(Depth - 1), NEW t \in TurnStates, OnTheWay(t, n, c)
    PROVE  OnTheWay(Resolve(t), n + 1, c)
  <1>1. CASE t.next = {}
    <2>1. Resolve(t) = t
      BY <1>1, ResolveFacts
    <2> QED BY <1>1, <2>1 DEF OnTheWay
  <1>2. CASE t.next # {}
    <2>1. PICK x \in t.next : TRUE
      BY <1>2
    <2>2. /\ t.chain \in Seq(Ids) /\ x \in Ids
          /\ DOMAIN t.chain = 1..Len(t.chain) /\ Len(t.chain) \in Nat
      BY LenProperties DEF TurnStates
    <2>3. /\ Depth - n \in 0..Depth /\ Depth - n \in 1..Depth /\ Depth - (n + 1) = Depth - n - 1
          /\ Depth \in 0..Depth
      BY IdFacts
    <2>4. /\ Verdict[Depth - n][x] = "yes"
          /\ Usable(x) /\ \A p \in Parent(x) : Verdict[Depth - (n + 1)][p] = "yes"
      <3>1. Verdict[Depth - n][x] = "yes"
        BY DEF OnTheWay
      <3> QED BY <2>2, <2>3, <3>1, AnswerFacts
    <2>5. x \in YesWithin(Depth)
      BY <2>2, <2>3, <2>4 DEF YesWithin
    <2>6. \A i \in DOMAIN t.chain : t.chain[i] # x
      <3> SUFFICES ASSUME NEW i \in DOMAIN t.chain, t.chain[i] = x PROVE FALSE
        OBVIOUS
      <3>1. OnCycle(x)
        BY DEF OnTheWay, OnCycle
      <3> QED BY <2>5, <3>1, YesHasNoCycle
    <2> DEFINE chain == <<x>> \o t.chain
               next == IF Chain(x) = <<>> THEN {} ELSE {Head(Chain(x))}
               u == [chain |-> chain, next |-> next]
    <2>7. Resolve(t) = u
      BY <2>4, <2>6, ResolveFacts DEF Usable
    <2>8. /\ chain \in Seq(Ids) /\ DOMAIN chain = 1..Len(chain) /\ Len(chain) = Len(t.chain) + 1
          /\ chain[1] = x
          /\ \A i \in 2..Len(chain) : i - 1 \in DOMAIN t.chain /\ chain[i] = t.chain[i - 1]
      <3>1. <<x>> \in Seq(Ids) /\ Len(<<x>>) = 1 /\ <<x>>[1] = x
        BY <2>2
      <3>2. /\ chain \in Seq(Ids) /\ Len(chain) = 1 + Len(t.chain)
            /\ \A i \in 1..Len(chain) : chain[i] = IF i <= 1 THEN <<x>>[i] ELSE t.chain[i - 1]
        <4> HIDE DEF chain
        <4>1. chain = <<x>> \o t.chain
          BY DEF chain
        <4> QED BY <2>2, <3>1, <4>1, ConcatProperties
      <3>3. DOMAIN chain = 1..Len(chain)
        BY <3>2, LenProperties
      <3> HIDE DEF chain
      <3> QED BY <2>2, <3>1, <3>2, <3>3
    <2>9. Chain(x) # <<>> => Head(Chain(x)) \in Parent(x)
      <3>1. Chain(x) \in Seq(Ids) /\ x \in Held
        BY <2>4 DEF CredInv, CredTypeOK, Chain, Credential, Usable
      <3>2. Chain(x) # <<>> => 1 \in DOMAIN Chain(x) /\ Head(Chain(x)) = Chain(x)[1]
        BY <3>1
      <3> QED BY <3>1, <3>2 DEF Parent
    <2> HIDE DEF chain
    <2>10. \A i \in DOMAIN chain : i = 1 \/ i \in 2..Len(chain)
      BY <2>2, <2>8
    <2>11. \A i \in DOMAIN chain : chain[i] \in YesWithin(Depth)
      BY <2>5, <2>8, <2>10 DEF OnTheWay
    <2>12. \A i \in 2..Len(chain) : Head(Chain(chain[i])) = chain[i - 1]
      <3> SUFFICES ASSUME NEW i \in 2..Len(chain) PROVE Head(Chain(chain[i])) = chain[i - 1]
        OBVIOUS
      <3>1. CASE i = 2
        <4>1. t.chain # <<>> /\ chain[2] = t.chain[1] /\ chain[1] = x
          <5>1. 1 \in DOMAIN t.chain
            BY <2>8, <3>1
          <5> QED BY <2>8, <3>1, <5>1
        <4>2. x = Head(Chain(t.chain[1]))
          BY <4>1 DEF OnTheWay
        <4> QED BY <3>1, <4>1, <4>2
      <3>2. CASE i # 2
        <4>1. i - 1 \in 2..Len(t.chain) /\ i - 1 \in 2..Len(chain)
          BY <2>2, <2>8, <3>2
        <4>2. chain[i] = t.chain[i - 1] /\ chain[i - 1] = t.chain[i - 1 - 1]
          BY <2>8, <4>1
        <4> QED BY <4>1, <4>2 DEF OnTheWay
      <3> QED BY <3>1, <3>2
    <2>13. chain[Len(chain)] = c
      <3>1. CASE t.chain = <<>>
        BY <2>2, <2>8, <3>1 DEF OnTheWay
      <3>2. CASE t.chain # <<>>
        <4>1. Len(t.chain) # 0
          BY <2>2, <3>2, EmptySeq
        <4>2. Len(chain) \in 2..Len(chain) /\ Len(chain) - 1 = Len(t.chain)
          BY <2>2, <2>8, <4>1
        <4> QED BY <2>8, <3>2, <4>2 DEF OnTheWay
      <3> QED BY <3>1, <3>2
    <2>14. chain # <<>>
      BY <2>2, <2>8
    <2>15. ASSUME NEW y \in next
           PROVE  /\ Verdict[Depth - (n + 1)][y] = "yes"
                  /\ y = Head(Chain(chain[1]))
                  /\ \A i \in DOMAIN chain : \E p \in Parent(chain[i]) : y \in Ancestry(p)
      <3>1. y \in Parent(x) /\ y = Head(Chain(x)) /\ y \in Ids
        BY <2>2, <2>9, AncestryFacts
      <3>2. y \in Ancestry(y)
        BY <3>1, AncestryFacts
      <3>3. ASSUME NEW i \in 2..Len(chain) PROVE \E p \in Parent(chain[i]) : y \in Ancestry(p)
        <4>1. PICK p \in Parent(chain[i]) : x \in Ancestry(p)
          BY <2>8 DEF OnTheWay
        <4>2. p \in Ids
          BY <2>8, AncestryFacts
        <4> QED BY <3>1, <4>1, <4>2, AncestryFacts
      <3> QED BY <2>4, <2>8, <2>10, <3>1, <3>2, <3>3
    <2>16. next = {} => Chain(chain[1]) = <<>>
      BY <2>8
    <2> HIDE DEF next
    <2>17. OnTheWay(u, n + 1, c)
      BY <2>11, <2>12, <2>13, <2>14, <2>15, <2>16 DEF OnTheWay
    <2> HIDE DEF u
    <2> QED BY <2>7, <2>17
  <1> QED BY <1>1, <1>2

(* For a credential that verify says yes to, the chain ends at a root.     *)
LEMMA ResolvedChain ==
    ASSUME CredInv, NEW c \in Ids, Verify(c) = "yes"
    PROVE  LET chain == ResolveChain(c) IN
           /\ chain # <<>> /\ Chain(chain[1]) = <<>> /\ chain[Len(chain)] = c
           /\ \A i \in 2..Len(chain) : Head(Chain(chain[i])) = chain[i - 1]
  <1> DEFINE lost == {n \in 0..Depth : ~OnTheWay(Turns(c)[n], n, c)}
  <1>1. lost = {}
    <2> SUFFICES ASSUME lost # {} PROVE FALSE
      OBVIOUS
    <2>1. PICK n \in lost : \A m \in lost : n <= m
      <3>1. lost \in SUBSET Nat
        BY IdFacts
      <3> HIDE DEF lost
      <3> QED BY <3>1, LeastNumber
    <2>2. n # 0
      <3>a. Turns(c)[0].chain = <<>> /\ Turns(c)[0].next = {c}
        <4>1. Turns(c)[0] = [chain |-> <<>>, next |-> {c}]
          BY TurnFacts, Zenon
        <4>2. \A s : s = [chain |-> <<>>, next |-> {c}] => s.chain = <<>> /\ s.next = {c}
          OBVIOUS
        <4> QED BY <4>1, <4>2, Zenon
      <3>1. /\ Turns(c)[0].chain = <<>> /\ Turns(c)[0].next = {c}
            /\ DOMAIN <<>> = {} /\ Len(<<>>) = 0
        BY <3>a
      <3>2. Depth - 0 = Depth /\ Verdict[Depth][c] = "yes"
        BY IdFacts DEF Verify
      <3>3. OnTheWay(Turns(c)[0], 0, c)
        BY <3>1, <3>2 DEF OnTheWay
      <3> QED BY <3>3
    <2>3. /\ n \in 1..Depth /\ n - 1 \in 0..Depth /\ n - 1 \in 0..(Depth - 1) /\ ~(n <= n - 1)
          /\ (n - 1) + 1 = n
      BY <2>2, IdFacts
    <2>4. OnTheWay(Turns(c)[n - 1], n - 1, c)
      BY <2>1, <2>3
    <2>5. Turns(c)[n - 1] \in TurnStates /\ Turns(c)[n] = Resolve(Turns(c)[n - 1])
      BY <2>3, TurnFacts
    <2>6. OnTheWay(Turns(c)[n], (n - 1) + 1, c)
      BY <2>3, <2>4, <2>5, ResolveOn
    <2> QED BY <2>3, <2>6
  <1> DEFINE t == Turns(c)[Depth]
  <1>2. Depth \in 0..Depth /\ Depth - Depth = 0
    BY IdFacts
  <1>3. OnTheWay(t, Depth, c)
    BY <1>1, <1>2
  <1>4. t.next = {}
    <2> SUFFICES ASSUME NEW x \in t.next PROVE FALSE
      OBVIOUS
    <2>1. x \in Ids
      BY <1>2, TurnFacts DEF TurnStates
    <2>2. Verdict[0][x] = "yes"
      BY <1>2, <1>3 DEF OnTheWay
    <2> QED BY <2>1, <2>2, VerdictFacts
  <1>5. ResolveChain(c) = t.chain
    BY DEF ResolveChain
  <1> HIDE DEF t
  <1> QED BY <1>3, <1>4, <1>5 DEF OnTheWay

(* All of VerifyIsTrust, in any state where credentials have their types.  *)
LEMMA TrustHolds == ASSUME CredInv PROVE VerifyIsTrust
  <1> SUFFICES ASSUME NEW c \in Ids
               PROVE  LET unusable == {d \in Ancestry(c) : ~Usable(d)}
                          cyclic == {d \in Ancestry(c) : OnCycle(d)}
                          chain == ResolveChain(c)
                      IN  /\ Verify(c) = "yes" <=> unusable = {} /\ cyclic = {}
                          /\ Verify(c) = "no" => unusable # {}
                          /\ Verify(c) = "raises" => cyclic # {}
                          /\ Verify(c) = "yes" =>
                                /\ chain # <<>> /\ Chain(chain[1]) = <<>> /\ chain[Len(chain)] = c
                                /\ \A i \in 2..Len(chain) : Head(Chain(chain[i])) = chain[i - 1]
    BY DEF VerifyIsTrust
  <1>1. Depth \in 0..Depth /\ Verify(c) = Verdict[Depth][c] /\ Verify(c) \in Verdicts
    <2>1. Depth \in 0..Depth
      BY IdFacts
    <2> QED BY <2>1, AnswerFacts DEF Verify
  <1>2. Verify(c) = "no" => \E a \in Ancestry(c) : ~Usable(a)
    BY <1>1, NoIsUnusable
  <1>3. Verify(c) = "raises" => \E a \in Ancestry(c) : OnCycle(a)
    BY <1>1, RaisesIsCyclic
  <1>4. ASSUME Verify(c) = "yes", NEW a \in Ancestry(c) PROVE Usable(a) /\ ~OnCycle(a)
    <2>1. c \in YesWithin(Depth)
      BY <1>1, <1>4 DEF YesWithin
    <2>2. a \in YesWithin(Depth)
      BY <1>1, <2>1, YesIsClosed
    <2> QED BY <1>1, <2>2, YesIsClosed, YesHasNoCycle
  <1>5. Verify(c) = "yes" \/ Verify(c) = "no" \/ Verify(c) = "raises"
    BY <1>1 DEF Verdicts
  <1> QED BY <1>2, <1>3, <1>4, <1>5, ResolvedChain

(* verify says yes exactly when the whole ancestry is usable and acyclic,  *)
(* no only for an unusable ancestor, and it raises only for a cycle; then  *)
(* resolve_chain returns the chain of first parents from a root on.  So it *)
(* is in every state, for any store, any chains and any number of ids.     *)
THEOREM VerifyMeansTrust == PipeSpec => []VerifyIsTrust
  <1>1. CredInv => VerifyIsTrust
    BY TrustHolds
  <1> QED BY <1>1, CredInvariance, PTL

(* What never becomes valid again: revoked ids, credentials issued here    *)
(* and removed, and those chained to such, for good when they are foreign  *)
(* and as long as they are held otherwise.                                 *)
Evicted == (1..issued) \ Held
Links(c) == IF c \in Foreign THEN Range(ForeignCred[c].chain) ELSE Parent(c)
Doomed ==
    {d \in Ids : \A set \in SUBSET Ids :
        /\ revoked \cup Evicted \subseteq set
        /\ \A x \in Ids : Links(x) \cap set # {} => x \in set
        => d \in set}

(* A credential that nobody presents under schema s any more.              *)
Elsewhere(c, s) ==
    \/ c \in Evicted
    \/ c \in Held /\ store[c].schema # s
    \/ c \in Foreign /\ ForeignCred[c].schema # s

ForeignFixed ==
    \A c \in Held \cap Foreign : /\ store[c].schema = ForeignCred[c].schema
                                 /\ store[c].chain = ForeignCred[c].chain

(* What one step of the credentials leaves of a memory of them.            *)
Remembered ==
    /\ revoked \subseteq revoked' /\ Evicted \subseteq Evicted'
    /\ \A c \in Held : \/ /\ c \in Held'
                          /\ store'[c].schema = store[c].schema /\ store'[c].chain = store[c].chain
                       \/ c \in Foreign
                       \/ c \in Evicted'

(* Putting a credential that was not there overwrites nothing.             *)
LEMMA RememberedPut ==
    ASSUME CredInv, ForeignFixed, NEW c \in Ids, NEW cred \in Credential, Put(c, cred), c \notin Held,
           revoked' = revoked, issued' = issued \/ (issued' = issued + 1 /\ c = issued + 1),
           c \in Foreign => cred = ForeignCred[c], issued' = issued => c \in Foreign
    PROVE  Remembered /\ ForeignFixed'
  <1>1. /\ Held' = Held \cup {c} /\ store'[c] = cred
        /\ \A x \in Held \ {c} : store'[x] = store[x]
    BY PutKeeps
  <1>2. issued \in Nat /\ Foreign \cap (1..issued) = {}
    BY CredentialConstants DEF CredInv, CredTypeOK
  <1>3. Evicted \subseteq Evicted'
    BY <1>1, <1>2 DEF Evicted
  <1>4. ForeignFixed'
    BY <1>1 DEF ForeignFixed
  <1> QED BY <1>1, <1>3, <1>4 DEF Remembered

(* No operation on credentials makes a revocation or an eviction undone.   *)
LEMMA RememberedStep ==
    ASSUME CredInv, ForeignFixed, [CredNext]_credVars
    PROVE  Remembered /\ ForeignFixed'
  <1>0. issued \in Nat /\ issued <= MaxIssued /\ MaxIssued \in Nat /\ Foreign \cap (1..MaxIssued) = {}
        /\ Held \subseteq (1..issued) \cup Foreign
    BY CredentialConstants DEF CredInv, CredTypeOK
  <1>1. CASE UNCHANGED <<store, revoked, issued>>
    BY <1>1 DEF Remembered, ForeignFixed, Evicted, Held
  <1>2. ASSUME NEW a \in Aids, NEW s \in Schemas, NEW chain \in Parents, NEW x \in {"none", "ahead"},
               Issue(a, s, chain, x)
        PROVE  Remembered /\ ForeignFixed'
    <2> DEFINE cred == [issuer |-> a, schema |-> s, chain |-> chain, expiry |-> x]
    <2>1. /\ issued' = issued + 1 /\ issued < MaxIssued /\ Put(issued + 1, cred)
          /\ revoked' = revoked
      BY <1>2 DEF Issue
    <2>2. issued + 1 \in Ids /\ issued + 1 \notin Held /\ issued + 1 \notin Foreign
      BY <1>0, <2>1 DEF Ids
    <2>3. chain \in Seq(Ids)
      <3>1. <<>> \in Seq(Ids) /\ \A c \in Ids : <<c>> \in Seq(Ids)
        OBVIOUS
      <3>2. \A c \in (1..issued) \cup Foreign : c \in Ids
        BY <1>0 DEF Ids
      <3> QED BY <3>1, <3>2 DEF Parents
    <2>4. cred \in Credential
      BY <2>3 DEF Credential
    <2>5. issued' # issued
      BY <1>0, <2>1
    <2> HIDE DEF cred
    <2> QED BY <2>1, <2>2, <2>4, <2>5, RememberedPut
  <1>3. ASSUME NEW c \in Foreign, Receive(c) PROVE Remembered /\ ForeignFixed'
    <2>1. c \in Ids /\ ForeignCred[c] \in Credential
      BY CredentialConstants DEF Ids
    <2>2. /\ c \notin Held /\ Put(c, ForeignCred[c])
          /\ UNCHANGED <<known, schemas, revoked, issued>>
      BY <1>3 DEF Receive
    <2> QED BY <2>1, <2>2, RememberedPut
  <1>4. ASSUME NEW c \in Held, Remove(c) PROVE Remembered /\ ForeignFixed'
    <2>1. /\ store' = [x \in Held \ {c} |-> store[x]] /\ UNCHANGED <<revoked, issued>>
      BY <1>4 DEF Remove
    <2>2. Held' = Held \ {c} /\ \A x \in Held' : store'[x] = store[x]
      BY <2>1 DEF Held
    <2>3. c \in Foreign \/ c \in Evicted'
      BY <1>0, <2>1, <2>2 DEF Evicted
    <2> QED BY <2>1, <2>2, <2>3 DEF Remembered, ForeignFixed, Evicted
  <1>5. ASSUME NEW c \in Held, Expire(c) PROVE Remembered /\ ForeignFixed'
    <2>1. /\ store' = [store EXCEPT ![c].expiry = "past"] /\ UNCHANGED <<revoked, issued>>
      BY <1>5 DEF Expire
    <2>2. Held' = Held /\ store[c] \in Credential
      BY <2>1 DEF Held, CredInv, CredTypeOK
    <2>3. \A x \in Held : store'[x] = IF x = c THEN [store[c] EXCEPT !.expiry = "past"] ELSE store[x]
      BY <2>1 DEF Held
    <2>4. [store[c] EXCEPT !.expiry = "past"].schema = store[c].schema
          /\ [store[c] EXCEPT !.expiry = "past"].chain = store[c].chain
      BY <2>2 DEF Credential
    <2>5. \A x \in Held : store'[x].schema = store[x].schema /\ store'[x].chain = store[x].chain
      BY <2>3, <2>4
    <2> QED BY <2>1, <2>2, <2>5 DEF Remembered, ForeignFixed, Evicted
  <1>6. ASSUME NEW c \in (1..issued) \cup Foreign, Revoke(c) PROVE Remembered /\ ForeignFixed'
    BY <1>6 DEF Revoke, Remembered, ForeignFixed, Evicted, Held
  <1>7. ASSUME NEW a \in Aids, Know(a) PROVE Remembered /\ ForeignFixed'
    BY <1>1, <1>7 DEF Know
  <1>8. ASSUME NEW s \in Schemas, RegisterSchema(s) PROVE Remembered /\ ForeignFixed'
    BY <1>1, <1>8 DEF RegisterSchema
  <1> QED BY <1>1, <1>2, <1>3, <1>4, <1>5, <1>6, <1>7, <1>8, Zenon DEF CredNext, credVars

LEMMA EvictedIds == CredInv => revoked \cup Evicted \subseteq Ids
  BY CredentialConstants DEF CredInv, CredTypeOK, Evicted, Ids

(* The doomed are the least set that the rules above make.                 *)
LEMMA DoomedFacts ==
    ASSUME CredInv
    PROVE  /\ Doomed \subseteq Ids
           /\ revoked \cup Evicted \subseteq Doomed
           /\ \A x \in Ids : Links(x) \cap Doomed # {} => x \in Doomed
           /\ \A x \in Doomed : x \in revoked \cup Evicted \/ Links(x) \cap Doomed # {}
           /\ \A set \in SUBSET Ids :
                 /\ revoked \cup Evicted \subseteq set
                 /\ \A x \in Ids : Links(x) \cap set # {} => x \in set
                 => Doomed \subseteq set
  <1>1. Doomed \subseteq Ids /\ revoked \cup Evicted \subseteq Doomed
    BY EvictedIds DEF Doomed
  <1>2. ASSUME NEW set \in SUBSET Ids, revoked \cup Evicted \subseteq set,
               \A x \in Ids : Links(x) \cap set # {} => x \in set
        PROVE  Doomed \subseteq set
    BY <1>2 DEF Doomed
  <1>3. ASSUME NEW x \in Ids, Links(x) \cap Doomed # {} PROVE x \in Doomed
    <2> SUFFICES ASSUME NEW set \in SUBSET Ids, revoked \cup Evicted \subseteq set,
                        \A y \in Ids : Links(y) \cap set # {} => y \in set
                 PROVE  x \in set
      BY DEF Doomed
    <2>1. Doomed \subseteq set
      BY <1>2
    <2> QED BY <1>3, <2>1
  <1>4. ASSUME NEW x \in Doomed PROVE x \in revoked \cup Evicted \/ Links(x) \cap Doomed # {}
    <2> DEFINE set == revoked \cup Evicted \cup {y \in Ids : Links(y) \cap Doomed # {}}
    <2>1. set \in SUBSET Ids /\ set \subseteq Doomed
      BY <1>1, <1>3, EvictedIds
    <2>2. \A y \in Ids : Links(y) \cap set # {} => y \in set
      BY <2>1
    <2>3. Doomed \subseteq set
      <3> HIDE DEF set
      <3>1. revoked \cup Evicted \subseteq set
        BY DEF set
      <3> QED BY <1>2, <2>1, <2>2, <3>1
    <2> QED BY <2>3
  <1> QED BY <1>1, <1>2, <1>3, <1>4

(* For a credential in the store, links are the parents it names.          *)
LEMMA HeldLinks ==
    ASSUME CredInv, ForeignFixed, NEW x \in Held
    PROVE  Links(x) = Range(Chain(x)) /\ Parent(x) = Range(Chain(x)) /\ x \in Ids
  BY DEF Links, Parent, Range, Chain, ForeignFixed, CredInv, CredTypeOK

(* Whoever has a revoked ancestor is doomed, and a doomed credential that  *)
(* passes the checks on itself has a doomed parent.                        *)
LEMMA RevokedAncestor ==
    ASSUME CredInv, ForeignFixed, NEW c \in Ids, Ancestry(c) \cap revoked # {}
    PROVE  c \in Doomed
  <1> SUFFICES ASSUME c \notin Doomed PROVE FALSE
    OBVIOUS
  <1>1. ASSUME NEW x \in Ids \ Doomed PROVE Parent(x) \subseteq Ids \ Doomed
    <2>1. Parent(x) \subseteq Ids
      BY AncestryFacts
    <2>2. Parent(x) \subseteq Links(x)
      BY HeldLinks DEF Parent
    <2> QED BY <2>1, <2>2, DoomedFacts
  <1>2. Ids \ Doomed \in SUBSET Ids /\ c \in Ids \ Doomed
    OBVIOUS
  <1>3. Ancestry(c) \subseteq Ids \ Doomed
    BY <1>1, <1>2, AncestryFacts
  <1> QED BY <1>3, DoomedFacts

(* The step of the recursion of verify.                                    *)
LEMMA DoomedParent ==
    ASSUME CredInv, ForeignFixed, NEW c \in Doomed, Usable(c)
    PROVE  Range(Chain(c)) \cap Doomed # {}
  <1>1. c \in Held /\ c \notin revoked /\ c \notin Evicted
    BY DEF Usable, Evicted
  <1> QED BY <1>1, DoomedFacts, HeldLinks

(* The same after a step.                                                  *)
DoomedClosed ==
    /\ Doomed \subseteq Ids
    /\ revoked \cup Evicted \subseteq Doomed
    /\ \A x \in Ids : Links(x) \cap Doomed # {} => x \in Doomed
LEMMA DoomedAfter == CredInv' => DoomedClosed'
  <1>1. CredInv => DoomedClosed
    BY DoomedFacts DEF DoomedClosed
  <1> QED BY <1>1, PTL

(* Doom is for good.                                                       *)
LEMMA DoomIsFinal ==
    ASSUME CredInv, ForeignFixed, CredInv', Remembered
    PROVE  /\ Doomed \subseteq Doomed'
           /\ \A c \in Ids, s \in Schemas : Elsewhere(c, s) => Elsewhere(c, s)'
  <1>1. /\ Doomed' \subseteq Ids
        /\ (revoked \cup Evicted)' \subseteq Doomed'
        /\ \A x \in Ids : Links(x)' \cap Doomed' # {} => x \in Doomed'
    BY DoomedAfter DEF DoomedClosed
  <1>2. revoked \cup Evicted \subseteq Doomed'
    BY <1>1 DEF Remembered
  <1>3. ASSUME NEW x \in Ids, Links(x) \cap Doomed' # {} PROVE x \in Doomed'
    <2>1. CASE x \in Foreign
      BY <1>1, <1>3, <2>1 DEF Links
    <2>2. CASE x \notin Foreign /\ x \in Held
      <3>1. CASE x \in Evicted'
        BY <1>1, <3>1
      <3>2. CASE x \in Held' /\ store'[x].chain = store[x].chain
        <4>1. Links(x)' = Links(x)
          BY <2>2, <3>2 DEF Links, Parent, Chain
        <4> QED BY <1>1, <1>3, <4>1
      <3> QED BY <2>2, <3>1, <3>2 DEF Remembered
    <2>3. CASE x \notin Foreign /\ x \notin Held
      BY <1>3, <2>3 DEF Links, Parent
    <2> QED BY <2>1, <2>2, <2>3
  <1>4. Doomed \subseteq Doomed'
    BY <1>1, <1>2, <1>3, DoomedFacts
  <1>5. ASSUME NEW c \in Ids, NEW s \in Schemas, Elsewhere(c, s) PROVE Elsewhere(c, s)'
    <2>1. CASE c \in Evicted
      BY <2>1 DEF Elsewhere, Remembered
    <2>2. CASE c \in Foreign /\ ForeignCred[c].schema # s
      BY <2>2 DEF Elsewhere
    <2>3. CASE c \in Held /\ store[c].schema # s /\ c \notin Foreign
      BY <2>3 DEF Elsewhere, Remembered
    <2>4. CASE c \in Held /\ store[c].schema # s /\ c \in Foreign
      BY <2>4 DEF Elsewhere, ForeignFixed
    <2> QED BY <1>5, <2>1, <2>2, <2>3, <2>4 DEF Elsewhere
  <1> QED BY <1>4, <1>5
-----------------------------------------------------------------------------
(* The stack of a walk: the ids it still holds, and what unwinding leaves. *)
Pending(walk) == UNION {Range(walk[i]) : i \in DOMAIN walk}

(* Unwinding drops empty frames only.                                      *)
LEMMA UnwindFacts ==
    ASSUME NEW S, NEW walk \in Seq(Seq(S))
    PROVE  /\ Unwind(walk) \in Seq(Seq(S))
           /\ Unwind(walk) # <<>> => Unwind(walk)[1] # <<>>
           /\ Pending(Unwind(walk)) = Pending(walk)
           /\ Pending(walk) # {} => Unwind(walk) # <<>>
  <1> DEFINE unfinished == {i \in DOMAIN walk : walk[i] # <<>>}
             first == CHOOSE i \in unfinished : \A j \in unfinished : i <= j
  <1>1. DOMAIN walk = 1..Len(walk) /\ Len(walk) \in Nat
    BY LenProperties
  <1>2. Range(<<>>) = {} /\ Pending(<<>>) = {}
    BY DEF Range, Pending
  <1>3. CASE unfinished = {}
    <2>1. Unwind(walk) = <<>>
      BY <1>3 DEF Unwind
    <2>2. Pending(walk) = {}
      BY <1>2, <1>3 DEF Pending
    <2>3. <<>> \in Seq(Seq(S))
      OBVIOUS
    <2> QED BY <1>2, <2>1, <2>2, <2>3
  <1>4. CASE unfinished # {}
    <2>1. first \in unfinished /\ \A j \in unfinished : first <= j
      <3>1. unfinished \in SUBSET Nat
        BY <1>1
      <3>2. \E i \in unfinished : \A j \in unfinished : i <= j
        <4> HIDE DEF unfinished
        <4> QED BY <1>4, <3>1, LeastNumber
      <3> QED BY <3>2
    <2>2. Unwind(walk) = SubSeq(walk, first, Len(walk))
      BY <1>4 DEF Unwind
    <2> HIDE DEF first
    <2> DEFINE rest == SubSeq(walk, first, Len(walk))
               m == Len(walk) - first + 1
    <2>3. /\ first \in 1..Len(walk) /\ m \in Nat \ {0}
          /\ walk[first] # <<>>
      BY <1>1, <2>1
    <2>4. /\ rest \in Seq(Seq(S)) /\ Len(rest) = m
          /\ \A i \in 1..m : rest[i] = walk[first + i - 1]
      <3>1. \A i \in first..Len(walk) : walk[i] \in Seq(S)
        BY <1>1, <2>3, ElementOfSeq
      <3>2. first \in Int /\ Len(walk) \in Int /\ first <= Len(walk)
        BY <1>1, <2>3
      <3> QED BY <1>1, <2>3, <3>1, <3>2, SubSeqProperties
    <2> HIDE DEF rest
    <2>5. DOMAIN rest = 1..m
      BY <2>4, LenProperties
    <2>6. rest[1] = walk[first] /\ rest # <<>>
      <3>1. 1 \in 1..m /\ first + 1 - 1 = first
        BY <2>3
      <3>2. rest[1] = walk[first]
        BY <2>4, <3>1
      <3>3. Len(rest) # 0
        BY <2>3, <2>4
      <3> QED BY <3>2, <3>3
    <2>7. ASSUME NEW x \in Pending(walk) PROVE x \in Pending(rest)
      <3>1. PICK i \in 1..Len(walk) : x \in Range(walk[i])
        BY <1>1 DEF Pending
      <3>2. i \in unfinished
        BY <1>1, <1>2, <3>1
      <3>3. first <= i
        BY <2>1, <3>2
      <3>4. i - first + 1 \in 1..m /\ first + (i - first + 1) - 1 = i
        BY <1>1, <2>3, <3>3
      <3>5. rest[i - first + 1] = walk[i]
        BY <2>4, <3>4
      <3> QED BY <2>5, <3>1, <3>4, <3>5 DEF Pending
    <2>8. ASSUME NEW x \in Pending(rest) PROVE x \in Pending(walk)
      <3>1. PICK i \in 1..m : x \in Range(rest[i])
        BY <2>5 DEF Pending
      <3>2. first + i - 1 \in DOMAIN walk
        BY <1>1, <2>3
      <3> QED BY <2>4, <3>1, <3>2 DEF Pending
    <2> QED BY <2>2, <2>3, <2>4, <2>6, <2>7, <2>8 DEF rest
  <1> QED BY <1>3, <1>4

(* Two frames pushed onto a stack.                                         *)
LEMMA TwoThen ==
    ASSUME NEW T, NEW two \in Seq(T), Len(two) = 2, NEW q \in Seq(T), NEW n \in Nat \ {0}, Len(q) = n - 1
    PROVE  /\ two \o q \in Seq(T) /\ Len(two \o q) = n + 1
           /\ \A i \in 1..Len(two \o q) : (two \o q)[i] = IF i <= 2 THEN two[i] ELSE q[i - 2]
  <1>1. /\ two \o q \in Seq(T) /\ Len(two \o q) = Len(two) + Len(q)
        /\ \A i \in 1..(Len(two) + Len(q)) :
              (two \o q)[i] = IF i <= Len(two) THEN two[i] ELSE q[i - Len(two)]
    BY ConcatProperties, Zenon
  <1>2. Len(two) + Len(q) = n + 1
    OBVIOUS
  <1> QED BY <1>1, <1>2

(* Looking at the first id of a walk: the stack that is then unwound holds *)
(* its parents and all the other ids.                                      *)
LEMMA StepFacts ==
    ASSUME NEW S, NEW walk \in Seq(Seq(S)), walk # <<>>, walk[1] # <<>>, NEW parents \in Seq(S)
    PROVE  LET c == Head(Head(walk))
               next == <<parents, Tail(Head(walk))>> \o Tail(walk)
           IN  /\ c \in Pending(walk) /\ c \in S
               /\ next \in Seq(Seq(S))
               /\ Range(parents) \subseteq Pending(next)
               /\ Pending(walk) \subseteq {c} \cup Pending(next)
  <1> DEFINE c == Head(Head(walk))
             frame == Head(walk)
             next == <<parents, Tail(frame)>> \o Tail(walk)
  <1>1. /\ frame = walk[1] /\ frame \in Seq(S) /\ frame # <<>>
        /\ Tail(walk) \in Seq(Seq(S)) /\ Len(Tail(walk)) = Len(walk) - 1
        /\ \A i \in 1..(Len(walk) - 1) : Tail(walk)[i] = walk[i + 1]
        /\ Len(walk) \in Nat \ {0} /\ DOMAIN walk = 1..Len(walk)
    BY HeadTailProperties, LenProperties, EmptySeq, ElementOfSeq
  <1>2. /\ c = frame[1] /\ c \in S /\ Tail(frame) \in Seq(S) /\ Len(Tail(frame)) = Len(frame) - 1
        /\ \A i \in 1..(Len(frame) - 1) : Tail(frame)[i] = frame[i + 1]
        /\ Len(frame) \in Nat \ {0} /\ DOMAIN frame = 1..Len(frame)
    <2> HIDE DEF frame
    <2> QED BY <1>1, HeadTailProperties, LenProperties, EmptySeq, ElementOfSeq
  <1> HIDE DEF frame
  <1>3. /\ <<parents, Tail(frame)>> \in Seq(Seq(S)) /\ Len(<<parents, Tail(frame)>>) = 2
        /\ <<parents, Tail(frame)>>[1] = parents /\ <<parents, Tail(frame)>>[2] = Tail(frame)
    BY <1>2
  <1>4. /\ next \in Seq(Seq(S)) /\ Len(next) = Len(walk) + 1
        /\ \A i \in 1..Len(next) : next[i] = IF i <= 2 THEN <<parents, Tail(frame)>>[i]
                                                ELSE Tail(walk)[i - 2]
    BY <1>1, <1>3, TwoThen
  <1> HIDE DEF next
  <1>5. DOMAIN next = 1..(Len(walk) + 1)
    BY <1>4, LenProperties
  <1>6. next[1] = parents /\ next[2] = Tail(frame) /\ 1 \in DOMAIN next /\ 2 \in DOMAIN next
    <2>1. 1 \in 1..(Len(walk) + 1) /\ 2 \in 1..(Len(walk) + 1) /\ 1 <= 2 /\ 2 <= 2
      BY <1>1
    <2>2. \A i \in 1..(Len(walk) + 1) : i <= 2 => next[i] = <<parents, Tail(frame)>>[i]
      BY <1>4
    <2>3. next[1] = <<parents, Tail(frame)>>[1] /\ next[2] = <<parents, Tail(frame)>>[2]
      BY <2>1, <2>2, Zenon
    <2> QED BY <1>3, <1>5, <2>1, <2>3
  <1>7. ASSUME NEW x \in Pending(walk), x # c PROVE x \in Pending(next)
    <2>1. PICK i \in 1..Len(walk) : x \in Range(walk[i])
      BY <1>1 DEF Pending
    <2>2. CASE i = 1
      <3>1. PICK j \in 1..Len(frame) : x = frame[j]
        BY <1>1, <1>2, <2>1, <2>2 DEF Range
      <3>2. j - 1 \in 1..(Len(frame) - 1) /\ (j - 1) + 1 = j
        BY <1>2, <1>7, <3>1
      <3>3. Tail(frame)[j - 1] = x /\ j - 1 \in DOMAIN Tail(frame)
        BY <1>2, <3>1, <3>2, LenProperties
      <3>4. x \in Range(Tail(frame))
        BY <3>3 DEF Range
      <3> QED BY <1>6, <3>4 DEF Pending
    <2>3. CASE i # 1
      <3>1. i + 1 \in 1..(Len(walk) + 1) /\ ~(i + 1 <= 2) /\ (i + 1) - 2 = i - 1
            /\ i - 1 \in 1..(Len(walk) - 1) /\ (i - 1) + 1 = i
        BY <1>1, <2>3
      <3>2. next[i + 1] = walk[i]
        BY <1>1, <1>4, <3>1
      <3> QED BY <1>5, <2>1, <3>1, <3>2 DEF Pending
    <2> QED BY <2>2, <2>3
  <1>8. c \in Pending(walk)
    <2>1. c \in Range(walk[1]) /\ 1 \in DOMAIN walk
      <3>1. 1 \in DOMAIN frame /\ 1 \in DOMAIN walk
        BY <1>1, <1>2
      <3> QED BY <1>1, <1>2, <3>1 DEF Range
    <2> QED BY <2>1 DEF Pending
  <1>9. Range(parents) \subseteq Pending(next)
    BY <1>6 DEF Pending
  <1> QED BY <1>2, <1>4, <1>7, <1>8, <1>9 DEF next, frame
-----------------------------------------------------------------------------
(* A message without hope under a policy, and a context that will not      *)
(* satisfy its policy: a schema that it requires is not presented yet, and *)
(* what is still to be looked at cannot present it.                        *)
Excluded(c, s) == c \in Doomed \/ Elsewhere(c, s)
Hopeless(n, p) ==
    \E s \in p.required : \A i \in DOMAIN Says(n).credentials : Excluded(Says(n).credentials[i], s)
Doubts(x) ==
    \E s \in x.policy.required :
        /\ \A i \in DOMAIN x.presented : x.presented[i] # s
        /\ \A i \in DOMAIN x.todo : Excluded(x.todo[i], s)
        /\ x.walk # <<>> => Elsewhere(x.todo[1], s) \/ Pending(x.walk) \cap Doomed # {}

(* A walk is of the credential that is looked at, and unwound.             *)
Unwound(x) == x.walk # <<>> => x.walk[1] # <<>> /\ x.todo # <<>>

Walk(x) == IF x.walk = <<>> THEN <<<<Head(x.todo)>>>> ELSE x.walk
Rest(x) == LET c == Head(Head(Walk(x)))
           IN  Unwind(<<Chain(c), Tail(Head(Walk(x)))>> \o Tail(Walk(x)))

(* The walk that a look at a credential takes up.                          *)
LEMMA WalkFacts ==
    ASSUME CredInv, ForeignFixed, NEW x \in Context, Unwound(x), x.todo # <<>>
    PROVE  /\ Walk(x) \in Seq(Seq(Ids)) /\ Walk(x) # <<>> /\ Walk(x)[1] # <<>>
           /\ Head(Head(Walk(x))) \in Ids
           /\ x.todo \in Seq(Ids) /\ Head(x.todo) = x.todo[1] /\ 1 \in DOMAIN x.todo
           /\ x.walk = <<>> => Pending(Walk(x)) = {x.todo[1]}
           /\ x.walk # <<>> => Walk(x) = x.walk
  <1>1. /\ x.todo \in Seq(Ids) /\ x.walk \in Seq(Seq(Ids))
    BY DEF Context
  <1>2. Head(x.todo) = x.todo[1] /\ x.todo[1] \in Ids /\ 1 \in DOMAIN x.todo
    <2>1. Len(x.todo) \in Nat \ {0}
      BY <1>1, EmptySeq
    <2>2. 1 \in 1..Len(x.todo) /\ DOMAIN x.todo = 1..Len(x.todo)
      BY <1>1, <2>1, LenProperties
    <2> QED BY <1>1, <2>2, ElementOfSeq, HeadTailProperties
  <1>3. ASSUME x.walk = <<>>
        PROVE  /\ Walk(x) \in Seq(Seq(Ids)) /\ Walk(x) # <<>> /\ Walk(x)[1] # <<>>
               /\ Pending(Walk(x)) = {x.todo[1]}
    <2> DEFINE c == x.todo[1]
    <2>1. Walk(x) = <<<<c>>>>
      BY <1>2, <1>3 DEF Walk
    <2>2. /\ <<c>> \in Seq(Ids) /\ <<c>> # <<>> /\ DOMAIN <<c>> = {1} /\ <<c>>[1] = c
      BY <1>2
    <2> DEFINE f == <<c>>
    <2>3. Range(f) = {c}
      BY <2>2 DEF Range
    <2> HIDE DEF f
    <2>4. <<f>> \in Seq(Seq(Ids)) /\ <<f>> # <<>> /\ DOMAIN <<f>> = {1} /\ <<f>>[1] = f /\ f # <<>>
      BY <2>2 DEF f
    <2>5. Pending(<<f>>) = {c}
      BY <2>3, <2>4 DEF Pending
    <2> QED BY <2>1, <2>4, <2>5 DEF f
  <1>4. ASSUME x.walk # <<>>
        PROVE  /\ Walk(x) \in Seq(Seq(Ids)) /\ Walk(x) # <<>> /\ Walk(x)[1] # <<>>
               /\ Walk(x) = x.walk
    BY <1>1, <1>4 DEF Walk, Unwound
  <1>5. Walk(x) \in Seq(Seq(Ids)) /\ Walk(x) # <<>> /\ Walk(x)[1] # <<>>
    BY <1>3, <1>4
  <1>6. Head(Head(Walk(x))) \in Ids
    <2>1. <<>> \in Seq(Ids)
      OBVIOUS
    <2> QED BY <1>5, <2>1, StepFacts
  <1> QED BY <1>1, <1>2, <1>3, <1>4, <1>5, <1>6

(* One look: a doomed id among the pending ones leaves a doomed one.       *)
LEMMA LookKeepsDoom ==
    ASSUME CredInv, ForeignFixed, NEW x \in Context, Unwound(x), x.todo # <<>>,
           Usable(Head(Head(Walk(x))))
    PROVE  /\ Rest(x) \in Seq(Seq(Ids))
           /\ Rest(x) # <<>> => Rest(x)[1] # <<>>
           /\ Pending(Walk(x)) \cap Doomed # {} => Pending(Rest(x)) \cap Doomed # {} /\ Rest(x) # <<>>
  <1> DEFINE c == Head(Head(Walk(x)))
             next == <<Chain(c), Tail(Head(Walk(x)))>> \o Tail(Walk(x))
  <1>1. /\ Walk(x) \in Seq(Seq(Ids)) /\ Walk(x) # <<>> /\ Walk(x)[1] # <<>> /\ c \in Ids
    BY WalkFacts
  <1>2. Chain(c) \in Seq(Ids) /\ c \in Held
    BY DEF Usable, CredInv, CredTypeOK, Chain, Credential
  <1>3. /\ next \in Seq(Seq(Ids)) /\ Range(Chain(c)) \subseteq Pending(next)
        /\ Pending(Walk(x)) \subseteq {c} \cup Pending(next)
    BY <1>1, <1>2, StepFacts
  <1>4. Rest(x) = Unwind(next)
    BY DEF Rest
  <1> HIDE DEF next
  <1>5. /\ Rest(x) \in Seq(Seq(Ids)) /\ (Rest(x) # <<>> => Rest(x)[1] # <<>>)
        /\ Pending(Rest(x)) = Pending(next) /\ (Pending(next) # {} => Rest(x) # <<>>)
    BY <1>3, <1>4, UnwindFacts
  <1>6. ASSUME Pending(Walk(x)) \cap Doomed # {} PROVE Pending(next) \cap Doomed # {}
    <2>1. PICK y \in Pending(Walk(x)) : y \in Doomed
      BY <1>6
    <2>2. CASE y = c
      <3>1. Range(Chain(c)) \cap Doomed # {}
        BY <2>1, <2>2, DoomedParent
      <3> QED BY <1>3, <3>1
    <2>3. CASE y # c
      BY <1>3, <2>1, <2>3
    <2> QED BY <2>2, <2>3
  <1> QED BY <1>5, <1>6

(* What a look at a credential makes of a context.                         *)
Looked(x, y) ==
    LET first == Head(x.todo)
    IN  \/ y = [x EXCEPT !.todo = Tail(@), !.walk = <<>>]
        \/ /\ Usable(Head(Head(Walk(x)))) /\ Rest(x) # <<>>
           /\ y = [x EXCEPT !.walk = Rest(x)]
        \/ /\ Usable(Head(Head(Walk(x)))) /\ Rest(x) = <<>>
           /\ y = [x EXCEPT !.todo = Tail(@), !.walk = <<>>,
                            !.presented = IF first \in Held THEN Append(@, store[first].schema) ELSE @]

(* A look keeps the types and the doubts of a context.                     *)
LEMMA LookedFacts ==
    ASSUME CredInv, ForeignFixed, NEW x \in Context, Unwound(x), x.todo # <<>>,
           NEW y, Looked(x, y)
    PROVE  /\ y \in Context /\ y.policy = x.policy /\ Unwound(y)
           /\ Doubts(x) => Doubts(y)
  <1> DEFINE first == Head(x.todo)
             more == IF first \in Held THEN Append(x.presented, store[first].schema) ELSE x.presented
  <1>1. /\ x.policy \in Policies /\ x.todo \in Seq(Ids) /\ x.walk \in Seq(Seq(Ids))
        /\ x.presented \in Seq(Schemas)
    BY DEF Context
  <1>2. /\ first = x.todo[1] /\ 1 \in DOMAIN x.todo
        /\ x.walk = <<>> => Pending(Walk(x)) = {x.todo[1]}
        /\ x.walk # <<>> => Walk(x) = x.walk
    BY WalkFacts
  <1>3. /\ Tail(x.todo) \in Seq(Ids)
        /\ \A i \in DOMAIN Tail(x.todo) : i + 1 \in DOMAIN x.todo /\ Tail(x.todo)[i] = x.todo[i + 1]
    <2>1. /\ Len(x.todo) \in Nat \ {0} /\ DOMAIN x.todo = 1..Len(x.todo)
          /\ Tail(x.todo) \in Seq(Ids) /\ Len(Tail(x.todo)) = Len(x.todo) - 1
          /\ \A i \in 1..(Len(x.todo) - 1) : Tail(x.todo)[i] = x.todo[i + 1]
      BY <1>1, HeadTailProperties, LenProperties, EmptySeq
    <2>2. DOMAIN Tail(x.todo) = 1..(Len(x.todo) - 1)
      BY <2>1, LenProperties
    <2> QED BY <2>1, <2>2
  <1>4. more \in Seq(Schemas)
    <2>1. first \in Held => store[first].schema \in Schemas
      BY DEF CredInv, CredTypeOK, Credential
    <2> QED BY <1>1, <2>1, AppendProperties
  <1>5. <<>> \in Seq(Seq(Ids))
    OBVIOUS
  <1>6. CASE y = [x EXCEPT !.todo = Tail(@), !.walk = <<>>]
    <2>1. /\ y \in Context /\ y.policy = x.policy /\ y.todo = Tail(x.todo) /\ y.walk = <<>>
          /\ y.presented = x.presented
      BY <1>1, <1>3, <1>5, <1>6 DEF Context
    <2>2. Doubts(x) => Doubts(y)
      BY <1>3, <2>1 DEF Doubts
    <2> QED BY <2>1, <2>2 DEF Unwound
  <1>7. ASSUME Usable(Head(Head(Walk(x)))), Rest(x) # <<>>, y = [x EXCEPT !.walk = Rest(x)]
        PROVE  y \in Context /\ y.policy = x.policy /\ Unwound(y) /\ (Doubts(x) => Doubts(y))
    <2>1. /\ Rest(x) \in Seq(Seq(Ids)) /\ Rest(x)[1] # <<>>
          /\ Pending(Walk(x)) \cap Doomed # {} => Pending(Rest(x)) \cap Doomed # {}
      BY <1>7, LookKeepsDoom
    <2>2. /\ y \in Context /\ y.policy = x.policy /\ y.todo = x.todo /\ y.walk = Rest(x)
          /\ y.presented = x.presented
      BY <1>1, <1>7, <2>1 DEF Context
    <2>3. Doubts(x) => Doubts(y)
      <3> SUFFICES ASSUME NEW s \in x.policy.required,
                          \A i \in DOMAIN x.presented : x.presented[i] # s,
                          \A i \in DOMAIN x.todo : Excluded(x.todo[i], s),
                          x.walk # <<>> => Elsewhere(x.todo[1], s) \/ Pending(x.walk) \cap Doomed # {}
                   PROVE  Doubts(y)
        BY DEF Doubts
      <3>1. Elsewhere(x.todo[1], s) \/ Pending(Walk(x)) \cap Doomed # {}
        BY <1>2 DEF Excluded
      <3>2. Elsewhere(y.todo[1], s) \/ Pending(y.walk) \cap Doomed # {}
        BY <2>1, <2>2, <3>1
      <3> QED BY <2>2, <3>2 DEF Doubts
    <2> QED BY <2>1, <2>2, <2>3 DEF Unwound
  <1>8. ASSUME Usable(Head(Head(Walk(x)))), Rest(x) = <<>>,
               y = [x EXCEPT !.todo = Tail(@), !.walk = <<>>,
                             !.presented = IF first \in Held THEN Append(@, store[first].schema) ELSE @]
        PROVE  y \in Context /\ y.policy = x.policy /\ Unwound(y) /\ (Doubts(x) => Doubts(y))
    <2>1. /\ y \in Context /\ y.policy = x.policy /\ y.todo = Tail(x.todo) /\ y.walk = <<>>
          /\ y.presented = more
      BY <1>1, <1>3, <1>4, <1>5, <1>8 DEF Context
    <2>2. Pending(Walk(x)) \cap Doomed = {}
      BY <1>8, LookKeepsDoom
    <2>3. Doubts(x) => Doubts(y)
      <3> SUFFICES ASSUME NEW s \in x.policy.required,
                          \A i \in DOMAIN x.presented : x.presented[i] # s,
                          \A i \in DOMAIN x.todo : Excluded(x.todo[i], s),
                          x.walk # <<>> => Elsewhere(x.todo[1], s) \/ Pending(x.walk) \cap Doomed # {}
                   PROVE  Doubts(y)
        BY DEF Doubts
      <3>1. Elsewhere(first, s)
        BY <1>2, <2>2 DEF Excluded
      <3>2. first \in Held => store[first].schema # s
        BY <3>1 DEF Elsewhere, Evicted, ForeignFixed
      <3>3. \A i \in DOMAIN more : more[i] # s
        <4>1. CASE first \in Held
          <5> DEFINE z == store[first].schema
          <5>1. z \in Schemas /\ more = Append(x.presented, z) /\ z # s
            BY <3>2, <4>1 DEF CredInv, CredTypeOK, Credential
          <5> HIDE DEF z
          <5>2. /\ Len(x.presented) \in Nat /\ DOMAIN x.presented = 1..Len(x.presented)
                /\ DOMAIN Append(x.presented, z) = 1..(Len(x.presented) + 1)
                /\ Append(x.presented, z)[Len(x.presented) + 1] = z
                /\ \A i \in 1..Len(x.presented) : Append(x.presented, z)[i] = x.presented[i]
            BY <1>1, <5>1, AppendProperties, LenProperties
          <5> QED BY <5>1, <5>2
        <4>2. CASE first \notin Held
          BY <4>2
        <4> QED BY <4>1, <4>2
      <3> HIDE DEF more
      <3> QED BY <1>3, <2>1, <3>3 DEF Doubts
    <2> QED BY <2>1, <2>3 DEF Unwound
  <1> QED BY <1>6, <1>7, <1>8 DEF Looked
-----------------------------------------------------------------------------
(* The contexts of the workers: fresh until the credentials are looked at. *)
Contexts ==
    /\ policy \in Policies
    /\ context \in [Workers -> Context]
    /\ \A w \in Workers : Unwound(context[w])
    /\ \A w \in Workers : pc[w] \in {"idle", "verify", "context"} => context[w] = NoContext

(* A message that was barred is not allowed, nor will it be.               *)
Heeded(w) ==
    <<hand[w], context[w].policy>> \in barred =>
        /\ ~allowed[w]
        /\ pc[w] = "check" => Doubts(context[w])

PromptInv ==
    /\ PipeInv /\ CredInv /\ ForeignFixed /\ Contexts
    /\ \A b \in barred : b[1] \in Taken /\ b[2] \in Policies /\ Hopeless(b[1], b[2])
    /\ \A w \in Workers : Heeded(w)

(* The context of a worker that has not looked yet.                        *)
LEMMA NoContextFacts == NoContext \in Context /\ Unwound(NoContext)
                        /\ NoContext.walk = <<>> /\ NoContext.presented = <<>>
  <1>1. (CHOOSE p \in Policies : TRUE) \in Policies
    BY PipelineConstants
  <1>2. <<>> \in Seq(Ids) /\ <<>> \in Seq(Seq(Ids)) /\ <<>> \in Seq(Schemas)
    OBVIOUS
  <1> QED BY <1>1, <1>2 DEF NoContext, Context, Unwound

(* What a message presents are ids.                                        *)
LEMMA SaysFacts ==
    ASSUME PipeInv, NEW n \in Taken
    PROVE  /\ Says(n) \in Content /\ Says(n).credentials \in Seq(Ids)
           /\ \A i \in DOMAIN Says(n).credentials : Says(n).credentials[i] \in Ids
  <1>1. ingested \in Seq(Contents) /\ n \in 1..Len(ingested)
    BY DEF PipeInv, Types, Taken
  <1>2. Says(n) \in Contents
    BY <1>1, ElementOfSeq DEF Says
  <1>3. Says(n) \in Content /\ Says(n).credentials \in Seq(Ids)
    BY <1>2, PipelineConstants DEF Content
  <1> QED BY <1>3, ElementOfSeq

(* What is barred is without hope.                                         *)
BarredIsHopeless ==
    \A b \in BarredNow : b[1] \in Taken /\ b[2] \in Policies /\ Hopeless(b[1], b[2])
LEMMA BarredNowFacts == PipeInv /\ CredInv /\ ForeignFixed => BarredIsHopeless
  <1> SUFFICES ASSUME PipeInv, CredInv, ForeignFixed, NEW b \in BarredNow
               PROVE  b[1] \in Taken /\ b[2] \in Policies /\ Hopeless(b[1], b[2])
    BY DEF BarredIsHopeless
  <1>1. b[1] \in Range(inQueue) /\ b[2] \in Policies /\ Barred(b[1], b[2])
    BY DEF BarredNow
  <1>2. b[1] \in Taken
    BY <1>1 DEF PipeInv, Types
  <1>3. PICK s \in b[2].required : \A i \in DOMAIN Says(b[1]).credentials :
            LET c == Says(b[1]).credentials[i]
            IN  \/ c \in Held /\ store[c].schema # s
                \/ Ancestry(c) \cap revoked # {}
    BY <1>1 DEF Barred
  <1>4. ASSUME NEW i \in DOMAIN Says(b[1]).credentials
        PROVE  Excluded(Says(b[1]).credentials[i], s)
    <2> DEFINE c == Says(b[1]).credentials[i]
    <2>1. c \in Ids
      BY <1>2, SaysFacts
    <2>2. (c \in Held /\ store[c].schema # s) \/ Ancestry(c) \cap revoked # {}
      BY <1>3
    <2> HIDE DEF c
    <2>3. Excluded(c, s)
      BY <2>1, <2>2, RevokedAncestor DEF Excluded, Elsewhere
    <2> QED BY <2>3 DEF c
  <1>5. Hopeless(b[1], b[2])
    BY <1>4 DEF Hopeless
  <1> QED BY <1>1, <1>2, <1>5

LEMMA BarredAfter == (PipeInv /\ CredInv /\ ForeignFixed)' => BarredIsHopeless'
  BY BarredNowFacts, PTL

(* What a step leaves of the messages and their doom.                      *)
Settled ==
    /\ Doomed \subseteq Doomed'
    /\ \A c \in Ids, s \in Schemas : Elsewhere(c, s) => Elsewhere(c, s)'
    /\ \A n \in Taken : n \in Taken' /\ Says(n)' = Says(n)

(* Every step settles what was doomed.                                     *)
LEMMA SettledStep ==
    ASSUME PromptInv, [PipeNext]_pipeVars
    PROVE  PipeInv' /\ CredInv' /\ ForeignFixed' /\ Settled
  <1>1. PipeInv /\ CredInv /\ ForeignFixed
    BY DEF PromptInv
  <1>2. [CredNext]_credVars
    BY PipeCredStep
  <1>3. CredInv' /\ Remembered /\ ForeignFixed'
    BY <1>1, <1>2, CredStep, RememberedStep
  <1>4. PipeInv'
    BY <1>1, StepKeeps
  <1>5. \A n \in Taken : n \in Taken' /\ Says(n)' = Says(n)
    <2>1. CASE UNCHANGED ingested
      BY <2>1 DEF Taken, Says
    <2>2. ASSUME NEW m \in Contents, Ingest(m)
          PROVE  \A n \in Taken : n \in Taken' /\ Says(n)' = Says(n)
      <3>1. ingested' = Append(ingested, m) /\ ingested \in Seq(Contents)
        BY <1>1, <2>2 DEF Ingest, PipeInv, Types
      <3>2. \A n \in 1..Len(ingested) : ingested'[n] = ingested[n] /\ n \in 1..Len(ingested')
        BY <3>1, AppendProperties, LenProperties
      <3> QED BY <3>2 DEF Taken, Says
    <2>3. CASE \E m \in Contents : Ingest(m)
      BY <2>2, <2>3
    <2> QED BY <2>1, <2>3 DEF PipeNext, pipeVars, queues, SetPolicy, Process, Get, VerifySender, ReadPolicy,
         CheckCredential, Decide, FileEvidence, Submit, Raise, Hand, Collect, CollectAll, Drain,
         Dispatch, CollectNext
  <1> QED BY <1>1, <1>3, <1>4, <1>5, DoomIsFinal DEF Settled

(* A message without hope stays without it.                                *)
LEMMA HopelessLasts ==
    ASSUME PromptInv, Settled, NEW n \in Taken, NEW p \in Policies, Hopeless(n, p)
    PROVE  Hopeless(n, p)'
  <1>1. PICK s \in p.required :
            \A i \in DOMAIN Says(n).credentials : Excluded(Says(n).credentials[i], s)
    BY DEF Hopeless
  <1>2. s \in Schemas
    BY PipelineConstants DEF Policy
  <1>3. Says(n)' = Says(n) /\ \A i \in DOMAIN Says(n).credentials : Says(n).credentials[i] \in Ids
    BY SaysFacts DEF PromptInv, Settled
  <1>4. \A c \in Ids : Excluded(c, s) => Excluded(c, s)'
    BY <1>2 DEF Settled, Excluded
  <1> QED BY <1>1, <1>3, <1>4 DEF Hopeless

(* Doubts about a context last, and the doubts of the next state are about *)
(* the same credentials.                                                   *)
LEMMA DoubtsLast ==
    ASSUME Settled, NEW x \in Context, Unwound(x), Doubts(x)
    PROVE  Doubts(x)'
  <1>1. PICK s \in x.policy.required :
            /\ \A i \in DOMAIN x.presented : x.presented[i] # s
            /\ \A i \in DOMAIN x.todo : Excluded(x.todo[i], s)
            /\ x.walk # <<>> => Elsewhere(x.todo[1], s) \/ Pending(x.walk) \cap Doomed # {}
    BY DEF Doubts
  <1>2. s \in Schemas /\ x.todo \in Seq(Ids)
    BY PipelineConstants DEF Policy, Context
  <1>3. \A i \in DOMAIN x.todo : x.todo[i] \in Ids
    BY <1>2, ElementOfSeq
  <1>4. \A c \in Ids : Excluded(c, s) => Excluded(c, s)'
    BY <1>2 DEF Settled, Excluded
  <1>5. ASSUME x.walk # <<>>, Elsewhere(x.todo[1], s) PROVE Elsewhere(x.todo[1], s)'
    <2>1. 1 \in DOMAIN x.todo
      <3>1. Len(x.todo) \in Nat \ {0}
        BY <1>2, <1>5, EmptySeq DEF Unwound
      <3> QED BY <1>2, <3>1, LenProperties
    <2> QED BY <1>2, <1>3, <1>5, <2>1 DEF Settled
  <1>6. Pending(x.walk)' = Pending(x.walk)
    BY DEF Pending, Range
  <1>7. x.walk # <<>> => Elsewhere(x.todo[1], s)' \/ Pending(x.walk) \cap Doomed' # {}
    BY <1>1, <1>5 DEF Settled
  <1> QED BY <1>1, <1>3, <1>4, <1>6, <1>7 DEF Doubts

(* A worker heeds what was barred after a step if it heeds what was barred *)
(* before it: what is barred only now is still queued.                     *)
LEMMA HeededIf ==
    ASSUME PromptInv, PipeInv', Settled, barred' \subseteq barred \cup BarredNow', NEW w \in Workers,
           context'[w] \in Context, Unwound(context'[w]),
           /\ <<hand'[w], context'[w].policy>> \in barred
           /\ pc'[w] \in {"check", "decided", "filed"}
           => ~allowed'[w] /\ (pc'[w] = "check" => Doubts(context'[w]))
    PROVE  Heeded(w)'
  <1>1. SUFFICES ASSUME <<hand'[w], context'[w].policy>> \in barred'
                 PROVE  ~allowed'[w] /\ (pc'[w] = "check" => Doubts(context[w])')
    BY DEF Heeded
  <1>2. CASE pc'[w] \notin {"check", "decided", "filed"}
    BY <1>2 DEF PipeInv, Filing
  <1>3. CASE pc'[w] \in {"check", "decided", "filed"}
    <2>1. w \in Busy'
      BY <1>3 DEF Busy
    <2>2. hand'[w] \in InHand'
      BY <2>1 DEF InHand
    <2>3. hand'[w] \notin Range(inQueue)'
      BY <2>2 DEF PipeInv, AnsweredOnce
    <2>4. \A b \in BarredNow' : b[1] \in Range(inQueue)'
      BY DEF BarredNow
    <2>5. <<hand'[w], context'[w].policy>> \in barred
      BY <1>1, <2>3, <2>4
    <2>6. PICK x \in Context : x = context'[w]
      OBVIOUS
    <2>7. ASSUME pc'[w] = "check" PROVE Doubts(context[w])'
      <3>1. Doubts(x) /\ Unwound(x)
        BY <1>3, <2>5, <2>6, <2>7
      <3>2. Doubts(x)'
        BY <3>1, DoubtsLast
      <3> QED BY <2>6, <3>2 DEF Doubts
    <2> QED BY <1>3, <2>5, <2>7
  <1> QED BY <1>2, <1>3
(* What a step does to the contexts, and that workers keep heeding.        *)
Heeding ==
    /\ Contexts'
    /\ \A w \in Workers :
          /\ <<hand'[w], context'[w].policy>> \in barred
          /\ pc'[w] \in {"check", "decided", "filed"}
          => ~allowed'[w] /\ (pc'[w] = "check" => Doubts(context'[w]))

(* Steps that move no worker.                                              *)
LEMMA SameContexts ==
    ASSUME PromptInv, UNCHANGED <<pc, hand, allowed, context>>, policy' \in Policies
    PROVE  Heeding
  <1>1. Contexts'
    BY DEF PromptInv, Contexts, Unwound
  <1>2. \A w \in Workers : Heeded(w)
    BY DEF PromptInv
  <1> QED BY <1>1, <1>2 DEF Heeding, Heeded

(* One worker moves: the others heed as before.                            *)
LEMMA OneMoves ==
    ASSUME PromptInv, NEW w \in Workers, NEW y \in Context, Unwound(y), policy' = policy,
           context' = [context EXCEPT ![w] = y],
           \A v \in Workers \ {w} : pc'[v] = pc[v] /\ hand'[v] = hand[v] /\ allowed'[v] = allowed[v],
           pc'[w] \in {"idle", "verify", "context"} => y = NoContext,
           /\ <<hand'[w], y.policy>> \in barred
           /\ pc'[w] \in {"check", "decided", "filed"}
           => ~allowed'[w] /\ (pc'[w] = "check" => Doubts(y))
    PROVE  Heeding
  <1>1. context \in [Workers -> Context]
    BY DEF PromptInv, Contexts
  <1>2. context' \in [Workers -> Context] /\ context'[w] = y
        /\ \A v \in Workers \ {w} : context'[v] = context[v]
    BY <1>1
  <1>3. \A v \in Workers : Unwound(context'[v])
    BY <1>2 DEF PromptInv, Contexts
  <1>4. \A v \in Workers : pc'[v] \in {"idle", "verify", "context"} => context'[v] = NoContext
    BY <1>2 DEF PromptInv, Contexts
  <1>5. Contexts'
    <2>1. policy' \in Policies /\ NoContext' = NoContext
      BY DEF PromptInv, Contexts, NoContext
    <2>2. \A v \in Workers : Unwound(context[v])'
      BY <1>3 DEF Unwound
    <2> QED BY <1>2, <1>4, <2>1, <2>2 DEF Contexts
  <1>6. ASSUME NEW v \in Workers,
               <<hand'[v], context'[v].policy>> \in barred, pc'[v] \in {"check", "decided", "filed"}
        PROVE  ~allowed'[v] /\ (pc'[v] = "check" => Doubts(context'[v]))
    <2>1. CASE v = w
      BY <1>2, <1>6, <2>1
    <2>2. CASE v # w
      <3>1. Heeded(v)
        BY DEF PromptInv
      <3> QED BY <1>2, <1>6, <2>2, <3>1 DEF Heeded
    <2> QED BY <2>1, <2>2
  <1> QED BY <1>5, <1>6 DEF Heeding

(* A worker that returns is done with its message.                         *)
LEMMA ReturnHeeds ==
    ASSUME PromptInv, NEW w \in Workers, Return(w), policy' = policy
    PROVE  Heeding
  <1>1. /\ pc' = [pc EXCEPT ![w] = "idle"] /\ hand' = [hand EXCEPT ![w] = 0]
        /\ allowed' = [allowed EXCEPT ![w] = FALSE] /\ context' = [context EXCEPT ![w] = NoContext]
    BY DEF Return, Goto
  <1>2. /\ pc \in [Workers -> Steps] /\ hand \in [Workers -> Nat] /\ allowed \in [Workers -> BOOLEAN]
    BY DEF PromptInv, PipeInv, Types
  <1>3. pc'[w] = "idle"
        /\ \A v \in Workers \ {w} : pc'[v] = pc[v] /\ hand'[v] = hand[v] /\ allowed'[v] = allowed[v]
    BY <1>1, <1>2
  <1> QED BY <1>1, <1>3, NoContextFacts, OneMoves

(* The steps of process: reading the policy turns a message without hope   *)
(* into doubts, a look keeps them, and the decision honours them.          *)
LEMMA ProcessHeeds ==
    ASSUME PromptInv, NEW w \in Workers, Process(w)
    PROVE  Heeding
  <1>1. /\ pc \in [Workers -> Steps] /\ hand \in [Workers -> Nat] /\ allowed \in [Workers -> BOOLEAN]
        /\ context \in [Workers -> Context] /\ policy \in Policies
        /\ PipeInv /\ CredInv /\ ForeignFixed
    BY DEF PromptInv, PipeInv, Types, Contexts
  <1> DEFINE x == context[w]
  <1>2. x \in Context /\ Unwound(x) /\ Heeded(w)
        /\ (pc[w] \in {"idle", "verify", "context"} => x = NoContext)
        /\ (pc[w] \notin {"decided", "filed"} => ~allowed[w])
    BY <1>1 DEF PromptInv, Contexts, PipeInv, Filing
  <1>3. context = [context EXCEPT ![w] = x]
    BY <1>1
  <1>4. ASSUME Get(w) PROVE Heeding
    <2>1. /\ pc[w] = "idle" /\ pc' = [pc EXCEPT ![w] = "verify"]
          /\ hand' = [hand EXCEPT ![w] = Head(inQueue)]
          /\ UNCHANGED <<policy, allowed, context>>
      BY <1>4 DEF Get, Goto
    <2>2. pc'[w] = "verify"
          /\ \A v \in Workers \ {w} : pc'[v] = pc[v] /\ hand'[v] = hand[v] /\ allowed'[v] = allowed[v]
      BY <1>1, <2>1
    <2> QED BY <1>2, <1>3, <2>1, <2>2, OneMoves
  <1>5. ASSUME VerifySender(w) PROVE Heeding
    <2>1. PICK step \in {"context", "decided"} : pc' = [pc EXCEPT ![w] = step]
      BY <1>5 DEF VerifySender, Goto
    <2>2. pc[w] = "verify" /\ UNCHANGED <<policy, hand, allowed, context>>
      BY <1>5 DEF VerifySender, locals
    <2>3. pc'[w] \in {"context", "decided"} /\ \A v \in Workers \ {w} : pc'[v] = pc[v]
      BY <1>1, <2>1
    <2> QED BY <1>2, <1>3, <2>2, <2>3, OneMoves
  <1>6. ASSUME ReadPolicy(w) PROVE Heeding
    <2> DEFINE y == [x EXCEPT !.policy = policy, !.todo = Says(hand[w]).credentials]
    <2>1. /\ pc[w] = "context" /\ pc' = [pc EXCEPT ![w] = "check"]
          /\ UNCHANGED <<policy, hand, allowed>>
          /\ context' = [context EXCEPT ![w].policy = policy, ![w].todo = Says(hand[w]).credentials]
      BY <1>6 DEF ReadPolicy, Goto
    <2>2. hand[w] \in Taken
      BY <1>1, <2>1 DEF Busy, InHand, PipeInv, Types
    <2>3. Says(hand[w]).credentials \in Seq(Ids)
      BY <1>1, <2>2, SaysFacts
    <2>4. x = NoContext /\ x.walk = <<>> /\ x.presented = <<>>
      BY <1>2, <2>1, NoContextFacts
    <2>5. /\ y \in Context /\ y.policy = policy /\ y.todo = Says(hand[w]).credentials
          /\ y.walk = <<>> /\ y.presented = <<>>
      BY <1>1, <1>2, <2>3, <2>4 DEF Context
    <2>6. context' = [context EXCEPT ![w] = y]
      BY <1>1, <1>2, <2>1 DEF Context
    <2>7. pc'[w] = "check" /\ \A v \in Workers \ {w} : pc'[v] = pc[v]
      BY <1>1, <2>1
    <2> HIDE DEF y, x
    <2>8. Unwound(y)
      BY <2>5 DEF Unwound
    <2>9. ASSUME <<hand[w], policy>> \in barred PROVE Doubts(y)
      <3>1. Hopeless(hand[w], policy)
        BY <2>9 DEF PromptInv
      <3>2. DOMAIN y.presented = {}
        BY <2>5
      <3> QED BY <2>5, <3>1, <3>2 DEF Hopeless, Doubts
    <2>10. ~allowed'[w]
      BY <1>2, <2>1
    <2> QED BY <2>1, <2>5, <2>6, <2>7, <2>8, <2>9, <2>10, OneMoves
  <1>7. ASSUME CheckCredential(w) PROVE Heeding
    <2>1. CASE Raise(w)
      BY <2>1, ReturnHeeds DEF Raise
    <2>2. CASE ~Raise(w)
      <3>1. /\ pc[w] = "check" /\ x.todo # <<>> /\ UNCHANGED <<policy, pc, hand, allowed>>
        BY <1>7, <2>2 DEF CheckCredential
      <3>2. PICK y : context' = [context EXCEPT ![w] = y] /\ Looked(x, y)
        <4> DEFINE first == Head(x.todo)
        <4>1. CASE context' = [context EXCEPT ![w].todo = Tail(@), ![w].walk = <<>>]
          <5>1. context' = [context EXCEPT ![w] = [x EXCEPT !.todo = Tail(@), !.walk = <<>>]]
            BY <1>1, <1>2, <4>1 DEF Context
          <5> QED BY <5>1 DEF Looked
        <4>2. CASE /\ Usable(Head(Head(Walk(x)))) /\ Rest(x) # <<>>
                   /\ context' = [context EXCEPT ![w].walk = Rest(x)]
          <5>1. context' = [context EXCEPT ![w] = [x EXCEPT !.walk = Rest(x)]]
            BY <1>1, <1>2, <4>2 DEF Context
          <5> QED BY <4>2, <5>1 DEF Looked
        <4>3. CASE /\ Usable(Head(Head(Walk(x)))) /\ Rest(x) = <<>>
                   /\ context' = [context EXCEPT ![w].todo = Tail(@), ![w].walk = <<>>,
                            ![w].presented = IF first \in Held
                                             THEN Append(@, store[first].schema) ELSE @]
          <5>1. context' = [context EXCEPT ![w] = [x EXCEPT !.todo = Tail(@), !.walk = <<>>,
                            !.presented = IF first \in Held
                                          THEN Append(@, store[first].schema) ELSE @]]
            BY <1>1, <1>2, <4>3 DEF Context
          <5> QED BY <4>3, <5>1 DEF Looked
        <4> QED BY <1>7, <2>2, <4>1, <4>2, <4>3 DEF CheckCredential, Walk, Rest
      <3>3. /\ y \in Context /\ y.policy = x.policy /\ Unwound(y)
            /\ Doubts(x) => Doubts(y)
        BY <1>1, <1>2, <3>1, <3>2, LookedFacts
      <3>4. <<hand[w], x.policy>> \in barred => Doubts(x)
        BY <1>2, <3>1 DEF Heeded
      <3> QED BY <1>2, <3>1, <3>2, <3>3, <3>4, OneMoves
    <2> QED BY <2>1, <2>2
  <1>8. ASSUME Decide(w) PROVE Heeding
    <2>1. /\ pc[w] = "check" /\ x.todo = <<>> /\ pc' = [pc EXCEPT ![w] = "decided"]
          /\ allowed' = [allowed EXCEPT ![w] = Satisfies(x.presented, x.policy)]
          /\ UNCHANGED <<policy, hand, context>>
      BY <1>8 DEF Decide, Goto
    <2>2. pc'[w] = "decided" /\ allowed'[w] = Satisfies(x.presented, x.policy)
          /\ \A v \in Workers \ {w} : pc'[v] = pc[v] /\ allowed'[v] = allowed[v]
      BY <1>1, <2>1
    <2>3. Doubts(x) => ~Satisfies(x.presented, x.policy)
      BY DEF Doubts, Satisfies
    <2>4. <<hand[w], x.policy>> \in barred => Doubts(x)
      BY <1>2, <2>1 DEF Heeded
    <2> QED BY <1>2, <1>3, <2>1, <2>2, <2>3, <2>4, OneMoves
  <1>9. ASSUME FileEvidence(w) PROVE Heeding
    <2>1. CASE Raise(w)
      BY <2>1, ReturnHeeds DEF Raise
    <2>2. CASE ~Raise(w)
      <3>1. /\ pc[w] = "decided" /\ pc' = [pc EXCEPT ![w] = "filed"]
            /\ UNCHANGED <<policy, hand, allowed, context>>
        BY <1>9, <2>2 DEF FileEvidence, Goto, locals
      <3>2. pc'[w] = "filed" /\ \A v \in Workers \ {w} : pc'[v] = pc[v]
        BY <1>1, <3>1
      <3>3. <<hand[w], x.policy>> \in barred => ~allowed[w]
        BY <1>2 DEF Heeded
      <3> QED BY <1>2, <1>3, <3>1, <3>2, <3>3, OneMoves
    <2> QED BY <2>1, <2>2
  <1>10. ASSUME Submit(w) PROVE Heeding
    <2>1. Return(w) /\ policy' = policy
      BY <1>10 DEF Submit, Raise, Hand
    <2> QED BY <2>1, ReturnHeeds
  <1> QED BY <1>4, <1>5, <1>6, <1>7, <1>8, <1>9, <1>10, Zenon DEF Process

(* Every step of the pipeline keeps the workers heeding.                   *)
LEMMA StepHeeds ==
    ASSUME PromptInv, [PipeNext]_pipeVars
    PROVE  Heeding
  <1>0. policy \in Policies
    BY DEF PromptInv, Contexts
  <1>1. CASE UNCHANGED <<pc, locals>> /\ policy' \in Policies
    BY <1>1, SameContexts DEF locals
  <1>2. ASSUME NEW w \in Workers, Process(w) PROVE Heeding
    BY <1>2, ProcessHeeds
  <1> QED BY <1>0, <1>1, <1>2 DEF PipeNext, pipeVars, locals, Ingest, SetPolicy, Collect, CollectAll, Drain,
         Dispatch, CollectNext

(* The inductive step of RevocationsAreHeeded.                             *)
LEMMA PromptStep ==
    ASSUME PromptInv, [RevocationNext]_revocationVars
    PROVE  PromptInv'
  <1>1. [PipeNext]_pipeVars /\ barred' \subseteq barred \cup BarredNow'
    BY DEF RevocationNext, revocationVars
  <1>2. PipeInv' /\ CredInv' /\ ForeignFixed' /\ Settled
    BY <1>1, SettledStep
  <1>3. Heeding
    BY <1>1, StepHeeds
  <1>4. ASSUME NEW w \in Workers PROVE Heeded(w)'
    <2>1. context'[w] \in Context /\ Unwound(context'[w])
      BY <1>3 DEF Heeding, Contexts, Unwound
    <2> QED BY <1>1, <1>2, <1>3, <2>1, HeededIf DEF Heeding
  <1>5. ASSUME NEW b \in barred'
        PROVE  b[1] \in Taken' /\ b[2] \in Policies /\ Hopeless(b[1], b[2])'
    <2>1. CASE b \in BarredNow'
      BY <1>2, <2>1, BarredAfter DEF BarredIsHopeless
    <2>2. CASE b \in barred
      <3>1. PICK n \in Taken, p \in Policies : n = b[1] /\ p = b[2]
        BY <2>2 DEF PromptInv
      <3>2. Hopeless(n, p)
        BY <2>2, <3>1 DEF PromptInv
      <3>3. Hopeless(n, p)' /\ n \in Taken'
        BY <1>2, <3>2, HopelessLasts DEF Settled
      <3> QED BY <3>1, <3>3
    <2> QED BY <1>1, <1>5, <2>1, <2>2
  <1> QED BY <1>2, <1>3, <1>4, <1>5 DEF PromptInv, Heeding

(* A revocation before a worker takes the message is never overtaken.      *)
THEOREM RevocationsAreHeeded == RevocationSpec => []RevocationIsPrompt
  <1>1. RevocationInit => PromptInv
    <2> SUFFICES ASSUME PipeInit, barred = {} PROVE PromptInv
      BY DEF RevocationInit
    <2>1. PipeInv /\ CredInv
      BY InitInv, CredInitial DEF PipeInit
    <2>2. Held = {}
      BY DEF PipeInit, CredInit, Held
    <2>3. Contexts
      BY NoContextFacts DEF PipeInit, Contexts
    <2> QED BY <2>1, <2>2, <2>3 DEF PromptInv, ForeignFixed, Heeded
  <1>2. PromptInv /\ [RevocationNext]_revocationVars => PromptInv'
    BY PromptStep
  <1>3. PromptInv => RevocationIsPrompt
    BY DEF PromptInv, Heeded, RevocationIsPrompt
  <1> QED BY <1>1, <1>2, <1>3, PTL DEF RevocationSpec
=============================================================================
