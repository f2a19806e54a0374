--------------------------- MODULE PollingProofs ---------------------------
(***************************************************************************)
(* Proofs about the polling of witnesses, for any number of AIDs,          *)
(* witnesses, requests and faults.                                         *)
(*                                                                         *)
(* The poller: its types, and that last_sn is never ahead of what was put  *)
(* on the queue (UpToLastSn).  The invariant says the same of every poll   *)
(* under way: all events up to the number it has come to are submitted,    *)
(* and that number is not below the one it started from, so that a batch,  *)
(* which starts there, leaves no gap.                                      *)
(*                                                                         *)
(* The watch list: its types, and that the cache and the table part only   *)
(* over overlapping calls, failed statements or a truncated load           *)
(* (PartedOnlyByOverlap).  The invariant follows a call that is alone with *)
(* its AID: before its statement cache and table agree, after it the entry *)
(* it is about to write is the one that agrees.                            *)
(***************************************************************************)
EXTENDS WatchList, Poller, FiniteSetTheorems, SequenceTheorems, TLAPS

Underway(t) == polls[t].at = "polling"

(* All events of an AID up to a number were put on the queue.              *)
Covered(aid, n) == \A k \in 0 .. MaxSn : k <= n => [aid |-> aid, sn |-> k] \in submitted

PollInv ==
    /\ PollerTypeOK
    /\ IsFiniteSet(inHand)
    /\ \A aid \in Aids : Covered(aid, lastSn[aid])
    /\ \A t \in Tasks : Underway(t) =>
          polls[t].from <= polls[t].max /\ Covered(polls[t].aid, polls[t].max)

-----------------------------------------------------------------------------
(* What Batch returns: consecutive events of the polled AID, from the      *)
(* number the poll started from, that the queue has room for.              *)
LEMMA BatchFits ==
    ASSUME PollerTypeOK, NEW t \in Tasks, NEW w, Answered(t, w)
    PROVE  /\ Batch(t, w) \in Seq(Events)
           /\ Len(Batch(t, w)) <= QueueSize - Len(queue)
           /\ \A i \in 1 .. Len(Batch(t, w)) :
                 Batch(t, w)[i] = [aid |-> polls[t].aid,
                                   sn |-> (IF polls[t].from < 0 THEN 0 ELSE polls[t].from) + i - 1]
<1> DEFINE p == polls[t]
           first == IF p.from < 0 THEN 0 ELSE p.from
           all == IF w \in Nested THEN 0 ELSE p.answered[w] - first + 1
           room == QueueSize - Len(queue)
           n == IF all < 0 THEN 0 ELSE IF all > room THEN room ELSE all
<1>1. p \in Poll_
  BY DEF PollerTypeOK, Answered, Resting
<1>2. p.aid \in Aids /\ p.from \in -1 .. MaxSn /\ p.answered[w] \in -1 .. MaxSn
  <2>1. PICK S \in SUBSET Witnesses : p.answered \in [S -> Sns]
    BY <1>1 DEF Poll_
  <2> QED BY <1>1, <2>1 DEF Poll_, Answered, Sns
<1>3. MaxSn \in Nat /\ QueueSize \in Nat /\ Len(queue) \in Nat /\ Len(queue) <= QueueSize
  BY PollerConstants, LenProperties DEF PollerTypeOK
<1>4. first \in 0 .. MaxSn /\ room \in Nat
  BY <1>2, <1>3
<1>5. n \in Nat /\ n <= room /\ (n > 0 => first + n - 1 <= MaxSn)
  <2> HIDE DEF first, room
  <2>1. all \in Int /\ (all > 0 => first + all - 1 <= MaxSn)
    <3>1. PICK a \in -1 .. MaxSn : a = p.answered[w]
      BY <1>2
    <3>2. all = IF w \in Nested THEN 0 ELSE a - first + 1
      BY <3>1
    <3> HIDE DEF all
    <3> QED BY <1>3, <1>4, <3>2
  <2> HIDE DEF all
  <2> QED BY <1>3, <1>4, <2>1
<1>6. Batch(t, w) = [i \in 1 .. n |-> [aid |-> p.aid, sn |-> first + i - 1]]
  BY DEF Batch
<1>7. ASSUME NEW i \in 1 .. n PROVE [aid |-> p.aid, sn |-> first + i - 1] \in Events
  <2>1. first + i - 1 \in 0 .. MaxSn
    BY <1>3, <1>4, <1>5
  <2> QED BY <1>2, <2>1 DEF Events
<1> HIDE DEF p, first, all, room, n
<1>8. Batch(t, w) \in Seq(Events) /\ Len(Batch(t, w)) = n
  BY <1>5, <1>6, <1>7
<1>9. \A i \in 1 .. n : Batch(t, w)[i] = [aid |-> p.aid, sn |-> first + i - 1]
  BY <1>6
<1> QED BY <1>5, <1>8, <1>9 DEF p, first, room
-----------------------------------------------------------------------------
LEMMA InitHolds == PollerInit => PollInv
<1> SUFFICES ASSUME PollerInit PROVE PollInv
  OBVIOUS
<1>1. MaxSn \in Nat /\ QueueSize \in Nat /\ Workers \in Nat \ {0} /\ MaxFaults \in Nat
  BY PollerConstants
<1>2. -1 \in Sns /\ 0 \in 0 .. MaxFaults
  BY <1>1 DEF Sns
<1>3. IsFiniteSet(inHand) /\ Cardinality(inHand) = 0
  BY FS_EmptySet DEF PollerInit
<1>4. queue \in Seq(Events) /\ Len(queue) <= QueueSize
  BY <1>1 DEF PollerInit
<1>5. PollerTypeOK
  BY <1>1, <1>2, <1>3, <1>4 DEF PollerInit, PollerTypeOK
<1>6. \A aid \in Aids : Covered(aid, lastSn[aid])
  BY <1>1 DEF PollerInit, Covered
<1>7. \A t \in Tasks : ~Underway(t)
  BY DEF PollerInit, Underway, Resting
<1> QED BY <1>3, <1>5, <1>6, <1>7 DEF PollInv

(* A poll that starts has come as far as last_sn says.                     *)
LEMMA StartedPoll ==
    ASSUME PollInv, NEW aid \in Aids
    PROVE  /\ Polling(aid, lastSn[aid]) \in Poll_
           /\ Polling(aid, lastSn[aid]).aid = aid
           /\ Polling(aid, lastSn[aid]).from = lastSn[aid]
           /\ Polling(aid, lastSn[aid]).max = lastSn[aid]
           /\ Covered(aid, lastSn[aid])
<1>1. lastSn[aid] \in Sns /\ WitnessesOf[aid] \in SUBSET Witnesses
  BY PollerConstants DEF PollInv, PollerTypeOK, Witnesses
<1>2. [w \in {} |-> 0] \in UNION {[S -> Sns] : S \in SUBSET Witnesses}
  <2>1. [w \in {} |-> 0] \in [{} -> Sns]
    OBVIOUS
  <2> QED BY <2>1
<1> QED BY <1>1, <1>2 DEF PollInv, Polling, Poll_

(* The steps of the polls that put nothing on the queue.                   *)
LEMMA CyclePreserves ==
    ASSUME PollInv, NEW due \in SUBSET Aids, Cycle(due)
    PROVE  PollInv'
<1>1. polls' = [t \in Tasks |-> IF t \in due THEN Polling(t, lastSn[t]) ELSE polls[t]]
  BY DEF Cycle
<1>2. UNCHANGED <<held, enabled, lastSn, queue, inHand, stored, escrow, submitted, faults>>
  BY DEF Cycle
<1>3. polls' \in [Tasks -> {Resting} \cup Poll_]
  BY <1>1, StartedPoll DEF PollInv, PollerTypeOK
<1>4. PollerTypeOK' /\ IsFiniteSet(inHand')
  BY <1>2, <1>3 DEF PollInv, PollerTypeOK
<1>5. \A aid \in Aids : Covered(aid, lastSn[aid])'
  BY <1>2 DEF PollInv, Covered
<1>6. ASSUME NEW t \in Tasks, Underway(t)'
      PROVE  (polls[t].from <= polls[t].max /\ Covered(polls[t].aid, polls[t].max))'
  <2>1. CASE t \in due
    <3>1. t \in Aids /\ polls'[t] = Polling(t, lastSn[t])
      BY <1>1, <2>1
    <3>2. lastSn[t] \in -1 .. MaxSn
      BY <3>1 DEF PollInv, PollerTypeOK, Sns
    <3>3. lastSn[t] <= lastSn[t]
      BY <3>2, PollerConstants
    <3> QED BY <1>2, <3>1, <3>3, StartedPoll DEF Covered
  <2>2. CASE t \notin due
    BY <1>1, <1>2, <1>6, <2>2 DEF PollInv, Underway, Covered
  <2> QED BY <2>1, <2>2
<1> QED BY <1>4, <1>5, <1>6 DEF PollInv

(* A step that touches one poll alone: what it needs to keep.              *)
LEMMA OnePoll ==
    ASSUME PollInv, NEW t \in Tasks, NEW p,
           polls' = [polls EXCEPT ![t] = p],
           UNCHANGED <<held, enabled, lastSn, queue, inHand, stored, escrow, submitted, faults>>,
           p = Resting \/ /\ p \in Poll_
                          /\ p.from <= p.max
                          /\ Covered(p.aid, p.max)
    PROVE  PollInv'
<1>1. polls' \in [Tasks -> {Resting} \cup Poll_]
  BY DEF PollInv, PollerTypeOK
<1>2. PollerTypeOK' /\ IsFiniteSet(inHand')
  BY <1>1 DEF PollInv, PollerTypeOK
<1>3. \A aid \in Aids : Covered(aid, lastSn[aid])'
  BY DEF PollInv, Covered
<1>4. ASSUME NEW u \in Tasks, Underway(u)'
      PROVE  (polls[u].from <= polls[u].max /\ Covered(polls[u].aid, polls[u].max))'
  <2>1. polls'[u] = IF u = t THEN p ELSE polls[u]
    BY DEF PollInv, PollerTypeOK
  <2>2. CASE u = t
    <3>1. p # Resting
      BY <1>4, <2>1, <2>2 DEF Underway, Resting
    <3> QED BY <2>1, <2>2, <3>1 DEF Covered
  <2>3. CASE u # t
    BY <1>4, <2>1, <2>3 DEF PollInv, Underway, Covered
  <2> QED BY <2>2, <2>3
<1> QED BY <1>2, <1>3, <1>4 DEF PollInv

LEMMA PollNowPreserves ==
    ASSUME PollInv, NEW t \in Requests, NEW aid \in Aids, PollNow(t, aid)
    PROVE  PollInv'
<1>1. t \in Tasks /\ lastSn[aid] \in -1 .. MaxSn
  BY DEF Tasks, PollInv, PollerTypeOK, Sns
<1>2. lastSn[aid] <= lastSn[aid]
  BY <1>1, PollerConstants
<1> QED BY <1>1, <1>2, StartedPoll, OnePoll DEF PollNow

LEMMA AnswerPreserves ==
    ASSUME PollInv, NEW t \in Tasks, NEW w \in Witnesses, Answer(t, w) \/ FetchFails(t, w)
    PROVE  PollInv'
<1>1. polls[t] \in Poll_ /\ Underway(t)
  BY DEF PollInv, PollerTypeOK, Answer, FetchFails, Resting, Underway
<1>2. PICK S \in SUBSET Witnesses : polls[t].answered \in [S -> Sns]
  BY <1>1 DEF Poll_
<1>3. held[w][polls[t].aid] \in Sns
  BY <1>1 DEF PollInv, PollerTypeOK, Poll_
<1>4. CASE Answer(t, w)
  <2> DEFINE given == [v \in S \cup {w} |-> IF v = w THEN held[w][polls[t].aid]
                                           ELSE polls[t].answered[v]]
             p == [polls[t] EXCEPT !.asked = @ \ {w}, !.answered = given]
  <2>1. given \in [S \cup {w} -> Sns]
    BY <1>2, <1>3
  <2>2. given \in UNION {[Q -> Sns] : Q \in SUBSET Witnesses}
    <3>1. S \cup {w} \in SUBSET Witnesses
      OBVIOUS
    <3> HIDE DEF given
    <3> QED BY <2>1, <3>1
  <2>3. polls' = [polls EXCEPT ![t] = p]
    BY <1>1, <1>2, <1>4 DEF Answer, PollInv, PollerTypeOK
  <2> HIDE DEF given
  <2>4. p \in Poll_ /\ p.from = polls[t].from /\ p.max = polls[t].max /\ p.aid = polls[t].aid
    BY <1>1, <2>2 DEF Poll_
  <2> QED BY <1>1, <1>4, <2>3, <2>4, OnePoll DEF PollInv, Answer
<1>5. CASE FetchFails(t, w)
  <2> DEFINE p == [polls[t] EXCEPT !.asked = @ \ {w}]
  <2>1. polls' = [polls EXCEPT ![t] = p]
    BY <1>5 DEF FetchFails, PollInv, PollerTypeOK
  <2>2. p \in Poll_ /\ p.from = polls[t].from /\ p.max = polls[t].max /\ p.aid = polls[t].aid
    BY <1>1 DEF Poll_
  <2> QED BY <1>1, <1>5, <2>1, <2>2, OnePoll DEF PollInv, FetchFails
<1> QED BY <1>4, <1>5

(* The events that Submit puts on the queue follow on those the poll has   *)
(* come to, so that all up to the last of them are submitted.              *)
LEMMA SubmitPreserves ==
    ASSUME PollInv, NEW t \in Tasks, NEW w \in Witnesses, Submit(t, w)
    PROVE  PollInv'
<1> DEFINE batch == Batch(t, w)
           q == polls[t]
           first == IF q.from < 0 THEN 0 ELSE q.from
           last == IF batch = <<>> THEN q.from ELSE batch[Len(batch)].sn
           max == IF last > q.max THEN last ELSE q.max
           left == [v \in DOMAIN q.answered \ {w} |-> q.answered[v]]
           p == [q EXCEPT !.answered = left, !.max = max]
<1>1. /\ Answered(t, w) /\ Underway(t)
      /\ queue' = queue \o batch
      /\ submitted' = submitted \cup {batch[i] : i \in DOMAIN batch}
      /\ UNCHANGED <<held, enabled, lastSn, inHand, stored, escrow, faults>>
  BY DEF Submit, Answered, Underway
<1>2. q \in Poll_
  BY <1>1 DEF PollInv, PollerTypeOK, Underway, Resting
<1>3. /\ q.aid \in Aids /\ q.from \in -1 .. MaxSn /\ q.max \in -1 .. MaxSn
      /\ q.from <= q.max /\ Covered(q.aid, q.max) /\ MaxSn \in Nat
  BY <1>1, <1>2, PollerConstants DEF PollInv, Poll_, Sns
<1>4. /\ batch \in Seq(Events)
      /\ Len(batch) <= QueueSize - Len(queue)
      /\ \A i \in 1 .. Len(batch) : batch[i] = [aid |-> q.aid, sn |-> first + i - 1]
  BY <1>1, BatchFits DEF PollInv
<1>5. polls' = [polls EXCEPT ![t] = p]
  BY DEF Submit, Settled, PollInv, PollerTypeOK
<1>6. PICK S \in SUBSET Witnesses : q.answered \in [S -> Sns]
  BY <1>2 DEF Poll_
<1>7. left \in UNION {[Q -> Sns] : Q \in SUBSET Witnesses}
  <2>1. left \in [S \ {w} -> Sns] /\ S \ {w} \in SUBSET Witnesses
    BY <1>6
  <2> HIDE DEF left
  <2> QED BY <2>1
<1> HIDE DEF batch, left
<1>8. Len(batch) \in Nat /\ DOMAIN batch = 1 .. Len(batch) /\ first \in 0 .. MaxSn
  BY <1>3, <1>4, LenProperties
<1>9. batch # <<>> => /\ Len(batch) \in 1 .. Len(batch)
                      /\ last = first + Len(batch) - 1
                      /\ last \in 0 .. MaxSn
  <2> SUFFICES ASSUME batch # <<>>
               PROVE  /\ Len(batch) \in 1 .. Len(batch)
                      /\ last = first + Len(batch) - 1
                      /\ last \in 0 .. MaxSn
    OBVIOUS
  <2>1. Len(batch) \in 1 .. Len(batch)
    BY <1>4, <1>8, EmptySeq
  <2>2. batch[Len(batch)] = [aid |-> q.aid, sn |-> first + Len(batch) - 1]
    BY <1>4, <2>1
  <2>3. batch[Len(batch)] \in Events
    BY <1>4, <2>1, LenProperties
  <2>4. batch[Len(batch)].sn \in 0 .. MaxSn
    BY <2>3 DEF Events
  <2> QED BY <2>1, <2>2, <2>4
<1>10. last \in -1 .. MaxSn
  BY <1>3, <1>9
<1> HIDE DEF first
<1>11. max \in -1 .. MaxSn /\ q.from <= max
  BY <1>3, <1>10
<1>12. ASSUME NEW k \in 0 .. MaxSn, k <= max
       PROVE  [aid |-> q.aid, sn |-> k] \in submitted'
  <2>1. CASE k <= q.max
    BY <1>1, <1>3, <2>1 DEF Covered
  <2>2. CASE ~(k <= q.max)
    <3>1. batch # <<>> /\ k <= first + Len(batch) - 1
      BY <1>3, <1>9, <1>10, <1>12, <2>2
    <3>2. first <= k
      BY <1>3, <2>2 DEF first
    <3>3. k - first + 1 \in 1 .. Len(batch) /\ first + (k - first + 1) - 1 = k
      BY <1>3, <1>8, <3>1, <3>2
    <3>4. batch[k - first + 1] = [aid |-> q.aid, sn |-> k]
      BY <1>4, <3>3
    <3> QED BY <1>1, <1>8, <3>3, <3>4
  <2> QED BY <2>1, <2>2
<1> HIDE DEF last, max
<1>13. p \in Poll_ /\ p.from = q.from /\ p.max = max /\ p.aid = q.aid
  BY <1>2, <1>7, <1>11 DEF Poll_, Sns
<1>14. queue' \in Seq(Events) /\ Len(queue') <= QueueSize
  <2>1. queue \in Seq(Events) /\ Len(queue) \in Nat /\ QueueSize \in Nat
    BY PollerConstants, LenProperties DEF PollInv, PollerTypeOK
  <2>2. queue' \in Seq(Events) /\ Len(queue') = Len(queue) + Len(batch)
    BY <1>1, <1>4, <2>1, ConcatProperties
  <2> QED BY <1>4, <1>8, <2>1, <2>2
<1>15. \A x \in submitted : x \in submitted'
  BY <1>1
<1>16. submitted' \subseteq Events
  BY <1>1, <1>4, <1>8, LenProperties DEF PollInv, PollerTypeOK
<1>17. polls' \in [Tasks -> {Resting} \cup Poll_]
  BY <1>5, <1>13 DEF PollInv, PollerTypeOK
<1>18. PollerTypeOK' /\ IsFiniteSet(inHand')
  BY <1>1, <1>14, <1>16, <1>17 DEF PollInv, PollerTypeOK
<1>19. \A aid \in Aids : Covered(aid, lastSn[aid])'
  BY <1>1, <1>15 DEF PollInv, Covered
<1>20. ASSUME NEW u \in Tasks, Underway(u)'
       PROVE  (polls[u].from <= polls[u].max /\ Covered(polls[u].aid, polls[u].max))'
  <2> HIDE DEF p
  <2>1. polls'[u] = IF u = t THEN p ELSE polls[u]
    BY <1>5 DEF PollInv, PollerTypeOK
  <2>2. CASE u = t
    BY <1>3, <1>11, <1>12, <1>13, <2>1, <2>2 DEF Covered
  <2>3. CASE u # t
    BY <1>15, <1>20, <2>1, <2>3 DEF PollInv, Underway, Covered
  <2> QED BY <2>2, <2>3
<1> QED BY <1>18, <1>19, <1>20 DEF PollInv

(* update_poll_timestamp takes over the number a poll has come to.         *)
LEMMA FinishPreserves ==
    ASSUME PollInv, NEW t \in Tasks, Finish(t) \/ FinishFails(t)
    PROVE  PollInv'
<1>1. polls' = [polls EXCEPT ![t] = Resting]
  BY DEF Finish, FinishFails
<1>2. CASE Finish(t)
  <2>1. /\ Underway(t) /\ polls[t] \in Poll_
        /\ lastSn' = [lastSn EXCEPT ![polls[t].aid] = Advanced(t)]
        /\ UNCHANGED <<held, enabled, queue, inHand, stored, escrow, submitted, faults>>
    BY <1>2 DEF Finish, Fetched, Underway, PollInv, PollerTypeOK, Resting
  <2>2. /\ polls[t].aid \in Aids
        /\ Advanced(t) \in {polls[t].max, lastSn[polls[t].aid]}
        /\ Advanced(t) \in Sns
    BY <2>1 DEF Advanced, PollInv, PollerTypeOK, Poll_
  <2>3. Covered(polls[t].aid, Advanced(t))
    BY <2>1, <2>2 DEF PollInv
  <2>4. PollerTypeOK' /\ IsFiniteSet(inHand')
    BY <1>1, <2>1, <2>2 DEF PollInv, PollerTypeOK
  <2>5. ASSUME NEW aid \in Aids PROVE Covered(aid, lastSn[aid])'
    <3>1. lastSn'[aid] = IF aid = polls[t].aid THEN Advanced(t) ELSE lastSn[aid]
      BY <2>1 DEF PollInv, PollerTypeOK
    <3>2. Covered(aid, IF aid = polls[t].aid THEN Advanced(t) ELSE lastSn[aid])
      BY <2>3 DEF PollInv
    <3> QED BY <2>1, <3>1, <3>2 DEF Covered
  <2>6. ASSUME NEW u \in Tasks, Underway(u)'
        PROVE  (polls[u].from <= polls[u].max /\ Covered(polls[u].aid, polls[u].max))'
    <3>1. polls'[u] = IF u = t THEN Resting ELSE polls[u]
      BY <1>1 DEF PollInv, PollerTypeOK
    <3>2. u # t
      BY <2>6, <3>1 DEF Underway, Resting
    <3> QED BY <2>1, <2>6, <3>1, <3>2 DEF PollInv, Underway, Covered
  <2> QED BY <2>4, <2>5, <2>6 DEF PollInv
<1>3. CASE FinishFails(t)
  BY <1>1, <1>3, OnePoll DEF FinishFails
<1> QED BY <1>2, <1>3

-----------------------------------------------------------------------------
(* A step that leaves the polls, last_sn and what was submitted alone: the *)
(* types are all there is to show.                                         *)
LEMMA OtherSteps ==
    ASSUME PollInv, UNCHANGED <<lastSn, polls, submitted>>, PollerTypeOK', IsFiniteSet(inHand')
    PROVE  PollInv'
BY DEF PollInv, Underway, Covered

LEMMA AcceptPreserves ==
    ASSUME PollInv, NEW w \in Witnesses, NEW aid \in Aids, Accept(w, aid)
    PROVE  PollInv'
<1>1. held[w][aid] + 1 \in 0 .. MaxSn /\ 0 .. MaxSn \subseteq Sns
  BY PollerConstants DEF PollInv, PollerTypeOK, Sns, Accept
<1>2. held' \in [Witnesses -> [Aids -> Sns]]
  BY <1>1 DEF PollInv, PollerTypeOK, Accept
<1>3. PollerTypeOK' /\ IsFiniteSet(inHand')
  BY <1>2 DEF PollInv, PollerTypeOK, Accept
<1> QED BY <1>3, OtherSteps DEF Accept

LEMMA TakePreserves == PollInv /\ Take => PollInv'
<1> SUFFICES ASSUME PollInv, Take PROVE PollInv'
  OBVIOUS
<1>1. queue \in Seq(Events) /\ queue # <<>> /\ QueueSize \in Nat /\ Workers \in Nat
  BY PollerConstants DEF PollInv, PollerTypeOK, Take
<1>2. Head(queue) \in Events /\ queue' \in Seq(Events) /\ Len(queue') = Len(queue) - 1
  BY <1>1, HeadTailProperties DEF Take
<1>3. Len(queue) \in Nat /\ Len(queue) <= QueueSize
  BY <1>1, LenProperties DEF PollInv, PollerTypeOK
<1>4. Len(queue') <= QueueSize
  BY <1>1, <1>2, <1>3
<1>5. /\ IsFiniteSet(inHand \cup {Head(queue)})
      /\ Cardinality(inHand \cup {Head(queue)}) =
           IF Head(queue) \in inHand THEN Cardinality(inHand) ELSE Cardinality(inHand) + 1
  BY FS_AddElement DEF PollInv
<1>6. Cardinality(inHand) \in Nat /\ Cardinality(inHand) < Workers
  BY FS_CardinalityType DEF PollInv, Take
<1>7. IsFiniteSet(inHand') /\ Cardinality(inHand') <= Workers
  BY <1>1, <1>5, <1>6 DEF Take
<1>8. PollerTypeOK'
  BY <1>2, <1>4, <1>7 DEF PollInv, PollerTypeOK, Take
<1> QED BY <1>7, <1>8, OtherSteps DEF Take

LEMMA SettlePreserves ==
    ASSUME PollInv, NEW e \in inHand, Settle(e) \/ SettleFails(e)
    PROVE  PollInv'
<1>1. e \in Events /\ e.aid \in Aids /\ e.sn \in 0 .. MaxSn /\ MaxSn \in Nat /\ Workers \in Nat
  BY PollerConstants DEF PollInv, PollerTypeOK, Events
<1>2. /\ IsFiniteSet(inHand \ {e})
      /\ Cardinality(inHand \ {e}) = Cardinality(inHand) - 1
  BY FS_RemoveElement DEF PollInv
<1>3. Cardinality(inHand) \in Nat /\ Cardinality(inHand) <= Workers
  BY FS_CardinalityType DEF PollInv, PollerTypeOK
<1>4. IsFiniteSet(inHand') /\ Cardinality(inHand') <= Workers
  <2>1. inHand' = inHand \ {e}
    BY DEF Settle, SettleFails
  <2> QED BY <1>1, <1>2, <1>3, <2>1
<1>5. CASE Settle(e)
  <2>1. \A n \in e.sn .. MaxSn : n \in Sns
    BY <1>1 DEF Sns
  <2>2. stored' \in [Aids -> Sns] /\ escrow' \subseteq Events
    BY <1>1, <1>5, <2>1 DEF Settle, PollInv, PollerTypeOK
  <2>3. PollerTypeOK'
    BY <1>4, <1>5, <2>2 DEF PollInv, PollerTypeOK, Settle
  <2> QED BY <1>4, <1>5, <2>3, OtherSteps DEF Settle
<1>6. CASE SettleFails(e)
  <2>1. faults' \in 0 .. MaxFaults
    BY <1>6, PollerConstants DEF PollInv, PollerTypeOK, SettleFails
  <2>2. PollerTypeOK'
    BY <1>4, <1>6, <2>1 DEF PollInv, PollerTypeOK, SettleFails
  <2> QED BY <1>4, <1>6, <2>2, OtherSteps DEF SettleFails
<1> QED BY <1>5, <1>6

LEMMA ListPreserves ==
    ASSUME PollInv, NEW aid \in Aids, Unwatch(aid) \/ Watch(aid)
    PROVE  PollInv'
<1>1. faults' \in 0 .. MaxFaults
  BY PollerConstants DEF PollInv, PollerTypeOK, Unwatch, Watch
<1>2. PollerTypeOK' /\ IsFiniteSet(inHand')
  BY <1>1 DEF PollInv, PollerTypeOK, Unwatch, Watch
<1> QED BY <1>2, OtherSteps DEF Unwatch, Watch

LEMMA ExpirePreserves ==
    ASSUME PollInv, NEW e \in escrow, Expire(e)
    PROVE  PollInv'
<1>1. faults' \in 0 .. MaxFaults
  BY PollerConstants DEF PollInv, PollerTypeOK, Expire
<1>2. PollerTypeOK' /\ IsFiniteSet(inHand')
  BY <1>1 DEF PollInv, PollerTypeOK, Expire
<1> QED BY <1>2, OtherSteps DEF Expire

(* A crash takes the polls with it; last_sn is in the table.               *)
LEMMA CrashPreserves == PollInv /\ Crash => PollInv'
<1> SUFFICES ASSUME PollInv, Crash PROVE PollInv'
  OBVIOUS
<1>1. faults' \in 0 .. MaxFaults /\ QueueSize \in Nat /\ Workers \in Nat
  BY PollerConstants DEF PollInv, PollerTypeOK, Crash
<1>2. IsFiniteSet(inHand') /\ Cardinality(inHand') = 0
  BY FS_EmptySet DEF Crash
<1>3. queue' \in Seq(Events) /\ Len(queue') <= QueueSize
  BY <1>1 DEF Crash
<1>4. PollerTypeOK'
  BY <1>1, <1>2, <1>3 DEF PollInv, PollerTypeOK, Crash
<1>5. \A aid \in Aids : Covered(aid, lastSn[aid])'
  BY DEF PollInv, Crash, Covered
<1>6. \A t \in Tasks : ~Underway(t)'
  BY DEF Crash, Underway, Resting
<1> QED BY <1>2, <1>4, <1>5, <1>6 DEF PollInv

LEMMA StepPreserves == PollInv /\ [PollerNext]_pollerVars => PollInv'
<1> SUFFICES ASSUME PollInv, [PollerNext]_pollerVars PROVE PollInv'
  OBVIOUS
<1>1. CASE UNCHANGED pollerVars
  BY <1>1 DEF PollInv, PollerTypeOK, pollerVars, Underway, Covered
<1>2. CASE \E w \in Witnesses, aid \in Aids : Accept(w, aid)
  BY <1>2, AcceptPreserves
<1>3. CASE \E due \in SUBSET Aids : Cycle(due)
  BY <1>3, CyclePreserves
<1>4. CASE \E t \in Requests, aid \in Aids : PollNow(t, aid)
  BY <1>4, PollNowPreserves
<1>5. CASE \E t \in Tasks : Poll(t)
  BY <1>5, AnswerPreserves, SubmitPreserves, FinishPreserves DEF Poll
<1>6. CASE Take
  BY <1>6, TakePreserves
<1>7. CASE \E e \in inHand : Settle(e) \/ SettleFails(e)
  BY <1>7, SettlePreserves
<1>8. CASE \E aid \in Aids : Unwatch(aid) \/ Watch(aid)
  BY <1>8, ListPreserves
<1>9. CASE \E e \in escrow : Expire(e)
  BY <1>9, ExpirePreserves
<1>10. CASE Crash
  BY <1>10, CrashPreserves
<1> QED BY <1>1, <1>2, <1>3, <1>4, <1>5, <1>6, <1>7, <1>8, <1>9, <1>10 DEF PollerNext

-----------------------------------------------------------------------------
(* The variables of the poller keep their types; the queue and the events  *)
(* in hand never exceed what max_event_queue_size and the workers allow.   *)
THEOREM PollerTypes == PollerSpec => []PollerTypeOK
<1>1. PollInv => PollerTypeOK
  BY DEF PollInv
<1> QED BY <1>1, InitHolds, StepPreserves, PTL DEF PollerSpec

(* update_poll_timestamp never takes last_sn past an event that was not    *)
(* put on the queue, whichever polls overlap, fail or are cut short by a   *)
(* full queue or a crash.                                                  *)
THEOREM LastSnIsCovered == PollerSpec => []UpToLastSn
<1>1. PollInv => UpToLastSn
  BY DEF PollInv, UpToLastSn, Covered, Events
<1> QED BY <1>1, InitHolds, StepPreserves, PTL DEF PollerSpec
-----------------------------------------------------------------------------
(* As long as nothing crashes, fails, expires or is unwatched: who is      *)
(* polled is watched, and an event that was submitted is somewhere, or is  *)
(* the rotation the log of its AID stops at.                               *)
Placed(e) ==
    \/ \E i \in DOMAIN queue : queue[i] = e
    \/ e \in inHand \cup escrow
    \/ e.sn <= stored[e.aid]
    \/ NextIsRotation(e)

Kept ==
    faults = 0 =>
        /\ \A t \in Tasks : Underway(t) => polls[t].aid \in enabled
        /\ \A e \in submitted : e.aid \in enabled /\ Placed(e)

(* Nothing is lost without a fault, and a fault ends what Kept says.       *)
LEMMA KeptByFaults ==
    ASSUME PollInv, faults' = faults + 1
    PROVE  Kept'
<1>1. faults \in Nat /\ faults' # 0
  BY PollerConstants DEF PollInv, PollerTypeOK
<1> QED BY <1>1 DEF Kept

(* Steps of witnesses, and of the watch list, on which AIDs stay.          *)
LEMMA KeptElsewhere ==
    ASSUME Kept, enabled \subseteq enabled',
           UNCHANGED <<polls, queue, inHand, stored, escrow, submitted, faults>>
    PROVE  Kept'
BY DEF Kept, Underway, Placed, NextIsRotation

(* Polls start for enabled AIDs and keep to them.                          *)
LEMMA KeptByPolls ==
    ASSUME Kept,
           UNCHANGED <<enabled, queue, inHand, stored, escrow, submitted, faults>>,
           \A t \in Tasks : Underway(t)' =>
               \/ polls'[t].aid \in enabled
               \/ Underway(t) /\ polls'[t].aid = polls[t].aid
    PROVE  Kept'
BY DEF Kept, Placed, NextIsRotation

LEMMA KeptByStarts ==
    ASSUME PollInv, Kept,
           (\E due \in SUBSET Aids : Cycle(due))
               \/ (\E t \in Requests, aid \in Aids : PollNow(t, aid))
    PROVE  Kept'
<1>1. ASSUME NEW due \in SUBSET Aids, Cycle(due) PROVE Kept'
  <2>1. \A t \in Tasks : polls'[t] = IF t \in due THEN Polling(t, lastSn[t]) ELSE polls[t]
    BY <1>1 DEF Cycle
  <2>2. \A t \in due : t \in enabled /\ Polling(t, lastSn[t]).aid = t
    BY <1>1 DEF Cycle, Polling
  <2>3. \A t \in Tasks : Underway(t)' =>
            \/ polls'[t].aid \in enabled
            \/ Underway(t) /\ polls'[t].aid = polls[t].aid
    BY <2>1, <2>2 DEF Underway
  <2> QED BY <1>1, <2>3, KeptByPolls DEF Cycle
<1>2. ASSUME NEW t \in Requests, NEW aid \in Aids, PollNow(t, aid) PROVE Kept'
  <2>1. \A u \in Tasks : polls'[u] = IF u = t THEN Polling(aid, lastSn[aid]) ELSE polls[u]
    BY <1>2 DEF PollNow, PollInv, PollerTypeOK
  <2>2. aid \in enabled /\ Polling(aid, lastSn[aid]).aid = aid
    BY <1>2 DEF PollNow, Polling
  <2>3. \A u \in Tasks : Underway(u)' =>
            \/ polls'[u].aid \in enabled
            \/ Underway(u) /\ polls'[u].aid = polls[u].aid
    BY <2>1, <2>2 DEF Underway
  <2> QED BY <1>2, <2>3, KeptByPolls DEF PollNow
<1> QED BY <1>1, <1>2

(* Of a poll under way each step changes other fields than the AID.        *)
LEMMA SameAid ==
    ASSUME PollInv, NEW t \in Tasks, NEW w \in Witnesses,
           \/ Answer(t, w) \/ FetchFails(t, w) \/ Submit(t, w)
           \/ Finish(t) \/ FinishFails(t)
    PROVE  \A u \in Tasks : Underway(u)' => Underway(u) /\ polls'[u].aid = polls[u].aid
<1>1. Underway(t) /\ polls[t] \in Poll_
  BY DEF PollInv, PollerTypeOK, Answer, FetchFails, Submit, Answered, Finish, FinishFails,
         Fetched, Resting, Underway
<1>2. CASE Finish(t) \/ FinishFails(t)
  BY <1>2 DEF Finish, FinishFails, Resting, Underway, PollInv, PollerTypeOK
<1>3. CASE FetchFails(t, w)
  BY <1>1, <1>3 DEF FetchFails, Underway, PollInv, PollerTypeOK, Poll_
<1>4. CASE Answer(t, w)
  <2>1. PICK a : polls' = [polls EXCEPT ![t] = [polls[t] EXCEPT !.asked = @ \ {w},
                                                               !.answered = a]]
    BY <1>1, <1>4 DEF Answer, PollInv, PollerTypeOK
  <2> QED BY <1>1, <2>1 DEF Underway, PollInv, PollerTypeOK, Poll_
<1>5. CASE Submit(t, w)
  <2>1. PICK a, m : polls' = [polls EXCEPT ![t] = [polls[t] EXCEPT !.answered = a, !.max = m]]
    BY <1>1, <1>5 DEF Submit, Settled, PollInv, PollerTypeOK
  <2> QED BY <1>1, <2>1 DEF Underway, PollInv, PollerTypeOK, Poll_
<1> QED BY <1>2, <1>3, <1>4, <1>5

LEMMA KeptBySubmit ==
    ASSUME PollInv, Kept, NEW t \in Tasks, NEW w \in Witnesses, Submit(t, w)
    PROVE  Kept'
<1> SUFFICES ASSUME faults = 0
             PROVE  /\ \A u \in Tasks : Underway(u)' => polls'[u].aid \in enabled'
                    /\ \A e \in submitted' : e.aid \in enabled' /\ Placed(e)'
  BY DEF Kept, Submit
<1>1. PICK batch : batch = Batch(t, w)
  OBVIOUS
<1>2. /\ Answered(t, w) /\ Underway(t)
      /\ queue' = queue \o batch
      /\ submitted' = submitted \cup {batch[i] : i \in DOMAIN batch}
      /\ UNCHANGED <<enabled, inHand, stored, escrow>>
  BY <1>1 DEF Submit, Answered, Underway
<1>3. /\ batch \in Seq(Events)
      /\ \A i \in 1 .. Len(batch) : batch[i].aid = polls[t].aid
  <2>1. /\ batch \in Seq(Events)
        /\ \A i \in 1 .. Len(batch) :
              batch[i] = [aid |-> polls[t].aid,
                          sn |-> (IF polls[t].from < 0 THEN 0 ELSE polls[t].from) + i - 1]
    BY <1>1, <1>2, BatchFits DEF PollInv
  <2>2. ASSUME NEW i \in 1 .. Len(batch) PROVE batch[i].aid = polls[t].aid
    <3>1. PICK k : batch[i] = [aid |-> polls[t].aid, sn |-> k]
      BY <2>1
    <3> QED BY <3>1
  <2> QED BY <2>1, <2>2
<1>4. queue \in Seq(Events) /\ Len(queue) \in Nat /\ Len(batch) \in Nat
      /\ DOMAIN queue = 1 .. Len(queue) /\ DOMAIN batch = 1 .. Len(batch)
  BY <1>3, LenProperties DEF PollInv, PollerTypeOK
<1>5. /\ queue' \in Seq(Events) /\ Len(queue') = Len(queue) + Len(batch)
      /\ DOMAIN queue' = 1 .. (Len(queue) + Len(batch))
      /\ \A i \in 1 .. Len(queue) : queue'[i] = queue[i]
      /\ \A i \in 1 .. Len(batch) : queue'[Len(queue) + i] = batch[i]
  <2>1. /\ queue \o batch \in Seq(Events) /\ Len(queue \o batch) = Len(queue) + Len(batch)
        /\ \A i \in 1 .. Len(queue) + Len(batch) :
              (queue \o batch)[i] = IF i <= Len(queue) THEN queue[i] ELSE batch[i - Len(queue)]
    BY <1>3, <1>4, ConcatProperties
  <2>2. DOMAIN (queue \o batch) = 1 .. (Len(queue) + Len(batch))
    BY <2>1, LenProperties
  <2> QED BY <1>2, <1>4, <2>1, <2>2
<1>6. \A e : (\E i \in DOMAIN queue : queue[i] = e) => (\E i \in DOMAIN queue' : queue'[i] = e)
  BY <1>4, <1>5
<1>7. \A i \in DOMAIN batch : \E j \in DOMAIN queue' : queue'[j] = batch[i]
  <2> SUFFICES ASSUME NEW i \in 1 .. Len(batch) PROVE \E j \in DOMAIN queue' : queue'[j] = batch[i]
    BY <1>4
  <2>1. Len(queue) + i \in DOMAIN queue' /\ queue'[Len(queue) + i] = batch[i]
    BY <1>4, <1>5
  <2> QED BY <2>1
<1>8. polls[t].aid \in enabled
  BY <1>2 DEF Kept
<1>9. ASSUME NEW e \in submitted' PROVE e.aid \in enabled' /\ Placed(e)'
  <2>1. CASE e \in submitted
    BY <1>2, <1>6, <2>1 DEF Kept, Placed, NextIsRotation
  <2>2. CASE e \notin submitted
    <3>1. PICK i \in DOMAIN batch : e = batch[i]
      BY <1>2, <2>2
    <3>2. e.aid \in enabled
      BY <1>3, <1>4, <1>8, <3>1
    <3>3. \E j \in DOMAIN queue' : queue'[j] = e
      BY <1>7, <3>1
    <3> QED BY <1>2, <3>2, <3>3 DEF Placed
  <2> QED BY <2>1, <2>2
<1>10. \A u \in Tasks : Underway(u)' => polls'[u].aid \in enabled'
  BY <1>2, SameAid DEF Kept
<1> QED BY <1>9, <1>10

LEMMA KeptByTake == PollInv /\ Kept /\ Take => Kept'
<1> SUFFICES ASSUME PollInv, Kept, Take, faults = 0
             PROVE  /\ \A t \in Tasks : Underway(t)' => polls'[t].aid \in enabled'
                    /\ \A e \in submitted' : e.aid \in enabled' /\ Placed(e)'
  BY DEF Kept, Take
<1>1. queue \in Seq(Events) /\ queue # <<>> /\ queue' = Tail(queue)
  BY DEF PollInv, PollerTypeOK, Take
<1>2. /\ Len(queue) \in Nat /\ DOMAIN queue = 1 .. Len(queue)
      /\ DOMAIN queue' = 1 .. (Len(queue) - 1) /\ Head(queue) = queue[1]
      /\ \A i \in 1 .. (Len(queue) - 1) : queue'[i] = queue[i + 1]
  <2>1. Len(queue) \in Nat \ {0} /\ DOMAIN queue = 1 .. Len(queue)
    BY <1>1, LenProperties, EmptySeq
  <2>2. /\ Tail(queue) \in Seq(Events) /\ Len(Tail(queue)) = Len(queue) - 1
        /\ \A i \in 1 .. Len(Tail(queue)) : Tail(queue)[i] = queue[i + 1]
    BY <1>1, HeadTailProperties
  <2>3. DOMAIN Tail(queue) = 1 .. (Len(queue) - 1)
    BY <2>2, LenProperties
  <2> QED BY <1>1, <2>1, <2>2, <2>3
<1>3. ASSUME NEW e, NEW i \in DOMAIN queue, queue[i] = e
      PROVE  e \in inHand' \/ \E j \in DOMAIN queue' : queue'[j] = e
  <2>1. CASE i = 1
    BY <1>2, <1>3, <2>1 DEF Take
  <2>2. CASE i # 1
    <3>1. i - 1 \in DOMAIN queue' /\ queue'[i - 1] = e
      BY <1>2, <1>3, <2>2
    <3> QED BY <3>1
  <2> QED BY <2>1, <2>2
<1>4. ASSUME NEW e \in submitted' PROVE e.aid \in enabled' /\ Placed(e)'
  BY <1>3, <1>4 DEF Kept, Placed, NextIsRotation, Take
<1> QED BY <1>4 DEF Kept, Take, Underway

(* What an event that was placed needs to stay so, when e leaves the hands *)
(* of the processor.                                                       *)
LEMMA StaysPlaced ==
    ASSUME NEW e, NEW x, Placed(x), queue' = queue, inHand' = inHand \ {e},
           x = e => x \in escrow' \/ x.sn <= stored'[x.aid] \/ NextIsRotation(x)',
           x \in escrow => x \in escrow' \/ x.sn <= stored'[x.aid],
           x.sn <= stored[x.aid] => x.sn <= stored'[x.aid],
           NextIsRotation(x) => NextIsRotation(x)'
    PROVE  Placed(x)'
BY DEF Placed

(* An event that is done with is known, escrowed, stored, or a rotation    *)
(* that is refused; those it wakes are stored with it.  No step takes the  *)
(* log past the rotation that comes next.                                  *)
LEMMA KeptBySettle ==
    ASSUME PollInv, Kept, NEW e \in inHand, Settle(e)
    PROVE  Kept'
<1> SUFFICES ASSUME faults = 0
             PROVE  /\ \A t \in Tasks : Underway(t)' => polls'[t].aid \in enabled'
                    /\ \A x \in submitted' : x.aid \in enabled' /\ Placed(x)'
  BY DEF Kept, Settle
<1>1. /\ inHand' = inHand \ {e}
      /\ UNCHANGED <<enabled, polls, queue, submitted>>
  BY DEF Settle
<1>2. /\ e.aid \in Aids /\ e.sn \in 0 .. MaxSn /\ MaxSn \in Nat
      /\ stored \in [Aids -> Sns] /\ submitted \subseteq Events
  BY PollerConstants DEF PollInv, PollerTypeOK, Events
<1>3. ASSUME NEW x \in submitted PROVE x.aid \in enabled /\ Placed(x)'
  <2>1. x.aid \in enabled /\ Placed(x) /\ x.aid \in Aids /\ x.sn \in 0 .. MaxSn
        /\ stored[x.aid] \in -1 .. MaxSn
    BY <1>2 DEF Kept, Events, Sns
  <2>2. CASE /\ \/ e.aid \notin enabled \/ e.sn <= stored[e.aid]
                \/ IsRotation(e) /\ e.sn = stored[e.aid] + 1
             /\ UNCHANGED <<stored, escrow>>
    <3>1. x = e => x.sn <= stored'[x.aid] \/ NextIsRotation(x)'
      BY <2>1, <2>2 DEF NextIsRotation, IsRotation
    <3>2. NextIsRotation(x) => NextIsRotation(x)'
      BY <2>2 DEF NextIsRotation, IsRotation
    <3> QED BY <1>1, <2>1, <2>2, <3>1, <3>2, StaysPlaced
  <2>3. CASE escrow' = escrow \cup {e} /\ UNCHANGED stored
    <3>1. NextIsRotation(x) => NextIsRotation(x)'
      BY <2>3 DEF NextIsRotation, IsRotation
    <3> QED BY <1>1, <2>1, <2>3, <3>1, StaysPlaced
  <2>4. ASSUME NEW n \in e.sn .. MaxSn, e.sn = stored[e.aid] + 1, ~IsRotation(e),
               stored' = [stored EXCEPT ![e.aid] = n],
               escrow' = escrow \ {[aid |-> e.aid, sn |-> k] : k \in e.sn + 1 .. n}
        PROVE  Placed(x)'
    <3>1. stored'[e.aid] = n /\ e.sn <= n /\ stored[e.aid] \in -1 .. n
      BY <1>2, <2>4 DEF Sns
    <3>2. x.aid # e.aid => stored'[x.aid] = stored[x.aid]
      BY <1>2, <2>1, <2>4
    <3>3. x.sn <= stored[x.aid] => x.sn <= stored'[x.aid]
      BY <1>2, <2>1, <3>1, <3>2
    <3>4. x = e => x.sn <= stored'[x.aid]
      BY <3>1
    <3>5. ASSUME x \in escrow, x \notin escrow' PROVE x.sn <= stored'[x.aid]
      <4>1. PICK k \in e.sn + 1 .. n : x = [aid |-> e.aid, sn |-> k]
        BY <2>4, <3>5
      <4>2. x.aid = e.aid /\ x.sn = k /\ k <= n
        BY <1>2, <4>1
      <4> QED BY <3>1, <4>2
    <3>6. ASSUME NextIsRotation(x) PROVE NextIsRotation(x)'
      <4>1. x \in Events /\ e \in Events
        BY <1>2 DEF PollInv, PollerTypeOK
      <4>2. x.aid # e.aid
        BY <2>4, <3>6, <4>1 DEF NextIsRotation, IsRotation, Events
      <4> QED BY <3>2, <3>6, <4>2 DEF NextIsRotation, IsRotation
    <3> QED BY <1>1, <2>1, <3>3, <3>4, <3>5, <3>6, StaysPlaced
  <2> QED BY <2>1, <2>2, <2>3, <2>4 DEF Settle
<1> QED BY <1>1, <1>3 DEF Kept, Underway

LEMMA KeptByStep == PollInv /\ Kept /\ [PollerNext]_pollerVars => Kept'
<1> SUFFICES ASSUME PollInv, Kept, [PollerNext]_pollerVars PROVE Kept'
  OBVIOUS
<1>1. CASE UNCHANGED pollerVars
  BY <1>1, KeptElsewhere DEF pollerVars
<1>2. CASE \E w \in Witnesses, aid \in Aids : Accept(w, aid)
  BY <1>2, KeptElsewhere DEF Accept
<1>3. CASE \/ \E due \in SUBSET Aids : Cycle(due)
           \/ \E t \in Requests, aid \in Aids : PollNow(t, aid)
  BY <1>3, KeptByStarts
<1>4. ASSUME NEW t \in Tasks, NEW w \in Witnesses, Answer(t, w) \/ FetchFails(t, w)
      PROVE  Kept'
  BY <1>4, SameAid, KeptByPolls DEF Answer, FetchFails
<1>5. ASSUME NEW t \in Tasks, Finish(t) \/ FinishFails(t) PROVE Kept'
  <2>1. polls' = [polls EXCEPT ![t] = Resting]
    BY <1>5 DEF Finish, FinishFails
  <2>2. \A u \in Tasks : Underway(u)' => Underway(u) /\ polls'[u].aid = polls[u].aid
    BY <2>1 DEF Underway, Resting, PollInv, PollerTypeOK
  <2> QED BY <1>5, <2>2, KeptByPolls DEF Finish, FinishFails
<1>6. CASE \E t \in Tasks : Poll(t)
  BY <1>4, <1>5, <1>6, KeptBySubmit DEF Poll
<1>7. CASE Take
  BY <1>7, KeptByTake
<1>8. CASE \E e \in inHand : Settle(e)
  BY <1>8, KeptBySettle
<1>9. CASE \E e \in inHand : SettleFails(e)
  BY <1>9, KeptByFaults DEF SettleFails
<1>10. CASE \E aid \in Aids : Watch(aid)
  BY <1>10, KeptElsewhere DEF Watch
<1>11. CASE (\E aid \in Aids : Unwatch(aid)) \/ (\E e \in escrow : Expire(e)) \/ Crash
  BY <1>11, KeptByFaults DEF Unwatch, Expire, Crash
<1> QED BY <1>1, <1>2, <1>3, <1>6, <1>7, <1>8, <1>9, <1>10, <1>11 DEF PollerNext

(* As long as nothing crashes, fails, expires or leaves the list, no event *)
(* up to last_sn is lost on its way from the poll to the log, but for the  *)
(* rotation that comes next.                                               *)
THEOREM NothingIsLost == PollerSpec => []NothingSkipped
<1>1. PollerInit => Kept
  BY DEF PollerInit, Kept, Underway, Resting
<1>2. PollInv /\ Kept => NothingSkipped
  BY DEF PollInv, Covered, Kept, Placed, NothingSkipped, Events
<1> QED BY <1>1, <1>2, InitHolds, StepPreserves, KeptByStep, PTL DEF PollerSpec

-----------------------------------------------------------------------------
(* The watch list.                                                         *)

Busy(r) == calls[r].pc # "idle"

AgreeOrParted(aid) == Agree(aid) \/ aid \in parted

(* What a call that is alone with its AID will leave.                      *)
Settles(c) ==
    /\ c.pc = "table" => AgreeOrParted(c.aid)
    /\ c.pc = "cache" /\ c.op = "watch" =>
          Enabled(c.aid) /\ table[c.aid].wits = c.wits
    /\ c.pc = "cache" /\ c.op = "unwatch" => ~Enabled(c.aid)
    /\ c.pc = "cache" /\ c.op = "update" =>
          \/ c.aid \in parted
          \/ /\ Cached(c.aid) <=> Enabled(c.aid)
             /\ Enabled(c.aid) => table[c.aid].wits = c.wits

AloneCalls ==
    \A r \in Callers : Busy(r) /\ calls[r].alone =>
        InFlight(calls[r].aid) = {r} /\ Settles(calls[r])

ListInv == ListTypeOK /\ AloneCalls /\ PartedOnlyByOverlap

-----------------------------------------------------------------------------
LEMMA ListInitHolds == ListInit => ListInv
<1> SUFFICES ASSUME ListInit PROVE ListInv
  OBVIOUS
<1>1. ListTypeOK
  BY WatchListConstants DEF ListInit, ListTypeOK, Rows, Absent
<1>2. AloneCalls
  BY DEF ListInit, AloneCalls, Busy, Idle
<1>3. PartedOnlyByOverlap
  BY DEF ListInit, PartedOnlyByOverlap, Agree, Cached, Enabled, Absent
<1> QED BY <1>1, <1>2, <1>3 DEF ListInv

(* Letting a call in: the calls of its AID are no longer alone.            *)
LEMMA EnterPreserves ==
    ASSUME ListInv, NEW r \in Callers, NEW op \in Ops, NEW aid \in ListAids,
           NEW wits \in WitnessLists, Enter(r, op, aid, wits)
    PROVE  ListInv'
<1> DEFINE call == [op |-> op, aid |-> aid, wits |-> wits, pc |-> "table",
                    alone |-> InFlight(aid) = {}]
<1>1. UNCHANGED <<table, cache, parted, restarts>> /\ ~Busy(r)
  BY DEF Enter, Busy
<1>2. call \in Call
  <2>1. PICK b \in BOOLEAN : b = (InFlight(aid) = {})
    OBVIOUS
  <2>2. call = [op |-> op, aid |-> aid, wits |-> wits, pc |-> "table", alone |-> b]
    BY <2>1
  <2> HIDE DEF call
  <2> QED BY <2>2 DEF Call
<1>3. \A q \in Callers : calls'[q] = IF q = r THEN call
                                   ELSE IF q \in InFlight(aid)
                                   THEN [calls[q] EXCEPT !.alone = FALSE] ELSE calls[q]
  BY DEF Enter
<1>4. \A q \in Callers : q \in InFlight(aid) => calls[q] \in Call
  BY DEF ListInv, ListTypeOK, InFlight, Idle
<1> HIDE DEF call
<1>5. calls' \in [Callers -> Call \cup {Idle}]
  <2>1. \A q \in Callers : q \in InFlight(aid) => [calls[q] EXCEPT !.alone = FALSE] \in Call
    BY <1>4 DEF Call
  <2>2. \A q \in Callers : calls'[q] \in Call \cup {Idle}
    BY <1>2, <1>3, <2>1 DEF ListInv, ListTypeOK
  <2>3. calls' = [q \in Callers |-> calls'[q]]
    BY DEF Enter
  <2> QED BY <2>2, <2>3
<1>6. ListTypeOK'
  BY <1>1, <1>5, WatchListConstants DEF ListInv, ListTypeOK, Enter
<1>7. /\ calls'[r] = call /\ call.aid = aid /\ call.pc = "table" /\ call.op = op
      /\ call.alone <=> InFlight(aid) = {}
  BY <1>3 DEF call
<1>8. ASSUME NEW q \in Callers, q # r
      PROVE  /\ calls'[q].pc = calls[q].pc
             /\ Busy(q) => calls'[q].aid = calls[q].aid
             /\ q \in InFlight(aid) => ~calls'[q].alone
             /\ q \notin InFlight(aid) => calls'[q] = calls[q]
  BY <1>3, <1>4, <1>8 DEF Call, Busy
<1>9. ASSUME NEW a \in ListAids PROVE InFlight(a)' = IF a = aid THEN InFlight(a) \cup {r}
                                                   ELSE InFlight(a)
  BY <1>1, <1>7, <1>8 DEF InFlight, Busy
<1>10. ASSUME NEW q \in Callers, Busy(q)', calls'[q].alone
       PROVE  (InFlight(calls[q].aid) = {q} /\ Settles(calls[q]))'
  <2>1. CASE q = r
    <3>1. InFlight(aid) = {} /\ AgreeOrParted(aid)
      BY <1>7, <1>10, <2>1 DEF ListInv, PartedOnlyByOverlap, AgreeOrParted
    <3>2. AgreeOrParted(aid)'
      BY <1>1, <3>1 DEF AgreeOrParted, Agree, Cached, Enabled
    <3> QED BY <1>7, <1>9, <2>1, <3>1, <3>2 DEF Settles
  <2>2. CASE q # r
    <3>1. q \notin InFlight(aid) /\ calls'[q] = calls[q]
      BY <1>8, <1>10, <2>2
    <3>2. Busy(q) /\ calls[q].alone /\ calls[q].aid \in ListAids /\ calls[q].aid # aid
      BY <1>10, <3>1 DEF Busy, InFlight, ListInv, ListTypeOK, Call, Idle
    <3>3. InFlight(calls[q].aid) = {q} /\ Settles(calls[q])
      BY <3>2 DEF ListInv, AloneCalls
    <3> QED BY <1>1, <1>9, <3>1, <3>2, <3>3
            DEF Settles, AgreeOrParted, Agree, Cached, Enabled
  <2> QED BY <2>1, <2>2
<1>11. PartedOnlyByOverlap'
  BY <1>1, <1>9 DEF ListInv, PartedOnlyByOverlap, Agree, Cached, Enabled
<1> QED BY <1>6, <1>10, <1>11 DEF ListInv, AloneCalls

-----------------------------------------------------------------------------
(* A call that is busy is one of its kind.                                 *)
LEMMA BusyCall ==
    ASSUME ListInv, NEW r \in Callers, Busy(r)
    PROVE  calls[r] \in Call /\ calls[r].aid \in ListAids
BY DEF ListInv, ListTypeOK, Busy, Idle, Call

LEMMA WrittenRow ==
    ASSUME ListInv, NEW r \in Callers, Busy(r)
    PROVE  Written(calls[r]) \in Rows
<1>1. calls[r] \in Call
  BY BusyCall
<1>2. table[calls[r].aid] \in Rows
  BY <1>1 DEF ListInv, ListTypeOK, Call
<1> QED BY <1>1, <1>2 DEF Written, Rows, Call, Absent, Ops

LEMMA TablePreserves ==
    ASSUME ListInv, NEW r \in Callers, WriteTable(r)
    PROVE  ListInv'
<1>0. PICK c \in Call : c = calls[r] /\ c.aid \in ListAids
  BY BusyCall DEF WriteTable, Busy
<1>1. Busy(r) /\ c.pc = "table" /\ Written(c) \in Rows
  BY <1>0, WrittenRow DEF WriteTable, Busy
<1>2. /\ UNCHANGED <<cache, parted, admitted, restarts>>
      /\ table' = [table EXCEPT ![c.aid] = Written(c)]
      /\ calls' = [calls EXCEPT ![r] = [c EXCEPT !.pc = "cache"]]
  BY <1>0 DEF WriteTable, ListInv, ListTypeOK
<1>3. ListTypeOK'
  <2>1. [c EXCEPT !.pc = "cache"] \in Call
    BY <1>0, <1>1 DEF Call
  <2> QED BY <1>0, <1>1, <1>2, <2>1 DEF ListInv, ListTypeOK
<1>4. \A a \in ListAids : table'[a] = IF a = c.aid THEN Written(c) ELSE table[a]
  BY <1>2 DEF ListInv, ListTypeOK
<1>5. \A q \in Callers : calls'[q] = IF q = r THEN [c EXCEPT !.pc = "cache"] ELSE calls[q]
  BY <1>2 DEF ListInv, ListTypeOK
<1>6. /\ calls'[r].aid = c.aid /\ calls'[r].pc = "cache" /\ calls'[r].op = c.op
      /\ calls'[r].wits = c.wits /\ calls'[r].alone = c.alone
  BY <1>0, <1>1, <1>5 DEF Call
<1>7. \A a : InFlight(a)' = InFlight(a)
  BY <1>0, <1>1, <1>5, <1>6 DEF InFlight
<1>8. ASSUME NEW q \in Callers, Busy(q)', calls'[q].alone
      PROVE  (InFlight(calls[q].aid) = {q} /\ Settles(calls[q]))'
  <2>1. CASE q = r
    <3>1. InFlight(c.aid) = {r} /\ AgreeOrParted(c.aid)
      BY <1>0, <1>1, <1>6, <1>8, <2>1 DEF ListInv, AloneCalls, Settles
    <3>2. c.op = "watch" => Enabled(c.aid)' /\ table'[c.aid].wits = c.wits
      BY <1>0, <1>1, <1>4 DEF Written, Enabled
    <3>3. c.op = "unwatch" => ~Enabled(c.aid)'
      BY <1>0, <1>1, <1>4 DEF Written, Enabled, Absent, Rows, ListInv, ListTypeOK
    <3>4. ASSUME c.op = "update", c.aid \notin parted
          PROVE  /\ Cached(c.aid)' <=> Enabled(c.aid)'
                 /\ Enabled(c.aid)' => table'[c.aid].wits = c.wits
      <4>1. Cached(c.aid) <=> Enabled(c.aid)
        BY <3>1, <3>4 DEF AgreeOrParted, Agree
      <4>2. table[c.aid] \in Rows /\ table'[c.aid] = Written(c)
        BY <1>0, <1>1, <1>4 DEF ListInv, ListTypeOK
      <4>3. CASE table[c.aid] = Absent
        BY <1>2, <3>4, <4>1, <4>2, <4>3 DEF Written, Enabled, Cached, Absent
      <4>4. CASE table[c.aid] # Absent
        <5>1. table'[c.aid] = [table[c.aid] EXCEPT !.wits = c.wits]
          BY <3>4, <4>2, <4>4 DEF Written
        <5>2. /\ table'[c.aid].state = table[c.aid].state
              /\ table'[c.aid].wits = c.wits
          BY <4>2, <4>4, <5>1 DEF Rows
        <5> QED BY <1>2, <4>1, <5>2 DEF Enabled, Cached
      <4> QED BY <4>3, <4>4
    <3> QED BY <1>2, <1>6, <1>7, <2>1, <3>1, <3>2, <3>3, <3>4 DEF Settles
  <2>2. CASE q # r
    <3>1. calls'[q] = calls[q] /\ Busy(q) /\ calls[q].alone
      BY <1>5, <1>8, <2>2 DEF Busy
    <3>2. InFlight(calls[q].aid) = {q} /\ Settles(calls[q]) /\ calls[q].aid \in ListAids
      BY <3>1, BusyCall DEF ListInv, AloneCalls
    <3>3. calls[q].aid # c.aid
      BY <1>0, <1>1, <2>2, <3>2 DEF InFlight, Busy
    <3>4. \A a \in ListAids \ {c.aid} :
              /\ table'[a] = table[a]
              /\ Enabled(a)' <=> Enabled(a)
              /\ Cached(a)' <=> Cached(a)
              /\ AgreeOrParted(a)' <=> AgreeOrParted(a)
      BY <1>2, <1>4 DEF Enabled, Cached, Agree, AgreeOrParted
    <3>5. PICK d \in Call : d = calls[q] /\ d.aid \in ListAids \ {c.aid}
      BY <3>1, <3>2, <3>3, BusyCall
    <3>6. Settles(d)
      BY <3>2, <3>5
    <3>7. /\ table'[d.aid] = table[d.aid]
          /\ Enabled(d.aid)' <=> Enabled(d.aid)
          /\ Cached(d.aid)' <=> Cached(d.aid)
          /\ AgreeOrParted(d.aid)' <=> AgreeOrParted(d.aid)
          /\ parted' = parted
      BY <1>2, <3>4, <3>5
    <3>8. Settles(d)'
      BY <3>6, <3>7 DEF Settles
    <3>9. InFlight(d.aid)' = {q}
      BY <1>7, <3>2, <3>5
    <3> QED BY <3>1, <3>5, <3>8, <3>9
  <2> QED BY <2>1, <2>2
<1>9. PartedOnlyByOverlap'
  <2> SUFFICES ASSUME NEW a \in ListAids, InFlight(a)' = {}
               PROVE  (Agree(a) \/ a \in parted)'
    BY DEF PartedOnlyByOverlap
  <2>1. a # c.aid
    BY <1>0, <1>1, <1>7 DEF InFlight, Busy
  <2> QED BY <1>2, <1>4, <1>7, <2>1 DEF ListInv, PartedOnlyByOverlap, Agree, Cached, Enabled
<1> QED BY <1>3, <1>8, <1>9 DEF ListInv, AloneCalls

(* A call that leaves: what holds of the other AIDs stays as it is.        *)
LEMMA Leaves ==
    ASSUME ListInv, NEW r \in Callers, Busy(r), NEW aid \in ListAids, calls[r].aid = aid,
           calls' = [calls EXCEPT ![r] = Idle],
           ListTypeOK',
           \A a \in ListAids \ {aid} :
               /\ table'[a] = table[a]
               /\ a \in DOMAIN cache' <=> a \in DOMAIN cache
               /\ a \in DOMAIN cache => cache'[a] = cache[a]
               /\ a \in parted' <=> a \in parted,
           AgreeOrParted(aid)'
    PROVE  ListInv'
<1>1. calls[r] \in Call
  BY BusyCall
<1>2. \A q \in Callers : calls'[q] = IF q = r THEN Idle ELSE calls[q]
  BY DEF ListInv, ListTypeOK
<1>3. \A a : InFlight(a)' = InFlight(a) \ {r}
  BY <1>2 DEF InFlight, Idle
<1>4. \A a \in ListAids \ {aid} :
          /\ Enabled(a)' <=> Enabled(a)
          /\ Cached(a)' <=> Cached(a)
          /\ Agree(a)' <=> Agree(a)
          /\ AgreeOrParted(a)' <=> AgreeOrParted(a)
  BY DEF Enabled, Cached, Agree, AgreeOrParted
<1>5. ASSUME NEW q \in Callers, Busy(q)', calls'[q].alone
      PROVE  (InFlight(calls[q].aid) = {q} /\ Settles(calls[q]))'
  <2>1. q # r /\ calls'[q] = calls[q] /\ Busy(q) /\ calls[q].alone
    BY <1>2, <1>5 DEF Busy, Idle
  <2>2. InFlight(calls[q].aid) = {q} /\ Settles(calls[q]) /\ calls[q].aid \in ListAids
    BY <2>1, BusyCall DEF ListInv, AloneCalls
  <2>3. calls[q].aid # aid
    BY <2>1, <2>2 DEF InFlight, Busy
  <2>4. Settles(calls[q])'
    BY <1>4, <2>1, <2>2, <2>3 DEF Settles
  <2> QED BY <1>3, <2>1, <2>2, <2>4
<1>6. ASSUME NEW a \in ListAids, InFlight(a)' = {}
      PROVE  (Agree(a) \/ a \in parted)'
  <2>1. CASE a = aid
    <3>1. r \in InFlight(a)
      BY <2>1 DEF InFlight, Busy
    <3>2. InFlight(a) = {r}
      BY <1>3, <1>6, <3>1
    <3> QED BY <2>1, <3>2 DEF AgreeOrParted
  <2>2. CASE a # aid
    <3>1. InFlight(a) = {}
      BY <1>3, <1>6, <2>2 DEF InFlight
    <3> QED BY <1>4, <2>2, <3>1 DEF ListInv, PartedOnlyByOverlap
  <2> QED BY <2>1, <2>2
<1> QED BY <1>5, <1>6 DEF ListInv, AloneCalls, PartedOnlyByOverlap

LEMMA FailurePreserves ==
    ASSUME ListInv, NEW r \in Callers, TableFails(r)
    PROVE  ListInv'
<1>0. PICK c \in Call : c = calls[r] /\ c.aid \in ListAids
  BY BusyCall DEF TableFails, Busy
<1>1. Busy(r) /\ Written(c) \in Rows
  BY <1>0, WrittenRow DEF TableFails, Busy
<1>2. /\ calls' = [calls EXCEPT ![r] = Idle]
      /\ parted' = parted \cup {c.aid}
      /\ UNCHANGED <<cache, admitted, restarts>>
      /\ table' \in {table, [table EXCEPT ![c.aid] = Written(c)]}
  BY <1>0 DEF TableFails
<1>3. ListTypeOK'
  BY <1>0, <1>1, <1>2 DEF ListInv, ListTypeOK
<1>4. \A a \in ListAids \ {c.aid} : table'[a] = table[a]
  BY <1>2 DEF ListInv, ListTypeOK
<1> QED BY <1>0, <1>1, <1>2, <1>3, <1>4, Leaves DEF AgreeOrParted

LEMMA CachePreserves ==
    ASSUME ListInv, NEW r \in Callers, WriteCache(r)
    PROVE  ListInv'
<1>0. PICK c \in Call : c = calls[r] /\ c.aid \in ListAids
  BY BusyCall DEF WriteCache, Busy
<1>1. Busy(r) /\ c.pc = "cache" /\ c.op \in Ops /\ c.wits \in WitnessLists
  BY <1>0 DEF WriteCache, Busy, Call
<1>2. /\ cache' = Remembered(c)
      /\ calls' = [calls EXCEPT ![r] = Idle]
      /\ parted' = IF ~c.alone THEN parted \cup {c.aid}
                   ELSE IF c.op = "update" THEN parted ELSE parted \ {c.aid}
      /\ UNCHANGED <<table, admitted, restarts>>
  BY <1>0 DEF WriteCache
<1>3. c.op = "watch" \/ c.op = "unwatch" \/ c.op = "update"
  BY <1>0, <1>1 DEF Ops
<1>4. /\ DOMAIN cache' = (IF c.op = "unwatch" THEN DOMAIN cache \ {c.aid}
                          ELSE IF c.op = "watch" THEN DOMAIN cache \cup {c.aid}
                          ELSE DOMAIN cache)
      /\ \A a \in DOMAIN cache' :
            cache'[a] = IF a = c.aid THEN c.wits ELSE cache[a]
  BY <1>2, <1>3 DEF Remembered
<1>5. ListTypeOK'
  <2>1. DOMAIN cache' \subseteq ListAids /\ \A a \in DOMAIN cache' : cache'[a] \in WitnessLists
    BY <1>0, <1>1, <1>4 DEF ListInv, ListTypeOK
  <2>2. calls' \in [Callers -> Call \cup {Idle}] /\ parted' \subseteq ListAids
    BY <1>0, <1>1, <1>2 DEF ListInv, ListTypeOK
  <2> QED BY <1>2, <2>1, <2>2 DEF ListInv, ListTypeOK
<1>6. ASSUME c.alone PROVE AgreeOrParted(c.aid)'
  <2>1. Settles(c)
    BY <1>0, <1>1, <1>6 DEF ListInv, AloneCalls
  <2>2. Enabled(c.aid)' <=> Enabled(c.aid)
    BY <1>2 DEF Enabled
  <2>3. CASE c.op = "watch"
    BY <1>0, <1>1, <1>2, <1>4, <2>1, <2>2, <2>3 DEF Settles, AgreeOrParted, Agree, Cached
  <2>4. CASE c.op = "unwatch"
    BY <1>0, <1>1, <1>2, <1>4, <2>1, <2>2, <2>4 DEF Settles, AgreeOrParted, Agree, Cached
  <2>5. CASE c.op = "update"
    <3>1. CASE c.aid \in parted
      BY <1>2, <1>6, <2>5, <3>1 DEF AgreeOrParted
    <3>2. CASE c.aid \notin parted
      BY <1>0, <1>1, <1>2, <1>4, <2>1, <2>2, <2>5, <3>2 DEF Settles, AgreeOrParted, Agree, Cached
    <3> QED BY <3>1, <3>2
  <2> QED BY <1>3, <2>3, <2>4, <2>5
<1>7. ~c.alone => c.aid \in parted'
  BY <1>2
<1>8. \A a \in ListAids \ {c.aid} :
          /\ table'[a] = table[a]
          /\ a \in DOMAIN cache' <=> a \in DOMAIN cache
          /\ a \in DOMAIN cache => cache'[a] = cache[a]
          /\ a \in parted' <=> a \in parted
  <2>1. \A a \in ListAids \ {c.aid} : a \in parted' <=> a \in parted
    BY <1>2
  <2> QED BY <1>2, <1>4, <2>1
<1>9. AgreeOrParted(c.aid)'
  BY <1>6, <1>7 DEF AgreeOrParted
<1>10. c.alone \/ c.aid \in parted'
  BY <1>7
<1> QED BY <1>0, <1>1, <1>2, <1>5, <1>8, <1>9, <1>10, Leaves

-----------------------------------------------------------------------------
(* What load_cache reads agrees with the table it was read from.           *)
LEMMA RestartPreserves == ListInv /\ Restart => ListInv'
<1> SUFFICES ASSUME ListInv, Restart PROVE ListInv'
  OBVIOUS
<1>1. PICK S \in Loads : /\ cache' = [aid \in S |-> table[aid].wits]
                         /\ parted' = EnabledAids \ S
  BY DEF Restart
<1>2. /\ calls' = [r \in Callers |-> Idle]
      /\ UNCHANGED <<table, admitted>>
      /\ restarts' = restarts + 1 /\ restarts < MaxRestarts
  BY DEF Restart
<1>3. S \subseteq EnabledAids /\ EnabledAids \subseteq ListAids
  BY DEF Loads, EnabledAids
<1>4. \A aid \in S : Enabled(aid) /\ table[aid].wits \in WitnessLists
  <2> SUFFICES ASSUME NEW aid \in S PROVE Enabled(aid) /\ table[aid].wits \in WitnessLists
    OBVIOUS
  <2>1. Enabled(aid) /\ table[aid] \in Rows
    BY <1>3 DEF EnabledAids, ListInv, ListTypeOK
  <2> QED BY <2>1 DEF Enabled, Rows, Absent
<1>5. ListTypeOK'
  <2>1. restarts' \in 0 .. MaxRestarts
    BY <1>2, WatchListConstants DEF ListInv, ListTypeOK
  <2> QED BY <1>1, <1>2, <1>3, <1>4, <2>1 DEF ListInv, ListTypeOK
<1>6. AloneCalls'
  BY <1>2 DEF AloneCalls, Busy, Idle
<1>7. PartedOnlyByOverlap'
  <2> SUFFICES ASSUME NEW a \in ListAids PROVE (Agree(a) \/ a \in parted)'
    BY DEF PartedOnlyByOverlap
  <2>1. Cached(a)' <=> a \in S
    BY <1>1 DEF Cached
  <2>2. Enabled(a)' <=> Enabled(a)
    BY <1>2 DEF Enabled
  <2>3. CASE a \in S
    BY <1>1, <1>2, <1>4, <2>1, <2>2, <2>3 DEF Agree
  <2>4. CASE a \notin S
    BY <1>1, <2>1, <2>2, <2>4 DEF Agree, EnabledAids
  <2> QED BY <2>3, <2>4
<1> QED BY <1>5, <1>6, <1>7 DEF ListInv

LEMMA ListStepPreserves == ListInv /\ [ListNext]_listVars => ListInv'
<1> SUFFICES ASSUME ListInv, [ListNext]_listVars PROVE ListInv'
  OBVIOUS
<1>1. CASE UNCHANGED listVars
  BY <1>1 DEF listVars, ListInv, ListTypeOK, AloneCalls, Busy, InFlight, Settles, AgreeOrParted,
              Agree, Cached, Enabled, PartedOnlyByOverlap
<1>2. ASSUME NEW r \in Callers, NEW aid \in ListAids, NEW wits \in WitnessLists,
             (\E force \in BOOLEAN : WatchCall(r, aid, wits, force)) \/ UpdateWitnesses(r, aid, wits)
      PROVE  ListInv'
  <2>1. Enter(r, "watch", aid, wits) \/ Enter(r, "update", aid, wits)
    BY <1>2 DEF WatchCall, UpdateWitnesses
  <2> QED BY <2>1, EnterPreserves DEF Ops
<1>3. ASSUME NEW r \in Callers, NEW aid \in ListAids, UnwatchCall(r, aid)
      PROVE  ListInv'
  <2>1. cache[aid] \in WitnessLists /\ Enter(r, "unwatch", aid, cache[aid])
    BY <1>3 DEF UnwatchCall, Cached, ListInv, ListTypeOK
  <2> QED BY <2>1, EnterPreserves DEF Ops
<1>4. ASSUME NEW r \in Callers, WriteTable(r) \/ TableFails(r) \/ WriteCache(r)
      PROVE  ListInv'
  BY <1>4, TablePreserves, FailurePreserves, CachePreserves
<1>5. CASE Restart
  BY <1>5, RestartPreserves
<1> QED BY <1>1, <1>2, <1>3, <1>4, <1>5 DEF ListNext

-----------------------------------------------------------------------------
(* The variables of the watch list keep their types.                       *)
THEOREM ListTypes == ListSpec => []ListTypeOK
<1>1. ListInv => ListTypeOK
  BY DEF ListInv
<1> QED BY <1>1, ListInitHolds, ListStepPreserves, PTL DEF ListSpec

(* For any number of callers and AIDs: without an overlap, a failed        *)
(* statement or a truncated load, the cache says of an AID what the table  *)
(* says, and the next watch or unwatch that is alone repairs the rest.     *)
THEOREM CacheAgrees == ListSpec => []PartedOnlyByOverlap
<1>1. ListInv => PartedOnlyByOverlap
  BY DEF ListInv
<1> QED BY <1>1, ListInitHolds, ListStepPreserves, PTL DEF ListSpec
=============================================================================
