-------------------------------- MODULE Poller --------------------------------
(***************************************************************************)
(* How a watcher learns of the events its witnesses hold: the polls of     *)
(* polling/witness_poller.py, which remember in watched_aids.last_sn how   *)
(* far they came, the queue of the event processor, and what becomes of    *)
(* an event that the processor takes from it.                              *)
(*                                                                         *)
(* The controllers are honest: there is one event per AID and sequence     *)
(* number.  The processor is that of module Watcher with the steps of one  *)
(* event taken together; the cache of module WatchList agrees with the     *)
(* table.  Polled events carry their number as sn (Watcher has the others).*)
(*                                                                         *)
(* Operators named Mut_... are wrong variants of the definition that       *)
(* follows them; no action uses them (see README, "Mutants").              *)
(***************************************************************************)
EXTENDS Integers, Sequences, FiniteSets

CONSTANTS
    Aids,
    Flat,      \* witnesses that answer with their events at the top level
    Nested,    \* witnesses of this repository: "data" holds them
    WitnessesOf, \* the witnesses of each AID, as its row lists them
    Requests,  \* the tasks that serve POST /watch/{aid}?action=poll
    MaxSn,     \* bound: the last event of an AID
    Rotations, \* the numbers of each AID's rot events
    QueueSize, \* max_event_queue_size
    Workers,   \* how many events the processor has in hand at most
    Faults,    \* what may happen: "unwatch", "crash", "expire", "error"
    MaxFaults  \* bound: how often

ASSUME PollerConstants ==
    /\ IsFiniteSet(Flat \cup Nested)
    /\ Aids \cap Requests = {}
    /\ MaxSn \in Nat
    /\ QueueSize \in Nat \ {0}
    /\ WitnessesOf \in [Aids -> SUBSET (Flat \cup Nested)]
    /\ Rotations \in [Aids -> SUBSET (1 .. MaxSn)]
    /\ Workers \in Nat \ {0}
    /\ Faults \subseteq {"unwatch", "crash", "expire", "error"}
    /\ MaxFaults \in Nat

Witnesses == Flat \cup Nested

(* The poll tasks: the loop's own for each AID, and those of requests.     *)
Tasks == Aids \cup Requests
Sns == -1 .. MaxSn
Events == [aid : Aids, sn : 0 .. MaxSn]

VARIABLES
    held,     \* the last event each witness holds of each AID
    enabled,  \* the AIDs enabled in watched_aids
    lastSn,   \* watched_aids.last_sn
    polls,    \* what each poll task is doing
    queue,    \* the asyncio queue
    inHand,   \* events the workers are processing
    stored,   \* the last event of each AID's log at the watcher
    escrow,   \* events that wait for their prior
    submitted, \* ghost: events put on the queue
    faults

pollerVars == <<held, enabled, lastSn, polls, queue, inHand, stored, escrow, submitted,
                faults>>

Resting == [at |-> "rest"]
Polling(aid, from) ==
    [at |-> "polling", aid |-> aid, from |-> from, max |-> from,
     asked |-> WitnessesOf[aid], answered |-> [w \in {} |-> 0]]

-----------------------------------------------------------------------------
(* A witness comes to hold the next event of an AID.                       *)
Accept(w, aid) ==
    /\ w \in WitnessesOf[aid] /\ held[w][aid] < MaxSn
    /\ held' = [held EXCEPT ![w][aid] = @ + 1]
    /\ UNCHANGED <<enabled, lastSn, polls, queue, inHand, stored, escrow, submitted, faults>>

-----------------------------------------------------------------------------
(* _poll_cycle: the rows that are due, read when no poll of the cycle      *)
(* before is left.  An AID the clock does not find due is left out.        *)
Cycle(due) ==
    /\ due # {}
    /\ due \subseteq enabled
    /\ \A aid \in Aids : polls[aid] = Resting
    /\ polls' = [t \in Tasks |-> IF t \in due THEN Polling(t, lastSn[t]) ELSE polls[t]]
    /\ UNCHANGED <<held, enabled, lastSn, queue, inHand, stored, escrow, submitted, faults>>

(* poll_aid_now.                                                           *)
PollNow(t, aid) ==
    /\ polls[t] = Resting
    /\ aid \in enabled
    /\ polls' = [polls EXCEPT ![t] = Polling(aid, lastSn[aid])]
    /\ UNCHANGED <<held, enabled, lastSn, queue, inHand, stored, escrow, submitted, faults>>

(* _fetch_kel: the witness answers, with all it holds from the number on.  *)
(* -1 asks for everything.                                                 *)
Mut_AdvanceEarly(t, w) ==
    /\ polls[t].at = "polling" /\ w \in polls[t].asked
    /\ polls' = [polls EXCEPT ![t].asked = @ \ {w},
                              ![t].answered = [v \in DOMAIN @ \cup {w} |->
                                                 IF v = w THEN held[w][polls[t].aid] ELSE @[v]],
                              ![t].max = IF held[w][polls[t].aid] > @
                                         THEN held[w][polls[t].aid] ELSE @]
    /\ UNCHANGED <<held, enabled, lastSn, queue, inHand, stored, escrow, submitted, faults>>
Answer(t, w) ==
    /\ polls[t].at = "polling" /\ w \in polls[t].asked
    /\ polls' = [polls EXCEPT ![t].asked = @ \ {w},
                              ![t].answered = [v \in DOMAIN @ \cup {w} |->
                                                 IF v = w THEN held[w][polls[t].aid] ELSE @[v]]]
    /\ UNCHANGED <<held, enabled, lastSn, queue, inHand, stored, escrow, submitted, faults>>

(* The witness cannot be reached, after all the attempts of retry_async,   *)
(* or answers with an error, or record_witness_success fails before        *)
(* anything is submitted.                                                  *)
FetchFails(t, w) ==
    /\ polls[t].at = "polling" /\ w \in polls[t].asked
    /\ polls' = [polls EXCEPT ![t].asked = @ \ {w}]
    /\ UNCHANGED <<held, enabled, lastSn, queue, inHand, stored, escrow, submitted, faults>>

(* What the answer of a witness becomes: the events from the number on,    *)
(* as many as the queue has room for, and nothing of what is nested.       *)
Mut_AllOrNothing(t, w) ==
    IF polls[t].answered[w] - polls[t].from > QueueSize - Len(queue) THEN <<>>
    ELSE [i \in 1 .. polls[t].answered[w] - polls[t].from |->
             [aid |-> polls[t].aid, sn |-> polls[t].from + i]]
Batch(t, w) ==
    LET p == polls[t]
        first == IF p.from < 0 THEN 0 ELSE p.from
        all == IF w \in Nested THEN 0 ELSE p.answered[w] - first + 1
        room == QueueSize - Len(queue)
    IN  [i \in 1 .. (IF all < 0 THEN 0 ELSE IF all > room THEN room ELSE all) |->
            [aid |-> p.aid, sn |-> first + i - 1]]

Answered(t, w) == polls[t].at = "polling" /\ w \in DOMAIN polls[t].answered

Settled(t, w, max) ==
    polls' = [polls EXCEPT ![t].answered = [v \in DOMAIN @ \ {w} |-> @[v]], ![t].max = max]

(* The events go on the queue without an await; a full queue ends the      *)
(* batch.  The poll has come as far as the last event that went in.        *)
Mut_AdvanceAll(t, w) ==
    /\ Answered(t, w)
    /\ queue' = queue \o Batch(t, w)
    /\ submitted' = submitted \cup {Batch(t, w)[i] : i \in DOMAIN Batch(t, w)}
    /\ Settled(t, w, IF polls[t].answered[w] > polls[t].max /\ w \in Flat
                     THEN polls[t].answered[w] ELSE polls[t].max)
    /\ UNCHANGED <<held, enabled, lastSn, inHand, stored, escrow, faults>>
Submit(t, w) ==
    /\ Answered(t, w)
    /\ LET batch == Batch(t, w)
           last == IF batch = <<>> THEN polls[t].from ELSE batch[Len(batch)].sn
       IN  /\ queue' = queue \o batch
           /\ submitted' = submitted \cup {batch[i] : i \in DOMAIN batch}
           /\ Settled(t, w, IF last > polls[t].max THEN last ELSE polls[t].max)
    /\ UNCHANGED <<held, enabled, lastSn, inHand, stored, escrow, faults>>

(* update_poll_timestamp, which may fail, once every witness is dealt      *)
(* with.  It touches the row of an AID that is no longer watched, too.     *)
Advanced(t) ==
    IF polls[t].max > lastSn[polls[t].aid] THEN polls[t].max ELSE lastSn[polls[t].aid]

Fetched(t) ==
    polls[t].at = "polling" /\ polls[t].asked = {} /\ DOMAIN polls[t].answered = {}

Finish(t) ==
    /\ Fetched(t)
    /\ lastSn' = [lastSn EXCEPT ![polls[t].aid] = Advanced(t)]
    /\ polls' = [polls EXCEPT ![t] = Resting]
    /\ UNCHANGED <<held, enabled, queue, inHand, stored, escrow, submitted, faults>>

FinishFails(t) ==
    /\ Fetched(t)
    /\ polls' = [polls EXCEPT ![t] = Resting]
    /\ UNCHANGED <<held, enabled, lastSn, queue, inHand, stored, escrow, submitted, faults>>

-----------------------------------------------------------------------------
(* The processor (module Watcher): the workers take events in the order of *)
(* the queue and come to an end with them in any order.                    *)
Take ==
    /\ queue # <<>>
    /\ Cardinality(inHand) < Workers
    /\ inHand' = inHand \cup {Head(queue)}
    /\ queue' = Tail(queue)
    /\ UNCHANGED <<held, enabled, lastSn, polls, stored, escrow, submitted, faults>>

IsRotation(e) == e.sn \in Rotations[e.aid]

(* An event of an AID not watched is rejected, a known one is dropped, one *)
(* without its prior is escrowed, and a rotation with it is refused, as no *)
(* event that is polled or replayed carries its signatures.  One that is   *)
(* stored wakes some of those that wait behind it, never a rotation: a     *)
(* replay reads 20 rows, misses a row that comes too late, and keeps those *)
(* that it does not get through (module Watcher).                          *)
Settle(e) ==
    /\ e \in inHand
    /\ inHand' = inHand \ {e}
    /\ \/ /\ \/ e.aid \notin enabled
             \/ e.sn <= stored[e.aid]
             \/ IsRotation(e) /\ e.sn = stored[e.aid] + 1
          /\ UNCHANGED <<stored, escrow>>
       \/ /\ e.aid \in enabled /\ e.sn > stored[e.aid] + 1
          /\ escrow' = escrow \cup {e}
          /\ UNCHANGED stored
       \/ /\ e.aid \in enabled /\ e.sn = stored[e.aid] + 1 /\ ~IsRotation(e)
          /\ \E n \in e.sn .. MaxSn :
                LET woken == {[aid |-> e.aid, sn |-> k] : k \in e.sn + 1 .. n} IN
                /\ woken \subseteq escrow
                /\ \A x \in woken : ~IsRotation(x)
                /\ stored' = [stored EXCEPT ![e.aid] = n]
                /\ escrow' = escrow \ woken
    /\ UNCHANGED <<held, enabled, lastSn, polls, queue, submitted, faults>>

(* A call of the database that fails, before anything is stored or the row *)
(* is in the escrow: _process_event counts the event as rejected, and it   *)
(* is gone.  One that fails later leaves the event stored and wakes none.  *)
SettleFails(e) ==
    /\ "error" \in Faults /\ faults < MaxFaults
    /\ e \in inHand
    /\ inHand' = inHand \ {e}
    /\ faults' = faults + 1
    /\ UNCHANGED <<held, enabled, lastSn, polls, queue, stored, escrow, submitted>>

-----------------------------------------------------------------------------
(* The watch list changes between any two steps; last_sn stays in the row. *)
Unwatch(aid) ==
    /\ "unwatch" \in Faults /\ faults < MaxFaults
    /\ aid \in enabled
    /\ enabled' = enabled \ {aid}
    /\ faults' = faults + 1
    /\ UNCHANGED <<held, lastSn, polls, queue, inHand, stored, escrow, submitted>>

Watch(aid) ==
    /\ aid \notin enabled
    /\ enabled' = enabled \cup {aid}
    /\ UNCHANGED <<held, lastSn, polls, queue, inHand, stored, escrow, submitted, faults>>

(* The escrow gives up an event.                                           *)
Expire(e) ==
    /\ "expire" \in Faults /\ faults < MaxFaults
    /\ e \in escrow
    /\ escrow' = escrow \ {e}
    /\ faults' = faults + 1
    /\ UNCHANGED <<held, enabled, lastSn, polls, queue, inHand, stored, submitted>>

Crash ==
    /\ "crash" \in Faults /\ faults < MaxFaults
    /\ polls' = [t \in Tasks |-> Resting]
    /\ queue' = <<>>
    /\ inHand' = {}
    /\ faults' = faults + 1
    /\ UNCHANGED <<held, enabled, lastSn, stored, escrow, submitted>>

-----------------------------------------------------------------------------
PollerInit ==
    /\ held = [w \in Witnesses |-> [aid \in Aids |-> -1]]
    /\ enabled \in SUBSET Aids
    /\ lastSn = [aid \in Aids |-> -1]
    /\ polls = [t \in Tasks |-> Resting]
    /\ queue = <<>>
    /\ inHand = {}
    /\ stored = [aid \in Aids |-> -1]
    /\ escrow = {}
    /\ submitted = {}
    /\ faults = 0

Poll(t) ==
    \/ \E w \in Witnesses : Answer(t, w) \/ FetchFails(t, w) \/ Submit(t, w)
    \/ Finish(t) \/ FinishFails(t)

PollerNext ==
    \/ \E w \in Witnesses, aid \in Aids : Accept(w, aid)
    \/ \E due \in SUBSET Aids : Cycle(due)
    \/ \E t \in Requests, aid \in Aids : PollNow(t, aid)
    \/ \E t \in Tasks : Poll(t)
    \/ Take
    \/ \E e \in inHand : Settle(e) \/ SettleFails(e)
    \/ \E aid \in Aids : Unwatch(aid) \/ Watch(aid)
    \/ \E e \in escrow : Expire(e)
    \/ Crash

PollerSpec == PollerInit /\ [][PollerNext]_pollerVars

(* The interval between two cycles is long enough to drain the queue.      *)
Unhurried == (\E aid \in Aids : polls[aid] = Resting /\ polls'[aid] # Resting) => queue = <<>>

(* The loop polls an AID that stays due, its polls and the workers come to *)
(* an end, no witness fails for ever, and neither do the updates that      *)
(* would advance last_sn.                                                  *)
Scheduled(aid) ==
    /\ SF_pollerVars(\E due \in SUBSET Aids : aid \in due /\ Cycle(due) /\ Unhurried)
    /\ WF_pollerVars(Poll(aid))
    /\ SF_pollerVars(Finish(aid) /\ polls[aid].max > lastSn[aid])
    /\ \A w \in WitnessesOf[aid] : SF_pollerVars(Answer(aid, w)) /\ WF_pollerVars(Submit(aid, w))

FairPollerSpec ==
    /\ PollerInit /\ [][PollerNext /\ Unhurried]_pollerVars
    /\ WF_pollerVars(Take)
    /\ \A e \in Events : WF_pollerVars(Settle(e))
    /\ \A aid \in Aids : Scheduled(aid)

-----------------------------------------------------------------------------
Poll_ ==
    [at : {"polling"}, aid : Aids, from : Sns, max : Sns, asked : SUBSET Witnesses,
     answered : UNION {[S -> Sns] : S \in SUBSET Witnesses}]

PollerTypeOK ==
    /\ held \in [Witnesses -> [Aids -> Sns]]
    /\ enabled \subseteq Aids
    /\ lastSn \in [Aids -> Sns]
    /\ polls \in [Tasks -> {Resting} \cup Poll_]
    /\ queue \in Seq(Events) /\ Len(queue) <= QueueSize
    /\ inHand \subseteq Events /\ Cardinality(inHand) <= Workers
    /\ stored \in [Aids -> Sns]
    /\ escrow \subseteq Events
    /\ submitted \subseteq Events
    /\ faults \in 0 .. MaxFaults

(* Whatever fails, last_sn is never ahead of what was put on the queue:    *)
(* all up to it were, and so no event is skipped by the polls themselves.  *)
UpToLastSn == \A e \in Events : e.sn <= lastSn[e.aid] => e \in submitted

(* The rotation that comes next in the log of its AID: the processor       *)
(* refuses it whenever it takes it from the queue.                         *)
NextIsRotation(e) == IsRotation(e) /\ e.sn = stored[e.aid] + 1

(* As long as nothing crashes, fails, expires or leaves the list, an event *)
(* up to last_sn is lost in one way only: it is queued, in hand, escrowed  *)
(* or stored, or it is the rotation that comes next and was refused.       *)
NothingSkipped ==
    faults = 0 => \A e \in Events :
        e.sn <= lastSn[e.aid] =>
            \/ \E i \in DOMAIN queue : queue[i] = e
            \/ e \in inHand \cup escrow
            \/ e.sn <= stored[e.aid]
            \/ NextIsRotation(e)

(* An event that a witness shows is put on the queue in the end, under     *)
(* FairPollerSpec and as long as its AID does not leave the list.          *)
SubmittedInTheEnd(e) == (\E w \in Flat : held[w][e.aid] >= e.sn) ~> e \in submitted
=============================================================================
