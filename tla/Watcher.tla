------------------------------ MODULE Watcher ------------------------------
(***************************************************************************)
(* The event processor of the KERI watcher (src/keri/watcher).             *)
(*                                                                         *)
(* Pool workers take events off an asyncio queue the witness poller fills, *)
(* and POST /kel/{aid} runs the same _process_event in the request's task. *)
(* All tasks share one event loop: code between two awaits is atomic, and  *)
(* each await of the database lets the other tasks in.  So there is one    *)
(* action per await and one per stretch of code between two of them.       *)
(*                                                                         *)
(* First-seen saids are kept twice: in LMDB, read and written without      *)
(* awaiting, and in the table first_seen_events.  Both, and the other      *)
(* tables, outlive a crash; the queue and the tasks do not.                *)
(*                                                                         *)
(* Operators named Mut_... are wrong variants of the definition that       *)
(* follows them; no action uses them (see README, "Mutants").              *)
(***************************************************************************)
EXTENDS Integers, Sequences, FiniteSets

CONSTANTS
    Aids, Saids, \* identifiers and event digests
    NoSaid,      \* an absent or empty digest
    NoEvent,     \* the None that stop puts on the queue
    Raws,        \* the serialised events that arrive
    LastSns,     \* the values of last_sn a poll may start from
    Workers,     \* the pool tasks of EventProcessor.start
    Requests,    \* the tasks that serve POST /kel/{aid}
    QueueSize,   \* max_event_queue_size
    EscrowLimit, \* rows fetched per replay (20 in the code)
    DbErrors,    \* whether database calls may fail
    Unwatching,  \* whether AIDs may be taken off the watch list
    MaxArrivals, \* bound: events that arrive
    MaxRestarts  \* bound: restarts of the process

Inception == {"icp", "dip"}
Ilks == Inception \cup {"rot", "ixn", "drt"}

(* What the code reads of a serialised event.  keys: the names under which *)
(* it carries its sequence number; "other" stands for an unknown ilk.  The *)
(* prior it names is stored and never compared with anything.              *)
Raw == [aid : Aids, sn : Int, keys : SUBSET {"s", "sn"},
        said : Saids \cup {NoSaid}, ilk : Ilks \cup {"other"}]

ASSUME WatcherConstants ==
    /\ Raws \subseteq Raw
    /\ NoSaid \notin Saids
    /\ LastSns \subseteq Int
    /\ IsFiniteSet(Workers)
    /\ Workers \cap Requests = {}
    /\ QueueSize \in Nat \ {0}
    /\ EscrowLimit \in Nat
    /\ DbErrors \in BOOLEAN
    /\ Unwatching \in BOOLEAN
    /\ MaxArrivals \in Nat
    /\ MaxRestarts \in Nat

VARIABLES
    watchedAids,  \* table watched_aids: absent, enabled or disabled
    firstSeen,    \* LMDB watcher.fse: [aid, sn, said]
    kel,          \* table first_seen_events: [aid, sn, said]
    duplicityLog, \* table duplicity_log: [aid, sn, first, conflict, evidence]
    escrow,       \* table escrow_events in received_at order: [ev, state]
    queue,        \* the asyncio queue
    stack,        \* the activation records of each task
    running,      \* EventProcessor._running
    exited,       \* the workers that have left their loop
    sentinels,    \* the Nones stop has yet to put
    responses,    \* what POST /kel/{aid} answered: [ev, verdict]
    arrivals, restarts

stores == <<watchedAids, firstSeen, kel, duplicityLog, escrow>>
pool == <<running, exited, sentinels>>
counters == <<arrivals, restarts>>
vars == <<stores, queue, stack, pool, responses, counters>>

Tasks == Workers \cup Requests

-----------------------------------------------------------------------------
(* Events.  A RawEvent pairs the serialised event with the sequence number *)
(* its entry point read: the poller from "sn", the API and the replay of   *)
(* an escrowed event from "s".                                             *)
Event == [raw : Raws, sn : Int]

Polled(raw, lastSn) ==
    [raw |-> raw, sn |-> IF "sn" \in raw.keys THEN raw.sn ELSE lastSn]

Mut_ParseZero(raw) == [raw |-> raw, sn |-> 0]
Parse(raw) == [raw |-> raw, sn |-> IF "s" \in raw.keys THEN raw.sn ELSE 0]

Posted(raw) == [raw |-> raw, sn |-> IF "s" \in raw.keys THEN raw.sn ELSE 0]

(* An activation of _process_event.  existing: what LMDB held; evidence:   *)
(* the event get_kel returned; inDb: whether the prior was in the table;   *)
(* pending: escrow rows left to replay; child: whether the replayed event  *)
(* was accepted.                                                           *)
Awaits == {"watched", "get_kel", "record_duplicity", "prior", "escrow", "record",
           "fetch_escrow", "settle"}
PCs == Awaits \cup {"lookup", "judge", "replay"}

Activation ==
    [ev : Event, pc : PCs, existing : Saids \cup {NoSaid}, evidence : Saids \cup {NoSaid},
     inDb : BOOLEAN, pending : SUBSET Nat, child : BOOLEAN]

Start(ev) == [ev |-> ev, pc |-> "watched", existing |-> NoSaid, evidence |-> NoSaid,
              inDb |-> FALSE, pending |-> {}, child |-> FALSE]

Top(t) == stack[t][Len(stack[t])]

Busy(t, pc) == stack[t] # <<>> /\ Top(t).pc = pc

Goto(t, a) == stack' = [stack EXCEPT ![t] = [@ EXCEPT ![Len(@)] = a]]

(* A worker whose event is done looks at _running before it waits again.   *)
LeaveLoop(t) == exited' = IF t \in Workers /\ ~running THEN exited \cup {t} ELSE exited

(* _process_event returns: to the replay loop that called it, to the       *)
(* client of POST /kel/{aid}, or to _worker, which drops the result.       *)
Return(t, verdict) ==
    LET s == stack[t]
        n == Len(s)
    IN  IF n > 1
        THEN /\ stack' = [stack EXCEPT ![t] =
                    [SubSeq(s, 1, n - 1) EXCEPT ![n - 1].child = (verdict = "accepted")]]
             /\ UNCHANGED <<responses, exited>>
        ELSE /\ stack' = [stack EXCEPT ![t] = <<>>]
             /\ responses' = IF t \in Requests
                             THEN responses \cup {[ev |-> s[n].ev, verdict |-> verdict]}
                             ELSE responses
             /\ LeaveLoop(t)

-----------------------------------------------------------------------------
(* The stores.                                                             *)

At(table, aid, sn) == {e \in table : e.aid = aid /\ e.sn = sn}

EntryOf(ev) == [aid |-> ev.raw.aid, sn |-> ev.sn, said |-> ev.raw.said]

(* put_first_seen_said stores nothing where something is.                  *)
Mut_AlwaysPut(ev) == TRUE
Puts(ev) == At(firstSeen, ev.raw.aid, ev.sn) = {}

PutFirstSeen(ev) == firstSeen' = firstSeen \cup {EntryOf(ev)}

(* record_first_seen: INSERT ... ON CONFLICT (aid, sn, said) DO NOTHING.   *)
Mut_SkipInception(ev) == kel' = IF ev.sn = 0 THEN kel ELSE kel \cup {EntryOf(ev)}
RecordFirstSeen(ev) == kel' = kel \cup {EntryOf(ev)}

(* get_kel(aid, from_sn, limit=1): the lowest row from from_sn up.         *)
KelFrom(ev) ==
    LET rows == {e \in kel : e.aid = ev.raw.aid /\ e.sn >= ev.sn}
    IN  {e.said : e \in {r \in rows : \A other \in rows : r.sn <= other.sn}}

(* get_pending_escrow(aid, limit): the oldest unresolved rows of the AID.  *)
PendingEscrow(aid) ==
    LET ids == {i \in 1..Len(escrow) : escrow[i].state = "pending" /\ escrow[i].ev.raw.aid = aid}
    IN  {i \in ids : Cardinality({j \in ids : j < i}) < EscrowLimit}

-----------------------------------------------------------------------------
(* Arrivals, and what happens around the processor.                        *)

(* submit: put_nowait, or QueueFull back to the poller.                    *)
Submit(ev) ==
    /\ running
    /\ arrivals < MaxArrivals
    /\ arrivals' = arrivals + 1
    /\ queue' = IF Len(queue) < QueueSize THEN Append(queue, ev) ELSE queue
    /\ UNCHANGED <<stores, stack, pool, responses, restarts>>

(* POST /kel/{aid}: the event is processed in the request's own task.      *)
Request(t, raw) ==
    /\ running
    /\ arrivals < MaxArrivals
    /\ arrivals' = arrivals + 1
    /\ stack[t] = <<>>
    /\ stack' = [stack EXCEPT ![t] = <<Start(Posted(raw))>>]
    /\ UNCHANGED <<stores, queue, pool, responses, restarts>>

Waiting(w) == stack[w] = <<>> /\ w \notin exited

(* _worker: queue.get() returns an event, or the None that ends the loop.  *)
Receive(w) ==
    /\ Waiting(w)
    /\ queue # <<>>
    /\ queue' = Tail(queue)
    /\ IF Head(queue) = NoEvent
       THEN exited' = exited \cup {w} /\ UNCHANGED stack
       ELSE /\ stack' = [stack EXCEPT ![w] = <<Start(Head(queue))>>]
            /\ UNCHANGED exited
    /\ UNCHANGED <<stores, running, sentinels, responses, counters>>

(* wait_for times out after a second and the worker looks at _running.     *)
TimeOut(w) ==
    /\ Waiting(w)
    /\ ~running
    /\ exited' = exited \cup {w}
    /\ UNCHANGED <<stores, queue, stack, running, sentinels, responses, counters>>

(* stop, called once the server has finished its requests and the poller   *)
(* is cancelled: one None per worker, each put waiting for room.           *)
Stop ==
    /\ running
    /\ \A t \in Requests : stack[t] = <<>>
    /\ running' = FALSE
    /\ sentinels' = Cardinality(Workers)
    /\ UNCHANGED <<stores, queue, stack, exited, responses, counters>>

Mut_AfterJoin == queue = <<>>
RoomForNone == Len(queue) < QueueSize

PutSentinel ==
    /\ sentinels > 0
    /\ RoomForNone
    /\ queue' = Append(queue, NoEvent)
    /\ sentinels' = sentinels - 1
    /\ UNCHANGED <<stores, stack, running, exited, responses, counters>>

(* stop's gather returns.                                                  *)
Stopped == ~running /\ sentinels = 0 /\ exited = Workers

(* The process starts again, after a stop or a crash.                      *)
Restart ==
    /\ restarts < MaxRestarts
    /\ restarts' = restarts + 1
    /\ queue' = <<>>
    /\ stack' = [t \in Tasks |-> <<>>]
    /\ running' = TRUE
    /\ exited' = {}
    /\ sentinels' = 0
    /\ UNCHANGED <<stores, responses, arrivals>>

(* WatchManager's writes to watched_aids, which never delete a row.        *)
Watch(aid) ==
    /\ watchedAids' = [watchedAids EXCEPT ![aid] = "enabled"]
    /\ UNCHANGED <<firstSeen, kel, duplicityLog, escrow, queue, stack, pool, responses, counters>>

Unwatch(aid) ==
    /\ Unwatching
    /\ watchedAids[aid] = "enabled"
    /\ watchedAids' = [watchedAids EXCEPT ![aid] = "disabled"]
    /\ UNCHANGED <<firstSeen, kel, duplicityLog, escrow, queue, stack, pool, responses, counters>>

(* The oldest rows pass their expires_at: get_pending_escrow skips them.   *)
ExpireEscrow ==
    /\ \E k \in 1..Len(escrow) :
          /\ escrow[k].state = "pending"
          /\ escrow' = [i \in 1..Len(escrow) |->
                          IF i <= k /\ escrow[i].state = "pending"
                          THEN [escrow[i] EXCEPT !.state = "expired"]
                          ELSE escrow[i]]
    /\ UNCHANGED <<watchedAids, firstSeen, kel, duplicityLog, queue, stack, pool, responses,
                   counters>>

-----------------------------------------------------------------------------
(* _process_event.                                                         *)

(* An await that raises ends up in the except clause of the innermost      *)
(* _process_event.  The replay loop catches what a settling call raises,   *)
(* but the call it then makes may raise too.                               *)
FailOnDbError(t) ==
    /\ DbErrors
    /\ \E pc \in Awaits : Busy(t, pc)
    /\ Return(t, "rejected")
    /\ UNCHANGED <<stores, queue, running, sentinels, counters>>

IsWatched(aid) == watchedAids[aid] = "enabled"

CheckWatched(t) ==
    /\ Busy(t, "watched")
    /\ \/ /\ IsWatched(Top(t).ev.raw.aid)
          /\ Goto(t, [Top(t) EXCEPT !.pc = "lookup"])
          /\ UNCHANGED <<responses, exited>>
       \/ /\ ~IsWatched(Top(t).ev.raw.aid)
          /\ Return(t, "rejected")
    /\ UNCHANGED <<stores, queue, running, sentinels, counters>>

(* The checks of _validate_event before it awaits.                         *)
FieldsOk(ev) ==
    /\ ev.raw.said # NoSaid
    /\ ev.raw.ilk \in Ilks
    /\ ev.sn = 0 => ev.raw.ilk \in Inception

AcceptKnown(t) == Return(t, "accepted")

(* From the watched check to the next await, with LMDB's answer for the    *)
(* slot.  A negative sequence number has no LMDB key and raises.  An       *)
(* inception needs no prior, so nothing is awaited before it is put.       *)
Lookup(t) ==
    LET a == Top(t)
        ev == a.ev
        seen == At(firstSeen, ev.raw.aid, ev.sn)
    IN  /\ Busy(t, "lookup")
        /\ \/ /\ ev.sn < 0 \/ (seen = {} /\ ~FieldsOk(ev))
              /\ Return(t, "rejected")
              /\ UNCHANGED firstSeen
           \/ /\ \E e \in seen : /\ e.said # ev.raw.said
                                 /\ Goto(t, [a EXCEPT !.pc = "get_kel", !.existing = e.said])
              /\ UNCHANGED <<firstSeen, responses, exited>>
           \/ /\ \E e \in seen : e.said = ev.raw.said
              /\ AcceptKnown(t)
              /\ UNCHANGED firstSeen
           \/ /\ seen = {} /\ FieldsOk(ev) /\ ev.sn = 0
              /\ PutFirstSeen(ev)
              /\ Goto(t, [a EXCEPT !.pc = "record"])
              /\ UNCHANGED <<responses, exited>>
           \/ /\ seen = {} /\ FieldsOk(ev) /\ ev.sn > 0
              /\ Goto(t, [a EXCEPT !.pc = "prior"])
              /\ UNCHANGED <<firstSeen, responses, exited>>
        /\ UNCHANGED <<watchedAids, kel, duplicityLog, escrow, queue, running, sentinels, counters>>

(* _handle_duplicity: the stored event, then the entry.                    *)
GetKel(t) ==
    LET a == Top(t)
    IN  /\ Busy(t, "get_kel")
        /\ \E said \in IF KelFrom(a.ev) = {} THEN {NoSaid} ELSE KelFrom(a.ev) :
              Goto(t, [a EXCEPT !.pc = "record_duplicity", !.evidence = said])
        /\ UNCHANGED <<stores, queue, pool, responses, counters>>

DuplicityEntry(a) == [aid |-> a.ev.raw.aid, sn |-> a.ev.sn, first |-> a.existing,
                      conflict |-> a.ev.raw.said, evidence |-> a.evidence]

RecordDuplicity(t) ==
    /\ Busy(t, "record_duplicity")
    /\ duplicityLog' = duplicityLog \cup {DuplicityEntry(Top(t))}
    /\ Return(t, "duplicate")
    /\ UNCHANGED <<watchedAids, firstSeen, kel, escrow, queue, running, sentinels, counters>>

(* _validate_event awaits the prior in the table ...                       *)
GetPrior(t) ==
    LET a == Top(t)
    IN  /\ Busy(t, "prior")
        /\ Goto(t, [a EXCEPT !.pc = "judge",
                             !.inDb = At(kel, a.ev.raw.aid, a.ev.sn - 1) # {}])
        /\ UNCHANGED <<stores, queue, pool, responses, counters>>

Mut_NoPrior(a) == TRUE
PriorKnown(a) == a.inDb \/ At(firstSeen, a.ev.raw.aid, a.ev.sn - 1) # {}

(* ... and goes on to the put.  Nothing sets sigers, so every rotation is  *)
(* refused here.  An event whose slot was taken since Lookup is accepted   *)
(* but not stored.                                                         *)
Judge(t) ==
    LET a == Top(t)
    IN  /\ Busy(t, "judge")
        /\ \/ /\ ~PriorKnown(a)
              /\ Goto(t, [a EXCEPT !.pc = "escrow"])
              /\ UNCHANGED <<firstSeen, responses, exited>>
           \/ /\ PriorKnown(a) /\ a.ev.raw.ilk = "rot"
              /\ Return(t, "rejected")
              /\ UNCHANGED firstSeen
           \/ /\ PriorKnown(a) /\ a.ev.raw.ilk # "rot" /\ ~Puts(a.ev)
              /\ Return(t, "accepted")
              /\ UNCHANGED firstSeen
           \/ /\ PriorKnown(a) /\ a.ev.raw.ilk # "rot" /\ Puts(a.ev)
              /\ PutFirstSeen(a.ev)
              /\ Goto(t, [a EXCEPT !.pc = "record"])
              /\ UNCHANGED <<responses, exited>>
        /\ UNCHANGED <<watchedAids, kel, duplicityLog, escrow, queue, running, sentinels, counters>>

Mut_ForgetRow(ev) == UNCHANGED escrow
AddToEscrow(ev) == escrow' = Append(escrow, [ev |-> ev, state |-> "pending"])

EscrowEvent(t) ==
    /\ Busy(t, "escrow")
    /\ AddToEscrow(Top(t).ev)
    /\ Return(t, "escrowed")
    /\ UNCHANGED <<watchedAids, firstSeen, kel, duplicityLog, queue, running, sentinels, counters>>

Record(t) ==
    LET a == Top(t)
    IN  /\ Busy(t, "record")
        /\ RecordFirstSeen(a.ev)
        /\ Goto(t, [a EXCEPT !.pc = "fetch_escrow"])
        /\ UNCHANGED <<watchedAids, firstSeen, duplicityLog, escrow, queue, pool, responses, counters>>

(* _process_escrow_for_aid: the rows to replay, those too far ahead        *)
(* skipped.                                                                *)
Mut_NextOnly(ev) == {i \in PendingEscrow(ev.raw.aid) : escrow[i].ev.sn <= ev.sn}
Replayable(ev) == {i \in PendingEscrow(ev.raw.aid) : escrow[i].ev.sn <= ev.sn + 1}

FetchEscrow(t) ==
    LET a == Top(t)
    IN  /\ Busy(t, "fetch_escrow")
        /\ Goto(t, [a EXCEPT !.pc = "replay", !.pending = Replayable(a.ev)])
        /\ UNCHANGED <<stores, queue, pool, responses, counters>>

NextPending(a, i) == i \in a.pending /\ \A j \in a.pending : i <= j

Replay(t) ==
    LET a == Top(t)
    IN  /\ Busy(t, "replay")
        /\ \E i \in a.pending :
              /\ NextPending(a, i)
              /\ stack' = [stack EXCEPT ![t] =
                    Append([@ EXCEPT ![Len(@)] = [a EXCEPT !.pc = "settle"]],
                           Start(Parse(escrow[i].ev.raw)))]
        /\ UNCHANGED <<stores, queue, pool, responses, counters>>

(* resolve_escrow after an acceptance.  If it raises, or the event was not *)
(* accepted, increment_escrow_retry, whose counter nothing reads.          *)
Mut_AlwaysResolve(a, i) == escrow' = [escrow EXCEPT ![i].state = "resolved"]
SettleRow(a, i) ==
    \/ a.child /\ escrow' = [escrow EXCEPT ![i].state = "resolved"]
    \/ (~a.child \/ DbErrors) /\ UNCHANGED escrow

(* The loop over the fetched rows goes on with the ones after row i.       *)
Mut_SameRowAgain(a, i) == a.pending
RowsAfter(a, i) == a.pending \ {i}

Settle(t) ==
    LET a == Top(t)
    IN  /\ Busy(t, "settle")
        /\ \E i \in a.pending :
              /\ NextPending(a, i)
              /\ SettleRow(a, i)
              /\ Goto(t, [a EXCEPT !.pc = "replay", !.pending = RowsAfter(a, i)])
        /\ UNCHANGED <<watchedAids, firstSeen, kel, duplicityLog, queue, pool, responses, counters>>

FinishReplay(t) ==
    /\ Busy(t, "replay")
    /\ Top(t).pending = {}
    /\ Return(t, "accepted")
    /\ UNCHANGED <<stores, queue, running, sentinels, counters>>

ProcessEvent(t) ==
    \/ FailOnDbError(t)
    \/ CheckWatched(t)
    \/ Lookup(t)
    \/ GetKel(t)
    \/ RecordDuplicity(t)
    \/ GetPrior(t)
    \/ Judge(t)
    \/ EscrowEvent(t)
    \/ Record(t)
    \/ FetchEscrow(t)
    \/ Replay(t)
    \/ Settle(t)
    \/ FinishReplay(t)

-----------------------------------------------------------------------------
Init ==
    /\ watchedAids = [aid \in Aids |-> "absent"]
    /\ firstSeen = {}
    /\ kel = {}
    /\ duplicityLog = {}
    /\ escrow = <<>>
    /\ queue = <<>>
    /\ stack = [t \in Tasks |-> <<>>]
    /\ running = TRUE
    /\ exited = {}
    /\ sentinels = 0
    /\ responses = {}
    /\ arrivals = 0
    /\ restarts = 0

Next ==
    \/ \E raw \in Raws, sn \in LastSns : Submit(Polled(raw, sn))
    \/ \E t \in Requests, raw \in Raws : Request(t, raw)
    \/ \E w \in Workers : Receive(w) \/ TimeOut(w)
    \/ \E t \in Tasks : ProcessEvent(t)
    \/ \E aid \in Aids : Watch(aid) \/ Unwatch(aid)
    \/ ExpireEscrow
    \/ Stop
    \/ PutSentinel
    \/ Restart

Fairness ==
    /\ \A t \in Tasks : WF_vars(ProcessEvent(t))
    /\ \A w \in Workers : WF_vars(Receive(w)) /\ WF_vars(TimeOut(w))
    /\ WF_vars(PutSentinel)

Spec == Init /\ [][Next]_vars
FairSpec == Spec /\ Fairness

-----------------------------------------------------------------------------
(* Properties.                                                             *)

(* Every variable keeps the shape the stores, the queue and the tasks have *)
(* in the code.                                                            *)
Log == [aid : Aids, sn : Nat, said : Saids]

TypeOK ==
    /\ watchedAids \in [Aids -> {"absent", "enabled", "disabled"}]
    /\ firstSeen \subseteq Log
    /\ kel \subseteq Log
    /\ duplicityLog \subseteq [aid : Aids, sn : Nat, first : Saids,
                               conflict : Saids \cup {NoSaid}, evidence : Saids \cup {NoSaid}]
    /\ escrow \in Seq([ev : Event, state : {"pending", "resolved", "expired"}])
    /\ queue \in Seq(Event \cup {NoEvent})
    /\ stack \in [Tasks -> Seq(Activation)]
    /\ running \in BOOLEAN
    /\ exited \subseteq Workers
    /\ sentinels \in Nat
    /\ responses \subseteq [ev : Event, verdict : {"accepted", "duplicate", "escrowed", "rejected"}]
    /\ arrivals \in Nat
    /\ restarts \in Nat

(* LMDB is a first-seen log: a slot takes one said, keeps it for good, and *)
(* is filled after the slot below it, although the prior is looked up (in  *)
(* either store) an await before the put.                                  *)
FirstSeenLog == INSTANCE FirstSeenLog WITH log <- firstSeen, Digests <- Saids
IsFirstSeenLog == FirstSeenLog!Spec

(* The key event log that clients read never disagrees with LMDB: a row of *)
(* first_seen_events is the said that LMDB holds for its slot, so no slot  *)
(* shows two events although the table's key would let it.                 *)
KelFollowsLmdb ==
    /\ kel \subseteq firstSeen
    /\ \A e1, e2 \in kel : e1.aid = e2.aid /\ e1.sn = e2.sn => e1 = e2

(* Without database errors and crashes the two stores only differ by the   *)
(* events that some task is about to record.                               *)
Recording == {EntryOf(Top(t).ev) : t \in {u \in Tasks : Busy(u, "record")}}
LmdbIsRecorded == firstSeen = kel \cup Recording

(* The duplicity log accuses no one wrongly: the first said of an entry is *)
(* the one seen first in that slot, and the conflicting one is another.    *)
DuplicitySound ==
    \A d \in duplicityLog :
        /\ d.first # d.conflict
        /\ [aid |-> d.aid, sn |-> d.sn, said |-> d.first] \in firstSeen

(* An event is accused under the sequence number it was sent with, unless  *)
(* it lacks the name under which the code that read it looks: the poller   *)
(* reads "sn" and else takes last_sn, the API and the replay read "s" and  *)
(* else take 0.                                                            *)
AccusedAsSent ==
    \A d \in duplicityLog : \E raw \in Raws :
        /\ raw.aid = d.aid /\ raw.said = d.conflict
        /\ \/ raw.sn = d.sn
           \/ "s" \notin raw.keys /\ d.sn = 0
           \/ "sn" \notin raw.keys /\ d.sn \in LastSns

(* Only AIDs that were put on the watch list leave a trace, whatever AID   *)
(* the events in a request for another AID name.                           *)
OnlyWatched ==
    /\ \A e \in firstSeen \cup duplicityLog : watchedAids[e.aid] # "absent"
    /\ \A i \in 1..Len(escrow) : watchedAids[escrow[i].ev.raw.aid] # "absent"

(* What a client was told has a trace that outlives errors and crashes: an *)
(* accepted event's slot has been seen, a duplicate is in the duplicity    *)
(* log, an escrowed event is in the escrow.                                *)
AnswersAreBacked ==
    \A a \in responses :
        /\ a.verdict = "accepted" => At(firstSeen, a.ev.raw.aid, a.ev.sn) # {}
        /\ a.verdict = "duplicate" =>
              \E d \in duplicityLog : /\ d.aid = a.ev.raw.aid /\ d.sn = a.ev.sn
                                      /\ d.conflict = a.ev.raw.said
        /\ a.verdict = "escrowed" => \E i \in 1..Len(escrow) : escrow[i].ev = a.ev

(* An escrow row is resolved only when the slot of the event it holds has  *)
(* been seen.                                                              *)
ResolvedIsSeen ==
    \A i \in 1..Len(escrow) : escrow[i].state = "resolved" =>
        LET ev == Parse(escrow[i].ev.raw) IN At(firstSeen, ev.raw.aid, ev.sn) # {}

(* The recursion of _process_event and _process_escrow_for_aid is bounded  *)
(* by the slots: the activations of a task below the running one have put  *)
(* different slots, so a replay that goes round in circles is impossible.  *)
Slot(a) == <<a.ev.raw.aid, a.ev.sn>>
ReplayMakesProgress ==
    \A t \in Tasks : \A j \in 1..(Len(stack[t]) - 1) :
        /\ EntryOf(stack[t][j].ev) \in firstSeen
        /\ \A i \in 1..(j - 1) : Slot(stack[t][i]) # Slot(stack[t][j])

(* With one task, no errors, a steady watch list and a replay window that  *)
(* holds all the rows, the escrow forgets no event: once idle, no pending  *)
(* event that could be stored (its prior seen, its slot free) is left.     *)
Idle == queue = <<>> /\ \A t \in Tasks : stack[t] = <<>>
Pending == {i \in 1..Len(escrow) : escrow[i].state = "pending"}
Storable(ev) ==
    /\ FieldsOk(ev) /\ ev.raw.ilk # "rot" /\ ev.sn > 0
    /\ watchedAids[ev.raw.aid] = "enabled"
    /\ Puts(ev) /\ At(firstSeen, ev.raw.aid, ev.sn - 1) # {}
EscrowForgetsNothing ==
    Idle /\ Len(escrow) <= EscrowLimit =>
        \A i \in Pending : ~Storable(Parse(escrow[i].ev.raw))

(* A client that is told "accepted" has had its event seen: the read of    *)
(* the slot, the validation and the write would be one atomic step.        *)
AcceptedIsFirstSeen ==
    \A a \in responses : a.verdict = "accepted" => EntryOf(a.ev) \in firstSeen

(* Every call of _process_event returns, its replays included.             *)
TasksFinish == \A t \in Tasks : (stack[t] # <<>>) ~> (stack[t] = <<>>)

(* stop returns when the queue has room for a None per worker (or the      *)
(* process starts anew).                                                   *)
StopReturns ==
    (~running /\ Len(queue) + sentinels <= QueueSize) ~> (Stopped \/ running)

=============================================================================
