------------------------------ MODULE Witness ------------------------------
(***************************************************************************)
(* The event processor of the KERI witness (src/keri/witness/src).         *)
(*                                                                         *)
(* A pool of tokio workers takes key events off a bounded channel, and     *)
(* every HTTP request runs the same process_one in a task of its own.      *)
(* process_one awaits the database between its decisions, so each await    *)
(* is one action here and tasks interleave between them.  Accepting an     *)
(* event replays the AID's escrow, which calls process_one again: a task   *)
(* is a stack of activation records, the running one last.                 *)
(*                                                                         *)
(* The tables outlive a crash; the channel, the tasks and the witness key  *)
(* pair do not.                                                            *)
(*                                                                         *)
(* Operators named Mut_... are wrong variants of the definition that       *)
(* follows them; no action uses them (see README, "Mutants").              *)
(***************************************************************************)
EXTENDS Integers, Sequences, FiniteSets

CONSTANTS
    Aids, Saids, \* identifiers and event digests
    NoSaid,      \* an absent digest (Rust's None)
    Raws,        \* the serialised events clients may send
    SigSets,     \* the sets of signatures a KeyEvent may carry
    Workers,     \* the pool tasks of EventProcessor::new
    Requests,    \* the tasks that serve POST /events
    QueueSize,   \* capacity of the channel
    EscrowLimit, \* rows fetched per replay (20 in the code)
    MaxSubmits,  \* bound: events that clients send
    MaxRestarts  \* bound: crashes

Inception == {"icp", "dip"}
Ilks == Inception \cup {"rot", "ixn", "drt", "rct"}

(* What the code reads of a serialised event.  keys: the key list is not   *)
(* empty; wits: there are at least witness_threshold witnesses.  The said  *)
(* is the one the sender claims: validate_said only logs a mismatch, so    *)
(* two different Raws may carry the same said.                             *)
Raw == [aid : Aids, sn : Int, said : Saids, prior : Saids \cup {NoSaid},
        ilk : Ilks, keys : BOOLEAN, wits : BOOLEAN]

ASSUME WitnessConstants ==
    /\ Raws \subseteq Raw
    /\ NoSaid \notin Saids
    /\ SigSets \subseteq SUBSET {"valid", "invalid", "unkeyed"}
    /\ {} \in SigSets
    /\ QueueSize \in Nat \ {0}
    /\ EscrowLimit \in Nat
    /\ MaxSubmits \in Nat
    /\ MaxRestarts \in Nat

VARIABLES
    keyEvents,    \* table key_events: [raw, at], at being first_seen_at
    receipts,     \* table receipts: [aid, sn, said, witness, signer, signed]
    duplicityLog, \* table duplicity_log: [aid, sn, first, conflict]
    escrow,       \* table escrow_events in received_at order: [raw, state]
    queue,        \* the channel between submit and the workers
    stack,        \* the activation records of each task
    clock,        \* NOW() of the database, a tick per transaction
    keyPair,      \* which generated key pair the running process holds
    submits,      \* events sent so far
    responses     \* what POST /events answered: [raw, verdict, said]

db == <<keyEvents, receipts, duplicityLog, escrow>>
vars == <<keyEvents, receipts, duplicityLog, escrow, queue, stack, clock,
          keyPair, submits, responses>>

Tasks == Workers \cup Requests

KeyEvent == [raw : Raws, sigs : SigSets]

(* parse_incoming_event leaves the signature list empty, whatever was sent.*)
Parse(raw) == [raw |-> raw, sigs |-> {}]

(* An activation of process_one.  existing: what get_first_seen_said       *)
(* returned; at: NOW() of the store transaction; pending: escrow rows left *)
(* to replay; child: whether the replayed event was accepted.              *)
PCs == {"first_seen", "record_duplicity", "get_receipt", "validate",
        "escrow", "begin", "commit", "fetch_escrow", "replay", "settle"}

Activation ==
    [ev : KeyEvent, pc : PCs, existing : Saids \cup {NoSaid}, at : Nat,
     pending : SUBSET Nat, child : BOOLEAN]

Start(ev) == [ev |-> ev, pc |-> "first_seen", existing |-> NoSaid, at |-> 0,
              pending |-> {}, child |-> FALSE]

Top(t) == stack[t][Len(stack[t])]

Busy(t, pc) == stack[t] # <<>> /\ Top(t).pc = pc

Goto(t, a) == stack' = [stack EXCEPT ![t] = [@ EXCEPT ![Len(@)] = a]]

(* process_one returns: to the replay loop that called it, to the client   *)
(* of POST /events, or to worker_loop, which drops the result.             *)
Return(t, verdict, said) ==
    LET s == stack[t]
        n == Len(s)
    IN  IF n > 1
        THEN /\ stack' = [stack EXCEPT ![t] =
                    [SubSeq(s, 1, n - 1) EXCEPT ![n - 1].child = (verdict = "accepted")]]
             /\ UNCHANGED responses
        ELSE /\ stack' = [stack EXCEPT ![t] = <<>>]
             /\ responses' = IF t \in Requests
                             THEN responses \cup {[raw |-> s[n].ev.raw, verdict |-> verdict,
                                                   said |-> said]}
                             ELSE responses

-----------------------------------------------------------------------------
(* The tables.                                                             *)

SameSlot(r, s) == r.aid = s.aid /\ r.sn = s.sn
SameKey(r, s) == SameSlot(r, s) /\ r.said = s.said

InSlot(aid, sn) == {row \in keyEvents : row.raw.aid = aid /\ row.raw.sn = sn}

(* The row that get_event and get_first_seen_said return for a slot:       *)
(* ORDER BY first_seen_at ASC LIMIT 1.                                     *)
IsFirstSeen(row, aid, sn) ==
    /\ row \in InSlot(aid, sn)
    /\ \A other \in InSlot(aid, sn) : row.at <= other.at

(* get_pending_escrow(aid, limit): the oldest unresolved rows of the AID.  *)
PendingEscrow(aid) ==
    LET ids == {i \in 1..Len(escrow) : escrow[i].state = "pending" /\ escrow[i].raw.aid = aid}
    IN  {i \in ids : Cardinality({j \in ids : j < i}) < EscrowLimit}

(* store_event_and_receipt, one transaction.  A row that exists keeps its  *)
(* contents; a receipt that exists only gets the new signature.            *)
StoreEvent(raw, at) ==
    keyEvents' = IF \E row \in keyEvents : SameKey(row.raw, raw)
                 THEN keyEvents
                 ELSE keyEvents \cup {[raw |-> raw, at |-> at]}

StoreReceipt(raw) ==
    receipts' = IF \E rct \in receipts : SameSlot(rct, raw)
                THEN {IF SameSlot(rct, raw)
                      THEN [rct EXCEPT !.signer = keyPair, !.signed = raw.said]
                      ELSE rct : rct \in receipts}
                ELSE receipts \cup {[aid |-> raw.aid, sn |-> raw.sn, said |-> raw.said,
                                     witness |-> keyPair, signer |-> keyPair,
                                     signed |-> raw.said]}

-----------------------------------------------------------------------------
(* EventValidator, in the order validate runs its checks.                  *)

StructureOk(r) ==
    /\ r.aid # "" /\ r.said # "" /\ r.sn >= 0
    /\ r.sn = 0 => r.ilk \in Inception
    /\ r.sn > 0 => r.prior # NoSaid
    /\ r.ilk \in Inception => r.keys

Mut_AnyPrior(r) ==
    IF r.sn = 0 THEN InSlot(r.aid, 0) = {} ELSE InSlot(r.aid, r.sn - 1) # {}
Mut_SecondInception(r) ==
    r.sn # 0 => \E row \in keyEvents : /\ IsFirstSeen(row, r.aid, r.sn - 1)
                                      /\ row.raw.said = r.prior
SequenceOk(r) ==
    \/ r.sn = 0 /\ InSlot(r.aid, 0) = {}
    \/ r.sn # 0 /\ \E row \in keyEvents : /\ IsFirstSeen(row, r.aid, r.sn - 1)
                                          /\ row.raw.said = r.prior

MissingPrior(r) == r.sn # 0 /\ InSlot(r.aid, r.sn - 1) = {}

SignaturesOk(ev) == ev.sigs # {} /\ "invalid" \notin ev.sigs

ThresholdOk(r) == r.wits

-----------------------------------------------------------------------------
(* Clients and the channel.                                                *)

(* EventProcessor::submit: try_send, or QueueFull back to the caller.      *)
Submit(ev) ==
    /\ submits < MaxSubmits
    /\ submits' = submits + 1
    /\ queue' = IF Len(queue) < QueueSize THEN Append(queue, ev) ELSE queue
    /\ UNCHANGED <<db, stack, clock, keyPair, responses>>

(* worker_loop: an idle worker receives the next event.                    *)
Mut_PeekOnly(w) ==
    /\ stack[w] = <<>>
    /\ queue # <<>>
    /\ stack' = [stack EXCEPT ![w] = <<Start(Head(queue))>>]
    /\ UNCHANGED <<db, queue, clock, keyPair, submits, responses>>
Receive(w) ==
    /\ stack[w] = <<>>
    /\ queue # <<>>
    /\ queue' = Tail(queue)
    /\ stack' = [stack EXCEPT ![w] = <<Start(Head(queue))>>]
    /\ UNCHANGED <<db, clock, keyPair, submits, responses>>

(* submit_event: parse the body and process it in the request's own task.  *)
Request(t, raw) ==
    /\ submits < MaxSubmits
    /\ submits' = submits + 1
    /\ stack[t] = <<>>
    /\ stack' = [stack EXCEPT ![t] = <<Start(Parse(raw))>>]
    /\ UNCHANGED <<db, queue, clock, keyPair, responses>>

(* The TimeoutLayer, or the client going away, drops a request's future    *)
(* at the await it has reached.                                            *)
Cancel(t) ==
    /\ stack[t] # <<>>
    /\ stack' = [stack EXCEPT ![t] = <<>>]
    /\ UNCHANGED <<db, queue, clock, keyPair, submits, responses>>

-----------------------------------------------------------------------------
(* process_one.                                                            *)

(* A database error at the first-seen check, in the sequence check or in   *)
(* the store transaction rejects the event.                                *)
RejectOnDbError(t) ==
    /\ \E pc \in {"first_seen", "validate", "begin", "commit"} : Busy(t, pc)
    /\ Return(t, "rejected", NoSaid)
    /\ UNCHANGED <<db, queue, clock, keyPair, submits>>

(* The branch on what get_first_seen_said returned.                        *)
Mut_ConflictValidated(first, r) == IF first # r.said THEN "validate" ELSE "get_receipt"
AfterFirstSeen(first, r) == IF first # r.said THEN "record_duplicity" ELSE "get_receipt"

CheckFirstSeen(t) ==
    LET a == Top(t)
        r == a.ev.raw
    IN  /\ Busy(t, "first_seen")
        /\ \/ /\ InSlot(r.aid, r.sn) = {}
              /\ Goto(t, [a EXCEPT !.pc = "validate"])
           \/ \E row \in keyEvents :
                /\ IsFirstSeen(row, r.aid, r.sn)
                /\ Goto(t, [a EXCEPT !.existing = row.raw.said,
                                     !.pc = AfterFirstSeen(row.raw.said, r)])
        /\ UNCHANGED <<db, queue, clock, keyPair, submits, responses>>

DuplicityEntry(a) == [aid |-> a.ev.raw.aid, sn |-> a.ev.raw.sn,
                      first |-> a.existing, conflict |-> a.ev.raw.said]

(* An error from record_duplicity is logged; the event is a duplicate all  *)
(* the same.                                                               *)
RecordDuplicity(t) ==
    LET a == Top(t)
    IN  /\ Busy(t, "record_duplicity")
        /\ \/ duplicityLog' = duplicityLog \cup {DuplicityEntry(a)}
           \/ UNCHANGED duplicityLog
        /\ Return(t, "duplicate", NoSaid)
        /\ UNCHANGED <<keyEvents, receipts, escrow, queue, clock, keyPair, submits>>

(* get_receipt(aid, sn).                                                   *)
Mut_ReceiptOfAid(rct, r) == rct.aid = r.aid
ReceiptFor(rct, r) == SameSlot(rct, r)

(* A known event is answered with the stored receipt.  Without one, or on  *)
(* an error, the event goes through validation again.                      *)
GetReceipt(t) ==
    LET a == Top(t)
    IN  /\ Busy(t, "get_receipt")
        /\ \/ \E rct \in receipts : /\ ReceiptFor(rct, a.ev.raw)
                                    /\ Return(t, "accepted", rct.said)
           \/ /\ Goto(t, [a EXCEPT !.pc = "validate"])
              /\ UNCHANGED responses
        /\ UNCHANGED <<db, queue, clock, keyPair, submits>>

Validate(t) ==
    LET a == Top(t)
        r == a.ev.raw
    IN  /\ Busy(t, "validate")
        /\ \/ /\ StructureOk(r)
              /\ MissingPrior(r)
              /\ Goto(t, [a EXCEPT !.pc = "escrow"])
              /\ UNCHANGED responses
           \/ /\ StructureOk(r)
              /\ SequenceOk(r)
              /\ SignaturesOk(a.ev)
              /\ ThresholdOk(r)
              /\ Goto(t, [a EXCEPT !.pc = "begin"])
              /\ UNCHANGED responses
           \/ /\ \/ ~StructureOk(r)
                 \/ ~MissingPrior(r) /\ ~SequenceOk(r)
                 \/ ~MissingPrior(r) /\ ~SignaturesOk(a.ev)
                 \/ ~MissingPrior(r) /\ ~ThresholdOk(r)
              /\ Return(t, "rejected", NoSaid)
        /\ UNCHANGED <<db, queue, clock, keyPair, submits>>

(* An error from escrow_event is logged; the verdict is the same.          *)
EscrowEvent(t) ==
    /\ Busy(t, "escrow")
    /\ \/ escrow' = Append(escrow, [raw |-> Top(t).ev.raw, state |-> "pending"])
       \/ UNCHANGED escrow
    /\ Return(t, "escrowed", NoSaid)
    /\ UNCHANGED <<keyEvents, receipts, duplicityLog, queue, clock, keyPair, submits>>

BeginStore(t) ==
    /\ Busy(t, "begin")
    /\ clock' = clock + 1
    /\ Goto(t, [Top(t) EXCEPT !.pc = "commit", !.at = clock])
    /\ UNCHANGED <<db, queue, keyPair, submits, responses>>

CommitStore(t) ==
    LET a == Top(t)
    IN  /\ Busy(t, "commit")
        /\ StoreEvent(a.ev.raw, a.at)
        /\ StoreReceipt(a.ev.raw)
        /\ Goto(t, [a EXCEPT !.pc = "fetch_escrow"])
        /\ UNCHANGED <<duplicityLog, escrow, queue, clock, keyPair, submits, responses>>

(* retry_escrow_for_aid: the rows to replay, those too far ahead skipped.  *)
Mut_NoSkip(r) == PendingEscrow(r.aid)
Replayable(r) == {i \in PendingEscrow(r.aid) : escrow[i].raw.sn <= r.sn + 1}

(* get_pending_escrow; on an error nothing is replayed.                    *)
FetchEscrow(t) ==
    LET a == Top(t)
    IN  /\ Busy(t, "fetch_escrow")
        /\ \E ids \in {{}, Replayable(a.ev.raw)} :
              Goto(t, [a EXCEPT !.pc = "replay", !.pending = ids])
        /\ UNCHANGED <<db, queue, clock, keyPair, submits, responses>>

NextPending(a, i) == i \in a.pending /\ \A j \in a.pending : i <= j

Replay(t) ==
    LET a == Top(t)
    IN  /\ Busy(t, "replay")
        /\ \E i \in a.pending :
              /\ NextPending(a, i)
              /\ stack' = [stack EXCEPT ![t] =
                    Append([@ EXCEPT ![Len(@)] = [a EXCEPT !.pc = "settle"]],
                           Start(Parse(escrow[i].raw)))]
        /\ UNCHANGED <<db, queue, clock, keyPair, submits, responses>>

(* The loop over the fetched rows goes on with the ones after row i.       *)
Mut_SameRowAgain(a, i) == a.pending
RowsAfter(a, i) == a.pending \ {i}

(* resolve_escrow after an acceptance (its error is ignored), otherwise    *)
(* increment_escrow_retry, whose counter nothing reads.                    *)
SettleRow(a, i) ==
    \/ a.child /\ escrow' = [escrow EXCEPT ![i].state = "resolved"]
    \/ UNCHANGED escrow

Settle(t) ==
    LET a == Top(t)
    IN  /\ Busy(t, "settle")
        /\ \E i \in a.pending :
              /\ NextPending(a, i)
              /\ SettleRow(a, i)
              /\ Goto(t, [a EXCEPT !.pc = "replay", !.pending = RowsAfter(a, i)])
        /\ UNCHANGED <<keyEvents, receipts, duplicityLog, queue, clock, keyPair,
                       submits, responses>>

FinishReplay(t) ==
    /\ Busy(t, "replay")
    /\ Top(t).pending = {}
    /\ Return(t, "accepted", Top(t).ev.raw.said)
    /\ UNCHANGED <<db, queue, clock, keyPair, submits>>

ProcessOne(t) ==
    \/ RejectOnDbError(t)
    \/ CheckFirstSeen(t)
    \/ RecordDuplicity(t)
    \/ GetReceipt(t)
    \/ Validate(t)
    \/ EscrowEvent(t)
    \/ BeginStore(t)
    \/ CommitStore(t)
    \/ FetchEscrow(t)
    \/ Replay(t)
    \/ Settle(t)
    \/ FinishReplay(t)

-----------------------------------------------------------------------------
(* EscrowRetryTask::tick: rows past their expiry, the oldest ones, are     *)
(* closed.  It replays nothing.                                            *)
ExpireEscrow ==
    /\ \E k \in 1..Len(escrow) :
          /\ escrow[k].state = "pending"
          /\ escrow' = [i \in 1..Len(escrow) |->
                          IF i <= k /\ escrow[i].state = "pending"
                          THEN [escrow[i] EXCEPT !.state = "expired"]
                          ELSE escrow[i]]
    /\ UNCHANGED <<keyEvents, receipts, duplicityLog, queue, stack, clock, keyPair,
                   submits, responses>>

(* The process dies, or shuts down, and starts again: open transactions    *)
(* roll back and main generates a new key pair.                            *)
Restart ==
    /\ keyPair < MaxRestarts
    /\ keyPair' = keyPair + 1
    /\ queue' = <<>>
    /\ stack' = [t \in Tasks |-> <<>>]
    /\ UNCHANGED <<db, clock, submits, responses>>

Init ==
    /\ keyEvents = {}
    /\ receipts = {}
    /\ duplicityLog = {}
    /\ escrow = <<>>
    /\ queue = <<>>
    /\ stack = [t \in Tasks |-> <<>>]
    /\ clock = 0
    /\ keyPair = 0
    /\ submits = 0
    /\ responses = {}

Next ==
    \/ \E ev \in KeyEvent : Submit(ev)
    \/ \E w \in Workers : Receive(w)
    \/ \E t \in Requests, raw \in Raws : Request(t, raw)
    \/ \E t \in Requests : Cancel(t)
    \/ \E t \in Tasks : ProcessOne(t)
    \/ ExpireEscrow
    \/ Restart

Fairness ==
    /\ \A t \in Tasks : WF_vars(ProcessOne(t))
    /\ \A w \in Workers : WF_vars(Receive(w))

Spec == Init /\ [][Next]_vars
FairSpec == Spec /\ Fairness

-----------------------------------------------------------------------------
(* Properties.                                                             *)

(* Every variable keeps the shape the tables, the channel and the tasks    *)
(* have in the code.                                                       *)
TypeOK ==
    /\ keyEvents \subseteq [raw : Raws, at : Nat]
    /\ receipts \subseteq [aid : Aids, sn : Int, said : Saids, witness : Nat,
                           signer : Nat, signed : Saids]
    /\ duplicityLog \subseteq [aid : Aids, sn : Int, first : Saids \cup {NoSaid}, conflict : Saids]
    /\ escrow \in Seq([raw : Raws, state : {"pending", "resolved", "expired"}])
    /\ queue \in Seq(KeyEvent)
    /\ stack \in [Tasks -> Seq(Activation)]
    /\ clock \in Nat
    /\ keyPair \in Nat
    /\ submits \in Nat
    /\ responses \subseteq [raw : Raws, verdict : {"accepted", "duplicate", "escrowed", "rejected"},
                            said : Saids \cup {NoSaid}]

(* Whatever the workers race over, key_events is a set of chains: each     *)
(* stored event passed the structural checks and the prior it names is     *)
(* stored one sequence number below (validate_sequence reads that prior    *)
(* two awaits before the event is stored).                                 *)
ChainIntact ==
    \A row \in keyEvents :
        /\ StructureOk(row.raw)
        /\ row.raw.sn > 0 =>
              \E p \in InSlot(row.raw.aid, row.raw.sn - 1) : p.raw.said = row.raw.prior

(* The log of an AID has no gap: below a stored event every sequence       *)
(* number down to the inception is taken.                                  *)
KelContiguous ==
    \A row \in keyEvents : \A k \in 0..row.raw.sn : InSlot(row.raw.aid, k) # {}

(* The transaction of store_event_and_receipt keeps the two tables         *)
(* together: a slot holds an event exactly when it holds a receipt, there  *)
(* is one receipt per slot, and both the said it names and the said its    *)
(* signature covers are stored there.  (The two can differ, when two       *)
(* workers stored different events: the upsert leaves said alone.)         *)
ReceiptsMatchEvents ==
    /\ \A row \in keyEvents : \E rct \in receipts : SameSlot(rct, row.raw)
    /\ \A rct \in receipts :
          /\ \E row \in InSlot(rct.aid, rct.sn) : row.raw.said = rct.said
          /\ \E row \in InSlot(rct.aid, rct.sn) : row.raw.said = rct.signed
    /\ \A r1, r2 \in receipts : SameSlot(r1, r2) => r1 = r2

(* The duplicity log accuses no one wrongly: the first said of an entry is *)
(* stored in that slot and the conflicting one is another.                 *)
DuplicitySound ==
    \A d \in duplicityLog :
        /\ d.first # d.conflict
        /\ \E row \in InSlot(d.aid, d.sn) : row.raw.said = d.first

(* A client that was told "accepted" finds its event in key_events, after  *)
(* any crash, timeout or database error.                                   *)
AcceptedIsStored ==
    \A a \in responses : a.verdict = "accepted" =>
        \E row \in keyEvents : SameKey(row.raw, a.raw)

(* Escrow rows are closed by a replay only for events that are stored.     *)
ResolvedIsStored ==
    \A i \in 1..Len(escrow) : escrow[i].state = "resolved" =>
        \E row \in keyEvents : SameKey(row.raw, escrow[i].raw)

(* A replayed event is never escrowed again: retry_escrow_for_aid only     *)
(* replays up to the sequence number after the one just stored, and the    *)
(* log has no gap below it.                                                *)
ReplayNeverReescrows ==
    \A t \in Tasks : \A i \in 2..Len(stack[t]) : stack[t][i].pc # "escrow"

(* process_one and retry_escrow_for_aid call each other at most once: a    *)
(* replayed event has lost its signatures (parse_incoming_event), so it    *)
(* fails validate_signatures and is never stored by the replay.            *)
RecursionBounded == \A t \in Tasks : Len(stack[t]) <= 2

(* A second said enters a slot only through a task that found the slot     *)
(* empty at its own get_first_seen_said: the stale read between that await *)
(* and the commit is the only way to a fork.                               *)
ForkIsStale ==
    \A new \in keyEvents' \ keyEvents :
        InSlot(new.raw.aid, new.raw.sn) # {} =>
            \E t \in Tasks : /\ Busy(t, "commit")
                            /\ Top(t).existing = NoSaid
                            /\ Top(t).ev.raw = new.raw
ForkNeedsStaleRead == [][ForkIsStale]_vars

(* With one worker nothing races: key_events is a first-seen log, a slot   *)
(* never holds two saids and never changes the one it holds.               *)
KelLog == {[aid |-> row.raw.aid, sn |-> row.raw.sn, said |-> row.raw.said] : row \in keyEvents}
FirstSeenLog == INSTANCE FirstSeenLog WITH log <- KelLog, Digests <- Saids
IsFirstSeenLog == FirstSeenLog!Spec

(* With one worker a client that is told "accepted" gets the receipt of    *)
(* the event it sent, and the stored signature covers the said it stands   *)
(* beside.                                                                 *)
ReceiptIsOwn ==
    /\ \A a \in responses : a.verdict = "accepted" => a.said = a.raw.said
    /\ \A rct \in receipts : rct.signed = rct.said

(* With one worker the receipt of an inception, once issued, is final:     *)
(* validate_sequence refuses a second inception even when get_receipt      *)
(* failed and the event is validated again.                                *)
InceptionReceiptFinal ==
    [][\A rct \in receipts : rct.sn = 0 => rct \in receipts']_vars

(* Every call of process_one comes to an end, replays included, and every  *)
(* accepted submission is taken off the channel.                           *)
TasksFinish == \A t \in Tasks : (stack[t] # <<>>) ~> (stack[t] = <<>>)
QueueDrains == (queue # <<>>) ~> (queue = <<>>)

=============================================================================
