--------------------------- MODULE WitnessProofs ---------------------------
(***************************************************************************)
(* What holds of the witness for every set of events, workers, requests     *)
(* and bounds.  The sections prove, in this order: the types; what each     *)
(* await of process_one knows of the tables (IInv, the inductive            *)
(* invariant); the safety properties of Witness that follow; what one       *)
(* worker adds to them (SerialInv).                                         *)
(***************************************************************************)
EXTENDS Witness, StackLemmas, TLAPS

USE DEF Tasks

-----------------------------------------------------------------------------
(* Types.                                                                   *)

(* The record a task runs has the type of an activation.                    *)
LEMMA TopType ==
    ASSUME TypeOK, NEW t \in Tasks, stack[t] # <<>>
    PROVE  /\ Top(t) \in Activation
           /\ stack[t] \in Seq(Activation)
  <1>1. stack[t] \in Seq(Activation)
    BY DEF TypeOK
  <1>2. QED
    BY <1>1, LastRecord DEF Top

(* A new activation record.                                                 *)
LEMMA StartType ==
    ASSUME NEW ev \in KeyEvent
    PROVE  Start(ev) \in Activation
  BY DEF Start, Activation, PCs

(* Parsing yields a key event without signatures.                           *)
LEMMA ParseType ==
    ASSUME NEW raw \in Raws
    PROVE  Parse(raw) \in KeyEvent /\ Parse(raw).sigs = {} /\ Parse(raw).raw = raw
  BY WitnessConstants DEF Parse, KeyEvent

(* A step inside process_one keeps the stacks well typed.                   *)
LEMMA GotoType ==
    ASSUME TypeOK, NEW t \in Tasks, stack[t] # <<>>,
           NEW a \in Activation, Goto(t, a)
    PROVE  stack' \in [Tasks -> Seq(Activation)]
  <1>1. stack[t] \in Seq(Activation)
    BY DEF TypeOK
  <1>2. [stack[t] EXCEPT ![Len(stack[t])] = a] \in Seq(Activation)
    BY <1>1, ReplaceLast, Zenon
  <1>3. stack' = [stack EXCEPT ![t] = [stack[t] EXCEPT ![Len(stack[t])] = a]]
    BY DEF Goto
  <1>4. QED
    BY <1>2, <1>3 DEF TypeOK

(* What a return leaves of a stack of more than one record.                 *)
Popped(s, b) == [SubSeq(s, 1, Len(s) - 1) EXCEPT ![Len(s) - 1].child = b]

(* Taking off the last record, and noting its verdict in the one below,     *)
(* keeps a stack of activations.                                            *)
LEMMA PoppedType ==
    ASSUME NEW s \in Seq(Activation), Len(s) > 1, NEW b \in BOOLEAN
    PROVE  /\ Popped(s, b) \in Seq(Activation)
           /\ Popped(s, b) # <<>>
           /\ Len(Popped(s, b)) = Len(s) - 1
           /\ \A i \in 1..(Len(s) - 2) : Popped(s, b)[i] = s[i]
           /\ Popped(s, b)[Len(s) - 1] = [s[Len(s) - 1] EXCEPT !.child = b]
           /\ s[Len(s) - 1] \in Activation
  <1>0. Len(s) \in Nat
    BY LenProperties
  <1> DEFINE n == Len(s) - 1
  <1>1. n \in Nat \ {0} /\ Len(s) = n + 1
    <2>1. \A m \in Nat : m > 1 => m - 1 \in Nat \ {0} /\ m = m - 1 + 1
      OBVIOUS
    <2>2. QED
      BY <1>0, <2>1, Zenon
  <1> HIDE DEF n
  <1> DEFINE u == SubSeq(s, 1, n)
             c == [u[n] EXCEPT !.child = b]
  <1>2. /\ u \in Seq(Activation)
        /\ u # <<>>
        /\ Len(u) = n
        /\ \A i \in 1..n : u[i] = s[i]
    BY <1>1, DropLast
  <1>3. n \in 1..n /\ \A i \in 1..(n - 1) : i \in 1..n
    BY <1>1
  <1>4. u[n] = s[n]
    BY <1>2, <1>3
  <1> HIDE DEF u
  <1>5. u[n] \in Activation
    BY <1>2, LastRecord
  <1>6. c \in Activation
    BY <1>5 DEF Activation
  <1> HIDE DEF c
  <1>7. /\ [u EXCEPT ![n] = c] \in Seq(Activation)
        /\ Len([u EXCEPT ![n] = c]) = n
        /\ [u EXCEPT ![n] = c][n] = c
        /\ \A i \in 1..(n - 1) : [u EXCEPT ![n] = c][i] = u[i]
    BY <1>2, <1>6, ReplaceLast
  <1>8. Popped(s, b) = [u EXCEPT ![n] = c]
    BY DEF Popped, u, c, n
  <1>9. [u EXCEPT ![n] = c] # <<>>
    BY <1>7, <1>1, EmptySeq
  <1>10. n - 1 = Len(s) - 2 /\ n = Len(s) - 1
    BY <1>1
  <1>11. \A i \in 1..(n - 1) : u[i] = s[i]
    BY <1>2, <1>3
  <1>12. QED
    BY <1>4, <1>5, <1>7, <1>8, <1>9, <1>10, <1>11 DEF c

Verdicts == {"accepted", "duplicate", "escrowed", "rejected"}
Responses == [raw : Raws, verdict : Verdicts, said : Saids \cup {NoSaid}]

(* Returning keeps the stacks and the answers well typed.                   *)
LEMMA ReturnType ==
    ASSUME TypeOK, NEW t \in Tasks, stack[t] # <<>>,
           NEW verdict \in Verdicts, NEW said \in Saids \cup {NoSaid},
           Return(t, verdict, said)
    PROVE  /\ stack' \in [Tasks -> Seq(Activation)]
           /\ responses' \subseteq Responses
  <1>1. stack[t] \in Seq(Activation) /\ Top(t) \in Activation
    BY TopType
  <1>2. responses \subseteq Responses
    BY DEF TypeOK, Responses, Verdicts
  <1>3. Top(t).ev.raw \in Raws
    BY <1>1 DEF Activation, KeyEvent
  <1>4. CASE Len(stack[t]) > 1
    <2> DEFINE b == (verdict = "accepted")
    <2>1. Popped(stack[t], b) \in Seq(Activation)
      BY <1>1, <1>4, PoppedType
    <2>2. stack' = [stack EXCEPT ![t] = Popped(stack[t], b)] /\ responses' = responses
      BY <1>4 DEF Return, Popped
    <2>3. QED
      BY <2>1, <2>2, <1>2 DEF TypeOK
  <1>5. CASE ~(Len(stack[t]) > 1)
    <2>1. stack' = [stack EXCEPT ![t] = <<>>]
      BY <1>5 DEF Return
    <2>2. stack' \in [Tasks -> Seq(Activation)]
      BY <2>1 DEF TypeOK
    <2>3. [raw |-> Top(t).ev.raw, verdict |-> verdict, said |-> said] \in Responses
      BY <1>3 DEF Responses
    <2>4. responses' \in {responses, responses \cup
              {[raw |-> Top(t).ev.raw, verdict |-> verdict, said |-> said]}}
      BY <1>5 DEF Return, Top
    <2>5. QED
      BY <2>2, <2>3, <2>4, <1>2
  <1>6. QED
    BY <1>4, <1>5

-----------------------------------------------------------------------------
(* What a task knows of the tables.  K stands for keyEvents and E for       *)
(* escrow, so that the lemmas can be used before and after a step.          *)

StoredIn(K, r) == \E row \in K : SameKey(row.raw, r)

PriorIn(K, r) ==
    r.sn > 0 => \E row \in K : /\ row.raw.aid = r.aid
                              /\ row.raw.sn = r.sn - 1
                              /\ row.raw.said = r.prior

Storing == {"begin", "commit"}
Replaying == {"fetch_escrow", "replay", "settle"}

(* existing is a said of the slot, stale or not; past the checks the event  *)
(* has its prior and signatures; past the commit it is stored.              *)
ActivationOk(a, K) ==
    /\ a.existing # NoSaid =>
          \E row \in K : SameSlot(row.raw, a.ev.raw) /\ row.raw.said = a.existing
    /\ a.pc = "first_seen" => a.existing = NoSaid
    /\ a.pc = "record_duplicity" => a.existing # NoSaid /\ a.existing # a.ev.raw.said
    /\ a.pc = "get_receipt" => a.existing = a.ev.raw.said
    /\ a.pc # "record_duplicity" => a.existing \in {NoSaid, a.ev.raw.said}
    /\ a.pc \in Storing => StructureOk(a.ev.raw) /\ PriorIn(K, a.ev.raw)
    /\ a.pc \in Storing \cup Replaying => SignaturesOk(a.ev)
    /\ a.pc \in Replaying => StoredIn(K, a.ev.raw)

(* The rows left to replay are of the AID just extended and at most one     *)
(* sequence number ahead.                                                   *)
PendingOk(a, E) ==
    \A k \in a.pending : /\ k \in 1..Len(E)
                         /\ E[k].raw.aid = a.ev.raw.aid
                         /\ E[k].raw.sn <= a.ev.raw.sn + 1

(* A record about to settle an accepted child is about a stored event.      *)
ChildOk(a, K, E) ==
    a.pc = "settle" /\ a.child =>
        \A k \in a.pending : NextPending(a, k) => StoredIn(K, E[k].raw)

RecordsOk(s, K, E) ==
    /\ Len(s) <= 2
    /\ \A i \in 1..Len(s) : ActivationOk(s[i], K) /\ PendingOk(s[i], E)
    /\ Len(s) = 1 => ChildOk(s[1], K, E)
    /\ Len(s) = 2 =>
          /\ s[1].pc = "settle"
          /\ s[2].ev.sigs = {}
          /\ s[2].pc # "escrow"
          /\ \E k \in s[1].pending : NextPending(s[1], k) /\ s[2].ev.raw = E[k].raw

StackOk == \A t \in Tasks : RecordsOk(stack[t], keyEvents, escrow)

(* What StackOk says of the running record.                                 *)
LEMMA TopOk ==
    ASSUME TypeOK, StackOk, NEW t \in Tasks, stack[t] # <<>>
    PROVE  ActivationOk(Top(t), keyEvents) /\ PendingOk(Top(t), escrow)
  <1>1. stack[t] \in Seq(Activation)
    BY DEF TypeOK
  <1>2. Len(stack[t]) \in 1..Len(stack[t])
    BY <1>1, LastRecord
  <1>3. QED
    BY <1>2 DEF StackOk, RecordsOk, Top

-----------------------------------------------------------------------------
(* Every await of process_one keeps the types.                              *)

(* A step that only moves the running record keeps the types.               *)
LEMMA GotoStepType ==
    ASSUME TypeOK, NEW t \in Tasks, stack[t] # <<>>, NEW a \in Activation, Goto(t, a),
           UNCHANGED <<db, queue, keyPair, submits, responses>>, clock' \in Nat
    PROVE  TypeOK'
  <1>1. stack' \in [Tasks -> Seq(Activation)]
    BY GotoType
  <1>2. QED
    BY <1>1 DEF TypeOK, db

(* So does a step that only returns.                                        *)
LEMMA ReturnStepType ==
    ASSUME TypeOK, NEW t \in Tasks, stack[t] # <<>>,
           NEW verdict \in Verdicts, NEW said \in Saids \cup {NoSaid},
           Return(t, verdict, said),
           UNCHANGED <<db, queue, clock, keyPair, submits>>
    PROVE  TypeOK'
  <1>1. stack' \in [Tasks -> Seq(Activation)] /\ responses' \subseteq Responses
    BY ReturnType
  <1>2. QED
    BY <1>1 DEF TypeOK, db, Responses, Verdicts

EscrowRow == [raw : Raws, state : {"pending", "resolved", "expired"}]
Receipt == [aid : Aids, sn : Int, said : Saids, witness : Nat, signer : Nat,
            signed : Saids]

(* Closing an escrow row leaves the table a sequence of rows.               *)
LEMMA CloseRowType ==
    ASSUME NEW e \in Seq(EscrowRow), NEW i
    PROVE  [e EXCEPT ![i].state = "resolved"] \in Seq(EscrowRow)
  <1>1. CASE i \in 1..Len(e)
    <2>1. [e[i] EXCEPT !.state = "resolved"] \in EscrowRow
      <3>1. e[i] \in EscrowRow
        BY <1>1, LenProperties
      <3>2. QED
        BY <3>1 DEF EscrowRow
    <2>2. QED
      BY <1>1, <2>1, ExceptSeq
  <1>2. CASE i \notin 1..Len(e)
    <2>1. e \in [1..Len(e) -> EscrowRow] /\ DOMAIN e = 1..Len(e)
      BY LenProperties
    <2>2. [e EXCEPT ![i].state = "resolved"] = e
      BY <1>2, <2>1, Zenon
    <2>3. QED
      BY <2>2
  <1>3. QED
    BY <1>1, <1>2

(* Each await of process_one keeps the types.                               *)
LEMMA ProcessOneType ==
    ASSUME TypeOK, StackOk, NEW t \in Tasks, ProcessOne(t)
    PROVE  TypeOK'
  <1> DEFINE a == Top(t)
             r == a.ev.raw
  <1>1. stack[t] # <<>>
    BY DEF ProcessOne, Busy, RejectOnDbError, CheckFirstSeen, RecordDuplicity,
           GetReceipt, Validate, EscrowEvent, BeginStore, CommitStore, FetchEscrow,
           Replay, Settle, FinishReplay
  <1>2. a \in Activation /\ stack[t] \in Seq(Activation)
    BY <1>1, TopType
  <1>3. a.ev \in KeyEvent /\ r \in Raws /\ r \in Raw
    BY <1>2, WitnessConstants DEF Activation, KeyEvent
  <1>4. r.aid \in Aids /\ r.sn \in Int /\ r.said \in Saids
    BY <1>3 DEF Raw
  <1>5. /\ \A pc \in PCs : [a EXCEPT !.pc = pc] \in Activation
        /\ \A pc \in PCs, x \in Saids : [a EXCEPT !.existing = x, !.pc = pc] \in Activation
        /\ \A pc \in PCs, n \in Nat : [a EXCEPT !.pc = pc, !.at = n] \in Activation
        /\ \A pc \in PCs, ids \in SUBSET Nat :
              [a EXCEPT !.pc = pc, !.pending = ids] \in Activation
    BY <1>2 DEF Activation
  <1>6. {"validate", "record_duplicity", "get_receipt", "escrow", "begin", "commit",
         "fetch_escrow", "replay", "settle"} \subseteq PCs
    BY DEF PCs
  <1>7. {"accepted", "duplicate", "escrowed", "rejected"} \subseteq Verdicts
    BY DEF Verdicts
  <1>8. \A row \in keyEvents : row.raw.said \in Saids
    BY WitnessConstants DEF TypeOK, Raw
  <1>9. clock \in Nat /\ clock + 1 \in Nat
    BY DEF TypeOK
  <1> HIDE DEF a, r
  <1>11. CASE RejectOnDbError(t)
    BY <1>1, <1>7, <1>11, ReturnStepType DEF RejectOnDbError
  <1>12. CASE CheckFirstSeen(t)
    <2>1. PICK b \in Activation : Goto(t, b)
      BY <1>5, <1>6, <1>8, <1>12 DEF CheckFirstSeen, AfterFirstSeen, a, r
    <2>2. UNCHANGED <<db, queue, clock, keyPair, submits, responses>>
      BY <1>12 DEF CheckFirstSeen
    <2>3. QED
      BY <1>1, <1>9, <2>1, <2>2, GotoStepType
  <1>13. CASE RecordDuplicity(t)
    <2>1. stack' \in [Tasks -> Seq(Activation)] /\ responses' \subseteq Responses
      BY <1>1, <1>7, <1>13, ReturnType DEF RecordDuplicity
    <2>2. duplicityLog' \in {duplicityLog, duplicityLog \cup {DuplicityEntry(a)}}
      BY <1>13 DEF RecordDuplicity, a
    <2>3. DuplicityEntry(a) \in [aid : Aids, sn : Int, first : Saids \cup {NoSaid},
                                 conflict : Saids]
      BY <1>2, <1>4 DEF DuplicityEntry, Activation, r
    <2>4. UNCHANGED <<keyEvents, receipts, escrow, queue, clock, keyPair, submits>>
      BY <1>13 DEF RecordDuplicity
    <2>5. QED
      BY <2>1, <2>2, <2>3, <2>4 DEF TypeOK, Responses, Verdicts
  <1>14. CASE GetReceipt(t)
    <2>1. UNCHANGED <<db, queue, clock, keyPair, submits>>
      BY <1>14 DEF GetReceipt
    <2>2. CASE \E rct \in receipts : Return(t, "accepted", rct.said)
      <3>1. \A rct \in receipts : rct.said \in Saids
        BY DEF TypeOK
      <3>2. QED
        BY <1>1, <1>7, <2>1, <2>2, <3>1, ReturnStepType
    <2>3. CASE Goto(t, [a EXCEPT !.pc = "validate"]) /\ UNCHANGED responses
      BY <1>1, <1>5, <1>6, <1>9, <2>1, <2>3, GotoStepType
    <2>4. QED
      BY <1>14, <2>2, <2>3 DEF GetReceipt, a
  <1>15. CASE Validate(t)
    <2>1. UNCHANGED <<db, queue, clock, keyPair, submits>>
      BY <1>15 DEF Validate
    <2>2. CASE Return(t, "rejected", NoSaid)
      BY <1>1, <1>7, <2>1, <2>2, ReturnStepType
    <2>3. CASE \E pc \in PCs : Goto(t, [a EXCEPT !.pc = pc]) /\ UNCHANGED responses
      BY <1>1, <1>5, <1>9, <2>1, <2>3, GotoStepType
    <2>4. QED
      BY <1>6, <1>15, <2>2, <2>3 DEF Validate, a
  <1>16. CASE EscrowEvent(t)
    <2>1. stack' \in [Tasks -> Seq(Activation)] /\ responses' \subseteq Responses
      BY <1>1, <1>7, <1>16, ReturnType DEF EscrowEvent
    <2>2. escrow' \in Seq(EscrowRow)
      <3>1. [raw |-> r, state |-> "pending"] \in EscrowRow
        BY <1>3 DEF EscrowRow
      <3>2. escrow' \in {escrow, Append(escrow, [raw |-> r, state |-> "pending"])}
        BY <1>16 DEF EscrowEvent, a, r
      <3>3. escrow \in Seq(EscrowRow)
        BY DEF TypeOK, EscrowRow
      <3>4. QED
        BY <3>1, <3>2, <3>3, AppendProperties
    <2>3. UNCHANGED <<keyEvents, receipts, duplicityLog, queue, clock, keyPair, submits>>
      BY <1>16 DEF EscrowEvent
    <2>4. QED
      BY <2>1, <2>2, <2>3 DEF TypeOK, Responses, Verdicts, EscrowRow
  <1>17. CASE BeginStore(t)
    BY <1>1, <1>5, <1>6, <1>9, <1>17, GotoStepType DEF BeginStore, a
  <1>18. CASE CommitStore(t)
    <2>1. Goto(t, [a EXCEPT !.pc = "fetch_escrow"])
      BY <1>18 DEF CommitStore, a
    <2>2. stack' \in [Tasks -> Seq(Activation)]
      BY <1>1, <1>5, <1>6, <2>1, GotoType
    <2>3. keyEvents' \subseteq [raw : Raws, at : Nat]
      <3>1. a.at \in Nat
        BY <1>2 DEF Activation
      <3>2. keyEvents' \in {keyEvents, keyEvents \cup {[raw |-> r, at |-> a.at]}}
        BY <1>18 DEF CommitStore, StoreEvent, a, r
      <3>3. QED
        BY <1>3, <3>1, <3>2 DEF TypeOK
    <2>4. receipts' \subseteq Receipt
      <3>1. receipts \subseteq Receipt /\ keyPair \in Nat
        BY DEF TypeOK, Receipt
      <3>2. \A rct \in Receipt : [rct EXCEPT !.signer = keyPair, !.signed = r.said] \in Receipt
        BY <1>4, <3>1 DEF Receipt
      <3>3. [aid |-> r.aid, sn |-> r.sn, said |-> r.said, witness |-> keyPair,
             signer |-> keyPair, signed |-> r.said] \in Receipt
        BY <1>4, <3>1 DEF Receipt
      <3>4. StoreReceipt(r)
        BY <1>18 DEF CommitStore, a, r
      <3>5. QED
        BY <3>1, <3>2, <3>3, <3>4 DEF StoreReceipt
    <2>5. UNCHANGED <<duplicityLog, escrow, queue, clock, keyPair, submits, responses>>
      BY <1>18 DEF CommitStore
    <2>6. QED
      BY <2>2, <2>3, <2>4, <2>5 DEF TypeOK, Receipt
  <1>19. CASE FetchEscrow(t)
    <2>1. \A ids \in {{}, Replayable(r)} : ids \in SUBSET Nat
      <3>1. 1..Len(escrow) \subseteq Nat
        BY LenProperties DEF TypeOK
      <3>2. QED
        BY <3>1 DEF Replayable, PendingEscrow
    <2>2. \E ids \in {{}, Replayable(r)} : Goto(t, [a EXCEPT !.pc = "replay", !.pending = ids])
      BY <1>19 DEF FetchEscrow, a, r
    <2>3. UNCHANGED <<db, queue, clock, keyPair, submits, responses>>
      BY <1>19 DEF FetchEscrow
    <2>4. QED
      BY <1>1, <1>5, <1>6, <1>9, <2>1, <2>2, <2>3, GotoStepType
  <1>20. CASE Replay(t)
    <2> DEFINE u == [stack[t] EXCEPT ![Len(stack[t])] = [a EXCEPT !.pc = "settle"]]
    <2>1. PICK i \in a.pending :
              /\ i \in 1..Len(escrow)
              /\ stack' = [stack EXCEPT ![t] = Append(u, Start(Parse(escrow[i].raw)))]
      <3>1. PendingOk(a, escrow)
        BY <1>1, TopOk DEF a
      <3>2. \A i \in a.pending : i \in 1..Len(escrow)
        BY <3>1 DEF PendingOk
      <3>3. PICK i \in a.pending :
                stack' = [stack EXCEPT ![t] =
                    Append([stack[t] EXCEPT ![Len(stack[t])] = [a EXCEPT !.pc = "settle"]],
                           Start(Parse(escrow[i].raw)))]
        BY <1>20 DEF Replay, a
      <3>4. QED
        BY <3>2, <3>3
    <2>2. u \in Seq(Activation)
      BY <1>1, <1>2, <1>5, <1>6, ReplaceLast, Zenon
    <2>3. Start(Parse(escrow[i].raw)) \in Activation
      <3>1. escrow[i] \in EscrowRow
        <4>1. escrow \in Seq(EscrowRow)
          BY DEF TypeOK, EscrowRow
        <4>2. QED
          BY <2>1, <4>1, LenProperties
      <3>2. QED
        BY <3>1, ParseType, StartType DEF EscrowRow
    <2> HIDE DEF u
    <2>4. Append(u, Start(Parse(escrow[i].raw))) \in Seq(Activation)
      BY <2>2, <2>3, Push
    <2>5. stack' \in [Tasks -> Seq(Activation)]
      BY <2>1, <2>4 DEF TypeOK
    <2>6. UNCHANGED <<db, queue, clock, keyPair, submits, responses>>
      BY <1>20 DEF Replay
    <2>7. QED
      BY <2>5, <2>6 DEF TypeOK, db
  <1>21. CASE Settle(t)
    <2>1. PICK i \in a.pending :
              /\ SettleRow(a, i)
              /\ Goto(t, [a EXCEPT !.pc = "replay", !.pending = RowsAfter(a, i)])
      BY <1>21 DEF Settle, a
    <2>2. RowsAfter(a, i) \in SUBSET Nat
      BY <1>2 DEF RowsAfter, Activation
    <2>3. stack' \in [Tasks -> Seq(Activation)]
      BY <1>1, <1>5, <1>6, <2>1, <2>2, GotoType
    <2>4. escrow' \in Seq(EscrowRow)
      BY <2>1, CloseRowType DEF SettleRow, TypeOK, EscrowRow
    <2>5. UNCHANGED <<keyEvents, receipts, duplicityLog, queue, clock, keyPair,
                      submits, responses>>
      BY <1>21 DEF Settle
    <2>6. QED
      BY <2>3, <2>4, <2>5 DEF TypeOK, EscrowRow
  <1>22. CASE FinishReplay(t)
    BY <1>1, <1>4, <1>7, <1>22, ReturnStepType DEF FinishReplay, a, r
  <1>23. QED
    BY <1>11, <1>12, <1>13, <1>14, <1>15, <1>16, <1>17, <1>18, <1>19, <1>20, <1>21,
       <1>22 DEF ProcessOne

-----------------------------------------------------------------------------
(* Growing the tables and moving along a stack keep what tasks know.        *)

(* Rows are added to key_events and escrow_events, and never lose their     *)
(* event.                                                                   *)
Grows(K, L, E, F) ==
    /\ K \subseteq L
    /\ \A k \in 1..Len(E) : k \in 1..Len(F) /\ F[k].raw = E[k].raw

(* Records that were fine stay fine when the tables only grow.              *)
LEMMA GrowRecords ==
    ASSUME NEW s, NEW K, NEW L, NEW E, NEW F, Grows(K, L, E, F), RecordsOk(s, K, E),
           Len(s) \in Nat
    PROVE  RecordsOk(s, L, F)
  <1>1. \A r : StoredIn(K, r) => StoredIn(L, r)
    BY DEF Grows, StoredIn
  <1>2. \A r : PriorIn(K, r) => PriorIn(L, r)
    BY DEF Grows, PriorIn
  <1>3. \A x : ActivationOk(x, K) => ActivationOk(x, L)
    BY <1>1, <1>2 DEF Grows, ActivationOk
  <1>4. \A x : PendingOk(x, E) => PendingOk(x, F)
    BY DEF Grows, PendingOk
  <1>5. \A x : PendingOk(x, E) /\ ChildOk(x, K, E) => ChildOk(x, L, F)
    BY <1>1 DEF Grows, PendingOk, ChildOk
  <1>6. Len(s) <= 2 /\ \A i \in 1..Len(s) : ActivationOk(s[i], K) /\ PendingOk(s[i], E)
    BY DEF RecordsOk
  <1>7. Len(s) = 1 => ChildOk(s[1], L, F)
    <2>1. Len(s) = 1 => 1 \in 1..Len(s)
      OBVIOUS
    <2>2. QED
      BY <1>5, <1>6, <2>1 DEF RecordsOk
  <1>8. Len(s) = 2 => \E k \in s[1].pending : NextPending(s[1], k) /\ s[2].ev.raw = F[k].raw
    <2>1. Len(s) = 2 => 1 \in 1..Len(s)
      OBVIOUS
    <2>2. Len(s) = 2 => \A k \in s[1].pending : F[k].raw = E[k].raw
      BY <1>6, <2>1 DEF Grows, PendingOk
    <2>3. QED
      BY <2>2 DEF RecordsOk
  <1>9. QED
    BY <1>3, <1>4, <1>6, <1>7, <1>8 DEF RecordsOk

(* The running record may change as long as it still knows what it should.  *)
LEMMA ReplaceRecord ==
    ASSUME NEW K, NEW E, NEW s \in Seq(Activation), s # <<>>, RecordsOk(s, K, E),
           NEW a \in Activation, ActivationOk(a, K), PendingOk(a, E),
           a.ev = s[Len(s)].ev,
           Len(s) = 2 => a.pc # "escrow",
           Len(s) = 1 => ChildOk(a, K, E)
    PROVE  RecordsOk([s EXCEPT ![Len(s)] = a], K, E)
  <1> DEFINE u == [s EXCEPT ![Len(s)] = a]
  <1>1. /\ Len(s) \in Nat \ {0}
        /\ Len(u) = Len(s)
        /\ u[Len(s)] = a
        /\ \A i \in 1..(Len(s) - 1) : u[i] = s[i]
    BY ReplaceLast
  <1> HIDE DEF u
  <1>2. Len(s) = 1 \/ Len(s) = 2
    BY <1>1 DEF RecordsOk
  <1>3. CASE Len(s) = 1
    <2>1. u[1] = a /\ \A i \in 1..Len(u) : i = 1
      BY <1>1, <1>3
    <2>2. QED
      BY <1>1, <1>3, <2>1 DEF RecordsOk, u
  <1>4. CASE Len(s) = 2
    <2>1. 1 \in 1..(Len(s) - 1) /\ 1 \in 1..Len(s) /\ \A i \in 1..Len(s) : i = 1 \/ i = 2
      BY <1>4
    <2>2. u[2] = a /\ u[1] = s[1]
      BY <1>1, <1>4, <2>1
    <2>3. ActivationOk(s[1], K) /\ PendingOk(s[1], E)
      BY <2>1 DEF RecordsOk
    <2>4. \A i \in 1..Len(u) : ActivationOk(u[i], K) /\ PendingOk(u[i], E)
      BY <1>1, <2>1, <2>2, <2>3
    <2>5. QED
      BY <1>1, <1>4, <2>2, <2>4 DEF RecordsOk, u
  <1>5. QED
    BY <1>2, <1>3, <1>4

(* A replayed event that was accepted is stored when its caller goes on.    *)
LEMMA PopRecord ==
    ASSUME NEW K, NEW E, NEW s \in Seq(Activation), Len(s) > 1, RecordsOk(s, K, E),
           NEW b \in BOOLEAN, b => StoredIn(K, s[Len(s)].ev.raw)
    PROVE  RecordsOk(Popped(s, b), K, E)
  <1>1. Len(s) = 2
    <2>1. Len(s) \in Nat /\ Len(s) <= 2
      BY LenProperties DEF RecordsOk
    <2>2. \A m \in Nat : m <= 2 /\ m > 1 => m = 2
      OBVIOUS
    <2>3. QED
      BY <2>1, <2>2, Zenon
  <1> DEFINE c == [s[1] EXCEPT !.child = b]
  <1>2. /\ Popped(s, b) \in Seq(Activation)
        /\ Len(Popped(s, b)) = 1
        /\ Popped(s, b)[1] = c
        /\ s[1] \in Activation
    <2>1. Len(s) - 1 = 1
      BY <1>1
    <2>2. QED
      BY <2>1, PoppedType
  <1>3. /\ c.ev = s[1].ev /\ c.pc = s[1].pc /\ c.existing = s[1].existing
        /\ c.pending = s[1].pending /\ c.child = b
    BY <1>2 DEF Activation
  <1> HIDE DEF c
  <1>4. ActivationOk(s[1], K) /\ PendingOk(s[1], E)
    <2>1. 1 \in 1..Len(s)
      BY <1>1
    <2>2. QED
      BY <2>1 DEF RecordsOk
  <1>5. ActivationOk(c, K) /\ PendingOk(c, E)
    BY <1>3, <1>4 DEF ActivationOk, PendingOk
  <1>6. ChildOk(c, K, E)
    <2>1. PICK k \in s[1].pending : NextPending(s[1], k) /\ s[2].ev.raw = E[k].raw
      BY <1>1 DEF RecordsOk
    <2>2. s[1].pending \subseteq Nat
      BY <1>2 DEF Activation
    <2>3. \A j \in c.pending : NextPending(c, j) => j = k
      BY <1>3, <2>1, <2>2 DEF NextPending
    <2>4. b => StoredIn(K, E[k].raw)
      BY <1>1, <2>1
    <2>5. QED
      BY <1>3, <2>3, <2>4 DEF ChildOk
  <1>7. \A i \in 1..Len(Popped(s, b)) : i = 1
    BY <1>2
  <1>8. QED
    BY <1>2, <1>5, <1>6, <1>7 DEF RecordsOk

(* process_one called by the replay of row k starts knowing nothing.        *)
LEMMA PushRecord ==
    ASSUME NEW K, NEW E, NEW s \in Seq(Activation), Len(s) = 1,
           NEW a \in Activation, s[1] = a, ActivationOk(a, K), PendingOk(a, E),
           a.pc = "settle", NEW k \in a.pending, NextPending(a, k),
           NEW b \in Activation, b = Start(Parse(E[k].raw))
    PROVE  RecordsOk(Append(s, b), K, E)
  <1>1. /\ Len(Append(s, b)) = 2
        /\ Append(s, b)[1] = a
        /\ Append(s, b)[2] = b
    <2>1. \A x \in Seq(Activation), y \in Activation :
              Len(x) = 1 => /\ Len(Append(x, y)) = 2
                            /\ Append(x, y)[1] = x[1]
                            /\ Append(x, y)[2] = y
      BY PushSecond
    <2>2. QED
      BY <2>1, Zenon
  <1>2. /\ b.ev.sigs = {} /\ b.ev.raw = E[k].raw /\ b.pc = "first_seen"
        /\ b.existing = NoSaid /\ b.pending = {}
    BY DEF Start, Parse
  <1>3. ActivationOk(b, K) /\ PendingOk(b, E)
    BY <1>2 DEF ActivationOk, PendingOk, Storing, Replaying
  <1>4. \A i \in 1..2 : i = 1 \/ i = 2
    OBVIOUS
  <1>5. QED
    BY <1>1, <1>2, <1>3, <1>4 DEF RecordsOk

(* A stack with one fresh record, as Receive and Request leave it.          *)
LEMMA FreshRecord ==
    ASSUME NEW K, NEW E, NEW ev \in KeyEvent
    PROVE  RecordsOk(<<Start(ev)>>, K, E)
  <1> DEFINE b == Start(ev)
  <1>1. Len(<<b>>) = 1 /\ <<b>>[1] = b
    OBVIOUS
  <1>2. b.pc = "first_seen" /\ b.existing = NoSaid /\ b.pending = {}
    BY DEF Start
  <1> HIDE DEF b
  <1>3. ActivationOk(b, K) /\ PendingOk(b, E) /\ ChildOk(b, K, E)
    BY <1>2 DEF ActivationOk, PendingOk, ChildOk, Storing, Replaying
  <1>4. \A i \in 1..1 : i = 1
    OBVIOUS
  <1>5. RecordsOk(<<b>>, K, E)
    BY <1>1, <1>3, <1>4 DEF RecordsOk
  <1>6. QED
    BY <1>5 DEF b

(* A step inside process_one, with whatever it adds to the tables.          *)
LEMMA GotoOk ==
    ASSUME TypeOK, StackOk, NEW t \in Tasks, stack[t] # <<>>,
           NEW a \in Activation, Goto(t, a),
           Grows(keyEvents, keyEvents', escrow, escrow'),
           ActivationOk(a, keyEvents'), PendingOk(a, escrow'), a.ev = Top(t).ev,
           Len(stack[t]) = 2 => a.pc # "escrow",
           a.pc # "settle"
    PROVE  StackOk'
  <1>1. \A u \in Tasks : RecordsOk(stack[u], keyEvents', escrow')
    <2>1. \A u \in Tasks : Len(stack[u]) \in Nat
      BY LenProperties DEF TypeOK
    <2>2. QED
      BY <2>1, GrowRecords DEF StackOk
  <1>2. stack[t] \in Seq(Activation)
    BY DEF TypeOK
  <1>3. ChildOk(a, keyEvents', escrow')
    BY DEF ChildOk
  <1>4. a.ev = stack[t][Len(stack[t])].ev
    BY DEF Top
  <1>5. RecordsOk([stack[t] EXCEPT ![Len(stack[t])] = a], keyEvents', escrow')
    BY <1>1, <1>2, <1>3, <1>4, ReplaceRecord
  <1>6. stack' = [stack EXCEPT ![t] = [stack[t] EXCEPT ![Len(stack[t])] = a]]
    BY DEF Goto
  <1>7. \A u \in Tasks : RecordsOk(stack'[u], keyEvents', escrow')
    BY <1>1, <1>5, <1>6 DEF TypeOK
  <1>8. QED
    BY <1>7 DEF StackOk

(* A return.  The empty stack knows nothing.                                *)
LEMMA ReturnOk ==
    ASSUME TypeOK, StackOk, NEW t \in Tasks, stack[t] # <<>>,
           NEW verdict \in Verdicts, NEW said, Return(t, verdict, said),
           Grows(keyEvents, keyEvents', escrow, escrow'),
           verdict = "accepted" => StoredIn(keyEvents', Top(t).ev.raw)
    PROVE  StackOk'
  <1>1. \A u \in Tasks : RecordsOk(stack[u], keyEvents', escrow')
    <2>1. \A u \in Tasks : Len(stack[u]) \in Nat
      BY LenProperties DEF TypeOK
    <2>2. QED
      BY <2>1, GrowRecords DEF StackOk
  <1>2. stack[t] \in Seq(Activation)
    BY DEF TypeOK
  <1>3. CASE Len(stack[t]) > 1
    <2> DEFINE b == (verdict = "accepted")
    <2>1. b => StoredIn(keyEvents', stack[t][Len(stack[t])].ev.raw)
      BY DEF Top
    <2>2. RecordsOk(Popped(stack[t], b), keyEvents', escrow')
      BY <1>1, <1>2, <1>3, <2>1, PopRecord
    <2>3. stack' = [stack EXCEPT ![t] = Popped(stack[t], b)]
      BY <1>3 DEF Return, Popped
    <2>4. \A u \in Tasks : RecordsOk(stack'[u], keyEvents', escrow')
      BY <1>1, <2>2, <2>3 DEF TypeOK
    <2>5. QED
      BY <2>4 DEF StackOk
  <1>4. CASE ~(Len(stack[t]) > 1)
    <2>1. stack' = [stack EXCEPT ![t] = <<>>]
      BY <1>4 DEF Return
    <2>2. RecordsOk(<<>>, keyEvents', escrow')
      BY DEF RecordsOk
    <2>3. \A u \in Tasks : RecordsOk(stack'[u], keyEvents', escrow')
      BY <1>1, <2>1, <2>2 DEF TypeOK
    <2>4. QED
      BY <2>3 DEF StackOk
  <1>5. QED
    BY <1>3, <1>4

(* Nothing changes in the tables.                                           *)
LEMMA GrowsRefl ==
    ASSUME TypeOK, UNCHANGED <<keyEvents, escrow>>
    PROVE  Grows(keyEvents, keyEvents', escrow, escrow')
  BY DEF Grows

-----------------------------------------------------------------------------
(* The inductive invariant.                                                 *)

IInv == /\ TypeOK
        /\ StackOk
        /\ ChainIntact
        /\ KelContiguous
        /\ ReceiptsMatchEvents
        /\ DuplicitySound
        /\ AcceptedIsStored
        /\ ResolvedIsStored

(* A replayed event never misses its prior: the event its caller stored is  *)
(* at most one sequence number below, and the log has no gap.               *)
LEMMA ReplayHasPrior ==
    ASSUME TypeOK, StackOk, KelContiguous, NEW t \in Tasks, Len(stack[t]) = 2,
           Top(t).ev.raw.sn >= 0
    PROVE  ~MissingPrior(Top(t).ev.raw)
  <1> DEFINE s == stack[t]
             r == Top(t).ev.raw
  <1>1. RecordsOk(s, keyEvents, escrow) /\ s \in Seq(Activation)
    BY DEF StackOk, TypeOK
  <1>2. 1 \in 1..Len(s) /\ 2 \in 1..Len(s)
    OBVIOUS
  <1>3. s[1] \in Activation /\ s[2] \in Activation
    BY <1>1, <1>2, LenProperties
  <1>4. r = s[2].ev.raw
    BY DEF Top
  <1> HIDE DEF s
  <1>5. /\ s[1].pc = "settle"
        /\ ActivationOk(s[1], keyEvents) /\ PendingOk(s[1], escrow)
        /\ \E k \in s[1].pending : s[2].ev.raw = escrow[k].raw
    BY <1>1, <1>2 DEF RecordsOk, s
  <1>6. PICK row \in keyEvents : SameKey(row.raw, s[1].ev.raw)
    BY <1>5 DEF ActivationOk, Replaying, StoredIn
  <1>7. r.aid = s[1].ev.raw.aid /\ r.sn <= s[1].ev.raw.sn + 1
    BY <1>4, <1>5 DEF PendingOk
  <1>8. r.sn \in Int /\ s[1].ev.raw.sn \in Int
    BY <1>3, <1>4, WitnessConstants DEF Activation, KeyEvent, Raw
  <1>9. row.raw.aid = r.aid /\ row.raw.sn = s[1].ev.raw.sn
    BY <1>6, <1>7 DEF SameKey, SameSlot
  <1>10. r.sn # 0 => r.sn - 1 \in 0..row.raw.sn
    BY <1>7, <1>8, <1>9
  <1>11. QED
    BY <1>9, <1>10 DEF KelContiguous, MissingPrior

(* The awaits that add nothing to the tables keep StackOk.                  *)
LEMMA ReadStackOk ==
    ASSUME TypeOK, StackOk, KelContiguous, NEW t \in Tasks,
           \/ RejectOnDbError(t) \/ CheckFirstSeen(t) \/ RecordDuplicity(t)
           \/ GetReceipt(t) \/ Validate(t) \/ BeginStore(t) \/ FetchEscrow(t)
           \/ FinishReplay(t)
    PROVE  StackOk'
  <1> DEFINE a == Top(t)
             r == a.ev.raw
  <1>1. stack[t] # <<>> /\ UNCHANGED <<keyEvents, escrow>>
    BY DEF Busy, RejectOnDbError, CheckFirstSeen, RecordDuplicity, GetReceipt, Validate,
           BeginStore, FetchEscrow, FinishReplay, db
  <1>2. Grows(keyEvents, keyEvents', escrow, escrow')
    BY <1>1, GrowsRefl
  <1>3. a \in Activation /\ ActivationOk(a, keyEvents) /\ PendingOk(a, escrow)
    BY <1>1, TopType, TopOk
  <1>4. a.ev \in KeyEvent /\ r \in Raw /\ r.sn \in Int /\ r.aid \in Aids /\ r.said # NoSaid
    BY <1>3, WitnessConstants DEF Activation, KeyEvent, Raw
  <1>5. "settle" \notin {"validate", "record_duplicity", "get_receipt", "escrow",
                        "begin", "commit", "fetch_escrow", "replay"}
    OBVIOUS
  <1>6. keyEvents' = keyEvents /\ escrow' = escrow
    BY <1>1
  <1> HIDE DEF a, r
  <1>11. CASE RejectOnDbError(t)
    BY <1>1, <1>2, <1>11, ReturnOk DEF RejectOnDbError, Verdicts
  <1>12. CASE CheckFirstSeen(t)
    <2>1. a.pc = "first_seen"
      BY <1>12 DEF CheckFirstSeen, Busy, a
    <2>2. CASE Goto(t, [a EXCEPT !.pc = "validate"])
      <3> DEFINE b == [a EXCEPT !.pc = "validate"]
      <3>1. b \in Activation /\ b.ev = a.ev /\ b.pc = "validate"
            /\ b.existing = a.existing /\ b.pending = a.pending
        BY <1>3 DEF Activation, PCs
      <3> HIDE DEF b
      <3>2. ActivationOk(b, keyEvents') /\ PendingOk(b, escrow')
        BY <1>3, <1>6, <2>1, <3>1 DEF ActivationOk, PendingOk, Storing, Replaying
      <3>3. Goto(t, b)
        BY <2>2 DEF b
      <3>4. QED
        BY <1>1, <1>2, <3>1, <3>2, <3>3, GotoOk DEF a
    <2>3. CASE \E row \in keyEvents :
                 /\ IsFirstSeen(row, r.aid, r.sn)
                 /\ Goto(t, [a EXCEPT !.existing = row.raw.said,
                                      !.pc = AfterFirstSeen(row.raw.said, r)])
      <3>1. PICK row \in keyEvents :
                 /\ IsFirstSeen(row, r.aid, r.sn)
                 /\ Goto(t, [a EXCEPT !.existing = row.raw.said,
                                      !.pc = AfterFirstSeen(row.raw.said, r)])
        BY <2>3
      <3> DEFINE pc == AfterFirstSeen(row.raw.said, r)
                 b == [a EXCEPT !.existing = row.raw.said, !.pc = pc]
      <3>2. row.raw.said \in Saids
        BY WitnessConstants DEF TypeOK, Raw
      <3>3. SameSlot(row.raw, r)
        BY <3>1 DEF IsFirstSeen, InSlot, SameSlot
      <3>4. /\ pc \in {"record_duplicity", "get_receipt"}
            /\ pc = "record_duplicity" <=> row.raw.said # r.said
        BY DEF AfterFirstSeen
      <3>5. Goto(t, b)
        BY <3>1
      <3> HIDE DEF pc
      <3>6. b \in Activation /\ b.ev = a.ev /\ b.pc = pc
            /\ b.existing = row.raw.said /\ b.pending = a.pending
        BY <1>3, <3>2, <3>4 DEF Activation, PCs
      <3> HIDE DEF b
      <3>7. b.existing # NoSaid
        BY <3>2, <3>6, WitnessConstants
      <3>8. ActivationOk(b, keyEvents') /\ PendingOk(b, escrow')
        <4>1. PendingOk(b, escrow')
          BY <1>3, <1>6, <3>6 DEF PendingOk
        <4>2. b.ev.raw = r /\ b.pc \notin Storing \cup Replaying /\ b.pc # "first_seen"
          BY <3>4, <3>6 DEF Storing, Replaying, r
        <4>3. ActivationOk(b, keyEvents')
          BY <1>6, <3>3, <3>4, <3>6, <3>7, <4>2 DEF ActivationOk
        <4>4. QED
          BY <4>1, <4>3
      <3>9. b.pc # "escrow" /\ b.pc # "settle"
        BY <3>4, <3>6
      <3>10. QED
        BY <1>1, <1>2, <3>5, <3>6, <3>8, <3>9, GotoOk DEF a
    <2>4. QED
      BY <1>12, <2>2, <2>3 DEF CheckFirstSeen, a, r
  <1>13. CASE RecordDuplicity(t)
    BY <1>1, <1>2, <1>13, ReturnOk DEF RecordDuplicity, Verdicts
  <1>14. CASE GetReceipt(t)
    <2>1. a.pc = "get_receipt"
      BY <1>14 DEF GetReceipt, Busy, a
    <2>2. CASE \E rct \in receipts : Return(t, "accepted", rct.said)
      <3>1. StoredIn(keyEvents, r)
        BY <1>3, <1>4, <2>1 DEF ActivationOk, StoredIn, SameKey, r
      <3>2. QED
        BY <1>1, <1>2, <1>6, <2>2, <3>1, ReturnOk DEF Verdicts, a, r
    <2>3. CASE Goto(t, [a EXCEPT !.pc = "validate"])
      <3> DEFINE b == [a EXCEPT !.pc = "validate"]
      <3>1. b \in Activation /\ b.ev = a.ev /\ b.pc = "validate"
            /\ b.existing = a.existing /\ b.pending = a.pending
        BY <1>3 DEF Activation, PCs
      <3>2. Goto(t, b)
        BY <2>3
      <3> HIDE DEF b
      <3>3. ActivationOk(b, keyEvents') /\ PendingOk(b, escrow')
        BY <1>3, <1>6, <2>1, <3>1 DEF ActivationOk, PendingOk, Storing, Replaying
      <3>4. QED
        BY <1>1, <1>2, <3>1, <3>2, <3>3, GotoOk DEF a
    <2>4. QED
      BY <1>14, <2>2, <2>3 DEF GetReceipt, a
  <1>15. CASE Validate(t)
    <2>1. a.pc = "validate"
      BY <1>15 DEF Validate, Busy, a
    <2>2. CASE /\ StructureOk(r)
               /\ MissingPrior(r)
               /\ Goto(t, [a EXCEPT !.pc = "escrow"])
      <3> DEFINE b == [a EXCEPT !.pc = "escrow"]
      <3>1. b \in Activation /\ b.ev = a.ev /\ b.pc = "escrow"
            /\ b.existing = a.existing /\ b.pending = a.pending
        BY <1>3 DEF Activation, PCs
      <3>2. Goto(t, b)
        BY <2>2
      <3> HIDE DEF b
      <3>3. ActivationOk(b, keyEvents') /\ PendingOk(b, escrow')
        BY <1>3, <1>6, <2>1, <3>1 DEF ActivationOk, PendingOk, Storing, Replaying
      <3>4. Len(stack[t]) # 2
        BY <2>2, ReplayHasPrior DEF StructureOk, a, r
      <3>5. QED
        BY <1>1, <1>2, <3>1, <3>2, <3>3, <3>4, GotoOk DEF a
    <2>3. CASE /\ StructureOk(r)
               /\ SequenceOk(r)
               /\ SignaturesOk(a.ev)
               /\ Goto(t, [a EXCEPT !.pc = "begin"])
      <3> DEFINE b == [a EXCEPT !.pc = "begin"]
      <3>1. b \in Activation /\ b.ev = a.ev /\ b.pc = "begin"
            /\ b.existing = a.existing /\ b.pending = a.pending
        BY <1>3 DEF Activation, PCs
      <3>2. Goto(t, b)
        BY <2>3
      <3> HIDE DEF b
      <3>3. PriorIn(keyEvents, r)
        BY <2>3 DEF SequenceOk, PriorIn, IsFirstSeen, InSlot
      <3>4. PendingOk(b, escrow')
        BY <1>3, <1>6, <3>1 DEF PendingOk
      <3>5. ActivationOk(b, keyEvents')
        BY <1>3, <1>6, <2>1, <2>3, <3>1, <3>3 DEF ActivationOk, Storing, Replaying, r
      <3>6. QED
        BY <1>1, <1>2, <3>1, <3>2, <3>4, <3>5, GotoOk DEF a
    <2>4. CASE Return(t, "rejected", NoSaid)
      BY <1>1, <1>2, <2>4, ReturnOk DEF Verdicts
    <2>5. QED
      BY <1>15, <2>2, <2>3, <2>4 DEF Validate, a, r
  <1>16. CASE BeginStore(t)
    <2> DEFINE b == [a EXCEPT !.pc = "commit", !.at = clock]
    <2>1. a.pc = "begin" /\ Goto(t, b)
      BY <1>16 DEF BeginStore, Busy, a
    <2>2. b \in Activation /\ b.ev = a.ev /\ b.pc = "commit"
          /\ b.existing = a.existing /\ b.pending = a.pending
      BY <1>3 DEF Activation, PCs, TypeOK
    <2> HIDE DEF b
    <2>3. ActivationOk(b, keyEvents') /\ PendingOk(b, escrow')
      BY <1>3, <1>6, <2>1, <2>2 DEF ActivationOk, PendingOk, Storing, Replaying
    <2>4. QED
      BY <1>1, <1>2, <2>1, <2>2, <2>3, GotoOk DEF a
  <1>17. CASE FetchEscrow(t)
    <2>1. PICK ids \in {{}, Replayable(r)} :
              Goto(t, [a EXCEPT !.pc = "replay", !.pending = ids])
      BY <1>17 DEF FetchEscrow, a, r
    <2> DEFINE b == [a EXCEPT !.pc = "replay", !.pending = ids]
    <2>2. a.pc = "fetch_escrow" /\ Goto(t, b)
      BY <1>17, <2>1 DEF FetchEscrow, Busy, a
    <2>3. \A k \in ids : /\ k \in 1..Len(escrow)
                         /\ escrow[k].raw.aid = r.aid
                         /\ escrow[k].raw.sn <= r.sn + 1
      BY <2>1 DEF Replayable, PendingEscrow
    <2>4. ids \in SUBSET Nat
      <3>1. 1..Len(escrow) \subseteq Nat
        BY LenProperties DEF TypeOK
      <3>2. QED
        BY <2>3, <3>1
    <2>5. b \in Activation /\ b.ev = a.ev /\ b.pc = "replay"
          /\ b.existing = a.existing /\ b.pending = ids
      BY <1>3, <2>4 DEF Activation, PCs
    <2> HIDE DEF b
    <2>6. ActivationOk(b, keyEvents')
      BY <1>3, <1>6, <2>2, <2>5 DEF ActivationOk, Storing, Replaying
    <2>7. PendingOk(b, escrow')
      BY <1>6, <2>3, <2>5 DEF PendingOk, r
    <2>8. QED
      BY <1>1, <1>2, <2>2, <2>5, <2>6, <2>7, GotoOk DEF a
  <1>18. CASE FinishReplay(t)
    <2>1. a.pc = "replay" /\ Return(t, "accepted", r.said)
      BY <1>18 DEF FinishReplay, Busy, a, r
    <2>2. StoredIn(keyEvents, r)
      BY <1>3, <2>1 DEF ActivationOk, Replaying, r
    <2>3. QED
      BY <1>1, <1>2, <1>6, <2>1, <2>2, ReturnOk DEF Verdicts, a, r
  <1>19. QED
    BY <1>11, <1>12, <1>13, <1>14, <1>15, <1>16, <1>17, <1>18

(* What closing row i does to the escrow table.                             *)
LEMMA CloseRow ==
    ASSUME NEW e \in Seq(EscrowRow), NEW i \in 1..Len(e)
    PROVE  LET f == [e EXCEPT ![i].state = "resolved"]
           IN  /\ Len(f) = Len(e)
               /\ \A k \in 1..Len(e) : f[k].raw = e[k].raw
               /\ \A k \in 1..Len(e) : f[k].state = "resolved" => k = i \/ e[k].state = "resolved"
  <1> DEFINE c == [e[i] EXCEPT !.state = "resolved"]
             f == [e EXCEPT ![i] = c]
  <1>1. e[i] \in EscrowRow
    BY LenProperties
  <1>2. c \in EscrowRow /\ c.raw = e[i].raw
    BY <1>1 DEF EscrowRow
  <1> HIDE DEF c
  <1>3. Len(f) = Len(e) /\ \A k \in 1..Len(e) : f[k] = IF k = i THEN c ELSE e[k]
    BY <1>2, ExceptSeq
  <1>4. f = [e EXCEPT ![i].state = "resolved"]
    BY DEF c
  <1> HIDE DEF f
  <1>5. /\ \A k \in 1..Len(e) : f[k].raw = e[k].raw
        /\ \A k \in 1..Len(e) : f[k].state = "resolved" => k = i \/ e[k].state = "resolved"
    BY <1>2, <1>3
  <1>6. QED
    BY <1>3, <1>4, <1>5, Zenon

(* Appending a row leaves the others alone.                                 *)
LEMMA AddRow ==
    ASSUME NEW e \in Seq(EscrowRow), NEW x \in EscrowRow
    PROVE  LET f == Append(e, x)
           IN  /\ Len(f) = Len(e) + 1
               /\ f[Len(e) + 1] = x
               /\ \A k \in 1..Len(e) : k \in 1..Len(f) /\ f[k] = e[k]
               /\ \A k \in 1..Len(f) : k \in 1..Len(e) \/ k = Len(e) + 1
  <1> DEFINE f == Append(e, x)
  <1>1. Len(e) \in Nat
    BY LenProperties
  <1>2. /\ Len(f) = Len(e) + 1
        /\ f[Len(e) + 1] = x
        /\ \A k \in 1..Len(e) : f[k] = e[k]
    BY Push
  <1> HIDE DEF f
  <1>3. /\ \A k \in 1..Len(e) : k \in 1..Len(f)
        /\ \A k \in 1..Len(f) : k \in 1..Len(e) \/ k = Len(e) + 1
    BY <1>1, <1>2
  <1>4. /\ Len(f) = Len(e) + 1
        /\ f[Len(e) + 1] = x
        /\ \A k \in 1..Len(e) : k \in 1..Len(f) /\ f[k] = e[k]
        /\ \A k \in 1..Len(f) : k \in 1..Len(e) \/ k = Len(e) + 1
    BY <1>2, <1>3, Zenon
  <1>5. QED
    BY <1>4, Zenon DEF f

(* The awaits that write keep StackOk.                                      *)
LEMMA WriteStackOk ==
    ASSUME TypeOK, StackOk, NEW t \in Tasks,
           EscrowEvent(t) \/ CommitStore(t) \/ Replay(t) \/ Settle(t)
    PROVE  StackOk'
  <1> DEFINE a == Top(t)
             r == a.ev.raw
  <1>1. stack[t] # <<>>
    BY DEF Busy, EscrowEvent, CommitStore, Replay, Settle
  <1>2. a \in Activation /\ ActivationOk(a, keyEvents) /\ PendingOk(a, escrow)
    BY <1>1, TopType, TopOk
  <1>3. r \in Raws
    BY <1>2 DEF Activation, KeyEvent
  <1>4. escrow \in Seq(EscrowRow)
    BY DEF TypeOK, EscrowRow
  <1> HIDE DEF a, r
  <1>11. CASE EscrowEvent(t)
    <2> DEFINE x == [raw |-> r, state |-> "pending"]
    <2>1. x \in EscrowRow
      BY <1>3 DEF EscrowRow
    <2>2. keyEvents' = keyEvents /\ escrow' \in {escrow, Append(escrow, x)}
      BY <1>11 DEF EscrowEvent, a, r
    <2> HIDE DEF x
    <2>3. \A k \in 1..Len(escrow) : k \in 1..Len(escrow') /\ escrow'[k].raw = escrow[k].raw
      <3>1. \A e \in Seq(EscrowRow), y \in EscrowRow : \A k \in 1..Len(e) :
                k \in 1..Len(Append(e, y)) /\ Append(e, y)[k] = e[k]
        BY AddRow
      <3>2. CASE escrow' = escrow
        BY <3>2
      <3>3. CASE escrow' = Append(escrow, x)
        BY <1>4, <2>1, <3>1, <3>3, Zenon
      <3>4. QED
        BY <2>2, <3>2, <3>3
    <2>4. Grows(keyEvents, keyEvents', escrow, escrow')
      BY <2>2, <2>3 DEF Grows
    <2>5. Return(t, "escrowed", NoSaid)
      BY <1>11 DEF EscrowEvent
    <2>6. QED
      BY <1>1, <2>4, <2>5, ReturnOk DEF Verdicts
  <1>12. CASE CommitStore(t)
    <2> DEFINE b == [a EXCEPT !.pc = "fetch_escrow"]
    <2>1. a.pc = "commit" /\ Goto(t, b)
      BY <1>12 DEF CommitStore, Busy, a
    <2>2. escrow' = escrow /\ StoreEvent(r, a.at)
      BY <1>12 DEF CommitStore, a, r
    <2>3. keyEvents \subseteq keyEvents' /\ StoredIn(keyEvents', r)
      <3>1. CASE \E row \in keyEvents : SameKey(row.raw, r)
        BY <2>2, <3>1 DEF StoreEvent, StoredIn
      <3>2. CASE ~(\E row \in keyEvents : SameKey(row.raw, r))
        <4>1. keyEvents' = keyEvents \cup {[raw |-> r, at |-> a.at]}
          BY <2>2, <3>2 DEF StoreEvent
        <4>2. SameKey([raw |-> r, at |-> a.at].raw, r)
          BY DEF SameKey, SameSlot
        <4>3. QED
          BY <4>1, <4>2 DEF StoredIn
      <3>3. QED
        BY <3>1, <3>2
    <2>4. Grows(keyEvents, keyEvents', escrow, escrow')
      BY <2>2, <2>3 DEF Grows
    <2>5. b \in Activation /\ b.ev = a.ev /\ b.pc = "fetch_escrow"
          /\ b.existing = a.existing /\ b.pending = a.pending
      BY <1>2 DEF Activation, PCs
    <2> HIDE DEF b
    <2>6. PendingOk(b, escrow')
      BY <1>2, <2>2, <2>5 DEF PendingOk
    <2>7. ActivationOk(b, keyEvents')
      BY <1>2, <2>1, <2>3, <2>5 DEF ActivationOk, Storing, Replaying, r
    <2>8. QED
      BY <1>1, <2>1, <2>4, <2>5, <2>6, <2>7, GotoOk DEF a
  <1>13. CASE Replay(t)
    <2>1. PICK k \in a.pending :
              /\ NextPending(a, k)
              /\ stack' = [stack EXCEPT ![t] =
                    Append([stack[t] EXCEPT ![Len(stack[t])] = [a EXCEPT !.pc = "settle"]],
                           Start(Parse(escrow[k].raw)))]
      BY <1>13 DEF Replay, a
    <2>2. a.pc = "replay" /\ keyEvents' = keyEvents /\ escrow' = escrow
      BY <1>13 DEF Replay, Busy, a, db
    <2> DEFINE b == [a EXCEPT !.pc = "settle"]
               c == Start(Parse(escrow[k].raw))
               s == stack[t]
               u == [s EXCEPT ![Len(s)] = b]
    <2>3. b \in Activation /\ b.ev = a.ev /\ b.pc = "settle"
          /\ b.existing = a.existing /\ b.pending = a.pending
      BY <1>2 DEF Activation, PCs
    <2>4. c \in Activation
      <3>1. k \in 1..Len(escrow)
        BY <1>2 DEF PendingOk
      <3>2. escrow[k] \in EscrowRow
        BY <1>4, <3>1, LenProperties
      <3>3. QED
        BY <3>2, ParseType, StartType DEF EscrowRow
    <2>5. s \in Seq(Activation) /\ RecordsOk(s, keyEvents, escrow) /\ s # <<>>
      BY <1>1 DEF TypeOK, StackOk
    <2>6. Len(s) = 1
      <3>1. s[Len(s)] = a
        BY DEF a, Top
      <3>2. a.ev.sigs # {}
        BY <1>2, <2>2 DEF ActivationOk, Replaying, SignaturesOk
      <3>3. Len(s) # 2
        BY <2>5, <3>1, <3>2 DEF RecordsOk
      <3>4. Len(s) \in Nat \ {0} /\ Len(s) <= 2
        BY <2>5, LastRecord DEF RecordsOk
      <3>5. \A m \in Nat \ {0} : m <= 2 /\ m # 2 => m = 1
        OBVIOUS
      <3>6. QED
        BY <3>3, <3>4, <3>5, Zenon
    <2>7. stack' = [stack EXCEPT ![t] = Append(u, c)]
      BY <2>1
    <2> HIDE DEF b, c, s
    <2>8. u \in Seq(Activation) /\ Len(u) = 1 /\ u[1] = b
      <3>1. u \in Seq(Activation) /\ Len(u) = Len(s) /\ u[Len(s)] = b
        BY <2>3, <2>5, ReplaceLast
      <3> HIDE DEF u
      <3>2. QED
        BY <2>6, <3>1
    <2> HIDE DEF u
    <2>9. ActivationOk(b, keyEvents) /\ PendingOk(b, escrow)
      BY <1>2, <2>2, <2>3 DEF ActivationOk, PendingOk, Storing, Replaying
    <2>10. k \in b.pending /\ NextPending(b, k)
      BY <2>1, <2>3 DEF NextPending
    <2>11. RecordsOk(Append(u, c), keyEvents, escrow)
      BY <2>3, <2>4, <2>8, <2>9, <2>10, PushRecord DEF c
    <2>12. \A x \in Tasks : RecordsOk(stack'[x], keyEvents, escrow)
      BY <2>7, <2>11 DEF StackOk, TypeOK
    <2>13. QED
      BY <2>2, <2>12 DEF StackOk
  <1>14. CASE Settle(t)
    <2>1. PICK i \in a.pending :
              /\ SettleRow(a, i)
              /\ Goto(t, [a EXCEPT !.pc = "replay", !.pending = RowsAfter(a, i)])
      BY <1>14 DEF Settle, a
    <2> DEFINE b == [a EXCEPT !.pc = "replay", !.pending = RowsAfter(a, i)]
    <2>2. a.pc = "settle" /\ Goto(t, b) /\ keyEvents' = keyEvents
      BY <1>14, <2>1 DEF Settle, Busy, a
    <2>3. i \in 1..Len(escrow)
      BY <1>2 DEF PendingOk
    <2>4. Len(escrow') = Len(escrow) /\ \A k \in 1..Len(escrow) : escrow'[k].raw = escrow[k].raw
      <3>1. escrow' \in {escrow, [escrow EXCEPT ![i].state = "resolved"]}
        BY <2>1 DEF SettleRow
      <3>2. \A e \in Seq(EscrowRow) : \A j \in 1..Len(e) :
                LET f == [e EXCEPT ![j].state = "resolved"]
                IN  Len(f) = Len(e) /\ \A k \in 1..Len(e) : f[k].raw = e[k].raw
        BY CloseRow
      <3>3. CASE escrow' = escrow
        BY <3>3
      <3>4. CASE escrow' = [escrow EXCEPT ![i].state = "resolved"]
        <4> DEFINE f == [escrow EXCEPT ![i].state = "resolved"]
        <4>1. Len(f) = Len(escrow) /\ \A k \in 1..Len(escrow) : f[k].raw = escrow[k].raw
          BY <1>4, <2>3, <3>2
        <4> HIDE DEF f
        <4>2. escrow' = f
          BY <3>4 DEF f
        <4>3. QED
          BY <4>1, <4>2
      <3>5. QED
        BY <3>1, <3>3, <3>4
    <2>5. Grows(keyEvents, keyEvents', escrow, escrow')
      BY <2>2, <2>4 DEF Grows
    <2>6. b \in Activation /\ b.ev = a.ev /\ b.pc = "replay"
          /\ b.existing = a.existing /\ b.pending \subseteq a.pending
      BY <1>2 DEF Activation, PCs, RowsAfter
    <2> HIDE DEF b
    <2>7. ActivationOk(b, keyEvents')
      BY <1>2, <2>2, <2>6 DEF ActivationOk, Storing, Replaying
    <2>8. PendingOk(b, escrow')
      BY <1>2, <2>4, <2>6 DEF PendingOk
    <2>9. QED
      BY <1>1, <2>2, <2>5, <2>6, <2>7, <2>8, GotoOk DEF a
  <1>15. QED
    BY <1>11, <1>12, <1>13, <1>14

-----------------------------------------------------------------------------
(* The tables.  Only the commit adds to key_events and receipts.            *)

Slotted(K, aid, sn) == \E row \in K : row.raw.aid = aid /\ row.raw.sn = sn
Holds(K, aid, sn, said) ==
    \E row \in K : row.raw.aid = aid /\ row.raw.sn = sn /\ row.raw.said = said

Chain(K) == \A row \in K : StructureOk(row.raw) /\ PriorIn(K, row.raw)
Contiguous(K) == \A row \in K : \A k \in 0..row.raw.sn : Slotted(K, row.raw.aid, k)
Matching(K, C) ==
    /\ \A row \in K : \E rct \in C : SameSlot(rct, row.raw)
    /\ \A rct \in C : /\ Holds(K, rct.aid, rct.sn, rct.said)
                      /\ Holds(K, rct.aid, rct.sn, rct.signed)
    /\ \A r1, r2 \in C : SameSlot(r1, r2) => r1 = r2

(* The properties, said of any table.                                       *)
LEMMA TableForms ==
    /\ ChainIntact <=> Chain(keyEvents)
    /\ KelContiguous <=> Contiguous(keyEvents)
    /\ ReceiptsMatchEvents <=> Matching(keyEvents, receipts)
  <1>1. ChainIntact <=> Chain(keyEvents)
    BY DEF ChainIntact, Chain, PriorIn, InSlot
  <1>2. KelContiguous <=> Contiguous(keyEvents)
    BY DEF KelContiguous, Contiguous, Slotted, InSlot
  <1>3. ReceiptsMatchEvents <=> Matching(keyEvents, receipts)
    BY DEF ReceiptsMatchEvents, Matching, Holds, InSlot
  <1>4. QED
    BY <1>1, <1>2, <1>3

(* The same of the tables after a step.                                     *)
LEMMA TableFormsNext ==
    /\ ChainIntact' <=> Chain(keyEvents')
    /\ KelContiguous' <=> Contiguous(keyEvents')
    /\ ReceiptsMatchEvents' <=> Matching(keyEvents', receipts')
  <1>1. ChainIntact' <=> Chain(keyEvents')
    BY DEF ChainIntact, Chain, PriorIn, InSlot
  <1>2. KelContiguous' <=> Contiguous(keyEvents')
    BY DEF KelContiguous, Contiguous, Slotted, InSlot
  <1>3. ReceiptsMatchEvents' <=> Matching(keyEvents', receipts')
    BY DEF ReceiptsMatchEvents, Matching, Holds, InSlot
  <1>4. QED
    BY <1>1, <1>2, <1>3

(* Adding an event whose prior is there keeps the chains and their          *)
(* contiguity.                                                              *)
LEMMA AddToChain ==
    ASSUME NEW K, NEW new, NEW r, new.raw = r, r.sn \in Int,
           StructureOk(r), PriorIn(K, r), Chain(K), Contiguous(K)
    PROVE  Chain(K \cup {new}) /\ Contiguous(K \cup {new})
  <1> DEFINE L == K \cup {new}
  <1>1. K \subseteq L /\ new \in L /\ \A row \in L : row \in K \/ row = new
    OBVIOUS
  <1> HIDE DEF L
  <1>2. \A x : PriorIn(K, x) => PriorIn(L, x)
    BY <1>1 DEF PriorIn
  <1>3. \A aid, sn : Slotted(K, aid, sn) => Slotted(L, aid, sn)
    BY <1>1 DEF Slotted
  <1>4. Slotted(L, r.aid, r.sn)
    BY <1>1 DEF Slotted
  <1>5. \A k \in 0..r.sn : Slotted(L, r.aid, k)
    <2>1. ASSUME NEW k \in 0..r.sn, k # r.sn
          PROVE  Slotted(L, r.aid, k)
      <3>1. r.sn > 0 /\ k \in 0..(r.sn - 1)
        BY <2>1
      <3>2. PICK p \in K : p.raw.aid = r.aid /\ p.raw.sn = r.sn - 1
        BY <3>1 DEF PriorIn
      <3>3. Slotted(K, r.aid, k)
        BY <3>1, <3>2 DEF Contiguous
      <3>4. QED
        BY <1>3, <3>3
    <2>2. QED
      BY <1>4, <2>1
  <1>6. Chain(L)
    BY <1>1, <1>2 DEF Chain
  <1>7. Contiguous(L)
    BY <1>1, <1>3, <1>5 DEF Contiguous
  <1>8. QED
    BY <1>6, <1>7 DEF L

(* The event a commit adds passed validation, and the prior it was          *)
(* validated against is still there.                                        *)
LEMMA CommitChain ==
    ASSUME IInv, NEW t \in Tasks, CommitStore(t)
    PROVE  ChainIntact' /\ KelContiguous'
  <1> DEFINE a == Top(t)
             r == a.ev.raw
             new == [raw |-> r, at |-> a.at]
  <1>1. stack[t] # <<>> /\ a.pc = "commit"
    BY DEF CommitStore, Busy
  <1>2. a \in Activation /\ ActivationOk(a, keyEvents)
    BY <1>1, TopType, TopOk DEF IInv
  <1>3. r.sn \in Int
    BY <1>2, WitnessConstants DEF Activation, KeyEvent, Raw
  <1>4. keyEvents' \in {keyEvents, keyEvents \cup {new}}
    BY DEF CommitStore, StoreEvent
  <1> HIDE DEF a
  <1>5. StructureOk(r) /\ PriorIn(keyEvents, r)
    BY <1>1, <1>2 DEF ActivationOk, Storing
  <1>6. new.raw = r
    OBVIOUS
  <1> HIDE DEF new, r
  <1>7. Chain(keyEvents) /\ Contiguous(keyEvents)
    BY TableForms DEF IInv
  <1>8. Chain(keyEvents \cup {new}) /\ Contiguous(keyEvents \cup {new})
    BY <1>3, <1>5, <1>6, <1>7, AddToChain
  <1>9. Chain(keyEvents') /\ Contiguous(keyEvents')
    BY <1>4, <1>7, <1>8
  <1>10. QED
    BY <1>9, TableFormsNext

(* The transaction writes the receipt of the slot it writes an event to.    *)
LEMMA CommitReceipts ==
    ASSUME IInv, NEW t \in Tasks, CommitStore(t)
    PROVE  ReceiptsMatchEvents'
  <1> DEFINE r == Top(t).ev.raw
             new == [raw |-> r, at |-> Top(t).at]
             Touch(rct) == [rct EXCEPT !.signer = keyPair, !.signed = r.said]
             fresh == [aid |-> r.aid, sn |-> r.sn, said |-> r.said, witness |-> keyPair,
                       signer |-> keyPair, signed |-> r.said]
             K == keyEvents
             L == keyEvents'
             C == receipts
             D == receipts'
  <1>1. L = IF \E row \in K : SameKey(row.raw, r) THEN K ELSE K \cup {new}
    BY DEF CommitStore, StoreEvent
  <1>2. D = IF \E rct \in C : SameSlot(rct, r)
            THEN {IF SameSlot(rct, r) THEN Touch(rct) ELSE rct : rct \in C}
            ELSE C \cup {fresh}
    BY DEF CommitStore, StoreReceipt
  <1>3. new.raw = r
    OBVIOUS
  <1>4. \A rct \in C : /\ Touch(rct).aid = rct.aid /\ Touch(rct).sn = rct.sn
                       /\ Touch(rct).said = rct.said /\ Touch(rct).signed = r.said
    BY DEF IInv, TypeOK
  <1>5. fresh.aid = r.aid /\ fresh.sn = r.sn /\ fresh.said = r.said /\ fresh.signed = r.said
    OBVIOUS
  <1>6. Matching(K, C)
    BY TableForms DEF IInv
  <1> HIDE DEF new, r, Touch, fresh, K, L, C, D
  <1>7. /\ K \subseteq L
        /\ \A row \in L : row \in K \/ SameSlot(row.raw, r)
        /\ Holds(L, r.aid, r.sn, r.said)
    BY <1>1, <1>3 DEF SameKey, SameSlot, Holds
  <1>8. \A aid, sn, said : Holds(K, aid, sn, said) => Holds(L, aid, sn, said)
    BY <1>7 DEF Holds
  <1>9. ASSUME \E rct \in C : SameSlot(rct, r)
        PROVE  Matching(L, D)
    <2>1. D = {IF SameSlot(rct, r) THEN Touch(rct) ELSE rct : rct \in C}
      BY <1>2, <1>9
    <2>2. \A d \in D : \E rct \in C :
              /\ SameSlot(d, rct) /\ d.said = rct.said
              /\ d = IF SameSlot(rct, r) THEN Touch(rct) ELSE rct
              /\ d.signed = IF SameSlot(rct, r) THEN r.said ELSE rct.signed
      BY <1>4, <2>1 DEF SameSlot
    <2>3. \A rct \in C : \E d \in D : SameSlot(d, rct)
      BY <1>4, <2>1 DEF SameSlot
    <2>4. \A d \in D : Holds(L, d.aid, d.sn, d.said) /\ Holds(L, d.aid, d.sn, d.signed)
      BY <1>6, <1>7, <1>8, <2>2 DEF Matching, SameSlot
    <2>5. \A d1, d2 \in D : SameSlot(d1, d2) => d1 = d2
      BY <1>6, <2>2 DEF Matching, SameSlot
    <2>6. \A row \in L : \E d \in D : SameSlot(d, row.raw)
      BY <1>6, <1>7, <1>9, <2>3 DEF Matching, SameSlot
    <2>7. QED
      BY <2>4, <2>5, <2>6 DEF Matching
  <1>10. ASSUME ~(\E rct \in C : SameSlot(rct, r))
         PROVE  Matching(L, D)
    <2>1. D = C \cup {fresh}
      BY <1>2, <1>10
    <2>2. \A d \in D : Holds(L, d.aid, d.sn, d.said) /\ Holds(L, d.aid, d.sn, d.signed)
      BY <1>5, <1>6, <1>7, <1>8, <2>1 DEF Matching
    <2>3. \A d1, d2 \in D : SameSlot(d1, d2) => d1 = d2
      BY <1>5, <1>6, <1>10, <2>1 DEF Matching, SameSlot
    <2>4. \A row \in L : \E d \in D : SameSlot(d, row.raw)
      BY <1>5, <1>6, <1>7, <2>1 DEF Matching, SameSlot
    <2>5. QED
      BY <2>2, <2>3, <2>4 DEF Matching
  <1>11. Matching(L, D)
    BY <1>9, <1>10
  <1>12. QED
    BY <1>11, TableFormsNext DEF L, D

(* What the expiry of rows does to the escrow table.                        *)
LEMMA ExpireType ==
    ASSUME escrow \in Seq(EscrowRow), ExpireEscrow
    PROVE  /\ escrow' \in Seq(EscrowRow)
           /\ Len(escrow') = Len(escrow)
           /\ \A k \in 1..Len(escrow) :
                 escrow'[k] = escrow[k] \/ escrow'[k] = [escrow[k] EXCEPT !.state = "expired"]
  <1> DEFINE n == Len(escrow)
             f == escrow'
  <1>1. n \in Nat /\ \A k \in 1..n : escrow[k] \in EscrowRow
    BY LenProperties
  <1>2. PICK m : f = [k \in 1..n |-> IF k <= m /\ escrow[k].state = "pending"
                                    THEN [escrow[k] EXCEPT !.state = "expired"]
                                    ELSE escrow[k]]
    BY DEF ExpireEscrow
  <1>3. \A k \in 1..n : f[k] = escrow[k] \/ f[k] = [escrow[k] EXCEPT !.state = "expired"]
    BY <1>2
  <1>4. \A x \in EscrowRow : [x EXCEPT !.state = "expired"] \in EscrowRow
    BY DEF EscrowRow
  <1> HIDE DEF n
  <1>5. f \in [1..n -> EscrowRow]
    <2>1. \A k \in 1..n : f[k] \in EscrowRow
      BY <1>1, <1>3, <1>4
    <2>2. QED
      BY <1>2, <2>1
  <1> HIDE DEF f
  <1>6. f \in Seq(EscrowRow) /\ Len(f) = n
    BY <1>1, <1>5, SeqDef
  <1>7. QED
    BY <1>3, <1>6 DEF n, f

(* Everything but the commit leaves both tables alone.                      *)
LEMMA OnlyCommitStores ==
    ASSUME Next, ~(\E t \in Tasks : CommitStore(t))
    PROVE  UNCHANGED <<keyEvents, receipts>>
  BY DEF Next, ProcessOne, db, Submit, Receive, Request, Cancel, RejectOnDbError,
         CheckFirstSeen, RecordDuplicity, GetReceipt, Validate, EscrowEvent, BeginStore,
         FetchEscrow, Replay, Settle, FinishReplay, ExpireEscrow, Restart

(* Every step preserves the invariants of key_events and receipts.          *)
LEMMA NextTables ==
    ASSUME IInv, Next
    PROVE  /\ ChainIntact' /\ KelContiguous' /\ ReceiptsMatchEvents'
           /\ keyEvents \subseteq keyEvents'
  <1>1. CASE \E t \in Tasks : CommitStore(t)
    <2>1. PICK t \in Tasks : CommitStore(t)
      BY <1>1
    <2>2. keyEvents \subseteq keyEvents'
      BY <2>1 DEF CommitStore, StoreEvent
    <2>3. QED
      BY <2>1, <2>2, CommitChain, CommitReceipts
  <1>2. CASE ~(\E t \in Tasks : CommitStore(t))
    <2>1. keyEvents' = keyEvents /\ receipts' = receipts
      BY <1>2, OnlyCommitStores
    <2>2. Chain(keyEvents) /\ Contiguous(keyEvents) /\ Matching(keyEvents, receipts)
      BY TableForms DEF IInv
    <2>3. Chain(keyEvents') /\ Contiguous(keyEvents') /\ Matching(keyEvents', receipts')
      BY <2>1, <2>2
    <2>4. QED
      BY <2>1, <2>3, TableFormsNext
  <1>3. QED
    BY <1>1, <1>2

(* The duplicity log names a stored said against another one.               *)
LEMMA NextDuplicity ==
    ASSUME IInv, Next
    PROVE  DuplicitySound'
  <1> DEFINE Sound(K, d) == d.first # d.conflict /\ Holds(K, d.aid, d.sn, d.first)
  <1>1. keyEvents \subseteq keyEvents'
    BY NextTables
  <1>2. \A d : Sound(keyEvents, d) => Sound(keyEvents', d)
    BY <1>1 DEF Holds
  <1>3. \A d \in duplicityLog : Sound(keyEvents, d)
    BY DEF IInv, DuplicitySound, Holds, InSlot
  <1>4. ASSUME NEW d \in duplicityLog'
        PROVE  Sound(keyEvents', d)
    <2>1. CASE \E t \in Tasks : RecordDuplicity(t)
      <3>1. PICK t \in Tasks : RecordDuplicity(t)
        BY <2>1
      <3> DEFINE a == Top(t)
      <3>2. stack[t] # <<>> /\ a.pc = "record_duplicity"
            /\ duplicityLog' \in {duplicityLog, duplicityLog \cup {DuplicityEntry(a)}}
        BY <3>1 DEF RecordDuplicity, Busy
      <3>3. ActivationOk(a, keyEvents)
        BY <3>2, TopOk DEF IInv
      <3> HIDE DEF a
      <3>4. Sound(keyEvents, DuplicityEntry(a))
        BY <3>2, <3>3 DEF ActivationOk, DuplicityEntry, Holds, SameSlot
      <3> HIDE DEF Sound
      <3>5. QED
        BY <1>2, <1>3, <3>2, <3>4
    <2>2. CASE ~(\E t \in Tasks : RecordDuplicity(t))
      <3>1. duplicityLog' = duplicityLog
        BY <2>2 DEF Next, ProcessOne, db, Submit, Receive, Request, Cancel, RejectOnDbError,
               CheckFirstSeen, GetReceipt, Validate, EscrowEvent, BeginStore, CommitStore,
               FetchEscrow, Replay, Settle, FinishReplay, ExpireEscrow, Restart
      <3> HIDE DEF Sound
      <3>2. QED
        BY <1>2, <1>3, <3>1
    <2>3. QED
      BY <2>1, <2>2
  <1>5. QED
    BY <1>4 DEF DuplicitySound, Holds, InSlot

(* What a client is told was accepted is stored.                            *)
LEMMA ReturnAccepted ==
    ASSUME TypeOK, AcceptedIsStored, NEW t \in Tasks, stack[t] # <<>>,
           NEW verdict, NEW said, Return(t, verdict, said),
           keyEvents \subseteq keyEvents',
           verdict = "accepted" => StoredIn(keyEvents', Top(t).ev.raw)
    PROVE  AcceptedIsStored'
  <1> DEFINE x == [raw |-> Top(t).ev.raw, verdict |-> verdict, said |-> said]
  <1>1. responses' \in {responses, responses \cup {x}}
    BY DEF Return, Top
  <1>2. \A y \in responses : y.verdict = "accepted" => StoredIn(keyEvents', y.raw)
    BY DEF AcceptedIsStored, StoredIn
  <1>3. x.verdict = "accepted" => StoredIn(keyEvents', x.raw)
    OBVIOUS
  <1> HIDE DEF x
  <1>4. \A y \in responses' : y.verdict = "accepted" => StoredIn(keyEvents', y.raw)
    BY <1>1, <1>2, <1>3
  <1>5. QED
    BY <1>4 DEF AcceptedIsStored, StoredIn

(* Every step preserves what a client was told.                             *)
LEMMA NextAccepted ==
    ASSUME IInv, Next
    PROVE  AcceptedIsStored'
  <1>1. keyEvents \subseteq keyEvents'
    BY NextTables
  <1>2. TypeOK /\ StackOk /\ AcceptedIsStored
    BY DEF IInv
  <1>3. CASE responses' = responses
    BY <1>1, <1>2, <1>3 DEF AcceptedIsStored
  <1>4. ASSUME NEW t \in Tasks, stack[t] # <<>>,
               NEW verdict \in Verdicts \ {"accepted"}, NEW said, Return(t, verdict, said)
        PROVE  AcceptedIsStored'
    BY <1>1, <1>2, <1>4, ReturnAccepted
  <1>5. ASSUME NEW t \in Tasks,
               RejectOnDbError(t) \/ RecordDuplicity(t) \/ EscrowEvent(t)
        PROVE  AcceptedIsStored'
    <2>1. stack[t] # <<>>
      BY <1>5 DEF Busy, RejectOnDbError, RecordDuplicity, EscrowEvent
    <2>2. \E verdict \in Verdicts \ {"accepted"} : Return(t, verdict, NoSaid)
      BY <1>5 DEF RejectOnDbError, RecordDuplicity, EscrowEvent, Verdicts
    <2>3. QED
      BY <1>4, <2>1, <2>2
  <1>6. ASSUME NEW t \in Tasks, Validate(t)
        PROVE  AcceptedIsStored'
    <2>1. stack[t] # <<>> /\ (responses' = responses \/ Return(t, "rejected", NoSaid))
      BY <1>6 DEF Busy, Validate
    <2>2. "rejected" \in Verdicts \ {"accepted"}
      BY DEF Verdicts
    <2>3. QED
      BY <1>3, <1>4, <2>1, <2>2
  <1>7. ASSUME NEW t \in Tasks, GetReceipt(t) \/ FinishReplay(t)
        PROVE  AcceptedIsStored'
    <2> DEFINE a == Top(t)
    <2>1. /\ stack[t] # <<>>
          /\ a.pc \in {"get_receipt", "replay"}
          /\ responses' = responses \/ \E said : Return(t, "accepted", said)
      BY <1>7 DEF Busy, GetReceipt, FinishReplay
    <2>2. ActivationOk(a, keyEvents) /\ a \in Activation
      BY <1>2, <2>1, TopOk, TopType
    <2>3. a.ev.raw.said # NoSaid
      BY <2>2, WitnessConstants DEF Activation, KeyEvent, Raw
    <2>4. StoredIn(keyEvents, a.ev.raw)
      <3> HIDE DEF a
      <3>1. QED
        BY <2>1, <2>2, <2>3 DEF ActivationOk, Replaying, StoredIn, SameKey
    <2>5. StoredIn(keyEvents', a.ev.raw)
      BY <1>1, <2>4 DEF StoredIn
    <2>6. QED
      BY <1>2, <1>1, <1>3, <2>1, <2>5, ReturnAccepted
  <1>8. QED
    BY <1>3, <1>5, <1>6, <1>7 DEF Next, ProcessOne, Submit, Receive, Request, Cancel,
       CheckFirstSeen, BeginStore, CommitStore, FetchEscrow, Replay, Settle, ExpireEscrow,
       Restart

(* A replay closes the rows of events that are stored.                      *)
LEMMA NextResolved ==
    ASSUME IInv, Next
    PROVE  ResolvedIsStored'
  <1> DEFINE Closed(K, x) == x.state = "resolved" => StoredIn(K, x.raw)
  <1>1. keyEvents \subseteq keyEvents'
    BY NextTables
  <1>2. \A x : Closed(keyEvents, x) => Closed(keyEvents', x)
    BY <1>1 DEF StoredIn
  <1>3. TypeOK /\ StackOk /\ escrow \in Seq(EscrowRow)
    BY DEF IInv, TypeOK, EscrowRow
  <1>4. \A k \in 1..Len(escrow) : Closed(keyEvents', escrow[k])
    <2>1. \A k \in 1..Len(escrow) : Closed(keyEvents, escrow[k])
      BY DEF IInv, ResolvedIsStored, StoredIn
    <2> HIDE DEF Closed
    <2>2. QED
      BY <1>2, <2>1
  <1>5. SUFFICES \A k \in 1..Len(escrow') : Closed(keyEvents', escrow'[k])
    BY DEF ResolvedIsStored, StoredIn
  <1>6. CASE escrow' = escrow
    BY <1>4, <1>6
  <1>7. ASSUME NEW t \in Tasks, EscrowEvent(t), escrow' # escrow
        PROVE  \A k \in 1..Len(escrow') : Closed(keyEvents', escrow'[k])
    <2> DEFINE y == [raw |-> Top(t).ev.raw, state |-> "pending"]
    <2>1. stack[t] # <<>> /\ escrow' = Append(escrow, y)
      BY <1>7 DEF EscrowEvent, Busy
    <2>2. y \in EscrowRow
      BY <1>3, <2>1, TopType DEF Activation, KeyEvent, EscrowRow
    <2>3. Closed(keyEvents', y)
      OBVIOUS
    <2> HIDE DEF y, Closed
    <2>4. /\ escrow'[Len(escrow) + 1] = y
          /\ \A k \in 1..Len(escrow) : escrow'[k] = escrow[k]
          /\ \A k \in 1..Len(escrow') : k \in 1..Len(escrow) \/ k = Len(escrow) + 1
      <3>1. escrow \in Seq(EscrowRow)
        BY <1>3
      <3>2. /\ Append(escrow, y)[Len(escrow) + 1] = y
            /\ \A k \in 1..Len(escrow) : Append(escrow, y)[k] = escrow[k]
            /\ \A k \in 1..Len(Append(escrow, y)) : k \in 1..Len(escrow) \/ k = Len(escrow) + 1
        BY <2>2, <3>1, AddRow
      <3> QED BY <2>1, <3>2
    <2>5. ASSUME NEW k \in 1..Len(escrow') PROVE Closed(keyEvents', escrow'[k])
      <3>1. CASE k \in 1..Len(escrow)
        BY <1>4, <2>4, <3>1
      <3>2. CASE k = Len(escrow) + 1
        BY <2>3, <2>4, <3>2
      <3> QED BY <2>4, <2>5, <3>1, <3>2
    <2> QED BY <2>5
  <1>8. ASSUME NEW t \in Tasks, Settle(t), escrow' # escrow
        PROVE  \A k \in 1..Len(escrow') : Closed(keyEvents', escrow'[k])
    <2> DEFINE a == Top(t)
               s == stack[t]
    <2>1. s # <<>> /\ a.pc = "settle"
      BY <1>8 DEF Settle, Busy
    <2>2. PICK i \in a.pending :
              /\ NextPending(a, i)
              /\ a.child
              /\ escrow' = [escrow EXCEPT ![i].state = "resolved"]
      BY <1>8 DEF Settle, SettleRow
    <2>3. i \in 1..Len(escrow)
      BY <1>3, <2>1, TopOk DEF PendingOk
    <2>4. StoredIn(keyEvents, escrow[i].raw)
      <3>1. RecordsOk(s, keyEvents, escrow) /\ s \in Seq(Activation)
        BY <1>3 DEF StackOk, TypeOK
      <3>2. a = s[Len(s)] /\ Len(s) \in Nat \ {0}
        BY <2>1, <3>1, LastRecord DEF Top
      <3>3. a.ev.sigs # {}
        BY <1>3, <2>1, TopOk DEF ActivationOk, Replaying, SignaturesOk
      <3> HIDE DEF s, a
      <3>4. Len(s) <= 2 /\ Len(s) # 2
        BY <3>1, <3>2, <3>3 DEF RecordsOk
      <3>5. Len(s) = 1
        <4>1. \A m \in Nat \ {0} : m <= 2 /\ m # 2 => m = 1
          OBVIOUS
        <4>2. QED
          BY <3>2, <3>4, <4>1, Zenon
      <3>6. ChildOk(a, keyEvents, escrow)
        BY <3>1, <3>2, <3>5 DEF RecordsOk
      <3>7. QED
        BY <2>1, <2>2, <3>6 DEF ChildOk
    <2>5. Closed(keyEvents', [raw |-> escrow[i].raw, state |-> "resolved"])
      BY <1>1, <2>4 DEF StoredIn
    <2>6. /\ Len(escrow') = Len(escrow)
          /\ \A k \in 1..Len(escrow) : escrow'[k].raw = escrow[k].raw
          /\ \A k \in 1..Len(escrow) :
                escrow'[k].state = "resolved" => k = i \/ escrow[k].state = "resolved"
      <3>1. \A e \in Seq(EscrowRow) : \A j \in 1..Len(e) :
                LET f == [e EXCEPT ![j].state = "resolved"]
                IN  /\ Len(f) = Len(e)
                    /\ \A k \in 1..Len(e) : f[k].raw = e[k].raw
                    /\ \A k \in 1..Len(e) :
                          f[k].state = "resolved" => k = j \/ e[k].state = "resolved"
        BY CloseRow
      <3> DEFINE f == [escrow EXCEPT ![i].state = "resolved"]
      <3>2. /\ Len(f) = Len(escrow)
            /\ \A k \in 1..Len(escrow) : f[k].raw = escrow[k].raw
            /\ \A k \in 1..Len(escrow) :
                  f[k].state = "resolved" => k = i \/ escrow[k].state = "resolved"
        BY <1>3, <2>3, <3>1
      <3> HIDE DEF f
      <3>3. escrow' = f
        BY <2>2 DEF f
      <3>4. QED
        BY <3>2, <3>3
    <2>7. QED
      BY <1>4, <2>5, <2>6
  <1>9. CASE ExpireEscrow
    <2>1. /\ Len(escrow') = Len(escrow)
          /\ \A k \in 1..Len(escrow) :
                escrow'[k] = escrow[k] \/ escrow'[k] = [escrow[k] EXCEPT !.state = "expired"]
      BY <1>3, <1>9, ExpireType
    <2>2. \A k \in 1..Len(escrow) : escrow[k] \in EscrowRow
      BY <1>3, LenProperties
    <2>3. \A x \in EscrowRow : [x EXCEPT !.state = "expired"].state # "resolved"
      BY DEF EscrowRow
    <2>4. QED
      BY <1>4, <2>1, <2>2, <2>3
  <1>10. QED
    BY <1>6, <1>7, <1>8, <1>9 DEF Next, ProcessOne, db, Submit, Receive, Request, Cancel,
       RejectOnDbError, CheckFirstSeen, RecordDuplicity, GetReceipt, Validate, BeginStore,
       CommitStore, FetchEscrow, Replay, FinishReplay, Restart

-----------------------------------------------------------------------------
(* The theorems.                                                            *)

(* The steps that are no await of process_one keep the types and StackOk.   *)
LEMMA OuterStep ==
    ASSUME IInv, Next, ~(\E t \in Tasks : ProcessOne(t))
    PROVE  TypeOK' /\ StackOk'
  <1> USE DEF IInv
  <1>1. keyEvents' = keyEvents /\ receipts' = receipts /\ duplicityLog' = duplicityLog
        /\ clock' = clock /\ responses' = responses
    BY DEF Next, db, Submit, Receive, Request, Cancel, ExpireEscrow, Restart
  <1>2. TypeOK /\ StackOk /\ escrow \in Seq(EscrowRow)
    BY DEF TypeOK, EscrowRow
  <1>3. \A t \in Tasks : RecordsOk(stack[t], keyEvents, escrow)
    BY DEF StackOk
  <1>4. RecordsOk(<<>>, keyEvents, escrow)
    BY DEF RecordsOk
  <1>5. ASSUME NEW ev \in KeyEvent, Submit(ev)
        PROVE  TypeOK' /\ StackOk'
    <2>1. queue' \in Seq(KeyEvent)
      BY <1>5, AppendProperties DEF Submit, TypeOK
    <2>2. StackOk'
      BY <1>3, <1>5 DEF Submit, StackOk, db
    <2>3. QED
      BY <1>5, <2>1, <2>2 DEF Submit, TypeOK, db
  <1>6. ASSUME NEW w \in Workers, Receive(w)
        PROVE  TypeOK' /\ StackOk'
    <2>1. queue \in Seq(KeyEvent) /\ queue # <<>>
      BY <1>6 DEF Receive, TypeOK
    <2>2. queue' \in Seq(KeyEvent) /\ Head(queue) \in KeyEvent
      BY <1>6, <2>1, HeadTailProperties DEF Receive
    <2> DEFINE s == <<Start(Head(queue))>>
    <2>3. s \in Seq(Activation) /\ RecordsOk(s, keyEvents, escrow)
      BY <2>2, StartType, Single, FreshRecord
    <2> HIDE DEF s
    <2>4. stack' = [stack EXCEPT ![w] = s]
      BY <1>6 DEF Receive, s
    <2>5. \A t \in Tasks : RecordsOk(stack'[t], keyEvents, escrow)
      BY <1>3, <2>3, <2>4 DEF TypeOK
    <2>6. escrow' = escrow
      BY <1>6 DEF Receive, db
    <2>7. StackOk'
      BY <1>1, <2>5, <2>6 DEF StackOk
    <2>8. QED
      BY <1>6, <2>2, <2>3, <2>4, <2>7 DEF Receive, TypeOK, db
  <1>7. ASSUME NEW h \in Requests, NEW raw \in Raws, Request(h, raw)
        PROVE  TypeOK' /\ StackOk'
    <2> DEFINE s == <<Start(Parse(raw))>>
    <2>1. Parse(raw) \in KeyEvent
      BY ParseType
    <2>2. s \in Seq(Activation) /\ RecordsOk(s, keyEvents, escrow)
      BY <2>1, StartType, Single, FreshRecord
    <2> HIDE DEF s
    <2>3. stack' = [stack EXCEPT ![h] = s]
      BY <1>7 DEF Request, s
    <2>4. \A t \in Tasks : RecordsOk(stack'[t], keyEvents, escrow)
      BY <1>3, <2>2, <2>3 DEF TypeOK
    <2>5. escrow' = escrow
      BY <1>7 DEF Request, db
    <2>6. StackOk'
      BY <1>1, <2>4, <2>5 DEF StackOk
    <2>7. stack' \in [Tasks -> Seq(Activation)]
      BY <1>2, <2>2, <2>3 DEF TypeOK
    <2>8. QED
      BY <1>7, <2>6, <2>7 DEF Request, TypeOK, db
  <1>8. ASSUME NEW h \in Requests, Cancel(h)
        PROVE  TypeOK' /\ StackOk'
    <2>1. stack' = [stack EXCEPT ![h] = <<>>] /\ escrow' = escrow
      BY <1>8 DEF Cancel, db
    <2>2. \A t \in Tasks : RecordsOk(stack'[t], keyEvents, escrow)
      BY <1>3, <1>4, <2>1 DEF TypeOK
    <2>3. StackOk'
      BY <1>1, <2>1, <2>2 DEF StackOk
    <2>4. stack' \in [Tasks -> Seq(Activation)]
      <3>1. <<>> \in Seq(Activation)
        BY EmptySeq
      <3>2. QED
        BY <1>2, <2>1, <3>1 DEF TypeOK
    <2>5. QED
      BY <1>8, <2>3, <2>4 DEF Cancel, TypeOK, db
  <1>9. CASE ExpireEscrow
    <2>1. /\ escrow' \in Seq(EscrowRow)
          /\ Len(escrow') = Len(escrow)
          /\ \A k \in 1..Len(escrow) :
                escrow'[k] = escrow[k] \/ escrow'[k] = [escrow[k] EXCEPT !.state = "expired"]
      BY <1>2, <1>9, ExpireType
    <2>2. \A k \in 1..Len(escrow) : escrow'[k].raw = escrow[k].raw
      <3>1. \A k \in 1..Len(escrow) : escrow[k] \in EscrowRow
        BY <1>2, LenProperties
      <3>2. \A x \in EscrowRow : [x EXCEPT !.state = "expired"].raw = x.raw
        BY DEF EscrowRow
      <3>3. QED
        BY <2>1, <3>1, <3>2
    <2>3. Grows(keyEvents, keyEvents', escrow, escrow')
      BY <1>1, <2>1, <2>2 DEF Grows
    <2>4. stack' = stack
      BY <1>9 DEF ExpireEscrow
    <2>5. \A t \in Tasks : Len(stack[t]) \in Nat
      BY LenProperties DEF TypeOK
    <2>6. \A t \in Tasks : RecordsOk(stack'[t], keyEvents', escrow')
      BY <1>3, <2>3, <2>4, <2>5, GrowRecords
    <2>7. StackOk'
      BY <2>6 DEF StackOk
    <2>8. QED
      BY <1>9, <2>1, <2>7 DEF ExpireEscrow, TypeOK, EscrowRow
  <1>10. CASE Restart
    <2>1. stack' = [t \in Tasks |-> <<>>] /\ escrow' = escrow
      BY <1>10 DEF Restart, db
    <2>2. StackOk'
      BY <1>1, <1>4, <2>1 DEF StackOk
    <2>3. QED
      BY <1>10, <2>1, <2>2 DEF Restart, TypeOK, db
  <1>11. QED
    BY <1>5, <1>6, <1>7, <1>8, <1>9, <1>10 DEF Next

(* IInv is inductive.                                                       *)
LEMMA InitIInv == Init => IInv
  <1> SUFFICES ASSUME Init PROVE IInv
    OBVIOUS
  <1>1. TypeOK
    BY EmptySeq DEF Init, TypeOK
  <1>2. StackOk
    BY DEF Init, StackOk, RecordsOk
  <1>3. ChainIntact /\ KelContiguous /\ ReceiptsMatchEvents /\ DuplicitySound
    BY DEF Init, ChainIntact, KelContiguous, ReceiptsMatchEvents, DuplicitySound
  <1>4. AcceptedIsStored /\ ResolvedIsStored
    BY DEF Init, AcceptedIsStored, ResolvedIsStored
  <1>5. QED
    BY <1>1, <1>2, <1>3, <1>4 DEF IInv

(* The invariant is inductive.                                              *)
LEMMA NextIInv == IInv /\ [Next]_vars => IInv'
  <1> SUFFICES ASSUME IInv, [Next]_vars PROVE IInv'
    OBVIOUS
  <1>1. CASE Next
    <2>1. TypeOK' /\ StackOk'
      <3>1. CASE \E t \in Tasks : ProcessOne(t)
        BY <3>1, ProcessOneType, ReadStackOk, WriteStackOk DEF IInv, ProcessOne
      <3>2. QED
        BY <1>1, <3>1, OuterStep
    <2>2. QED
      BY <1>1, <2>1, NextTables, NextDuplicity, NextAccepted, NextResolved DEF IInv
  <1>2. CASE UNCHANGED vars
    <2>1. TypeOK' /\ StackOk'
      BY <1>2 DEF vars, IInv, TypeOK, StackOk
    <2>2. ChainIntact' /\ KelContiguous' /\ ReceiptsMatchEvents'
      <3>1. keyEvents' = keyEvents /\ receipts' = receipts
        BY <1>2 DEF vars
      <3>2. Chain(keyEvents) /\ Contiguous(keyEvents) /\ Matching(keyEvents, receipts)
        BY TableForms DEF IInv
      <3>3. Chain(keyEvents') /\ Contiguous(keyEvents') /\ Matching(keyEvents', receipts')
        BY <3>1, <3>2
      <3>4. QED
        BY <3>3, TableFormsNext
    <2>3. DuplicitySound'
      BY <1>2 DEF vars, IInv, DuplicitySound, InSlot
    <2>4. AcceptedIsStored'
      BY <1>2 DEF vars, IInv, AcceptedIsStored
    <2>5. ResolvedIsStored'
      BY <1>2 DEF vars, IInv, ResolvedIsStored
    <2>6. QED
      BY <2>1, <2>2, <2>3, <2>4, <2>5 DEF IInv
  <1>3. QED
    BY <1>1, <1>2

(* The inductive invariant holds in every behaviour.                        *)
LEMMA InvariantIInv == Spec => []IInv
  BY InitIInv, NextIInv, PTL DEF Spec

(* Every variable keeps its type.                                           *)
THEOREM TypeCorrect == Spec => []TypeOK
  <1>1. IInv => TypeOK
    BY DEF IInv
  <1>2. QED
    BY <1>1, InvariantIInv, PTL

(* The tables the workers race over stay a set of chains without a gap.     *)
THEOREM ChainsStayWhole == Spec => [](ChainIntact /\ KelContiguous)
  <1>1. IInv => ChainIntact /\ KelContiguous
    BY DEF IInv
  <1>2. QED
    BY <1>1, InvariantIInv, PTL

(* Events and receipts are written together or not at all.                  *)
THEOREM ReceiptsFollowEvents == Spec => []ReceiptsMatchEvents
  <1>1. IInv => ReceiptsMatchEvents
    BY DEF IInv
  <1>2. QED
    BY <1>1, InvariantIInv, PTL

(* No one is accused of duplicity without a stored said that differs.       *)
THEOREM DuplicityIsSound == Spec => []DuplicitySound
  <1>1. IInv => DuplicitySound
    BY DEF IInv
  <1>2. QED
    BY <1>1, InvariantIInv, PTL

(* Whoever was told "accepted" finds the event stored, however many tasks,  *)
(* crashes and failing database calls there are.                            *)
THEOREM AcceptanceIsDurable == Spec => []AcceptedIsStored
  <1>1. IInv => AcceptedIsStored
    BY DEF IInv
  <1>2. QED
    BY <1>1, InvariantIInv, PTL

(* A replay closes only the rows of stored events.                          *)
THEOREM ResolutionIsSound == Spec => []ResolvedIsStored
  <1>1. IInv => ResolvedIsStored
    BY DEF IInv
  <1>2. QED
    BY <1>1, InvariantIInv, PTL

(* The mutual recursion of process_one and retry_escrow_for_aid is one      *)
(* level deep, and its inner call never escrows.                            *)
THEOREM ReplayIsShallow == Spec => [](RecursionBounded /\ ReplayNeverReescrows)
  <1>1. IInv => RecursionBounded
    BY DEF IInv, StackOk, RecordsOk, RecursionBounded
  <1>2. IInv => ReplayNeverReescrows
    <2> SUFFICES ASSUME IInv, NEW t \in Tasks, NEW i \in 2..Len(stack[t])
                 PROVE  stack[t][i].pc # "escrow"
      BY DEF ReplayNeverReescrows
    <2>1. RecordsOk(stack[t], keyEvents, escrow)
      BY DEF IInv, StackOk
    <2>2. Len(stack[t]) \in Nat
      BY LenProperties DEF IInv, TypeOK
    <2>3. Len(stack[t]) <= 2
      BY <2>1 DEF RecordsOk
    <2>4. i = 2 /\ Len(stack[t]) = 2
      <3>1. \A m \in Nat : m <= 2 => \A k \in 2..m : k = 2 /\ m = 2
        OBVIOUS
      <3>2. QED
        BY <2>2, <2>3, <3>1, Zenon
    <2>5. QED
      BY <2>1, <2>4 DEF RecordsOk
  <1>3. QED
    BY <1>1, <1>2, InvariantIInv, PTL

(* A fork comes from a stale read: the task that adds a second said to a    *)
(* slot found the slot empty when it looked.                                *)
THEOREM ForksAreStaleReads == Spec => ForkNeedsStaleRead
  <1>1. IInv /\ [Next]_vars => [ForkIsStale]_vars
    <2> SUFFICES ASSUME IInv, Next, NEW new \in keyEvents' \ keyEvents
                 PROVE  \E t \in Tasks : /\ Busy(t, "commit")
                                         /\ Top(t).existing = NoSaid
                                         /\ Top(t).ev.raw = new.raw
      BY DEF ForkIsStale
    <2>1. PICK t \in Tasks : CommitStore(t)
      BY OnlyCommitStores
    <2> DEFINE a == Top(t)
    <2>2. /\ Busy(t, "commit") /\ stack[t] # <<>> /\ a.pc = "commit"
          /\ new.raw = a.ev.raw
          /\ ~(\E row \in keyEvents : SameKey(row.raw, a.ev.raw))
      BY <2>1 DEF CommitStore, StoreEvent, Busy
    <2>3. ActivationOk(a, keyEvents)
      BY <2>2, TopOk DEF IInv
    <2>4. a.existing = NoSaid
      <3> HIDE DEF a
      <3>1. QED
        BY <2>2, <2>3 DEF ActivationOk, SameKey
    <2>5. QED
      BY <2>2, <2>4
  <1>2. QED
    BY <1>1, InvariantIInv, PTL DEF Spec, ForkNeedsStaleRead

-----------------------------------------------------------------------------
(* One worker.  Requests and replays have lost their signatures, so only    *)
(* the worker stores events, and what it read of a slot is still so when it *)
(* commits.                                                                 *)

OneWorker == \A v, w \in Workers : v = w

(* The tasks that cannot store: their events carry no signatures.           *)
Unsigned == {a \in Activation : a.ev.sigs = {}}
SignedAreReceived == \A t \in Tasks : t \notin Workers => stack[t] \in Seq(Unsigned)

(* What the worker found empty still is; an inception is only stored into   *)
(* an empty slot, however it came to be validated.                          *)
FreshOk(a, K) ==
    /\ a.pc = "validate" /\ a.existing = NoSaid => ~Slotted(K, a.ev.raw.aid, a.ev.raw.sn)
    /\ a.pc \in Storing /\ (a.existing = NoSaid \/ a.ev.raw.sn = 0) =>
          ~Slotted(K, a.ev.raw.aid, a.ev.raw.sn)
FreshReads == \A w \in Workers : stack[w] # <<>> => FreshOk(Top(w), keyEvents)

OneRow(K) == \A r1, r2 \in K : SameSlot(r1.raw, r2.raw) => r1 = r2

SerialInv == SignedAreReceived /\ FreshReads /\ OneRow(keyEvents) /\ ReceiptIsOwn

(* A next step leaves the new record on top.                                *)
LEMMA GotoTop ==
    ASSUME TypeOK, NEW t \in Tasks, stack[t] # <<>>, NEW b, Goto(t, b)
    PROVE  stack'[t] # <<>> /\ Top(t)' = b
  <1> DEFINE Any == Activation \cup {b}
             s == stack[t]
             u == [s EXCEPT ![Len(s)] = b]
  <1>1. s \in Seq(Any)
    <2>1. s \in Seq(Activation)
      BY DEF TypeOK
    <2>2. QED
      BY <2>1, LenProperties, SeqDef
  <1>2. /\ Len(s) \in Nat \ {0} /\ u \in Seq(Any) /\ Len(u) = Len(s) /\ u[Len(s)] = b
    BY <1>1, ReplaceLast
  <1>3. stack'[t] = u
    BY DEF Goto, TypeOK
  <1> HIDE DEF u
  <1>4. u # <<>>
    BY <1>2, EmptySeq
  <1>5. QED
    BY <1>2, <1>3, <1>4 DEF Top

(* A return leaves the record that replays, or nothing.                     *)
LEMMA ReturnTop ==
    ASSUME TypeOK, StackOk, NEW t \in Tasks, stack[t] # <<>>,
           NEW verdict, NEW said, Return(t, verdict, said)
    PROVE  stack'[t] # <<>> => Top(t)'.pc = "settle"
  <1> DEFINE s == stack[t]
             b == (verdict = "accepted")
             u == Popped(s, b)
  <1>1. s \in Seq(Activation)
    BY DEF TypeOK
  <1>2. Len(s) \in Nat /\ Len(s) <= 2
    BY <1>1, LenProperties DEF StackOk, RecordsOk
  <1>3. CASE Len(s) > 1
    <2>1. Len(s) = 2 /\ s[1].pc = "settle"
      <3>1. Len(s) = 2
        <4>1. \A m \in Nat : m <= 2 /\ m > 1 => m = 2
          OBVIOUS
        <4>2. QED
          BY <1>2, <1>3, <4>1, Zenon
      <3>2. QED
        BY <3>1 DEF StackOk, RecordsOk
    <2>2. Len(u) = 1 /\ u[1] = [s[1] EXCEPT !.child = b] /\ s[1] \in Activation
      <3>1. /\ Len(u) = Len(s) - 1 /\ u[Len(s) - 1] = [s[Len(s) - 1] EXCEPT !.child = b]
            /\ s[Len(s) - 1] \in Activation
        BY <1>1, <1>3, PoppedType
      <3>2. Len(s) - 1 = 1
        BY <2>1
      <3>3. QED
        BY <3>1, <3>2
    <2>3. stack'[t] = u
      BY <1>3 DEF Return, Popped, TypeOK
    <2> HIDE DEF u, b
    <2>4. u[1].pc = "settle"
      BY <2>1, <2>2 DEF Activation
    <2>5. QED
      BY <2>2, <2>3, <2>4 DEF Top
  <1>4. CASE ~(Len(s) > 1)
    BY <1>4 DEF Return, TypeOK
  <1>5. QED
    BY <1>3, <1>4

(* A replayed event starts at its first check.                              *)
LEMMA ReplayTop ==
    ASSUME TypeOK, NEW t \in Tasks, Replay(t)
    PROVE  Top(t)'.pc = "first_seen"
  <1> DEFINE a == Top(t)
             u == [stack[t] EXCEPT ![Len(stack[t])] = [a EXCEPT !.pc = "settle"]]
  <1>1. PICK i \in a.pending : stack'[t] = Append(u, Start(Parse(escrow[i].raw)))
    BY DEF Replay, TypeOK
  <1>2. stack[t] \in Seq(Activation) /\ stack[t] # <<>>
    BY DEF TypeOK, Replay, Busy
  <1>3. [a EXCEPT !.pc = "settle"] \in Activation
    BY <1>2, TopType DEF Activation, PCs
  <1>4. u \in Seq(Activation)
    BY <1>2, <1>3, ReplaceLast, Zenon
  <1> HIDE DEF u
  <1> DEFINE x == Start(Parse(escrow[i].raw))
             v == Append(u, x)
  <1>5. x.pc = "first_seen"
    BY DEF Start
  <1>6. Len(v) = Len(u) + 1 /\ v[Len(u) + 1] = x
    <2>1. u \in Seq(Activation \cup {x}) /\ x \in Activation \cup {x}
      BY <1>4, LenProperties, SeqDef
    <2> HIDE DEF x
    <2>2. QED
      BY <2>1, Push
  <1>7. stack'[t] = v
    BY <1>1
  <1> HIDE DEF v, x
  <1>8. QED
    BY <1>5, <1>6, <1>7 DEF Top

(* A task that does not step keeps its stack, or starts, or is dropped.     *)
LEMMA OtherStack ==
    ASSUME TypeOK, Next, NEW t \in Tasks, ~ProcessOne(t)
    PROVE  \/ stack'[t] \in {stack[t], <<>>}
           \/ t \in Workers /\ \E ev \in KeyEvent : stack'[t] = <<Start(ev)>>
           \/ \E raw \in Raws : stack'[t] = <<Start(Parse(raw))>>
  <1>1. ASSUME NEW u \in Tasks, u # t, ProcessOne(u)
        PROVE  stack'[t] = stack[t]
    BY <1>1 DEF TypeOK, ProcessOne, RejectOnDbError, CheckFirstSeen, RecordDuplicity, GetReceipt,
       Validate, EscrowEvent, BeginStore, CommitStore, FetchEscrow, Replay, Settle,
       FinishReplay, Goto, Return
  <1>2. CASE \E w \in Workers : Receive(w)
    <2>1. PICK w \in Workers : Receive(w)
      BY <1>2
    <2>2. Head(queue) \in KeyEvent
      BY <2>1, HeadTailProperties DEF Receive, TypeOK
    <2>3. QED
      BY <2>1, <2>2 DEF Receive, TypeOK
  <1>3. QED
    BY <1>1, <1>2 DEF Next, TypeOK, Submit, Request, Cancel, ExpireEscrow, Restart

(* The stacks of the others stay without signatures.                        *)
LEMMA UnsignedReturn ==
    ASSUME NEW s \in Seq(Unsigned), Len(s) > 1, NEW b \in BOOLEAN
    PROVE  Popped(s, b) \in Seq(Unsigned)
  <1>1. s \in Seq(Activation)
    BY LenProperties, SeqDef DEF Unsigned
  <1> DEFINE u == Popped(s, b)
             n == Len(s) - 1
  <1>2. /\ u \in Seq(Activation) /\ Len(u) = n
        /\ \A i \in 1..(Len(s) - 2) : u[i] = s[i]
        /\ u[n] = [s[n] EXCEPT !.child = b]
        /\ s[n] \in Activation
    BY <1>1, PoppedType
  <1> HIDE DEF u
  <1>3. \A i \in 1..Len(s) : s[i].ev.sigs = {}
    BY LenProperties DEF Unsigned
  <1>4. Len(s) \in Nat
    BY LenProperties
  <1>5. n \in 1..Len(s) /\ \A i \in 1..n : i = n \/ i \in 1..(Len(s) - 2)
    <2>1. \A m \in Nat : m > 1 => /\ m - 1 \in 1..m
                                  /\ \A i \in 1..(m - 1) : i = m - 1 \/ i \in 1..(m - 2)
      OBVIOUS
    <2>2. QED
      BY <1>4, <2>1, Zenon
  <1>6. \A i \in 1..(Len(s) - 2) : i \in 1..Len(s)
    BY <1>4
  <1>7. u[n].ev = s[n].ev
    BY <1>2 DEF Activation
  <1>8. \A i \in 1..Len(u) : u[i] \in Unsigned
    <2>1. \A i \in 1..Len(u) : u[i] \in Activation
      BY <1>2, LenProperties
    <2>2. \A i \in 1..n : u[i].ev.sigs = {}
      BY <1>2, <1>3, <1>5, <1>6, <1>7
    <2>3. QED
      BY <1>2, <2>1, <2>2 DEF Unsigned
  <1>9. u \in [1..n -> Unsigned] /\ n \in Nat
    <2>1. u \in [1..Len(u) -> Activation] /\ Len(u) \in Nat
      BY <1>2, LenProperties
    <2>2. QED
      BY <1>2, <1>8, <2>1
  <1>10. u \in Seq(Unsigned)
    BY <1>9, SeqDef
  <1>11. QED
    BY <1>10 DEF u

(* No step gives a task that is no worker an event with signatures.         *)
LEMMA UnsignedStep ==
    ASSUME IInv, SignedAreReceived, Next
    PROVE  SignedAreReceived'
  <1> SUFFICES ASSUME NEW t \in Tasks, t \notin Workers
               PROVE  stack'[t] \in Seq(Unsigned)
    BY DEF SignedAreReceived
  <1> DEFINE s == stack[t]
             a == Top(t)
  <1>1. s \in Seq(Unsigned) /\ TypeOK /\ StackOk
    BY DEF SignedAreReceived, IInv
  <1>2. \A raw \in Raws : Start(Parse(raw)) \in Unsigned
    BY ParseType, StartType DEF Unsigned, Start
  <1>3. CASE ~ProcessOne(t)
    <2>1. \/ stack'[t] \in {s, <<>>}
          \/ \E raw \in Raws : stack'[t] = <<Start(Parse(raw))>>
      BY <1>1, <1>3, OtherStack
    <2>2. <<>> \in Seq(Unsigned)
      BY EmptySeq
    <2>3. \A x \in Unsigned : <<x>> \in Seq(Unsigned)
      BY Single
    <2>4. QED
      BY <1>1, <1>2, <2>1, <2>2, <2>3
  <1>4. CASE ProcessOne(t)
    <2>1. s # <<>>
      BY <1>4 DEF ProcessOne, RejectOnDbError, CheckFirstSeen, RecordDuplicity, GetReceipt,
         Validate, EscrowEvent, BeginStore, CommitStore, FetchEscrow, Replay, Settle,
         FinishReplay, Busy
    <2>2. a \in Unsigned /\ a \in Activation
      BY <1>1, <2>1, LastRecord DEF Top, Unsigned
    <2>3. ASSUME NEW b, Goto(t, b), b \in Activation, b.ev = a.ev
          PROVE  stack'[t] \in Seq(Unsigned)
      <3>1. b \in Unsigned
        BY <2>2, <2>3 DEF Unsigned
      <3>2. stack'[t] = [s EXCEPT ![Len(s)] = b]
        BY <1>1, <2>3 DEF Goto, TypeOK
      <3>3. [s EXCEPT ![Len(s)] = b] \in Seq(Unsigned)
        BY <1>1, <2>1, <3>1, ReplaceLast, Zenon
      <3>4. QED
        BY <3>2, <3>3
    <2>4. ASSUME NEW verdict, NEW said, Return(t, verdict, said)
          PROVE  stack'[t] \in Seq(Unsigned)
      <3> DEFINE b == (verdict = "accepted")
      <3>1. CASE Len(s) > 1
        <4>1. stack'[t] = Popped(s, b)
          BY <1>1, <2>4, <3>1 DEF Return, Popped, TypeOK
        <4>2. b \in BOOLEAN
          OBVIOUS
        <4> HIDE DEF b
        <4>3. Popped(s, b) \in Seq(Unsigned)
          BY <1>1, <3>1, <4>2, UnsignedReturn
        <4>4. QED
          BY <4>1, <4>3
      <3>2. CASE ~(Len(s) > 1)
        <4>1. stack'[t] = <<>>
          BY <1>1, <2>4, <3>2 DEF Return, TypeOK
        <4>2. QED
          BY <4>1, EmptySeq
      <3>3. QED
        BY <3>1, <3>2
    <2>5. ASSUME Replay(t)
          PROVE  stack'[t] \in Seq(Unsigned)
      <3> DEFINE u == [s EXCEPT ![Len(s)] = [a EXCEPT !.pc = "settle"]]
      <3>1. PICK i \in a.pending : stack'[t] = Append(u, Start(Parse(escrow[i].raw)))
        BY <1>1, <2>5 DEF Replay, TypeOK
      <3>2. PendingOk(a, escrow)
        BY <1>1, <2>1, TopOk
      <3>3. escrow[i].raw \in Raws
        <4>1. escrow[i] \in EscrowRow
          BY <1>1, <3>1, <3>2, LenProperties DEF PendingOk, TypeOK, EscrowRow
        <4>2. QED
          BY <4>1 DEF EscrowRow
      <3>4. [a EXCEPT !.pc = "settle"] \in Unsigned
        BY <2>2 DEF Unsigned, Activation, PCs
      <3>5. u \in Seq(Unsigned)
        BY <1>1, <2>1, <3>4, ReplaceLast, Zenon
      <3> HIDE DEF u
      <3>6. QED
        BY <1>2, <3>1, <3>3, <3>5, Push
    <2>6. CASE CheckFirstSeen(t)
      <3>1. \/ Goto(t, [a EXCEPT !.pc = "validate"])
            \/ \E row \in keyEvents :
                  Goto(t, [a EXCEPT !.existing = row.raw.said,
                                    !.pc = AfterFirstSeen(row.raw.said, a.ev.raw)])
        BY <2>6 DEF CheckFirstSeen
      <3>2. \A row \in keyEvents : row.raw.said \in Saids
        BY <1>1, WitnessConstants DEF TypeOK, Raw
      <3>3. QED
        BY <2>2, <2>3, <3>1, <3>2 DEF Activation, PCs, AfterFirstSeen
    <2>7. CASE BeginStore(t)
      <3>1. Goto(t, [a EXCEPT !.pc = "commit", !.at = clock])
        BY <2>7 DEF BeginStore
      <3>2. QED
        BY <1>1, <2>2, <2>3, <3>1 DEF Activation, PCs, TypeOK
    <2>8. CASE FetchEscrow(t)
      <3>1. PICK ids \in {{}, Replayable(a.ev.raw)} :
                Goto(t, [a EXCEPT !.pc = "replay", !.pending = ids])
        BY <2>8 DEF FetchEscrow
      <3>2. ids \in SUBSET Nat
        <4>1. 1..Len(escrow) \subseteq Nat
          BY <1>1, LenProperties DEF TypeOK
        <4>2. QED
          BY <4>1 DEF Replayable, PendingEscrow
      <3>3. QED
        BY <2>2, <2>3, <3>1, <3>2 DEF Activation, PCs
    <2>9. CASE Settle(t)
      <3>1. PICK i : Goto(t, [a EXCEPT !.pc = "replay", !.pending = RowsAfter(a, i)])
        BY <2>9 DEF Settle
      <3>2. RowsAfter(a, i) \in SUBSET Nat
        BY <2>2 DEF RowsAfter, Activation
      <3>3. QED
        BY <2>2, <2>3, <3>1, <3>2 DEF Activation, PCs
    <2>10. ASSUME NEW pc \in PCs
           PROVE  [a EXCEPT !.pc = pc] \in Activation /\ [a EXCEPT !.pc = pc].ev = a.ev
      BY <2>2 DEF Activation
    <2>11. \A pc \in PCs : Goto(t, [a EXCEPT !.pc = pc]) => stack'[t] \in Seq(Unsigned)
      BY <2>3, <2>10
    <2>12. CASE Validate(t) \/ CommitStore(t) \/ GetReceipt(t)
      <3>1. \/ \E pc \in {"escrow", "begin", "fetch_escrow", "validate"} : Goto(t, [a EXCEPT !.pc = pc])
            \/ \E verdict, said : Return(t, verdict, said)
        BY <2>12 DEF Validate, CommitStore, GetReceipt
      <3>2. QED
        BY <2>4, <2>11, <3>1 DEF PCs
    <2>13. CASE RejectOnDbError(t) \/ RecordDuplicity(t) \/ EscrowEvent(t) \/ FinishReplay(t)
      BY <2>4, <2>13 DEF RejectOnDbError, RecordDuplicity, EscrowEvent, FinishReplay
    <2>14. QED
      BY <1>4, <2>5, <2>6, <2>7, <2>8, <2>9, <2>12, <2>13 DEF ProcessOne
  <1>5. QED
    BY <1>3, <1>4

(* Only the worker commits.                                                 *)
LEMMA WorkerCommits ==
    ASSUME IInv, SignedAreReceived, NEW t \in Tasks, stack[t] # <<>>, Top(t).pc \in Storing
    PROVE  t \in Workers
  <1>1. ActivationOk(Top(t), keyEvents)
    BY TopOk DEF IInv
  <1>2. Top(t).ev.sigs # {}
    BY <1>1 DEF ActivationOk, SignaturesOk
  <1>3. stack[t] \in Seq(Unsigned) => Top(t) \in Unsigned
    BY LastRecord DEF Top
  <1>4. QED
    BY <1>2, <1>3 DEF SignedAreReceived, Unsigned

(* What the worker knows of its slot stays so: only its own commit writes.  *)
LEMMA FreshStep ==
    ASSUME IInv, SignedAreReceived, FreshReads, OneWorker, Next
    PROVE  FreshReads'
  <1> SUFFICES ASSUME NEW w \in Workers, stack'[w] # <<>>
               PROVE  FreshOk(Top(w)', keyEvents')
    BY DEF FreshReads
  <1> DEFINE a == Top(w)
             r == a.ev.raw
             K == keyEvents
  <1>1. TypeOK /\ StackOk /\ w \in Tasks
    BY DEF IInv, Tasks
  <1>2. \A t \in Tasks : CommitStore(t) => t = w
    BY WorkerCommits DEF CommitStore, Busy, Storing, OneWorker
  <1>3. ~CommitStore(w) => keyEvents' = K
    BY <1>2, OnlyCommitStores
  <1>4. \A b : b.pc \notin Storing \cup {"validate"} => FreshOk(b, keyEvents')
    BY DEF FreshOk
  <1>5. CASE ~ProcessOne(w)
    <2>1. keyEvents' = K
      BY <1>3, <1>5 DEF ProcessOne
    <2>2. \/ stack'[w] = stack[w]
          \/ \E ev : stack'[w] = <<Start(ev)>>
      BY <1>1, <1>5, OtherStack
    <2>3. CASE stack'[w] = stack[w]
      <3>1. Top(w)' = a
        BY <2>3 DEF Top
      <3>2. QED
        BY <2>1, <2>3, <3>1 DEF FreshReads
    <2>4. CASE \E ev : stack'[w] = <<Start(ev)>>
      <3>1. Top(w)'.pc = "first_seen"
        BY <2>4 DEF Top, Start
      <3>2. QED
        BY <1>4, <3>1 DEF Storing
    <2>5. QED
      BY <2>2, <2>3, <2>4
  <1>6. CASE ProcessOne(w)
    <2>1. stack[w] # <<>>
      BY <1>6 DEF ProcessOne, RejectOnDbError, CheckFirstSeen, RecordDuplicity, GetReceipt,
         Validate, EscrowEvent, BeginStore, CommitStore, FetchEscrow, Replay, Settle,
         FinishReplay, Busy
    <2>2. a \in Activation /\ FreshOk(a, K) /\ ActivationOk(a, K)
      BY <1>1, <2>1, TopType, TopOk DEF FreshReads
    <2>3. \A b : Goto(w, b) => Top(w)' = b
      BY <1>1, <2>1, GotoTop
    <2>4. ASSUME NEW verdict, NEW said, Return(w, verdict, said)
          PROVE  FreshOk(Top(w)', keyEvents')
      <3>1. Top(w)'.pc = "settle"
        BY <1>1, <2>1, <2>4, ReturnTop
      <3>2. QED
        BY <1>4, <3>1 DEF Storing
    <2>5. CASE RejectOnDbError(w) \/ RecordDuplicity(w) \/ EscrowEvent(w) \/ FinishReplay(w)
      BY <2>4, <2>5 DEF RejectOnDbError, RecordDuplicity, EscrowEvent, FinishReplay
    <2>6. CASE CheckFirstSeen(w)
      <3>1. keyEvents' = K
        BY <1>3, <2>6 DEF CheckFirstSeen, CommitStore, Busy
      <3>2. CASE InSlot(r.aid, r.sn) = {} /\ Goto(w, [a EXCEPT !.pc = "validate"])
        <4>1. Top(w)' = [a EXCEPT !.pc = "validate"]
          BY <2>3, <3>2
        <4>2. ~Slotted(K, r.aid, r.sn)
          BY <3>2 DEF InSlot, Slotted
        <4>3. [a EXCEPT !.pc = "validate"].ev = a.ev /\ [a EXCEPT !.pc = "validate"].pc = "validate"
          BY <2>2 DEF Activation
        <4>4. QED
          BY <3>1, <4>1, <4>2, <4>3 DEF FreshOk, Storing
      <3>3. CASE \E row \in K : Goto(w, [a EXCEPT !.existing = row.raw.said,
                                                  !.pc = AfterFirstSeen(row.raw.said, r)])
        <4>1. PICK row \in K : Top(w)' = [a EXCEPT !.existing = row.raw.said,
                                                   !.pc = AfterFirstSeen(row.raw.said, r)]
          BY <2>3, <3>3
        <4>2. Top(w)'.pc \in {"record_duplicity", "get_receipt"}
          BY <2>2, <4>1 DEF Activation, AfterFirstSeen
        <4>3. QED
          BY <1>4, <4>2 DEF Storing
      <3>4. QED
        BY <2>6, <3>2, <3>3 DEF CheckFirstSeen
    <2>7. CASE GetReceipt(w)
      <3>1. CASE Goto(w, [a EXCEPT !.pc = "validate"])
        <4>1. Top(w)' = [a EXCEPT !.pc = "validate"] /\ a.pc = "get_receipt"
          BY <2>3, <2>7, <3>1 DEF GetReceipt, Busy
        <4>2. a.existing # NoSaid
          BY <2>2, <4>1, WitnessConstants DEF ActivationOk, Activation, KeyEvent, Raw
        <4>3. /\ [a EXCEPT !.pc = "validate"].existing = a.existing
              /\ [a EXCEPT !.pc = "validate"].pc = "validate"
          BY <2>2 DEF Activation
        <4>4. QED
          BY <4>1, <4>2, <4>3 DEF FreshOk, Storing
      <3>2. QED
        BY <2>4, <2>7, <3>1 DEF GetReceipt
    <2>8. CASE Validate(w)
      <3>1. keyEvents' = K
        BY <1>3, <2>8 DEF Validate, CommitStore, Busy
      <3>2. CASE Goto(w, [a EXCEPT !.pc = "escrow"])
        <4>1. Top(w)'.pc = "escrow"
          BY <2>2, <2>3, <3>2 DEF Activation
        <4>2. QED
          BY <1>4, <4>1 DEF Storing
      <3>3. CASE SequenceOk(r) /\ Goto(w, [a EXCEPT !.pc = "begin"])
        <4>1. Top(w)' = [a EXCEPT !.pc = "begin"] /\ a.pc = "validate"
          BY <2>3, <2>8, <3>3 DEF Validate, Busy
        <4>2. /\ [a EXCEPT !.pc = "begin"].ev = a.ev
              /\ [a EXCEPT !.pc = "begin"].existing = a.existing
              /\ [a EXCEPT !.pc = "begin"].pc = "begin"
          BY <2>2 DEF Activation
        <4>3. r.sn = 0 => ~Slotted(K, r.aid, r.sn)
          BY <3>3 DEF SequenceOk, InSlot, Slotted
        <4>4. a.existing = NoSaid => ~Slotted(K, r.aid, r.sn)
          BY <2>2, <4>1 DEF FreshOk
        <4>5. QED
          BY <3>1, <4>1, <4>2, <4>3, <4>4 DEF FreshOk, Storing
      <3>4. QED
        BY <2>4, <2>8, <3>2, <3>3 DEF Validate
    <2>9. CASE BeginStore(w)
      <3>1. keyEvents' = K
        BY <1>3, <2>9 DEF BeginStore, CommitStore, Busy
      <3>2. Top(w)' = [a EXCEPT !.pc = "commit", !.at = clock] /\ a.pc = "begin"
        BY <2>3, <2>9 DEF BeginStore, Busy
      <3>3. /\ [a EXCEPT !.pc = "commit", !.at = clock].ev = a.ev
            /\ [a EXCEPT !.pc = "commit", !.at = clock].existing = a.existing
            /\ [a EXCEPT !.pc = "commit", !.at = clock].pc = "commit"
        BY <2>2 DEF Activation
      <3>4. QED
        BY <2>2, <3>1, <3>2, <3>3 DEF FreshOk, Storing
    <2>10. CASE CommitStore(w) \/ FetchEscrow(w) \/ Settle(w)
      <3>1. \/ Goto(w, [a EXCEPT !.pc = "fetch_escrow"])
            \/ \E ids : Goto(w, [a EXCEPT !.pc = "replay", !.pending = ids])
        BY <2>10 DEF CommitStore, FetchEscrow, Settle
      <3>2. Top(w)'.pc \in {"fetch_escrow", "replay"}
        BY <2>2, <2>3, <3>1 DEF Activation
      <3>3. QED
        BY <1>4, <3>2 DEF Storing
    <2>11. CASE Replay(w)
      <3>1. Top(w)'.pc = "first_seen"
        BY <1>1, <2>11, ReplayTop
      <3>2. QED
        BY <1>4, <3>1 DEF Storing
    <2>12. QED
      BY <1>6, <2>5, <2>6, <2>7, <2>8, <2>9, <2>10, <2>11 DEF ProcessOne
  <1>7. QED
    BY <1>5, <1>6

(* What the commit of the worker writes: an event into an empty slot, or    *)
(* the receipt of an event that is there again.                             *)
LEMMA CommitOne ==
    ASSUME IInv, SerialInv, OneWorker, NEW t \in Tasks, CommitStore(t)
    PROVE  /\ \/ /\ ~Slotted(keyEvents, Top(t).ev.raw.aid, Top(t).ev.raw.sn)
                 /\ keyEvents' = keyEvents \cup {[raw |-> Top(t).ev.raw, at |-> Top(t).at]}
              \/ /\ StoredIn(keyEvents, Top(t).ev.raw)
                 /\ Top(t).ev.raw.sn # 0
                 /\ keyEvents' = keyEvents
           /\ Top(t).ev.raw \in Raw
           /\ StructureOk(Top(t).ev.raw) /\ PriorIn(keyEvents, Top(t).ev.raw)
  <1> DEFINE a == Top(t)
             r == a.ev.raw
             K == keyEvents
  <1>1. stack[t] # <<>> /\ a.pc = "commit"
    BY DEF CommitStore, Busy
  <1>2. a \in Activation /\ ActivationOk(a, K)
    BY <1>1, TopType, TopOk DEF IInv
  <1>3. FreshOk(a, K)
    BY <1>1, WorkerCommits DEF SerialInv, FreshReads, Storing
  <1>4. keyEvents' = IF StoredIn(K, r) THEN K ELSE K \cup {[raw |-> r, at |-> a.at]}
    BY DEF CommitStore, StoreEvent, StoredIn
  <1>5. r \in Raw
    BY <1>2, WitnessConstants DEF Activation, KeyEvent
  <1> HIDE DEF a
  <1>6. a.existing # NoSaid => StoredIn(K, r)
    BY <1>1, <1>2 DEF ActivationOk, StoredIn, SameKey
  <1>7. StoredIn(K, r) => Slotted(K, r.aid, r.sn)
    BY DEF StoredIn, Slotted, SameKey, SameSlot
  <1>8. StructureOk(r) /\ PriorIn(K, r)
    BY <1>1, <1>2 DEF ActivationOk, Storing
  <1>9. StoredIn(K, r) => r.sn # 0
    BY <1>1, <1>3, <1>7 DEF FreshOk, Storing
  <1>10. ~StoredIn(K, r) => ~Slotted(K, r.aid, r.sn)
    BY <1>1, <1>3, <1>6 DEF FreshOk, Storing
  <1>11. QED
    BY <1>4, <1>5, <1>8, <1>9, <1>10 DEF a

(* There is one row per slot, and receipts and answers are those of the     *)
(* events they stand for.                                                   *)
LEMMA SerialStep ==
    ASSUME IInv, SerialInv, OneWorker, Next
    PROVE  OneRow(keyEvents') /\ ReceiptIsOwn'
  <1> DEFINE K == keyEvents
  <1>1. CASE ~(\E t \in Tasks : CommitStore(t))
    <2>1. keyEvents' = K /\ receipts' = receipts
      BY <1>1, OnlyCommitStores
    <2>2. ASSUME NEW t \in Tasks, stack[t] # <<>>, NEW verdict, NEW said, Return(t, verdict, said),
                 verdict = "accepted" => said = Top(t).ev.raw.said
          PROVE  \A x \in responses' : x.verdict = "accepted" => x.said = x.raw.said
      <3> DEFINE x == [raw |-> Top(t).ev.raw, verdict |-> verdict, said |-> said]
      <3>1. responses' \in {responses, responses \cup {x}}
        BY <2>2 DEF Return, Top
      <3>2. x.verdict = "accepted" => x.said = x.raw.said
        BY <2>2
      <3> HIDE DEF x
      <3>3. QED
        BY <3>1, <3>2 DEF SerialInv, ReceiptIsOwn
    <2>3. ASSUME NEW t \in Tasks, GetReceipt(t)
          PROVE  \A x \in responses' : x.verdict = "accepted" => x.said = x.raw.said
      <3> DEFINE a == Top(t)
      <3>1. stack[t] # <<>> /\ a.pc = "get_receipt"
        BY <2>3 DEF GetReceipt, Busy
      <3>2. CASE \E rct \in receipts : ReceiptFor(rct, a.ev.raw) /\ Return(t, "accepted", rct.said)
        <4>1. PICK rct \in receipts : ReceiptFor(rct, a.ev.raw) /\ Return(t, "accepted", rct.said)
          BY <3>2
        <4>2. a \in Activation /\ ActivationOk(a, K)
          BY <3>1, TopType, TopOk DEF IInv
        <4>3. a.existing = a.ev.raw.said /\ a.existing # NoSaid
          BY <3>1, <4>2, WitnessConstants DEF ActivationOk, Activation, KeyEvent, Raw
        <4> HIDE DEF a
        <4>4. PICK row \in K : SameSlot(row.raw, a.ev.raw) /\ row.raw.said = a.ev.raw.said
          BY <4>2, <4>3 DEF ActivationOk
        <4>5. PICK other \in K : /\ other.raw.aid = rct.aid /\ other.raw.sn = rct.sn
                                 /\ other.raw.said = rct.said
          BY <4>1, TableForms DEF IInv, Matching, Holds
        <4>6. other = row
          BY <4>1, <4>4, <4>5 DEF SerialInv, OneRow, SameSlot, ReceiptFor
        <4>7. rct.said = a.ev.raw.said
          BY <4>4, <4>5, <4>6
        <4>8. QED
          BY <2>2, <3>1, <4>1, <4>7 DEF a
      <3>3. CASE responses' = responses
        BY <3>3 DEF SerialInv, ReceiptIsOwn
      <3>4. QED
        BY <2>3, <3>2, <3>3 DEF GetReceipt
    <2>4. ASSUME NEW t \in Tasks,
                 \/ RejectOnDbError(t) \/ RecordDuplicity(t) \/ EscrowEvent(t) \/ FinishReplay(t)
                 \/ Validate(t)
          PROVE  \A x \in responses' : x.verdict = "accepted" => x.said = x.raw.said
      <3>1. stack[t] # <<>>
        BY <2>4 DEF RejectOnDbError, RecordDuplicity, EscrowEvent, FinishReplay, Validate, Busy
      <3>2. \/ responses' = responses
            \/ \E verdict \in Verdicts \ {"accepted"} : Return(t, verdict, NoSaid)
            \/ Return(t, "accepted", Top(t).ev.raw.said)
        BY <2>4 DEF RejectOnDbError, RecordDuplicity, EscrowEvent, FinishReplay, Validate, Verdicts
      <3>3. QED
        BY <2>2, <3>1, <3>2 DEF SerialInv, ReceiptIsOwn
    <2>5. \A x \in responses' : x.verdict = "accepted" => x.said = x.raw.said
      <3>1. CASE responses' = responses
        BY <3>1 DEF SerialInv, ReceiptIsOwn
      <3>2. QED
        BY <1>1, <2>3, <2>4, <3>1 DEF Next, ProcessOne, Submit, Receive, Request, Cancel,
           CheckFirstSeen, BeginStore, FetchEscrow, Replay, Settle, ExpireEscrow, Restart
    <2>6. QED
      BY <2>1, <2>5 DEF SerialInv, ReceiptIsOwn
  <1>2. ASSUME NEW t \in Tasks, CommitStore(t)
        PROVE  OneRow(keyEvents') /\ ReceiptIsOwn'
    <2> DEFINE r == Top(t).ev.raw
               new == [raw |-> r, at |-> Top(t).at]
    <2>1. /\ \/ ~Slotted(K, r.aid, r.sn) /\ keyEvents' = K \cup {new}
             \/ StoredIn(K, r) /\ keyEvents' = K
      BY <1>2, CommitOne
    <2>2. new.raw = r
      OBVIOUS
    <2>3. responses' = responses
      BY <1>2 DEF CommitStore
    <2>4. receipts' = IF \E rct \in receipts : SameSlot(rct, r)
                      THEN {IF SameSlot(rct, r)
                            THEN [rct EXCEPT !.signer = keyPair, !.signed = r.said]
                            ELSE rct : rct \in receipts}
                      ELSE receipts \cup {[aid |-> r.aid, sn |-> r.sn, said |-> r.said,
                                           witness |-> keyPair, signer |-> keyPair,
                                           signed |-> r.said]}
      BY <1>2 DEF CommitStore, StoreReceipt
    <2> HIDE DEF new, r
    <2>5. OneRow(K)
      BY DEF SerialInv
    <2>6. OneRow(keyEvents')
      BY <2>1, <2>2, <2>5 DEF OneRow, Slotted, SameSlot
    <2>7. Matching(K, receipts)
      BY TableForms DEF IInv
    <2>8. ASSUME NEW rct \in receipts, SameSlot(rct, r)
          PROVE  rct.said = r.said
      <3>1. PICK row \in K : /\ row.raw.aid = rct.aid /\ row.raw.sn = rct.sn
                             /\ row.raw.said = rct.said
        BY <2>7 DEF Matching, Holds
      <3>2. Slotted(K, r.aid, r.sn)
        BY <2>8, <3>1 DEF Slotted, SameSlot
      <3>3. PICK other \in K : SameKey(other.raw, r)
        BY <2>1, <3>2 DEF StoredIn
      <3>4. row = other
        BY <2>5, <2>8, <3>1, <3>3 DEF OneRow, SameSlot, SameKey
      <3>5. QED
        BY <3>1, <3>3, <3>4 DEF SameKey
    <2>9. \A d \in receipts' : d.signed = d.said
      <3>1. ASSUME NEW rct \in receipts, SameSlot(rct, r)
            PROVE  LET d == [rct EXCEPT !.signer = keyPair, !.signed = r.said]
                   IN  d.signed = d.said
        BY <2>8, <3>1 DEF IInv, TypeOK
      <3>2. \A rct \in receipts : rct.signed = rct.said
        BY DEF SerialInv, ReceiptIsOwn
      <3>3. ASSUME NEW d \in receipts'
            PROVE  \/ d \in receipts
                   \/ \E rct \in receipts : /\ SameSlot(rct, r)
                                            /\ d = [rct EXCEPT !.signer = keyPair, !.signed = r.said]
                   \/ d = [aid |-> r.aid, sn |-> r.sn, said |-> r.said, witness |-> keyPair,
                           signer |-> keyPair, signed |-> r.said]
        <4>1. CASE \E rct \in receipts : SameSlot(rct, r)
          BY <2>4, <4>1, Zenon
        <4>2. CASE ~(\E rct \in receipts : SameSlot(rct, r))
          BY <2>4, <4>2
        <4>3. QED
          BY <4>1, <4>2
      <3> DEFINE fresh == [aid |-> r.aid, sn |-> r.sn, said |-> r.said, witness |-> keyPair,
                           signer |-> keyPair, signed |-> r.said]
                 Touch(rct) == [rct EXCEPT !.signer = keyPair, !.signed = r.said]
      <3>4. fresh.signed = fresh.said
        OBVIOUS
      <3>5. \A rct \in receipts : SameSlot(rct, r) => Touch(rct).signed = Touch(rct).said
        BY <3>1
      <3>6. \A d \in receipts' : \/ d \in receipts
                                 \/ \E rct \in receipts : SameSlot(rct, r) /\ d = Touch(rct)
                                 \/ d = fresh
        BY <3>3
      <3> HIDE DEF fresh, Touch
      <3>7. QED
        BY <3>2, <3>4, <3>5, <3>6
    <2>10. QED
      BY <2>3, <2>6, <2>9 DEF SerialInv, ReceiptIsOwn
  <1>3. QED
    BY <1>1, <1>2

(* The invariant of one worker is inductive.                                *)
LEMMA SerialInvariance ==
    ASSUME OneWorker
    PROVE  Spec => []SerialInv
  <1>1. Init => SerialInv
    <2> SUFFICES ASSUME Init PROVE SerialInv
      OBVIOUS
    <2>1. <<>> \in Seq(Unsigned)
      BY EmptySeq
    <2>2. \A t \in Tasks : stack[t] = <<>>
      BY DEF Init
    <2>3. QED
      BY <2>1, <2>2 DEF Init, SerialInv, SignedAreReceived, FreshReads, OneRow, ReceiptIsOwn, Tasks
  <1>2. IInv /\ SerialInv /\ [Next]_vars => SerialInv'
    <2> SUFFICES ASSUME IInv, SerialInv, [Next]_vars PROVE SerialInv'
      OBVIOUS
    <2>1. CASE Next
      BY <2>1, UnsignedStep, FreshStep, SerialStep DEF SerialInv
    <2>2. CASE UNCHANGED vars
      <3>1. stack' = stack /\ keyEvents' = keyEvents
        BY <2>2 DEF vars
      <3>2. FreshReads' /\ SignedAreReceived'
        BY <3>1 DEF SerialInv, SignedAreReceived, FreshReads, Top
      <3>3. OneRow(keyEvents') /\ ReceiptIsOwn'
        BY <2>2 DEF vars, SerialInv, ReceiptIsOwn
      <3>4. QED
        BY <3>2, <3>3 DEF SerialInv
    <2>3. QED
      BY <2>1, <2>2
  <1>3. QED
    BY <1>1, <1>2, InvariantIInv, PTL DEF Spec

(* With one worker the receipt a client is given is that of its own event,  *)
(* and covers the said it stands beside, however many requests run beside   *)
(* the worker: submit_event has parsed the signatures away.                 *)
THEOREM ReceiptsAreOwn ==
    ASSUME OneWorker
    PROVE  Spec => []ReceiptIsOwn
  <1>1. SerialInv => ReceiptIsOwn
    BY DEF SerialInv
  <1>2. QED
    BY <1>1, SerialInvariance, PTL

(* With one worker the receipt of an inception never changes.               *)
THEOREM InceptionReceiptsStay ==
    ASSUME OneWorker
    PROVE  Spec => InceptionReceiptFinal
  <1>1. IInv /\ SerialInv /\ [Next]_vars =>
            [\A rct \in receipts : rct.sn = 0 => rct \in receipts']_vars
    <2> SUFFICES ASSUME IInv, SerialInv, Next, NEW rct \in receipts, rct.sn = 0
                 PROVE  rct \in receipts'
      OBVIOUS
    <2>1. CASE ~(\E t \in Tasks : CommitStore(t))
      BY <2>1, OnlyCommitStores
    <2>2. ASSUME NEW t \in Tasks, CommitStore(t)
          PROVE  rct \in receipts'
      <3> DEFINE r == Top(t).ev.raw
      <3>1. PICK row \in keyEvents : row.raw.aid = rct.aid /\ row.raw.sn = rct.sn
        BY TableForms DEF IInv, Matching, Holds
      <3>2. r.sn = 0 => ~Slotted(keyEvents, r.aid, r.sn)
        BY <2>2, CommitOne
      <3>3. ~SameSlot(rct, r)
        BY <3>1, <3>2 DEF Slotted, SameSlot
      <3>4. receipts' = IF \E x \in receipts : SameSlot(x, r)
                        THEN {IF SameSlot(x, r)
                              THEN [x EXCEPT !.signer = keyPair, !.signed = r.said]
                              ELSE x : x \in receipts}
                        ELSE receipts \cup {[aid |-> r.aid, sn |-> r.sn, said |-> r.said,
                                             witness |-> keyPair, signer |-> keyPair,
                                             signed |-> r.said]}
        BY <2>2 DEF CommitStore, StoreReceipt
      <3> HIDE DEF r
      <3>5. QED
        BY <3>3, <3>4
    <2>3. QED
      BY <2>1, <2>2
  <1>2. QED
    BY <1>1, SerialInvariance, InvariantIInv, PTL DEF Spec, InceptionReceiptFinal

(* With one worker key_events implements the first-seen log: a slot is      *)
(* filled once, after the slot below it, and for good.                      *)
THEOREM KeyEventsAreFirstSeenLog ==
    ASSUME OneWorker
    PROVE  Spec => IsFirstSeenLog
  <1>1. Init => FirstSeenLog!Init
    BY DEF Init, FirstSeenLog!Init, KelLog
  <1>2. IInv /\ SerialInv /\ [Next]_vars => [FirstSeenLog!Next]_KelLog
    <2> SUFFICES ASSUME IInv, SerialInv, [Next]_vars, KelLog' # KelLog
                 PROVE  FirstSeenLog!Next
      OBVIOUS
    <2>1. keyEvents' # keyEvents
      BY DEF KelLog
    <2>2. PICK t \in Tasks : CommitStore(t)
      <3>1. Next
        BY <2>1 DEF vars
      <3>2. QED
        BY <2>1, <3>1, OnlyCommitStores
    <2> DEFINE r == Top(t).ev.raw
               new == [raw |-> r, at |-> Top(t).at]
               e == [aid |-> r.aid, sn |-> r.sn, said |-> r.said]
    <2>3. /\ ~Slotted(keyEvents, r.aid, r.sn) /\ keyEvents' = keyEvents \cup {new}
          /\ r \in Raw /\ StructureOk(r) /\ PriorIn(keyEvents, r)
      BY <2>1, <2>2, CommitOne
    <2>4. new.raw = r /\ e.aid = r.aid /\ e.sn = r.sn /\ e.said = r.said
      OBVIOUS
    <2>5. \A aid, sn : FirstSeenLog!Seen(aid, sn) <=> Slotted(keyEvents, aid, sn)
      <3>1. \A row \in keyEvents : \E x \in KelLog : x.aid = row.raw.aid /\ x.sn = row.raw.sn
        <4>1. ASSUME NEW row \in keyEvents
              PROVE  [aid |-> row.raw.aid, sn |-> row.raw.sn, said |-> row.raw.said] \in KelLog
          BY DEF KelLog
        <4>2. QED
          BY <4>1
      <3>2. \A x \in KelLog : \E row \in keyEvents : x.aid = row.raw.aid /\ x.sn = row.raw.sn
        BY DEF KelLog
      <3>3. QED
        BY <3>1, <3>2 DEF FirstSeenLog!Seen, Slotted
    <2>6. KelLog' = KelLog \cup {e}
      BY <2>3, <2>4 DEF KelLog
    <2>7. e \in FirstSeenLog!Entry
      <3> HIDE DEF r
      <3>1. r.sn \in Int /\ r.aid \in Aids /\ r.said \in Saids
        BY <2>3 DEF Raw
      <3>2. r.sn >= 0
        BY <2>3 DEF StructureOk
      <3>3. r.sn \in Nat
        BY <3>1, <3>2
      <3>4. QED
        BY <3>1, <3>3 DEF FirstSeenLog!Entry
    <2> HIDE DEF e, new, r
    <2>8. e.sn > 0 => FirstSeenLog!Seen(e.aid, e.sn - 1)
      BY <2>3, <2>4, <2>5 DEF PriorIn, Slotted
    <2>9. ~FirstSeenLog!Seen(e.aid, e.sn)
      BY <2>3, <2>4, <2>5
    <2>10. e \in KelLog' \ KelLog
      BY <2>6, <2>9 DEF FirstSeenLog!Seen
    <2>11. QED
      BY <2>6, <2>7, <2>8, <2>9, <2>10 DEF FirstSeenLog!Next, FirstSeenLog!See
  <1>3. QED
    BY <1>1, <1>2, SerialInvariance, InvariantIInv, PTL DEF Spec, IsFirstSeenLog, FirstSeenLog!Spec

=============================================================================
