--------------------------- MODULE WatcherProofs ---------------------------
(***************************************************************************)
(* What holds of the watcher for every set of events, workers, requests    *)
(* and bounds: whatever interleaves and fails, LMDB implements the         *)
(* first-seen log, the key event log follows it, answers and the duplicity *)
(* log are backed by what is stored, who is accused said it, and a replay  *)
(* ends.  With one worker and no errors the two stores agree at rest and   *)
(* the escrow keeps no event that could be stored.                         *)
(*                                                                         *)
(* What a task knows of LMDB does not depend on how deep it replays, so    *)
(* the invariant is a type: a stack is a sequence of Good records.         *)
(***************************************************************************)
EXTENDS Watcher, StackLemmas, FiniteSetTheorems, TLAPS

USE DEF Tasks

(* The slot below an event is filled in F, a first-seen log.                *)
Filled(F, aid, sn) == \E e \in F : e.aid = aid /\ e.sn = sn

Known(ev, said) == [aid |-> ev.raw.aid, sn |-> ev.sn, said |-> said]

Stored == {"record", "fetch_escrow", "replay", "settle"}

(* What a record has learnt: the conflicting said is in LMDB, the prior it  *)
(* read from the table is in LMDB, what it put is in LMDB.                  *)
RecordOk(a, F) ==
    /\ a.pc \in {"get_kel", "record_duplicity"} =>
          /\ Known(a.ev, a.existing) \in F
          /\ a.existing # a.ev.raw.said
    /\ a.pc \in {"prior", "judge"} => a.ev.sn > 0 /\ FieldsOk(a.ev)
    /\ a.pc = "judge" /\ a.inDb => Filled(F, a.ev.raw.aid, a.ev.sn - 1)
    /\ a.pc \in Stored => EntryOf(a.ev) \in F

(* A good record, with the rows of I in the escrow table.                   *)
Good(F, I) == {a \in Activation : RecordOk(a, F) /\ a.pending \subseteq I}

Rows == 1..Len(escrow)

OneSaid(F) == \A e1, e2 \in F : e1.aid = e2.aid /\ e1.sn = e2.sn => e1 = e2

Verdicts == {"accepted", "duplicate", "escrowed", "rejected"}
Response == [ev : Event, verdict : Verdicts]
EscrowRow == [ev : Event, state : {"pending", "resolved", "expired"}]

StackOk == stack \in [Tasks -> Seq(Good(firstSeen, Rows))]

IInv == TypeOK /\ StackOk /\ OneSaid(firstSeen) /\ KelFollowsLmdb /\ DuplicitySound
        /\ AnswersAreBacked

-----------------------------------------------------------------------------
(* The stacks.                                                              *)

(* Records stay good while LMDB and the escrow only grow.                   *)
LEMMA GoodGrows ==
    ASSUME NEW F, NEW G, F \subseteq G, NEW I, NEW J, I \subseteq J
    PROVE  Good(F, I) \subseteq Good(G, J)
  BY DEF Good, RecordOk, Filled

(* So do stacks.                                                            *)
LEMMA StacksGrow ==
    ASSUME NEW F, NEW G, F \subseteq G, NEW I, NEW J, I \subseteq J
    PROVE  \A s \in Seq(Good(F, I)) : s \in Seq(Good(G, J))
  <1>1. TAKE s \in Seq(Good(F, I))
  <1>2. \A i \in 1..Len(s) : s[i] \in Good(G, J)
    BY GoodGrows, LenProperties
  <1>3. QED
    BY <1>2, LenProperties, IsASeq

(* The record a task runs.                                                  *)
LEMMA TopGood ==
    ASSUME StackOk, NEW t \in Tasks, stack[t] # <<>>
    PROVE  /\ Top(t) \in Good(firstSeen, Rows)
           /\ Top(t) \in Activation
           /\ RecordOk(Top(t), firstSeen)
           /\ Top(t).pending \subseteq Rows
           /\ Top(t).ev \in Event
           /\ stack[t] \in Seq(Good(firstSeen, Rows))
  <1>1. stack[t] \in Seq(Good(firstSeen, Rows))
    BY DEF StackOk
  <1>2. Top(t) \in Good(firstSeen, Rows)
    BY <1>1, LastRecord DEF Top
  <1>3. QED
    BY <1>1, <1>2 DEF Good, Activation

(* A fresh record knows nothing, so it is good.                             *)
LEMMA StartGood ==
    ASSUME NEW F, NEW I, NEW ev \in Event
    PROVE  Start(ev) \in Good(F, I) /\ <<Start(ev)>> \in Seq(Good(F, I))
  <1>1. Start(ev) \in Activation
    BY DEF Start, Activation, PCs, Awaits
  <1>2. Start(ev).pc = "watched" /\ Start(ev).pending = {}
    BY DEF Start
  <1>3. Start(ev) \in Good(F, I)
    BY <1>1, <1>2 DEF Good, RecordOk, Stored
  <1>4. QED
    BY <1>3

(* A task whose record becomes a, with what it adds to LMDB.                *)
LEMMA GotoGood ==
    ASSUME StackOk, NEW t \in Tasks, stack[t] # <<>>,
           firstSeen \subseteq firstSeen', Rows \subseteq Rows',
           NEW a \in Activation, Goto(t, a), RecordOk(a, firstSeen'), a.pending \subseteq Rows'
    PROVE  StackOk'
  <1> DEFINE G == Good(firstSeen', Rows')
  <1>1. a \in G
    BY DEF Good
  <1>2. \A u \in Tasks : stack[u] \in Seq(G)
    BY StacksGrow DEF StackOk
  <1>3. stack \in [Tasks -> Seq(G)]
    BY <1>2 DEF StackOk
  <1> HIDE DEF G
  <1>4. [stack[t] EXCEPT ![Len(stack[t])] = a] \in Seq(G)
    BY <1>1, <1>2, ReplaceLast, Zenon
  <1>5. stack' = [stack EXCEPT ![t] = [stack[t] EXCEPT ![Len(stack[t])] = a]]
    BY DEF Goto
  <1>6. stack' \in [Tasks -> Seq(G)]
    BY <1>3, <1>4, <1>5
  <1>7. QED
    BY <1>6 DEF StackOk, G

(* A task whose stack is set to s.                                          *)
LEMMA SetGood ==
    ASSUME StackOk, NEW t \in Tasks, firstSeen' = firstSeen, Rows \subseteq Rows',
           NEW s \in Seq(Good(firstSeen, Rows)), stack' = [stack EXCEPT ![t] = s]
    PROVE  StackOk'
  <1>1. \A x \in Seq(Good(firstSeen, Rows)) : x \in Seq(Good(firstSeen', Rows'))
    BY StacksGrow
  <1>2. QED
    BY <1>1 DEF StackOk

(* Taking off the last record and noting its verdict in the one below.      *)
LEMMA PopGood ==
    ASSUME NEW F, NEW I, NEW s \in Seq(Good(F, I)), Len(s) > 1, NEW b \in BOOLEAN
    PROVE  [SubSeq(s, 1, Len(s) - 1) EXCEPT ![Len(s) - 1].child = b] \in Seq(Good(F, I))
  <1>0. Len(s) \in Nat
    BY LenProperties
  <1> DEFINE n == Len(s) - 1
  <1>1. n \in Nat \ {0} /\ Len(s) = n + 1
    <2>1. \A m \in Nat : m > 1 => m - 1 \in Nat \ {0} /\ m = m - 1 + 1
      OBVIOUS
    <2>2. QED
      BY <1>0, <2>1, Zenon
  <1> HIDE DEF n
  <1> DEFINE u == SubSeq(s, 1, n)
             c == [u[n] EXCEPT !.child = b]
  <1>2. u \in Seq(Good(F, I)) /\ u # <<>> /\ Len(u) = n
    BY <1>1, DropLast
  <1> HIDE DEF u
  <1>3. u[n] \in Good(F, I)
    BY <1>2, LastRecord
  <1>4. c \in Activation /\ c.pc = u[n].pc /\ c.ev = u[n].ev /\ c.existing = u[n].existing
        /\ c.inDb = u[n].inDb /\ c.pending = u[n].pending
    BY <1>3 DEF Good, Activation
  <1> HIDE DEF c
  <1>5. c \in Good(F, I)
    BY <1>3, <1>4 DEF Good, RecordOk
  <1>6. [u EXCEPT ![n] = c] \in Seq(Good(F, I))
    BY <1>2, <1>5, ReplaceLast
  <1>7. QED
    BY <1>6 DEF u, c, n

(* A call that returns: the stack stays good, and the client, if there is   *)
(* one, is told the verdict.                                                *)
LEMMA ReturnGood ==
    ASSUME StackOk, TypeOK, NEW t \in Tasks, stack[t] # <<>>, firstSeen' = firstSeen,
           Rows \subseteq Rows', NEW verdict \in Verdicts, Return(t, verdict)
    PROVE  /\ StackOk'
           /\ responses' \subseteq responses \cup {[ev |-> Top(t).ev, verdict |-> verdict]}
           /\ responses' \subseteq Response
           /\ exited' \subseteq Workers
  <1> DEFINE x == [ev |-> Top(t).ev, verdict |-> verdict]
             b == (verdict = "accepted")
             s == [SubSeq(stack[t], 1, Len(stack[t]) - 1) EXCEPT
                      ![Len(stack[t]) - 1].child = b]
  <1>1. x \in Response
    BY TopGood DEF Response
  <1>2. responses \subseteq Response /\ exited \subseteq Workers
    BY DEF TypeOK, Response, Verdicts
  <1>3. CASE Len(stack[t]) > 1
    <2>1. stack' = [stack EXCEPT ![t] = s] /\ responses' = responses /\ exited' = exited
      BY <1>3 DEF Return
    <2>2. s \in Seq(Good(firstSeen, Rows))
      BY <1>3, TopGood, PopGood
    <2> HIDE DEF s
    <2>3. StackOk'
      BY <2>1, <2>2, SetGood
    <2>4. QED
      BY <2>1, <2>3, <1>2
  <1>4. CASE ~(Len(stack[t]) > 1)
    <2>1. /\ stack' = [stack EXCEPT ![t] = <<>>]
          /\ responses' \in {responses, responses \cup {x}}
          /\ exited' \in {exited, exited \cup {t}}
          /\ t \notin Workers => exited' = exited
      BY <1>4 DEF Return, Top, LeaveLoop
    <2>2. StackOk'
      BY <2>1, SetGood, EmptySeq
    <2> HIDE DEF x
    <2>3. QED
      BY <1>1, <1>2, <2>1, <2>2 DEF x
  <1>5. QED
    BY <1>3, <1>4

-----------------------------------------------------------------------------
(* The stores.                                                              *)

(* A stack of good records is a stack of activations.                       *)
LEMMA StackTypeNext ==
    ASSUME StackOk'
    PROVE  stack' \in [Tasks -> Seq(Activation)]
  <1>1. \A s \in Seq(Good(firstSeen', Rows')) : s \in Seq(Activation)
    <2>1. TAKE s \in Seq(Good(firstSeen', Rows'))
    <2>2. \A i \in 1..Len(s) : s[i] \in Activation
      BY LenProperties DEF Good
    <2>3. QED
      BY <2>2, LenProperties, IsASeq
  <1>2. QED
    BY <1>1 DEF StackOk

(* What backs the answer x.                                                 *)
Backed(x, F, D, E) ==
    /\ x.verdict = "accepted" => Filled(F, x.ev.raw.aid, x.ev.sn)
    /\ x.verdict = "duplicate" =>
          \E d \in D : /\ d.aid = x.ev.raw.aid /\ d.sn = x.ev.sn
                       /\ d.conflict = x.ev.raw.said
    /\ x.verdict = "escrowed" => \E i \in 1..Len(E) : E[i].ev = x.ev

Sound(d, F) == d.first # d.conflict /\ [aid |-> d.aid, sn |-> d.sn, said |-> d.first] \in F

(* The properties, said of any stores.                                      *)
LEMMA Forms ==
    /\ AnswersAreBacked <=> \A x \in responses : Backed(x, firstSeen, duplicityLog, escrow)
    /\ DuplicitySound <=> \A d \in duplicityLog : Sound(d, firstSeen)
    /\ KelFollowsLmdb <=> kel \subseteq firstSeen /\ OneSaid(kel)
  BY DEF AnswersAreBacked, Backed, Filled, At, DuplicitySound, Sound, KelFollowsLmdb, OneSaid

(* The same after a step.                                                   *)
LEMMA FormsNext ==
    /\ AnswersAreBacked' <=>
          \A x \in responses' : Backed(x, firstSeen', duplicityLog', escrow')
    /\ DuplicitySound' <=> \A d \in duplicityLog' : Sound(d, firstSeen')
    /\ KelFollowsLmdb' <=> kel' \subseteq firstSeen' /\ OneSaid(kel')
  BY DEF AnswersAreBacked, Backed, Filled, At, DuplicitySound, Sound, KelFollowsLmdb, OneSaid

(* Rows of E are rows of G, about the same event.                           *)
RowsKept(E, G) == \A i \in 1..Len(E) : i \in 1..Len(G) /\ G[i].ev = E[i].ev

(* An answer stays backed while the stores grow.                            *)
LEMMA BackedGrows ==
    ASSUME NEW x, NEW F, NEW G, F \subseteq G, NEW C, NEW D, C \subseteq D,
           NEW E, NEW H, RowsKept(E, H), Backed(x, F, C, E)
    PROVE  Backed(x, G, D, H)
  BY DEF Backed, Filled, RowsKept

(* The step of a task that leaves the stores alone, given what it does to   *)
(* the stack and what it answers.                                           *)
LEMMA QuietStep ==
    ASSUME IInv, StackOk', UNCHANGED stores,
           queue' \in Seq(Event \cup {NoEvent}), running' \in BOOLEAN,
           exited' \subseteq Workers, sentinels' \in Nat, arrivals' \in Nat, restarts' \in Nat,
           responses' \subseteq Response,
           \A x \in responses' : Backed(x, firstSeen, duplicityLog, escrow)
    PROVE  IInv'
  <1>1. stack' \in [Tasks -> Seq(Activation)]
    BY StackTypeNext
  <1>2. /\ watchedAids' = watchedAids /\ firstSeen' = firstSeen /\ kel' = kel
        /\ duplicityLog' = duplicityLog /\ escrow' = escrow
    BY DEF stores
  <1>3. TypeOK'
    BY <1>1, <1>2 DEF IInv, TypeOK, Response, Verdicts
  <1>4. OneSaid(firstSeen')
    BY <1>2 DEF IInv
  <1>5. KelFollowsLmdb' /\ DuplicitySound'
    BY <1>2, Forms, FormsNext DEF IInv
  <1>6. AnswersAreBacked'
    BY <1>2, FormsNext
  <1>7. QED
    BY <1>3, <1>4, <1>5, <1>6 DEF IInv

(* A step that only moves the running record.                               *)
LEMMA GotoStep ==
    ASSUME IInv, NEW t \in Tasks, stack[t] # <<>>, NEW a \in Activation, Goto(t, a),
           RecordOk(a, firstSeen), a.pending \subseteq Rows,
           UNCHANGED <<stores, queue, pool, responses, counters>>
    PROVE  IInv'
  <1>1. firstSeen' = firstSeen /\ Rows' = Rows
    BY DEF stores, Rows
  <1>2. StackOk'
    BY <1>1, GotoGood DEF IInv
  <1>3. responses \subseteq Response
    BY DEF IInv, TypeOK, Response, Verdicts
  <1>4. \A x \in responses : Backed(x, firstSeen, duplicityLog, escrow)
    BY Forms DEF IInv
  <1>5. QED
    BY <1>2, <1>3, <1>4, QuietStep DEF IInv, TypeOK, pool, counters

(* A step that only returns.                                                *)
LEMMA ReturnStep ==
    ASSUME IInv, NEW t \in Tasks, stack[t] # <<>>, NEW verdict \in {"accepted", "rejected"},
           Return(t, verdict), UNCHANGED <<stores, queue, running, sentinels, counters>>,
           verdict = "accepted" => Filled(firstSeen, Top(t).ev.raw.aid, Top(t).ev.sn)
    PROVE  IInv'
  <1> DEFINE x == [ev |-> Top(t).ev, verdict |-> verdict]
  <1>1. firstSeen' = firstSeen /\ verdict \in Verdicts /\ Rows' = Rows
    BY DEF stores, Verdicts, Rows
  <1>2. /\ StackOk' /\ responses' \subseteq responses \cup {x}
        /\ responses' \subseteq Response /\ exited' \subseteq Workers
    BY <1>1, ReturnGood DEF IInv
  <1>3. Backed(x, firstSeen, duplicityLog, escrow)
    BY DEF Backed
  <1> HIDE DEF x
  <1>4. \A y \in responses' : Backed(y, firstSeen, duplicityLog, escrow)
    BY <1>2, <1>3, Forms DEF IInv
  <1>5. QED
    BY <1>2, <1>4, QuietStep DEF IInv, TypeOK, counters

(* The put of an event whose slot is free.                                  *)
LEMMA PutStep ==
    ASSUME IInv, NEW t \in Tasks, stack[t] # <<>>, Puts(Top(t).ev), FieldsOk(Top(t).ev),
           Top(t).ev.sn >= 0, PutFirstSeen(Top(t).ev),
           Goto(t, [Top(t) EXCEPT !.pc = "record"]),
           UNCHANGED <<watchedAids, kel, duplicityLog, escrow, queue, pool, responses, counters>>
    PROVE  IInv'
  <1> DEFINE a == Top(t)
             e == EntryOf(a.ev)
             b == [a EXCEPT !.pc = "record"]
  <1>1. a \in Activation /\ a.ev \in Event /\ a.pending \subseteq Rows /\ Rows' = Rows
    BY TopGood DEF IInv, Rows
  <1>2. a.ev.raw \in Raw /\ a.ev.sn \in Int
    BY <1>1, WatcherConstants DEF Event
  <1>3. e \in Log
    BY <1>2 DEF EntryOf, Log, Raw, FieldsOk
  <1>4. b \in Activation /\ b.pc = "record" /\ b.ev = a.ev /\ b.pending \subseteq Rows'
    BY <1>1 DEF Activation, PCs, Awaits
  <1>5. firstSeen' = firstSeen \cup {e}
    BY DEF PutFirstSeen
  <1>6. \A f \in firstSeen : ~(f.aid = e.aid /\ f.sn = e.sn)
    BY DEF Puts, At, EntryOf
  <1> HIDE DEF b, e
  <1>7. RecordOk(b, firstSeen')
    BY <1>4, <1>5 DEF RecordOk, Stored, e
  <1>8. StackOk'
    <2>1. stack[t] # <<>> /\ Goto(t, b) /\ StackOk
      BY DEF b, IInv
    <2>2. firstSeen \subseteq firstSeen' /\ Rows \subseteq Rows'
      BY <1>1, <1>5
    <2> HIDE DEF a
    <2>3. QED
      BY <1>4, <1>7, <2>1, <2>2, GotoGood
  <1>9. TypeOK'
    <2>1. stack' \in [Tasks -> Seq(Activation)]
      BY <1>8, StackTypeNext
    <2>2. firstSeen' \subseteq Log
      BY <1>3, <1>5 DEF IInv, TypeOK
    <2>3. QED
      BY <2>1, <2>2 DEF IInv, TypeOK, pool, counters
  <1>10. OneSaid(firstSeen')
    BY <1>5, <1>6 DEF IInv, OneSaid
  <1>11. KelFollowsLmdb'
    BY <1>5, Forms, FormsNext DEF IInv
  <1>12. DuplicitySound'
    BY <1>5, Forms, FormsNext DEF IInv, Sound
  <1>13. AnswersAreBacked'
    <2>1. RowsKept(escrow, escrow)
      BY DEF RowsKept
    <2>2. \A x \in responses : Backed(x, firstSeen', duplicityLog, escrow)
      BY <1>5, <2>1, Forms, BackedGrows DEF IInv
    <2>3. QED
      BY <2>2, FormsNext
  <1>14. QED
    BY <1>8, <1>9, <1>10, <1>11, <1>12, <1>13 DEF IInv

-----------------------------------------------------------------------------
(* The steps of _process_event.                                             *)

(* A step that rewrites one of the tables and returns or moves on: LMDB is  *)
(* untouched, the tables keep their types and what they back.               *)
LEMMA WriteStep ==
    ASSUME IInv, StackOk', UNCHANGED <<watchedAids, firstSeen, queue, running, sentinels, counters>>,
           kel' \subseteq firstSeen,
           duplicityLog \subseteq duplicityLog', \A d \in duplicityLog' : Sound(d, firstSeen),
           duplicityLog' \subseteq [aid : Aids, sn : Nat, first : Saids,
                                    conflict : Saids \cup {NoSaid}, evidence : Saids \cup {NoSaid}],
           escrow' \in Seq(EscrowRow), RowsKept(escrow, escrow'),
           responses' \subseteq Response, exited' \subseteq Workers,
           \A x \in responses' : x \in responses \/ Backed(x, firstSeen, duplicityLog', escrow')
    PROVE  IInv'
  <1>1. stack' \in [Tasks -> Seq(Activation)]
    BY StackTypeNext
  <1>2. TypeOK'
    BY <1>1 DEF IInv, TypeOK, Response, Verdicts, EscrowRow, counters
  <1>3. OneSaid(firstSeen') /\ OneSaid(kel')
    BY DEF IInv, OneSaid
  <1>4. KelFollowsLmdb' /\ DuplicitySound'
    BY <1>3, FormsNext
  <1>5. \A x \in responses : Backed(x, firstSeen, duplicityLog', escrow')
    BY Forms, BackedGrows DEF IInv
  <1>6. AnswersAreBacked'
    BY <1>5, FormsNext
  <1>7. QED
    BY <1>2, <1>3, <1>4, <1>6 DEF IInv

(* The table writes that follow keep their tables' types.                   *)
LEMMA RowsSame ==
    ASSUME IInv
    PROVE  /\ RowsKept(escrow, escrow) /\ escrow \in Seq(EscrowRow)
           /\ responses \subseteq Response /\ exited \subseteq Workers
           /\ kel \subseteq firstSeen
           /\ duplicityLog \subseteq [aid : Aids, sn : Nat, first : Saids,
                                      conflict : Saids \cup {NoSaid}, evidence : Saids \cup {NoSaid}]
           /\ \A d \in duplicityLog : Sound(d, firstSeen)
  BY Forms DEF IInv, TypeOK, RowsKept, EscrowRow, Response, Verdicts

(* The entry of a detected conflict is sound, and backs the answer.         *)
LEMMA RecordDuplicityStep ==
    ASSUME IInv, NEW t \in Tasks, RecordDuplicity(t)
    PROVE  IInv'
  <1> DEFINE a == Top(t)
             d == DuplicityEntry(a)
             x == [ev |-> a.ev, verdict |-> "duplicate"]
  <1>1. stack[t] # <<>> /\ a.pc = "record_duplicity"
    BY DEF RecordDuplicity, Busy
  <1>2. a \in Activation /\ RecordOk(a, firstSeen) /\ a.ev \in Event
    BY <1>1, TopGood DEF IInv
  <1>3. /\ StackOk' /\ responses' \subseteq responses \cup {x}
        /\ responses' \subseteq Response /\ exited' \subseteq Workers
    BY <1>1, ReturnGood DEF IInv, RecordDuplicity, Verdicts, Rows
  <1>4. Known(a.ev, a.existing) \in firstSeen /\ a.existing # a.ev.raw.said
    BY <1>1, <1>2 DEF RecordOk
  <1>5. a.ev.raw \in Raw
    BY <1>2, WatcherConstants DEF Event
  <1>6. Known(a.ev, a.existing) \in Log
    BY <1>4 DEF IInv, TypeOK
  <1>7. a.ev.raw.aid \in Aids /\ a.ev.sn \in Nat /\ a.existing \in Saids
    BY <1>6 DEF Known, Log
  <1>8. /\ Sound(d, firstSeen)
        /\ d \in [aid : Aids, sn : Nat, first : Saids,
                  conflict : Saids \cup {NoSaid}, evidence : Saids \cup {NoSaid}]
    BY <1>2, <1>4, <1>5, <1>7 DEF DuplicityEntry, Sound, Known, Activation, Raw
  <1>9. duplicityLog' = duplicityLog \cup {d}
    BY DEF RecordDuplicity
  <1>10. Backed(x, firstSeen, duplicityLog', escrow)
    <2>1. d.aid = x.ev.raw.aid /\ d.sn = x.ev.sn /\ d.conflict = x.ev.raw.said
      BY DEF DuplicityEntry
    <2>2. d \in duplicityLog' /\ x.verdict = "duplicate"
      BY <1>9
    <2> HIDE DEF x, d
    <2>3. QED
      BY <2>1, <2>2 DEF Backed
  <1> HIDE DEF x, d, a
  <1>11. UNCHANGED <<watchedAids, firstSeen, kel, escrow, queue, running, sentinels, counters>>
    BY DEF RecordDuplicity
  <1>12. QED
    BY <1>3, <1>8, <1>9, <1>10, <1>11, RowsSame, WriteStep

(* The row of an escrowed event backs the answer.                           *)
LEMMA EscrowEventStep ==
    ASSUME IInv, NEW t \in Tasks, EscrowEvent(t)
    PROVE  IInv'
  <1> DEFINE a == Top(t)
             r == [ev |-> a.ev, state |-> "pending"]
             x == [ev |-> a.ev, verdict |-> "escrowed"]
  <1>1. stack[t] # <<>>
    BY DEF EscrowEvent, Busy
  <1>2. a.ev \in Event
    BY <1>1, TopGood DEF IInv
  <1>3. UNCHANGED <<watchedAids, firstSeen, kel, duplicityLog, queue, running, sentinels, counters>>
    BY DEF EscrowEvent
  <1>5. r \in EscrowRow /\ escrow' = Append(escrow, r)
    BY <1>2 DEF EscrowEvent, AddToEscrow, EscrowRow
  <1>6. escrow \in Seq(EscrowRow)
    BY RowsSame
  <1> HIDE DEF r
  <1>7. /\ escrow' \in Seq(EscrowRow) /\ Len(escrow') = Len(escrow) + 1
        /\ escrow'[Len(escrow) + 1] = r
        /\ \A i \in 1..Len(escrow) : escrow'[i] = escrow[i]
    BY <1>5, <1>6, Push
  <1>8. Len(escrow) \in Nat
    BY <1>6, LenProperties
  <1>9. RowsKept(escrow, escrow') /\ Rows \subseteq Rows'
    BY <1>7, <1>8 DEF RowsKept, Rows
  <1>4. /\ StackOk' /\ responses' \subseteq responses \cup {x}
        /\ responses' \subseteq Response /\ exited' \subseteq Workers
    BY <1>1, <1>3, <1>9, ReturnGood DEF IInv, EscrowEvent, Verdicts
  <1>10. Len(escrow) + 1 \in 1..Len(escrow') /\ escrow'[Len(escrow) + 1].ev = x.ev
    BY <1>7, <1>8 DEF r
  <1>11. Backed(x, firstSeen, duplicityLog, escrow')
    BY <1>10 DEF Backed
  <1> HIDE DEF x, a
  <1>12. QED
    BY <1>3, <1>4, <1>7, <1>9, <1>11, RowsSame, WriteStep

(* What is recorded in the table was put in LMDB before.                    *)
LEMMA RecordStep ==
    ASSUME IInv, NEW t \in Tasks, Record(t)
    PROVE  IInv'
  <1> DEFINE a == Top(t)
             b == [a EXCEPT !.pc = "fetch_escrow"]
  <1>1. stack[t] # <<>> /\ a.pc = "record" /\ Goto(t, b)
    BY DEF Record, Busy
  <1>2. a \in Activation /\ RecordOk(a, firstSeen) /\ a.pending \subseteq Rows
    BY <1>1, TopGood DEF IInv
  <1>3. b \in Activation /\ b.pc = "fetch_escrow" /\ b.ev = a.ev /\ b.pending \subseteq Rows
    BY <1>2 DEF Activation, PCs, Awaits
  <1>4. UNCHANGED <<watchedAids, firstSeen, duplicityLog, escrow, queue, pool, responses, counters>>
    BY DEF Record
  <1>5. EntryOf(a.ev) \in firstSeen
    BY <1>1, <1>2 DEF RecordOk, Stored
  <1>6. kel' \subseteq firstSeen
    BY <1>5, RowsSame DEF Record, RecordFirstSeen
  <1> HIDE DEF b
  <1>7. RecordOk(b, firstSeen')
    BY <1>3, <1>4, <1>5 DEF RecordOk, Stored
  <1> HIDE DEF a
  <1>8. StackOk'
    <2>1. firstSeen' = firstSeen /\ Rows' = Rows
      BY <1>4 DEF Rows
    <2>2. QED
      BY <1>1, <1>3, <1>7, <2>1, GotoGood DEF IInv
  <1>9. UNCHANGED <<running, sentinels, exited>>
    BY <1>4 DEF pool
  <1>10. QED
    BY <1>4, <1>6, <1>8, <1>9, RowsSame, WriteStep

(* Closing rows leaves a sequence of rows about the same events.            *)
LEMMA CloseRows ==
    ASSUME NEW E \in Seq(EscrowRow), NEW i, NEW state \in {"resolved", "expired"}
    PROVE  [E EXCEPT ![i].state = state] \in Seq(EscrowRow)
           /\ RowsKept(E, [E EXCEPT ![i].state = state])
  <1> DEFINE G == [E EXCEPT ![i].state = state]
  <1>1. E \in [1..Len(E) -> EscrowRow] /\ DOMAIN E = 1..Len(E) /\ Len(E) \in Nat
    BY LenProperties
  <1>2. CASE i \in 1..Len(E)
    <2> DEFINE c == [E[i] EXCEPT !.state = state]
    <2>1. c \in EscrowRow /\ c.ev = E[i].ev
      BY <1>1, <1>2 DEF EscrowRow
    <2> HIDE DEF c
    <2>2. /\ [E EXCEPT ![i] = c] \in Seq(EscrowRow)
          /\ Len([E EXCEPT ![i] = c]) = Len(E)
          /\ \A j \in 1..Len(E) : [E EXCEPT ![i] = c][j] = IF j = i THEN c ELSE E[j]
      BY <1>2, <2>1, ExceptSeq
    <2>3. RowsKept(E, [E EXCEPT ![i] = c])
      BY <2>1, <2>2 DEF RowsKept
    <2>4. QED
      BY <2>2, <2>3 DEF c
  <1>3. CASE i \notin 1..Len(E)
    <2>1. G = E
      BY <1>1, <1>3, Zenon
    <2>2. QED
      BY <2>1 DEF RowsKept
  <1>4. QED
    BY <1>2, <1>3

(* A row is settled.                                                        *)
LEMMA SettleStep ==
    ASSUME IInv, NEW t \in Tasks, Settle(t)
    PROVE  IInv'
  <1> DEFINE a == Top(t)
  <1>1. stack[t] # <<>> /\ a.pc = "settle"
    BY DEF Settle, Busy
  <1>2. a \in Activation /\ RecordOk(a, firstSeen) /\ a.pending \subseteq Rows
    BY <1>1, TopGood DEF IInv
  <1>3. PICK i \in a.pending :
            SettleRow(a, i) /\ Goto(t, [a EXCEPT !.pc = "replay", !.pending = RowsAfter(a, i)])
    BY DEF Settle
  <1> DEFINE b == [a EXCEPT !.pc = "replay", !.pending = RowsAfter(a, i)]
  <1>4. b \in Activation /\ b.pc = "replay" /\ b.ev = a.ev /\ b.pending \subseteq Rows
    BY <1>2 DEF Activation, PCs, RowsAfter
  <1>5. UNCHANGED <<watchedAids, firstSeen, kel, duplicityLog, queue, pool, responses, counters>>
    BY DEF Settle
  <1>6. Goto(t, b)
    BY <1>3
  <1> HIDE DEF b
  <1>7. RecordOk(b, firstSeen')
    BY <1>1, <1>2, <1>4, <1>5 DEF RecordOk, Stored
  <1>9. escrow' \in {escrow, [escrow EXCEPT ![i].state = "resolved"]}
    BY <1>3 DEF SettleRow
  <1>10. escrow' \in Seq(EscrowRow) /\ RowsKept(escrow, escrow')
    <2>1. escrow \in Seq(EscrowRow) /\ RowsKept(escrow, escrow)
      BY RowsSame
    <2>2. /\ [escrow EXCEPT ![i].state = "resolved"] \in Seq(EscrowRow)
          /\ RowsKept(escrow, [escrow EXCEPT ![i].state = "resolved"])
      BY <2>1, CloseRows
    <2>3. QED
      BY <1>9, <2>1, <2>2, Zenon
  <1>8. StackOk'
    <2>1. firstSeen' = firstSeen
      BY <1>5
    <2>2. Rows \subseteq Rows'
      BY <1>10 DEF RowsKept, Rows
    <2>3. QED
      BY <1>1, <1>4, <1>6, <1>7, <2>1, <2>2, GotoGood DEF IInv
  <1>11. UNCHANGED <<running, sentinels, exited>>
    BY <1>5 DEF pool
  <1>12. QED
    BY <1>5, <1>8, <1>10, <1>11, RowsSame, WriteStep

(* The stretch from the watched check to the next await.                    *)
LEMMA LookupStep ==
    ASSUME IInv, NEW t \in Tasks, Lookup(t)
    PROVE  IInv'
  <1> DEFINE a == Top(t)
             ev == a.ev
             seen == At(firstSeen, ev.raw.aid, ev.sn)
  <1>1. stack[t] # <<>> /\ a.pc = "lookup"
    BY DEF Lookup, Busy
  <1>2. a \in Activation /\ RecordOk(a, firstSeen) /\ ev \in Event /\ a.pending \subseteq Rows
    BY <1>1, TopGood DEF IInv
  <1>3. UNCHANGED <<watchedAids, kel, duplicityLog, escrow, queue, running, sentinels, counters>>
    BY DEF Lookup
  <1>4. CASE Return(t, "rejected") /\ UNCHANGED firstSeen
    BY <1>1, <1>3, <1>4, ReturnStep DEF stores
  <1>5. CASE /\ \E e \in seen : /\ e.said # ev.raw.said
                                /\ Goto(t, [a EXCEPT !.pc = "get_kel", !.existing = e.said])
             /\ UNCHANGED <<firstSeen, responses, exited>>
    <2>1. PICK e \in seen : /\ e.said # ev.raw.said
                            /\ Goto(t, [a EXCEPT !.pc = "get_kel", !.existing = e.said])
      BY <1>5
    <2> DEFINE b == [a EXCEPT !.pc = "get_kel", !.existing = e.said]
    <2>2. e \in firstSeen /\ e \in Log /\ e.aid = ev.raw.aid /\ e.sn = ev.sn
      BY DEF At, IInv, TypeOK
    <2>3. /\ b \in Activation /\ b.pc = "get_kel" /\ b.existing = e.said /\ b.ev = ev
          /\ b.pending \subseteq Rows
      BY <1>2, <2>2 DEF Activation, PCs, Awaits, Log
    <2>4. Known(ev, e.said) = e
      BY <2>2 DEF Known, Log
    <2>5. Goto(t, b)
      BY <2>1
    <2> HIDE DEF b
    <2>6. RecordOk(b, firstSeen)
      BY <2>1, <2>2, <2>3, <2>4 DEF RecordOk, Stored
    <2>7. UNCHANGED <<stores, queue, pool, responses, counters>>
      BY <1>3, <1>5 DEF stores, pool
    <2>8. QED
      BY <1>1, <2>3, <2>5, <2>6, <2>7, GotoStep
  <1>6. CASE /\ \E e \in seen : e.said = ev.raw.said
             /\ Return(t, "accepted") /\ UNCHANGED firstSeen
    <2>1. Filled(firstSeen, ev.raw.aid, ev.sn)
      BY <1>6 DEF Filled, At
    <2>2. QED
      BY <1>1, <1>3, <1>6, <2>1, ReturnStep DEF stores
  <1>7. CASE /\ seen = {} /\ FieldsOk(ev) /\ ev.sn = 0
             /\ PutFirstSeen(ev)
             /\ Goto(t, [a EXCEPT !.pc = "record"])
             /\ UNCHANGED <<responses, exited>>
    BY <1>1, <1>3, <1>7, PutStep DEF Puts, pool
  <1>8. CASE /\ seen = {} /\ FieldsOk(ev) /\ ev.sn > 0
             /\ Goto(t, [a EXCEPT !.pc = "prior"])
             /\ UNCHANGED <<firstSeen, responses, exited>>
    <2> DEFINE b == [a EXCEPT !.pc = "prior"]
    <2>1. b \in Activation /\ b.pc = "prior" /\ b.ev = ev /\ b.pending \subseteq Rows
      BY <1>2 DEF Activation, PCs, Awaits
    <2>2. Goto(t, b)
      BY <1>8
    <2> HIDE DEF b
    <2>3. RecordOk(b, firstSeen)
      BY <1>8, <2>1 DEF RecordOk, Stored
    <2>4. UNCHANGED <<stores, queue, pool, responses, counters>>
      BY <1>3, <1>8 DEF stores, pool
    <2>5. QED
      BY <1>1, <2>1, <2>2, <2>3, <2>4, GotoStep
  <1>9. QED
    BY <1>4, <1>5, <1>6, <1>7, <1>8 DEF Lookup, AcceptKnown

(* The prior that the table holds is in LMDB too.                           *)
LEMMA GetPriorStep ==
    ASSUME IInv, NEW t \in Tasks, GetPrior(t)
    PROVE  IInv'
  <1> DEFINE a == Top(t)
             found == At(kel, a.ev.raw.aid, a.ev.sn - 1) # {}
             b == [a EXCEPT !.pc = "judge", !.inDb = found]
  <1>1. stack[t] # <<>> /\ a.pc = "prior" /\ Goto(t, b)
    BY DEF GetPrior, Busy
  <1>2. a \in Activation /\ RecordOk(a, firstSeen) /\ a.pending \subseteq Rows
    BY <1>1, TopGood DEF IInv
  <1>3. b \in Activation /\ b.pc = "judge" /\ b.ev = a.ev /\ b.inDb = found
        /\ b.pending \subseteq Rows
    <2>1. found \in BOOLEAN
      OBVIOUS
    <2> HIDE DEF found
    <2>2. QED
      BY <1>2, <2>1 DEF Activation, PCs, Awaits
  <1>4. found => Filled(firstSeen, a.ev.raw.aid, a.ev.sn - 1)
    BY RowsSame DEF At, Filled
  <1> HIDE DEF b, found
  <1>5. RecordOk(b, firstSeen)
    BY <1>1, <1>2, <1>3, <1>4 DEF RecordOk, Stored
  <1>6. UNCHANGED <<stores, queue, pool, responses, counters>>
    BY DEF GetPrior
  <1>7. QED
    BY <1>1, <1>3, <1>5, <1>6, GotoStep

(* The stretch from the answer about the prior to the next await.           *)
LEMMA JudgeStep ==
    ASSUME IInv, NEW t \in Tasks, Judge(t)
    PROVE  IInv'
  <1> DEFINE a == Top(t)
  <1>1. stack[t] # <<>> /\ a.pc = "judge"
    BY DEF Judge, Busy
  <1>2. a \in Activation /\ RecordOk(a, firstSeen) /\ a.pending \subseteq Rows
    BY <1>1, TopGood DEF IInv
  <1>3. UNCHANGED <<watchedAids, kel, duplicityLog, escrow, queue, running, sentinels, counters>>
    BY DEF Judge
  <1>4. CASE Goto(t, [a EXCEPT !.pc = "escrow"]) /\ UNCHANGED <<firstSeen, responses, exited>>
    <2> DEFINE b == [a EXCEPT !.pc = "escrow"]
    <2>1. b \in Activation /\ b.pc = "escrow" /\ b.pending \subseteq Rows
      BY <1>2 DEF Activation, PCs, Awaits
    <2>2. Goto(t, b)
      BY <1>4
    <2> HIDE DEF b
    <2>3. RecordOk(b, firstSeen)
      BY <2>1 DEF RecordOk, Stored
    <2>4. UNCHANGED <<stores, queue, pool, responses, counters>>
      BY <1>3, <1>4 DEF stores, pool
    <2>5. QED
      BY <1>1, <2>1, <2>2, <2>3, <2>4, GotoStep
  <1>5. CASE Return(t, "rejected") /\ UNCHANGED firstSeen
    BY <1>1, <1>3, <1>5, ReturnStep DEF stores
  <1>6. CASE ~Puts(a.ev) /\ Return(t, "accepted") /\ UNCHANGED firstSeen
    <2>1. Filled(firstSeen, a.ev.raw.aid, a.ev.sn)
      BY <1>6 DEF Puts, Filled, At
    <2>2. QED
      BY <1>1, <1>3, <1>6, <2>1, ReturnStep DEF stores
  <1>7. CASE /\ Puts(a.ev) /\ PutFirstSeen(a.ev)
             /\ Goto(t, [a EXCEPT !.pc = "record"]) /\ UNCHANGED <<responses, exited>>
    <2>1. FieldsOk(a.ev) /\ a.ev.sn > 0 /\ a.ev.sn \in Int
      BY <1>1, <1>2 DEF RecordOk, Activation, Event
    <2>2. a.ev.sn >= 0
      BY <2>1
    <2>3. QED
      BY <1>1, <1>3, <1>7, <2>1, <2>2, PutStep DEF pool
  <1>8. QED
    BY <1>4, <1>5, <1>6, <1>7 DEF Judge

(* Pushing the replay of an escrowed event.                                 *)
LEMMA ReplayStep ==
    ASSUME IInv, NEW t \in Tasks, Replay(t)
    PROVE  IInv'
  <1> DEFINE a == Top(t)
             b == [a EXCEPT !.pc = "settle"]
  <1>1. stack[t] # <<>> /\ a.pc = "replay"
    BY DEF Replay, Busy
  <1>2. /\ a \in Activation /\ RecordOk(a, firstSeen) /\ a.pending \subseteq Rows
        /\ stack[t] \in Seq(Good(firstSeen, Rows))
    BY <1>1, TopGood DEF IInv
  <1>3. PICK i \in a.pending :
            stack' = [stack EXCEPT ![t] =
                Append([stack[t] EXCEPT ![Len(stack[t])] = b], Start(Parse(escrow[i].ev.raw)))]
    BY DEF Replay
  <1>4. UNCHANGED <<stores, queue, pool, responses, counters>>
    BY DEF Replay
  <1>5. b \in Activation /\ b.pc = "settle" /\ b.ev = a.ev /\ b.pending \subseteq Rows
    BY <1>2 DEF Activation, PCs, Awaits
  <1> HIDE DEF b
  <1>6. b \in Good(firstSeen, Rows)
    BY <1>1, <1>2, <1>5 DEF Good, RecordOk, Stored
  <1> DEFINE s == [stack[t] EXCEPT ![Len(stack[t])] = b]
  <1>7. s \in Seq(Good(firstSeen, Rows))
    BY <1>1, <1>2, <1>6, ReplaceLast
  <1> HIDE DEF s
  <1>8. i \in 1..Len(escrow) => IInv'
    <2> HAVE i \in 1..Len(escrow)
    <2> DEFINE ev == Parse(escrow[i].ev.raw)
    <2>1. escrow[i] \in EscrowRow
      BY RowsSame, LenProperties
    <2>2. escrow[i].ev.raw \in Raws
      BY <2>1 DEF EscrowRow, Event
    <2>3. ev \in Event
      BY <2>2, WatcherConstants DEF Parse, Event, Raw
    <2> HIDE DEF ev
    <2>4. Start(ev) \in Good(firstSeen, Rows)
      BY <2>3, StartGood
    <2>5. Append(s, Start(ev)) \in Seq(Good(firstSeen, Rows))
      BY <1>7, <2>4
    <2>6. stack' = [stack EXCEPT ![t] = Append(s, Start(ev))]
      BY <1>3 DEF s, ev
    <2>7. firstSeen' = firstSeen /\ Rows' = Rows
      BY <1>4 DEF stores, Rows
    <2>8. StackOk'
      BY <2>5, <2>6, <2>7, SetGood DEF IInv
    <2>9. \A x \in responses : Backed(x, firstSeen, duplicityLog, escrow)
      BY Forms DEF IInv
    <2>10. QED
      BY <1>4, <2>8, <2>9, RowsSame, QuietStep DEF IInv, TypeOK, pool, counters
  <1>9. QED
    BY <1>2, <1>8 DEF Rows

(* The read of the evidence.                                                *)
LEMMA GetKelStep ==
    ASSUME IInv, NEW t \in Tasks, GetKel(t)
    PROVE  IInv'
  <1> DEFINE a == Top(t)
  <1>1. stack[t] # <<>> /\ a.pc = "get_kel"
    BY DEF GetKel, Busy
  <1>2. a \in Activation /\ RecordOk(a, firstSeen) /\ a.pending \subseteq Rows
    BY <1>1, TopGood DEF IInv
  <1>3. \A e \in kel : e.said \in Saids
    BY RowsSame DEF IInv, TypeOK, Log
  <1>4. KelFrom(a.ev) \subseteq Saids
    BY <1>3 DEF KelFrom
  <1>5. PICK said \in Saids \cup {NoSaid} :
            Goto(t, [a EXCEPT !.pc = "record_duplicity", !.evidence = said])
    BY <1>4, Zenon DEF GetKel
  <1> DEFINE b == [a EXCEPT !.pc = "record_duplicity", !.evidence = said]
  <1>6. /\ b \in Activation /\ b.pc = "record_duplicity" /\ b.ev = a.ev
        /\ b.existing = a.existing /\ b.pending \subseteq Rows
    BY <1>2 DEF Activation, PCs, Awaits
  <1>7. Goto(t, b)
    BY <1>5
  <1> HIDE DEF b
  <1>8. RecordOk(b, firstSeen)
    BY <1>1, <1>2, <1>6 DEF RecordOk, Stored
  <1>9. UNCHANGED <<stores, queue, pool, responses, counters>>
    BY DEF GetKel
  <1>10. QED
    BY <1>1, <1>6, <1>7, <1>8, <1>9, GotoStep

(* The fetch of the rows to replay: rows of the table.                      *)
LEMMA FetchEscrowStep ==
    ASSUME IInv, NEW t \in Tasks, FetchEscrow(t)
    PROVE  IInv'
  <1> DEFINE a == Top(t)
             rows == Replayable(a.ev)
             b == [a EXCEPT !.pc = "replay", !.pending = rows]
  <1>1. stack[t] # <<>> /\ a.pc = "fetch_escrow" /\ Goto(t, b)
    BY DEF FetchEscrow, Busy
  <1>2. a \in Activation /\ RecordOk(a, firstSeen)
    BY <1>1, TopGood DEF IInv
  <1>3. rows \subseteq Rows
    BY DEF Replayable, PendingEscrow, Rows
  <1>4. rows \in SUBSET Nat
    BY <1>3 DEF Rows
  <1> HIDE DEF rows
  <1>5. b \in Activation /\ b.pc = "replay" /\ b.ev = a.ev /\ b.pending = rows
    BY <1>2, <1>4 DEF Activation, PCs
  <1> HIDE DEF b
  <1>6. RecordOk(b, firstSeen)
    BY <1>1, <1>2, <1>5 DEF RecordOk, Stored
  <1>7. UNCHANGED <<stores, queue, pool, responses, counters>>
    BY DEF FetchEscrow
  <1>8. QED
    BY <1>1, <1>3, <1>5, <1>6, <1>7, GotoStep

(* The return after the last row: the event was put in LMDB.                *)
LEMMA FinishReplayStep ==
    ASSUME IInv, NEW t \in Tasks, FinishReplay(t)
    PROVE  IInv'
  <1>1. stack[t] # <<>> /\ Top(t).pc = "replay"
    BY DEF FinishReplay, Busy
  <1>2. EntryOf(Top(t).ev) \in firstSeen
    BY <1>1, TopGood DEF IInv, RecordOk, Stored
  <1>3. Filled(firstSeen, Top(t).ev.raw.aid, Top(t).ev.sn)
    BY <1>2 DEF Filled, EntryOf
  <1>4. QED
    BY <1>1, <1>3, ReturnStep DEF FinishReplay

(* The watched check, which leads on or rejects.                            *)
LEMMA CheckWatchedStep ==
    ASSUME IInv, NEW t \in Tasks, CheckWatched(t)
    PROVE  IInv'
  <1> DEFINE a == Top(t)
             b == [a EXCEPT !.pc = "lookup"]
  <1>1. stack[t] # <<>> /\ a.pc = "watched"
    BY DEF CheckWatched, Busy
  <1>2. a \in Activation /\ a.pending \subseteq Rows
    BY <1>1, TopGood DEF IInv
  <1>3. UNCHANGED <<stores, queue, running, sentinels, counters>>
    BY DEF CheckWatched
  <1>4. CASE Goto(t, b) /\ UNCHANGED <<responses, exited>>
    <2>1. b \in Activation /\ b.pc = "lookup" /\ b.pending \subseteq Rows /\ Goto(t, b)
      BY <1>2, <1>4 DEF Activation, PCs
    <2> HIDE DEF b
    <2>2. RecordOk(b, firstSeen)
      BY <2>1 DEF RecordOk, Stored
    <2>3. UNCHANGED <<stores, queue, pool, responses, counters>>
      BY <1>3, <1>4 DEF pool
    <2>4. QED
      BY <1>1, <2>1, <2>2, <2>3, GotoStep
  <1>5. CASE Return(t, "rejected")
    BY <1>1, <1>3, <1>5, ReturnStep
  <1>6. QED
    BY <1>4, <1>5 DEF CheckWatched

(* Every step of a task.                                                    *)
LEMMA ProcessEventStep ==
    ASSUME IInv, NEW t \in Tasks, ProcessEvent(t)
    PROVE  IInv'
  <1>1. CASE FailOnDbError(t)
    <2>1. stack[t] # <<>>
      BY <1>1 DEF FailOnDbError, Busy
    <2>2. QED
      BY <1>1, <2>1, ReturnStep DEF FailOnDbError
  <1>2. QED
    BY <1>1, CheckWatchedStep, LookupStep, GetKelStep, RecordDuplicityStep, GetPriorStep,
       JudgeStep, EscrowEventStep, RecordStep, FetchEscrowStep, ReplayStep, SettleStep,
       FinishReplayStep DEF ProcessEvent

-----------------------------------------------------------------------------
(* The steps around the processor.                                          *)

(* What the steps that touch neither the stores nor the answers leave.      *)
LEMMA CalmStep ==
    ASSUME IInv, StackOk', UNCHANGED <<stores, responses>>,
           queue' \in Seq(Event \cup {NoEvent}), running' \in BOOLEAN,
           exited' \subseteq Workers, sentinels' \in Nat, arrivals' \in Nat, restarts' \in Nat
    PROVE  IInv'
  <1>1. responses' \subseteq Response
    BY RowsSame
  <1>2. \A x \in responses' : Backed(x, firstSeen, duplicityLog, escrow)
    BY Forms DEF IInv
  <1>3. QED
    BY <1>1, <1>2, QuietStep

(* Stacks that stay as they are stay good.                                  *)
LEMMA SameStacks ==
    ASSUME StackOk, UNCHANGED <<stack, firstSeen>>, Rows \subseteq Rows'
    PROVE  StackOk'
  <1>1. \A s \in Seq(Good(firstSeen, Rows)) : s \in Seq(Good(firstSeen', Rows'))
    BY StacksGrow
  <1>2. QED
    BY <1>1 DEF StackOk

(* An arrival on the queue.                                                 *)
LEMMA SubmitStep ==
    ASSUME IInv, NEW raw \in Raws, NEW sn \in LastSns, Submit(Polled(raw, sn))
    PROVE  IInv'
  <1> DEFINE ev == Polled(raw, sn)
  <1>1. ev \in Event
    BY WatcherConstants DEF Polled, Event, Raw
  <1> HIDE DEF ev
  <1>2. queue \in Seq(Event \cup {NoEvent}) /\ ev \in Event \cup {NoEvent}
    BY <1>1 DEF IInv, TypeOK
  <1>3. Append(queue, ev) \in Seq(Event \cup {NoEvent})
    BY <1>2, Push
  <1>4. /\ queue' \in {queue, Append(queue, ev)} /\ arrivals' = arrivals + 1
        /\ UNCHANGED <<stores, stack, pool, responses, restarts>>
    BY DEF Submit, ev
  <1>5. StackOk'
    BY <1>4, SameStacks DEF IInv, stores, Rows
  <1>6. queue' \in Seq(Event \cup {NoEvent})
    BY <1>2, <1>3, <1>4
  <1>7. QED
    BY <1>4, <1>5, <1>6, CalmStep DEF IInv, TypeOK, pool

(* A request starts a task of its own.                                      *)
LEMMA RequestStep ==
    ASSUME IInv, NEW t \in Requests, NEW raw \in Raws, Request(t, raw)
    PROVE  IInv'
  <1> DEFINE ev == Posted(raw)
  <1>1. ev \in Event
    BY WatcherConstants DEF Posted, Event, Raw
  <1> HIDE DEF ev
  <1>2. <<Start(ev)>> \in Seq(Good(firstSeen, Rows))
    BY <1>1, StartGood
  <1>3. /\ stack' = [stack EXCEPT ![t] = <<Start(ev)>>] /\ arrivals' = arrivals + 1
        /\ UNCHANGED <<stores, queue, pool, responses, restarts>>
    BY DEF Request, ev
  <1>4. StackOk'
    BY <1>2, <1>3, SetGood DEF IInv, stores, Rows
  <1>5. QED
    BY <1>3, <1>4, CalmStep DEF IInv, TypeOK, pool

(* A worker takes what is first on the queue.                               *)
LEMMA ReceiveStep ==
    ASSUME IInv, NEW w \in Workers, Receive(w)
    PROVE  IInv'
  <1>1. queue \in Seq(Event \cup {NoEvent}) /\ queue # <<>>
    BY DEF IInv, TypeOK, Receive
  <1>2. Head(queue) \in Event \cup {NoEvent} /\ Tail(queue) \in Seq(Event \cup {NoEvent})
    BY <1>1
  <1>3. UNCHANGED <<stores, running, sentinels, responses, counters>> /\ queue' = Tail(queue)
    BY DEF Receive
  <1>4. CASE exited' = exited \cup {w} /\ UNCHANGED stack
    <2>1. StackOk'
      BY <1>3, <1>4, SameStacks DEF IInv, stores, Rows
    <2>2. QED
      BY <1>2, <1>3, <1>4, <2>1, CalmStep DEF IInv, TypeOK, counters
  <1>5. CASE /\ Head(queue) # NoEvent
             /\ stack' = [stack EXCEPT ![w] = <<Start(Head(queue))>>] /\ UNCHANGED exited
    <2>1. <<Start(Head(queue))>> \in Seq(Good(firstSeen, Rows))
      BY <1>2, <1>5, StartGood
    <2>2. StackOk'
      BY <1>3, <1>5, <2>1, SetGood DEF IInv, stores, Rows
    <2>3. QED
      BY <1>2, <1>3, <1>5, <2>2, CalmStep DEF IInv, TypeOK, counters
  <1>6. QED
    BY <1>4, <1>5 DEF Receive

(* The steps of stop, and the timeout that lets a worker leave.             *)
LEMMA StoppingStep ==
    ASSUME IInv, Stop \/ PutSentinel \/ \E w \in Workers : TimeOut(w)
    PROVE  IInv'
  <1>1. UNCHANGED <<stores, stack, responses, counters>>
    BY DEF Stop, PutSentinel, TimeOut
  <1>2. StackOk'
    BY <1>1, SameStacks DEF IInv, stores, Rows
  <1>3. queue \in Seq(Event \cup {NoEvent})
    BY DEF IInv, TypeOK
  <1>4. Append(queue, NoEvent) \in Seq(Event \cup {NoEvent})
    BY <1>3, Push
  <1>5. Cardinality(Workers) \in Nat
    BY WatcherConstants, FS_CardinalityType
  <1>6. queue' \in Seq(Event \cup {NoEvent})
    BY <1>3, <1>4 DEF Stop, PutSentinel, TimeOut
  <1>7. exited' \subseteq Workers /\ running' \in BOOLEAN
    BY DEF IInv, TypeOK, Stop, PutSentinel, TimeOut
  <1>8. sentinels' \in Nat
    BY <1>5 DEF IInv, TypeOK, Stop, PutSentinel, TimeOut
  <1>9. QED
    BY <1>1, <1>2, <1>6, <1>7, <1>8, CalmStep DEF IInv, TypeOK, counters

(* A restart keeps the stores and forgets the tasks.                        *)
LEMMA RestartStep ==
    ASSUME IInv, Restart
    PROVE  IInv'
  <1>1. <<>> \in Seq(Good(firstSeen', Rows')) /\ <<>> \in Seq(Event \cup {NoEvent})
    BY EmptySeq
  <1>2. StackOk'
    BY <1>1 DEF StackOk, Restart
  <1>3. QED
    BY <1>1, <1>2, CalmStep DEF IInv, TypeOK, Restart

(* A change of the watch list.                                              *)
LEMMA WatchListStep ==
    ASSUME IInv, NEW aid \in Aids, Watch(aid) \/ Unwatch(aid)
    PROVE  IInv'
  <1>1. /\ watchedAids' \in [Aids -> {"absent", "enabled", "disabled"}]
        /\ UNCHANGED <<firstSeen, kel, duplicityLog, escrow, queue, stack, pool, responses, counters>>
    BY DEF IInv, TypeOK, Watch, Unwatch
  <1>2. StackOk'
    BY <1>1, SameStacks DEF IInv, Rows
  <1>3. TypeOK' /\ OneSaid(firstSeen')
    BY <1>1 DEF IInv, TypeOK, pool, counters
  <1>4. KelFollowsLmdb' /\ DuplicitySound' /\ AnswersAreBacked'
    BY <1>1, Forms, FormsNext DEF IInv
  <1>5. QED
    BY <1>2, <1>3, <1>4 DEF IInv

(* Rows that expire.                                                        *)
LEMMA ExpireEscrowStep ==
    ASSUME IInv, ExpireEscrow
    PROVE  IInv'
  <1>1. escrow \in Seq(EscrowRow) /\ Len(escrow) \in Nat
    BY RowsSame, LenProperties
  <1>2. PICK k \in 1..Len(escrow) :
            escrow' = [i \in 1..Len(escrow) |->
                          IF i <= k /\ escrow[i].state = "pending"
                          THEN [escrow[i] EXCEPT !.state = "expired"]
                          ELSE escrow[i]]
    BY DEF ExpireEscrow
  <1>3. \A i \in 1..Len(escrow) : escrow[i] \in EscrowRow
    BY <1>1, LenProperties
  <1>4. \A i \in 1..Len(escrow) : escrow'[i] \in EscrowRow /\ escrow'[i].ev = escrow[i].ev
    BY <1>2, <1>3 DEF EscrowRow
  <1>5. escrow' \in Seq(EscrowRow) /\ Len(escrow') = Len(escrow)
    <2>1. DOMAIN escrow' = 1..Len(escrow) /\ escrow' \in [1..Len(escrow) -> EscrowRow]
      BY <1>2, <1>4
    <2>2. escrow' \in Seq(EscrowRow)
      BY <1>1, <2>1, IsASeq
    <2>3. QED
      BY <1>1, <2>1, <2>2, LenProperties
  <1>6. RowsKept(escrow, escrow') /\ Rows' = Rows
    BY <1>4, <1>5 DEF RowsKept, Rows
  <1>7. UNCHANGED <<watchedAids, firstSeen, kel, duplicityLog, queue, stack, pool, responses, counters>>
    BY DEF ExpireEscrow
  <1>8. StackOk'
    BY <1>6, <1>7, SameStacks DEF IInv
  <1>9. UNCHANGED <<running, sentinels, exited>>
    BY <1>7 DEF pool
  <1>10. QED
    BY <1>5, <1>6, <1>7, <1>8, <1>9, RowsSame, WriteStep

-----------------------------------------------------------------------------
(* The invariant, and what follows from it.                                 *)

(* It holds at first.                                                       *)
LEMMA InitIInv == Init => IInv
  <1> HAVE Init
  <1>1. /\ <<>> \in Seq(Good(firstSeen, Rows)) /\ <<>> \in Seq(Activation)
        /\ <<>> \in Seq([ev : Event, state : {"pending", "resolved", "expired"}])
        /\ <<>> \in Seq(Event \cup {NoEvent})
    BY EmptySeq
  <1>2. TypeOK /\ StackOk
    BY <1>1 DEF Init, TypeOK, StackOk
  <1>3. OneSaid(firstSeen) /\ KelFollowsLmdb /\ DuplicitySound /\ AnswersAreBacked
    BY DEF Init, OneSaid, KelFollowsLmdb, DuplicitySound, AnswersAreBacked
  <1>4. QED
    BY <1>2, <1>3 DEF IInv

(* Every step keeps it.                                                     *)
LEMMA NextIInv == IInv /\ [Next]_vars => IInv'
  <1> SUFFICES ASSUME IInv, [Next]_vars
               PROVE  IInv'
    OBVIOUS
  <1>1. CASE UNCHANGED vars
    <2>1. UNCHANGED <<stores, queue, stack, pool, responses, counters>>
      BY <1>1 DEF vars
    <2>2. StackOk'
      BY <2>1, SameStacks DEF IInv, stores, Rows
    <2>3. QED
      BY <2>1, <2>2, CalmStep DEF IInv, TypeOK, pool, counters
  <1>2. ASSUME NEW t \in Tasks, ProcessEvent(t)
        PROVE  IInv'
    BY <1>2, ProcessEventStep
  <1>3. CASE Next
    BY <1>2, <1>3, SubmitStep, RequestStep, ReceiveStep, StoppingStep, WatchListStep,
       ExpireEscrowStep, RestartStep DEF Next
  <1>4. QED
    BY <1>1, <1>3

(* So it holds throughout.                                                  *)
LEMMA InvariantIInv == Spec => []IInv
  BY InitIInv, NextIInv, PTL DEF Spec

(* The stores, the queue and the tasks keep their shapes.                   *)
THEOREM TypeCorrect == Spec => []TypeOK
  <1>1. IInv => TypeOK
    BY DEF IInv
  <1>2. QED
    BY <1>1, InvariantIInv, PTL

(* The log clients read never disagrees with LMDB, whatever fails between   *)
(* the two writes.                                                          *)
THEOREM KelNeverDisagrees == Spec => []KelFollowsLmdb
  <1>1. IInv => KelFollowsLmdb
    BY DEF IInv
  <1>2. QED
    BY <1>1, InvariantIInv, PTL

(* No one is accused of duplicity without another said in LMDB.             *)
THEOREM DuplicityIsSound == Spec => []DuplicitySound
  <1>1. IInv => DuplicitySound
    BY DEF IInv
  <1>2. QED
    BY <1>1, InvariantIInv, PTL

(* What a client was told has a trace that no error, crash, replay or       *)
(* expiry removes.                                                          *)
THEOREM AnswersStayBacked == Spec => []AnswersAreBacked
  <1>1. IInv => AnswersAreBacked
    BY DEF IInv
  <1>2. QED
    BY <1>1, InvariantIInv, PTL

-----------------------------------------------------------------------------
(* LMDB implements the first-seen log.                                      *)

(* Only the two puts write LMDB: of an inception after the lookup, of an    *)
(* event with a prior after the judgement.                                  *)
LEMMA OnlyPutsWrite ==
    ASSUME Next, firstSeen' # firstSeen
    PROVE  \E t \in Tasks :
              /\ stack[t] # <<>> /\ Puts(Top(t).ev) /\ PutFirstSeen(Top(t).ev)
              /\ \/ FieldsOk(Top(t).ev) /\ Top(t).ev.sn = 0
                 \/ Top(t).pc = "judge" /\ PriorKnown(Top(t))
  <1>1. PICK t \in Tasks : ProcessEvent(t)
    BY DEF Next, Submit, Request, Receive, TimeOut, Watch, Unwatch, ExpireEscrow, Stop,
           PutSentinel, Restart, stores
  <1>2. Lookup(t) \/ Judge(t)
    BY <1>1 DEF ProcessEvent, FailOnDbError, CheckWatched, GetKel, RecordDuplicity, GetPrior,
           EscrowEvent, Record, FetchEscrow, Replay, Settle, FinishReplay, stores
  <1>3. CASE Lookup(t)
    BY <1>3, Zenon DEF Lookup, Busy, Puts
  <1>4. CASE Judge(t)
    BY <1>4, Zenon DEF Judge, Busy
  <1>5. QED
    BY <1>2, <1>3, <1>4

(* A put fills a free slot above a filled one.                              *)
LEMMA PutSees ==
    ASSUME IInv, NEW t \in Tasks, stack[t] # <<>>, Puts(Top(t).ev), PutFirstSeen(Top(t).ev),
           \/ FieldsOk(Top(t).ev) /\ Top(t).ev.sn = 0
           \/ Top(t).pc = "judge" /\ PriorKnown(Top(t))
    PROVE  FirstSeenLog!Next
  <1> DEFINE a == Top(t)
             e == EntryOf(a.ev)
  <1>1. a \in Activation /\ RecordOk(a, firstSeen) /\ a.ev \in Event
    BY TopGood DEF IInv
  <1>2. a.ev.raw \in Raw /\ a.ev.sn \in Int
    BY <1>1, WatcherConstants DEF Event
  <1>3. FieldsOk(a.ev) /\ (a.ev.sn > 0 => Filled(firstSeen, a.ev.raw.aid, a.ev.sn - 1))
        /\ a.ev.sn >= 0
    <2>1. CASE FieldsOk(a.ev) /\ a.ev.sn = 0
      BY <2>1
    <2>2. CASE a.pc = "judge" /\ PriorKnown(a)
      <3>1. FieldsOk(a.ev) /\ a.ev.sn > 0
        BY <1>1, <2>2 DEF RecordOk
      <3>2. Filled(firstSeen, a.ev.raw.aid, a.ev.sn - 1)
        BY <1>1, <2>2 DEF RecordOk, PriorKnown, At, Filled
      <3>3. QED
        BY <1>2, <3>1, <3>2
    <2>3. QED
      BY <2>1, <2>2
  <1>4. e \in FirstSeenLog!Entry
    BY <1>2, <1>3 DEF EntryOf, FirstSeenLog!Entry, Raw, FieldsOk
  <1>5. ~FirstSeenLog!Seen(e.aid, e.sn)
    BY DEF Puts, At, EntryOf, FirstSeenLog!Seen
  <1>6. e.sn > 0 => FirstSeenLog!Seen(e.aid, e.sn - 1)
    BY <1>3 DEF Filled, EntryOf, FirstSeenLog!Seen
  <1>7. firstSeen' = firstSeen \cup {e}
    BY DEF PutFirstSeen
  <1> HIDE DEF e
  <1>8. e \in firstSeen' \ firstSeen
    BY <1>5, <1>7 DEF FirstSeenLog!Seen
  <1>9. QED
    BY <1>4, <1>5, <1>6, <1>7, <1>8 DEF FirstSeenLog!Next, FirstSeenLog!See

(* LMDB keeps the first-seen policy: however many tasks and crashes there   *)
(* are, a slot is filled once, after the slot below it, and for good.       *)
THEOREM LmdbIsFirstSeenLog == Spec => IsFirstSeenLog
  <1>1. Init => FirstSeenLog!Init
    BY DEF Init, FirstSeenLog!Init
  <1>2. IInv /\ [Next]_vars => [FirstSeenLog!Next]_firstSeen
    <2> SUFFICES ASSUME IInv, [Next]_vars, firstSeen' # firstSeen
                 PROVE  FirstSeenLog!Next
      OBVIOUS
    <2>1. Next
      BY DEF vars, stores
    <2>2. QED
      BY <2>1, OnlyPutsWrite, PutSees
  <1>3. QED
    BY <1>1, <1>2, InvariantIInv, PTL DEF Spec, IsFirstSeenLog, FirstSeenLog!Spec

-----------------------------------------------------------------------------
(* What a step does to the stack of a task, record by record.               *)

Same(s, u, n) == \A i \in 1..n : u[i] = s[i]

Depth(t) == Len(stack[t])

(* The running record moves on, but not to the settling of a replay.        *)
Moves(t) ==
    LET n == Depth(t)
        a == Top(t)
        b == stack'[t][n]
    IN  /\ n \in Nat \ {0} /\ Len(stack'[t]) = n /\ Same(stack[t], stack'[t], n - 1)
        /\ b.ev = a.ev /\ b.pc \notin {"watched", "settle"}
        /\ b.pc \in Stored => a.pc \in Stored \/ Puts(a.ev)
        /\ b.pc = "escrow" => ~PriorKnown(a)
        /\ a.pc = "watched" => IsWatched(a.ev.raw.aid)

(* It calls _process_event on the next escrowed event.                      *)
Pushes(t) ==
    LET n == Depth(t)
        a == Top(t)
    IN  /\ n \in Nat \ {0} /\ Len(stack'[t]) = n + 1 /\ Same(stack[t], stack'[t], n - 1)
        /\ a.pc = "replay" /\ stack'[t][n] = [a EXCEPT !.pc = "settle"]
        /\ \E i \in a.pending : /\ NextPending(a, i)
                                /\ stack'[t][n + 1] = Start(Parse(escrow[i].ev.raw))

(* It returns to the record below, which notes whether it was accepted.     *)
Pops(t) ==
    LET n == Depth(t)
    IN  /\ n \in Nat \ {0, 1} /\ Len(stack'[t]) = n - 1 /\ Same(stack[t], stack'[t], n - 2)
        /\ \E b \in BOOLEAN :
              /\ stack'[t][n - 1] = [stack[t][n - 1] EXCEPT !.child = b]
              /\ b => Filled(firstSeen, Top(t).ev.raw.aid, Top(t).ev.sn)

(* A task takes an event: the first on the queue, or a client's.            *)
Begins(t) ==
    \E ev \in Event :
        /\ stack'[t] = <<Start(ev)>>
        /\ \/ queue # <<>> /\ ev = Head(queue) /\ ev # NoEvent
           \/ \E raw \in Raws : ev = Posted(raw)

Steps(t) ==
    \/ Depth(t) = 1 /\ stack'[t] = <<>>
    \/ Moves(t) \/ Pushes(t) \/ Pops(t)

Shifts(t) == stack'[t] \in {stack[t], <<>>} \/ Begins(t) \/ Steps(t)

(* The stacks of the other tasks stay.                                      *)
OthersStay(t) == \A u \in Tasks \ {t} : stack'[u] = stack[u]

(* Goto replaces the last record of the task's stack.                       *)
LEMMA GotoTop ==
    ASSUME StackOk, NEW t \in Tasks, stack[t] # <<>>, NEW b, Goto(t, b)
    PROVE  /\ Depth(t) \in Nat \ {0} /\ Len(stack'[t]) = Depth(t) /\ stack'[t][Depth(t)] = b
           /\ Same(stack[t], stack'[t], Depth(t) - 1) /\ OthersStay(t)
  <1> DEFINE s == stack[t]
             u == [s EXCEPT ![Len(s)] = b]
             Any == {b} \cup Good(firstSeen, Rows)
  <1>1. stack' = [stack EXCEPT ![t] = u] /\ DOMAIN stack = Tasks
    BY DEF Goto, StackOk
  <1>2. stack'[t] = u /\ OthersStay(t)
    BY <1>1 DEF OthersStay
  <1>3. s \in Seq(Any) /\ b \in Any
    <2>1. s \in Seq(Good(firstSeen, Rows))
      BY DEF StackOk
    <2>2. \A i \in 1..Len(s) : s[i] \in Any
      BY <2>1, LenProperties
    <2>3. QED
      BY <2>1, <2>2, LenProperties, IsASeq
  <1> HIDE DEF Any
  <1>4. /\ Len(s) \in Nat \ {0} /\ Len(u) = Len(s) /\ u[Len(s)] = b
        /\ \A i \in 1..(Len(s) - 1) : u[i] = s[i]
    BY <1>3, ReplaceLast
  <1> HIDE DEF u
  <1>5. QED
    BY <1>2, <1>4 DEF Same, Depth

(* A next step replaces the running record and touches no other task.       *)
LEMMA GotoMoves ==
    ASSUME StackOk, NEW t \in Tasks, stack[t] # <<>>, NEW b, Goto(t, b),
           b.ev = Top(t).ev, b.pc \notin {"watched", "settle"},
           b.pc \in Stored => Top(t).pc \in Stored \/ Puts(Top(t).ev),
           b.pc = "escrow" => ~PriorKnown(Top(t)),
           Top(t).pc = "watched" => IsWatched(Top(t).ev.raw.aid)
    PROVE  Moves(t) /\ OthersStay(t) /\ stack'[t][Depth(t)] = b
  BY GotoTop DEF Moves

(* A return ends the running record, and the task if it was the last.       *)
LEMMA ReturnShifts ==
    ASSUME StackOk, NEW t \in Tasks, stack[t] # <<>>, NEW verdict, Return(t, verdict),
           verdict = "accepted" => Filled(firstSeen, Top(t).ev.raw.aid, Top(t).ev.sn)
    PROVE  (Pops(t) \/ (Depth(t) = 1 /\ stack'[t] = <<>>)) /\ OthersStay(t)
  <1> DEFINE s == stack[t]
             n == Len(s) - 1
             v == SubSeq(s, 1, n)
             b == (verdict = "accepted")
             c == [v[n] EXCEPT !.child = b]
             u == [v EXCEPT ![n] = c]
  <1>1. DOMAIN stack = Tasks /\ s \in Seq(Good(firstSeen, Rows)) /\ Len(s) \in Nat \ {0}
    BY EmptySeq DEF StackOk
  <1>2. CASE Len(s) > 1
    <2>1. stack' = [stack EXCEPT ![t] = u]
      BY <1>2 DEF Return
    <2>2. stack'[t] = u /\ OthersStay(t)
      BY <1>1, <2>1 DEF OthersStay
    <2>3. n \in Nat \ {0} /\ Len(s) = n + 1
      <3>1. \A m \in Nat : m > 1 => m - 1 \in Nat \ {0} /\ m = m - 1 + 1
        OBVIOUS
      <3>2. QED
        BY <1>1, <1>2, <3>1, Zenon
    <2>4. v \in Seq(Good(firstSeen, Rows)) /\ v # <<>> /\ Len(v) = n
          /\ \A i \in 1..n : v[i] = s[i]
      BY <1>1, <2>3, DropLast
    <2>5. v[n] = s[n] /\ v[n] \in Good(firstSeen, Rows)
      BY <2>3, <2>4, LastRecord
    <2>6. b \in BOOLEAN
      OBVIOUS
    <2>7. \E x \in BOOLEAN : /\ c = [s[n] EXCEPT !.child = x]
                             /\ x => Filled(firstSeen, Top(t).ev.raw.aid, Top(t).ev.sn)
      BY <2>5, <2>6
    <2> HIDE DEF c
    <2> DEFINE Any == {c} \cup Good(firstSeen, Rows)
    <2>8. v \in Seq(Any) /\ c \in Any
      <3>1. \A i \in 1..Len(v) : v[i] \in Any
        BY <2>4, LenProperties
      <3>2. QED
        BY <2>4, <3>1, LenProperties, IsASeq
    <2> HIDE DEF Any, v
    <2>9. /\ Len(u) = n /\ u[n] = c
          /\ \A i \in 1..(n - 1) : u[i] = v[i]
      BY <2>4, <2>8, ReplaceLast
    <2> HIDE DEF u, n
    <2>10. \A i \in 1..(n - 1) : u[i] = s[i]
      BY <2>3, <2>4, <2>9
    <2>11. Pops(t)
      <3>1. Len(s) \in Nat \ {0, 1} /\ Len(s) - 1 = n /\ Len(s) - 2 = n - 1
        BY <2>3
      <3>2. QED
        BY <2>2, <2>7, <2>9, <2>10, <3>1 DEF Pops, Same, Depth
    <2>12. QED
      BY <2>2, <2>11
  <1>3. CASE ~(Len(s) > 1)
    <2>1. stack' = [stack EXCEPT ![t] = <<>>]
      BY <1>3 DEF Return
    <2>2. Depth(t) = 1
      <3>1. \A m \in Nat \ {0} : ~(m > 1) => m = 1
        OBVIOUS
      <3>2. QED
        BY <1>1, <1>3, <3>1, Zenon DEF Depth
    <2>3. QED
      BY <1>1, <2>1, <2>2 DEF OthersStay
  <1>4. QED
    BY <1>2, <1>3

(* A call for an escrowed event pushes a record.                            *)
LEMMA ReplayPushes ==
    ASSUME StackOk, NEW t \in Tasks, stack[t] # <<>>, Replay(t)
    PROVE  Pushes(t) /\ OthersStay(t)
  <1> DEFINE a == Top(t)
  <1> DEFINE b == [a EXCEPT !.pc = "settle"]
             s == [stack[t] EXCEPT ![Len(stack[t])] = b]
  <1>1. PICK i \in a.pending : /\ NextPending(a, i)
                               /\ stack' = [stack EXCEPT ![t] = Append(s, Start(Parse(escrow[i].ev.raw)))]
    BY DEF Replay
  <1> DEFINE c == Start(Parse(escrow[i].ev.raw))
  <1>2. DOMAIN stack = Tasks
    BY DEF StackOk
  <1>3. stack'[t] = Append(s, c) /\ OthersStay(t)
    BY <1>1, <1>2 DEF OthersStay
  <1> DEFINE Any == Good(firstSeen, Rows) \cup {b, c}
  <1>4. stack[t] \in Seq(Any) /\ b \in Any /\ c \in Any
    <2>1. stack[t] \in Seq(Good(firstSeen, Rows))
      BY DEF StackOk
    <2>2. \A j \in 1..Len(stack[t]) : stack[t][j] \in Any
      BY <2>1, LenProperties
    <2>3. QED
      BY <2>1, <2>2, LenProperties, IsASeq
  <1> HIDE DEF Any, c, b
  <1>5. /\ s \in Seq(Any) /\ Len(s) = Len(stack[t]) /\ Len(s) \in Nat \ {0}
        /\ s[Len(s)] = b /\ \A j \in 1..(Len(s) - 1) : s[j] = stack[t][j]
    BY <1>4, ReplaceLast
  <1> HIDE DEF s
  <1>6. /\ Len(Append(s, c)) = Len(s) + 1
        /\ Append(s, c)[Len(s) + 1] = c
        /\ \A j \in 1..Len(s) : Append(s, c)[j] = s[j]
    BY <1>4, <1>5, Push
  <1>7. a.pc = "replay"
    BY DEF Replay, Busy
  <1>8. Pushes(t)
    BY <1>1, <1>3, <1>5, <1>6, <1>7 DEF Pushes, Same, Depth, b, c
  <1>9. QED
    BY <1>3, <1>8

(* So does every step of a task.                                            *)
LEMMA ProcessShifts ==
    ASSUME IInv, NEW t \in Tasks, ProcessEvent(t)
    PROVE  stack[t] # <<>> /\ Steps(t) /\ OthersStay(t)
  <1> DEFINE a == Top(t)
             ev == a.ev
             seen == At(firstSeen, ev.raw.aid, ev.sn)
  <1>0. stack[t] # <<>>
    BY DEF ProcessEvent, FailOnDbError, CheckWatched, Lookup, GetKel, RecordDuplicity, GetPrior,
           Judge, EscrowEvent, Record, FetchEscrow, Replay, Settle, FinishReplay, Busy
  <1> SUFFICES Steps(t) /\ OthersStay(t)
    BY <1>0
  <1>1. StackOk /\ a \in Activation /\ RecordOk(a, firstSeen) /\ ev \in Event
        /\ a.pending \subseteq Rows
    BY <1>0, TopGood DEF IInv
  <1>2. ASSUME Return(t, "rejected") \/ Return(t, "duplicate") \/ Return(t, "escrowed")
        PROVE  Steps(t) /\ OthersStay(t)
    BY <1>0, <1>1, <1>2, ReturnShifts DEF Steps
  <1>3. ASSUME Return(t, "accepted"), Filled(firstSeen, ev.raw.aid, ev.sn)
        PROVE  Steps(t) /\ OthersStay(t)
    BY <1>0, <1>1, <1>3, ReturnShifts DEF Steps
  <1>4. ASSUME NEW b \in Activation, Goto(t, b), b.ev = ev, b.pc \notin {"watched", "settle"},
               b.pc \in Stored => a.pc \in Stored \/ Puts(ev),
               b.pc = "escrow" => ~PriorKnown(a),
               a.pc = "watched" => IsWatched(ev.raw.aid)
        PROVE  Steps(t) /\ OthersStay(t)
    BY <1>0, <1>1, <1>4, GotoMoves DEF Steps
  <1>5. ASSUME NEW pc \in PCs \ {"watched", "settle"}, Goto(t, [a EXCEPT !.pc = pc]),
               pc \in Stored => a.pc \in Stored \/ Puts(ev),
               pc = "escrow" => ~PriorKnown(a),
               a.pc = "watched" => IsWatched(ev.raw.aid)
        PROVE  Steps(t) /\ OthersStay(t)
    <2> DEFINE b == [a EXCEPT !.pc = pc]
    <2>1. b \in Activation /\ b.pc = pc /\ b.ev = ev
      BY <1>1 DEF Activation
    <2>2. Goto(t, b)
      BY <1>5
    <2> HIDE DEF b
    <2>3. QED
      BY <1>4, <1>5, <2>1, <2>2
  <1>6. CASE FailOnDbError(t)
    BY <1>2, <1>6 DEF FailOnDbError
  <1>7. CASE CheckWatched(t)
    BY <1>2, <1>5, <1>7 DEF CheckWatched, PCs, Stored
  <1>8. CASE Lookup(t)
    <2>1. a.pc = "lookup"
      BY <1>8 DEF Lookup, Busy
    <2>2. CASE Return(t, "rejected")
      BY <1>2, <2>2
    <2>3. CASE \E e \in seen : Goto(t, [a EXCEPT !.pc = "get_kel", !.existing = e.said])
      <3>1. PICK e \in seen : Goto(t, [a EXCEPT !.pc = "get_kel", !.existing = e.said])
        BY <2>3
      <3> DEFINE b == [a EXCEPT !.pc = "get_kel", !.existing = e.said]
      <3>2. e.said \in Saids
        BY DEF At, IInv, TypeOK, Log
      <3>3. b \in Activation /\ b.pc = "get_kel" /\ b.ev = ev
        BY <1>1, <3>2 DEF Activation, PCs, Awaits
      <3>4. Goto(t, b)
        BY <3>1
      <3> HIDE DEF b
      <3>5. QED
        BY <1>4, <2>1, <3>3, <3>4 DEF Stored
    <2>4. CASE Return(t, "accepted") /\ seen # {}
      BY <1>3, <2>4 DEF Filled, At
    <2>5. CASE seen = {} /\ Goto(t, [a EXCEPT !.pc = "record"])
      BY <1>5, <2>1, <2>5 DEF PCs, Awaits, Puts
    <2>6. CASE Goto(t, [a EXCEPT !.pc = "prior"])
      BY <1>5, <2>1, <2>6 DEF PCs, Awaits, Stored
    <2>7. QED
      BY <1>8, <2>2, <2>3, <2>4, <2>5, <2>6 DEF Lookup, AcceptKnown
  <1>9. CASE GetKel(t)
    <2>1. \A e \in kel : e.said \in Saids
      BY RowsSame DEF IInv, TypeOK, Log
    <2>2. KelFrom(a.ev) \subseteq Saids
      BY <2>1 DEF KelFrom
    <2>3. PICK said \in Saids \cup {NoSaid} :
              Goto(t, [a EXCEPT !.pc = "record_duplicity", !.evidence = said])
      BY <1>9, <2>2, Zenon DEF GetKel
    <2> DEFINE b == [a EXCEPT !.pc = "record_duplicity", !.evidence = said]
    <2>4. b \in Activation /\ b.pc = "record_duplicity" /\ b.ev = ev
      BY <1>1 DEF Activation, PCs, Awaits
    <2>5. Goto(t, b)
      BY <2>3
    <2>6. a.pc = "get_kel"
      BY <1>9 DEF GetKel, Busy
    <2> HIDE DEF b
    <2>7. QED
      BY <1>4, <2>4, <2>5, <2>6 DEF Stored
  <1>10. CASE RecordDuplicity(t)
    BY <1>2, <1>10 DEF RecordDuplicity
  <1>11. CASE GetPrior(t)
    <2> DEFINE found == At(kel, a.ev.raw.aid, a.ev.sn - 1) # {}
               b == [a EXCEPT !.pc = "judge", !.inDb = found]
    <2>1. found \in BOOLEAN
      OBVIOUS
    <2>2. Goto(t, b) /\ a.pc = "prior"
      BY <1>11 DEF GetPrior, Busy
    <2> HIDE DEF found
    <2>3. b \in Activation /\ b.pc = "judge" /\ b.ev = ev
      BY <1>1, <2>1 DEF Activation, PCs, Awaits
    <2> HIDE DEF b
    <2>4. QED
      BY <1>4, <2>2, <2>3 DEF Stored
  <1>12. CASE Judge(t)
    <2>1. a.pc = "judge"
      BY <1>12 DEF Judge, Busy
    <2>2. CASE ~PriorKnown(a) /\ Goto(t, [a EXCEPT !.pc = "escrow"])
      BY <1>5, <2>1, <2>2 DEF PCs, Awaits, Stored
    <2>3. CASE Return(t, "rejected")
      BY <1>2, <2>3
    <2>4. CASE Return(t, "accepted") /\ ~Puts(ev)
      BY <1>3, <2>4 DEF Puts, Filled, At
    <2>5. CASE Puts(ev) /\ Goto(t, [a EXCEPT !.pc = "record"])
      BY <1>5, <2>1, <2>5 DEF PCs, Awaits
    <2>6. QED
      BY <1>12, <2>2, <2>3, <2>4, <2>5 DEF Judge
  <1>13. CASE EscrowEvent(t)
    BY <1>2, <1>13 DEF EscrowEvent
  <1>14. CASE Record(t)
    BY <1>5, <1>14 DEF Record, Busy, PCs, Awaits, Stored
  <1>15. CASE FetchEscrow(t)
    <2> DEFINE rows == Replayable(a.ev)
               b == [a EXCEPT !.pc = "replay", !.pending = rows]
    <2>1. a.pc = "fetch_escrow" /\ Goto(t, b)
      BY <1>15 DEF FetchEscrow, Busy
    <2>2. rows \in SUBSET Nat
      BY DEF Replayable, PendingEscrow
    <2> HIDE DEF rows
    <2>3. b \in Activation /\ b.pc = "replay" /\ b.ev = ev
      BY <1>1, <2>2 DEF Activation, PCs
    <2> HIDE DEF b
    <2>4. QED
      BY <1>4, <2>1, <2>3 DEF Stored
  <1>16. CASE Replay(t)
    BY <1>0, <1>1, <1>16, ReplayPushes DEF Steps
  <1>17. CASE Settle(t)
    <2>1. a.pc = "settle"
      BY <1>17 DEF Settle, Busy
    <2>2. PICK i \in a.pending : Goto(t, [a EXCEPT !.pc = "replay", !.pending = RowsAfter(a, i)])
      BY <1>17 DEF Settle
    <2> DEFINE b == [a EXCEPT !.pc = "replay", !.pending = RowsAfter(a, i)]
    <2>3. b \in Activation /\ b.pc = "replay" /\ b.ev = ev
      BY <1>1 DEF Activation, PCs, RowsAfter
    <2>4. Goto(t, b)
      BY <2>2
    <2> HIDE DEF b
    <2>5. QED
      BY <1>4, <2>1, <2>3, <2>4 DEF Stored
  <1>18. CASE FinishReplay(t)
    <2>1. EntryOf(ev) \in firstSeen
      BY <1>1, <1>18 DEF FinishReplay, Busy, RecordOk, Stored
    <2>2. Filled(firstSeen, ev.raw.aid, ev.sn)
      BY <2>1 DEF Filled, EntryOf
    <2>3. QED
      BY <1>3, <1>18, <2>2 DEF FinishReplay
  <1>19. QED
    BY <1>6, <1>7, <1>8, <1>9, <1>10, <1>11, <1>12, <1>13, <1>14, <1>15, <1>16, <1>17,
       <1>18 DEF ProcessEvent

(* And every step of the system, for every task.                            *)
LEMMA StacksShift ==
    ASSUME IInv, Next, NEW t \in Tasks
    PROVE  Shifts(t)
  <1>0. DOMAIN stack = Tasks
    BY DEF IInv, StackOk
  <1>1. ASSUME NEW u \in Tasks, ProcessEvent(u)
        PROVE  Shifts(t)
    BY <1>1, ProcessShifts DEF OthersStay, Shifts, Steps
  <1>2. ASSUME NEW u \in Requests, NEW raw \in Raws, Request(u, raw)
        PROVE  Shifts(t)
    <2>1. Posted(raw) \in Event
      BY WatcherConstants DEF Posted, Event, Raw
    <2>2. CASE u = t
      BY <1>0, <1>2, <2>1, <2>2 DEF Request, Shifts, Begins
    <2>3. CASE u # t
      BY <1>0, <1>2, <2>3 DEF Request, Shifts
    <2>4. QED
      BY <2>2, <2>3
  <1>3. ASSUME NEW w \in Workers, Receive(w)
        PROVE  Shifts(t)
    <2>1. queue \in Seq(Event \cup {NoEvent}) /\ queue # <<>>
      BY <1>3 DEF IInv, TypeOK, Receive
    <2>2. Head(queue) \in Event \cup {NoEvent}
      BY <2>1
    <2>3. CASE Head(queue) = NoEvent
      BY <1>3, <2>3 DEF Receive, Shifts
    <2>4. CASE Head(queue) # NoEvent /\ w = t
      BY <1>0, <1>3, <2>1, <2>2, <2>4 DEF Receive, Shifts, Begins
    <2>5. CASE Head(queue) # NoEvent /\ w # t
      BY <1>0, <1>3, <2>5 DEF Receive, Shifts
    <2>6. QED
      BY <2>3, <2>4, <2>5
  <1>4. CASE \/ \E raw \in Raws, sn \in LastSns : Submit(Polled(raw, sn))
             \/ \E w \in Workers : TimeOut(w)
             \/ \E aid \in Aids : Watch(aid) \/ Unwatch(aid)
             \/ ExpireEscrow \/ Stop \/ PutSentinel \/ Restart
    BY <1>4 DEF Submit, TimeOut, Watch, Unwatch, ExpireEscrow, Stop, PutSentinel, Restart, Shifts, Steps
  <1>5. QED
    BY <1>1, <1>2, <1>3, <1>4, Zenon DEF Next

(* Settling and expiry add no row.                                          *)
LEMMA RowCount ==
    ASSUME IInv, IInv', (\E t \in Tasks : Settle(t)) \/ ExpireEscrow
    PROVE  Len(escrow') = Len(escrow)
  <1>1. /\ escrow \in Seq(EscrowRow) /\ DOMAIN escrow = 1..Len(escrow) /\ Len(escrow) \in Nat
        /\ escrow' \in Seq(EscrowRow) /\ DOMAIN escrow' = 1..Len(escrow') /\ Len(escrow') \in Nat
    BY LenProperties DEF IInv, TypeOK, EscrowRow
  <1>2. DOMAIN escrow' = DOMAIN escrow
    <2>1. CASE ExpireEscrow
      BY <1>1, <2>1 DEF ExpireEscrow
    <2>2. CASE \E t \in Tasks : Settle(t)
      <3>1. PICK i : escrow' \in {escrow, [escrow EXCEPT ![i].state = "resolved"]}
        BY <2>2 DEF Settle, SettleRow
      <3>2. QED
        BY <3>1
    <2>3. QED
      BY <2>1, <2>2
  <1>3. \A m, n \in Nat : 1..m = 1..n => m <= n
    <2>1. SUFFICES ASSUME NEW m \in Nat, NEW n \in Nat, 1..m = 1..n, n < m
                   PROVE  FALSE
      OBVIOUS
    <2>2. m \in 1..m
      BY <2>1
    <2>3. m \in 1..n
      BY <2>1, <2>2
    <2>4. QED
      BY <2>1, <2>3
  <1>4. Len(escrow) <= Len(escrow') /\ Len(escrow') <= Len(escrow)
    <2>1. 1..Len(escrow) = 1..Len(escrow') /\ 1..Len(escrow') = 1..Len(escrow)
      BY <1>1, <1>2
    <2>2. Len(escrow) \in Nat /\ Len(escrow') \in Nat
      BY <1>1
    <2>3. QED
      BY <1>3, <2>1, <2>2
  <1>5. Len(escrow) \in Nat /\ Len(escrow') \in Nat
    BY <1>1
  <1>6. \A m, n \in Nat : m <= n /\ n <= m => n = m
    OBVIOUS
  <1>7. QED
    BY <1>4, <1>5, <1>6, Zenon

(* LMDB and the escrow only grow, and no row changes its event.             *)
LEMMA StoresGrow ==
    ASSUME IInv, Next
    PROVE  firstSeen \subseteq firstSeen' /\ RowsKept(escrow, escrow')
  <1>1. RowsKept(escrow, escrow) /\ escrow \in Seq(EscrowRow) /\ Len(escrow) \in Nat
    BY RowsSame, LenProperties
  <1>2. firstSeen \subseteq firstSeen'
    BY OnlyPutsWrite DEF PutFirstSeen
  <1>3. ASSUME NEW t \in Tasks, EscrowEvent(t)
        PROVE  RowsKept(escrow, escrow')
    <2> DEFINE r == [ev |-> Top(t).ev, state |-> "pending"]
    <2>1. escrow' = Append(escrow, r)
      BY <1>3 DEF EscrowEvent, AddToEscrow
    <2>2. stack[t] # <<>>
      BY <1>3 DEF EscrowEvent, Busy
    <2>3. r \in EscrowRow
      BY <2>2, TopGood DEF IInv, EscrowRow
    <2>4. Len(escrow') = Len(escrow) + 1 /\ \A i \in 1..Len(escrow) : escrow'[i] = escrow[i]
      BY <1>1, <2>1, <2>3, Push
    <2>5. QED
      BY <1>1, <2>4 DEF RowsKept
  <1>4. ASSUME NEW t \in Tasks, Settle(t)
        PROVE  RowsKept(escrow, escrow')
    <2>1. PICK i : escrow' \in {escrow, [escrow EXCEPT ![i].state = "resolved"]}
      BY <1>4 DEF Settle, SettleRow
    <2>2. QED
      BY <1>1, <2>1, CloseRows
  <1>5. CASE ExpireEscrow
    <2>1. PICK k \in 1..Len(escrow) :
              escrow' = [i \in 1..Len(escrow) |->
                            IF i <= k /\ escrow[i].state = "pending"
                            THEN [escrow[i] EXCEPT !.state = "expired"]
                            ELSE escrow[i]]
      BY <1>5 DEF ExpireEscrow
    <2>2. \A i \in 1..Len(escrow) : escrow[i] \in EscrowRow
      BY <1>1, LenProperties
    <2>3. \A i \in 1..Len(escrow) : escrow'[i].ev = escrow[i].ev
      BY <2>1, <2>2 DEF EscrowRow
    <2>4. Len(escrow') = Len(escrow)
      BY <1>5, NextIInv, RowCount
    <2>5. QED
      BY <1>2, <2>3, <2>4 DEF RowsKept
  <1>6. CASE escrow' = escrow
    BY <1>1, <1>2, <1>6
  <1>7. ASSUME NEW t \in Tasks, ProcessEvent(t)
        PROVE  RowsKept(escrow, escrow')
    BY <1>3, <1>4, <1>6, <1>7 DEF ProcessEvent, FailOnDbError, CheckWatched, Lookup, GetKel,
       RecordDuplicity, GetPrior, Judge, Record, FetchEscrow, Replay, FinishReplay, stores
  <1>8. RowsKept(escrow, escrow')
    BY <1>5, <1>6, <1>7 DEF Next, Submit, Request, Receive, TimeOut, Watch, Unwatch, Stop,
       PutSentinel, Restart, stores
  <1>9. QED
    BY <1>2, <1>8

(* The record b at depth j after a step is the record a before it, about    *)
(* the same event; it puts its event, and passes the watched check, as      *)
(* _process_event does.                                                     *)
Carries(t, a, b, j) ==
    /\ b.ev = a.ev
    /\ b.pc \in Stored => a.pc \in Stored \/ (j = Len(stack[t]) /\ Puts(a.ev))
    /\ b.pc # "watched" => a.pc # "watched" \/ IsWatched(a.ev.raw.aid)

(* Every record after a step is a record before it, or a fresh one on top.  *)
LEMMA RecordsStay ==
    ASSUME IInv, Next, NEW t \in Tasks, NEW j \in 1..Len(stack'[t])
    PROVE  \/ j \in 1..Len(stack[t]) /\ Carries(t, stack[t][j], stack'[t][j], j)
           \/ Begins(t) /\ j = 1
           \/ \E i \in Rows : stack'[t][j] = Start(Parse(escrow[i].ev.raw))
  <1> DEFINE s == stack[t]
             u == stack'[t]
  <1>1. s \in Seq(Activation) /\ Len(s) \in Nat /\ \A i \in 1..Len(s) : s[i] \in Activation
    BY LenProperties DEF IInv, TypeOK
  <1>2. ASSUME NEW a, NEW b, a = b
        PROVE  Carries(t, a, b, j)
    BY <1>2 DEF Carries
  <1>3. CASE u = s
    BY <1>2, <1>3
  <1>4. CASE u = <<>>
    BY <1>4
  <1>5. CASE Begins(t)
    BY <1>5 DEF Begins
  <1>6. CASE Moves(t)
    <2>1. /\ Len(s) \in Nat \ {0} /\ Len(u) = Len(s)
          /\ \A i \in 1..(Len(s) - 1) : u[i] = s[i]
          /\ Carries(t, s[Len(s)], u[Len(s)], Len(s))
      BY <1>6 DEF Moves, Same, Depth, Top, Carries
    <2>2. j \in 1..(Len(s) - 1) \/ j = Len(s)
      BY <2>1
    <2>3. QED
      BY <1>2, <2>1, <2>2
  <1>7. CASE Pushes(t)
    <2>1. s # <<>>
      BY <1>7 DEF Pushes, Depth
    <2>2. Top(t) \in Activation /\ Top(t).pending \subseteq Rows
      BY <2>1, TopGood DEF IInv
    <2>3. /\ [Top(t) EXCEPT !.pc = "settle"].ev = Top(t).ev
          /\ [Top(t) EXCEPT !.pc = "settle"].pc = "settle"
      BY <2>2 DEF Activation
    <2>4. CASE j < Len(s)
      BY <1>1, <1>2, <1>7, <2>4 DEF Pushes, Same, Depth
    <2>5. CASE j = Len(s)
      <3>1. u[Len(s)] = [Top(t) EXCEPT !.pc = "settle"] /\ Len(s) # 0 /\ Top(t).pc = "replay"
        BY <1>7 DEF Pushes, Depth
      <3>2. Carries(t, s[j], u[j], j)
        BY <2>3, <2>5, <3>1 DEF Top, Carries, Stored
      <3>3. QED
        BY <1>1, <2>5, <3>1, <3>2
    <2>6. CASE j = Len(s) + 1
      BY <1>1, <1>7, <2>2, <2>6 DEF Pushes, Depth
    <2>7. QED
      BY <1>1, <1>7, <2>4, <2>5, <2>6 DEF Pushes, Depth
  <1>8. CASE Pops(t)
    <2>1. Len(s) \in Nat \ {0, 1} /\ Len(u) = Len(s) - 1
      BY <1>8 DEF Pops, Depth
    <2>2. j \in 1..Len(s) /\ (j \in 1..(Len(s) - 2) \/ j = Len(s) - 1)
      BY <2>1
    <2>3. s[j] \in Activation
      BY <1>1, <2>2
    <2>4. \A b \in BOOLEAN : Carries(t, s[j], [s[j] EXCEPT !.child = b], j)
      BY <2>3 DEF Activation, Carries
    <2>5. QED
      BY <1>2, <1>8, <2>2, <2>4 DEF Pops, Same, Depth
  <1>9. QED
    BY <1>3, <1>4, <1>5, <1>6, <1>7, <1>8, StacksShift DEF Shifts, Steps

-----------------------------------------------------------------------------
(* Who is accused, and under which number.                                  *)

(* The number of an event is the one it was sent with, or the one that the  *)
(* name it was looked up under left to its reader.                          *)
AsSent(ev) ==
    \/ ev.sn = ev.raw.sn
    \/ "s" \notin ev.raw.keys /\ ev.sn = 0
    \/ "sn" \notin ev.raw.keys /\ ev.sn \in LastSns

SentInv ==
    /\ \A t \in Tasks : \A j \in 1..Len(stack[t]) : AsSent(stack[t][j].ev)
    /\ \A i \in 1..Len(queue) : queue[i] # NoEvent => AsSent(queue[i])
    /\ AccusedAsSent

(* The replays a task is in: a record that is not the running one settles,  *)
(* the one above it is about the next row of its list; and when the replay  *)
(* has returned and was accepted, the slot of the row's event is filled.    *)
RowSlotFilled(E, i, F) ==
    Filled(F, Parse(E[i].ev.raw).raw.aid, Parse(E[i].ev.raw).sn)

Calls(a, b, E) ==
    /\ a.pc = "settle"
    /\ \E i \in a.pending : NextPending(a, i) /\ b.ev = Parse(E[i].ev.raw)

Settles(a, E, F) ==
    a.pc = "settle" /\ a.child =>
        \A i \in a.pending : NextPending(a, i) => RowSlotFilled(E, i, F)

ReplayInv ==
    /\ \A t \in Tasks : \A j \in 1..Len(stack[t]) :
          /\ j < Len(stack[t]) => Calls(stack[t][j], stack[t][j + 1], escrow)
          /\ j = Len(stack[t]) => Settles(stack[t][j], escrow, firstSeen)
    /\ ResolvedIsSeen

(* A record that has put its event did so in a slot that the records below  *)
(* it, which had put theirs, had left free.                                 *)
DistinctInv ==
    \A t \in Tasks : \A j \in 1..Len(stack[t]) : stack[t][j].pc \in Stored =>
        \A i \in 1..(j - 1) : Slot(stack[t][i]) # Slot(stack[t][j])

(* A record that is past the watched check is about an AID that is, or was, *)
(* on the watch list.                                                       *)
WatchedInv ==
    /\ \A t \in Tasks : \A j \in 1..Len(stack[t]) :
          stack[t][j].pc # "watched" => watchedAids[stack[t][j].ev.raw.aid] # "absent"
    /\ OnlyWatched

-----------------------------------------------------------------------------
(* The first invariant.                                                     *)

(* What the three readers make of a raw event.                              *)
LEMMA ReadersAreHonest ==
    ASSUME NEW raw \in Raws
    PROVE  /\ AsSent(Parse(raw)) /\ AsSent(Posted(raw))
           /\ \A sn \in LastSns : AsSent(Polled(raw, sn))
  BY DEF AsSent, Parse, Posted, Polled

(* Every record carries an event as it was sent.                            *)
LEMMA StackSent ==
    ASSUME IInv, SentInv, Next
    PROVE  \A t \in Tasks : \A j \in 1..Len(stack'[t]) : AsSent(stack'[t][j].ev)
  <1> TAKE t \in Tasks
  <1> TAKE j \in 1..Len(stack'[t])
  <1>1. CASE j \in 1..Len(stack[t]) /\ Carries(t, stack[t][j], stack'[t][j], j)
    BY <1>1 DEF SentInv, Carries
  <1>2. CASE Begins(t) /\ j = 1
    <2>1. PICK ev \in Event : /\ stack'[t] = <<Start(ev)>>
                              /\ \/ queue # <<>> /\ ev = Head(queue) /\ ev # NoEvent
                                 \/ \E raw \in Raws : ev = Posted(raw)
      BY <1>2 DEF Begins
    <2>2. stack'[t][j].ev = ev
      BY <1>2, <2>1 DEF Start
    <2>3. CASE queue # <<>> /\ ev = Head(queue) /\ ev # NoEvent
      <3>1. queue \in Seq(Event \cup {NoEvent})
        BY DEF IInv, TypeOK
      <3>2. 1 \in 1..Len(queue) /\ queue[1] = Head(queue)
        BY <2>3, <3>1, LenProperties, EmptySeq
      <3>3. QED
        BY <2>2, <2>3, <3>2 DEF SentInv
    <2>4. QED
      BY <2>1, <2>2, <2>3, ReadersAreHonest
  <1>3. CASE \E i \in Rows : stack'[t][j] = Start(Parse(escrow[i].ev.raw))
    <2>1. PICK i \in Rows : stack'[t][j] = Start(Parse(escrow[i].ev.raw))
      BY <1>3
    <2>2. escrow[i] \in EscrowRow
      BY RowsSame, LenProperties DEF Rows
    <2>3. escrow[i].ev.raw \in Raws
      BY <2>2 DEF EscrowRow, Event
    <2>4. QED
      BY <2>1, <2>3, ReadersAreHonest DEF Start
  <1>4. QED
    BY <1>1, <1>2, <1>3, RecordsStay

(* So does the queue, which only receives and polls fill.                   *)
LEMMA QueueSent ==
    ASSUME IInv, SentInv, Next
    PROVE  \A i \in 1..Len(queue') : queue'[i] # NoEvent => AsSent(queue'[i])
  <1>1. queue \in Seq(Event \cup {NoEvent}) /\ Len(queue) \in Nat
    BY LenProperties DEF IInv, TypeOK
  <1>2. ASSUME NEW ev \in Event \cup {NoEvent}, queue' = Append(queue, ev),
               ev # NoEvent => AsSent(ev)
        PROVE  \A i \in 1..Len(queue') : queue'[i] # NoEvent => AsSent(queue'[i])
    <2>1. /\ Len(queue') = Len(queue) + 1 /\ queue'[Len(queue) + 1] = ev
          /\ \A i \in 1..Len(queue) : queue'[i] = queue[i]
      BY <1>1, <1>2, Push
    <2>2. \A i \in 1..Len(queue') : i \in 1..Len(queue) \/ i = Len(queue) + 1
      BY <1>1, <2>1
    <2>3. QED
      BY <1>2, <2>1, <2>2 DEF SentInv
  <1>3. CASE queue' = queue
    BY <1>3 DEF SentInv
  <1>4. CASE queue # <<>> /\ queue' = Tail(queue)
    <2>1. /\ Len(queue') = Len(queue) - 1
          /\ \A i \in 1..Len(queue') : queue'[i] = queue[i + 1]
      BY <1>1, <1>4, HeadTailProperties
    <2>2. \A i \in 1..Len(queue') : i + 1 \in 1..Len(queue)
      BY <1>1, <2>1
    <2>3. QED
      BY <2>1, <2>2 DEF SentInv
  <1>5. CASE queue' = <<>>
    BY <1>5
  <1>6. ASSUME NEW raw \in Raws, NEW sn \in LastSns, Submit(Polled(raw, sn))
        PROVE  \A i \in 1..Len(queue') : queue'[i] # NoEvent => AsSent(queue'[i])
    <2> DEFINE ev == Polled(raw, sn)
    <2>1. ev \in Event /\ AsSent(ev)
      BY ReadersAreHonest, WatcherConstants DEF Polled, Event, Raw
    <2>2. queue' \in {queue, Append(queue, ev)}
      BY <1>6 DEF Submit
    <2> HIDE DEF ev
    <2>3. QED
      BY <1>2, <1>3, <2>1, <2>2
  <1>7. CASE PutSentinel
    BY <1>2, <1>7 DEF PutSentinel
  <1>8. ASSUME NEW t \in Tasks, ProcessEvent(t)
        PROVE  queue' = queue
    BY <1>8 DEF ProcessEvent, FailOnDbError, CheckWatched, Lookup, GetKel,
       RecordDuplicity, GetPrior, Judge, EscrowEvent, Record, FetchEscrow, Replay, Settle,
       FinishReplay
  <1>9. QED
    BY <1>3, <1>4, <1>5, <1>6, <1>7, <1>8 DEF Next, Request, Receive, TimeOut, Watch, Unwatch,
       ExpireEscrow, Stop, Restart

(* What the duplicity log says of an event is what was sent.                *)
LEMMA LogSent ==
    ASSUME IInv, SentInv, Next
    PROVE  AccusedAsSent'
  <1>1. CASE duplicityLog' = duplicityLog
    BY <1>1 DEF SentInv, AccusedAsSent
  <1>2. ASSUME NEW t \in Tasks, RecordDuplicity(t)
        PROVE  AccusedAsSent'
    <2> DEFINE a == Top(t)
               d == DuplicityEntry(a)
    <2>1. stack[t] # <<>>
      BY <1>2 DEF RecordDuplicity, Busy
    <2>2. stack[t] \in Seq(Activation) /\ a.ev \in Event
      BY <2>1, TopGood DEF IInv, TypeOK
    <2>3. AsSent(a.ev)
      BY <2>1, <2>2, LastRecord DEF SentInv, Top
    <2>4. a.ev.raw \in Raws /\ d.aid = a.ev.raw.aid /\ d.sn = a.ev.sn
          /\ d.conflict = a.ev.raw.said
      BY <2>2 DEF DuplicityEntry, Event
    <2>5. duplicityLog' = duplicityLog \cup {d}
      BY <1>2 DEF RecordDuplicity
    <2> HIDE DEF d, a
    <2>6. QED
      BY <2>3, <2>4, <2>5 DEF SentInv, AccusedAsSent, AsSent
  <1>3. ASSUME NEW t \in Tasks, ProcessEvent(t)
        PROVE  AccusedAsSent'
    BY <1>1, <1>2, <1>3 DEF ProcessEvent, FailOnDbError, CheckWatched, Lookup, GetKel,
       GetPrior, Judge, EscrowEvent, Record, FetchEscrow, Replay, Settle, FinishReplay, stores
  <1>4. QED
    BY <1>1, <1>3 DEF Next, Submit, Request, Receive, TimeOut, Watch, Unwatch, ExpireEscrow, Stop,
       PutSentinel, Restart, stores

(* The invariant is inductive.                                              *)
LEMMA SentStep == IInv /\ SentInv /\ [Next]_vars => SentInv'
  <1>1. IInv /\ SentInv /\ Next => SentInv'
    BY StackSent, QueueSent, LogSent DEF SentInv
  <1>2. SentInv /\ UNCHANGED vars => SentInv'
    BY DEF SentInv, AccusedAsSent, vars, stores
  <1>3. QED
    BY <1>1, <1>2

(* An event is accused under the number it was sent with, or under the one  *)
(* left to a reader that does not find its name, whichever of the poller,   *)
(* the API and the replay read it and however it was queued, escrowed and   *)
(* replayed on the way.                                                     *)
THEOREM AccusationsAsSent == Spec => []AccusedAsSent
  <1>1. Init => SentInv
    BY DEF Init, SentInv, AccusedAsSent
  <1>2. SentInv => AccusedAsSent
    BY DEF SentInv
  <1>3. QED
    BY <1>1, <1>2, SentStep, InvariantIInv, PTL DEF Spec

-----------------------------------------------------------------------------
(* The second invariant.                                                    *)

(* Calls and settlements survive what the stores do.                        *)
LEMMA CallsKept ==
    ASSUME NEW a, NEW b, NEW c, b.ev = c.ev, NEW E, NEW H, RowsKept(E, H),
           a.pending \subseteq 1..Len(E), Calls(a, b, E)
    PROVE  Calls(a, c, H)
  BY DEF Calls, RowsKept

(* What a record settles stays settled as rows and LMDB grow.               *)
LEMMA SettlesKept ==
    ASSUME NEW a, NEW E, NEW H, RowsKept(E, H), NEW F, NEW G, F \subseteq G,
           a.pending \subseteq 1..Len(E), Settles(a, E, F)
    PROVE  Settles(a, H, G)
  BY DEF Settles, RowsKept, RowSlotFilled, Filled

(* Replays call the rows they fetched, and settle those they resolved.      *)
LEMMA StackReplay ==
    ASSUME IInv, ReplayInv, Next, NEW t \in Tasks, NEW j \in 1..Len(stack'[t])
    PROVE  /\ j < Len(stack'[t]) => Calls(stack'[t][j], stack'[t][j + 1], escrow')
           /\ j = Len(stack'[t]) => Settles(stack'[t][j], escrow', firstSeen')
  <1> DEFINE s == stack[t]
             u == stack'[t]
             n == Len(s)
  <1>0. RowsKept(escrow, escrow') /\ firstSeen \subseteq firstSeen'
    BY StoresGrow
  <1>1. n \in Nat /\ \A i \in 1..n : s[i] \in Activation /\ s[i].pending \subseteq 1..Len(escrow)
    <2>1. s \in Seq(Good(firstSeen, Rows))
      BY DEF IInv, StackOk
    <2>2. QED
      BY <2>1, LenProperties DEF Good, Rows
  <1>2. \A i \in 1..n : i < n => Calls(s[i], s[i + 1], escrow)
    BY DEF ReplayInv
  <1>3. \A i \in 1..n : i = n => Settles(s[i], escrow, firstSeen)
    BY DEF ReplayInv
  <1>4. CASE u = s
    <2>1. j < n => Calls(s[j], s[j + 1], escrow')
      BY <1>0, <1>1, <1>2, <1>4, CallsKept
    <2>2. j = n => Settles(s[j], escrow', firstSeen')
      BY <1>0, <1>1, <1>3, <1>4, SettlesKept
    <2>3. QED
      BY <1>4, <2>1, <2>2
  <1>5. CASE u = <<>>
    BY <1>5
  <1>6. CASE Begins(t)
    <2>1. PICK ev : u = <<Start(ev)>>
      BY <1>6 DEF Begins
    <2>2. j = 1 /\ Len(u) = 1 /\ u[j].pc = "watched"
      BY <2>1 DEF Start
    <2>3. QED
      BY <2>2 DEF Settles
  <1>7. CASE Moves(t)
    <2>1. /\ n \in Nat \ {0} /\ Len(u) = n /\ u[n].ev = s[n].ev /\ u[n].pc # "settle"
          /\ \A i \in 1..(n - 1) : u[i] = s[i]
      BY <1>7 DEF Moves, Same, Depth, Top
    <2>2. CASE j < n
      <3>1. j \in 1..n /\ j \in 1..(n - 1) /\ (j + 1 \in 1..(n - 1) \/ j + 1 = n)
        BY <2>1, <2>2
      <3>2. u[j] = s[j] /\ u[j + 1].ev = s[j + 1].ev
        BY <2>1, <3>1
      <3>3. Calls(s[j], s[j + 1], escrow) /\ s[j].pending \subseteq 1..Len(escrow)
        BY <1>1, <1>2, <2>2, <3>1
      <3>4. Calls(s[j], u[j + 1], escrow')
        BY <1>0, <3>2, <3>3, CallsKept
      <3>5. QED
        BY <2>1, <2>2, <3>2, <3>4
    <2>3. CASE j = n
      BY <2>1, <2>3 DEF Settles
    <2>4. QED
      BY <2>1, <2>2, <2>3
  <1>8. CASE Pushes(t)
    <2> DEFINE a == Top(t)
    <2>1. /\ n \in Nat \ {0} /\ Len(u) = n + 1 /\ u[n] = [a EXCEPT !.pc = "settle"]
          /\ \A i \in 1..(n - 1) : u[i] = s[i]
      BY <1>8 DEF Pushes, Same, Depth
    <2>2. PICK i \in a.pending : NextPending(a, i) /\ u[n + 1] = Start(Parse(escrow[i].ev.raw))
      BY <1>8 DEF Pushes, Depth
    <2>3. a = s[n] /\ a \in Activation /\ a.pending \subseteq 1..Len(escrow)
      BY <1>1, <2>1 DEF Top
    <2>4. u[n].ev = a.ev /\ u[n].pending = a.pending /\ u[n].pc = "settle"
      BY <2>1, <2>3 DEF Activation
    <2> HIDE DEF a
    <2>5. CASE j < n
      <3>1. j \in 1..n /\ j \in 1..(n - 1) /\ (j + 1 \in 1..(n - 1) \/ j + 1 = n)
        BY <2>1, <2>5
      <3>2. u[j] = s[j] /\ u[j + 1].ev = s[j + 1].ev
        BY <2>1, <2>3, <2>4, <3>1
      <3>3. Calls(s[j], s[j + 1], escrow) /\ s[j].pending \subseteq 1..Len(escrow)
        BY <1>1, <1>2, <2>5, <3>1
      <3>4. Calls(s[j], u[j + 1], escrow')
        BY <1>0, <3>2, <3>3, CallsKept
      <3>5. QED
        BY <2>1, <2>5, <3>2, <3>4
    <2>6. CASE j = n
      <3>1. NextPending(u[n], i) /\ i \in u[n].pending
        BY <2>2, <2>4 DEF NextPending
      <3>2. u[n + 1].ev = Parse(escrow[i].ev.raw)
        BY <2>2 DEF Start
      <3>3. Calls(u[n], u[n + 1], escrow)
        BY <2>4, <3>1, <3>2 DEF Calls
      <3>4. Calls(u[n], u[n + 1], escrow')
        BY <1>0, <2>3, <2>4, <3>3, CallsKept
      <3>5. QED
        BY <2>1, <2>6, <3>4
    <2>7. CASE j = n + 1
      BY <2>1, <2>2, <2>7 DEF Settles, Start
    <2>8. QED
      BY <2>1, <2>5, <2>6, <2>7
  <1>9. CASE Pops(t)
    <2>1. /\ n \in Nat \ {0, 1} /\ Len(u) = n - 1 /\ \A i \in 1..(n - 2) : u[i] = s[i]
      BY <1>9 DEF Pops, Same, Depth
    <2>2. PICK b \in BOOLEAN : /\ u[n - 1] = [s[n - 1] EXCEPT !.child = b]
                               /\ b => Filled(firstSeen, s[n].ev.raw.aid, s[n].ev.sn)
      BY <1>9 DEF Pops, Depth, Top
    <2>3. n - 1 \in 1..n /\ n - 1 + 1 = n /\ n - 1 < n /\ n \in 1..n
      BY <2>1
    <2>4. s[n - 1] \in Activation /\ s[n - 1].pending \subseteq 1..Len(escrow)
          /\ Calls(s[n - 1], s[n], escrow)
      BY <1>1, <1>2, <2>3
    <2>5. u[n - 1].ev = s[n - 1].ev /\ u[n - 1].pending = s[n - 1].pending
          /\ u[n - 1].child = b
      BY <2>2, <2>4 DEF Activation
    <2>6. CASE j < n - 1
      <3>1. j \in 1..n /\ j < n /\ j \in 1..(n - 2) /\ (j + 1 \in 1..(n - 2) \/ j + 1 = n - 1)
        BY <2>1, <2>6
      <3>2. u[j] = s[j] /\ u[j + 1].ev = s[j + 1].ev
        BY <2>1, <2>5, <3>1
      <3>3. Calls(s[j], s[j + 1], escrow) /\ s[j].pending \subseteq 1..Len(escrow)
        BY <1>1, <1>2, <3>1
      <3>4. Calls(s[j], u[j + 1], escrow')
        BY <1>0, <3>2, <3>3, CallsKept
      <3>5. QED
        BY <2>1, <2>6, <3>2, <3>4
    <2>7. CASE j = n - 1
      <3> DEFINE c == s[n - 1]
      <3>1. PICK i \in c.pending : NextPending(c, i) /\ s[n].ev = Parse(escrow[i].ev.raw)
        BY <2>4 DEF Calls
      <3>2. c.pending \subseteq Nat
        BY <2>4 DEF Activation
      <3>3. \A k \in c.pending : NextPending(c, k) => k = i
        BY <3>1, <3>2 DEF NextPending
      <3>4. b => RowSlotFilled(escrow, i, firstSeen)
        BY <2>2, <3>1 DEF RowSlotFilled
      <3>5. Settles(u[n - 1], escrow, firstSeen)
        BY <2>5, <3>3, <3>4 DEF Settles, NextPending
      <3>6. Settles(u[n - 1], escrow', firstSeen')
        BY <1>0, <2>4, <2>5, <3>5, SettlesKept
      <3>7. QED
        BY <2>1, <2>7, <3>6
    <2>8. QED
      BY <2>1, <2>6, <2>7
  <1>10. QED
    BY <1>4, <1>5, <1>6, <1>7, <1>8, <1>9, StacksShift DEF Shifts, Steps

ResolvedOk(E, F) ==
    \A i \in 1..Len(E) : E[i].state = "resolved" => RowSlotFilled(E, i, F)

(* A row is resolved only by the settling of its replay.                    *)
LEMMA ResolvedStep ==
    ASSUME IInv, ReplayInv, Next
    PROVE  ResolvedIsSeen'
  <1>0. /\ ResolvedIsSeen <=> ResolvedOk(escrow, firstSeen)
        /\ ResolvedIsSeen' <=> ResolvedOk(escrow', firstSeen')
    BY DEF ResolvedOk, ResolvedIsSeen, RowSlotFilled, Filled, At
  <1>1. RowsKept(escrow, escrow') /\ firstSeen \subseteq firstSeen' /\ ResolvedOk(escrow, firstSeen)
    BY <1>0, StoresGrow DEF ReplayInv
  <1>2. escrow \in Seq(EscrowRow) /\ Len(escrow) \in Nat
    BY RowsSame, LenProperties
  <1>3. ASSUME \A i \in 1..Len(escrow') : escrow'[i].state = "resolved" =>
                    i \in 1..Len(escrow) /\ (\/ escrow[i].state = "resolved"
                                             \/ RowSlotFilled(escrow, i, firstSeen))
        PROVE  ResolvedOk(escrow', firstSeen')
    BY <1>1, <1>3 DEF ResolvedOk, RowsKept, RowSlotFilled, Filled
  <1>4. ASSUME escrow' = escrow
        PROVE  ResolvedOk(escrow', firstSeen')
    BY <1>3, <1>4
  <1>5. ASSUME NEW t \in Tasks, EscrowEvent(t)
        PROVE  ResolvedOk(escrow', firstSeen')
    <2> DEFINE r == [ev |-> Top(t).ev, state |-> "pending"]
    <2>1. stack[t] # <<>> /\ escrow' = Append(escrow, r)
      BY <1>5 DEF EscrowEvent, Busy, AddToEscrow
    <2>2. r \in EscrowRow
      BY <2>1, TopGood DEF IInv, EscrowRow
    <2>3. /\ Len(escrow') = Len(escrow) + 1 /\ escrow'[Len(escrow) + 1] = r
          /\ \A i \in 1..Len(escrow) : escrow'[i] = escrow[i]
      BY <1>2, <2>1, <2>2, Push
    <2>4. \A i \in 1..Len(escrow') : i \in 1..Len(escrow) \/ i = Len(escrow) + 1
      BY <1>2, <2>3
    <2>5. QED
      BY <1>3, <2>3, <2>4
  <1>6. ASSUME NEW t \in Tasks, Settle(t)
        PROVE  ResolvedOk(escrow', firstSeen')
    <2> DEFINE a == Top(t)
    <2>1. stack[t] # <<>> /\ a.pc = "settle"
      BY <1>6 DEF Settle, Busy
    <2>2. PICK i \in a.pending : NextPending(a, i) /\ SettleRow(a, i)
      BY <1>6 DEF Settle
    <2>3. stack[t] \in Seq(Activation) /\ a.pending \subseteq 1..Len(escrow)
      BY <2>1, TopGood DEF IInv, TypeOK, Rows
    <2>4. Settles(a, escrow, firstSeen)
      BY <2>1, <2>3, LastRecord DEF ReplayInv, Top
    <2>5. CASE a.child /\ escrow' = [escrow EXCEPT ![i].state = "resolved"]
      <3>1. RowSlotFilled(escrow, i, firstSeen)
        BY <2>1, <2>2, <2>4, <2>5 DEF Settles
      <3>2. i \in 1..Len(escrow) /\ DOMAIN escrow = 1..Len(escrow)
        BY <1>2, <2>3, LenProperties
      <3>3. \A k \in 1..Len(escrow) : k # i => escrow'[k] = escrow[k]
        BY <2>5, <3>2
      <3>4. Len(escrow') = Len(escrow)
        BY <1>6, NextIInv, RowCount
      <3>5. QED
        BY <1>3, <3>1, <3>2, <3>3, <3>4
    <2>6. CASE UNCHANGED escrow
      BY <1>4, <2>6
    <2>7. QED
      BY <2>2, <2>5, <2>6 DEF SettleRow
  <1>7. ASSUME ExpireEscrow
        PROVE  ResolvedOk(escrow', firstSeen')
    <2>1. PICK k \in 1..Len(escrow) :
              escrow' = [i \in 1..Len(escrow) |->
                            IF i <= k /\ escrow[i].state = "pending"
                            THEN [escrow[i] EXCEPT !.state = "expired"]
                            ELSE escrow[i]]
      BY <1>7 DEF ExpireEscrow
    <2>2. \A i \in 1..Len(escrow) : escrow[i] \in EscrowRow
      BY <1>2, LenProperties
    <2>3. \A i \in 1..Len(escrow) : escrow'[i].state = "resolved" => escrow[i].state = "resolved"
      BY <2>1, <2>2 DEF EscrowRow
    <2>4. Len(escrow') = Len(escrow)
      BY <1>7, NextIInv, RowCount
    <2>5. QED
      BY <1>3, <2>3, <2>4
  <1>8. ASSUME NEW t \in Tasks, ProcessEvent(t)
        PROVE  ResolvedOk(escrow', firstSeen')
    BY <1>4, <1>5, <1>6, <1>8 DEF ProcessEvent, FailOnDbError, CheckWatched, Lookup, GetKel,
       RecordDuplicity, GetPrior, Judge, Record, FetchEscrow, Replay, FinishReplay, stores
  <1>9. ResolvedOk(escrow', firstSeen')
    BY <1>4, <1>7, <1>8 DEF Next, Submit, Request, Receive, TimeOut, Watch, Unwatch, Stop,
       PutSentinel, Restart, stores
  <1>10. QED
    BY <1>0, <1>9

(* The invariant is inductive.                                              *)
LEMMA ReplayInvStep == IInv /\ ReplayInv /\ [Next]_vars => ReplayInv'
  <1>1. IInv /\ ReplayInv /\ Next => ReplayInv'
    BY StackReplay, ResolvedStep DEF ReplayInv
  <1>2. ReplayInv /\ UNCHANGED vars => ReplayInv'
    BY DEF ReplayInv, ResolvedIsSeen, RowSlotFilled, At, Parse, vars, stores
  <1>3. QED
    BY <1>1, <1>2

(* An escrow row is resolved only when the slot of its event has been seen, *)
(* although the answer reaches the settling through a recursive call, whose *)
(* awaits let every other task in.                                          *)
THEOREM ResolutionIsSeen == Spec => []ResolvedIsSeen
  <1>1. Init => ReplayInv
    BY DEF Init, ReplayInv, ResolvedIsSeen
  <1>2. ReplayInv => ResolvedIsSeen
    BY DEF ReplayInv
  <1>3. QED
    BY <1>1, <1>2, ReplayInvStep, InvariantIInv, PTL DEF Spec

-----------------------------------------------------------------------------
(* The third invariant.                                                     *)

(* The records below the running one have put their events.                 *)
LEMMA BelowHavePut ==
    ASSUME IInv, ReplayInv, NEW t \in Tasks, NEW j \in 1..Len(stack[t]), j < Len(stack[t])
    PROVE  EntryOf(stack[t][j].ev) \in firstSeen
  <1>1. stack[t][j].pc = "settle"
    BY DEF ReplayInv, Calls
  <1>2. stack[t][j] \in Good(firstSeen, Rows)
    BY LenProperties DEF IInv, StackOk
  <1>3. QED
    BY <1>1, <1>2 DEF Good, RecordOk, Stored

(* No row is replayed twice on one stack, step by step.                     *)
LEMMA DistinctStep == IInv /\ ReplayInv /\ DistinctInv /\ [Next]_vars => DistinctInv'
  <1>1. ASSUME IInv, ReplayInv, DistinctInv, Next, NEW t \in Tasks, NEW j \in 1..Len(stack'[t]),
               stack'[t][j].pc \in Stored, NEW i \in 1..(j - 1)
        PROVE  Slot(stack'[t][i]) # Slot(stack'[t][j])
    <2>1. Len(stack[t]) \in Nat /\ Len(stack'[t]) \in Nat /\ j \in Nat
      <3>1. IInv'
        BY <1>1, NextIInv
      <3>2. QED
        BY <1>1, <3>1, LenProperties DEF IInv, TypeOK
    <2>2. i \in 1..Len(stack'[t]) /\ i < j
      BY <2>1
    <2>3. ~\E ev : stack'[t][j] = Start(ev)
      <3>1. \A ev : Start(ev).pc = "watched"
        BY DEF Start
      <3>2. stack'[t][j].pc # "watched"
        BY <1>1 DEF Stored
      <3>3. QED
        BY <3>1, <3>2, Zenon
    <2>4. ~Begins(t)
      <3>1. SUFFICES ASSUME Begins(t)
                     PROVE  FALSE
        OBVIOUS
      <3>2. PICK ev : stack'[t] = <<Start(ev)>>
        BY <3>1 DEF Begins
      <3>3. j = 1
        BY <3>2
      <3>4. QED
        BY <2>3, <3>2, <3>3
    <2>5. j \in 1..Len(stack[t]) /\ Carries(t, stack[t][j], stack'[t][j], j)
      BY <1>1, <2>3, <2>4, RecordsStay
    <2>6. stack'[t][i].ev = stack[t][i].ev /\ i \in 1..Len(stack[t])
      <3>1. i \in 1..Len(stack[t])
        BY <2>1, <2>5
      <3>2. CASE Carries(t, stack[t][i], stack'[t][i], i)
        BY <3>1, <3>2 DEF Carries
      <3>3. CASE \E k \in Rows : stack'[t][i] = Start(Parse(escrow[k].ev.raw))
        <4>1. IInv' /\ ReplayInv'
          BY <1>1, NextIInv, ReplayInvStep
        <4>2. stack'[t][i].pc = "settle"
          BY <2>2, <4>1 DEF ReplayInv, Calls
        <4>3. QED
          BY <3>3, <4>2 DEF Start
      <3>4. QED
        BY <1>1, <2>2, <2>4, <3>2, <3>3, <3>1, RecordsStay
    <2>7. CASE stack[t][j].pc \in Stored
      BY <1>1, <2>5, <2>6, <2>7 DEF DistinctInv, Carries, Slot
    <2>8. CASE j = Len(stack[t]) /\ Puts(stack[t][j].ev)
      <3>1. EntryOf(stack[t][i].ev) \in firstSeen
        BY <1>1, <2>2, <2>6, <2>8, BelowHavePut
      <3>2. ~(stack[t][i].ev.raw.aid = stack[t][j].ev.raw.aid /\ stack[t][i].ev.sn = stack[t][j].ev.sn)
        BY <2>8, <3>1 DEF Puts, At, EntryOf
      <3>3. QED
        BY <2>5, <2>6, <3>2 DEF Slot, Carries
    <2>9. QED
      BY <1>1, <2>5, <2>7, <2>8 DEF Carries
  <1>2. DistinctInv /\ UNCHANGED vars => DistinctInv'
    BY DEF DistinctInv, vars
  <1>3. QED
    BY <1>1, <1>2 DEF DistinctInv

(* The recursion of _process_event and _process_escrow_for_aid cannot go    *)
(* round in circles: the calls a task is in have put different slots.       *)
THEOREM ReplayIsFinite == Spec => []ReplayMakesProgress
  <1>1. Init => ReplayInv /\ DistinctInv
    BY DEF Init, ReplayInv, ResolvedIsSeen, DistinctInv
  <1>2. IInv /\ ReplayInv /\ DistinctInv => ReplayMakesProgress
    <2> SUFFICES ASSUME IInv, ReplayInv, DistinctInv, NEW t \in Tasks,
                        NEW j \in 1..(Len(stack[t]) - 1)
                 PROVE  /\ EntryOf(stack[t][j].ev) \in firstSeen
                        /\ \A i \in 1..(j - 1) : Slot(stack[t][i]) # Slot(stack[t][j])
      BY DEF ReplayMakesProgress
    <2>1. j \in 1..Len(stack[t]) /\ j < Len(stack[t])
      BY LenProperties DEF IInv, TypeOK
    <2>2. stack[t][j].pc \in Stored
      BY <2>1 DEF ReplayInv, Calls, Stored
    <2>3. QED
      BY <2>1, <2>2, BelowHavePut DEF DistinctInv
  <1>3. QED
    BY <1>1, <1>2, DistinctStep, ReplayInvStep, InvariantIInv, PTL DEF Spec

-----------------------------------------------------------------------------
(* The fourth invariant.                                                    *)

(* An AID that was ever put on the watch list stays in its table.           *)
LEMMA WatchedStays ==
    ASSUME IInv, Next, NEW aid \in Aids, watchedAids[aid] # "absent"
    PROVE  watchedAids'[aid] # "absent"
  <1>1. watchedAids \in [Aids -> {"absent", "enabled", "disabled"}]
    BY DEF IInv, TypeOK
  <1>2. ASSUME NEW other \in Aids, Watch(other) \/ Unwatch(other)
        PROVE  watchedAids'[aid] # "absent"
    BY <1>1, <1>2 DEF Watch, Unwatch
  <1>3. ASSUME NEW t \in Tasks, ProcessEvent(t)
        PROVE  watchedAids' = watchedAids
    BY <1>3 DEF ProcessEvent, FailOnDbError, CheckWatched, Lookup, GetKel, RecordDuplicity,
       GetPrior, Judge, EscrowEvent, Record, FetchEscrow, Replay, Settle, FinishReplay, stores
  <1>4. QED
    BY <1>2, <1>3 DEF Next, Submit, Request, Receive, TimeOut, ExpireEscrow, Stop, PutSentinel,
       Restart, stores

(* The event of a record is about an AID there is.                          *)
LEMMA RecordAid ==
    ASSUME IInv, NEW t \in Tasks, NEW j \in 1..Len(stack[t])
    PROVE  stack[t][j].ev.raw.aid \in Aids
  <1>1. stack[t][j] \in Activation
    BY LenProperties DEF IInv, TypeOK
  <1>2. QED
    BY <1>1, WatcherConstants DEF Activation, Event, Raw

(* A record past the watched check is of a listed AID.                      *)
LEMMA StackWatched ==
    ASSUME IInv, WatchedInv, Next, NEW t \in Tasks, NEW j \in 1..Len(stack'[t]),
           stack'[t][j].pc # "watched"
    PROVE  watchedAids'[stack'[t][j].ev.raw.aid] # "absent"
  <1>1. CASE j \in 1..Len(stack[t]) /\ Carries(t, stack[t][j], stack'[t][j], j)
    <2>1. watchedAids[stack[t][j].ev.raw.aid] # "absent"
      BY <1>1 DEF WatchedInv, Carries, IsWatched
    <2>2. QED
      BY <1>1, <2>1, RecordAid, WatchedStays DEF Carries
  <1>2. CASE Begins(t) /\ j = 1
    <2>1. PICK ev : stack'[t] = <<Start(ev)>>
      BY <1>2 DEF Begins
    <2>2. stack'[t][j].pc = "watched"
      BY <1>2, <2>1 DEF Start
    <2>3. QED
      BY <2>2
  <1>3. CASE \E i \in Rows : stack'[t][j] = Start(Parse(escrow[i].ev.raw))
    BY <1>3 DEF Start
  <1>4. QED
    BY <1>1, <1>2, <1>3, RecordsStay

(* So is all that such a record writes.                                     *)
LEMMA StoresWatched ==
    ASSUME IInv, WatchedInv, Next
    PROVE  OnlyWatched'
  <1> DEFINE Here(aid) == watchedAids'[aid] # "absent"
  <1>1. ASSUME NEW t \in Tasks, stack[t] # <<>>, Top(t).pc # "watched"
        PROVE  Here(Top(t).ev.raw.aid)
    <2>1. Len(stack[t]) \in 1..Len(stack[t])
      BY <1>1, LastRecord DEF IInv, TypeOK
    <2>2. QED
      BY <1>1, <2>1, RecordAid, WatchedStays DEF WatchedInv, Top
  <1>2. \A e \in firstSeen : Here(e.aid)
    <2>1. \A e \in firstSeen : e.aid \in Aids
      BY DEF IInv, TypeOK, Log
    <2>2. QED
      BY <2>1, WatchedStays DEF WatchedInv, OnlyWatched
  <1>3. \A d \in duplicityLog : Here(d.aid)
    <2>1. \A d \in duplicityLog : d.aid \in Aids
      BY DEF IInv, TypeOK
    <2>2. QED
      BY <2>1, WatchedStays DEF WatchedInv, OnlyWatched
  <1>4. \A i \in 1..Len(escrow) : escrow[i].ev.raw.aid \in Aids /\ Here(escrow[i].ev.raw.aid)
    <2> TAKE i \in 1..Len(escrow)
    <2>1. escrow[i] \in EscrowRow
      BY RowsSame, LenProperties
    <2>2. escrow[i].ev.raw.aid \in Aids
      BY <2>1, WatcherConstants DEF EscrowRow, Event, Raw
    <2>3. QED
      BY <2>2, WatchedStays DEF WatchedInv, OnlyWatched
  <1> HIDE DEF Here
  <1>5. \A e \in firstSeen' : Here(e.aid)
    <2>1. SUFFICES ASSUME firstSeen' # firstSeen
                   PROVE  \A e \in firstSeen' : Here(e.aid)
      BY <1>2
    <2>2. PICK t \in Tasks : /\ stack[t] # <<>> /\ PutFirstSeen(Top(t).ev)
                             /\ Lookup(t) \/ Judge(t)
      <3>1. PICK t \in Tasks : ProcessEvent(t)
        BY <2>1 DEF Next, Submit, Request, Receive, TimeOut, Watch, Unwatch, ExpireEscrow, Stop,
               PutSentinel, Restart, stores
      <3>2. Lookup(t) \/ Judge(t)
        BY <2>1, <3>1 DEF ProcessEvent, FailOnDbError, CheckWatched, GetKel, RecordDuplicity,
               GetPrior, EscrowEvent, Record, FetchEscrow, Replay, Settle, FinishReplay, stores
      <3>3. CASE Lookup(t)
        BY <2>1, <3>3, Zenon DEF Lookup, Busy
      <3>4. CASE Judge(t)
        BY <2>1, <3>4, Zenon DEF Judge, Busy
      <3>5. QED
        BY <3>2, <3>3, <3>4
    <2>3. Here(Top(t).ev.raw.aid)
      BY <1>1, <2>2 DEF Lookup, Judge, Busy
    <2>4. firstSeen' = firstSeen \cup {EntryOf(Top(t).ev)}
      BY <2>2 DEF PutFirstSeen
    <2>5. EntryOf(Top(t).ev).aid = Top(t).ev.raw.aid
      BY DEF EntryOf
    <2>6. QED
      BY <1>2, <2>3, <2>4, <2>5
  <1>6. \A d \in duplicityLog' : Here(d.aid)
    <2>1. CASE duplicityLog' = duplicityLog
      BY <1>3, <2>1
    <2>2. ASSUME NEW t \in Tasks, RecordDuplicity(t)
          PROVE  \A d \in duplicityLog' : Here(d.aid)
      <3>1. Here(Top(t).ev.raw.aid)
        BY <1>1, <2>2 DEF RecordDuplicity, Busy
      <3>2. duplicityLog' = duplicityLog \cup {DuplicityEntry(Top(t))}
        BY <2>2 DEF RecordDuplicity
      <3>3. DuplicityEntry(Top(t)).aid = Top(t).ev.raw.aid
        BY DEF DuplicityEntry
      <3>4. QED
        BY <1>3, <3>1, <3>2, <3>3
    <2>3. ASSUME NEW t \in Tasks, ProcessEvent(t)
          PROVE  duplicityLog' = duplicityLog \/ RecordDuplicity(t)
      BY <2>3 DEF ProcessEvent, FailOnDbError, CheckWatched, Lookup, GetKel,
         GetPrior, Judge, EscrowEvent, Record, FetchEscrow, Replay, Settle, FinishReplay, stores
    <2>4. QED
      BY <2>1, <2>2, <2>3 DEF Next, Submit, Request, Receive, TimeOut, Watch, Unwatch,
         ExpireEscrow, Stop, PutSentinel, Restart, stores
  <1>7. \A i \in 1..Len(escrow') : Here(escrow'[i].ev.raw.aid)
    <2>1. ASSUME NEW t \in Tasks, EscrowEvent(t)
          PROVE  \A i \in 1..Len(escrow') : Here(escrow'[i].ev.raw.aid)
      <3> DEFINE r == [ev |-> Top(t).ev, state |-> "pending"]
      <3>1. stack[t] # <<>> /\ Top(t).pc = "escrow" /\ escrow' = Append(escrow, r)
        BY <2>1 DEF EscrowEvent, Busy, AddToEscrow
      <3>2. r \in EscrowRow /\ escrow \in Seq(EscrowRow)
        BY <3>1, TopGood, RowsSame DEF IInv, EscrowRow
      <3>3. /\ Len(escrow') = Len(escrow) + 1 /\ escrow'[Len(escrow) + 1] = r
            /\ \A i \in 1..Len(escrow) : escrow'[i] = escrow[i]
        BY <3>1, <3>2, Push
      <3>4. \A i \in 1..Len(escrow') : i \in 1..Len(escrow) \/ i = Len(escrow) + 1
        BY <3>2, <3>3, LenProperties
      <3>5. Here(r.ev.raw.aid)
        BY <1>1, <3>1
      <3> HIDE DEF r
      <3>6. QED
        BY <1>4, <3>3, <3>4, <3>5
    <2>2. ASSUME Len(escrow') = Len(escrow)
          PROVE  \A i \in 1..Len(escrow') : Here(escrow'[i].ev.raw.aid)
      BY <1>4, <2>2, StoresGrow DEF RowsKept
    <2>3. ASSUME NEW t \in Tasks, ProcessEvent(t)
          PROVE  EscrowEvent(t) \/ Settle(t) \/ escrow' = escrow
      BY <2>3 DEF ProcessEvent, FailOnDbError, CheckWatched, Lookup, GetKel, RecordDuplicity,
         GetPrior, Judge, Record, FetchEscrow, Replay, FinishReplay, stores
    <2>4. ASSUME (\E t \in Tasks : Settle(t)) \/ ExpireEscrow
          PROVE  Len(escrow') = Len(escrow)
      BY <2>4, NextIInv, RowCount
    <2>5. QED
      BY <2>1, <2>2, <2>3, <2>4 DEF Next, Submit, Request, Receive, TimeOut, Watch, Unwatch,
         Stop, PutSentinel, Restart, stores
  <1>8. QED
    BY <1>5, <1>6, <1>7 DEF OnlyWatched, Here

(* The invariant is inductive.                                              *)
LEMMA WatchedStep == IInv /\ WatchedInv /\ [Next]_vars => WatchedInv'
  <1>1. IInv /\ WatchedInv /\ Next => WatchedInv'
    BY StackWatched, StoresWatched DEF WatchedInv
  <1>2. WatchedInv /\ UNCHANGED vars => WatchedInv'
    BY DEF WatchedInv, OnlyWatched, vars, stores
  <1>3. QED
    BY <1>1, <1>2

(* Only AIDs that were put on the watch list leave a trace in LMDB, the     *)
(* duplicity log and the escrow, although the request to POST /kel/{aid}    *)
(* may carry an event of any AID and the list changes while events are      *)
(* processed.                                                               *)
THEOREM TracesAreWatched == Spec => []OnlyWatched
  <1>1. Init => WatchedInv
    BY DEF Init, WatchedInv, OnlyWatched
  <1>2. WatchedInv => OnlyWatched
    BY DEF WatchedInv
  <1>3. QED
    BY <1>1, <1>2, WatchedStep, InvariantIInv, PTL DEF Spec

-----------------------------------------------------------------------------
(* The two stores without errors and restarts.                              *)

(* What LMDB holds and the table does not, a task is about to record.       *)
RecordingInv ==
    \A e \in firstSeen : \/ e \in kel
                         \/ \E t \in Tasks : Busy(t, "record") /\ e = EntryOf(Top(t).ev)

(* A task that is about to record can only record: nothing else is done in  *)
(* its place, unless the call fails or the process dies.                    *)
LEMMA RecordingStays ==
    ASSUME IInv, Next, ~DbErrors, MaxRestarts = 0, NEW t \in Tasks, Busy(t, "record")
    PROVE  Record(t) \/ stack'[t] = stack[t]
  <1>0. DOMAIN stack = Tasks /\ stack[t] # <<>> /\ Top(t).pc = "record" /\ restarts \in Nat
    BY DEF IInv, StackOk, TypeOK, Busy
  <1>1. ASSUME NEW u \in Tasks, ProcessEvent(u)
        PROVE  Record(t) \/ stack'[t] = stack[t]
    <2>1. CASE u = t
      BY <1>0, <1>1, <2>1 DEF ProcessEvent, FailOnDbError, CheckWatched, Lookup, GetKel,
         RecordDuplicity, GetPrior, Judge, EscrowEvent, FetchEscrow, Replay, Settle,
         FinishReplay, Busy
    <2>2. CASE u # t
      BY <1>1, <2>2, ProcessShifts DEF OthersStay
    <2>3. QED
      BY <2>1, <2>2
  <1>2. ASSUME NEW u \in Requests, NEW raw \in Raws, Request(u, raw)
        PROVE  stack'[t] = stack[t]
    BY <1>0, <1>2 DEF Request
  <1>3. ASSUME NEW w \in Workers, Receive(w) \/ TimeOut(w)
        PROVE  stack'[t] = stack[t]
    BY <1>0, <1>3 DEF Receive, TimeOut, Waiting
  <1>4. ~Restart
    BY <1>0 DEF Restart
  <1>5. QED
    BY <1>1, <1>2, <1>3, <1>4 DEF Next, Submit, Watch, Unwatch, ExpireEscrow, Stop, PutSentinel

(* A put leaves the task about to record.                                   *)
LEMMA PutsThenRecords ==
    ASSUME IInv, Next, firstSeen' # firstSeen
    PROVE  \E t \in Tasks : /\ firstSeen' = firstSeen \cup {EntryOf(Top(t).ev)}
                            /\ Busy(t, "record")' /\ Top(t).ev = Top(t)'.ev
                            /\ stack[t] # <<>> /\ Puts(Top(t).ev)
                            /\ Lookup(t) \/ Judge(t)
  <1>1. PICK t \in Tasks : ProcessEvent(t)
    BY DEF Next, Submit, Request, Receive, TimeOut, Watch, Unwatch, ExpireEscrow, Stop,
           PutSentinel, Restart, stores
  <1>2. Lookup(t) \/ Judge(t)
    BY <1>1 DEF ProcessEvent, FailOnDbError, CheckWatched, GetKel, RecordDuplicity, GetPrior,
           EscrowEvent, Record, FetchEscrow, Replay, Settle, FinishReplay, stores
  <1> DEFINE b == [Top(t) EXCEPT !.pc = "record"]
  <1>3. stack[t] # <<>> /\ Puts(Top(t).ev) /\ PutFirstSeen(Top(t).ev) /\ Goto(t, b)
        /\ Top(t).pc # "watched"
    <2>1. CASE Lookup(t)
      BY <2>1, Zenon DEF Lookup, Busy, Puts
    <2>2. CASE Judge(t)
      BY <2>2, Zenon DEF Judge, Busy
    <2>3. QED
      BY <1>2, <2>1, <2>2
  <1>4. b \in Activation /\ b.pc = "record" /\ b.ev = Top(t).ev
    BY <1>3, TopGood DEF IInv, Activation, PCs, Awaits
  <1> HIDE DEF b
  <1>5. Moves(t) /\ stack'[t][Depth(t)] = b
    BY <1>3, <1>4, GotoMoves DEF IInv
  <1>6. Len(stack'[t]) = Depth(t) /\ stack'[t] # <<>>
    BY <1>5 DEF Moves, Depth
  <1>7. Top(t)' = b
    BY <1>5, <1>6 DEF Top
  <1>8. Busy(t, "record")' /\ Top(t)'.ev = Top(t).ev
    BY <1>4, <1>6, <1>7 DEF Busy
  <1>9. QED
    BY <1>2, <1>3, <1>8 DEF PutFirstSeen

(* What is in LMDB only is in the hands of a task at "record".              *)
LEMMA RecordingStep ==
    ASSUME IInv, RecordingInv, [Next]_vars, ~DbErrors, MaxRestarts = 0
    PROVE  RecordingInv'
  <1>1. ASSUME Next, NEW e \in firstSeen, e \notin kel'
        PROVE  \E t \in Tasks : Busy(t, "record")' /\ e = EntryOf(Top(t)'.ev)
    <2>1. kel \subseteq kel'
      <3>1. ASSUME NEW t \in Tasks, ProcessEvent(t)
            PROVE  kel \subseteq kel'
        BY <3>1 DEF ProcessEvent, FailOnDbError, CheckWatched, Lookup, GetKel, RecordDuplicity,
           GetPrior, Judge, EscrowEvent, Record, RecordFirstSeen, FetchEscrow, Replay, Settle,
           FinishReplay, stores
      <3>2. QED
        BY <1>1, <3>1 DEF Next, Submit, Request, Receive, TimeOut, Watch, Unwatch, ExpireEscrow,
           Stop, PutSentinel, Restart, stores
    <2>2. PICK t \in Tasks : Busy(t, "record") /\ e = EntryOf(Top(t).ev)
      BY <1>1, <2>1 DEF RecordingInv
    <2>3. ~Record(t)
      BY <1>1, <2>2 DEF Record, RecordFirstSeen
    <2>4. stack'[t] = stack[t]
      BY <1>1, <2>2, <2>3, RecordingStays
    <2>5. QED
      BY <2>2, <2>4 DEF Busy, Top
  <1>2. CASE Next /\ firstSeen' = firstSeen
    BY <1>1, <1>2 DEF RecordingInv
  <1>3. CASE Next /\ firstSeen' # firstSeen
    <2>1. PICK t \in Tasks : /\ firstSeen' = firstSeen \cup {EntryOf(Top(t).ev)}
                             /\ Busy(t, "record")' /\ Top(t).ev = Top(t)'.ev
      BY <1>3, PutsThenRecords
    <2>2. \A e \in firstSeen' : e \in firstSeen \/ e = EntryOf(Top(t)'.ev)
      BY <2>1
    <2>3. QED
      BY <1>1, <1>3, <2>1, <2>2 DEF RecordingInv
  <1>4. CASE UNCHANGED vars
    BY <1>4 DEF vars, stores, RecordingInv, Busy, Top
  <1>5. QED
    BY <1>2, <1>3, <1>4

(* As long as no database call fails and the process does not die, the log  *)
(* clients read and LMDB differ by what some task is about to record.       *)
THEOREM LmdbIsSoonRecorded ==
    ASSUME ~DbErrors, MaxRestarts = 0
    PROVE  Spec => []LmdbIsRecorded
  <1>1. Init => RecordingInv
    BY DEF Init, RecordingInv
  <1>2. IInv /\ RecordingInv => LmdbIsRecorded
    <2> SUFFICES ASSUME IInv, RecordingInv
                 PROVE  LmdbIsRecorded
      OBVIOUS
    <2>1. firstSeen \subseteq kel \cup Recording
      BY DEF RecordingInv, Recording
    <2>2. kel \subseteq firstSeen
      BY RowsSame
    <2>3. \A t \in Tasks : Busy(t, "record") => EntryOf(Top(t).ev) \in firstSeen
      BY TopGood DEF IInv, Busy, RecordOk, Stored
    <2>4. QED
      BY <2>1, <2>2, <2>3 DEF LmdbIsRecorded, Recording
  <1>3. IInv /\ RecordingInv /\ [Next]_vars => RecordingInv'
    BY RecordingStep
  <1>4. QED
    BY <1>1, <1>2, <1>3, InvariantIInv, PTL DEF Spec

-----------------------------------------------------------------------------
(* What the escrow forgets.                                                 *)

StorableIn(ev, W, F) ==
    /\ FieldsOk(ev) /\ ev.raw.ilk # "rot" /\ ev.sn > 0
    /\ W[ev.raw.aid] = "enabled"
    /\ ~Filled(F, ev.raw.aid, ev.sn) /\ Filled(F, ev.raw.aid, ev.sn - 1)

(* A pending row whose event could be stored now.                           *)
Ripe(E, i, W, F) ==
    i \in 1..Len(E) /\ E[i].state = "pending" /\ StorableIn(Parse(E[i].ev.raw), W, F)

(* The record that stored the prior will come to the row.                   *)
Covers(a, E, i) ==
    /\ a.ev.raw.aid = E[i].ev.raw.aid
    /\ a.ev.sn + 1 = Parse(E[i].ev.raw).sn
    /\ \/ a.pc \in {"record", "fetch_escrow"}
       \/ a.pc \in {"replay", "settle"} /\ i \in a.pending

RipeAreCovered ==
    Len(escrow) <= EscrowLimit =>
        \A i \in 1..Len(escrow) : Ripe(escrow, i, watchedAids, firstSeen) =>
            \E t \in Tasks : \E j \in 1..Len(stack[t]) : Covers(stack[t][j], escrow, i)

(* When a replay has returned, its row is not one that could be stored.     *)
SettledUnripe ==
    \A t \in Tasks : Busy(t, "settle") =>
        \A i \in Top(t).pending :
            NextPending(Top(t), i) => ~Ripe(escrow, i, watchedAids, firstSeen)

EscrowedAhead ==
    \A t \in Tasks : Busy(t, "escrow") =>
        ~Filled(firstSeen, Top(t).ev.raw.aid, Top(t).ev.sn - 1)

RowsAsSent ==
    /\ \A i \in 1..Len(escrow) : AsSent(escrow[i].ev)
    /\ \A aid \in Aids : watchedAids[aid] # "disabled"

ForgetInv == RipeAreCovered /\ SettledUnripe /\ EscrowedAhead /\ RowsAsSent

(* Storable, of any stores.                                                 *)
LEMMA StorableForm ==
    ASSUME NEW ev
    PROVE  Storable(ev) <=> StorableIn(ev, watchedAids, firstSeen)
  BY DEF Storable, StorableIn, Puts, At, Filled

(* With steady databases, a step of a task either goes on or leaves its     *)
(* event one that could not be stored (or stored again).                    *)
LEMMA Outcomes ==
    ASSUME IInv, EscrowedAhead, ~DbErrors, NEW t \in Tasks, ProcessEvent(t)
    PROVE  \/ \E b : Goto(t, b)
           \/ Replay(t)
           \/ UNCHANGED <<watchedAids, firstSeen>> /\ ~StorableIn(Top(t).ev, watchedAids, firstSeen)
  <1> DEFINE a == Top(t)
             Unstorable == UNCHANGED <<watchedAids, firstSeen>>
                           /\ ~StorableIn(a.ev, watchedAids, firstSeen)
  <1>1. stack[t] # <<>>
    BY DEF ProcessEvent, FailOnDbError, CheckWatched, Lookup, GetKel, RecordDuplicity, GetPrior,
           Judge, EscrowEvent, Record, FetchEscrow, Replay, Settle, FinishReplay, Busy
  <1>2. RecordOk(a, firstSeen) /\ a.ev.sn \in Int
    BY <1>1, TopGood DEF IInv, Event
  <1>3. CASE CheckWatched(t)
    BY <1>3 DEF CheckWatched, IsWatched, StorableIn, stores
  <1>4. CASE Lookup(t)
    <2>1. \/ \E b : Goto(t, b)
          \/ /\ a.ev.sn < 0 \/ ~FieldsOk(a.ev) \/ At(firstSeen, a.ev.raw.aid, a.ev.sn) # {}
             /\ UNCHANGED <<watchedAids, firstSeen>>
      BY <1>4, Zenon DEF Lookup
    <2>2. \/ a.ev.sn < 0 \/ ~FieldsOk(a.ev)
          \/ At(firstSeen, a.ev.raw.aid, a.ev.sn) # {}
          => ~StorableIn(a.ev, watchedAids, firstSeen)
      BY <1>2 DEF StorableIn, At, Filled
    <2>3. QED
      BY <2>1, <2>2
  <1>5. CASE GetKel(t)
    BY <1>5, Zenon DEF GetKel
  <1>6. CASE RecordDuplicity(t)
    <2>1. Known(a.ev, a.existing) \in firstSeen
      BY <1>2, <1>6 DEF RecordDuplicity, Busy, RecordOk
    <2>2. Filled(firstSeen, a.ev.raw.aid, a.ev.sn)
      BY <2>1 DEF Filled, Known
    <2>3. QED
      BY <1>6, <2>2 DEF RecordDuplicity, StorableIn
  <1>7. CASE GetPrior(t)
    BY <1>7, Zenon DEF GetPrior
  <1>8. CASE Judge(t)
    <2>1. \/ \E b : Goto(t, b)
          \/ (a.ev.raw.ilk = "rot" \/ ~Puts(a.ev)) /\ UNCHANGED <<watchedAids, firstSeen>>
      BY <1>8, Zenon DEF Judge
    <2>2. a.ev.raw.ilk = "rot" \/ ~Puts(a.ev) => ~StorableIn(a.ev, watchedAids, firstSeen)
      BY DEF StorableIn, Puts, At, Filled
    <2>3. QED
      BY <2>1, <2>2
  <1>9. CASE EscrowEvent(t)
    <2>1. ~Filled(firstSeen, a.ev.raw.aid, a.ev.sn - 1)
      BY <1>9 DEF EscrowEvent, EscrowedAhead
    <2>2. QED
      BY <1>9, <2>1 DEF EscrowEvent, StorableIn
  <1>10. CASE Record(t)
    BY <1>10, Zenon DEF Record
  <1>11. CASE FetchEscrow(t)
    BY <1>11, Zenon DEF FetchEscrow
  <1>12. CASE Settle(t)
    BY <1>12, Zenon DEF Settle
  <1>13. CASE FinishReplay(t)
    <2>1. EntryOf(a.ev) \in firstSeen
      BY <1>2, <1>13 DEF FinishReplay, Busy, RecordOk, Stored
    <2>2. Filled(firstSeen, a.ev.raw.aid, a.ev.sn)
      BY <2>1 DEF Filled, EntryOf
    <2>3. QED
      BY <1>13, <2>2 DEF FinishReplay, StorableIn, stores
  <1>14. ~FailOnDbError(t)
    BY DEF FailOnDbError
  <1>15. QED
    BY <1>3, <1>4, <1>5, <1>6, <1>7, <1>8, <1>9, <1>10, <1>11, <1>12, <1>13, <1>14
       DEF ProcessEvent

(* A row after a step is one before it, which was pending if it is now, or  *)
(* that of an event that is escrowed.                                       *)
LEMMA RowsStep ==
    ASSUME IInv, Next, NEW i \in 1..Len(escrow')
    PROVE  \/ /\ i \in 1..Len(escrow) /\ escrow'[i].ev = escrow[i].ev
              /\ escrow'[i].state = "pending" => escrow[i].state = "pending"
           \/ \E t \in Tasks : EscrowEvent(t) /\ escrow'[i].ev = Top(t).ev
  <1> DEFINE Kept == /\ i \in 1..Len(escrow) /\ escrow'[i].ev = escrow[i].ev
                     /\ escrow'[i].state = "pending" => escrow[i].state = "pending"
  <1>1. escrow \in Seq(EscrowRow) /\ Len(escrow) \in Nat /\ DOMAIN escrow = 1..Len(escrow)
        /\ \A k \in 1..Len(escrow) : escrow[k] \in EscrowRow
    BY RowsSame, LenProperties
  <1>2. ASSUME escrow' = escrow
        PROVE  Kept
    BY <1>2
  <1>3. ASSUME NEW t \in Tasks, EscrowEvent(t)
        PROVE  Kept \/ escrow'[i].ev = Top(t).ev
    <2> DEFINE r == [ev |-> Top(t).ev, state |-> "pending"]
    <2>1. stack[t] # <<>> /\ escrow' = Append(escrow, r)
      BY <1>3 DEF EscrowEvent, Busy, AddToEscrow
    <2>2. r \in EscrowRow
      BY <2>1, TopGood DEF IInv, EscrowRow
    <2>3. /\ Len(escrow') = Len(escrow) + 1 /\ escrow'[Len(escrow) + 1] = r
          /\ \A k \in 1..Len(escrow) : escrow'[k] = escrow[k]
      BY <1>1, <2>1, <2>2, Push
    <2>4. i \in 1..Len(escrow) \/ i = Len(escrow) + 1
      BY <1>1, <2>3
    <2>5. QED
      BY <2>3, <2>4
  <1>4. ASSUME NEW t \in Tasks, Settle(t)
        PROVE  Kept
    <2>1. PICK k : escrow' \in {escrow, [escrow EXCEPT ![k].state = "resolved"]}
      BY <1>4 DEF Settle, SettleRow
    <2>2. i \in 1..Len(escrow)
      BY <1>4, NextIInv, RowCount
    <2>3. escrow'[i] \in {escrow[i], [escrow[i] EXCEPT !.state = "resolved"]}
      BY <1>1, <2>1, <2>2
    <2>4. QED
      BY <1>1, <2>2, <2>3 DEF EscrowRow
  <1>5. ASSUME ExpireEscrow
        PROVE  Kept
    <2>1. i \in 1..Len(escrow)
      BY <1>5, NextIInv, RowCount
    <2>2. escrow'[i] \in {escrow[i], [escrow[i] EXCEPT !.state = "expired"]}
      BY <1>5, <2>1 DEF ExpireEscrow
    <2>3. QED
      BY <1>1, <2>1, <2>2 DEF EscrowRow
  <1>6. ASSUME NEW t \in Tasks, ProcessEvent(t)
        PROVE  EscrowEvent(t) \/ Settle(t) \/ escrow' = escrow
    BY <1>6 DEF ProcessEvent, FailOnDbError, CheckWatched, Lookup, GetKel, RecordDuplicity,
       GetPrior, Judge, Record, FetchEscrow, Replay, FinishReplay, stores
  <1>7. \/ escrow' = escrow \/ ExpireEscrow
        \/ \E t \in Tasks : EscrowEvent(t) \/ Settle(t)
    BY <1>6 DEF Next, Submit, Request, Receive, TimeOut, Watch, Unwatch, Stop, PutSentinel,
       Restart, stores
  <1>8. QED
    BY <1>2, <1>3, <1>4, <1>5, <1>7

(* With one task, no errors, no restart and a list nothing is taken off,    *)
(* and events that carry the name the poller reads if they carry the one    *)
(* the replay reads.                                                        *)
Steady ==
    /\ \A t, u \in Tasks : t = u
    /\ ~DbErrors /\ ~Unwatching /\ MaxRestarts = 0
    /\ \A raw \in Raws : "s" \in raw.keys => "sn" \in raw.keys

(* A row that could not be stored before a step can only be after a put.    *)
LEMMA RipeBack ==
    ASSUME IInv, WatchedInv, RowsAsSent, Next, firstSeen' = firstSeen,
           NEW i \in 1..Len(escrow), Ripe(escrow', i, watchedAids', firstSeen')
    PROVE  Ripe(escrow, i, watchedAids, firstSeen)
  <1>1. escrow[i] \in EscrowRow
    BY RowsSame, LenProperties
  <1>2. escrow[i].ev.raw.aid \in Aids /\ escrow[i].ev \in Event
    BY <1>1, WatcherConstants DEF EscrowRow, Event, Raw
  <1>3. watchedAids[escrow[i].ev.raw.aid] = "enabled"
    BY <1>2 DEF IInv, TypeOK, WatchedInv, OnlyWatched, RowsAsSent
  <1>4. i \in 1..Len(escrow') /\ escrow'[i].ev = escrow[i].ev
    BY StoresGrow DEF RowsKept
  <1>5. escrow[i].state = "pending"
    <2>1. CASE escrow'[i].state = "pending" => escrow[i].state = "pending"
      BY <2>1 DEF Ripe
    <2>2. ASSUME NEW t \in Tasks, EscrowEvent(t)
          PROVE  escrow[i].state = "pending"
      <3> DEFINE r == [ev |-> Top(t).ev, state |-> "pending"]
      <3>1. stack[t] # <<>> /\ escrow' = Append(escrow, r) /\ escrow \in Seq(EscrowRow)
        BY <2>2, RowsSame DEF EscrowEvent, Busy, AddToEscrow
      <3>2. r \in EscrowRow
        BY <3>1, TopGood DEF IInv, EscrowRow
      <3>3. escrow'[i] = escrow[i]
        BY <3>1, <3>2, Push
      <3>4. QED
        BY <3>3 DEF Ripe
    <2>3. QED
      BY <1>4, <2>1, <2>2, RowsStep
  <1>6. Parse(escrow[i].ev.raw).raw.aid = escrow[i].ev.raw.aid
    BY DEF Parse
  <1>7. QED
    BY <1>3, <1>4, <1>5, <1>6 DEF Ripe, StorableIn

(* What a step that no task takes does to the stack of the single one.      *)
LEMMA OutsideStep ==
    ASSUME IInv, Next, Steady, NEW t \in Tasks, ~ProcessEvent(t)
    PROVE  /\ firstSeen' = firstSeen
           /\ stack'[t] = stack[t] \/ (stack[t] = <<>> /\ Begins(t))
  <1>1. \A u \in Tasks : ~ProcessEvent(u)
    BY DEF Steady
  <1>2. firstSeen' = firstSeen
    BY <1>1, PutsThenRecords DEF ProcessEvent
  <1>3. ~Restart
    BY DEF Steady, Restart, IInv, TypeOK
  <1>4. stack[t] # <<>> => stack'[t] = stack[t]
    <2>1. ASSUME NEW u \in Requests, NEW raw \in Raws, Request(u, raw)
          PROVE  stack[t] = <<>>
      <3>1. u = t
        <4>1. u \in Tasks
          BY DEF Tasks
        <4>2. QED
          BY <4>1 DEF Steady
      <3>2. QED
        BY <2>1, <3>1 DEF Request
    <2>2. ASSUME NEW w \in Workers, Receive(w)
          PROVE  stack[t] = <<>>
      <3>1. w = t
        <4>1. w \in Tasks
          BY DEF Tasks
        <4>2. QED
          BY <4>1 DEF Steady
      <3>2. QED
        BY <2>2, <3>1 DEF Receive, Waiting
    <2>3. QED
      BY <1>1, <1>3, <2>1, <2>2 DEF Next, Submit, TimeOut, Watch, Unwatch, ExpireEscrow,
         Stop, PutSentinel
  <1>5. stack[t] = <<>> => stack'[t] = stack[t] \/ Begins(t)
    BY StacksShift DEF Shifts, Steps, Moves, Pushes, Pops, Depth
  <1>6. QED
    BY <1>2, <1>4, <1>5

(* A task that begins is at the watched check.                              *)
LEMMA BeginsFresh ==
    ASSUME NEW t \in Tasks, Begins(t)
    PROVE  stack'[t] # <<>> /\ Top(t)'.pc = "watched" /\ Top(t)'.pending = {}
  <1>1. PICK ev : stack'[t] = <<Start(ev)>>
    BY DEF Begins
  <1>2. Top(t)' = Start(ev)
    BY <1>1 DEF Top
  <1>3. QED
    BY <1>1, <1>2 DEF Start

(* So is a record that is pushed.                                           *)
LEMMA PushesFresh ==
    ASSUME NEW t \in Tasks, Pushes(t)
    PROVE  Top(t)'.pc = "watched"
  BY DEF Pushes, Top, Start, Depth

(* The record that a return uncovers.                                       *)
LEMMA PopsUncover ==
    ASSUME IInv, ReplayInv, NEW t \in Tasks, Pops(t)
    PROVE  LET c == stack[t][Depth(t) - 1]
           IN  /\ c \in Activation /\ c.pc = "settle" /\ Calls(c, Top(t), escrow)
               /\ Top(t)'.pc = c.pc /\ Top(t)'.pending = c.pending /\ Top(t)'.ev = c.ev
  <1> DEFINE n == Depth(t)
             c == stack[t][n - 1]
  <1>1. n \in Nat \ {0, 1} /\ Len(stack'[t]) = n - 1
        /\ \E b \in BOOLEAN : stack'[t][n - 1] = [c EXCEPT !.child = b]
    BY DEF Pops
  <1>2. n - 1 \in 1..Len(stack[t]) /\ n - 1 < Len(stack[t]) /\ n - 1 + 1 = n
    <2>1. \A m \in Nat \ {0, 1} : m - 1 \in 1..m /\ m - 1 < m /\ m - 1 + 1 = m
      OBVIOUS
    <2>2. QED
      BY <1>1, <2>1, Zenon DEF Depth
  <1>3. Calls(c, Top(t), escrow)
    BY <1>2 DEF ReplayInv, Top, Depth
  <1>4. c \in Activation
    BY <1>2, LenProperties DEF IInv, TypeOK
  <1>5. Top(t)' = stack'[t][n - 1]
    BY <1>1 DEF Top
  <1>6. QED
    BY <1>1, <1>3, <1>4, <1>5 DEF Calls, Activation

(* A row about to be settled could no longer be stored.                     *)
LEMMA SettledUnripeStep ==
    ASSUME IInv, ReplayInv, WatchedInv, ForgetInv, Next, Steady
    PROVE  SettledUnripe'
  <1> SUFFICES ASSUME NEW t \in Tasks, stack'[t] # <<>>, Top(t)'.pc = "settle",
                      NEW i \in Top(t)'.pending, NextPending(Top(t)', i),
                      Ripe(escrow', i, watchedAids', firstSeen')
               PROVE  FALSE
    BY DEF SettledUnripe, Busy
  <1>1. CASE ~ProcessEvent(t)
    <2>1. firstSeen' = firstSeen /\ stack'[t] = stack[t]
      BY <1>1, OutsideStep, BeginsFresh
    <2>2. Top(t)' = Top(t) /\ Busy(t, "settle")
      BY <2>1 DEF Top, Busy
    <2>3. i \in 1..Len(escrow)
      BY <2>2, TopGood DEF IInv, Busy, Rows
    <2>4. Ripe(escrow, i, watchedAids, firstSeen)
      BY <2>1, <2>3, RipeBack DEF ForgetInv
    <2>5. QED
      BY <2>2, <2>4 DEF ForgetInv, SettledUnripe
  <1>2. CASE ProcessEvent(t)
    <2>1. stack[t] # <<>> /\ Steps(t)
      BY <1>2, ProcessShifts
    <2>2. ~Moves(t)
      BY DEF Moves, Top, Depth
    <2>3. Pops(t)
      BY <2>1, <2>2, PushesFresh DEF Steps
    <2> DEFINE c == stack[t][Depth(t) - 1]
    <2>4. c \in Activation /\ Calls(c, Top(t), escrow) /\ i \in c.pending /\ NextPending(c, i)
      BY <2>3, PopsUncover DEF NextPending
    <2>5. PICK k \in c.pending : NextPending(c, k) /\ Top(t).ev = Parse(escrow[k].ev.raw)
      BY <2>4 DEF Calls
    <2>6. k = i
      BY <2>4, <2>5 DEF NextPending, Activation
    <2>7. ~\E b : Goto(t, b)
      BY <2>1, <2>3, GotoTop DEF Pops, IInv
    <2>8. ~Replay(t)
      <3>1. Len(stack'[t]) = Depth(t) - 1 /\ Depth(t) \in Nat
        BY <2>3 DEF Pops
      <3>2. Replay(t) => Len(stack'[t]) = Depth(t) + 1
        BY <2>1, ReplayPushes DEF Pushes, IInv
      <3>3. \A m \in Nat : m - 1 # m + 1
        OBVIOUS
      <3>4. QED
        BY <3>1, <3>2, <3>3, Zenon
    <2>9. UNCHANGED <<watchedAids, firstSeen>>
          /\ ~StorableIn(Top(t).ev, watchedAids, firstSeen)
      BY <1>2, <2>7, <2>8, Outcomes DEF ForgetInv, Steady
    <2>10. i \in 1..Len(escrow)
      <3>1. Depth(t) - 1 \in 1..Len(stack[t])
        BY <2>3 DEF Pops, Depth
      <3>2. c \in Good(firstSeen, Rows)
        BY <3>1, LenProperties DEF IInv, StackOk
      <3>3. QED
        BY <2>4, <3>2 DEF Good, Rows
    <2>11. escrow'[i].ev = escrow[i].ev
      BY <2>10, StoresGrow DEF RowsKept
    <2>12. QED
      BY <2>5, <2>6, <2>9, <2>11 DEF Ripe
  <1>3. QED
    BY <1>1, <1>2

(* What is about to be escrowed has no event below it.                      *)
LEMMA EscrowedAheadStep ==
    ASSUME IInv, ReplayInv, ForgetInv, Next, Steady
    PROVE  EscrowedAhead'
  <1> SUFFICES ASSUME NEW t \in Tasks, Busy(t, "escrow")'
               PROVE  ~Filled(firstSeen', Top(t)'.ev.raw.aid, Top(t)'.ev.sn - 1)
    BY DEF EscrowedAhead
  <1>0. stack'[t] # <<>> /\ Top(t)'.pc = "escrow"
    BY DEF Busy
  <1>1. firstSeen' = firstSeen
    <2>1. SUFFICES ASSUME firstSeen' # firstSeen
                   PROVE  FALSE
      OBVIOUS
    <2>2. PICK u \in Tasks : Busy(u, "record")'
      BY <2>1, PutsThenRecords
    <2>3. u = t
      BY DEF Steady
    <2>4. QED
      BY <1>0, <2>2, <2>3 DEF Busy
  <1>2. CASE ~ProcessEvent(t)
    <2>1. stack'[t] = stack[t]
      BY <1>0, <1>2, OutsideStep, BeginsFresh
    <2>2. Top(t)' = Top(t) /\ Busy(t, "escrow")
      BY <1>0, <2>1 DEF Top, Busy
    <2>3. QED
      BY <1>1, <2>2 DEF ForgetInv, EscrowedAhead
  <1>3. CASE ProcessEvent(t)
    <2>1. stack[t] # <<>> /\ Steps(t)
      BY <1>3, ProcessShifts
    <2>2. Moves(t)
      BY <1>0, <2>1, PushesFresh, PopsUncover DEF Steps
    <2>3. ~PriorKnown(Top(t)) /\ Top(t)'.ev = Top(t).ev
      BY <1>0, <2>2 DEF Moves, Top, Depth
    <2>4. QED
      BY <1>1, <2>3 DEF PriorKnown, At, Filled
  <1>4. QED
    BY <1>2, <1>3

(* The rows hold events as they were sent.                                  *)
LEMMA RowsAsSentStep ==
    ASSUME IInv, SentInv, ForgetInv, Next, Steady
    PROVE  RowsAsSent'
  <1>1. ASSUME NEW i \in 1..Len(escrow')
        PROVE  AsSent(escrow'[i].ev)
    <2>1. CASE i \in 1..Len(escrow) /\ escrow'[i].ev = escrow[i].ev
      BY <2>1 DEF ForgetInv, RowsAsSent
    <2>2. CASE \E t \in Tasks : EscrowEvent(t) /\ escrow'[i].ev = Top(t).ev
      <3>1. PICK t \in Tasks : EscrowEvent(t) /\ escrow'[i].ev = Top(t).ev
        BY <2>2
      <3>2. stack[t] \in Seq(Activation) /\ stack[t] # <<>>
        BY <3>1 DEF EscrowEvent, Busy, IInv, TypeOK
      <3>3. QED
        BY <3>1, <3>2, LastRecord DEF SentInv, Top
    <2>3. QED
      BY <2>1, <2>2, RowsStep
  <1>2. ASSUME NEW aid \in Aids
        PROVE  watchedAids'[aid] # "disabled"
    <2>1. ASSUME NEW t \in Tasks, ProcessEvent(t)
          PROVE  watchedAids' = watchedAids
      BY <2>1 DEF ProcessEvent, FailOnDbError, CheckWatched, Lookup, GetKel, RecordDuplicity,
         GetPrior, Judge, EscrowEvent, Record, FetchEscrow, Replay, Settle, FinishReplay, stores
    <2>2. ASSUME NEW other \in Aids, Watch(other) \/ Unwatch(other)
          PROVE  watchedAids'[aid] # "disabled"
      BY <2>2 DEF Watch, Unwatch, Steady, ForgetInv, RowsAsSent, IInv, TypeOK
    <2>3. watchedAids[aid] # "disabled"
      BY DEF ForgetInv, RowsAsSent
    <2>4. QED
      BY <2>1, <2>2, <2>3 DEF Next, Submit, Request, Receive, TimeOut, ExpireEscrow, Stop,
         PutSentinel, Restart, stores
  <1>3. QED
    BY <1>1, <1>2 DEF RowsAsSent

-----------------------------------------------------------------------------
(* A row that could be stored is not dropped before it is replayed.         *)

(* A pending row of the AID is among those fetched, if all rows fit.        *)
LEMMA RowIsFetched ==
    ASSUME IInv, Len(escrow) <= EscrowLimit, NEW i \in 1..Len(escrow),
           escrow[i].state = "pending"
    PROVE  i \in PendingEscrow(escrow[i].ev.raw.aid)
  <1> DEFINE aid == escrow[i].ev.raw.aid
             ids == {k \in 1..Len(escrow) : escrow[k].state = "pending" /\ escrow[k].ev.raw.aid = aid}
             older == {k \in ids : k < i}
  <1>1. Len(escrow) \in Nat
    BY RowsSame, LenProperties
  <1>2. i \in ids
    OBVIOUS
  <1>3. Cardinality(older) < EscrowLimit
    <2>1. older \in SUBSET (1..(i - 1)) /\ i \in Nat \ {0}
      BY <1>1
    <2>2. IsFiniteSet(1..(i - 1)) /\ Cardinality(1..(i - 1)) = i - 1
      <3>1. /\ IsFiniteSet(1..(i - 1))
            /\ Cardinality(1..(i - 1)) = IF 1 > i - 1 THEN 0 ELSE i - 1 - 1 + 1
        <4>1. 1 \in Int /\ i - 1 \in Int
          BY <2>1
        <4>2. QED
          BY <4>1, FS_Interval
      <3>2. QED
        BY <2>1, <3>1
    <2> HIDE DEF older
    <2>3. Cardinality(older) <= i - 1 /\ IsFiniteSet(older)
      BY <2>1, <2>2, FS_Subset
    <2>4. Cardinality(older) \in Nat
      BY <2>3, FS_CardinalityType
    <2>5. QED
      BY <1>1, <2>1, <2>3, <2>4, WatcherConstants
  <1>4. QED
    BY <1>2, <1>3 DEF PendingEscrow

(* The record that will come to a row goes on towards it.                   *)
LEMMA CoverStays ==
    ASSUME IInv, ReplayInv, ForgetInv, Next, Steady, Len(escrow) <= EscrowLimit,
           NEW t \in Tasks, NEW j \in 1..Len(stack[t]), NEW i \in 1..Len(escrow),
           Covers(stack[t][j], escrow, i), Ripe(escrow, i, watchedAids, firstSeen)
    PROVE  \E k \in 1..Len(stack'[t]) : Covers(stack'[t][k], escrow', i)
  <1> DEFINE s == stack[t]
             u == stack'[t]
             n == Len(s)
             a == Top(t)
  <1>1. n \in Nat \ {0} /\ s # <<>>
    BY EmptySeq, LenProperties DEF IInv, TypeOK
  <1>2. escrow'[i].ev = escrow[i].ev
    BY StoresGrow DEF RowsKept
  <1>3. \A b : Covers(b, escrow, i) => Covers(b, escrow', i)
    BY <1>2 DEF Covers
  <1>4. CASE ~ProcessEvent(t)
    BY <1>1, <1>3, <1>4, OutsideStep
  <1>5. CASE ProcessEvent(t) /\ j < n
    <2>1. Steps(t)
      BY <1>5, ProcessShifts
    <2>2. CASE Moves(t) \/ Pushes(t)
      <3>1. j \in 1..(n - 1) /\ j \in 1..Len(u)
        BY <1>1, <1>5, <2>2 DEF Moves, Pushes, Depth
      <3>2. u[j] = s[j]
        BY <2>2, <3>1 DEF Moves, Pushes, Same, Depth
      <3>3. QED
        BY <1>3, <3>1, <3>2
    <2>3. CASE Pops(t)
      <3>1. n \in Nat \ {0, 1} /\ Len(u) = n - 1 /\ \A k \in 1..(n - 2) : u[k] = s[k]
        BY <2>3 DEF Pops, Same, Depth
      <3>2. j \in 1..Len(u) /\ (j \in 1..(n - 2) \/ j = n - 1)
        BY <1>5, <3>1
      <3>3. CASE j \in 1..(n - 2)
        BY <1>3, <3>1, <3>2, <3>3
      <3>4. CASE j = n - 1
        <4>1. PICK b \in BOOLEAN : u[j] = [s[j] EXCEPT !.child = b]
          BY <2>3, <3>4 DEF Pops, Depth
        <4>2. s[j] \in Activation
          BY LenProperties DEF IInv, TypeOK
        <4>3. u[j].ev = s[j].ev /\ u[j].pc = s[j].pc /\ u[j].pending = s[j].pending
          BY <4>1, <4>2 DEF Activation
        <4>4. Covers(u[j], escrow, i)
          BY <4>3 DEF Covers
        <4>5. QED
          BY <1>3, <3>2, <4>4
      <3>5. QED
        BY <3>2, <3>3, <3>4
    <2>4. CASE Depth(t) = 1
      BY <1>5, <2>4 DEF Depth
    <2>5. QED
      BY <2>1, <2>2, <2>3, <2>4 DEF Steps
  <1>6. CASE ProcessEvent(t) /\ j = n
    <2>1. a = s[j] /\ Covers(a, escrow, i) /\ a \in Activation /\ a.ev.sn \in Int
      BY <1>1, <1>6, TopGood DEF Top, IInv, Event
    <2>2. ASSUME NEW b, Goto(t, b), Covers(b, escrow, i)
          PROVE  \E k \in 1..Len(u) : Covers(u[k], escrow', i)
      <3>1. Len(u) = n /\ u[n] = b
        BY <1>1, <2>2, GotoTop DEF IInv, Depth
      <3>2. n \in 1..Len(u)
        BY <1>1, <3>1
      <3>3. QED
        BY <1>3, <2>2, <3>1, <3>2
    <2>3. CASE Record(t)
      <3> DEFINE b == [a EXCEPT !.pc = "fetch_escrow"]
      <3>1. Goto(t, b)
        BY <2>3 DEF Record
      <3>2. b.pc = "fetch_escrow" /\ b.ev = a.ev
        BY <2>1 DEF Activation
      <3> HIDE DEF b
      <3>3. Covers(b, escrow, i)
        BY <2>1, <3>2 DEF Covers
      <3>4. QED
        BY <2>2, <3>1, <3>3
    <2>4. CASE FetchEscrow(t)
      <3> DEFINE rows == Replayable(a.ev)
                 b == [a EXCEPT !.pc = "replay", !.pending = rows]
      <3>1. Goto(t, b)
        BY <2>4 DEF FetchEscrow
      <3>2. i \in PendingEscrow(a.ev.raw.aid)
        BY <2>1, RowIsFetched DEF Covers, Ripe
      <3>3. escrow[i].ev.sn <= a.ev.sn + 1
        <4>1. Parse(escrow[i].ev.raw).sn > 0 /\ a.ev.sn + 1 = Parse(escrow[i].ev.raw).sn
          BY <2>1 DEF Covers, Ripe, StorableIn
        <4>2. escrow[i] \in EscrowRow
          BY RowsSame, LenProperties
        <4>3. escrow[i].ev.raw \in Raws /\ escrow[i].ev.sn \in Int
          BY <4>2 DEF EscrowRow, Event
        <4>4. "s" \in escrow[i].ev.raw.keys /\ Parse(escrow[i].ev.raw).sn = escrow[i].ev.raw.sn
          BY <4>1 DEF Parse
        <4>5. escrow[i].ev.sn = escrow[i].ev.raw.sn
          BY <4>3, <4>4 DEF ForgetInv, RowsAsSent, AsSent, Steady
        <4>6. escrow[i].ev.sn = a.ev.sn + 1
          BY <4>1, <4>4, <4>5
        <4>7. QED
          BY <4>3, <4>6
      <3>4. i \in rows
        BY <3>2, <3>3 DEF Replayable
      <3> HIDE DEF rows
      <3>5. b.pc = "replay" /\ b.ev = a.ev /\ b.pending = rows
        BY <2>1 DEF Activation
      <3> HIDE DEF b
      <3>6. Covers(b, escrow, i)
        BY <2>1, <3>4, <3>5 DEF Covers
      <3>7. QED
        BY <2>2, <3>1, <3>6
    <2>5. CASE Replay(t)
      <3>1. Pushes(t) /\ a.pc = "replay"
        BY <1>1, <2>5, ReplayPushes DEF IInv, Replay, Busy
      <3>2. Len(u) = n + 1 /\ u[n] = [a EXCEPT !.pc = "settle"]
        BY <3>1 DEF Pushes, Depth
      <3>3. u[n].pc = "settle" /\ u[n].ev = a.ev /\ u[n].pending = a.pending
        BY <2>1, <3>2 DEF Activation
      <3>4. Covers(u[n], escrow, i)
        BY <2>1, <3>1, <3>3 DEF Covers
      <3>5. n \in 1..Len(u)
        BY <1>1, <3>2
      <3>6. QED
        BY <1>3, <3>4, <3>5
    <2>6. CASE Settle(t)
      <3>1. PICK k \in a.pending : /\ NextPending(a, k)
                                   /\ Goto(t, [a EXCEPT !.pc = "replay", !.pending = RowsAfter(a, k)])
        BY <2>6 DEF Settle
      <3> DEFINE b == [a EXCEPT !.pc = "replay", !.pending = RowsAfter(a, k)]
      <3>2. Goto(t, b)
        BY <3>1
      <3>3. b.pc = "replay" /\ b.ev = a.ev /\ b.pending = a.pending \ {k}
        BY <2>1 DEF Activation, RowsAfter
      <3> HIDE DEF b
      <3>4. ~Ripe(escrow, k, watchedAids, firstSeen)
        BY <2>6, <3>1 DEF Settle, ForgetInv, SettledUnripe
      <3>5. a.pc = "settle"
        BY <2>6 DEF Settle, Busy
      <3>6. Covers(b, escrow, i)
        BY <2>1, <3>3, <3>4, <3>5 DEF Covers
      <3>7. QED
        BY <2>2, <3>2, <3>6
    <2>7. Record(t) \/ FetchEscrow(t) \/ Replay(t) \/ Settle(t)
      <3>1. a.pc \in {"record", "fetch_escrow", "replay", "settle"}
            /\ (a.pc \in {"replay", "settle"} => a.pending # {})
        BY <2>1 DEF Covers
      <3>2. QED
        BY <1>6, <3>1 DEF ProcessEvent, FailOnDbError, CheckWatched, Lookup, GetKel,
           RecordDuplicity, GetPrior, Judge, EscrowEvent, FinishReplay, Busy, Steady
    <2>8. QED
      BY <2>3, <2>4, <2>5, <2>6, <2>7
  <1>7. QED
    BY <1>1, <1>4, <1>5, <1>6

(* A row becomes one that could be stored when its prior is put, by a       *)
(* record that will come to it.                                             *)
LEMMA NewlyRipe ==
    ASSUME IInv, WatchedInv, RowsAsSent, Next, NEW i \in 1..Len(escrow),
           Ripe(escrow', i, watchedAids', firstSeen'), ~Ripe(escrow, i, watchedAids, firstSeen)
    PROVE  \E t \in Tasks : \E k \in 1..Len(stack'[t]) : Covers(stack'[t][k], escrow', i)
  <1> DEFINE p == Parse(escrow[i].ev.raw)
  <1>1. firstSeen' # firstSeen
    BY RipeBack
  <1>2. PICK t \in Tasks : /\ firstSeen' = firstSeen \cup {EntryOf(Top(t).ev)}
                           /\ Busy(t, "record")' /\ Top(t).ev = Top(t)'.ev
                           /\ stack[t] # <<>>
                           /\ Lookup(t) \/ Judge(t)
    BY <1>1, PutsThenRecords
  <1>3. escrow'[i].ev = escrow[i].ev /\ UNCHANGED <<watchedAids, escrow>>
    BY <1>2 DEF Lookup, Judge
  <1>4. escrow[i].state = "pending" /\ StorableIn(p, watchedAids, firstSeen')
    BY <1>3 DEF Ripe
  <1>5. ~StorableIn(p, watchedAids, firstSeen)
    BY <1>4 DEF Ripe
  <1>6. ~Filled(firstSeen, p.raw.aid, p.sn - 1) /\ Filled(firstSeen', p.raw.aid, p.sn - 1)
    BY <1>2, <1>4, <1>5 DEF StorableIn, Filled
  <1>7. EntryOf(Top(t).ev).aid = p.raw.aid /\ EntryOf(Top(t).ev).sn = p.sn - 1
    BY <1>2, <1>6 DEF Filled
  <1>8. p.sn \in Int /\ p.raw.aid = escrow[i].ev.raw.aid
    <2>1. escrow[i] \in EscrowRow
      BY RowsSame, LenProperties
    <2>2. escrow[i].ev.raw.sn \in Int
      BY <2>1, WatcherConstants DEF EscrowRow, Event, Raw
    <2>3. QED
      BY <2>2 DEF Parse
  <1>9. Top(t).ev.raw.aid = escrow[i].ev.raw.aid /\ Top(t).ev.sn + 1 = p.sn
    BY <1>7, <1>8 DEF EntryOf
  <1>10. Covers(Top(t)', escrow', i)
    BY <1>2, <1>3, <1>9 DEF Covers, Busy
  <1>11. Len(stack'[t]) \in 1..Len(stack'[t])
    <2>1. IInv' /\ stack'[t] # <<>>
      BY <1>2, NextIInv DEF Busy
    <2>2. QED
      BY <2>1, LastRecord DEF IInv, TypeOK
  <1>12. QED
    BY <1>10, <1>11 DEF Top

(* A row that could be stored will come to its replay.                      *)
LEMMA RipeAreCoveredStep ==
    ASSUME IInv, SentInv, ReplayInv, WatchedInv, ForgetInv, Next, Steady
    PROVE  RipeAreCovered'
  <1> SUFFICES ASSUME Len(escrow') <= EscrowLimit, NEW i \in 1..Len(escrow'),
                      Ripe(escrow', i, watchedAids', firstSeen')
               PROVE  \E t \in Tasks : \E k \in 1..Len(stack'[t]) :
                          Covers(stack'[t][k], escrow', i)
    BY DEF RipeAreCovered
  <1>1. Len(escrow) <= EscrowLimit
    <2>1. IInv'
      BY NextIInv
    <2>2. Len(escrow) \in Nat /\ Len(escrow') \in Nat
      BY <2>1, LenProperties DEF IInv, TypeOK
    <2>3. Len(escrow) <= Len(escrow')
      BY <2>2, StoresGrow DEF RowsKept
    <2>4. QED
      BY <2>2, <2>3, WatcherConstants
  <1>2. CASE i \in 1..Len(escrow)
    <2>1. CASE Ripe(escrow, i, watchedAids, firstSeen)
      <3>1. PICK t \in Tasks : \E j \in 1..Len(stack[t]) : Covers(stack[t][j], escrow, i)
        BY <1>1, <1>2, <2>1 DEF ForgetInv, RipeAreCovered
      <3>2. QED
        BY <1>1, <1>2, <2>1, <3>1, CoverStays
    <2>2. CASE ~Ripe(escrow, i, watchedAids, firstSeen)
      BY <1>2, <2>2, NewlyRipe DEF ForgetInv
    <2>3. QED
      BY <2>1, <2>2
  <1>3. ASSUME NEW t \in Tasks, EscrowEvent(t), escrow'[i].ev = Top(t).ev
        PROVE  FALSE
    <2> DEFINE ev == Top(t).ev
    <2>1. stack[t] # <<>> /\ ~Filled(firstSeen, ev.raw.aid, ev.sn - 1) /\ firstSeen' = firstSeen
      BY <1>3 DEF EscrowEvent, Busy, ForgetInv, EscrowedAhead
    <2>2. ev \in Event /\ AsSent(ev)
      <3>1. stack[t] \in Seq(Activation)
        BY DEF IInv, TypeOK
      <3>2. Len(stack[t]) \in 1..Len(stack[t])
        BY <2>1, <3>1, LastRecord
      <3>3. QED
        BY <2>1, <3>2, TopGood DEF IInv, SentInv, Top
    <2>3. StorableIn(Parse(ev.raw), watchedAids', firstSeen)
      BY <1>3, <2>1 DEF Ripe
    <2>4. "s" \in ev.raw.keys /\ Parse(ev.raw).sn = ev.raw.sn /\ Parse(ev.raw).raw = ev.raw
      BY <2>3 DEF StorableIn, Parse
    <2>5. ev.sn = ev.raw.sn
      BY <2>2, <2>4 DEF AsSent, Steady, Event
    <2>6. QED
      BY <2>1, <2>3, <2>4, <2>5 DEF StorableIn
  <1>4. QED
    BY <1>2, <1>3, RowsStep

(* The invariant is inductive.                                              *)
LEMMA ForgetStep ==
    ASSUME Steady
    PROVE  IInv /\ SentInv /\ ReplayInv /\ WatchedInv /\ ForgetInv /\ [Next]_vars => ForgetInv'
  <1>1. ASSUME IInv, SentInv, ReplayInv, WatchedInv, ForgetInv, Next
        PROVE  ForgetInv'
    <2>1. RipeAreCovered'
      BY <1>1, RipeAreCoveredStep
    <2>2. SettledUnripe'
      BY <1>1, SettledUnripeStep
    <2>3. EscrowedAhead' /\ RowsAsSent'
      BY <1>1, EscrowedAheadStep, RowsAsSentStep
    <2>4. QED
      BY <2>1, <2>2, <2>3 DEF ForgetInv
  <1>2. ASSUME ForgetInv, UNCHANGED vars
        PROVE  ForgetInv'
    <2>1. UNCHANGED <<stack, escrow, firstSeen, watchedAids>>
      BY <1>2 DEF vars, stores
    <2>2. \A t \in Tasks : Top(t)' = Top(t)
      BY <2>1 DEF Top
    <2>3. RipeAreCovered' /\ RowsAsSent'
      BY <1>2, <2>1 DEF ForgetInv, RipeAreCovered, RowsAsSent
    <2>4. SettledUnripe' /\ EscrowedAhead'
      BY <1>2, <2>1, <2>2 DEF ForgetInv, SettledUnripe, EscrowedAhead, Busy
    <2>5. QED
      BY <2>3, <2>4 DEF ForgetInv
  <1>3. QED
    BY <1>1, <1>2

(* When a single task works through steady databases, the escrow forgets no *)
(* event it could store, however deep the replays nest: the record that     *)
(* puts the prior of an escrowed event keeps the event on its list, and a   *)
(* replay that returns leaves it stored, refused for good or still ahead.   *)
(* This needs events that carry "sn" when they carry "s": one without it is *)
(* escrowed under last_sn, and Replayable may then pass over it for ever.   *)
THEOREM EscrowIsEmptied ==
    ASSUME Steady
    PROVE  Spec => []EscrowForgetsNothing
  <1>1. Init => SentInv /\ ReplayInv /\ WatchedInv /\ ForgetInv
    <2> SUFFICES ASSUME Init
                 PROVE  SentInv /\ ReplayInv /\ WatchedInv /\ ForgetInv
      OBVIOUS
    <2>1. SentInv /\ ReplayInv /\ WatchedInv
      BY DEF Init, SentInv, AccusedAsSent, ReplayInv, ResolvedIsSeen, WatchedInv, OnlyWatched
    <2>2. ForgetInv
      BY DEF Init, ForgetInv, RipeAreCovered, SettledUnripe, EscrowedAhead, RowsAsSent, Busy
    <2>3. QED
      BY <2>1, <2>2
  <1>2. IInv /\ ForgetInv => EscrowForgetsNothing
    <2> SUFFICES ASSUME IInv, ForgetInv, Idle, Len(escrow) <= EscrowLimit, NEW i \in Pending,
                        Storable(Parse(escrow[i].ev.raw))
                 PROVE  FALSE
      BY DEF EscrowForgetsNothing
    <2>1. i \in 1..Len(escrow) /\ Ripe(escrow, i, watchedAids, firstSeen)
      BY StorableForm DEF Pending, Ripe
    <2>2. PICK t \in Tasks : \E j \in 1..Len(stack[t]) : Covers(stack[t][j], escrow, i)
      BY <2>1 DEF ForgetInv, RipeAreCovered
    <2>3. stack[t] = <<>>
      BY DEF Idle
    <2>4. QED
      BY <2>2, <2>3
  <1>3. QED
    BY <1>1, <1>2, ForgetStep, SentStep, ReplayInvStep, WatchedStep, InvariantIInv, PTL DEF Spec

=============================================================================
