------------------------------- MODULE Kever -------------------------------
(***************************************************************************)
(* One validator of the vendored keripy library                            *)
(* (keri_official_lib/core/eventing.py) and the key event log of one       *)
(* identifier that it does not control, witness or delegate: Kevery takes   *)
(* the identifier's events and witness receipts in any order and any number *)
(* of times, Kever checks each event against the key state, logs it or       *)
(* holds it in an escrow, and processEscrows tries what is held again.       *)
(*                                                                         *)
(* The data is abstract: Ked gives what an event says, an event is its own    *)
(* digest, a signature is the name of its key or witness and is genuine,      *)
(* and thresholds count names.                                               *)
(***************************************************************************)
EXTENDS Integers, Sequences, FiniteSets, SequencesExt

CONSTANTS
    Ked,        \* what each event says: sn, ilk, prior, keys, sith, next,
                \* nsith, wits (of an inception), cuts, adds, toad, estOnly
    Msgs,       \* events with attached signatures: [ev, sigs, wigs]
    Rcts,       \* receipts of one witness: <<event, witness>>
    MaxAge      \* bound: how far time passes; 1 is beyond TimeoutOOE,
                \* 2 is beyond the other timeouts too

Events == DOMAIN Ked
None == "none"
MaxSn == Max({Ked[e].sn : e \in Events})
Sns == 0..MaxSn

(* One event has the highest sequence number; what is named is finite.      *)
ASSUME KeverConstants ==
    /\ None \notin Events
    /\ \E e \in Events : \A x \in Events : Ked[x].sn <= Ked[e].sn
    /\ \A e \in Events :
          /\ Ked[e].sn \in Nat
          /\ Ked[e].ilk \in {"icp", "rot", "ixn"}
          /\ {Ked[e].sith, Ked[e].nsith, Ked[e].toad} \subseteq Nat
          /\ IsFiniteSet(Ked[e].keys)
          /\ IsFiniteSet(Ked[e].wits) /\ IsFiniteSet(Ked[e].adds)
    /\ \A m \in Msgs : m.ev \in Events
    /\ \A r \in Rcts : r = <<r[1], r[2]>> /\ r[1] \in Events
    /\ MaxAge \in Nat

VARIABLE db     \* the validator's database and key state

vars == <<db>>

-----------------------------------------------------------------------------
(* Reading the database.                                                    *)

Est(e) == Ked[e].ilk # "ixn"

(* kels.getLast: the event accepted last at a sequence number.              *)
LastAt(d, sn) == IF d.kels[sn] # <<>> THEN Last(d.kels[sn]) ELSE None

(* evts.get: an event is stored with its signatures, logged or escrowed.    *)
Stored(d, e) == d.sigs[e] # {}

Known(d) == d.said # None
Sn(d) == IF Known(d) THEN Ked[d.said].sn ELSE -1

(* fetchEstEvent: the establishment event in force at sn, from the events    *)
(* accepted last at each sequence number; fetchWitnessState: its witnesses.  *)
EstAt(d, sn) ==
    LET ests == {n \in Sns : n <= sn /\ LastAt(d, n) # None /\ Est(LastAt(d, n))}
    IN  LastAt(d, Max(ests))
WitsAt(d, sn) == d.wits[EstAt(d, sn)]

(* store: signatures are added to those already there and the date of the    *)
(* first sight stays, dtss.put overwrites nothing.                            *)
Put(d, e, ss, ws) ==
    [d EXCEPT !.sigs[e] = @ \cup ss, !.wigs[e] = @ \cup ws, !.age[e] = Max({@, 0})]

Mut_Enter(esc, e) == Append(esc, e)
Enter(esc, e) == IF e \in Range(esc) THEN esc ELSE Append(esc, e)

-----------------------------------------------------------------------------
(* Kever: an event against the key state. Each operator returns the          *)
(* database afterwards and what the caller is told.                           *)

Told(d, v) == [db |-> d, told |-> v]

(* deriveBacks: the changes are read only when the event is beyond the        *)
(* current one, a recovery keeps the witnesses of the state.                  *)
Derived(d, e) == IF Sn(d) >= Ked[e].sn THEN d.backs ELSE (d.backs \ Ked[e].cuts) \cup Ked[e].adds
BacksValid(d, e) ==
    \/ Sn(d) >= Ked[e].sn
    \/ /\ Ked[e].cuts \subseteq d.backs
       /\ Ked[e].cuts \cap Ked[e].adds = {}
       /\ d.backs \cap Ked[e].adds = {}

ToadValid(toad, wits) == IF wits = {} THEN toad = 0 ELSE toad \in 1..Cardinality(wits)

(* logEvent with first: the event is appended to the first seen log and is    *)
(* the last one at its sequence number; update then sets the key state.        *)
Log(d, e, ss, ws, wits, toad) ==
    LET p == Put(d, e, ss, ws) IN
    [p EXCEPT !.fels = Append(@, e),
              !.age[e] = 0,
              !.kels[Ked[e].sn] = Enter(@, e),
              !.wits[e] = IF Est(e) THEN wits ELSE {},
              !.said = e,
              !.est = IF Est(e) THEN e ELSE @,
              !.backs = wits,
              !.toad = toad]

(* valSigsWigsDel: signatures by the keys in force, by the next keys the       *)
(* state commits to for a rotation, then receipts of the witnesses.            *)
Mut_Validate(d, e, ss, ws, est, wits, toad) ==
    LET sigs == ss \cap Ked[est].keys
        kept == Put(d, e, sigs, ws)
    IN  IF sigs = {} THEN Told(d, "invalid")
        ELSE IF Cardinality(sigs) < Ked[est].sith
        THEN Told([kept EXCEPT !.pses[Ked[e].sn] = Enter(@, e)], "psig")
        ELSE IF ~ToadValid(toad, wits) THEN Told(d, "invalid")
        ELSE IF Cardinality(ws) < toad
        THEN Told([kept EXCEPT !.pwes[Ked[e].sn] = Enter(@, e)], "pwig")
        ELSE Told(Log(d, e, sigs, ws, wits, toad), "accepted")
Validate(d, e, ss, ws, est, wits, toad) ==
    LET sigs == ss \cap Ked[est].keys
        wigs == ws \cap wits
        exposed == IF Ked[e].ilk = "rot"
                   THEN Cardinality(sigs \cap Ked[d.est].next) >= Ked[d.est].nsith
                   ELSE TRUE
        kept == Put(d, e, sigs, wigs)
    IN  IF sigs = {} THEN Told(d, "invalid")
        ELSE IF Cardinality(sigs) < Ked[est].sith \/ ~exposed
        THEN Told([kept EXCEPT !.pses[Ked[e].sn] = Enter(@, e)], "psig")
        ELSE IF ~ToadValid(toad, wits) THEN Told(d, "invalid")
        ELSE IF Cardinality(wigs) < toad
        THEN Told([kept EXCEPT !.pwes[Ked[e].sn] = Enter(@, e)], "pwig")
        ELSE Told(Log(d, e, sigs, wigs, wits, toad), "accepted")

(* Kever.__init__ and incept.                                                 *)
Incept(d, e, ss, ws) ==
    LET k == Ked[e] IN
    IF k.sn = 0 /\ Cardinality(k.keys) >= k.sith /\ ToadValid(k.toad, k.wits)
    THEN Validate(d, e, ss, ws, e, k.wits, k.toad)
    ELSE Told(d, "invalid")

(* rotate: a rotation follows the state, or recovers: it supersedes            *)
(* interactions after the last rotation, when one of them is the state.        *)
Rotates(d, e) ==
    LET k == Ked[e] IN
    /\ IF k.sn = Sn(d) + 1
       THEN k.prior = d.said
       ELSE /\ k.sn \in (Ked[d.est].sn + 1)..Sn(d)
            /\ Ked[d.said].ilk = "ixn"
            /\ LastAt(d, k.sn - 1) # None
            /\ k.prior = LastAt(d, k.sn - 1)
    /\ Cardinality(k.keys) >= k.sith
    /\ BacksValid(d, e)
    /\ ToadValid(k.toad, Derived(d, e))

(* update.                                                                    *)
Update(d, e, ss, ws) ==
    LET k == Ked[e] IN
    IF Ked[d.est].next = {} THEN Told(d, "invalid")
    ELSE IF k.ilk = "rot" /\ Rotates(d, e)
    THEN Validate(d, e, ss, ws, e, Derived(d, e), k.toad)
    ELSE IF /\ k.ilk = "ixn"
            /\ ~Ked[EstAt(d, 0)].estOnly
            /\ k.sn = Sn(d) + 1
            /\ k.prior = d.said
    THEN Validate(d, e, ss, ws, d.est, d.backs, d.toad)
    ELSE Told(d, "invalid")

-----------------------------------------------------------------------------
(* Kevery.                                                                    *)

(* escrowOOEvent keeps the signatures as they came.                            *)
HoldOutOfOrder(d, e, ss, ws) ==
    Told([Put(d, e, ss, ws) EXCEPT !.ooes[Ked[e].sn] = Enter(@, e)], "ooo")

(* An accepted event seen again: its further signatures are added.             *)
Mut_AddLate(d, e, ss, ws) ==
    Told([Put(d, e, ss, ws) EXCEPT !.fels = Append(@, e)], "known")
Mut_AddLateState(d, e, ss, ws) == Told([d EXCEPT !.said = e], "known")
AddLate(d, e, ss, ws) ==
    LET sigs == ss \cap Ked[EstAt(d, Ked[e].sn)].keys
        wigs == ws \cap WitsAt(d, Ked[e].sn)
    IN  Told(IF sigs \cup wigs = {} THEN d ELSE Put(d, e, sigs, wigs), "known")

(* escrowLDEvent stores the event and then calls db.addLde, which the          *)
(* database does not have: the entry in ldes is not made and the caller gets   *)
(* AttributeError in place of LikelyDuplicitousError.                          *)
HoldDuplicitous(d, e, ss) == Told(Put(d, e, ss, {}), "error")

(* Inside the range in which processEvent calls update.                        *)
Expected(d, e) ==
    \/ Ked[e].sn = Sn(d) + 1
    \/ Ked[e].ilk = "rot" /\ Ked[e].sn \in (Ked[d.est].sn + 1)..Sn(d)

(* processEvent.                                                               *)
Process(d, e, ss, ws) ==
    LET k == Ked[e] IN
    IF ~Known(d)
    THEN IF k.ilk = "icp" THEN Incept(d, e, ss, ws) ELSE HoldOutOfOrder(d, e, ss, ws)
    ELSE IF k.ilk = "icp"
    THEN IF LastAt(d, 0) = e THEN AddLate(d, e, ss, ws) ELSE HoldDuplicitous(d, e, ss)
    ELSE IF k.sn > Sn(d) + 1 THEN HoldOutOfOrder(d, e, ss, ws)
    ELSE IF Expected(d, e) THEN Update(d, e, ss, ws)
    ELSE IF LastAt(d, k.sn) = e THEN AddLate(d, e, ss, ws)
    ELSE HoldDuplicitous(d, e, ss)

(* processReceipt of a witness. Once anything is accepted at the sequence      *)
(* number the receipted event is looked up by its own digest; a receipt of an   *)
(* event not stored then ends in AttributeError.                                *)
Receipted(d, e, w) ==
    IF LastAt(d, Ked[e].sn) = None
    THEN [d EXCEPT !.age[e] = Max({@, 0}), !.uwes[Ked[e].sn] = Enter(@, <<e, w>>)]
    ELSE IF Stored(d, e) /\ w \in WitsAt(d, Ked[e].sn)
    THEN [d EXCEPT !.wigs[e] = @ \cup {w}]
    ELSE d

-----------------------------------------------------------------------------
(* processEscrows. Each pass walks a snapshot of its escrow, by sequence        *)
(* number and then in the order of arrival.                                      *)

Items(esc) ==
    LET upTo[n \in Sns] == IF n = 0 THEN esc[0] ELSE upTo[n - 1] \o esc[n]
    IN  upTo[MaxSn]

Without(esc, sn, x) ==
    [esc EXCEPT ![sn] = IF x \in Range(@) THEN RemoveAt(@, CHOOSE i \in DOMAIN @ : @[i] = x) ELSE @]

(* processEscrowOutOfOrders, ...PartialWigs and ...PartialSigs process an       *)
(* event again with all the signatures stored for it. It stays while it fails     *)
(* for the reason it is held for; a stale one is dropped unread.                   *)
Mut_Retry(d, e) == Process(d, e, d.sigs[e], {})
Retry(d, e) == Process(d, e, d.sigs[e], d.wigs[e])

RetryOutOfOrder(d, e) ==
    LET r == Retry(d, e) IN
    IF d.age[e] >= 1 THEN [d EXCEPT !.ooes = Without(@, Ked[e].sn, e)]
    ELSE IF r.told = "ooo" THEN r.db
    ELSE [r.db EXCEPT !.ooes = Without(@, Ked[e].sn, e)]

RetryUnwitnessed(d, e) ==
    LET r == Retry(d, e) IN
    IF d.age[e] >= 2 THEN [d EXCEPT !.pwes = Without(@, Ked[e].sn, e)]
    ELSE IF r.told = "pwig" THEN r.db
    ELSE [r.db EXCEPT !.pwes = Without(@, Ked[e].sn, e)]

RetryUnsigned(d, e) ==
    LET r == Retry(d, e) IN
    IF d.age[e] >= 2 THEN [d EXCEPT !.pses = Without(@, Ked[e].sn, e)]
    ELSE IF r.told = "psig" THEN r.db
    ELSE [r.db EXCEPT !.pses = Without(@, Ked[e].sn, e)]

(* _processEscrowFindUnver: the witnesses a receipt is tried against are those    *)
(* the event would have as the next one, a recovery too.                           *)
ReceiptWits(d, e) ==
    CASE Ked[e].ilk = "icp" -> Ked[e].wits
      [] Ked[e].ilk = "rot" -> (d.backs \ Ked[e].cuts) \cup Ked[e].adds
      [] OTHER -> d.backs
ReceiptWitsValid(d, e) ==
    Ked[e].ilk = "rot" =>
        /\ Ked[e].cuts \subseteq d.backs
        /\ Ked[e].cuts \cap Ked[e].adds = {}
        /\ d.backs \cap Ked[e].adds = {}

(* processEscrowUnverWitness: a receipt is looked up among the events that wait    *)
(* for receipts, and waits while its event is not one of them.                      *)
RetryReceipt(d, r) ==
    LET e == r[1]
        sn == Ked[e].sn
        gone == [d EXCEPT !.uwes = Without(@, sn, r)]
    IN  IF d.age[e] >= 2 THEN gone
        ELSE IF e \notin Range(d.pwes[sn]) \/ (Ked[e].ilk = "rot" /\ ~Known(d)) THEN d
        ELSE IF ReceiptWitsValid(d, e) /\ r[2] \in ReceiptWits(d, e)
        THEN [gone EXCEPT !.wigs[e] = @ \cup {r[2]}]
        ELSE gone

Retried(escrow, d, x) ==
    CASE escrow = "ooes" -> RetryOutOfOrder(d, x)
      [] escrow = "uwes" -> RetryReceipt(d, x)
      [] escrow = "pwes" -> RetryUnwitnessed(d, x)
      [] escrow = "pses" -> RetryUnsigned(d, x)

Pass(d, escrow) ==
    LET items == Items(d[escrow])
        after[i \in 0..Len(items)] ==
            IF i = 0 THEN d ELSE Retried(escrow, after[i - 1], items[i])
    IN  after[Len(items)]

-----------------------------------------------------------------------------
KeverInit ==
    db = [said |-> None, est |-> None, backs |-> {}, toad |-> 0,
          kels |-> [n \in Sns |-> <<>>], fels |-> <<>>,
          sigs |-> [e \in Events |-> {}], wigs |-> [e \in Events |-> {}],
          wits |-> [e \in Events |-> {}], age |-> [e \in Events |-> -1],
          ooes |-> [n \in Sns |-> <<>>], pses |-> [n \in Sns |-> <<>>],
          pwes |-> [n \in Sns |-> <<>>], uwes |-> [n \in Sns |-> <<>>],
          ldes |-> [n \in Sns |-> <<>>]]

(* An event arrives with some of its signatures.                                  *)
Received(m) == Process(db, m.ev, m.sigs, m.wigs).db
Receive(m) == db' = Received(m)

(* A receipt arrives.                                                             *)
ReceiveReceipt(r) == db' = Receipted(db, r[1], r[2])

(* processEscrows runs its passes in this order without a pause.                  *)
Escrows == <<"ooes", "uwes", "pwes", "pses">>
Processed ==
    LET past[k \in 0..4] == IF k = 0 THEN db ELSE Pass(past[k - 1], Escrows[k])
    IN  past[4]
ProcessEscrows == db' = Processed

(* Time passes for what was first seen before it.                                  *)
Age(e) ==
    /\ db.age[e] \in 0..(MaxAge - 1)
    /\ db' = [db EXCEPT !.age[e] = @ + 1]

Hear(msgs, rcts) ==
    \/ \E m \in msgs : Receive(m)
    \/ \E r \in rcts : ReceiveReceipt(r)

KeverNext ==
    \/ Hear(Msgs, Rcts)
    \/ ProcessEscrows
    \/ \E e \in Events : Age(e)

KeverSpec == KeverInit /\ [][KeverNext]_vars

(* The controller and its witnesses are asked again and again, the escrows are    *)
(* processed for ever: weak fairness of the three actions, with what ENABLED says   *)
(* of a step that changes the database written out.                                 *)
FairKeverSpec ==
    /\ KeverSpec
    /\ \A m \in Msgs : []<>(Received(m) = db) \/ []<><<Receive(m)>>_vars
    /\ \A r \in Rcts : []<>(Receipted(db, r[1], r[2]) = db) \/ []<><<ReceiveReceipt(r)>>_vars
    /\ []<>(Processed = db) \/ []<><<ProcessEscrows>>_vars

-----------------------------------------------------------------------------
(* What the database holds.                                                      *)
KeverTypeOK ==
    /\ db.said \in Events \cup {None} /\ db.est \in Events \cup {None}
    /\ \A n \in Sns : \A esc \in {db.kels, db.ooes, db.pses, db.pwes} :
           IsInjective(esc[n]) /\ \A e \in Range(esc[n]) : Ked[e].sn = n
    /\ \A e \in Events : db.age[e] \in -1..MaxAge

(* The events in force are one chain after any recovery: each names the one in   *)
(* force before it, the last of them is the key state (Kever.rotate, update).      *)
Linked(d) ==
    Known(d) =>
        /\ LastAt(d, Sn(d)) = d.said
        /\ EstAt(d, Sn(d)) = d.est
        /\ \A n \in 1..Sn(d) : Ked[LastAt(d, n)].prior = LastAt(d, n - 1)

(* Every rotation in force is signed by enough of its own keys and of the keys that *)
(* the establishment event before it in force committed to.                          *)
Committed(d) ==
    \A n \in 1..Sn(d) :
        LET e == LastAt(d, n)
            b == EstAt(d, n - 1)
        IN  Ked[e].ilk = "rot" =>
            /\ Cardinality(d.sigs[e] \cap Ked[e].keys) >= Ked[e].sith
            /\ Cardinality(d.sigs[e] \cap Ked[e].keys \cap Ked[b].next) >= Ked[b].nsith

(* Every event in force is receipted by enough of the witnesses in force for it.    *)
Witnessed(d) ==
    \A n \in 0..Sn(d) :
        Cardinality(d.wigs[LastAt(d, n)] \cap WitsAt(d, n)) >= Ked[EstAt(d, n)].toad

(* The log in force is one chain, and backed by those it names, however signatures   *)
(* and receipts came together and whatever was superseded meanwhile.                  *)
ChainIsBacked == Linked(db) /\ Committed(db) /\ Witnessed(db)

(* First seen is for ever and once: the first seen log numbers each accepted       *)
(* event exactly once (logEvent appends without looking), and only those.           *)
Numbered(d) ==
    /\ IsInjective(d.fels)
    /\ Range(d.fels) = UNION {Range(d.kels[n]) : n \in Sns}
SeenOnce == Numbered(db)

(* The first rotation seen wins: an establishment event in force stays in force,     *)
(* only interactions are ever superseded, and the first seen log only grows.         *)
RotationsStay ==
    [][/\ IsPrefix(db.fels, db'.fels)
       /\ \A n \in 0..Sn(db) :
            Est(LastAt(db, n)) => n <= Sn(db') /\ LastAt(db', n) = LastAt(db, n)]_vars

(* With every event of an honest log sent again and again, the validator reaches     *)
(* its end, in whatever order the events, signatures and receipts come first.         *)
Tips == {e \in Events : \A x \in Events : Ked[x].prior # e /\ Ked[x].sn <= Ked[e].sn}
ReachesTheTip == <>[](db.said \in Tips)
=============================================================================
