---------------------------- MODULE KeyRotation ----------------------------
(***************************************************************************)
(* The node's key stores in the hands of an application that rotates keys  *)
(* as kms.py describes it: a rotation event that makes the pre-rotated key *)
(* current and commits to a new one, then rotate_keys ("after a rotation   *)
(* event"), then save of the new key.  The three calls are separate: other *)
(* calls, for this AID and for others, come in between.  An application    *)
(* keeps to this order for some AIDs and is free in what it calls for the  *)
(* others.                                                                 *)
(***************************************************************************)
EXTENDS KeriNode

VARIABLES
    phase,   \* how far the rotation of each AID has come, or "free"
    incoming \* the key its last rotation event committed to

vars == <<nodeVars, phase, incoming>>

Phases == {"settled", "logged", "promoted"}
Ordered == {a \in Aids : phase[a] # "free"}

EventOf(a, type, key, next) ==
    [type |-> type, aid |-> a, sn |-> states[a].sn + 1, keys |-> {key}, next |-> next,
     prior |-> states[a].last, delegator |-> states[a].delegator, id |-> events]

TheKey(a) == CHOOSE k \in states[a].keys : TRUE

(* create_identity; a seed may be given again at any time.                 *)
Incept ==
    /\ Create
    /\ UNCHANGED <<phase, incoming>>

(* A rotation event from the pre-rotated key to a new commitment.          *)
LogRotation(a, k) ==
    /\ Incepted(a)
    /\ phase[a] = "settled"
    /\ ProcessEvent(EventOf(a, "rot", preRotated[a], k))
    /\ phase' = [phase EXCEPT ![a] = "logged"]
    /\ incoming' = [incoming EXCEPT ![a] = k]

(* An interaction event repeats keys and commitment: process_event derives *)
(* the identity state from the last event alone.                           *)
LogInteraction(a) ==
    /\ Incepted(a)
    /\ a \in Ordered
    /\ ProcessEvent(EventOf(a, "ixn", TheKey(a), states[a].next))
    /\ UNCHANGED <<phase, incoming>>

Promote(a) ==
    /\ phase[a] = "logged"
    /\ RotateKeys(a)
    /\ phase' = [phase EXCEPT ![a] = "promoted"]
    /\ UNCHANGED incoming

SaveIncoming(a) ==
    /\ phase[a] = "promoted"
    /\ SavePreRotated(a, incoming[a])
    /\ phase' = [phase EXCEPT ![a] = "settled"]
    /\ UNCHANGED <<identity, hotKeys, recovery, saves, incoming>>

(* Any call, for an AID for which no order is kept.                        *)
CallFreely(a) ==
    /\ phase[a] = "free"
    /\ CallFor(a)
    /\ UNCHANGED <<phase, incoming>>

RotationInit ==
    /\ Init
    /\ phase \in [Aids -> {"settled", "free"}]
    /\ incoming = [a \in Aids |-> NoKey]

RotationNext ==
    \/ Incept
    \/ \E a \in Aids : \/ LogInteraction(a)
                       \/ Promote(a)
                       \/ SaveIncoming(a)
                       \/ CallFreely(a)
                       \/ \E k \in Fresh : LogRotation(a, k)

RotationSpec == RotationInit /\ [][RotationNext]_vars

-----------------------------------------------------------------------------
RotationTypeOK ==
    /\ TypeOK
    /\ phase \in [Aids -> Phases \cup {"free"}]
    /\ incoming \in [Aids -> MaybeKey]

(* Of an AID whose rotations keep to the order: between rotations the hot  *)
(* key is the key the log names and the pre-rotated key the one it commits *)
(* to; within one, each store is at most one step behind the log.  Four    *)
(* stores are written by three calls and by repeated inceptions that fail  *)
(* half way, beside any calls for other AIDs.                              *)
KeysFollowLog ==
    \A a \in Ordered : Incepted(a) =>
        /\ states[a].keys = {IF phase[a] = "logged" THEN preRotated[a] ELSE hotKeys[a].public}
        /\ states[a].next = IF phase[a] = "settled" THEN preRotated[a] ELSE incoming[a]

(* Every establishment of keys honours the commitment before it, although  *)
(* KELSelfValidator does not look at commitments: whoever follows the log  *)
(* sees each set of keys announced one event earlier at the latest.        *)
CommitmentsHonoured ==
    \A a \in Ordered : \A i \in 2..Len(kel[a]) :
        \/ kel[a][i].keys = {kel[a][i - 1].next}
        \/ kel[a][i].keys = kel[a][i - 1].keys /\ kel[a][i].next = kel[a][i - 1].next

(* Whatever is signed is signed with a key of the last event, or, while a  *)
(* rotation waits for rotate_keys, with one of the event before the        *)
(* rotation; and with a wallet there is always something to sign with.     *)
SignsWithCurrentKey ==
    \A a \in Ordered : Incepted(a) =>
        \/ SignData(a) \in states[a].keys
        \/ phase[a] = "logged" /\ \E i \in 1..Len(kel[a]) :
                                      /\ SignData(a) \in kel[a][i].keys
                                      /\ kel[a][i].next = preRotated[a]
        \/ ~Wallet /\ SignData(a) = NoKey

=============================================================================
