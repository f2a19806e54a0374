------------------------------ MODULE KeriNode ------------------------------
(***************************************************************************)
(* Identity and key management of the KERI node library                    *)
(* (src/keri/keri/keri): the key event log of each AID, the identity state *)
(* derived from it, and the keys the node holds for it.                    *)
(*                                                                         *)
(* The library is called by one application at a time; each action is one  *)
(* call.  A call that raises before it wrote anything is a call that did   *)
(* not happen, so it is left out, except where writes follow the point     *)
(* that raises (CreateIdentity).                                           *)
(***************************************************************************)
EXTENDS Integers, Sequences, FiniteSets

CONSTANTS
    Keys,      \* key pairs, by their public key
    SeedKeys,  \* those identities are created with; a seed gives its key again
    NoKey,     \* no key, no private key, no commitment
    NoAid,     \* no delegator
    Aids,      \* identifiers
    Prefix,    \* prefix_from_public_key
    NoDigest,  \* no prior event digest
    Offered,   \* the types of the events callers build themselves
    KeyLists,  \* the keys they put into them
    Nexts,     \* the commitments they put into them
    Delegators,\* the AIDs named as delegators
    CallerKeys,\* the keys callers have generated for an AID
    Backups,   \* the lists of recovery keys callers register
    Wallet,    \* use_external_wallet
    MaxEvents, \* bound: events in all logs
    MaxSaves   \* bound: pre-rotation keys saved by callers

ASSUME NodeConstants ==
    /\ SeedKeys \subseteq Keys
    /\ NoKey \notin Keys
    /\ NoAid \notin Aids
    /\ Prefix \in [SeedKeys -> Aids]
    /\ \A k, l \in SeedKeys : Prefix[k] = Prefix[l] => k = l
    /\ NoDigest \notin Nat
    /\ Offered \subseteq {"icp", "dip", "rot", "ixn", "drt"}
    /\ KeyLists \subseteq SUBSET Keys
    /\ Nexts \subseteq Keys \cup {NoKey}
    /\ Delegators \subseteq Aids
    /\ CallerKeys \subseteq Keys
    /\ Backups \subseteq Seq(Keys)
    /\ Wallet \in BOOLEAN
    /\ MaxEvents \in Nat
    /\ MaxSaves \in Nat

VARIABLES
    kel,        \* KELStore: the events of each AID
    states,     \* IdentityStateDB: the identity state of each AID
    hotKeys,    \* HotKeysCache: a key pair for each AID
    preRotated, \* PreRotatedKeysSaver: the entry of each AID, by its public key
    recovery,   \* RecoveryKeysManager: public keys for each AID
    wallet,     \* ExternalWalletStorage: private keys by purpose and AID
    events,     \* events stored so far
    saves

identity == <<kel, states, events>>
keyStores == <<hotKeys, preRotated, recovery, wallet>>
nodeVars == <<identity, keyStores, saves>>

Inception == {"icp", "dip"}
Types == Inception \cup {"rot", "ixn", "drt"}

MaybeKey == Keys \cup {NoKey}

(* Every event carries a fresh uuid, which its digest covers: the number   *)
(* id stands for both.  next is the key that next_key_digest commits to.   *)
KELEvent ==
    [type : Types, aid : Aids, sn : Int, keys : SUBSET Keys, next : MaybeKey,
     prior : Nat \cup {NoDigest}, delegator : Aids \cup {NoAid}, id : Nat]

IdentityState ==
    [keys : SUBSET Keys, next : MaybeKey, sn : Int, delegator : Aids \cup {NoAid},
     last : Nat \cup {NoDigest}]

(* What resolve_aid returns for an AID that was never incepted: None.      *)
Unresolved == [keys |-> {}, next |-> NoKey, sn |-> -1, delegator |-> NoAid,
               last |-> NoDigest]

(* A private key goes by the name of its public key, or is "" (NoKey).    *)
KeyPair == {kp \in [public : MaybeKey, private : MaybeKey] :
               kp.private \in {kp.public, NoKey}}
NoPair == [public |-> NoKey, private |-> NoKey]

WalletStore == [hot : [Aids -> MaybeKey], prerot : [Aids -> MaybeKey],
                recovery : [Aids -> Seq(Keys)]]

Last(s) == s[Len(s)]

Incepted(a) == kel[a] # <<>>

-----------------------------------------------------------------------------
(* The key event log.                                                      *)

(* KELSelfValidator.validate.                                              *)
Mut_SnGap(e) ==
    /\ IF e.type \in Inception THEN ~Incepted(e.aid) /\ e.sn = 0
       ELSE /\ Incepted(e.aid)
            /\ e.sn > Last(kel[e.aid]).sn
            /\ e.prior = Last(kel[e.aid]).id
    /\ e.keys # {}
Valid(e) ==
    /\ IF e.type \in Inception
       THEN ~Incepted(e.aid) /\ e.sn = 0
       ELSE /\ Incepted(e.aid)
            /\ e.sn = Last(kel[e.aid]).sn + 1
            /\ e.prior = Last(kel[e.aid]).id
    /\ e.keys # {}

(* KELManager._derive_state: of the last event alone.                      *)
Derive(e) ==
    [keys |-> e.keys, next |-> e.next, sn |-> e.sn, delegator |-> e.delegator,
     last |-> e.id]

(* KELManager.process_event of a valid event: append, derive, save.        *)
Process(e) ==
    /\ Valid(e)
    /\ events < MaxEvents
    /\ events' = events + 1
    /\ kel' = [kel EXCEPT ![e.aid] = Append(@, e)]
    /\ states' = [states EXCEPT ![e.aid] = Derive(e)]

(* InceptionEngine.create_inception.                                       *)
InceptionEvent(hot, next, delegator) ==
    [type |-> IF delegator = NoAid THEN "icp" ELSE "dip", aid |-> Prefix[hot],
     sn |-> 0, keys |-> {hot}, next |-> next, prior |-> NoDigest,
     delegator |-> delegator, id |-> events]

(* DelegationChainResolver.resolve_delegation_chain, root first.  step[i]  *)
(* is the i-th AID visited; the walk ends where there is no delegator or   *)
(* at the first AID visited twice, which is appended all the same.         *)
ResolveDelegationChain(a) ==
    LET step[i \in Nat] ==
            IF i = 0 THEN a
            ELSE IF step[i - 1] = NoAid THEN NoAid ELSE states[step[i - 1]].delegator
        Ends(n) == \/ n > 0 /\ \E i \in 0..(n - 1) : step[i] = step[n]
                   \/ step[n + 1] = NoAid
        n == CHOOSE m \in 0..Cardinality(Aids) : Ends(m) /\ \A i \in 0..(m - 1) : ~Ends(i)
    IN  [i \in 1..(n + 1) |-> step[n + 1 - i]]

-----------------------------------------------------------------------------
(* The key stores.                                                         *)

(* PreRotatedKeysSaver.save.                                               *)
Mut_SaveEntryOnly(a, k) ==
    preRotated' = [preRotated EXCEPT ![a] = k] /\ UNCHANGED wallet
SavePreRotated(a, k) ==
    /\ preRotated' = [preRotated EXCEPT ![a] = k]
    /\ wallet' = IF Wallet THEN [wallet EXCEPT !.prerot[a] = k] ELSE wallet

(* PreRotatedKeysSaver.promote_to_hot: the entry stays where it is.        *)
Promoted(a) == [public |-> preRotated[a], private |-> wallet.prerot[a]]

(* The key that sign_data signs with, NoKey when it returns None.          *)
SignData(a) ==
    IF hotKeys[a].private # NoKey THEN hotKeys[a].private ELSE wallet.hot[a]

(* Keys nothing refers to: what generate_key_pair returns without a seed.  *)
Fresh ==
    LET Mentioned(k) ==
            \/ k \in SeedKeys
            \/ \E a \in Aids : \/ hotKeys[a].public = k
                               \/ preRotated[a] = k
                               \/ k \in {wallet.hot[a], wallet.prerot[a]}
                               \/ \E i \in 1..Len(kel[a]) : k \in kel[a][i].keys \cup {kel[a][i].next}
    IN  {k \in Keys : ~Mentioned(k)}

-----------------------------------------------------------------------------
(* KERINode.create_identity.  With a seed used before, process_event       *)
(* raises and neither key store is written.                                *)
Mut_KeysFirst(hot, next, delegator) ==
    LET e == InceptionEvent(hot, next, delegator)
    IN  /\ IF Valid(e) THEN Process(e) ELSE UNCHANGED identity
        /\ hotKeys' = [hotKeys EXCEPT ![e.aid] = [public |-> hot, private |-> hot]]
        /\ SavePreRotated(e.aid, next)
        /\ UNCHANGED <<recovery, saves>>
CreateIdentity(hot, next, delegator) ==
    LET e == InceptionEvent(hot, next, delegator)
    IN  \/ /\ Process(e)
           /\ hotKeys' = [hotKeys EXCEPT ![e.aid] = [public |-> hot, private |-> hot]]
           /\ SavePreRotated(e.aid, next)
           /\ UNCHANGED <<recovery, saves>>
        \/ ~Valid(e) /\ UNCHANGED nodeVars

(* KELManager.process_event, called with an event of the application's.    *)
ProcessEvent(e) == Process(e) /\ UNCHANGED <<keyStores, saves>>

(* KeyVault.rotate_keys, when there is an entry.                           *)
RotateKeys(a) ==
    /\ preRotated[a] # NoKey
    /\ hotKeys' = [hotKeys EXCEPT ![a] = Promoted(a)]
    /\ UNCHANGED <<identity, preRotated, recovery, wallet, saves>>

(* KeyVault.generate_and_store_key_pair.                                   *)
GenerateAndStoreKeyPair(a, k) ==
    /\ hotKeys' = [hotKeys EXCEPT ![a] = [public |-> k, private |-> k]]
    /\ wallet' = IF Wallet THEN [wallet EXCEPT !.hot[a] = k] ELSE wallet
    /\ UNCHANGED <<identity, preRotated, recovery, saves>>

(* PreRotatedKeysSaver.save, called by the application for a next rotation.*)
SaveNext(a, k) ==
    /\ saves < MaxSaves
    /\ saves' = saves + 1
    /\ SavePreRotated(a, k)
    /\ UNCHANGED <<identity, hotKeys, recovery>>

(* What a list of recovery keys leaves in the wallet, which files private  *)
(* keys by index: a shorter list leaves the keys behind it where they are. *)
Filed(old, new) == new \o SubSeq(old, Len(new) + 1, Len(old))

(* RecoveryKeysManager.register_recovery_keys.                             *)
RegisterRecoveryKeys(a, ks) ==
    /\ recovery' = [recovery EXCEPT ![a] = ks]
    /\ wallet' = IF Wallet THEN [wallet EXCEPT !.recovery[a] = Filed(@, ks)] ELSE wallet
    /\ UNCHANGED <<identity, hotKeys, preRotated, saves>>

-----------------------------------------------------------------------------
Init ==
    /\ kel = [a \in Aids |-> <<>>]
    /\ states = [a \in Aids |-> Unresolved]
    /\ hotKeys = [a \in Aids |-> NoPair]
    /\ preRotated = [a \in Aids |-> NoKey]
    /\ recovery = [a \in Aids |-> <<>>]
    /\ wallet = [hot |-> [a \in Aids |-> NoKey], prerot |-> [a \in Aids |-> NoKey],
                 recovery |-> [a \in Aids |-> <<>>]]
    /\ events = 0
    /\ saves = 0

(* The events an application may build: any field may be wrong, the digest *)
(* of the prior one that of an event yet to come, the number too high.     *)
OfferedEvents(a) ==
    [type : Offered, aid : {a}, sn : 0..(events + 1), keys : KeyLists, next : Nexts,
     prior : (0..events) \cup {NoDigest}, delegator : Delegators \cup {NoAid},
     id : {events}]

Create ==
    \E hot \in SeedKeys, delegator \in Delegators \cup {NoAid}, next \in Fresh : CreateIdentity(hot, next, delegator)

(* Any other call, for an AID.                                             *)
CallFor(a) ==
    \/ \E e \in OfferedEvents(a) : ProcessEvent(e)
    \/ RotateKeys(a)
    \/ \E k \in CallerKeys : GenerateAndStoreKeyPair(a, k)
    \/ \E k \in Fresh : SaveNext(a, k)
    \/ \E ks \in Backups : RegisterRecoveryKeys(a, ks)

Next == Create \/ \E a \in Aids : CallFor(a)

Spec == Init /\ [][Next]_nodeVars

-----------------------------------------------------------------------------
TypeOK ==
    /\ kel \in [Aids -> Seq(KELEvent)]
    /\ states \in [Aids -> IdentityState]
    /\ hotKeys \in [Aids -> KeyPair]
    /\ preRotated \in [Aids -> MaybeKey]
    /\ recovery \in [Aids -> Seq(Keys)]
    /\ wallet \in WalletStore
    /\ events \in Nat
    /\ saves \in Nat

(* Each log starts with its only inception, and each event behind it names *)
(* the digest of the event before it: the hash chain that                  *)
(* KELSelfValidator checks one link at a time.                             *)
LogIsChain ==
    \A a \in Aids : \A i \in 1..Len(kel[a]) :
        /\ kel[a][i].aid = a
        /\ kel[a][i].sn = i - 1
        /\ kel[a][i].type \in Inception <=> i = 1
        /\ i > 1 => kel[a][i].prior = kel[a][i - 1].id

(* The identity state other subsystems resolve is that of the last event   *)
(* of the log, and an AID resolves exactly when it has a log.              *)
StateFollowsLog ==
    \A a \in Aids : states[a] = IF Incepted(a) THEN Derive(Last(kel[a])) ELSE Unresolved

(* An AID that resolves does so for good: the senders the gateway knows    *)
(* and the issuers verify accepts are never forgotten, and their sequence  *)
(* numbers never fall.                                                     *)
StatesAdvance ==
    [][\A a \in Aids : states'[a].sn >= states[a].sn]_nodeVars

(* With a wallet a hot key can sign, and what is signed is signed with it, *)
(* whatever rotations, new keys and repeated seeds came before: private    *)
(* keys travel through the wallet and sign_data has two sources.           *)
HotKeysSign ==
    Wallet => \A a \in Aids : SignData(a) = hotKeys[a].public

(* HotKeysCache holds "currently-active (hot) signing key pairs", "the     *)
(* keys used for immediate signing operations" (kms.py:52-53).             *)
HotKeysAreActive ==
    \A a \in Aids : hotKeys[a].public # NoKey => SignData(a) = hotKeys[a].public

(* With a wallet every registered recovery key can be recovered from it by *)
(* its index, however often other lists were registered.                   *)
RecoveryIsBacked ==
    Wallet => \A a \in Aids : \A i \in 1..Len(recovery[a]) :
        i \in DOMAIN wallet.recovery[a] /\ wallet.recovery[a][i] = recovery[a][i]

(* An AID incepted by delegation has its delegator in its delegation chain *)
(* ("Returns AID delegation chain via KEL delegator links",                *)
(* authority.py:156).                                                      *)
DelegatorIsInChain ==
    \A a \in Aids :
        Incepted(a) /\ kel[a][1].delegator # NoAid =>
            \E i \in DOMAIN ResolveDelegationChain(a) :
                ResolveDelegationChain(a)[i] = kel[a][1].delegator

(* The logs together are a first-seen log.                                 *)
KelLog == INSTANCE FirstSeenLog
    WITH Digests <- Nat,
         log <- UNION {{[aid |-> a, sn |-> kel[a][i].sn, said |-> kel[a][i].id] :
                           i \in 1..Len(kel[a])} : a \in Aids}
IsFirstSeenLog == KelLog!Spec

=============================================================================
