----------------------------- MODULE NodeProofs -----------------------------
(***************************************************************************)
(* What holds of the KERI node for every set of keys, AIDs and events.     *)
(*                                                                         *)
(* The two halves of the state are independent: logs and identity states   *)
(* (LogInv), written by Process alone, and the key stores (KeyInv), tied   *)
(* together by what the wallet holds for each of them.  For the AIDs whose *)
(* rotations keep to the order, RotationHolds says what a rotation has in  *)
(* hand in each phase; calls for other AIDs leave it alone (OthersStay).   *)
(***************************************************************************)
EXTENDS KeyRotation, SequenceTheorems, TLAPS

LogTypes ==
    /\ kel \in [Aids -> Seq(KELEvent)]
    /\ states \in [Aids -> IdentityState]
    /\ events \in Nat

KeyTypes ==
    /\ hotKeys \in [Aids -> KeyPair]
    /\ preRotated \in [Aids -> MaybeKey]
    /\ recovery \in [Aids -> Seq(Keys)]
    /\ wallet \in WalletStore
    /\ saves \in Nat

LogInv == LogTypes /\ LogIsChain /\ StateFollowsLog

(* The wallet holds the private key of every pre-rotation entry and, where *)
(* there is no hot key, none for it either.                                *)
WalletFollows ==
    \A a \in Aids :
        /\ wallet.prerot[a] = IF Wallet THEN preRotated[a] ELSE NoKey
        /\ Wallet => hotKeys[a].private = hotKeys[a].public
        /\ hotKeys[a].public = NoKey => wallet.hot[a] = NoKey

KeyInv == KeyTypes /\ WalletFollows /\ RecoveryIsBacked

IInv == LogInv /\ KeyInv

-----------------------------------------------------------------------------
(* Logs and identity states.                                               *)

(* process_event keeps the logs hash chains and the states in step.        *)
LEMMA ProcessKeepsLog ==
    ASSUME LogInv, NEW e \in KELEvent, Process(e)
    PROVE  LogInv'
<1> DEFINE a == e.aid
           s == kel[a]
<1>0. a \in Aids /\ s \in Seq(KELEvent) /\ Len(s) \in Nat
  <2>1. a \in Aids
    BY DEF KELEvent
  <2>2. s \in Seq(KELEvent)
    BY <2>1 DEF LogInv, LogTypes
  <2> QED BY <2>1, <2>2, LenProperties
<1>1. kel' = [kel EXCEPT ![a] = Append(s, e)] /\ Valid(e) /\ events' = events + 1
      /\ states' = [states EXCEPT ![a] = Derive(e)]
  BY DEF Process
<1>2. Append(s, e) \in Seq(KELEvent) /\ Len(Append(s, e)) = Len(s) + 1
      /\ Append(s, e)[Len(s) + 1] = e
      /\ \A i \in 1..Len(s) : Append(s, e)[i] = s[i]
  BY <1>0
<1>3. LogTypes'
  <2>1. kel' \in [Aids -> Seq(KELEvent)]
    BY <1>0, <1>1, <1>2 DEF LogInv, LogTypes
  <2>2. Derive(e) \in IdentityState
    BY DEF Derive, IdentityState, KELEvent
  <2>3. states' \in [Aids -> IdentityState]
    BY <1>1, <2>2 DEF LogInv, LogTypes
  <2> QED BY <1>1, <2>1, <2>3 DEF LogInv, LogTypes
<1>4. LogIsChain'
  <2> SUFFICES ASSUME NEW b \in Aids, NEW i \in 1..Len(kel'[b])
               PROVE  /\ kel'[b][i].aid = b
                      /\ kel'[b][i].sn = i - 1
                      /\ kel'[b][i].type \in Inception <=> i = 1
                      /\ i > 1 => kel'[b][i].prior = kel'[b][i - 1].id
    BY DEF LogIsChain
  <2>1. CASE b # a
    BY <1>0, <1>1, <2>1 DEF LogInv, LogTypes, LogIsChain
  <2>2. CASE b = a /\ i <= Len(s)
    <3>1. kel'[b] = Append(s, e) /\ i \in 1..Len(s)
      BY <1>0, <1>1, <1>2, <2>2 DEF LogInv, LogTypes
    <3>2. kel'[b][i] = s[i] /\ (i > 1 => kel'[b][i - 1] = s[i - 1])
      BY <1>0, <1>2, <3>1
    <3> QED BY <1>0, <2>2, <3>1, <3>2 DEF LogInv, LogIsChain
  <2>3. CASE b = a /\ i = Len(s) + 1
    <3>1. kel'[b] = Append(s, e) /\ kel'[b][i] = e
      BY <1>0, <1>1, <1>2, <2>3 DEF LogInv, LogTypes
    <3>2. CASE s = <<>>
      BY <1>0, <1>1, <2>3, <3>1, <3>2 DEF Valid, Incepted
    <3>3. CASE s # <<>>
      <4>1. Len(s) \in 1..Len(s) /\ Len(s) > 0
        BY <1>0, <3>3
      <4>2. s[Len(s)].sn = Len(s) - 1
        BY <1>0, <4>1 DEF LogInv, LogIsChain
      <4>3. /\ e.type \notin Inception
            /\ e.sn = s[Len(s)].sn + 1
            /\ e.prior = s[Len(s)].id
        BY <1>1, <3>3 DEF Valid, Incepted, Last
      <4>4. kel'[b][i - 1] = s[Len(s)]
        BY <1>0, <1>2, <2>3, <3>1, <4>1
      <4> QED BY <1>0, <2>3, <3>1, <4>1, <4>2, <4>3, <4>4
    <3> QED BY <3>2, <3>3
  <2>4. Len(kel'[a]) = Len(s) + 1
    BY <1>0, <1>1, <1>2 DEF LogInv, LogTypes
  <2> QED BY <1>0, <2>1, <2>2, <2>3, <2>4
<1>5. StateFollowsLog'
  <2> SUFFICES ASSUME NEW b \in Aids
               PROVE  states'[b] = IF kel'[b] # <<>> THEN Derive(kel'[b][Len(kel'[b])])
                                   ELSE Unresolved
    BY DEF StateFollowsLog, Incepted, Last, Derive
  <2>1. CASE b # a
    BY <1>0, <1>1, <2>1 DEF LogInv, LogTypes, StateFollowsLog, Incepted, Last
  <2>2. CASE b = a
    <3>1. kel'[b] = Append(s, e) /\ states'[b] = Derive(e)
      BY <1>0, <1>1, <2>2 DEF LogInv, LogTypes
    <3>2. kel'[b] # <<>> /\ kel'[b][Len(kel'[b])] = e
      BY <1>0, <1>2, <3>1
    <3> QED BY <3>1, <3>2
  <2> QED BY <2>1, <2>2
<1> QED BY <1>3, <1>4, <1>5 DEF LogInv

(* Whatever leaves logs and states alone keeps them right.                 *)
LEMMA LogUnchanged ==
    ASSUME LogInv, UNCHANGED identity
    PROVE  LogInv'
  BY DEF LogInv, LogTypes, LogIsChain, StateFollowsLog, Incepted, Last, Derive, identity

(* The events that are processed are events.                               *)
LEMMA EventsAreEvents ==
    ASSUME events \in Nat
    PROVE  /\ \A hot \in SeedKeys, next \in Fresh, d \in Delegators \cup {NoAid} :
                 InceptionEvent(hot, next, d) \in KELEvent
           /\ \A a \in Aids : OfferedEvents(a) \subseteq KELEvent
<1>1. ASSUME NEW hot \in SeedKeys, NEW next \in Fresh, NEW d \in Delegators \cup {NoAid}
      PROVE  InceptionEvent(hot, next, d) \in KELEvent
  <2>1. next \in Keys /\ hot \in Keys /\ Prefix[hot] \in Aids /\ d \in Aids \cup {NoAid}
    BY NodeConstants DEF Fresh
  <2> QED BY <2>1 DEF InceptionEvent, KELEvent, MaybeKey, Types, Inception
<1>2. ASSUME NEW a \in Aids, NEW e \in OfferedEvents(a)
      PROVE  e \in KELEvent
  <2>1. /\ Offered \subseteq Types /\ KeyLists \subseteq SUBSET Keys /\ Nexts \subseteq MaybeKey
        /\ Delegators \subseteq Aids /\ 0..(events + 1) \subseteq Int /\ 0..events \subseteq Nat
    BY NodeConstants DEF Types, Inception, MaybeKey
  <2>2. e \in [type : Types, aid : Aids, sn : Int, keys : SUBSET Keys, next : MaybeKey,
               prior : Nat \cup {NoDigest}, delegator : Aids \cup {NoAid}, id : Nat]
    BY <2>1, Zenon DEF OfferedEvents
  <2> QED BY <2>2 DEF KELEvent
<1> QED BY <1>1, <1>2

-----------------------------------------------------------------------------
(* The key stores.                                                         *)

LEMMA FiledKeepsNew ==
    ASSUME NEW S, NEW old \in Seq(S), NEW new \in Seq(S)
    PROVE  /\ Filed(old, new) \in Seq(S)
           /\ \A i \in 1..Len(new) : i \in DOMAIN Filed(old, new) /\ Filed(old, new)[i] = new[i]
<1> DEFINE rest == SubSeq(old, Len(new) + 1, Len(old))
<1>1. rest \in Seq(S)
  <2>1. CASE Len(new) + 1 <= Len(old)
    BY <2>1
  <2>2. CASE ~(Len(new) + 1 <= Len(old))
    BY <2>2
  <2> QED BY <2>1, <2>2
<1>2. new \o rest \in Seq(S) /\ Len(new \o rest) = Len(new) + Len(rest)
      /\ \A i \in 1..Len(new) : (new \o rest)[i] = new[i]
  BY <1>1
<1> QED BY <1>1, <1>2 DEF Filed

(* save writes entry and wallet together.                                  *)
LEMMA SaveKeepsKeys ==
    ASSUME KeyInv, NEW a \in Aids, NEW k \in Keys, SavePreRotated(a, k),
           hotKeys' \in [Aids -> KeyPair],
           \A b \in Aids : /\ Wallet => hotKeys'[b].private = hotKeys'[b].public
                           /\ hotKeys'[b].public = NoKey => wallet.hot[b] = NoKey,
           recovery' = recovery, saves' \in Nat
    PROVE  KeyInv'
<1>1. preRotated' = [preRotated EXCEPT ![a] = k]
      /\ wallet' = IF Wallet THEN [wallet EXCEPT !.prerot[a] = k] ELSE wallet
  BY DEF SavePreRotated
<1>2. wallet' \in WalletStore /\ wallet'.hot = wallet.hot /\ wallet'.recovery = wallet.recovery
      /\ wallet'.prerot = IF Wallet THEN [wallet.prerot EXCEPT ![a] = k] ELSE wallet.prerot
  BY <1>1 DEF KeyInv, KeyTypes, WalletStore, MaybeKey
<1>3. KeyTypes'
  BY <1>1, <1>2 DEF KeyInv, KeyTypes, MaybeKey
<1>4. WalletFollows'
  BY <1>1, <1>2 DEF KeyInv, KeyTypes, WalletFollows, WalletStore
<1>5. RecoveryIsBacked'
  BY <1>2 DEF KeyInv, RecoveryIsBacked
<1> QED BY <1>3, <1>4, <1>5 DEF KeyInv

LEMMA KeysUnchanged ==
    ASSUME KeyInv, UNCHANGED <<keyStores, saves>>
    PROVE  KeyInv'
  BY DEF KeyInv, KeyTypes, WalletFollows, RecoveryIsBacked, keyStores

LEMMA CreateKeepsKeys ==
    ASSUME IInv, Create
    PROVE  KeyInv'
<1>1. PICK hot \in SeedKeys, d \in Delegators \cup {NoAid}, next \in Fresh :
          CreateIdentity(hot, next, d)
  BY DEF Create
<1> DEFINE e == InceptionEvent(hot, next, d)
<1>2. CASE UNCHANGED nodeVars
  BY <1>2, KeysUnchanged DEF nodeVars, IInv
<1>3. CASE ~UNCHANGED nodeVars
  <2>1. /\ hotKeys' = [hotKeys EXCEPT ![e.aid] = [public |-> hot, private |-> hot]]
        /\ SavePreRotated(e.aid, next)
        /\ UNCHANGED <<recovery, saves>>
    BY <1>1, <1>3 DEF CreateIdentity
  <2>2. e.aid \in Aids /\ hot \in Keys /\ next \in Keys /\ hot # NoKey
    BY NodeConstants DEF InceptionEvent, Fresh
  <2>3. [public |-> hot, private |-> hot] \in KeyPair
    BY <2>2 DEF KeyPair, MaybeKey
  <2>4. hotKeys' \in [Aids -> KeyPair]
    BY <2>1, <2>3 DEF IInv, KeyInv, KeyTypes
  <2>5. \A b \in Aids : /\ Wallet => hotKeys'[b].private = hotKeys'[b].public
                        /\ hotKeys'[b].public = NoKey => wallet.hot[b] = NoKey
    BY <2>1, <2>2 DEF IInv, KeyInv, KeyTypes, WalletFollows
  <2> QED BY <2>1, <2>2, <2>4, <2>5, SaveKeepsKeys DEF IInv, KeyInv, KeyTypes
<1> QED BY <1>2, <1>3

LEMMA RotateKeepsKeys ==
    ASSUME KeyInv, NEW a \in Aids, RotateKeys(a)
    PROVE  KeyInv'
<1>1. /\ preRotated[a] # NoKey
      /\ hotKeys' = [hotKeys EXCEPT ![a] = Promoted(a)]
      /\ UNCHANGED <<preRotated, recovery, wallet, saves>>
  BY DEF RotateKeys
<1>2. Promoted(a) = [public |-> preRotated[a],
                     private |-> IF Wallet THEN preRotated[a] ELSE NoKey]
  BY DEF Promoted, KeyInv, WalletFollows
<1>3. Promoted(a) \in KeyPair
  BY <1>2 DEF KeyPair, KeyInv, KeyTypes, MaybeKey
<1>4. KeyTypes'
  BY <1>1, <1>3 DEF KeyInv, KeyTypes
<1>5. WalletFollows'
  BY <1>1, <1>2 DEF KeyInv, KeyTypes, WalletFollows
<1> QED BY <1>1, <1>4, <1>5 DEF KeyInv, RecoveryIsBacked

LEMMA GenerateKeepsKeys ==
    ASSUME KeyInv, NEW a \in Aids, NEW k \in CallerKeys, GenerateAndStoreKeyPair(a, k)
    PROVE  KeyInv'
<1> k \in Keys /\ k # NoKey
  BY NodeConstants
<1>1. /\ hotKeys' = [hotKeys EXCEPT ![a] = [public |-> k, private |-> k]]
      /\ wallet' = IF Wallet THEN [wallet EXCEPT !.hot[a] = k] ELSE wallet
      /\ UNCHANGED <<preRotated, recovery, saves>>
  BY DEF GenerateAndStoreKeyPair
<1>2. wallet' \in WalletStore /\ wallet'.prerot = wallet.prerot
      /\ wallet'.recovery = wallet.recovery
      /\ wallet'.hot = IF Wallet THEN [wallet.hot EXCEPT ![a] = k] ELSE wallet.hot
  BY <1>1 DEF KeyInv, KeyTypes, WalletStore, MaybeKey
<1>3. [public |-> k, private |-> k] \in KeyPair
  BY DEF KeyPair, MaybeKey
<1>4. KeyTypes'
  BY <1>1, <1>2, <1>3 DEF KeyInv, KeyTypes
<1>5. WalletFollows'
  BY <1>1, <1>2 DEF KeyInv, KeyTypes, WalletFollows, WalletStore
<1> QED BY <1>1, <1>2, <1>4, <1>5 DEF KeyInv, RecoveryIsBacked

LEMMA RegisterKeepsKeys ==
    ASSUME KeyInv, NEW a \in Aids, NEW ks \in Backups, RegisterRecoveryKeys(a, ks)
    PROVE  KeyInv'
<1>0. ks \in Seq(Keys)
  BY NodeConstants
<1>1. /\ recovery' = [recovery EXCEPT ![a] = ks]
      /\ wallet' = IF Wallet THEN [wallet EXCEPT !.recovery[a] = Filed(@, ks)] ELSE wallet
      /\ UNCHANGED <<hotKeys, preRotated, saves>>
  BY DEF RegisterRecoveryKeys
<1>2. wallet.recovery[a] \in Seq(Keys)
  BY DEF KeyInv, KeyTypes, WalletStore
<1> DEFINE f == Filed(wallet.recovery[a], ks)
<1>3. f \in Seq(Keys) /\ \A i \in 1..Len(ks) : i \in DOMAIN f /\ f[i] = ks[i]
  BY <1>0, <1>2, FiledKeepsNew
<1>4. wallet' \in WalletStore /\ wallet'.prerot = wallet.prerot /\ wallet'.hot = wallet.hot
      /\ wallet'.recovery = IF Wallet THEN [wallet.recovery EXCEPT ![a] = f] ELSE wallet.recovery
  BY <1>1, <1>3 DEF KeyInv, KeyTypes, WalletStore
<1>5. KeyTypes'
  BY <1>0, <1>1, <1>4 DEF KeyInv, KeyTypes
<1>6. WalletFollows'
  BY <1>1, <1>4 DEF KeyInv, WalletFollows
<1>7. RecoveryIsBacked'
  BY <1>0, <1>1, <1>3, <1>4 DEF KeyInv, KeyTypes, RecoveryIsBacked, WalletStore
<1> QED BY <1>5, <1>6, <1>7 DEF KeyInv

-----------------------------------------------------------------------------
LEMMA InitInv == Init => IInv
<1> SUFFICES ASSUME Init PROVE IInv
  OBVIOUS
<1>1. LogInv
  BY NodeConstants DEF Init, LogInv, LogTypes, LogIsChain, StateFollowsLog, Incepted, Unresolved,
     IdentityState, MaybeKey
<1>2. KeyTypes
  BY DEF Init, KeyTypes, NoPair, KeyPair, MaybeKey, WalletStore
<1>3. WalletFollows /\ RecoveryIsBacked
  BY DEF Init, WalletFollows, RecoveryIsBacked, NoPair
<1> QED BY <1>1, <1>2, <1>3 DEF IInv, KeyInv

LEMMA CreateKeepsLog ==
    ASSUME LogInv, Create
    PROVE  LogInv'
<1>1. PICK hot \in SeedKeys, d \in Delegators \cup {NoAid}, next \in Fresh :
          CreateIdentity(hot, next, d)
  BY DEF Create
<1>2. InceptionEvent(hot, next, d) \in KELEvent
  BY EventsAreEvents DEF LogInv, LogTypes
<1>3. CASE Process(InceptionEvent(hot, next, d))
  BY <1>2, <1>3, ProcessKeepsLog
<1>4. CASE UNCHANGED nodeVars
  BY <1>4, LogUnchanged DEF nodeVars
<1> QED BY <1>1, <1>3, <1>4 DEF CreateIdentity

LEMMA CallKeepsInv ==
    ASSUME IInv, NEW a \in Aids, CallFor(a)
    PROVE  IInv'
<1> USE DEF IInv
<1>1. ASSUME NEW e \in OfferedEvents(a), ProcessEvent(e)
      PROVE  IInv'
  <2>1. e \in KELEvent
    BY EventsAreEvents DEF LogInv, LogTypes
  <2> QED BY <1>1, <2>1, ProcessKeepsLog, KeysUnchanged DEF ProcessEvent
<1>2. CASE RotateKeys(a)
  BY <1>2, RotateKeepsKeys, LogUnchanged DEF RotateKeys
<1>3. CASE \E k \in CallerKeys : GenerateAndStoreKeyPair(a, k)
  BY <1>3, GenerateKeepsKeys, LogUnchanged DEF GenerateAndStoreKeyPair
<1>4. ASSUME NEW k \in Fresh, SaveNext(a, k)
      PROVE  IInv'
  <2>1. k \in Keys /\ saves' \in Nat
    BY <1>4 DEF Fresh, SaveNext, KeyInv, KeyTypes
  <2>2. SavePreRotated(a, k) /\ hotKeys' = hotKeys /\ recovery' = recovery /\ UNCHANGED identity
    BY <1>4 DEF SaveNext
  <2>3. KeyInv'
    BY <2>1, <2>2, SaveKeepsKeys DEF KeyInv, KeyTypes, WalletFollows
  <2> QED BY <2>2, <2>3, LogUnchanged
<1>5. CASE \E ks \in Backups : RegisterRecoveryKeys(a, ks)
  BY <1>5, RegisterKeepsKeys, LogUnchanged DEF RegisterRecoveryKeys
<1> QED BY <1>1, <1>2, <1>3, <1>4, <1>5 DEF CallFor

LEMMA NextKeepsInv == IInv /\ [Next]_nodeVars => IInv'
<1> SUFFICES ASSUME IInv, [Next]_nodeVars PROVE IInv'
  OBVIOUS
<1>1. CASE Create
  BY <1>1, CreateKeepsLog, CreateKeepsKeys DEF IInv
<1>2. CASE UNCHANGED nodeVars
  BY <1>2, LogUnchanged, KeysUnchanged DEF IInv, nodeVars
<1> QED BY <1>1, <1>2, CallKeepsInv DEF Next

LEMMA Invariance == Spec => []IInv
  BY InitInv, NextKeepsInv, PTL DEF Spec

-----------------------------------------------------------------------------
(* The variables of the node keep their types, and a cached private key    *)
(* belongs to the public key beside it.                                    *)
THEOREM TypeCorrect == Spec => []TypeOK
<1>1. IInv => TypeOK
  BY DEF IInv, LogInv, LogTypes, KeyInv, KeyTypes, TypeOK
<1> QED BY <1>1, Invariance, PTL

(* The logs are hash chains that start with their only inception.          *)
THEOREM LogsAreChains == Spec => []LogIsChain
<1>1. IInv => LogIsChain
  BY DEF IInv, LogInv
<1> QED BY <1>1, Invariance, PTL

(* Identity states are those of the last events of the logs.               *)
THEOREM StatesFollowLogs == Spec => []StateFollowsLog
<1>1. IInv => StateFollowsLog
  BY DEF IInv, LogInv
<1> QED BY <1>1, Invariance, PTL

(* With a wallet every hot key signs, and signs as itself.                 *)
THEOREM HotKeysCanSign == Spec => []HotKeysSign
<1>1. IInv => HotKeysSign
  <2> SUFFICES ASSUME IInv, Wallet, NEW a \in Aids
               PROVE  SignData(a) = hotKeys[a].public
    BY DEF HotKeysSign
  <2>1. hotKeys[a].private = hotKeys[a].public
        /\ (hotKeys[a].public = NoKey => wallet.hot[a] = NoKey)
    BY DEF IInv, KeyInv, WalletFollows
  <2> QED BY <2>1 DEF SignData
<1> QED BY <1>1, Invariance, PTL

(* With a wallet every registered recovery key is in it.                   *)
THEOREM RecoveryKeysAreKept == Spec => []RecoveryIsBacked
<1>1. IInv => RecoveryIsBacked
  BY DEF IInv, KeyInv
<1> QED BY <1>1, Invariance, PTL

-----------------------------------------------------------------------------
(* What the outside sees of the logs.                                      *)

(* Only process_event writes logs and states.                              *)
LEMMA OnlyProcessWrites ==
    ASSUME LogInv, [Next]_nodeVars
    PROVE  UNCHANGED identity \/ \E e \in KELEvent : Process(e)
<1>1. CASE Create
  <2>1. PICK hot \in SeedKeys, d \in Delegators \cup {NoAid}, next \in Fresh :
            CreateIdentity(hot, next, d)
    BY <1>1 DEF Create
  <2>2. InceptionEvent(hot, next, d) \in KELEvent
    BY EventsAreEvents DEF LogInv, LogTypes
  <2> QED BY <2>1, <2>2 DEF CreateIdentity, nodeVars
<1>2. ASSUME NEW a \in Aids, CallFor(a)
      PROVE  UNCHANGED identity \/ \E e \in KELEvent : Process(e)
  <2>1. CASE \E e \in OfferedEvents(a) : ProcessEvent(e)
    BY <2>1, EventsAreEvents DEF ProcessEvent, LogInv, LogTypes
  <2>2. CASE RotateKeys(a)
    BY <2>2 DEF RotateKeys
  <2>3. CASE \E k \in CallerKeys : GenerateAndStoreKeyPair(a, k)
    BY <2>3 DEF GenerateAndStoreKeyPair
  <2>4. CASE \E k \in Fresh : SaveNext(a, k)
    BY <2>4 DEF SaveNext
  <2>5. CASE \E ks \in Backups : RegisterRecoveryKeys(a, ks)
    BY <2>5 DEF RegisterRecoveryKeys
  <2> QED BY <1>2, <2>1, <2>2, <2>3, <2>4, <2>5 DEF CallFor
<1> QED BY <1>1, <1>2 DEF Next, nodeVars

(* The sequence number of an identity state is one less than the length of *)
(* the log, and a processed event continues both.                          *)
LEMMA ProcessContinues ==
    ASSUME LogInv, NEW e \in KELEvent, Process(e)
    PROVE  /\ e.aid \in Aids
           /\ kel[e.aid] \in Seq(KELEvent)
           /\ kel' = [kel EXCEPT ![e.aid] = Append(kel[e.aid], e)]
           /\ states' = [states EXCEPT ![e.aid] = Derive(e)]
           /\ e.sn = Len(kel[e.aid])
<1> DEFINE s == kel[e.aid]
<1>1. e.aid \in Aids
  BY DEF KELEvent
<1>2. s \in Seq(KELEvent)
  BY <1>1 DEF LogInv, LogTypes
<1>3. Len(s) \in Nat
  BY <1>2, LenProperties
<1>4. e.sn = Len(s)
  <2>1. CASE s = <<>>
    BY <2>1 DEF Process, Valid, Incepted
  <2>2. CASE s # <<>>
    <3>1. Len(s) \in 1..Len(s)
      BY <1>2, <1>3, <2>2, EmptySeq
    <3>2. s[Len(s)].sn = Len(s) - 1
      BY <1>1, <3>1 DEF LogInv, LogIsChain
    <3> QED BY <1>3, <2>2, <3>2 DEF Process, Valid, Incepted, Last
  <2> QED BY <2>1, <2>2
<1> QED BY <1>1, <1>2, <1>4 DEF Process

(* An AID that resolves keeps doing so, under a number that never falls.   *)
THEOREM StatesOnlyAdvance == Spec => StatesAdvance
<1>1. IInv /\ [Next]_nodeVars => [\A a \in Aids : states'[a].sn >= states[a].sn]_nodeVars
  <2> SUFFICES ASSUME IInv, [Next]_nodeVars, NEW a \in Aids
               PROVE  states'[a].sn >= states[a].sn
    OBVIOUS
  <2>0. states[a].sn \in Int
    BY DEF IInv, LogInv, LogTypes, IdentityState
  <2>1. CASE UNCHANGED identity
    BY <2>0, <2>1 DEF identity
  <2>2. CASE \E e \in KELEvent : Process(e)
    <3>1. PICK e \in KELEvent : Process(e)
      BY <2>2
    <3> DEFINE s == kel[a]
    <3>2. s \in Seq(KELEvent) /\ Len(s) \in Nat
      BY LenProperties DEF IInv, LogInv, LogTypes
    <3>3. states[a].sn <= Len(s)
      <4>1. CASE s = <<>>
        BY <4>1, <3>2 DEF IInv, LogInv, StateFollowsLog, Incepted, Unresolved
      <4>2. CASE s # <<>>
        <5>1. Len(s) \in 1..Len(s)
          BY <3>2, <4>2, EmptySeq
        <5>2. s[Len(s)].sn = Len(s) - 1
          BY <5>1 DEF IInv, LogInv, LogIsChain
        <5>3. states[a] = Derive(s[Len(s)])
          BY <4>2, Zenon DEF IInv, LogInv, StateFollowsLog, Incepted, Last
        <5>4. Derive(s[Len(s)]).sn = s[Len(s)].sn
          BY DEF Derive
        <5> QED BY <3>2, <5>2, <5>3, <5>4
      <4> QED BY <4>1, <4>2
    <3>4. CASE a = e.aid
      <4>1. states' = [states EXCEPT ![a] = Derive(e)] /\ e.sn = Len(s)
        BY <3>1, <3>4, ProcessContinues, Zenon DEF IInv
      <4>2. states'[a] = Derive(e)
        BY <4>1 DEF IInv, LogInv, LogTypes
      <4>3. Derive(e).sn = e.sn
        BY DEF Derive
      <4> QED BY <2>0, <3>2, <3>3, <4>1, <4>2, <4>3
    <3>5. CASE a # e.aid
      <4>1. states'[a] = states[a]
        BY <3>1, <3>5, ProcessContinues DEF IInv, LogInv, LogTypes
      <4> QED BY <2>0, <4>1
    <3> QED BY <3>4, <3>5
  <2> QED BY <2>1, <2>2, OnlyProcessWrites DEF IInv
<1> QED BY <1>1, Invariance, PTL DEF Spec, StatesAdvance

Slots(logs) ==
    UNION {{[aid |-> a, sn |-> logs[a][i].sn, said |-> logs[a][i].id] :
               i \in 1..Len(logs[a])} : a \in Aids}

(* Processing an event fills the slot behind the last one.                 *)
LEMMA ProcessSees ==
    ASSUME LogInv, NEW e \in KELEvent, Process(e)
    PROVE  LET x == [aid |-> e.aid, sn |-> e.sn, said |-> e.id]
           IN  /\ Slots(kel') = Slots(kel) \cup {x}
               /\ \A y \in Slots(kel) : ~(y.aid = x.aid /\ y.sn = x.sn)
               /\ x.sn > 0 => \E y \in Slots(kel) : y.aid = x.aid /\ y.sn = x.sn - 1
               /\ x \in [aid : Aids, sn : Nat, said : Nat]
<1> DEFINE a == e.aid
           s == kel[a]
           x == [aid |-> e.aid, sn |-> e.sn, said |-> e.id]
           S(logs, b) == {[aid |-> b, sn |-> logs[b][i].sn, said |-> logs[b][i].id] :
                             i \in 1..Len(logs[b])}
<1>1. /\ a \in Aids
      /\ s \in Seq(KELEvent) /\ Len(s) \in Nat
      /\ kel' = [kel EXCEPT ![a] = Append(s, e)]
      /\ e.sn = Len(s)
  BY ProcessContinues, LenProperties
<1>2. /\ Len(Append(s, e)) = Len(s) + 1
      /\ Append(s, e)[Len(s) + 1] = e
      /\ \A i \in 1..Len(s) : Append(s, e)[i] = s[i]
  BY <1>1, AppendProperties
<1>3. kel'[a] = Append(s, e) /\ \A b \in Aids \ {a} : kel'[b] = kel[b]
  BY <1>1 DEF LogInv, LogTypes
<1>4. S(kel', a) = S(kel, a) \cup {x}
  <2>1. 1..(Len(s) + 1) = 1..Len(s) \cup {Len(s) + 1}
    BY <1>1
  <2>2. ASSUME NEW y
        PROVE  y \in S(kel', a) <=> y \in S(kel, a) \cup {x}
    BY <1>2, <1>3, <2>1
  <2> QED BY <2>2
<1>5. \A b \in Aids \ {a} : S(kel', b) = S(kel, b)
  BY <1>3
<1>6. Slots(kel') = UNION {S(kel', b) : b \in Aids} /\ Slots(kel) = UNION {S(kel, b) : b \in Aids}
  BY DEF Slots
<1> HIDE DEF S
<1>7. Slots(kel') = Slots(kel) \cup {x}
  <2>1. ASSUME NEW y
        PROVE  y \in Slots(kel') <=> y \in Slots(kel) \cup {x}
    <3>1. y \in Slots(kel') <=> \E b \in Aids : y \in S(kel', b)
      BY <1>6, Zenon
    <3>2. y \in Slots(kel) <=> \E b \in Aids : y \in S(kel, b)
      BY <1>6, Zenon
    <3>3. \A b \in Aids : y \in S(kel', b) <=> y \in S(kel, b) \/ (b = a /\ y = x)
      BY <1>4, <1>5, Zenon
    <3> QED BY <1>1, <3>1, <3>2, <3>3, Zenon
  <2> QED BY <2>1
<1>8. \A y \in Slots(kel) : ~(y.aid = x.aid /\ y.sn = x.sn)
  <2> SUFFICES ASSUME NEW y \in Slots(kel), y.aid = a, y.sn = e.sn
               PROVE  FALSE
    OBVIOUS
  <2>0. PICK b \in Aids : \E i \in 1..Len(kel[b]) :
            y = [aid |-> b, sn |-> kel[b][i].sn, said |-> kel[b][i].id]
    BY DEF Slots
  <2>1. PICK i \in 1..Len(kel[b]) :
            y = [aid |-> b, sn |-> kel[b][i].sn, said |-> kel[b][i].id]
    BY <2>0
  <2>2. b = a /\ y.sn = i - 1
    BY <2>1 DEF LogInv, LogIsChain
  <2> QED BY <1>1, <2>1, <2>2
<1>9. x.sn > 0 => \E y \in Slots(kel) : y.aid = x.aid /\ y.sn = x.sn - 1
  <2> SUFFICES ASSUME e.sn > 0
               PROVE  \E y \in Slots(kel) : y.aid = a /\ y.sn = e.sn - 1
    OBVIOUS
  <2> DEFINE y == [aid |-> a, sn |-> s[Len(s)].sn, said |-> s[Len(s)].id]
  <2>1. Len(s) \in 1..Len(s)
    BY <1>1
  <2>2. s[Len(s)].sn = Len(s) - 1
    BY <1>1, <2>1 DEF LogInv, LogIsChain
  <2>3. y \in Slots(kel)
    BY <1>1, <2>1 DEF Slots
  <2>4. y.aid = a /\ y.sn = e.sn - 1
    BY <1>1, <2>2
  <2> QED BY <2>3, <2>4
<1>10. x \in [aid : Aids, sn : Nat, said : Nat]
  BY <1>1 DEF KELEvent
<1> QED BY <1>7, <1>8, <1>9, <1>10

(* The logs of the node implement the abstract first-seen log.             *)
THEOREM LogsAreFirstSeenLog == Spec => IsFirstSeenLog
<1>1. Init => KelLog!Init
  <2> SUFFICES ASSUME Init PROVE Slots(kel) = {}
    BY DEF KelLog!Init, Slots
  <2>1. \A a \in Aids : Len(kel[a]) = 0
    BY DEF Init
  <2>2. \A a \in Aids : 1..Len(kel[a]) = {}
    BY <2>1
  <2> QED BY <2>2 DEF Slots
<1>2. IInv /\ [Next]_nodeVars => [KelLog!Next]_(Slots(kel))
  <2> SUFFICES ASSUME IInv, [Next]_nodeVars
               PROVE  KelLog!Next \/ Slots(kel') = Slots(kel)
    BY DEF Slots
  <2>1. CASE UNCHANGED identity
    BY <2>1 DEF identity
  <2>2. CASE \E e \in KELEvent : Process(e)
    <3>1. PICK e \in KELEvent : Process(e)
      BY <2>2
    <3> DEFINE x == [aid |-> e.aid, sn |-> e.sn, said |-> e.id]
    <3>2. /\ Slots(kel') = Slots(kel) \cup {x}
          /\ \A y \in Slots(kel) : ~(y.aid = x.aid /\ y.sn = x.sn)
          /\ x.sn > 0 => \E y \in Slots(kel) : y.aid = x.aid /\ y.sn = x.sn - 1
          /\ x \in [aid : Aids, sn : Nat, said : Nat]
      BY <3>1, ProcessSees DEF IInv
    <3>3. KelLog!See(x) /\ x \in KelLog!Entry
      BY <3>2 DEF KelLog!See, KelLog!Seen, KelLog!Entry, Slots
    <3>4. x \notin Slots(kel)
      BY <3>2
    <3>5. KelLog!Next
      BY <3>2, <3>3, <3>4 DEF KelLog!Next, Slots
    <3> QED BY <3>5
  <2> QED BY <2>1, <2>2, OnlyProcessWrites DEF IInv
<1> QED BY <1>1, <1>2, Invariance, PTL DEF Spec, IsFirstSeenLog, KelLog!Spec, Slots

-----------------------------------------------------------------------------
(* Rotation by the application.                                            *)

RotationTypes ==
    /\ phase \in [Aids -> Phases \cup {"free"}]
    /\ incoming \in [Aids -> MaybeKey]

(* What a rotation has in hand: keys to promote and to save, no generated  *)
(* key in the wallet, and a hot key that some event named.                 *)
HoldsFor(a) ==
    /\ wallet.hot[a] = NoKey
    /\ Incepted(a) => preRotated[a] \in Keys
    /\ phase[a] # "settled" => Incepted(a) /\ incoming[a] \in Keys
    /\ phase[a] = "logged" =>
          \E i \in 1..Len(kel[a]) : /\ hotKeys[a].public \in kel[a][i].keys
                                    /\ kel[a][i].next = preRotated[a]

RotationHolds == \A a \in Ordered : HoldsFor(a)

RotationInv == IInv /\ RotationTypes /\ RotationHolds /\ KeysFollowLog /\ CommitmentsHonoured

(* Key stores that stay the same leave what a rotation holds alone.        *)
LEMMA StoresOf ==
    ASSUME KeyInv, NEW a \in Aids, NEW k \in Keys, SavePreRotated(a, k)
    PROVE  /\ wallet'.hot = wallet.hot
           /\ preRotated' = [preRotated EXCEPT ![a] = k]
<1>1. wallet' = IF Wallet THEN [wallet EXCEPT !.prerot[a] = k] ELSE wallet
  BY DEF SavePreRotated
<1>2. wallet'.hot = wallet.hot
  BY <1>1 DEF KeyInv, KeyTypes, WalletStore
<1> QED BY <1>2 DEF SavePreRotated

(* The commitment of every event behind the first is kept when an event is *)
(* appended that keeps it.                                                 *)
LEMMA AppendHonours ==
    ASSUME LogInv, CommitmentsHonoured, NEW e \in KELEvent, Process(e), Ordered' = Ordered,
           Incepted(e.aid) => \/ e.keys = {kel[e.aid][Len(kel[e.aid])].next}
                              \/ /\ e.keys = kel[e.aid][Len(kel[e.aid])].keys
                                 /\ e.next = kel[e.aid][Len(kel[e.aid])].next
    PROVE  CommitmentsHonoured'
<1> DEFINE a == e.aid
           s == kel[a]
<1>1. /\ a \in Aids
      /\ s \in Seq(KELEvent) /\ Len(s) \in Nat
      /\ kel' = [kel EXCEPT ![a] = Append(s, e)]
  BY ProcessContinues, LenProperties
<1>2. /\ Len(Append(s, e)) = Len(s) + 1
      /\ Append(s, e)[Len(s) + 1] = e
      /\ \A i \in 1..Len(s) : Append(s, e)[i] = s[i]
  BY <1>1, AppendProperties
<1>3. kel'[a] = Append(s, e) /\ \A b \in Aids \ {a} : kel'[b] = kel[b]
  BY <1>1 DEF LogInv, LogTypes
<1> SUFFICES ASSUME NEW b \in Ordered, NEW i \in 2..Len(kel'[b])
             PROVE  \/ kel'[b][i].keys = {kel'[b][i - 1].next}
                    \/ /\ kel'[b][i].keys = kel'[b][i - 1].keys
                       /\ kel'[b][i].next = kel'[b][i - 1].next
  BY DEF CommitmentsHonoured
<1>0. b \in Aids
  BY DEF Ordered
<1>4. CASE b # a
  BY <1>0, <1>3, <1>4 DEF CommitmentsHonoured
<1>5. CASE b = a /\ i <= Len(s)
  <2>1. i \in 2..Len(s) /\ i \in 1..Len(s) /\ i - 1 \in 1..Len(s)
    BY <1>1, <1>2, <1>3, <1>5
  <2>2. kel'[b][i] = s[i] /\ kel'[b][i - 1] = s[i - 1]
    BY <1>2, <1>3, <1>5, <2>1
  <2> QED BY <1>1, <1>5, <2>1, <2>2 DEF CommitmentsHonoured
<1>6. CASE b = a /\ i = Len(s) + 1
  <2>1. Len(s) \in 1..Len(s) /\ s # <<>>
    BY <1>1, <1>6
  <2>2. kel'[b][i] = e /\ kel'[b][i - 1] = s[Len(s)]
    BY <1>1, <1>2, <1>3, <1>6, <2>1
  <2> QED BY <2>1, <2>2 DEF Incepted
<1> QED BY <1>0, <1>1, <1>2, <1>3, <1>4, <1>5, <1>6

(* The state of an incepted AID is that of the last event of its log.      *)
LEMMA LastEvent ==
    ASSUME LogInv, NEW a \in Aids, Incepted(a)
    PROVE  /\ Len(kel[a]) \in 1..Len(kel[a])
           /\ states[a].keys = kel[a][Len(kel[a])].keys
           /\ states[a].next = kel[a][Len(kel[a])].next
<1>1. Len(kel[a]) \in Nat /\ kel[a] \in Seq(KELEvent)
  BY LenProperties DEF LogInv, LogTypes
<1>2. states[a] = Derive(kel[a][Len(kel[a])])
  BY Zenon DEF LogInv, StateFollowsLog, Last
<1> QED BY <1>1, <1>2, EmptySeq DEF Incepted, Derive

(* One event more: the AID's log and state, and nobody else's.             *)
LEMMA ProcessExtends ==
    ASSUME LogInv, NEW e \in KELEvent, Process(e)
    PROVE  /\ e.aid \in Aids
           /\ states'[e.aid].keys = e.keys /\ states'[e.aid].next = e.next
           /\ kel'[e.aid] # <<>>
           /\ \A i \in 1..Len(kel[e.aid]) : i \in 1..Len(kel'[e.aid])
                                            /\ kel'[e.aid][i] = kel[e.aid][i]
           /\ \A b \in Aids \ {e.aid} : kel'[b] = kel[b] /\ states'[b] = states[b]
<1> DEFINE a == e.aid
           s == kel[a]
<1>1. /\ a \in Aids
      /\ s \in Seq(KELEvent) /\ Len(s) \in Nat
      /\ kel' = [kel EXCEPT ![a] = Append(s, e)]
      /\ states' = [states EXCEPT ![a] = Derive(e)]
  BY ProcessContinues, LenProperties
<1>2. /\ Len(Append(s, e)) = Len(s) + 1 /\ Append(s, e) # <<>>
      /\ \A i \in 1..Len(s) : Append(s, e)[i] = s[i]
  BY <1>1, AppendProperties
<1>3. kel'[a] = Append(s, e) /\ states'[a] = Derive(e)
      /\ \A b \in Aids \ {a} : kel'[b] = kel[b] /\ states'[b] = states[b]
  BY <1>1 DEF LogInv, LogTypes
<1> QED BY <1>1, <1>2, <1>3 DEF Derive

LEMMA InceptKeeps ==
    ASSUME RotationInv, Incept
    PROVE  RotationInv'
<1> USE DEF RotationInv
<1>1. IInv'
  BY CreateKeepsLog, CreateKeepsKeys DEF Incept, IInv
<1>2. PICK hot \in SeedKeys, d \in Delegators \cup {NoAid}, next \in Fresh :
          CreateIdentity(hot, next, d)
  BY DEF Incept, Create
<1>3. phase' = phase /\ incoming' = incoming /\ Ordered' = Ordered
  BY DEF Incept, Ordered
<1>4. CASE UNCHANGED nodeVars
  BY <1>1, <1>3, <1>4 DEF nodeVars, identity, keyStores, RotationTypes, RotationHolds, HoldsFor,
     KeysFollowLog, CommitmentsHonoured, Incepted, Ordered
<1>5. CASE ~UNCHANGED nodeVars
  <2> DEFINE e == InceptionEvent(hot, next, d)
             a == e.aid
  <2>1. /\ Process(e)
        /\ hotKeys' = [hotKeys EXCEPT ![a] = [public |-> hot, private |-> hot]]
        /\ SavePreRotated(a, next)
    BY <1>2, <1>5 DEF CreateIdentity
  <2>2. e \in KELEvent /\ hot \in Keys /\ next \in Keys
    BY EventsAreEvents, NodeConstants DEF IInv, LogInv, LogTypes, Fresh
  <2>3. e.keys = {hot} /\ e.next = next /\ e.type \in Inception
    BY DEF InceptionEvent, Inception
  <2>4. ~Incepted(a)
    BY <2>1, <2>3 DEF Process, Valid
  <2>5. /\ a \in Aids
        /\ states'[a].keys = {hot} /\ states'[a].next = next
        /\ kel'[a] # <<>>
        /\ \A b \in Aids \ {a} : kel'[b] = kel[b] /\ states'[b] = states[b]
    BY <2>1, <2>2, <2>3, ProcessExtends DEF IInv
  <2>6. preRotated' = [preRotated EXCEPT ![a] = next] /\ wallet'.hot = wallet.hot
    BY <2>1, <2>2, <2>5, StoresOf DEF IInv
  <2>7. a \in Ordered => phase[a] = "settled"
    BY <2>4, <2>5 DEF RotationHolds, HoldsFor
  <2>8. /\ hotKeys'[a].public = hot /\ preRotated'[a] = next
        /\ \A b \in Aids \ {a} : hotKeys'[b] = hotKeys[b] /\ preRotated'[b] = preRotated[b]
    BY <2>1, <2>5, <2>6 DEF IInv, KeyInv, KeyTypes
  <2> HIDE DEF e
  <2>9. RotationHolds'
    <3> SUFFICES ASSUME NEW b \in Ordered PROVE HoldsFor(b)'
      BY <1>3 DEF RotationHolds
    <3>1. b \in Aids /\ HoldsFor(b)
      BY DEF RotationHolds, Ordered
    <3>2. CASE b = a
      BY <1>3, <2>2, <2>5, <2>6, <2>7, <2>8, <3>1, <3>2 DEF HoldsFor, Incepted
    <3>3. CASE b # a
      BY <1>3, <2>5, <2>6, <2>8, <3>1, <3>3 DEF HoldsFor, Incepted
    <3> QED BY <3>2, <3>3
  <2>10. KeysFollowLog'
    <3> SUFFICES ASSUME NEW b \in Ordered, Incepted(b)'
                 PROVE  /\ states'[b].keys = {IF phase'[b] = "logged" THEN preRotated'[b]
                                                                     ELSE hotKeys'[b].public}
                        /\ states'[b].next = IF phase'[b] = "settled" THEN preRotated'[b]
                                                                     ELSE incoming'[b]
      BY <1>3 DEF KeysFollowLog
    <3>0. b \in Aids
      BY DEF Ordered
    <3>1. CASE b = a
      BY <1>3, <2>5, <2>7, <2>8, <3>1
    <3>2. CASE b # a
      BY <1>3, <2>5, <2>8, <3>0, <3>2 DEF KeysFollowLog, Incepted
    <3> QED BY <3>1, <3>2
  <2>11. CommitmentsHonoured'
    BY <1>3, <2>1, <2>2, <2>4, AppendHonours DEF IInv
  <2> QED BY <1>1, <1>3, <2>9, <2>10, <2>11 DEF RotationTypes
<1> QED BY <1>4, <1>5

(* The event an application builds from the identity state is an event.    *)
LEMMA NextEvent ==
    ASSUME LogInv, NEW a \in Aids, NEW type \in {"rot", "ixn"}, NEW key \in Keys,
           NEW next \in MaybeKey
    PROVE  EventOf(a, type, key, next) \in KELEvent
<1>1. states[a].sn + 1 \in Int /\ states[a].last \in Nat \cup {NoDigest}
      /\ states[a].delegator \in Aids \cup {NoAid} /\ events \in Nat
  BY DEF LogInv, LogTypes, IdentityState
<1>2. type \in Types
  BY DEF Types
<1> QED BY <1>1, <1>2 DEF EventOf, KELEvent

LEMMA LogRotationKeeps ==
    ASSUME RotationInv, NEW a \in Aids, NEW k \in Fresh, LogRotation(a, k)
    PROVE  RotationInv'
<1> USE DEF RotationInv
<1> DEFINE e == EventOf(a, "rot", preRotated[a], k)
<1>1. /\ Incepted(a) /\ phase[a] = "settled" /\ Process(e)
      /\ UNCHANGED <<keyStores, saves>>
      /\ phase' = [phase EXCEPT ![a] = "logged"] /\ incoming' = [incoming EXCEPT ![a] = k]
  BY DEF LogRotation, ProcessEvent
<1>2. a \in Ordered /\ k \in Keys /\ preRotated[a] \in Keys
  BY <1>1 DEF Fresh, Ordered, RotationHolds, HoldsFor
<1>3. e \in KELEvent /\ e.aid = a /\ e.keys = {preRotated[a]} /\ e.next = k
  <2>1. e \in KELEvent
    BY <1>2, NextEvent DEF IInv, MaybeKey
  <2> QED BY <2>1 DEF EventOf
<1> HIDE DEF e
<1>4. IInv'
  BY <1>1, <1>3, ProcessKeepsLog, KeysUnchanged DEF IInv
<1>5. /\ states'[a].keys = {preRotated[a]} /\ states'[a].next = k
      /\ kel'[a] # <<>>
      /\ \A i \in 1..Len(kel[a]) : i \in 1..Len(kel'[a]) /\ kel'[a][i] = kel[a][i]
      /\ \A b \in Aids \ {a} : kel'[b] = kel[b] /\ states'[b] = states[b]
  BY <1>1, <1>3, ProcessExtends, Zenon DEF IInv
<1>6. Len(kel[a]) \in 1..Len(kel[a]) /\ states[a].keys = kel[a][Len(kel[a])].keys
      /\ states[a].next = kel[a][Len(kel[a])].next
  BY <1>1, LastEvent DEF IInv
<1>7. states[a].keys = {hotKeys[a].public} /\ states[a].next = preRotated[a]
  BY <1>1, <1>2 DEF KeysFollowLog
<1>8. RotationTypes'
  BY <1>1, <1>2 DEF RotationTypes, Phases, MaybeKey
<1>9. UNCHANGED <<hotKeys, preRotated, wallet>>
  BY <1>1 DEF keyStores
<1>10. /\ phase'[a] = "logged" /\ incoming'[a] = k
       /\ \A b \in Aids \ {a} : phase'[b] = phase[b] /\ incoming'[b] = incoming[b]
       /\ Ordered' = Ordered
  <2>1. /\ phase'[a] = "logged" /\ incoming'[a] = k
        /\ \A b \in Aids \ {a} : phase'[b] = phase[b] /\ incoming'[b] = incoming[b]
    BY <1>1 DEF RotationTypes
  <2> QED BY <1>2, <2>1 DEF Ordered
<1>11. RotationHolds'
  <2>1. \E i \in 1..Len(kel'[a]) : /\ hotKeys[a].public \in kel'[a][i].keys
                                   /\ kel'[a][i].next = preRotated[a]
    BY <1>5, <1>6, <1>7
  <2> SUFFICES ASSUME NEW b \in Ordered
               PROVE  HoldsFor(b)'
    BY <1>10 DEF RotationHolds
  <2>0. b \in Aids /\ HoldsFor(b)
    BY DEF RotationHolds, Ordered
  <2>2. CASE b = a
    BY <1>2, <1>5, <1>9, <1>10, <2>0, <2>1, <2>2 DEF HoldsFor, Incepted
  <2>3. CASE b # a
    BY <1>5, <1>9, <1>10, <2>0, <2>3 DEF HoldsFor, Incepted
  <2> QED BY <2>2, <2>3
<1>12. KeysFollowLog'
  BY <1>5, <1>9, <1>10 DEF KeysFollowLog, Incepted, Ordered
<1>13. CommitmentsHonoured'
  <2>1. e.keys = {kel[a][Len(kel[a])].next}
    BY <1>3, <1>6, <1>7
  <2>2. e.keys = {kel[e.aid][Len(kel[e.aid])].next}
    BY <1>3, <2>1
  <2> QED BY <1>1, <1>3, <1>10, <2>2, AppendHonours DEF IInv
<1> QED BY <1>4, <1>8, <1>11, <1>12, <1>13

LEMMA LogInteractionKeeps ==
    ASSUME RotationInv, NEW a \in Aids, LogInteraction(a)
    PROVE  RotationInv'
<1> USE DEF RotationInv
<1> DEFINE e == EventOf(a, "ixn", TheKey(a), states[a].next)
<1>1. /\ Incepted(a) /\ a \in Ordered /\ Process(e)
      /\ UNCHANGED <<keyStores, saves>>
      /\ UNCHANGED <<phase, incoming>> /\ Ordered' = Ordered
  BY DEF LogInteraction, ProcessEvent, Ordered
<1>2. PICK key : states[a].keys = {key}
  <2>1. phase[a] \in Phases
    BY <1>1 DEF RotationTypes, Ordered
  <2> QED BY <1>1, <2>1 DEF KeysFollowLog, Phases
<1>3. TheKey(a) = key /\ key \in Keys /\ states[a].next \in MaybeKey
  <2>1. states[a] \in IdentityState
    BY DEF IInv, LogInv, LogTypes
  <2>2. TheKey(a) = key
    BY <1>2 DEF TheKey
  <2> QED BY <1>2, <2>1, <2>2 DEF IdentityState
<1>4. e \in KELEvent /\ e.aid = a /\ e.keys = states[a].keys /\ e.next = states[a].next
  <2>1. e \in KELEvent
    BY <1>3, NextEvent DEF IInv
  <2> QED BY <1>2, <1>3, <2>1 DEF EventOf
<1> HIDE DEF e
<1>5. IInv'
  BY <1>1, <1>4, ProcessKeepsLog, KeysUnchanged DEF IInv
<1>6. /\ states'[a].keys = states[a].keys /\ states'[a].next = states[a].next
      /\ kel'[a] # <<>>
      /\ \A i \in 1..Len(kel[a]) : i \in 1..Len(kel'[a]) /\ kel'[a][i] = kel[a][i]
      /\ \A b \in Aids \ {a} : kel'[b] = kel[b] /\ states'[b] = states[b]
  BY <1>1, <1>4, ProcessExtends, Zenon DEF IInv
<1>7. Len(kel[a]) \in 1..Len(kel[a]) /\ states[a].keys = kel[a][Len(kel[a])].keys
      /\ states[a].next = kel[a][Len(kel[a])].next
  BY <1>1, LastEvent DEF IInv
<1>8. UNCHANGED <<hotKeys, preRotated, wallet>>
  BY <1>1 DEF keyStores
<1>9. \A b \in Aids : kel'[b] # <<>> <=> kel[b] # <<>>
  BY <1>1, <1>6 DEF Incepted
<1>10. RotationHolds'
  <2> SUFFICES ASSUME NEW b \in Ordered
               PROVE  HoldsFor(b)'
    BY <1>1 DEF RotationHolds
  <2>0. b \in Aids /\ HoldsFor(b)
    BY DEF RotationHolds, Ordered
  <2>1. \A i \in 1..Len(kel[b]) : i \in 1..Len(kel'[b]) /\ kel'[b][i] = kel[b][i]
    BY <1>6, <2>0
  <2> QED BY <1>1, <1>8, <1>9, <2>0, <2>1 DEF HoldsFor, Incepted
<1>11. KeysFollowLog'
  <2>1. \A b \in Aids : states'[b].keys = states[b].keys /\ states'[b].next = states[b].next
    BY <1>6
  <2> QED BY <1>1, <1>8, <1>9, <2>1 DEF KeysFollowLog, Incepted, Ordered
<1>12. CommitmentsHonoured'
  <2>1. e.keys = kel[a][Len(kel[a])].keys /\ e.next = kel[a][Len(kel[a])].next
    BY <1>4, <1>7
  <2> QED BY <1>1, <1>4, <2>1, AppendHonours DEF IInv
<1> QED BY <1>1, <1>5, <1>10, <1>11, <1>12 DEF RotationTypes

LEMMA PromoteKeeps ==
    ASSUME RotationInv, NEW a \in Aids, Promote(a)
    PROVE  RotationInv'
<1> USE DEF RotationInv
<1>1. /\ phase[a] = "logged" /\ RotateKeys(a)
      /\ phase' = [phase EXCEPT ![a] = "promoted"] /\ incoming' = incoming
  BY DEF Promote
<1>2. /\ hotKeys' = [hotKeys EXCEPT ![a] = Promoted(a)]
      /\ UNCHANGED <<identity, preRotated, wallet>>
  BY <1>1 DEF RotateKeys
<1>3. IInv'
  BY <1>1, <1>2, RotateKeepsKeys, LogUnchanged DEF IInv
<1>4. /\ phase'[a] = "promoted" /\ \A b \in Aids \ {a} : phase'[b] = phase[b]
      /\ hotKeys'[a].public = preRotated[a] /\ \A b \in Aids \ {a} : hotKeys'[b] = hotKeys[b]
  BY <1>1, <1>2 DEF RotationTypes, IInv, KeyInv, KeyTypes, Promoted
<1>5. a \in Ordered /\ Incepted(a) /\ Ordered' = Ordered
  <2>1. a \in Ordered
    BY <1>1 DEF Ordered
  <2> QED BY <1>1, <1>4, <2>1 DEF Ordered, RotationHolds, HoldsFor
<1>6. kel' = kel /\ states' = states
  BY <1>2 DEF identity
<1>7. RotationTypes'
  BY <1>1 DEF RotationTypes, Phases
<1>8. RotationHolds'
  BY <1>1, <1>2, <1>4, <1>5, <1>6 DEF RotationHolds, HoldsFor, Incepted, Ordered
<1>9. KeysFollowLog'
  BY <1>1, <1>2, <1>4, <1>5, <1>6 DEF KeysFollowLog, Incepted, Ordered
<1>10. CommitmentsHonoured'
  BY <1>5, <1>6 DEF CommitmentsHonoured
<1> QED BY <1>3, <1>7, <1>8, <1>9, <1>10

LEMMA SaveIncomingKeeps ==
    ASSUME RotationInv, NEW a \in Aids, SaveIncoming(a)
    PROVE  RotationInv'
<1> USE DEF RotationInv
<1>1. /\ phase[a] = "promoted" /\ SavePreRotated(a, incoming[a])
      /\ phase' = [phase EXCEPT ![a] = "settled"]
      /\ UNCHANGED <<identity, hotKeys, recovery, saves, incoming>>
  BY DEF SaveIncoming
<1>2. a \in Ordered /\ incoming[a] \in Keys /\ Incepted(a)
  BY <1>1 DEF RotationHolds, HoldsFor, Ordered
<1>3. preRotated' = [preRotated EXCEPT ![a] = incoming[a]] /\ wallet'.hot = wallet.hot
  BY <1>1, <1>2, StoresOf DEF IInv
<1>4. IInv'
  <2>1. KeyInv'
    BY <1>1, <1>2, SaveKeepsKeys DEF IInv, KeyInv, KeyTypes, WalletFollows
  <2> QED BY <1>1, <2>1, LogUnchanged DEF IInv
<1>5. /\ phase'[a] = "settled" /\ \A b \in Aids \ {a} : phase'[b] = phase[b]
      /\ preRotated'[a] = incoming[a]
      /\ \A b \in Aids \ {a} : preRotated'[b] = preRotated[b]
  BY <1>1, <1>3 DEF RotationTypes, IInv, KeyInv, KeyTypes
<1>0. Ordered' = Ordered
  BY <1>2, <1>5 DEF Ordered
<1>6. kel' = kel /\ states' = states
  BY <1>1 DEF identity
<1>7. RotationTypes'
  BY <1>1 DEF RotationTypes, Phases
<1>8. RotationHolds'
  BY <1>0, <1>1, <1>2, <1>3, <1>5, <1>6 DEF RotationHolds, HoldsFor, Incepted, Ordered
<1>9. KeysFollowLog'
  <2> SUFFICES ASSUME NEW b \in Ordered, Incepted(b)'
               PROVE  /\ states'[b].keys = {IF phase'[b] = "logged" THEN preRotated'[b]
                                                                   ELSE hotKeys'[b].public}
                      /\ states'[b].next = IF phase'[b] = "settled" THEN preRotated'[b]
                                                                   ELSE incoming'[b]
    BY <1>0 DEF KeysFollowLog
  <2>1. CASE b = a
    BY <1>1, <1>2, <1>5, <1>6, <2>1 DEF KeysFollowLog
  <2>2. CASE b # a
    BY <1>1, <1>5, <1>6, <2>2 DEF KeysFollowLog, Incepted, Ordered
  <2> QED BY <2>1, <2>2
<1>10. CommitmentsHonoured'
  BY <1>0, <1>6 DEF CommitmentsHonoured
<1> QED BY <1>4, <1>7, <1>8, <1>9, <1>10

(* A call for one AID leaves log, state and keys of the others alone.      *)
LEMMA OthersStay ==
    ASSUME IInv, NEW a \in Aids, CallFor(a), NEW b \in Aids \ {a}
    PROVE  /\ kel'[b] = kel[b] /\ states'[b] = states[b]
           /\ hotKeys'[b] = hotKeys[b] /\ preRotated'[b] = preRotated[b]
           /\ wallet'.hot[b] = wallet.hot[b]
<1> USE DEF IInv, LogInv, LogTypes, KeyInv, KeyTypes
<1>1. ASSUME NEW e \in OfferedEvents(a), ProcessEvent(e)
      PROVE  /\ kel'[b] = kel[b] /\ states'[b] = states[b]
             /\ UNCHANGED <<hotKeys, preRotated, wallet>>
  <2>1. e \in KELEvent /\ e.aid = a
    BY EventsAreEvents DEF OfferedEvents
  <2> QED BY <1>1, <2>1, ProcessExtends DEF ProcessEvent, keyStores
<1>2. CASE RotateKeys(a)
  BY <1>2 DEF RotateKeys, identity
<1>3. CASE \E k \in CallerKeys : GenerateAndStoreKeyPair(a, k)
  BY <1>3 DEF GenerateAndStoreKeyPair, identity, WalletStore
<1>4. ASSUME NEW k \in Fresh, SaveNext(a, k)
      PROVE  /\ UNCHANGED <<identity, hotKeys>> /\ preRotated'[b] = preRotated[b]
             /\ wallet'.hot = wallet.hot
  <2>1. k \in Keys /\ SavePreRotated(a, k) /\ UNCHANGED <<identity, hotKeys>>
    BY <1>4 DEF SaveNext, Fresh
  <2> QED BY <2>1, StoresOf
<1>5. CASE \E ks \in Backups : RegisterRecoveryKeys(a, ks)
  BY <1>5 DEF RegisterRecoveryKeys, identity, WalletStore
<1> QED BY <1>1, <1>2, <1>3, <1>4, <1>5 DEF CallFor, identity

LEMMA CallFreelyKeeps ==
    ASSUME RotationInv, NEW a \in Aids, CallFreely(a)
    PROVE  RotationInv'
<1> USE DEF RotationInv
<1>1. CallFor(a) /\ phase' = phase /\ incoming' = incoming /\ Ordered' = Ordered
  BY DEF CallFreely, Ordered
<1>2. IInv'
  BY <1>1, CallKeepsInv
<1>3. \A b \in Ordered :
        /\ b \in Aids /\ phase'[b] = phase[b] /\ incoming'[b] = incoming[b]
        /\ kel'[b] = kel[b] /\ states'[b] = states[b]
        /\ hotKeys'[b] = hotKeys[b] /\ preRotated'[b] = preRotated[b]
        /\ wallet'.hot[b] = wallet.hot[b]
  <2> SUFFICES ASSUME NEW b \in Ordered
               PROVE  /\ b \in Aids
                      /\ kel'[b] = kel[b] /\ states'[b] = states[b]
                      /\ hotKeys'[b] = hotKeys[b] /\ preRotated'[b] = preRotated[b]
                      /\ wallet'.hot[b] = wallet.hot[b]
    BY <1>1
  <2>1. b \in Aids \ {a}
    BY DEF Ordered, CallFreely
  <2> QED BY <1>1, <2>1, OthersStay
<1>4. RotationHolds'
  <2> SUFFICES ASSUME NEW b \in Ordered PROVE HoldsFor(b)'
    BY <1>1 DEF RotationHolds
  <2>1. HoldsFor(b)
    BY DEF RotationHolds
  <2> QED BY <1>3, <2>1 DEF HoldsFor, Incepted
<1>5. KeysFollowLog'
  BY <1>1, <1>3 DEF KeysFollowLog, Incepted
<1>6. CommitmentsHonoured'
  BY <1>1, <1>3 DEF CommitmentsHonoured
<1> QED BY <1>1, <1>2, <1>4, <1>5, <1>6 DEF RotationTypes

LEMMA RotationInvariance == RotationSpec => []RotationInv
<1>1. RotationInit => RotationInv
  <2> SUFFICES ASSUME RotationInit PROVE RotationInv
    OBVIOUS
  <2>1. IInv
    BY InitInv DEF RotationInit
  <2>2. RotationTypes /\ RotationHolds /\ KeysFollowLog
    BY DEF RotationInit, Init, RotationTypes, RotationHolds, HoldsFor, KeysFollowLog, Phases, MaybeKey,
       Incepted, Ordered
  <2>3. CommitmentsHonoured
    <3>1. \A a \in Aids : Len(kel[a]) = 0
      BY DEF RotationInit, Init
    <3>2. \A a \in Aids : 2..Len(kel[a]) = {}
      BY <3>1
    <3> QED BY <3>2 DEF CommitmentsHonoured, Ordered
  <2> QED BY <2>1, <2>2, <2>3 DEF RotationInv
<1>2. RotationInv /\ [RotationNext]_vars => RotationInv'
  <2> SUFFICES ASSUME RotationInv, [RotationNext]_vars PROVE RotationInv'
    OBVIOUS
  <2>1. CASE UNCHANGED vars
    <3>1. UNCHANGED <<nodeVars, phase, incoming>>
      BY <2>1 DEF vars
    <3>2. IInv'
      BY <3>1, LogUnchanged, KeysUnchanged DEF RotationInv, IInv, nodeVars
    <3> QED BY <3>1, <3>2 DEF RotationInv, nodeVars, identity, keyStores, RotationTypes,
            RotationHolds, HoldsFor, KeysFollowLog, CommitmentsHonoured, Incepted, Ordered
  <2> QED BY <2>1, InceptKeeps, LogRotationKeeps, LogInteractionKeeps, PromoteKeeps,
          SaveIncomingKeeps, CallFreelyKeeps DEF RotationNext
<1> QED BY <1>1, <1>2, PTL DEF RotationSpec

(* Log, identity state, hot key and pre-rotated key of an AID whose        *)
(* rotations keep to the order stay in step through every rotation,        *)
(* interaction and repeated seed, whatever is called for other AIDs.       *)
THEOREM RotationKeepsStep == RotationSpec => []KeysFollowLog
<1>1. RotationInv => KeysFollowLog
  BY DEF RotationInv
<1> QED BY <1>1, RotationInvariance, PTL

(* Every set of keys was announced by the event before.                    *)
THEOREM CommitmentsAreHonoured == RotationSpec => []CommitmentsHonoured
<1>1. RotationInv => CommitmentsHonoured
  BY DEF RotationInv
<1> QED BY <1>1, RotationInvariance, PTL

(* Whatever is signed is signed with a key the log names.                  *)
THEOREM SignaturesAreCurrent == RotationSpec => []SignsWithCurrentKey
<1>1. RotationInv => SignsWithCurrentKey
  <2> SUFFICES ASSUME RotationInv, NEW a \in Ordered, Incepted(a)
               PROVE  \/ SignData(a) \in states[a].keys
                      \/ phase[a] = "logged" /\ \E i \in 1..Len(kel[a]) :
                                                    /\ SignData(a) \in kel[a][i].keys
                                                    /\ kel[a][i].next = preRotated[a]
                      \/ ~Wallet /\ SignData(a) = NoKey
    BY DEF SignsWithCurrentKey
  <2>0. a \in Aids
    BY DEF Ordered
  <2>1. /\ hotKeys[a].private \in {hotKeys[a].public, NoKey}
        /\ Wallet => hotKeys[a].private = hotKeys[a].public
        /\ wallet.hot[a] = NoKey
        /\ phase[a] \in Phases
    BY <2>0 DEF Ordered, RotationInv, IInv, KeyInv, KeyTypes, KeyPair, WalletFollows, RotationHolds, HoldsFor, RotationTypes
  <2>2. SignData(a) = hotKeys[a].private
    BY <2>1 DEF SignData
  <2>3. CASE hotKeys[a].private = NoKey /\ ~Wallet
    BY <2>2, <2>3
  <2>4. CASE hotKeys[a].private = hotKeys[a].public
    BY <2>1, <2>2, <2>4 DEF RotationInv, KeysFollowLog, RotationHolds, HoldsFor, Phases
  <2> QED BY <2>1, <2>3, <2>4
<1> QED BY <1>1, RotationInvariance, PTL

=============================================================================
