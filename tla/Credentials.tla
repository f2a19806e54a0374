---------------------------- MODULE Credentials ----------------------------
(***************************************************************************)
(* Credentials of the KERI node (credentials/authority.py): schemas, the   *)
(* credential store, the revocation cache, the verifier and the resolver   *)
(* of credential chains.                                                   *)
(*                                                                         *)
(* A credential's id is the number of its issue (a fresh uuid), or a number *)
(* above those for one that another node issued and this one may receive.  *)
(***************************************************************************)
EXTENDS Integers, Sequences, FiniteSets

CONSTANTS
    Aids,        \* issuers and senders
    Schemas,     \* credential schemas
    Foreign,     \* ids of credentials issued elsewhere
    ForeignCred, \* what each of them says
    Evicts,      \* whether the application removes credentials from the store
    MaxIssued    \* bound: credentials issued here

Ids == (1..MaxIssued) \cup Foreign

(* expiry: none, still ahead, or past.                                     *)
Credential == [issuer : Aids, schema : Schemas, chain : Seq(Ids),
               expiry : {"none", "ahead", "past"}]

ASSUME CredentialConstants ==
    /\ MaxIssued \in Nat
    /\ Foreign \subseteq Nat \ (0..MaxIssued)
    /\ IsFiniteSet(Foreign)
    /\ ForeignCred \in [Foreign -> Credential]
    /\ Evicts \in BOOLEAN

VARIABLES
    known,   \* AIDs that resolve_aid resolves
    schemas, \* ACDCSchemaManager
    store,   \* CredentialStoreCache: credentials by id
    revoked, \* RevocationCacheAPI
    issued   \* credentials issued so far

credVars == <<known, schemas, store, revoked, issued>>

Held == DOMAIN store
Chain(c) == store[c].chain

-----------------------------------------------------------------------------
(* Steps 1 to 4 of CredentialVerifier.verify: what does not depend on the  *)
(* credentials it is chained to.                                           *)
Usable(c) ==
    /\ c \in Held
    /\ c \notin revoked
    /\ store[c].expiry # "past"
    /\ store[c].issuer \in known

(* Python gives up on a recursion that only a cycle makes this deep.       *)
Depth == Cardinality(Ids) + 1

(* CredentialVerifier.verify of each credential, given the answers for     *)
(* parents: that of the first parent that does not say yes is the answer.  *)
Judge(answers) == [x \in Ids |->
    IF ~Usable(x) THEN "no"
    ELSE LET answer(i) == answers[Chain(x)[i]]
             stops == {i \in DOMAIN Chain(x) : answer(i) # "yes"}
         IN  IF stops = {} THEN "yes"
             ELSE answer(CHOOSE i \in stops : \A j \in stops : i <= j)]

(* The answers of verify with d frames left to it.                         *)
Verdict[d \in 0..Depth] ==
    IF d = 0 THEN [x \in Ids |-> "raises"] ELSE Judge(Verdict[d - 1])
Mut_FirstParent(c) ==
    LET verdict[d \in 0..Depth] == [x \in Ids |->
            IF d = 0 THEN "raises"
            ELSE IF ~Usable(x) THEN "no"
            ELSE IF Chain(x) = <<>> THEN "yes" ELSE verdict[d - 1][Head(Chain(x))]]
    IN  verdict[Depth][c]
Verify(c) == Verdict[Depth][c]

(* One turn of the loop of DelegationChainResolver.resolve_chain: the      *)
(* chain so far, root first, and the id to look at next, if there is one.  *)
Resolve(t) ==
    LET visited == {t.chain[i] : i \in DOMAIN t.chain}
        x == CHOOSE y \in t.next : TRUE
    IN  IF t.next \cap (Held \ visited) = {} THEN [t EXCEPT !.next = {}]
        ELSE [chain |-> <<x>> \o t.chain,
              next |-> IF Chain(x) = <<>> THEN {} ELSE {Head(Chain(x))}]
Turns(c) ==
    LET turn[n \in 0..Depth] ==
            IF n = 0 THEN [chain |-> <<>>, next |-> {c}] ELSE Resolve(turn[n - 1])
    IN  turn
ResolveChain(c) == Turns(c)[Depth].chain

-----------------------------------------------------------------------------
Put(c, cred) == store' = [x \in Held \cup {c} |-> IF x = c THEN cred ELSE store[x]]

(* create_identity: from now on the AID resolves.                          *)
Know(a) ==
    /\ a \notin known
    /\ known' = known \cup {a}
    /\ UNCHANGED <<schemas, store, revoked, issued>>

RegisterSchema(s) ==
    /\ s \notin schemas
    /\ schemas' = schemas \cup {s}
    /\ UNCHANGED <<known, store, revoked, issued>>

(* CredentialIssuer.issue.  The parent is any id the caller can know of;   *)
(* nobody looks whether it is in the store.                                *)
Issue(issuer, s, chain, expiry) ==
    /\ s \in schemas
    /\ issuer \in known
    /\ issued < MaxIssued
    /\ issued' = issued + 1
    /\ Put(issued + 1, [issuer |-> issuer, schema |-> s, chain |-> chain, expiry |-> expiry])
    /\ UNCHANGED <<known, schemas, revoked>>

Parents == {<<>>} \cup {<<c>> : c \in (1..issued) \cup Foreign}

(* A credential of another node is put into the store.                     *)
Receive(c) ==
    /\ c \notin Held
    /\ Put(c, ForeignCred[c])
    /\ UNCHANGED <<known, schemas, revoked, issued>>

Remove(c) ==
    /\ Evicts
    /\ c \in Held
    /\ store' = [x \in Held \ {c} |-> store[x]]
    /\ UNCHANGED <<known, schemas, revoked, issued>>

Revoke(c) ==
    /\ c \notin revoked
    /\ revoked' = revoked \cup {c}
    /\ UNCHANGED <<known, schemas, store, issued>>

(* Time passes the expiry of a credential.                                 *)
Expire(c) ==
    /\ c \in Held
    /\ store[c].expiry = "ahead"
    /\ store' = [store EXCEPT ![c].expiry = "past"]
    /\ UNCHANGED <<known, schemas, revoked, issued>>

CredInit ==
    /\ known = {}
    /\ schemas = {}
    /\ store = <<>>
    /\ revoked = {}
    /\ issued = 0

CredNext ==
    \/ \E a \in Aids : Know(a)
    \/ \E s \in Schemas : RegisterSchema(s)
    \/ \E a \in Aids, s \in Schemas, chain \in Parents, x \in {"none", "ahead"} :
          Issue(a, s, chain, x)
    \/ \E c \in Foreign : Receive(c)
    \/ \E c \in Held : Remove(c) \/ Expire(c)
    \/ \E c \in (1..issued) \cup Foreign : Revoke(c)

CredSpec == CredInit /\ [][CredNext]_credVars

-----------------------------------------------------------------------------
CredTypeOK ==
    /\ known \subseteq Aids
    /\ schemas \subseteq Schemas
    /\ Held \subseteq Ids /\ \A c \in Held : store[c] \in Credential
    /\ revoked \subseteq Ids
    /\ issued \in 0..MaxIssued

(* The credential and all that it is chained to, directly or not: the      *)
(* least set that holds it and the parents of its members.                 *)
Parent(c) == IF c \in Held THEN {Chain(c)[i] : i \in DOMAIN Chain(c)} ELSE {}
Ancestry(c) ==
    {d \in Ids : \A set \in SUBSET Ids :
        c \in set /\ (\A x \in set : Parent(x) \subseteq set) => d \in set}

OnCycle(c) == \E p \in Parent(c) : c \in Ancestry(p)

(* verify says yes exactly when the whole ancestry is usable and has no    *)
(* cycle, it says no only for an unusable ancestor, and it raises only     *)
(* when it was led into a cycle: it never takes one for a valid chain.     *)
(* resolve_chain, which keeps a list of where it has been and looks at     *)
(* first parents only, then returns all of them from a root on.            *)
VerifyIsTrust ==
    \A c \in Ids :
        LET unusable == {d \in Ancestry(c) : ~Usable(d)}
            cyclic == {d \in Ancestry(c) : OnCycle(d)}
            chain == ResolveChain(c)
        IN  /\ Verify(c) = "yes" <=> unusable = {} /\ cyclic = {}
            /\ Verify(c) = "no" => unusable # {}
            /\ Verify(c) = "raises" => cyclic # {}
            /\ Verify(c) = "yes" =>
                  /\ chain # <<>> /\ Chain(chain[1]) = <<>> /\ chain[Len(chain)] = c
                  /\ \A i \in 2..Len(chain) : Head(Chain(chain[i])) = chain[i - 1]

=============================================================================
