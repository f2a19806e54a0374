------------------------------ MODULE WatchList ------------------------------
(***************************************************************************)
(* The watch list of the KERI watcher (watcher/core/watcher_manager.py):   *)
(* the table watched_aids, which the event processor and the poller read,  *)
(* and the cache beside it, which decides whether a request is refused.    *)
(*                                                                         *)
(* A call looks at the cache, awaits the table and then writes the cache:  *)
(* the three are steps of their own, and other calls come between.         *)
(*                                                                         *)
(* Operators named Mut_... are wrong variants of the definition that       *)
(* follows them; no action uses them (see README, "Mutants").              *)
(***************************************************************************)
EXTENDS Integers, FiniteSets

CONSTANTS
    ListAids,     \* the AIDs that are named
    WitnessLists, \* what an AID's witnesses may be: lists told apart by name
    Callers,     \* the tasks that serve /watch
    LoadLimit,    \* rows that load_cache asks for (10000 in the code)
    DbErrors,     \* whether database calls may fail
    MaxCalls,     \* bound: calls let in
    MaxRestarts   \* bound: restarts of the process

ASSUME WatchListConstants ==
    /\ IsFiniteSet(ListAids)
    /\ LoadLimit \in Nat
    /\ DbErrors \in BOOLEAN
    /\ MaxCalls \in Nat
    /\ MaxRestarts \in Nat

Ops == {"watch", "unwatch", "update"}

(* alone: no other call of the AID has been on its way since it came in.   *)
Call == [op : Ops, aid : ListAids, wits : WitnessLists, pc : {"table", "cache"}, alone : BOOLEAN]
Idle == [pc |-> "idle"]

VARIABLES
    table,    \* watched_aids: [ListAids -> [state, wits]]
    cache,    \* _watched_cache: the witnesses of the AIDs it has an entry for
    calls,    \* what each request is doing
    parted,   \* ghost: AIDs for which something went on that may part the two
    admitted, restarts

listVars == <<table, cache, calls, parted, admitted, restarts>>

Absent == [state |-> "absent"]
Rows == {Absent} \cup [state : {"enabled", "disabled"}, wits : WitnessLists]

Enabled(aid) == table[aid].state = "enabled"
Cached(aid) == aid \in DOMAIN cache
InFlight(aid) == {r \in Callers : calls[r].pc # "idle" /\ calls[r].aid = aid}

-----------------------------------------------------------------------------
(* A call that the cache lets through: none of its AID is alone any more.  *)
Enter(r, op, aid, wits) ==
    LET call == [op |-> op, aid |-> aid, wits |-> wits, pc |-> "table",
                 alone |-> InFlight(aid) = {}]
    IN  /\ calls[r].pc = "idle"
        /\ admitted < MaxCalls
        /\ calls' = [q \in Callers |->
                        IF q = r THEN call
                        ELSE IF q \in InFlight(aid) THEN [calls[q] EXCEPT !.alone = FALSE]
                        ELSE calls[q]]
        /\ admitted' = admitted + 1
        /\ UNCHANGED <<table, cache, parted, restarts>>

(* watch.  Without force an AID in the cache is AlreadyWatched.            *)
WatchCall(r, aid, wits, force) ==
    /\ force \/ ~Cached(aid)
    /\ Enter(r, "watch", aid, wits)

UnwatchCall(r, aid) == Cached(aid) /\ Enter(r, "unwatch", aid, cache[aid])
UpdateWitnesses(r, aid, wits) == Cached(aid) /\ Enter(r, "update", aid, wits)

(* Of an AID the cache has no entry for, unwatch, update_witnesses and     *)
(* what reads the cache alone say NotWatched: nothing changes.             *)
-----------------------------------------------------------------------------
(* The statement on watched_aids: the upsert of add_watched_aid, and the   *)
(* updates of remove_watched_aid and update_witnesses, which touch no row  *)
(* that is not there.                                                      *)
Written(c) ==
    LET row == table[c.aid] IN
    CASE c.op = "watch" -> [state |-> "enabled", wits |-> c.wits]
      [] c.op = "unwatch" /\ row # Absent -> [row EXCEPT !.state = "disabled"]
      [] c.op = "update" /\ row # Absent -> [row EXCEPT !.wits = c.wits]
      [] OTHER -> row

WriteTable(r) ==
    /\ calls[r].pc = "table"
    /\ table' = [table EXCEPT ![calls[r].aid] = Written(calls[r])]
    /\ calls' = [calls EXCEPT ![r].pc = "cache"]
    /\ UNCHANGED <<cache, parted, admitted, restarts>>

(* The call fails, before or after the statement took effect.              *)
TableFails(r) ==
    /\ DbErrors
    /\ calls[r].pc = "table"
    /\ table' \in {table, [table EXCEPT ![calls[r].aid] = Written(calls[r])]}
    /\ calls' = [calls EXCEPT ![r] = Idle]
    /\ parted' = parted \cup {calls[r].aid}
    /\ UNCHANGED <<cache, admitted, restarts>>

(* The cache, under its lock and without an await.                         *)
Mut_KeepEntry(c) ==
    IF c.op = "unwatch" THEN [a \in DOMAIN cache \ {c.aid} |-> cache[a]]
    ELSE [a \in DOMAIN cache \cup {c.aid} |-> IF a \in DOMAIN cache THEN cache[a] ELSE c.wits]
Remembered(c) ==
    CASE c.op = "unwatch" -> [a \in DOMAIN cache \ {c.aid} |-> cache[a]]
      [] c.op = "watch" ->
           [a \in DOMAIN cache \cup {c.aid} |-> IF a = c.aid THEN c.wits ELSE cache[a]]
      [] c.op = "update" -> [a \in DOMAIN cache |-> IF a = c.aid THEN c.wits ELSE cache[a]]

WriteCache(r) ==
    LET c == calls[r] IN
    /\ c.pc = "cache"
    /\ cache' = Remembered(c)
    /\ calls' = [calls EXCEPT ![r] = Idle]
    /\ parted' = IF ~c.alone THEN parted \cup {c.aid}
                 ELSE IF c.op = "update" THEN parted ELSE parted \ {c.aid}
    /\ UNCHANGED <<table, admitted, restarts>>

-----------------------------------------------------------------------------
(* load_cache: the rows that are enabled, the latest LoadLimit of them.    *)
(* Which are the latest is left open.                                      *)
EnabledAids == {aid \in ListAids : Enabled(aid)}

Loads ==
    {S \in SUBSET EnabledAids :
        Cardinality(S) = LoadLimit \/ (S = EnabledAids /\ Cardinality(S) <= LoadLimit)}

Restart ==
    /\ restarts < MaxRestarts
    /\ restarts' = restarts + 1
    /\ calls' = [r \in Callers |-> Idle]
    /\ \E S \in Loads :
          /\ cache' = [aid \in S |-> table[aid].wits]
          /\ parted' = EnabledAids \ S
    /\ UNCHANGED <<table, admitted>>

-----------------------------------------------------------------------------
ListInit ==
    /\ table = [aid \in ListAids |-> Absent]
    /\ cache = [aid \in {} |-> {}]
    /\ calls = [r \in Callers |-> Idle]
    /\ parted = {}
    /\ admitted = 0
    /\ restarts = 0

ListNext ==
    \/ \E r \in Callers, aid \in ListAids, wits \in WitnessLists :
          \/ \E force \in BOOLEAN : WatchCall(r, aid, wits, force)
          \/ UpdateWitnesses(r, aid, wits)
    \/ \E r \in Callers, aid \in ListAids : UnwatchCall(r, aid)
    \/ \E r \in Callers : WriteTable(r) \/ TableFails(r) \/ WriteCache(r)
    \/ Restart

ListSpec == ListInit /\ [][ListNext]_listVars

-----------------------------------------------------------------------------
ListTypeOK ==
    /\ table \in [ListAids -> Rows]
    /\ DOMAIN cache \subseteq ListAids
    /\ \A aid \in DOMAIN cache : cache[aid] \in WitnessLists
    /\ calls \in [Callers -> Call \cup {Idle}]
    /\ parted \subseteq ListAids
    /\ admitted \in 0 .. MaxCalls
    /\ restarts \in 0 .. MaxRestarts

(* Cache and table say the same of an AID that no call is busy with: that  *)
(* it is watched, and by which witnesses.  Only calls of the AID that      *)
(* overlapped, a database call that failed, or more rows than load_cache   *)
(* asks for, part them, and the next watch or unwatch that is let in alone *)
(* brings them together.                                                   *)
Agree(aid) ==
    /\ Cached(aid) <=> Enabled(aid)
    /\ Cached(aid) => cache[aid] = table[aid].wits

PartedOnlyByOverlap == \A aid \in ListAids : InFlight(aid) = {} => Agree(aid) \/ aid \in parted
=============================================================================
