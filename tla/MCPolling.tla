------------------------------ MODULE MCPolling ------------------------------
(* Small instances of the watch list and of the poller.  They share no     *)
(* variable (the poller has the table alone), so that one run explores     *)
(* them side by side: part says which of them moves, and for the poller    *)
(* which AID is watched and what may happen to it.                         *)
EXTENDS WatchList, Poller

VARIABLE part

partVars == <<listVars, pollerVars, part>>

(* An AID with two witnesses, one with a single one, and one that rotates  *)
(* its keys, with a witness of another make and one of this repository.    *)
MCWitnessesOf == [a \in Aids |-> CASE a = "two" -> {"v", "w"}
                                   [] a = "one" -> {"w"}
                                   [] a = "mixed" -> {"w", "n"}]

MCRotations == [a \in Aids |-> IF a = "mixed" THEN {1} ELSE {}]

Watched == CASE part = "calm" -> {"two"}
             [] part = "mixed" -> {"mixed"}
             [] part \in {"faulty", "live"} -> {"one"}
             [] OTHER -> {}

(* calm and mixed: without faults.  faulty: everything happens, while a    *)
(* request polls, too.  live: one fault.                                   *)
InPart ==
    /\ enabled \subseteq Watched
    /\ \A w \in Witnesses, aid \in Aids \ Watched : held[w][aid] = -1
    /\ part \in {"calm", "mixed", "live"} => polls["r"] = Resting /\ enabled = Watched
    /\ part \in {"calm", "mixed"} => faults = 0
    /\ part = "faulty" => \A w \in Witnesses, aid \in Aids : held[w][aid] < 2
    /\ part = "live" => faults < 2

-----------------------------------------------------------------------------
PartsInit ==
    /\ part \in {"list", "calm", "mixed", "faulty", "live"}
    /\ ListInit
    /\ PollerInit /\ enabled = Watched

PartsNext ==
    /\ UNCHANGED part
    /\ \/ part = "list" /\ ListNext /\ UNCHANGED pollerVars
       \/ /\ part # "list"
          /\ PollerNext /\ InPart'
          /\ part = "live" => Unhurried
          /\ UNCHANGED listVars

(* The part "live" is scheduled as FairPollerSpec has it.                  *)
Fair ==
    /\ WF_pollerVars(part = "live" /\ Take)
    /\ \A e \in [aid : {"one"}, sn : 0 .. MaxSn] : WF_pollerVars(part = "live" /\ Settle(e))
    /\ WF_pollerVars(part = "live" /\ Poll("one"))
    /\ SF_pollerVars(part = "live" /\ Cycle({"one"}) /\ Unhurried)
    /\ SF_pollerVars(part = "live" /\ Finish("one") /\ polls["one"].max > lastSn["one"])
    /\ SF_pollerVars(part = "live" /\ Answer("one", "w"))
    /\ WF_pollerVars(part = "live" /\ Submit("one", "w"))

PartsSpec == PartsInit /\ [][PartsNext]_partVars /\ Fair

(* Every event of the AID that part "live" watches is put on the queue in  *)
(* the end, once a witness shows it.                                       *)
EventsAreSubmitted ==
    part = "live" => \A sn \in 0 .. MaxSn : SubmittedInTheEnd([aid |-> "one", sn |-> sn])
==============================================================================
