--------------------------- MODULE VerificationServer ---------------------------
(***************************************************************************)
(* The sub-contract verification server (verification-system/core): the    *)
(* WebSocket server of server.py, whose handlers, background processor and *)
(* dispatcher are tasks of one event loop, and the REST call of api.py.    *)
(*                                                                         *)
(* A step is what a task does between two awaits that can suspend it: the  *)
(* two queues have no bound, so that put never does.                       *)
(***************************************************************************)
EXTENDS Integers, Sequences, FiniteSets

CONSTANTS
    Clients,  \* connections: each has the task id that its handler gave it
    Entries,  \* ids of the verification entries that the database holds
    Unknown   \* ids that it does not hold

ASSUME VerificationConstants == Entries \cap Unknown = {}

(* What a client sends: a dictionary with the required fields, one without *)
(* them, a list that holds their names, and what cannot be read at all.    *)
Payloads == {"whole", "missing", "list", "unreadable"}
Answers == {"refused", "error", "result", "failed"}

VARIABLES
    socket,      \* the connection: absent, open, left by the client, or closed by the server
    payload,     \* what the client sent
    received,    \* what the client got
    handler,     \* where the handler is
    connections, \* the global table: clients whose task id has an entry
    tasks,       \* task_queue
    working,     \* what background_processor has in hand, if anything
    results,     \* result_queue
    sending,     \* what response_dispatcher has in hand, if anything
    dispatched,  \* clients whose result the dispatcher has dealt with
    outcome      \* what the REST call said of each verification

serverVars == <<socket, payload, received, handler, connections, tasks, working, results,
                sending, dispatched, outcome>>

Open(c) == socket[c] = "open"
Say(c, answer) == received' = [received EXCEPT ![c] = Append(@, answer)]
Handler(c, at) == handler' = [handler EXCEPT ![c] = at]
Shut(c) == socket' = [socket EXCEPT ![c] = "closed"]

-----------------------------------------------------------------------------
(* Clients.                                                                *)
Connect(c) ==
    /\ socket[c] = "absent"
    /\ socket' = [socket EXCEPT ![c] = "open"]
    /\ connections' = connections \cup {c}
    /\ Handler(c, "receive")
    /\ UNCHANGED <<payload, received, tasks, working, results, sending, dispatched, outcome>>

Leave(c) ==
    /\ Open(c)
    /\ socket' = [socket EXCEPT ![c] = "left"]
    /\ UNCHANGED <<payload, received, handler, connections, tasks, working, results, sending,
                   dispatched, outcome>>

-----------------------------------------------------------------------------
(* handler, after recv.  A list of the names of the required fields passes *)
(* for a payload that has them.                                            *)
Receive(c, p) ==
    /\ handler[c] = "receive"
    /\ Open(c)
    /\ payload' = [payload EXCEPT ![c] = p]
    /\ \/ p \in {"whole", "list"} /\ tasks' = Append(tasks, c) /\ Handler(c, "done")
       \/ p = "missing" /\ Handler(c, "refuse") /\ UNCHANGED tasks
       \/ p = "unreadable" /\ Handler(c, "except") /\ UNCHANGED tasks
    /\ UNCHANGED <<socket, received, connections, working, results, sending, dispatched, outcome>>

(* Fields are missing: the handler says so and returns; the entry of the   *)
(* table stays.                                                            *)
Refuse(c) ==
    /\ handler[c] = "refuse"
    /\ \/ Open(c) /\ Say(c, "refused") /\ Shut(c) /\ Handler(c, "done")
       \/ ~Open(c) /\ Handler(c, "except") /\ UNCHANGED <<socket, received>>
    /\ UNCHANGED <<payload, connections, tasks, working, results, sending, dispatched, outcome>>

(* recv found the connection closed.                                       *)
ReceiveClosed(c) ==
    /\ handler[c] = "receive"
    /\ ~Open(c)
    /\ Handler(c, "except")
    /\ UNCHANGED <<socket, payload, received, connections, tasks, working, results, sending,
                   dispatched, outcome>>

(* The except clause: on a closed connection its own send raises, and the  *)
(* entry of the table stays.                                               *)
Mut_KeepEntry(c) ==
    /\ handler[c] = "except"
    /\ Handler(c, "done")
    /\ \/ Open(c) /\ Say(c, "error") /\ Shut(c)
       \/ ~Open(c) /\ UNCHANGED <<socket, received>>
    /\ UNCHANGED <<payload, connections, tasks, working, results, sending, dispatched, outcome>>
Except(c) ==
    /\ handler[c] = "except"
    /\ Handler(c, "done")
    /\ \/ Open(c) /\ Say(c, "error") /\ Shut(c) /\ connections' = connections \ {c}
       \/ ~Open(c) /\ UNCHANGED <<socket, received, connections>>
    /\ UNCHANGED <<payload, tasks, working, results, sending, dispatched, outcome>>

(* websockets closes the connection of a handler that has returned.        *)
CloseReturned(c) ==
    /\ handler[c] = "done"
    /\ Open(c)
    /\ Shut(c)
    /\ UNCHANGED <<payload, received, handler, connections, tasks, working, results, sending,
                   dispatched, outcome>>

-----------------------------------------------------------------------------
(* background_processor.                                                   *)
Take ==
    /\ working = {}
    /\ tasks # <<>>
    /\ working' = {Head(tasks)}
    /\ tasks' = Tail(tasks)
    /\ UNCHANGED <<socket, payload, received, handler, connections, results, sending, dispatched,
                   outcome>>

(* invoke_sub_contract_update of server.py sleeps and says success; a      *)
(* payload that is no dictionary raises before it is called.               *)
Finish ==
    \E c \in working :
        /\ working' = {}
        /\ results' = Append(results, [to |-> c,
                        says |-> IF payload[c] = "whole" THEN "result" ELSE "failed"])
        /\ UNCHANGED <<socket, payload, received, handler, connections, tasks, sending, dispatched,
                       outcome>>

(* response_dispatcher: the entry goes before the answer is sent.          *)
Dispatch ==
    /\ sending = {}
    /\ results # <<>>
    /\ sending' = {r \in {Head(results)} : r.to \in connections}
    /\ connections' = connections \ {Head(results).to}
    /\ results' = Tail(results)
    /\ UNCHANGED <<socket, payload, received, handler, tasks, working, dispatched, outcome>>

Mut_SendAgain ==
    \E r \in sending :
        /\ sending' = IF Open(r.to) THEN sending ELSE {}
        /\ dispatched' = dispatched \cup {r.to}
        /\ \/ Open(r.to) /\ Say(r.to, r.says) /\ UNCHANGED socket
           \/ ~Open(r.to) /\ UNCHANGED <<received, socket>>
        /\ UNCHANGED <<payload, handler, connections, tasks, working, results, outcome>>
Send ==
    \E r \in sending :
        /\ sending' = {}
        /\ dispatched' = dispatched \cup {r.to}
        /\ \/ Open(r.to) /\ Say(r.to, r.says) /\ Shut(r.to)
           \/ ~Open(r.to) /\ UNCHANGED <<received, socket>>
        /\ UNCHANGED <<payload, handler, connections, tasks, working, results, outcome>>

-----------------------------------------------------------------------------
(* POST /verification: perform_verification asks get_by_id for an entry    *)
(* without a model class.  get_by_id calls from_dict of that class on what *)
(* it finds, which raises; nothing of perform_verification runs after it.  *)
TriggerVerification(v) ==
    /\ outcome[v] = "none"
    /\ outcome' = [outcome EXCEPT ![v] = IF v \in Entries THEN "raised" ELSE "notFound"]
    /\ UNCHANGED <<socket, payload, received, handler, connections, tasks, working, results,
                   sending, dispatched>>

-----------------------------------------------------------------------------
ServerInit ==
    /\ socket = [c \in Clients |-> "absent"]
    /\ payload = [c \in Clients |-> "nothing"]
    /\ received = [c \in Clients |-> <<>>]
    /\ handler = [c \in Clients |-> "none"]
    /\ connections = {}
    /\ tasks = <<>>
    /\ working = {}
    /\ results = <<>>
    /\ sending = {}
    /\ dispatched = {}
    /\ outcome = [v \in Entries \cup Unknown |-> "none"]

HandlerStep(c) ==
    \/ \E p \in Payloads : Receive(c, p)
    \/ Refuse(c)
    \/ ReceiveClosed(c)
    \/ Except(c)
    \/ CloseReturned(c)

ServerNext ==
    \/ \E c \in Clients : Connect(c) \/ Leave(c) \/ HandlerStep(c)
    \/ Take \/ Finish \/ Dispatch \/ Send
    \/ \E v \in Entries \cup Unknown : TriggerVerification(v)

ServerSpec == ServerInit /\ [][ServerNext]_serverVars

-----------------------------------------------------------------------------
Queued(q) == {q[i] : i \in DOMAIN q}
Results == Queued(results) \cup sending

(* Type invariant.                                                         *)
ServerTypeOK ==
    /\ socket \in [Clients -> {"absent", "open", "left", "closed"}]
    /\ payload \in [Clients -> Payloads \cup {"nothing"}]
    /\ received \in [Clients -> Seq(Answers)]
    /\ handler \in [Clients -> {"none", "receive", "refuse", "except", "done"}]
    /\ connections \subseteq Clients
    /\ tasks \in Seq(Clients)
    /\ working \subseteq Clients /\ Cardinality(working) <= 1
    /\ results \in Seq([to : Clients, says : {"result", "failed"}])
    /\ sending \subseteq [to : Clients, says : {"result", "failed"}] /\ Cardinality(sending) <= 1
    /\ dispatched \subseteq Clients
    /\ outcome \in [Entries \cup Unknown -> {"none", "raised", "notFound"}]

(* A client gets at most one answer, the one that its payload calls for,   *)
(* whatever handlers, processor and dispatcher do in between.              *)
Due(p) == CASE p = "whole" -> "result" [] p = "list" -> "failed"
            [] p = "missing" -> "refused" [] OTHER -> "error"
OneDueAnswer == \A c \in Clients : received[c] = <<>> \/ received[c] = <<Due(payload[c])>>

(* The table of connections grows only by entries that nobody will ever   *)
(* take out of clients that were refused for a missing field, and of       *)
(* clients that left before they were heard or told of an error.           *)
InHand(c) ==
    \/ handler[c] \in {"receive", "refuse", "except"}
    \/ c \in Queued(tasks) \cup working
    \/ \E r \in Results : r.to = c
Abandoned(c) == payload[c] = "missing" \/ (socket[c] = "left" /\ payload[c] # "whole")
EntriesAccountedFor == \A c \in connections : InHand(c) \/ Abandoned(c)

=============================================================================
