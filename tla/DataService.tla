---------------------------- MODULE DataService ----------------------------
(***************************************************************************)
(* The data service of a C node (jamdata.c): a logger thread that writes   *)
(* what the program logs to a Redis server, one item at a time, and a      *)
(* thread for every broadcast variable that subscribes to its channel.     *)
(* All of them start before the server's address is known: the worker      *)
(* thread learns it from a PUT-CF-INFO and posts jdsem, which lets the     *)
(* threads through one after the other.  The subscriptions share one event *)
(* loop, bloop, which the first of their threads runs.                     *)
(*                                                                         *)
(* The Redis server, its client library and libevent are external.  The    *)
(* threads touch bloop without a lock; what that may break inside libevent *)
(* is not followed.                                                        *)
(***************************************************************************)
EXTENDS Integers, SequencesExt

CONSTANTS
  Casters,     \* broadcast variables
  Logger,      \* the logger thread
  Values,      \* integers the program logs
  Half,        \* 2^31
  MaxItems,    \* bound: logged
  Heard,       \* bound: variables somebody broadcasts to
  MaxMsgs,     \* bound: messages on each of their channels
  MaxPuts,     \* bound: times the address is announced
  MaxFaults    \* bound: connections that fail or end, writes refused

ASSUME DataServiceAssumption ==
  /\ IsFiniteSet(Casters) /\ Logger \notin Casters
  /\ Half \in Nat \ {0} /\ Values \subseteq -Half .. Half - 1
  /\ MaxItems \in Nat /\ MaxMsgs \in Nat /\ MaxPuts \in Nat /\ MaxFaults \in Nat

Threads == Casters \cup {Logger}

VARIABLES
  redserver, redport,   \* whether they are set
  worker,       \* between the two assignments of jam_set_redis, or not
  puts,
  jdsem,
  pc,           \* of each thread
  early,        \* history: threads that found redserver set and redport not
  link,         \* connection of each thread
  halfway,      \* history: threads that read redserver but no redport
  \* the logger
  logged,       \* history: everything the program has logged
  dataoutq,
  writing,      \* the item under way to the server, if any
  reply,        \* what has come back for it
  stored,       \* at the server
  dropped,      \* history: items the server refused, or no connection took
  \* the broadcasts
  dispatched, bloop,
  ready,        \* readysem was signalled
  published,    \* messages on each channel since its subscription
  wire,
  dataq,        \* the values get_bcast_next_value returns, one by one
  loopEnded,    \* history: bloop has run out of connections
  faults

addrVars == <<redserver, redport, worker, puts>>
logVars == <<logged, dataoutq, writing, reply, stored, dropped>>
castVars == <<dispatched, bloop, ready, published, wire, dataq, loopEnded>>
vars == <<addrVars, jdsem, pc, early, link, halfway, logVars, castVars, faults>>

(* An integer as jamdata_log_to_server_int encodes it, and as the fields   *)
(* of jamdata_log_to_server are.                                           *)
AsUnsigned(v) == IF v < 0 THEN v + 2 * Half ELSE v
AsMagnitude(v) == IF v < 0 THEN -v ELSE v

(* UNFIT is a struct without fields or with one jamdata_encode has no code *)
(* for: what it returns, and what is queued, is NULL.                      *)
Forms == {"int", "field", "unfit"}

(* An item has the time it was logged at, its place in the log here, so    *)
(* that no two items are the same to the server.                           *)
Item(form, v) ==
  [time |-> Len(logged) + 1, null |-> form = "unfit", meant |-> v,
   val |-> IF form = "int" THEN AsUnsigned(v) ELSE AsMagnitude(v)]
Dummy == [time |-> 0, null |-> FALSE, meant |-> 0, val |-> 0]

(* jamdata_init and create_jambroadcaster start the threads; how late they *)
(* do is how long a thread takes to its first step.                        *)
Init ==
  /\ redserver = FALSE /\ redport = FALSE /\ worker = "idle" /\ puts = 0
  /\ jdsem = 0
  /\ pc = [t \in Threads |-> "check"]
  /\ early = {} /\ halfway = {}
  /\ link = [t \in Threads |-> "none"]
  /\ logged = <<>> /\ dataoutq = <<>> /\ writing = <<>> /\ reply = "none"
  /\ stored = {} /\ dropped = {}
  /\ dispatched = FALSE /\ bloop = "off" /\ ready = {}
  /\ published = [c \in Casters |-> 0]
  /\ wire = [c \in Casters |-> <<>>] /\ dataq = [c \in Casters |-> <<>>]
  /\ loopEnded = FALSE
  /\ faults = 0

Goto(t, label) == pc' = [pc EXCEPT ![t] = label]
Fault == faults < MaxFaults /\ faults' = faults + 1

-----------------------------------------------------------------------------
(* The address *)

SetServer_posts ==  \* mutant: the waiting threads are signalled first
  /\ worker = "idle" /\ puts < MaxPuts
  /\ puts' = puts + 1
  /\ redserver' = TRUE
  /\ worker' = "port"
  /\ jdsem' = jdsem + 1
  /\ UNCHANGED <<redport, pc, early, link, halfway, logVars, castVars, faults>>

(* jam_set_redis: the server ...                                           *)
SetServer ==
  /\ worker = "idle" /\ puts < MaxPuts
  /\ puts' = puts + 1
  /\ redserver' = TRUE
  /\ worker' = "port"
  /\ UNCHANGED <<redport, jdsem, pc, early, link, halfway, logVars, castVars, faults>>

(* ... and the port.                                                       *)
SetPort ==
  /\ worker = "port"
  /\ redport' = TRUE
  /\ worker' = "idle"
  /\ jdsem' = jdsem + 1
  /\ UNCHANGED <<redserver, puts, pc, early, link, halfway, logVars, castVars, faults>>

-----------------------------------------------------------------------------
(* Every thread, until it is connected *)

Check(t) ==
  /\ pc[t] = "check"
  /\ Goto(t, IF redserver THEN "post" ELSE "wait")
  /\ early' = IF redserver /\ ~redport THEN early \cup {t} ELSE early
  /\ UNCHANGED <<addrVars, jdsem, link, halfway, logVars, castVars, faults>>

Wait(t) ==
  /\ pc[t] = "wait" /\ jdsem > 0
  /\ jdsem' = jdsem - 1
  /\ Goto(t, "post")
  /\ UNCHANGED <<addrVars, early, link, halfway, logVars, castVars, faults>>

Post_not(t) ==  \* mutant: the next thread is not let through
  /\ pc[t] = "post"
  /\ Goto(t, "connect")
  /\ UNCHANGED <<addrVars, jdsem, early, link, halfway, logVars, castVars, faults>>

Post(t) ==
  /\ pc[t] = "post"
  /\ jdsem' = jdsem + 1
  /\ Goto(t, "connect")
  /\ UNCHANGED <<addrVars, early, link, halfway, logVars, castVars, faults>>

(* redisAsyncConnect and what follows it: the logger sends its test value, *)
(* a runner its SUBSCRIBE.                                                 *)
Connect(t) ==
  /\ pc[t] = "connect"
  /\ link' = [link EXCEPT ![t] = "opening"]
  /\ halfway' = IF redport THEN halfway ELSE halfway \cup {t}
  /\ IF t = Logger THEN writing' = <<Dummy>> /\ Goto(t, "loop")
                   ELSE UNCHANGED writing /\ Goto(t, "flag")
  /\ UNCHANGED <<addrVars, jdsem, early, logged, dataoutq, reply, stored, dropped,
                 castVars, faults>>

(* It fails at once: the logger ends the program, a runner its thread.     *)
ConnectFails(t) ==
  /\ pc[t] = "connect" /\ Fault
  /\ Goto(t, IF t = Logger THEN "exit" ELSE "failed")
  /\ UNCHANGED <<addrVars, jdsem, early, link, halfway, logVars, castVars>>

(* The loop that serves a connection. *)
Served(t) == IF t = Logger THEN pc[Logger] = "loop" ELSE bloop = "running"

(* The server accepts the connection and the subscription.                 *)
Opened(t) ==
  /\ link[t] = "opening" /\ Served(t) /\ t \notin halfway
  /\ link' = [link EXCEPT ![t] = "open"]
  /\ UNCHANGED <<addrVars, jdsem, pc, early, halfway, logVars, dispatched, bloop, ready,
                 published, wire, dataq, loopEnded, faults>>

(* A connection is refused (no server has port 0) or ends; its callbacks   *)
(* get a NULL reply.                                                       *)
Closed(t) ==
  /\ link[t] \in {"opening", "open"} /\ Served(t)
  /\ IF t \in halfway THEN UNCHANGED faults ELSE Fault
  /\ link' = [link EXCEPT ![t] = "closed"]
  /\ IF t = Logger
       THEN reply' = (IF writing = <<>> THEN reply ELSE "null") /\ UNCHANGED wire
       ELSE wire' = [wire EXCEPT ![t] = <<>>] /\ UNCHANGED reply
  /\ UNCHANGED <<addrVars, jdsem, pc, early, halfway, logged, dataoutq, writing, stored,
                 dropped, dispatched, bloop, ready, published, dataq, loopEnded>>

-----------------------------------------------------------------------------
(* The logger *)

(* jamdata_log_to_server and its variants.                                 *)
Log(form, v) ==
  /\ Len(logged) < MaxItems
  /\ logged' = Append(logged, Item(form, v))
  /\ dataoutq' = Append(dataoutq, Item(form, v))
  /\ UNCHANGED <<addrVars, jdsem, pc, early, link, halfway, writing, reply, stored,
                 dropped, castVars, faults>>

(* The server has the item, or refuses it.                                 *)
Store ==
  /\ link[Logger] = "open" /\ writing # <<>> /\ reply = "none"
  /\ \/ /\ stored' = stored \cup {Head(writing)}
        /\ reply' = "ok"
        /\ UNCHANGED <<dropped, faults>>
     \/ /\ Fault
        /\ dropped' = dropped \cup {Head(writing)}
        /\ reply' = "error"
        /\ UNCHANGED stored
  /\ UNCHANGED <<addrVars, jdsem, pc, early, link, halfway, logged, dataoutq, writing,
                 castVars>>

jamdata_logger_cb_eager ==  \* mutant: does not wait for an item
  /\ reply # "none" /\ dataoutq = <<>>
  /\ reply' = "none" /\ writing' = <<>>
  /\ UNCHANGED <<addrVars, jdsem, pc, early, link, halfway, logged, dataoutq, stored,
                 dropped, castVars, faults>>

jamdata_logger_cb_skips ==  \* mutant: an item is lost after a refused one
  /\ reply # "none" /\ dataoutq # <<>>
  /\ dataoutq' = Tail(dataoutq)
  /\ IF reply = "ok"
       THEN writing' = <<Head(dataoutq)>> /\ reply' = "none"
       ELSE UNCHANGED <<writing, reply>>
  /\ UNCHANGED <<addrVars, jdsem, pc, early, link, halfway, logged, stored, dropped,
                 castVars, faults>>

(* jamdata_logger_cb: whatever the reply, waits for the next item and      *)
(* sends it.  A connection that has ended does not take it, no callback    *)
(* will come, and the logger's loop is over.  Where the item is NULL the   *)
(* program ends as the callback looks into it.                             *)
jamdata_logger_cb ==
  /\ reply # "none" /\ dataoutq # <<>>
  /\ dataoutq' = Tail(dataoutq)
  /\ reply' = "none"
  /\ IF link[Logger] = "open" /\ ~Head(dataoutq).null
       THEN /\ writing' = <<Head(dataoutq)>>
            /\ dropped' = dropped
            /\ UNCHANGED pc
       ELSE /\ writing' = <<>>
            /\ dropped' = dropped \cup {Head(dataoutq)} \cup (Range(writing) \ stored)
            /\ Goto(Logger, IF Head(dataoutq).null THEN "exit" ELSE "over")
  /\ UNCHANGED <<addrVars, jdsem, early, link, halfway, logged, stored, castVars, faults>>

-----------------------------------------------------------------------------
(* The broadcasts *)

(* jambcast_runner has subscribed and reads dispatched ...                 *)
ReadFlag(c) ==
  /\ pc[c] = "flag"
  /\ IF dispatched THEN ready' = ready \cup {c} /\ Goto(c, "done")
                   ELSE UNCHANGED ready /\ Goto(c, "first")
  /\ UNCHANGED <<addrVars, jdsem, early, link, halfway, logVars, dispatched, bloop,
                 published, wire, dataq, loopEnded, faults>>

(* ... sets it, and runs the loop unless another thread runs it.           *)
Dispatch(c) ==
  /\ pc[c] = "first"
  /\ dispatched' = TRUE
  /\ ready' = ready \cup {c}
  /\ bloop' = "running"
  /\ Goto(c, IF bloop = "running" THEN "done" ELSE "loop")
  /\ UNCHANGED <<addrVars, jdsem, early, link, halfway, logVars, published, wire, dataq,
                 loopEnded, faults>>

(* event_base_dispatch returns when no connection is left.                 *)
LoopEnds(c) ==
  /\ pc[c] = "loop" /\ \A d \in Casters : link[d] \notin {"opening", "open"}
  /\ bloop' = "off"
  /\ loopEnded' = TRUE
  /\ Goto(c, "done")
  /\ UNCHANGED <<addrVars, jdsem, early, link, halfway, logVars, dispatched, ready,
                 published, wire, dataq, faults>>

(* Somebody broadcasts a value; without a subscription nothing comes of it.*)
Broadcast(c) ==
  /\ link[c] = "open"
  /\ c \in Heard /\ published[c] < MaxMsgs
  /\ published' = [published EXCEPT ![c] = @ + 1]
  /\ wire' = [wire EXCEPT ![c] = Append(@, published'[c])]
  /\ UNCHANGED <<addrVars, jdsem, pc, early, link, halfway, logVars, dispatched, bloop,
                 ready, dataq, loopEnded, faults>>

jambcast_recv_callback(c) ==
  /\ bloop = "running" /\ wire[c] # <<>>
  /\ wire' = [wire EXCEPT ![c] = Tail(@)]
  /\ dataq' = [dataq EXCEPT ![c] = Append(@, Head(wire[c]))]
  /\ UNCHANGED <<addrVars, jdsem, pc, early, link, halfway, logVars, dispatched, bloop,
                 ready, published, loopEnded, faults>>

-----------------------------------------------------------------------------
Starting(t) == Check(t) \/ Wait(t) \/ Post(t) \/ Connect(t)
Running(c) == ReadFlag(c) \/ Dispatch(c) \/ LoopEnds(c)

Alive == pc[Logger] # "exit"

Next ==
  /\ Alive
  /\ \/ SetServer \/ SetPort
     \/ \E t \in Threads : Starting(t) \/ ConnectFails(t) \/ Opened(t) \/ Closed(t)
     \/ \E form \in Forms, v \in Values : Log(form, v)
     \/ Store \/ jamdata_logger_cb
     \/ \E c \in Casters : Running(c) \/ Broadcast(c) \/ jambcast_recv_callback(c)

Spec == Init /\ [][Next]_vars

(* Threads run, the loops serve their connections, and the server answers. *)
Fairness ==
  /\ WF_vars(Alive /\ SetPort)
  /\ \A t \in Threads : WF_vars(Alive /\ Starting(t)) /\ WF_vars(Alive /\ (Opened(t) \/ Closed(t)))
  /\ WF_vars(Alive /\ Store) /\ WF_vars(Alive /\ jamdata_logger_cb)
  /\ \A c \in Casters : WF_vars(Alive /\ Running(c))
FairSpec == Spec /\ Fairness
-----------------------------------------------------------------------------
TypeOK ==
  /\ jdsem \in 0..(MaxPuts + Cardinality(Threads))
  /\ pc \in [Threads -> {"check", "wait", "post", "connect", "loop", "flag", "first",
                         "done", "failed", "over", "exit"}]
  /\ early \subseteq Threads /\ halfway \subseteq Threads /\ ready \subseteq Casters
  /\ link \in [Threads -> {"none", "opening", "open", "closed"}]
  /\ Len(writing) <= 1 /\ reply \in {"none", "ok", "error", "null"}
  /\ bloop \in {"off", "running"}
  /\ \A c \in Casters : Len(dataq[c]) <= published[c]

(* "Signal the waiting threads": nobody connects before the whole address *)
(* is there, unless a thread came just between the server and the port: it *)
(* does not wait, and lets the next one through as well.                   *)
AddressIsWhole == early = {} => halfway = {}

(* "The next data item is sent only after the callback comes from the      *)
(* previous write": every item logged is either stored, or in the queue,   *)
(* or the one under way, or was refused.                                   *)
NothingMislaid ==
  /\ Range(logged) = (stored \cup dropped \cup Range(dataoutq) \cup Range(writing)) \ {Dummy}
  /\ Range(dataoutq) \cap (stored \cup dropped \cup Range(writing)) = {}

(* The values the program gets are the messages of the channel since its   *)
(* subscription, in order and without a gap, whatever else the loop serves.*)
ValuesInOrder == \A c \in Casters :
  LET seen == dataq[c] \o wire[c] IN
  /\ \A i \in DOMAIN seen : seen[i] = i
  /\ link[c] = "open" => Len(seen) = published[c]

(* The values the variables take, and that nobody connects to half an      *)
(* address or misses a value.                                              *)
DataServiceInv == TypeOK /\ AddressIsWhole /\ ValuesInOrder

(* What is logged is stored in the end, unless the server refuses it, the  *)
(* connection ends once, or the program does: when the logger cannot       *)
(* connect, or comes to a NULL item (jamdata.c:225, 408).                  *)
LoggedInTheEnd == \A i \in 1..MaxItems :
  (Len(logged) >= i /\ redserver)
    ~> (\/ \E x \in stored \cup dropped : x.time = i
        \/ link[Logger] = "closed" \/ pc[Logger] = "exit")

(* Every broadcast variable is served, whoever runs the loop, as long as   *)
(* the loop has not run out of connections.                                *)
ServedInTheEnd == \A c \in Casters :
  redserver
    ~> (\/ link[c] \in {"open", "closed"} \/ pc[c] = "failed" \/ loopEnded
        \/ pc[Logger] = "exit")
=============================================================================
