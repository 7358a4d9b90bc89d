-------------------------- MODULE MqttPublications --------------------------
(***************************************************************************)
(* The publishing side of mqttregistry.js with the retry handlers of       *)
(* jregistrar.js: the attributes of one node, among them its status, as    *)
(* retained messages on a broker that announces the node's end by its      *)
(* will.  The node may crash and start again under the same client id.     *)
(*                                                                         *)
(* An attribute added at time v has the value v, and its dedupe id goes    *)
(* where the value goes, except after pub-error: publish passes the number *)
(* of retries for the id (and nothing for the retries).                    *)
(*                                                                         *)
(* The names that MqttSubscriptions has too are marked with Pub here.      *)
(***************************************************************************)
EXTENDS MqttClient

CONSTANTS
  Attrs,      \* the attributes the application adds and removes
  MaxTime     \* bound: calls of the application, starts of the node included

Status == "status"
All == Attrs \cup {Status}

ASSUME PublicationsAssumption ==
  /\ Status \notin Attrs /\ IsFiniteSet(Attrs)
  /\ MaxTime \in Nat

VARIABLES
  time,            \* of the application's last call
  running,
  publishedAttrs,  \* value of each attribute published, or Absent
  attrsToPublish,  \* likewise
  attrsToRemove,
  retained         \* what the broker keeps for each attribute

bookVars == <<time, running, publishedAttrs, attrsToPublish, attrsToRemove>>
pubVars == <<bookVars, connected, calls, timers, errors, drops, retained>>

Absent == 0
NoAttrs == [a \in All |-> Absent]
In(attrs) == {a \in All : attrs[a] # Absent}

WillPayload == -1  \* the payload of the will

Pub(a, v) == [op |-> "pub", attr |-> a, value |-> v]
Unpub(a, retries) == [op |-> "unpub", attr |-> a, retries |-> retries]

PubInit ==
  /\ time = 0
  /\ running = FALSE
  /\ publishedAttrs = NoAttrs /\ attrsToPublish = NoAttrs /\ attrsToRemove = {}
  /\ connected = FALSE
  /\ calls = <<>> /\ timers = <<>>
  /\ errors = 0 /\ drops = 0
  /\ retained = NoAttrs

(***************************************************************************)
(* The application                                                         *)
(***************************************************************************)

(* The Registrar's constructor adds the status, registerAndDiscover makes  *)
(* the client.                                                             *)
registerAndDiscover ==
  /\ ~running
  /\ time < MaxTime
  /\ time' = time + 1
  /\ running' = TRUE
  /\ attrsToPublish' = [NoAttrs EXCEPT ![Status] = time + 1]
  /\ UNCHANGED <<publishedAttrs, attrsToRemove, connected, calls, timers,
                 errors, drops, retained>>

(* What is published, or about to be unpublished, is not published anew.   *)
addAttributes(a) ==
  /\ running
  /\ time < MaxTime
  /\ time' = time + 1
  /\ attrsToRemove' = attrsToRemove \ {a}
  /\ IF publishedAttrs[a] = Absent
       THEN /\ attrsToPublish' = [attrsToPublish EXCEPT ![a] = time + 1]
            /\ calls' = IF connected THEN Append(calls, Pub(a, time + 1)) ELSE calls
       ELSE UNCHANGED <<attrsToPublish, calls>>
  /\ UNCHANGED <<running, publishedAttrs, connected, timers, errors, drops, retained>>

removeAttributes(a) ==
  /\ running
  /\ time < MaxTime
  /\ time' = time + 1
  /\ attrsToPublish' = [attrsToPublish EXCEPT ![a] = Absent]
  /\ IF publishedAttrs[a] # Absent
       THEN /\ attrsToRemove' = attrsToRemove \cup {a}
            /\ calls' = IF connected THEN Append(calls, Unpub(a, Retries)) ELSE calls
       ELSE UNCHANGED <<attrsToRemove, calls>>
  /\ UNCHANGED <<running, publishedAttrs, connected, timers, errors, drops, retained>>

(***************************************************************************)
(* Connections and answers                                                 *)
(***************************************************************************)
Republish(attrs) ==
  LET s == SetToSeq(In(attrs)) IN [k \in DOMAIN s |-> Pub(s[k], attrs[s[k]])]
Unpublish(attrs) ==
  LET s == SetToSeq(attrs) IN [k \in DOMAIN s |-> Unpub(s[k], Retries)]

ConnectPub_trusting ==  \* mutant: what was published once is taken to be there
  /\ running /\ ~connected
  /\ connected' = TRUE
  /\ calls' = calls \o Republish(attrsToPublish) \o Unpublish(attrsToRemove)
  /\ UNCHANGED <<time, running, attrsToRemove, attrsToPublish, publishedAttrs,
                 timers, errors, drops, retained>>

(* The connect event: everything is published again, after the packets     *)
(* that the lost connection left unanswered.                               *)
ConnectPub ==
  LET again == [a \in All |-> IF publishedAttrs[a] # Absent THEN publishedAttrs[a]
                                                            ELSE attrsToPublish[a]]
  IN  /\ running /\ ~connected
      /\ connected' = TRUE
      /\ attrsToPublish' = again
      /\ publishedAttrs' = NoAttrs
      /\ calls' = calls \o Republish(again) \o Unpublish(attrsToRemove)
      /\ UNCHANGED <<time, running, attrsToRemove, timers, errors, drops, retained>>

(* The callback of a publication that went well. *)
Booked(c) ==
  IF c.op = "pub"
    THEN /\ publishedAttrs' = [publishedAttrs EXCEPT ![c.attr] = c.value]
         /\ attrsToPublish' = [attrsToPublish EXCEPT ![c.attr] = Absent]
         /\ UNCHANGED attrsToRemove
    ELSE /\ publishedAttrs' = [publishedAttrs EXCEPT ![c.attr] = Absent]
         /\ attrsToRemove' = attrsToRemove \ {c.attr}
         /\ UNCHANGED attrsToPublish

Keep(c) == [retained EXCEPT ![c.attr] = IF c.op = "pub" THEN c.value ELSE Absent]

Answer ==
  /\ connected
  /\ calls # <<>>
  /\ calls' = Tail(calls)
  /\ retained' = Keep(Head(calls))
  /\ Booked(Head(calls))
  /\ UNCHANGED <<time, running, connected, timers, errors, drops>>

BackOffPub_never(c) ==  \* mutant: nobody handles pub-error
  timers' = IF c.op = "pub" THEN timers
            ELSE Append(timers, Unpub(c.attr, IF c.retries > 0 THEN c.retries - 1 ELSE Retries + 1))

(* The callback of one that failed: a publication is never retried by the  *)
(* registry (retries === 0 asks for the wrong case), but pub-error has it  *)
(* published again in a minute; unpublishing is retried, and after         *)
(* unpub-error starts over in a minute.                                    *)
BackOffPub(c) ==
  timers' = Append(timers,
    IF c.op = "pub" THEN c
    ELSE IF c.retries > 0 THEN Unpub(c.attr, c.retries - 1)
    ELSE Unpub(c.attr, Retries + 1))

(* A call fails, whether or not the broker got it.                         *)
FailPub ==
  /\ errors < MaxErrors
  /\ errors' = errors + 1
  /\ calls # <<>>
  /\ calls' = Tail(calls)
  /\ BackOffPub(Head(calls))
  /\ retained' \in IF connected THEN {retained, Keep(Head(calls))} ELSE {retained}
  /\ UNCHANGED <<bookVars, connected, drops>>

(* A short timer calls _unpublishWithRetries; the handlers' long ones do   *)
(* something only while the node is connected.                             *)
IsLong(t) == t.op = "pub" \/ t.retries > Retries

RetryPub(k) ==
  LET t == timers[k] IN
  /\ timers' = RemoveAt(timers, k)
  /\ calls' = IF ~IsLong(t) THEN Append(calls, t)
              ELSE IF connected
                     THEN Append(calls, IF t.op = "pub" THEN t ELSE Unpub(t.attr, Retries))
                     ELSE calls
  /\ UNCHANGED <<bookVars, connected, errors, drops, retained>>

(* The broker publishes the will when the connection is gone; the client   *)
(* keeps its unanswered packets for the next one.                          *)
DropPub ==
  /\ LoseConnection
  /\ retained' = [retained EXCEPT ![Status] = WillPayload]
  /\ UNCHANGED <<bookVars, calls, timers, errors>>

Crash ==
  /\ running
  /\ drops < MaxDrops
  /\ drops' = drops + 1
  /\ running' = FALSE
  /\ connected' = FALSE
  /\ retained' = IF connected THEN [retained EXCEPT ![Status] = WillPayload] ELSE retained
  /\ publishedAttrs' = NoAttrs /\ attrsToPublish' = NoAttrs /\ attrsToRemove' = {}
  /\ calls' = <<>> /\ timers' = <<>>
  /\ UNCHANGED <<time, errors>>

RetrySomePub == \E k \in DOMAIN timers : RetryPub(k)

PubNext ==
  \/ registerAndDiscover
  \/ \E a \in Attrs : addAttributes(a) \/ removeAttributes(a)
  \/ ConnectPub \/ Answer \/ FailPub \/ RetrySomePub
  \/ DropPub \/ Crash

PubSpec == PubInit /\ [][PubNext]_pubVars

(* The client reconnects, is answered, and its timers expire.              *)
PubFairSpec == PubSpec /\ WF_pubVars(ConnectPub) /\ WF_pubVars(Answer) /\ WF_pubVars(RetrySomePub)
-----------------------------------------------------------------------------
Publications ==
  [op : {"pub"}, attr : All, value : 1..MaxTime]
    \cup [op : {"unpub"}, attr : Attrs, retries : 0..(Retries + 1)]

PubTypeOK ==
  /\ time \in 0..MaxTime /\ running \in BOOLEAN /\ connected \in BOOLEAN
  /\ publishedAttrs \in [All -> 0..MaxTime] /\ attrsToPublish \in [All -> 0..MaxTime]
  /\ attrsToRemove \subseteq Attrs
  /\ calls \in Seq(Publications) /\ timers \in Seq(Publications)
  /\ errors \in 0..MaxErrors /\ drops \in 0..MaxDrops
  /\ retained \in [All -> WillPayload..MaxTime]

Pending(a) == \E c \in ToSet(calls) \cup ToSet(timers) : c.attr = a

(* An attribute the application added and never removed is in one of the   *)
(* two maps, so that the next connection publishes it; the status is from  *)
(* the start of the node.                                                  *)
StatusNotForgotten == running => Status \in In(publishedAttrs) \cup In(attrsToPublish)

(* While the node is connected, the broker keeps what the books say is     *)
(* published, unless something is still under way: wills, lost             *)
(* connections, removals and failures that were none do not fool the       *)
(* registry.                                                               *)
BooksAreRight ==
  connected =>
    \A a \in In(publishedAttrs) :
      retained[a] = publishedAttrs[a] \/ Pending(a)

(* The values the variables take, and that the registry's books are        *)
(* complete and right about the broker.                                    *)
PublicationsInv == PubTypeOK /\ StatusNotForgotten /\ BooksAreRight

(* However often connections were lost, publications failed and the node   *)
(* crashed: one that runs in the end is online for everybody, with the     *)
(* status of its last start.                                               *)
OnlineInTheEnd ==
  <>[]running => <>[](connected /\ retained[Status] = publishedAttrs[Status] /\ retained[Status] > 0)
=============================================================================
