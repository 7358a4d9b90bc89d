-------------------------- MODULE MqttSubscriptions --------------------------
(***************************************************************************)
(* The subscribing side of mqttregistry.js with the retry handlers of      *)
(* jregistrar.js: what one node subscribes to, on a broker that keeps its  *)
(* session (clean: false) or loses it.                                     *)
(*                                                                         *)
(* An element of Subs stands for an attribute of one type of machine (the  *)
(* three branches of every function are alike).  Its value is a number     *)
(* that grows with every publication of some other node.  Packets of the   *)
(* client reach the broker in order, and so do packets back.               *)
(*                                                                         *)
(* The client library is the MQTT.js of node_modules.  It sends a          *)
(* SUBSCRIBE once and forgets it with the connection; it remembers the     *)
(* topics it was asked for and does not ask again; and its callback gets   *)
(* no error but for an invalid topic.  So a subscription that was lost on  *)
(* its way, denied or gone with the session stays lost: cut names those.   *)
(*                                                                         *)
(* Unsubscribing is not here because the code never does it:               *)
(* stopDiscoveringAttributes asks subscribedAttrs, instead of one of its   *)
(* three maps, for the attribute (line 538), so attrsToUnsubFrom stays     *)
(* empty, and a new connection unsubscribes from attrsToRemove (line 108), *)
(* which has no such map either.                                           *)
(***************************************************************************)
EXTENDS MqttClient

CONSTANTS
  Subs,
  Wild,       \* those that may have a name that MQTT.js refuses, with a + or a #
  QoS,        \* subQos: 0 for a device, 1 for fogs and clouds
  MaxVersion  \* bound: publications of each attribute

ASSUME SubscriptionsAssumption ==
  /\ IsFiniteSet(Subs)
  /\ Wild \subseteq Subs
  /\ QoS \in {0, 1}
  /\ MaxVersion \in Nat

VARIABLES
  invalid,         \* those that do; chosen once
  wanted,          \* what the application discovers at present
  attrsToSubTo, subscribedAttrs,
  \* the client
  resubscribeTopics,
  refused,         \* requests whose callback is about to get an error
  \* the broker
  brokerSubs,      \* the subscriptions of the node's session
  peer,            \* the retained value of each attribute
  down,            \* packets on their way to the node
  told,            \* the value the application was told last
  cut              \* history: attributes whose subscription went wrong

nodeVars == <<invalid, wanted, attrsToSubTo, subscribedAttrs, timers, resubscribeTopics, refused>>
linkVars == <<connected, errors, drops>>
vars == <<nodeVars, linkVars, calls, brokerSubs, peer, down, told, cut>>

(* A request with the retries left, and a SUBSCRIBE with the part of what  *)
(* the registry asked for that the client asks for.                        *)
Request(attrs, retries) == [attrs |-> attrs, retries |-> retries]
Call(attrs, subs) == [attrs |-> attrs, subs |-> subs]

(* The retries left of a request that subscribe is to make: sub-error      *)
(* starts it a minute later.                                               *)
Long == Retries + 1

Message(a) == [type |-> "message", attr |-> a, value |-> peer[a]]
SubAck(call, granted) == [type |-> "suback", call |-> call, granted |-> granted]

(* The broker may know the node from an earlier run. *)
Init ==
  /\ invalid \in SUBSET Wild
  /\ wanted = {} /\ attrsToSubTo = {} /\ subscribedAttrs = {}
  /\ resubscribeTopics = {} /\ refused = <<>>
  /\ connected = FALSE
  /\ calls = <<>> /\ timers = <<>> /\ down = <<>>
  /\ errors = 0 /\ drops = 0
  /\ brokerSubs \in SUBSET (Subs \ invalid)
  /\ peer = [a \in Subs |-> 0]
  /\ told = [a \in Subs |-> 0]
  /\ cut = {}

(***************************************************************************)
(* The registry                                                            *)
(***************************************************************************)

(* _subscribeWithRetries moves the attributes at once, since their         *)
(* messages may come before the acknowledgement.  If the client has asked  *)
(* for all of them before, it grants nothing and says so at once.          *)
subscribeWithRetries(toSub, subscribed, dattrs, retries) ==
  LET subs == dattrs \ resubscribeTopics IN
  \/ /\ dattrs \cap invalid # {}
     /\ attrsToSubTo' = toSub \ dattrs
     /\ subscribedAttrs' = subscribed \cup dattrs
     /\ refused' = Append(refused, Request(dattrs, retries))
     /\ UNCHANGED <<calls, resubscribeTopics>>
  \/ /\ dattrs \cap invalid = {} /\ subs # {}
     /\ attrsToSubTo' = toSub \ dattrs
     /\ subscribedAttrs' = subscribed \cup dattrs
     /\ calls' = Append(calls, Call(dattrs, subs))
     /\ resubscribeTopics' = resubscribeTopics \cup subs
     /\ UNCHANGED refused
  \/ /\ dattrs \cap invalid = {} /\ subs = {}
     /\ attrsToSubTo' = toSub \cup dattrs
     /\ subscribedAttrs' = subscribed \ dattrs
     /\ UNCHANGED <<calls, resubscribeTopics, refused>>

discoverAttributes(S) ==
  LET subs == S \ subscribedAttrs IN
  /\ wanted' = wanted \cup S
  /\ IF connected
       THEN /\ subs \cap invalid = {} \/ Len(refused) + Len(timers) < MaxErrors
            /\ subscribeWithRetries(attrsToSubTo, subscribedAttrs, subs, Retries)
       ELSE /\ attrsToSubTo' = attrsToSubTo \cup subs
            /\ UNCHANGED <<subscribedAttrs, calls, resubscribeTopics, refused>>
  /\ UNCHANGED <<invalid, timers, linkVars, brokerSubs, peer, down, told, cut>>

stopDiscoveringAttributes(S) ==
  /\ wanted' = wanted \ S
  /\ attrsToSubTo' = attrsToSubTo \ S
  /\ UNCHANGED <<invalid, subscribedAttrs, timers, resubscribeTopics, refused, linkVars, calls,
                 brokerSubs, peer, down, told, cut>>

(* What a connection finds subscribed already: nothing without a session.  *)
Kept(sessionPresent) == IF sessionPresent THEN subscribedAttrs ELSE {}

(* The connect event.  Without a session everything is to be subscribed    *)
(* again, but the client does not ask again for what it asked for before.  *)
Connect(sessionPresent) ==
  LET toSub == attrsToSubTo \cup (subscribedAttrs \ Kept(sessionPresent)) IN
  /\ ~connected
  /\ connected' = TRUE
  /\ subscribeWithRetries(toSub, Kept(sessionPresent), toSub, Retries)
  /\ brokerSubs' = IF sessionPresent THEN brokerSubs ELSE {}
  /\ down' = IF sessionPresent THEN down ELSE <<>>
  /\ cut' = IF sessionPresent THEN cut ELSE cut \cup (subscribedAttrs \cap resubscribeTopics)
  /\ UNCHANGED <<invalid, wanted, timers, errors, drops, peer, told>>

BackOff_forget(call) ==  \* mutant: the attributes are not queued again
  IF call.retries # 0
    THEN /\ timers' = Append(timers, Request(call.attrs, call.retries - 1))
         /\ UNCHANGED <<attrsToSubTo, subscribedAttrs>>
    ELSE /\ timers' = Append(timers, Request(call.attrs, Long))
         /\ subscribedAttrs' = subscribedAttrs \ call.attrs
         /\ UNCHANGED attrsToSubTo

(* What the callback does with an error: a retry in two seconds, or        *)
(* sub-error, whose handler tries again in a minute.                       *)
BackOff(call) ==
  IF call.retries # 0
    THEN /\ timers' = Append(timers, Request(call.attrs, call.retries - 1))
         /\ UNCHANGED <<attrsToSubTo, subscribedAttrs>>
    ELSE /\ timers' = Append(timers, Request(call.attrs, Long))
         /\ attrsToSubTo' = attrsToSubTo \cup call.attrs
         /\ subscribedAttrs' = subscribedAttrs \ call.attrs

(* One invalid name fails the whole request. *)
Fail ==
  /\ refused # <<>>
  /\ refused' = Tail(refused)
  /\ BackOff(Head(refused))
  /\ cut' = cut \cup Head(refused).attrs
  /\ UNCHANGED <<invalid, wanted, resubscribeTopics, linkVars, calls, brokerSubs, peer, down, told>>

(* The two seconds of a retry, or the minute of sub-error, are over; after *)
(* a minute without a connection nothing is done.                          *)
Retry(k) ==
  LET t == timers[k] IN
  /\ timers' = RemoveAt(timers, k)
  /\ IF t.retries # Long
       THEN subscribeWithRetries(attrsToSubTo, subscribedAttrs, t.attrs, t.retries)
       ELSE IF connected
              THEN subscribeWithRetries(attrsToSubTo, subscribedAttrs, t.attrs, Retries)
              ELSE UNCHANGED <<attrsToSubTo, subscribedAttrs, calls, resubscribeTopics, refused>>
  /\ UNCHANGED <<invalid, wanted, linkVars, brokerSubs, peer, down, told, cut>>

(* What the client does not list as granted is to be subscribed to again.  *)
(* The list has all that it asked for, what the broker denied included; it *)
(* forgets the topic of a SUBSCRIBE for just one that is denied.           *)
Acknowledged(call, granted) ==
  /\ attrsToSubTo' = attrsToSubTo \cup (call.attrs \ call.subs)
  /\ subscribedAttrs' = subscribedAttrs \ (call.attrs \ call.subs)
  /\ resubscribeTopics' =
       IF granted = {} /\ Cardinality(call.subs) = 1 THEN resubscribeTopics \ call.subs
                                                     ELSE resubscribeTopics

Listens_confirmed(a) ==  \* mutant: not before the acknowledgement
  a \in subscribedAttrs /\ \A k \in DOMAIN down : down[k].type = "suback" => a \notin down[k].call.attrs

Listens(a) == a \in subscribedAttrs

Receive ==
  /\ connected
  /\ down # <<>>
  /\ down' = Tail(down)
  /\ LET p == Head(down) IN
     \/ /\ p.type = "message"
        /\ told' = IF Listens(p.attr) THEN [told EXCEPT ![p.attr] = p.value] ELSE told
        /\ UNCHANGED <<attrsToSubTo, subscribedAttrs, resubscribeTopics>>
     \/ /\ p.type = "suback"
        /\ Acknowledged(p.call, p.granted)
        /\ UNCHANGED told
  /\ UNCHANGED <<invalid, wanted, timers, refused, linkVars, calls, brokerSubs, peer, cut>>

(***************************************************************************)
(* The broker and the other nodes                                          *)
(***************************************************************************)

(* A subscription is answered with the retained values, before or after    *)
(* the acknowledgement.                                                    *)
Grant(granted) ==
  LET call == Head(calls)
      values == [k \in 1..Cardinality(granted) |-> Message(SetToSeq(granted)[k])]
      ack == <<SubAck(call, granted)>>
  IN  /\ connected
      /\ calls # <<>>
      /\ granted \subseteq call.subs
      /\ errors' = IF granted = call.subs THEN errors ELSE errors + 1
      /\ errors' <= MaxErrors
      /\ calls' = Tail(calls)
      /\ brokerSubs' = brokerSubs \cup granted
      /\ down' \in {down \o values \o ack, down \o ack \o values}
      /\ cut' = cut \cup (call.subs \ granted)
      /\ UNCHANGED <<nodeVars, connected, drops, peer, told>>

(* A name with a wildcard cannot be published under. *)
Publish(a) ==
  /\ a \notin invalid
  /\ peer[a] < MaxVersion
  /\ peer' = [peer EXCEPT ![a] = @ + 1]
  /\ down' = IF a \in brokerSubs /\ (connected \/ QoS = 1)
               THEN Append(down, [Message(a) EXCEPT !.value = @ + 1])
               ELSE down
  /\ UNCHANGED <<nodeVars, linkVars, calls, brokerSubs, told, cut>>

(* The elements of a sequence at some of its positions, in their order     *)
(* (SelectSeq without its recursion): position k is the n-th of K.         *)
Nth(K, n) == CHOOSE k \in K : Cardinality({j \in K : j <= k}) = n
Select(s, K) == [n \in 1..Cardinality(K) |-> s[Nth(K, n)]]

Packets(type) == {k \in DOMAIN down : down[k].type = type}

(* The connection is lost, and with it what was under way; messages of     *)
(* QoS 1 are sent again with the next one, SUBSCRIBEs are not.             *)
Drop ==
  /\ LoseConnection
  /\ down' = IF QoS = 1 THEN Select(down, Packets("message")) ELSE <<>>
  /\ calls' = <<>>
  /\ cut' = cut \cup UNION {calls[k].subs : k \in DOMAIN calls}
  /\ UNCHANGED <<nodeVars, errors, brokerSubs, peer, told>>

Link ==
  \/ Connect(TRUE) \/ Connect(FALSE)
  \/ Receive
  \/ \E granted \in SUBSET Subs : Grant(granted)

Again == Fail \/ \E k \in DOMAIN timers : Retry(k)

Next ==
  \/ \E S \in SUBSET Subs : S # {} /\ (discoverAttributes(S) \/ stopDiscoveringAttributes(S))
  \/ Again
  \/ \E a \in Subs : Publish(a)
  \/ Drop
  \/ Link

Spec == Init /\ [][Next]_vars

(* The client reconnects for ever, timers expire and packets arrive.       *)
FairSpec == Spec /\ WF_vars(Link) /\ WF_vars(Again)
-----------------------------------------------------------------------------
Requests == [attrs : SUBSET Subs, retries : 0..Long]
Calls == [attrs : SUBSET Subs, subs : SUBSET Subs]
Messages == [type : {"message"}, attr : Subs, value : 0..MaxVersion]
SubAcks == [type : {"suback"}, call : Calls, granted : SUBSET Subs]

TypeOK ==
  /\ invalid \subseteq Subs
  /\ wanted \subseteq Subs /\ attrsToSubTo \subseteq Subs
  /\ subscribedAttrs \subseteq Subs /\ brokerSubs \subseteq Subs
  /\ resubscribeTopics \subseteq Subs /\ cut \subseteq Subs
  /\ connected \in BOOLEAN
  /\ calls \in Seq(Calls) /\ timers \in Seq(Requests) /\ refused \in Seq(Requests)
  /\ errors \in 0..MaxErrors /\ drops \in 0..MaxDrops
  /\ peer \in [Subs -> 0..MaxVersion] /\ told \in [Subs -> 0..MaxVersion]
  /\ down \in Seq(Messages \cup SubAcks)

(* What the application discovers is in exactly one of the two maps,       *)
(* however retries, denials and reconnections overlap: it is never         *)
(* forgotten between them.  And while connected none waits that nothing    *)
(* went wrong with.                                                        *)
NeverForgotten ==
  /\ wanted \subseteq attrsToSubTo \cup subscribedAttrs
  /\ attrsToSubTo \cap subscribedAttrs = {}
  /\ connected => attrsToSubTo \subseteq cut

(* What counts as subscribed is subscribed on the broker, or a request for *)
(* it is under way, unless it was asked for with an invalid name           *)
(* (mqttregistry.js:231), was denied, or the SUBSCRIBE was lost with the   *)
(* connection or its effect with the session (cut).                        *)
SubscribedIsReal ==
  \A a \in subscribedAttrs :
    \/ a \in brokerSubs \cup cut
    \/ \E k \in DOMAIN calls : a \in calls[k].subs
    \/ \E k \in DOMAIN refused : a \in refused[k].attrs

(* The values the variables take, and that no attribute is forgotten or    *)
(* taken to be subscribed when it is not.                                  *)
SubscriptionsInv == TypeOK /\ NeverForgotten /\ SubscribedIsReal

(* With QoS 1 the application learns the last value of what it discovers,  *)
(* however often it stops, the connection is lost or another attribute     *)
(* fails, unless its own subscription went wrong (cut).                    *)
ToldInTheEnd ==
  \A a \in Subs :
    <>[](a \in wanted) => <>[](told[a] = peer[a] \/ a \in cut)
=============================================================================
