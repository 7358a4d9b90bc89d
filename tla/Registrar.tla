----------------------------- MODULE Registrar -----------------------------
(***************************************************************************)
(* jregistrar.js over two of its registries: one node advertises an        *)
(* attribute by mDNS (MdnsRegistry) and by MQTT, and the Registrar of the  *)
(* discovering node turns what both report into events for its             *)
(* application.  It treats each pair of a node and an attribute on its     *)
(* own, so one pair stands for all; which one is chosen in Init: the       *)
(* status or a custom attribute, of another node or of the discovering     *)
(* one.  The value of an attribute is the time of its addition, and so is  *)
(* its dedupe id; it may be too long for mDNS, unless it was added before  *)
(* the Registrar was started.                                              *)
(*                                                                         *)
(* MQTT is a queue that loses nothing: MqttPublications and                *)
(* MqttSubscriptions have its inside.                                      *)
(***************************************************************************)
EXTENDS MdnsRegistry

CONSTANT EliminateDuplicates  \* of the discovering Registrar's config

ASSUME RegistrarAssumption == EliminateDuplicates \in BOOLEAN

VARIABLES
  kind,         \* "status" or "custom"
  own,          \* the attribute is one of the discovering node itself
  time,
  \* the advertising node
  state,        \* "none", "made" or "started"
  wanted,       \* the value its application wants advertised, or Absent
  size,         \* whether that value is "short" enough for a TXT record, or "long"
  published,    \* publishedAttrs and attrsToPublish of its MQTT registry
  mqttQ,        \* messages from the broker
  \* the discovering node
  discoveries,  \* discoveries[attr][nodeId], or Unknown
  mapped,       \* there is a discoveries[attr]
  heard,        \* the last event of the application
  thrown,       \* a handler ended in a TypeError
  \* histories
  again,        \* the application got one event twice in a row
  late,         \* a service was found that was gone already
  orphan        \* a custom attribute outlived its node on the broker

nodeVars == <<state, wanted, size, published, orphan>>
appVars == <<discoveries, mapped, heard, thrown, again, late>>
vars == <<kind, own, time, nodeVars, mqttQ, adVars, browserVars, appVars>>

Unknown == -1
NoEvent == [op |-> "none", value |-> Absent]

Init ==
  /\ kind \in {"status", "custom"} /\ own \in BOOLEAN
  /\ time = 0
  /\ state = "none" /\ wanted = Absent /\ size = "short" /\ published = Absent
  /\ mqttQ = <<>> /\ orphan = FALSE
  /\ discoveries = Unknown /\ mapped = FALSE /\ heard = NoEvent /\ thrown = FALSE
  /\ again = FALSE /\ late = FALSE
  /\ MdnsInit

(***************************************************************************)
(* The advertising node                                                    *)
(***************************************************************************)

(* The MQTT registry publishes nothing that is published.                  *)
publish(v) ==
  /\ published' = IF published = Absent THEN v ELSE published
  /\ mqttQ' = IF published = Absent THEN Append(mqttQ, Up(v)) ELSE mqttQ
  /\ orphan' = IF published = Absent THEN FALSE ELSE orphan

(* The constructor adds the status. *)
make ==
  /\ state = "none"
  /\ time < MaxTime
  /\ time' = time + 1
  /\ state' = "made"
  /\ wanted' = IF kind = "status" THEN time + 1 ELSE Absent
  /\ size' = "short"
  /\ UNCHANGED <<kind, own, published, orphan, mqttQ, adVars, browserVars, appVars>>

(* Its calls change the browsers only by what they report.                 *)
BrowsersGoOn == UNCHANGED <<service, resolving, timers, repeats, faults>>

(* Everything added so far is published with the ids of then. *)
registerAndDiscover ==
  /\ state = "made"
  /\ state' = "started"
  /\ IF wanted = Absent
       THEN UNCHANGED <<published, orphan, mqttQ, adVars, found>>
       ELSE createAdvertisement(wanted, size) /\ publish(wanted)
  /\ BrowsersGoOn
  /\ UNCHANGED <<kind, own, time, wanted, size, appVars>>

(* Attributes of an application; the status is reserved.  A value too long *)
(* makes the call throw, after MQTT has it.                                *)
addAttributes ==
  /\ kind = "custom"
  /\ state # "none"
  /\ time < MaxTime
  /\ time' = time + 1
  /\ wanted' = time + 1
  /\ IF state = "started"
       THEN /\ size' \in {"short", "long"}
            /\ createAdvertisement(time + 1, size') /\ publish(time + 1)
       ELSE /\ size' = "short"
            /\ UNCHANGED <<published, orphan, mqttQ, adVars, found>>
  /\ BrowsersGoOn
  /\ UNCHANGED <<kind, own, state, appVars>>

removeAttributes ==
  /\ kind = "custom"
  /\ state # "none"
  /\ wanted # Absent
  /\ wanted' = Absent
  /\ size' = "short"
  /\ published' = Absent
  /\ mqttQ' = IF published # Absent THEN Append(mqttQ, Down) ELSE mqttQ
  /\ stopAdvertisement
  /\ BrowsersGoOn
  /\ UNCHANGED <<kind, own, time, state, orphan, appVars>>

(* The callback of an advertisement that went well. *)
Advertised ==
  /\ \E v \in pending : OnServiceRegistered(v)
  /\ UNCHANGED <<kind, own, time, nodeVars, mqttQ, browserVars, appVars>>

(* The broker publishes the will, which is about the status only.          *)
Crash ==
  /\ state # "none"
  /\ ~own
  /\ faults < MaxFaults
  /\ faults' = faults + 1
  /\ state' = "none"
  /\ wanted' = Absent /\ size' = "short" /\ published' = Absent /\ ad' = Absent
  /\ pending' = {}
  /\ OnTheAir({})
  /\ mqttQ' = IF kind = "status" /\ published # Absent THEN Append(mqttQ, Down) ELSE mqttQ
  /\ orphan' = (orphan \/ (kind = "custom" /\ published # Absent))
  /\ UNCHANGED <<kind, own, time, uncalled, service, resolving, timers, repeats, appVars>>

(***************************************************************************)
(* The discovering Registrar                                               *)
(***************************************************************************)
isDuplicate_last(id) ==  \* mutant: only the last message is a duplicate
  id = discoveries

isDuplicate_zero(id) ==  \* mutant: no exception for the id of a node that is down
  discoveries # Unknown /\ id <= discoveries

isDuplicate(id) ==
  /\ discoveries # Unknown
  /\ ~(id = 0 /\ discoveries # 0)
  /\ id <= discoveries

Emit(event) ==
  /\ heard' = event
  /\ again' = (again \/ event = heard)

updateDiscoveries_none(id) ==  \* mutant: only the first discovery is booked
  /\ discoveries' = IF discoveries = Unknown THEN id ELSE discoveries
  /\ mapped' = TRUE

updateDiscoveries(id) == discoveries' = id /\ mapped' = TRUE

(* A discovery; the status is offline with id 0. *)
respondToDiscoveryEvent(event) ==
  /\ IF EliminateDuplicates /\ isDuplicate(event.value)
       THEN UNCHANGED <<discoveries, mapped, heard, again>>
       ELSE /\ updateDiscoveries(event.value)
            /\ Emit(event)
  /\ UNCHANGED thrown

(* A removal.  Without an entry for the attribute, which nothing takes     *)
(* away once it was made, there is nothing to delete from.                 *)
respondToAttrRemovalEvent ==
  /\ IF EliminateDuplicates /\ discoveries = Unknown
       THEN UNCHANGED <<discoveries, heard, again, thrown>>
       ELSE /\ thrown' = (thrown \/ (~mapped))
            /\ discoveries' = Unknown
            /\ IF thrown' THEN UNCHANGED <<heard, again>> ELSE Emit(Down)
  /\ UNCHANGED mapped

Respond(event) ==
  IF event.op = "down" /\ kind = "custom" THEN respondToAttrRemovalEvent
                                          ELSE respondToDiscoveryEvent(event)

MqttMessage ==
  /\ mqttQ # <<>>
  /\ mqttQ' = Tail(mqttQ)
  /\ Respond(Head(mqttQ))
  /\ UNCHANGED <<late, kind, own, time, nodeVars, adVars, browserVars>>

NodeGoesOn == UNCHANGED <<kind, own, time, nodeVars, mqttQ, adVars>>

(* A service that is gone is reported at once, own ones too.               *)
serviceDown ==
  /\ \E b \in Browsers : OnServiceRemoved(b)
  /\ Respond(Down)
  /\ UNCHANGED late
  /\ NodeGoesOn

(* One that is resolved is a discovery, unless it is an own one.           *)
serviceUp ==
  /\ \E r \in resolving :
       /\ OnAddressInfo(r)
       /\ IF own THEN UNCHANGED appVars
                 ELSE respondToDiscoveryEvent(Up(r.value)) /\ late' = (late \/ r.value \notin onAir)
  /\ NodeGoesOn

(* What the browsers do without an event for the Registrar's application.  *)
Browsing ==
  /\ \/ browse
     \/ \E b \in Browsers : OnServiceAdded(b) \/ BrowserError(b)
     \/ \E r \in resolving : OnResolve(r) \/ AddressError(r)
  /\ NodeGoesOn
  /\ UNCHANGED appVars

Next ==
  \/ make \/ registerAndDiscover \/ addAttributes \/ removeAttributes
  \/ Advertised \/ Crash
  \/ MqttMessage \/ serviceDown \/ serviceUp \/ Browsing

Spec == Init /\ [][Next]_vars
-----------------------------------------------------------------------------
TypeOK ==
  /\ MdnsTypes
  /\ kind \in {"status", "custom"} /\ time \in 0..MaxTime
  /\ state \in {"none", "made", "started"}
  /\ {wanted, published} \subseteq 0..MaxTime /\ size \in {"short", "long"}
  /\ discoveries \in Unknown..MaxTime
  /\ discoveries = 0 => kind = "status"
  /\ {own, mapped, again, thrown, late, orphan} \subseteq BOOLEAN

(* One event per discovery: with elimination the application never gets    *)
(* the same event twice in a row, though two protocols report it and       *)
(* browsers start over.                                                    *)
NothingTwice == EliminateDuplicates => ~again

(* A removal of something never discovered does not make the handler fail. *)
NeverThrows == ~thrown

(* The values the variables take, that no event repeats or fails, and that *)
(* browsing goes on.                                                       *)
RegistrarInv == TypeOK /\ NothingTwice /\ NeverThrows /\ DiscoveryGoesOn

(* What the daemon answers for is the value the application wants and      *)
(* nothing else, advertisements aside that were replaced or removed before *)
(* their callback came; a value too long takes the old one off the air.    *)
OnAirIsWanted ==
  state = "started" =>
    onAir \ uncalled = IF size = "long" THEN {} ELSE {wanted} \ (uncalled \cup {Absent})

(* Without a removal in between, an application goes from one value to a   *)
(* later one only, whichever protocol is faster.                           *)
NoStepBack ==
  [][heard.op = "up" /\ heard'.op = "up" /\ heard' # heard => heard'.value > heard.value]_vars

Quiet ==
  mqttQ = <<>> /\ (\A b \in Browsers : found[b] = <<>>) /\ resolving = {} /\ timers = 0 /\ state # "made"

(* When all messages have arrived, the application believes that another   *)
(* node's attribute is there exactly when it is: the protocols make up for *)
(* what one of them misses.  Only a discovery that overtook its removal,   *)
(* an advertisement that lost its handle, a value too long or a message    *)
(* left on the broker by a node that crashed may deceive it.               *)
PresentWhenQuiet ==
  EliminateDuplicates /\ Quiet /\ ~own /\ ~late /\ ~orphan /\ uncalled = {} /\ size = "short" =>
    (heard.op = "up" <=> wanted # Absent)
=============================================================================
