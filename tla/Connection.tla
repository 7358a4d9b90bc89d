----------------------------- MODULE Connection -----------------------------
(***************************************************************************)
(* The connections of a C node to its J nodes: level 0 the device, 1 a     *)
(* fog, 2 a cloud.  Three parties run at once: the worker thread, which    *)
(* takes the device's messages from deviceinq one by one; the Paho client  *)
(* library, whose thread calls on_*_connect and jwork_connect_lost; and    *)
(* the J node of the device, which announces fogs and clouds and answers   *)
(* queries.  Both threads read and write the core's flags without a lock,  *)
(* so what they do is cut into steps where one can see the other.          *)
(*                                                                         *)
(* Requests and replies (EventLoop, RemoteCall) and the data store's       *)
(* address (DataService) travel on the same queues and are left out here.  *)
(***************************************************************************)
EXTENDS Integers, SequencesExt

CONSTANTS
  Levels,      \* of the J nodes besides the device: a subset of {1, 2}
  NumHosts,    \* fogs and clouds
  Height,      \* mheight, from the command line
  MaxPending,  \* MAX_PENDING_CNT
  MaxQueue,    \* bound: messages on deviceinq when the J node sends one more
  MaxChanges,  \* bound: fogs and clouds that come and go
  MaxFaults    \* bound: connections refused or lost, REGISTERs nobody hears

ASSUME ConnectionAssumption ==
  /\ Levels \subseteq {1, 2} /\ Height \in 1..3
  /\ NumHosts \in Nat /\ MaxPending \in Nat

NoHost == 0
Hosts == 1..NumHosts
All == {0} \cup Levels

VARIABLES
  enabled, pending, pendingcount, hid, cfPending,  \* corestate_t
  registered,
  started,    \* bgsem was signalled: the program's main may run
  worker,     \* what the worker thread is about to do
  \* Paho
  clients,    \* every client made for a level; the last is mqttserv
  paho,       \* the callback that runs, and where
  \* the J node
  inq,        \* deviceinq
  known,      \* the host the J node knows at each level
  asked,      \* a query is on its way to it
  register,   \* a REGISTER is on its way to it
  dead,
  changes, fails, losses,
  muddled     \* history: levels where a connect callback met an ADD or a DEL

coreVars == <<enabled, pending, pendingcount, hid, cfPending, registered, started>>
jVars == <<known, changes>>
connVars == <<coreVars, worker, clients, paho, inq, jVars, asked, register, dead, fails, losses, muddled>>

Idle == [pc |-> "idle"]
Client(h) == [host |-> h, state |-> "connecting", armed |-> TRUE, subscribed |-> FALSE]
Current(l) == Last(clients[l])
HasClient(l) == clients[l] # <<>>
OnCurrent(l, f(_)) == [clients EXCEPT ![l][Len(clients[l])] = f(@)]

Start(enab, pend, host, cls) ==
  /\ enab = [l \in All |-> FALSE]
  /\ pend = [l \in All |-> FALSE]
  /\ host = [l \in All |-> NoHost]
  /\ cls = [l \in All |-> IF l = 0 THEN <<Client(NoHost)>> ELSE <<>>]

(* jwork_bgthread has begun to connect to the local broker.                *)
ConnInit ==
  /\ Start(enabled, pending, hid, clients)
  /\ pendingcount = 0
  /\ cfPending = TRUE
  /\ registered = FALSE /\ started = FALSE
  /\ worker = Idle /\ paho = Idle
  /\ inq = <<>>
  /\ known = [l \in Levels |-> NoHost]
  /\ asked = FALSE /\ register = FALSE /\ dead = FALSE
  /\ changes = 0 /\ fails = 0 /\ losses = 0
  /\ muddled = {}

(* The program is gone, and its state with it.                             *)
Exit ==
  /\ dead' = TRUE
  /\ Start(enabled', pending', hid', clients')
  /\ pendingcount' = 0
  /\ cfPending' = TRUE
  /\ registered' = FALSE /\ started' = FALSE
  /\ worker' = Idle /\ paho' = Idle
  /\ inq' = <<>>
  /\ known' = [l \in Levels |-> NoHost]
  /\ asked' = FALSE /\ register' = FALSE
  /\ changes' = 0 /\ fails' = 0 /\ losses' = 0
  /\ muddled' = {}

(***************************************************************************)
(* core_check_pending, on either thread: the flags are read one after the  *)
(* other, then cf_pending is written.                                      *)
(***************************************************************************)
Seeking == \E i \in All : i < Height /\ ~enabled[i]

Muddle(l, badly) == muddled' = IF badly THEN muddled \cup {l} ELSE muddled
Calling(l) == paho # Idle /\ paho.level = l

(***************************************************************************)
(* The worker thread: jwork_process_device                                 *)
(***************************************************************************)
Take(type) ==
  /\ ~dead /\ worker = Idle
  /\ inq # <<>> /\ Head(inq).type = type
  /\ inq' = Tail(inq)

Kill ==
  /\ ~dead /\ worker = Idle
  /\ inq # <<>> /\ Head(inq).type = "KILL"
  /\ Exit

RegisterAck ==
  /\ Take("REGISTER-ACK")
  /\ registered' = TRUE /\ started' = TRUE
  /\ asked' = TRUE
  /\ UNCHANGED <<enabled, pending, pendingcount, hid, cfPending, worker, clients, paho, jVars,
                 register, dead, fails, losses, muddled>>

Ping_capped ==  \* mutant: a fog is pending for ever
  /\ Take("PING")
  /\ register' = (register \/ ~registered)
  /\ asked' = (asked \/ cfPending)
  /\ UNCHANGED <<enabled, pending, pendingcount, hid, cfPending, registered, started, worker, clients,
                 paho, jVars, dead, fails, losses, muddled>>

Ping_once ==  \* mutant: REGISTER is not repeated
  LET waiting == 1 \in Levels /\ pending[1]
      over == waiting /\ pendingcount < 0
  IN  /\ Take("PING")
      /\ asked' = (asked \/ cfPending)
      /\ pendingcount' = IF over THEN 0 ELSE IF waiting THEN pendingcount - 1 ELSE pendingcount
      /\ pending' = IF over THEN [pending EXCEPT ![1] = FALSE] ELSE pending
      /\ UNCHANGED <<enabled, hid, cfPending, registered, started, worker, clients, paho, jVars,
                     register, dead, fails, losses, muddled>>

(* A PING repeats what got no answer, and gives up a fog in the end.       *)
Ping ==
  LET waiting == 1 \in Levels /\ pending[1]
      over == waiting /\ pendingcount < 0
  IN  /\ Take("PING")
      /\ register' = (register \/ ~registered)
      /\ asked' = (asked \/ cfPending)
      /\ pendingcount' = IF over THEN 0 ELSE IF waiting THEN pendingcount - 1 ELSE pendingcount
      /\ pending' = IF over THEN [pending EXCEPT ![1] = FALSE] ELSE pending
      /\ UNCHANGED <<enabled, hid, cfPending, registered, started, worker, clients, paho, jVars,
                     dead, fails, losses, muddled>>

(* core_createserver and core_connect: the previous server's client is     *)
(* used again, any other gets one of its own, and the old one lives on.    *)
(* Paho ignores the CONNECT of a client that is not idle, but calls        *)
(* onSuccess the next time a connection of it is made.                     *)
Connecting(l, h) ==
  IF HasClient(l) /\ Current(l).host = h
    THEN OnCurrent(l, LAMBDA c : [c EXCEPT !.state = IF @ = "idle" THEN "connecting" ELSE @,
                                           !.armed = TRUE])
    ELSE [clients EXCEPT ![l] = Append(@, Client(h))]

(* PUT-CF-INFO, ADD: nothing while connected or about to be. *)
Add ==
  /\ Take("ADD")
  /\ worker' = [pc |-> "check"]
  /\ LET l == Head(inq).level  h == Head(inq).host IN
     IF ~enabled[l] /\ ~pending[l]
       THEN /\ pending' = [pending EXCEPT ![l] = TRUE]
            /\ pendingcount' = MaxPending
            /\ clients' = Connecting(l, h)
            /\ hid' = [hid EXCEPT ![l] = h]
            /\ Muddle(l, Calling(l))
       ELSE UNCHANGED <<pending, pendingcount, clients, hid, muddled>>
  /\ UNCHANGED <<enabled, cfPending, registered, started, paho, jVars, asked, register,
                 dead, fails, losses>>

IsStray_never(l, h) ==  \* mutant: every DEL counts
  FALSE

(* core_disconnect ignores the DEL of a host other than the one that is    *)
(* connected.                                                              *)
IsStray(l, h) == enabled[l] /\ hid[l] # NoHost /\ hid[l] # h

(* PUT-CF-INFO, DEL: first the old client is told to disconnect, which     *)
(* means nothing to one whose connection is still being made ...           *)
Del ==
  /\ Take("DEL")
  /\ LET l == Head(inq).level  h == Head(inq).host IN
     IF IsStray(l, h)
       THEN worker' = [pc |-> "check"] /\ UNCHANGED <<hid, clients, muddled>>
       ELSE /\ hid' = [hid EXCEPT ![l] = NoHost]
            /\ clients' = IF HasClient(l)
                            THEN OnCurrent(l, LAMBDA c :
                                   [c EXCEPT !.state = IF @ = "connected" THEN "closing" ELSE @])
                            ELSE clients
            /\ worker' = [pc |-> "disable", level |-> l, host |-> h]
            /\ Muddle(l, Calling(l))
  /\ UNCHANGED <<enabled, pending, pendingcount, cfPending, registered, started, paho, jVars, asked,
                 register, dead, fails, losses>>

(* ... then the level is off; only a fog stops being pending.              *)
Disable ==
  /\ ~dead /\ worker.pc = "disable"
  /\ enabled' = [enabled EXCEPT ![worker.level] = FALSE]
  /\ pending' = IF worker.level = 1 THEN [pending EXCEPT ![1] = FALSE] ELSE pending
  /\ worker' = [pc |-> "check"]
  /\ Muddle(worker.level, Calling(worker.level))
  /\ UNCHANGED <<pendingcount, hid, cfPending, registered, started, clients, paho, inq, jVars,
                 asked, register, dead, fails, losses>>

WorkerCheck ==
  /\ ~dead
  /\ \/ /\ worker.pc = "check"
        /\ worker' = [pc |-> "write", flag |-> Seeking]
        /\ UNCHANGED cfPending
     \/ /\ worker.pc = "write"
        /\ cfPending' = worker.flag
        /\ worker' = Idle
  /\ UNCHANGED <<enabled, pending, pendingcount, hid, registered, started, clients, paho, inq, jVars,
                 asked, register, dead, fails, losses, muddled>>

Worker == Kill \/ RegisterAck \/ Ping \/ Add \/ Del \/ Disable \/ WorkerCheck

(***************************************************************************)
(* Paho's thread                                                           *)
(***************************************************************************)

(* A connection is made.  onSuccess is called once for a core_connect,     *)
(* whether its host is still wanted or not, and not for a reconnection.    *)
ConnAck(l, k) ==
  LET c == clients[l][k] IN
  /\ ~dead /\ paho = Idle
  /\ c.state = "connecting"
  /\ clients' = [clients EXCEPT ![l][k].state = "connected", ![l][k].armed = FALSE]
  /\ paho' = IF c.armed THEN [pc |-> "enable", level |-> l] ELSE Idle
  /\ Muddle(l, c.armed /\ (k # Len(clients[l]) \/ hid[l] # c.host))
  /\ UNCHANGED <<coreVars, worker, inq, jVars, asked, register, dead, fails, losses>>

(* A connection is refused.  Nobody is told (onFailure is NULL), not even  *)
(* of the device's own.                                                    *)
ConnFail(l, k) ==
  /\ ~dead /\ fails + losses < MaxFaults
  /\ clients[l][k].state = "connecting"
  /\ fails' = fails + 1
  /\ clients' = [clients EXCEPT ![l][k].state = "idle"]
  /\ UNCHANGED <<coreVars, worker, paho, inq, jVars, asked, register, dead, losses, muddled>>

(* The DISCONNECT of a DEL is carried out.                                 *)
Close(l, k) ==
  /\ ~dead
  /\ clients[l][k].state = "closing"
  /\ clients' = [clients EXCEPT ![l][k].state = "idle", ![l][k].subscribed = FALSE]
  /\ UNCHANGED <<coreVars, worker, paho, inq, jVars, asked, register, dead, fails, losses, muddled>>

(* on_dev_connect, on_fog_connect, on_cloud_connect *)
Enable ==
  /\ ~dead /\ paho.pc = "enable"
  /\ enabled' = [enabled EXCEPT ![paho.level] = TRUE]
  /\ paho' = [paho EXCEPT !.pc = "subscribe"]
  /\ UNCHANGED <<pending, pendingcount, hid, cfPending, registered, started, worker, clients, inq,
                 jVars, asked, register, dead, fails, losses, muddled>>

(* core_set_subscription and send_register: through the level's client at  *)
(* this moment.                                                            *)
Subscribe ==
  /\ ~dead /\ paho.pc = "subscribe"
  /\ LET l == paho.level IN
     /\ clients' = OnCurrent(l, LAMBDA c :
                     [c EXCEPT !.subscribed = @ \/ (enabled[l] /\ c.state = "connected")])
     /\ register' = (register \/ l = 0)
  /\ paho' = [paho EXCEPT !.pc = "check"]
  /\ UNCHANGED <<coreVars, worker, inq, jVars, asked, dead, fails, losses, muddled>>

PahoCheck ==
  /\ ~dead
  /\ \/ /\ paho.pc = "check"
        /\ paho' = [pc |-> "write", level |-> paho.level, flag |-> Seeking]
        /\ UNCHANGED cfPending
     \/ /\ paho.pc = "write"
        /\ cfPending' = paho.flag
        /\ paho' = Idle
  /\ UNCHANGED <<enabled, pending, pendingcount, hid, registered, started, worker, clients, inq, jVars,
                 asked, register, dead, fails, losses, muddled>>

(* A connection is lost, and the program with the device's.                *)
Lose(l, k) ==
  /\ ~dead /\ paho = Idle
  /\ fails + losses < MaxFaults
  /\ clients[l][k].state \in {"connected", "closing"}
  /\ IF l = 0
       THEN Exit
       ELSE /\ losses' = losses + 1
            /\ clients' = [clients EXCEPT ![l][k].state = "idle", ![l][k].subscribed = FALSE]
            /\ paho' = [pc |-> "lost", level |-> l]
            /\ UNCHANGED <<coreVars, worker, inq, jVars, asked, register, dead, fails, muddled>>

Lost_reconnect ==  \* mutant: the level is not switched off
  /\ ~dead /\ paho.pc = "lost"
  /\ paho' = [paho EXCEPT !.pc = "reconnect"]
  /\ UNCHANGED <<coreVars, worker, clients, inq, jVars, asked, register, dead, fails, losses, muddled>>

(* jwork_connect_lost: any client's loss counts as the level's.            *)
Lost ==
  /\ ~dead /\ paho.pc = "lost"
  /\ enabled' = [enabled EXCEPT ![paho.level] = FALSE]
  /\ paho' = [paho EXCEPT !.pc = "reconnect"]
  /\ UNCHANGED <<pending, pendingcount, hid, cfPending, registered, started, worker, clients, inq,
                 jVars, asked, register, dead, fails, losses, muddled>>

Reconnect ==
  /\ ~dead /\ paho.pc = "reconnect"
  /\ clients' = OnCurrent(paho.level, LAMBDA c :
                  IF c.state = "idle" THEN [c EXCEPT !.state = "connecting"] ELSE c)
  /\ paho' = Idle
  /\ UNCHANGED <<coreVars, worker, inq, jVars, asked, register, dead, fails, losses, muddled>>

Callback == Enable \/ Subscribe \/ PahoCheck \/ Lost \/ Reconnect

(***************************************************************************)
(* The J node of the device                                                *)
(***************************************************************************)
Listening == Current(0).subscribed

Info(type, l, h) == [type |-> type, level |-> l, host |-> h]

(* A fog or a cloud comes, goes, or gives way to another: the two          *)
(* announcements are in no fixed order, and before the device's            *)
(* subscriptions are made nobody hears them.  (Hosts are numbered as they  *)
(* come.)                                                                  *)
Change(l, h) ==
  LET gone == IF known[l] = NoHost THEN <<>> ELSE <<Info("DEL", l, known[l])>>
      come == IF h = NoHost THEN <<>> ELSE <<Info("ADD", l, h)>>
  IN  /\ ~dead /\ changes < MaxChanges
      /\ Len(inq) <= MaxQueue
      /\ h # known[l] /\ h <= changes + 1
      /\ changes' = changes + 1
      /\ known' = [known EXCEPT ![l] = h]
      /\ inq' \in IF Listening THEN {inq \o gone \o come, inq \o come \o gone} ELSE {inq}
      /\ UNCHANGED <<coreVars, worker, clients, paho, asked, register, dead, fails, losses, muddled>>

(* GET-CF-INFO and REF-CF-INFO are answered with what is known.            *)
Answer ==
  LET levels == SetToSeq({l \in Levels : known[l] # NoHost})
  IN  /\ ~dead /\ asked
      /\ Len(inq) <= MaxQueue
      /\ asked' = FALSE
      /\ inq' = inq \o [k \in DOMAIN levels |-> Info("ADD", levels[k], known[levels[k]])]
      /\ UNCHANGED <<coreVars, worker, clients, paho, jVars, register, dead, fails, losses, muddled>>

Acknowledge ==
  /\ ~dead /\ register
  /\ Len(inq) <= MaxQueue
  /\ register' = FALSE
  /\ \/ inq' = Append(inq, [type |-> "REGISTER-ACK"]) /\ UNCHANGED fails
     \/ fails + losses < MaxFaults /\ fails' = fails + 1 /\ UNCHANGED inq
  /\ UNCHANGED <<coreVars, worker, clients, paho, jVars, asked, dead, losses, muddled>>

SendPing ==
  /\ ~dead /\ Listening
  /\ inq = <<>>
  /\ inq' = Append(inq, [type |-> "PING"])
  /\ UNCHANGED <<coreVars, worker, clients, paho, jVars, asked, register, dead, fails, losses, muddled>>

SendKill ==
  /\ ~dead /\ Listening
  /\ inq = <<>>
  /\ inq' = Append(inq, [type |-> "KILL"])
  /\ UNCHANGED <<coreVars, worker, clients, paho, jVars, asked, register, dead, fails, losses, muddled>>

ConnResult == \E l \in All : \E k \in DOMAIN clients[l] : ConnAck(l, k) \/ Close(l, k)

ConnNext ==
  \/ Worker
  \/ Callback
  \/ ConnResult
  \/ \E l \in All : \E k \in DOMAIN clients[l] : ConnFail(l, k) \/ Lose(l, k)
  \/ \E l \in Levels, h \in Hosts \cup {NoHost} : Change(l, h)
  \/ Answer \/ Acknowledge \/ SendPing \/ SendKill

ConnSpec == ConnInit /\ [][ConnNext]_connVars

(* Both threads run, connections are made, refused or closed, the J node   *)
(* answers and pings.  That it answers is strong: the bound on the queue   *)
(* may stand in the way again and again.                                   *)
ConnFairSpec ==
  /\ ConnSpec
  /\ WF_connVars(Worker) /\ WF_connVars(Callback) /\ WF_connVars(ConnResult)
  /\ SF_connVars(Answer) /\ SF_connVars(Acknowledge) /\ WF_connVars(SendPing)
-----------------------------------------------------------------------------
Clients ==
  [host : Hosts \cup {NoHost}, state : {"idle", "connecting", "connected", "closing"},
   armed : BOOLEAN, subscribed : BOOLEAN]
Messages ==
  [type : {"REGISTER-ACK", "PING", "KILL"}]
    \cup [type : {"ADD", "DEL"}, level : Levels, host : Hosts]

ConnTypeOK ==
  /\ enabled \in [All -> BOOLEAN] /\ pending \in [All -> BOOLEAN]
  /\ pendingcount \in -1..MaxPending
  /\ hid \in [All -> Hosts \cup {NoHost}]
  /\ {cfPending, registered, started, asked, register, dead} \subseteq BOOLEAN
  /\ worker \in [pc : {"idle", "check"}] \cup [pc : {"write"}, flag : BOOLEAN]
                  \cup [pc : {"disable"}, level : Levels, host : Hosts]
  /\ clients \in [All -> Seq(Clients)]
  /\ paho \in {Idle} \cup [pc : {"write"}, level : All, flag : BOOLEAN]
                \cup [pc : {"enable", "subscribe", "check", "lost", "reconnect"}, level : All]
  /\ inq \in Seq(Messages)
  /\ known \in [Levels -> Hosts \cup {NoHost}]
  /\ muddled \subseteq All

(* A fog or cloud that is enabled is connected and subscribed to, unless a *)
(* callback is about to finish the work or the worker to undo it; the only *)
(* exception is a connect callback that met an ADD or a DEL of its level:  *)
(* during the callback, or before it, while the connection was being made. *)
EnabledIsUp ==
  \A l \in Levels \ muddled :
    enabled[l] => \/ Current(l).state = "connected" /\ Current(l).subscribed
                  \/ Calling(l)
                  \/ worker.pc = "disable" /\ worker.level = l

(* The values the variables take, and that no level is in use which is not *)
(* up.                                                                     *)
ConnectionInv == ConnTypeOK /\ EnabledIsUp

(* A fog or cloud in use is given up for no DEL but its own, whatever the  *)
(* order of the announcements, with the same exception: one that came into *)
(* use after it was deleted has no name in hid to compare a DEL with.      *)
NotGivenUpForAnother ==
  [][\A l \in Levels \ muddled' :
       enabled[l] /\ ~enabled'[l] /\ ~dead'
         => Calling(l) \/ (worker.pc = "disable" /\ worker.host = Current(l).host)]_connVars

(* The device's one connection attempt was refused. *)
Refused == Current(0).state = "idle"

(* A missed REGISTER is repeated: the program starts in the end, unless    *)
(* its one attempt to connect to its own device is refused.                *)
StartsInTheEnd == <>(started \/ dead \/ Refused)

(* A node of some height finds the fog that stays, whatever fogs came and  *)
(* went before and however many of their connections were refused, as long *)
(* as none is lost and no connect callback met an ADD or a DEL: after that *)
(* the level may stay with a fog that is gone.                             *)
FogInTheEnd ==
  Height > 1 =>
  \A h \in Hosts :
    <>[](known[1] = h /\ losses = 0 /\ muddled = {} /\ ~dead /\ ~Refused)
      => <>[](enabled[1] /\ Current(1).host = h)
=============================================================================
