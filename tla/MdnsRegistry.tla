---------------------------- MODULE MdnsRegistry ----------------------------
(***************************************************************************)
(* mdnsregistry.js over its binding of the system's service discovery      *)
(* (mdns/lib and mdns/src): the advertisements of one attribute of one     *)
(* node, and the browsers of another that look for it.  A browser is a     *)
(* DNSServiceRef with a watcher of its socket; what it finds is resolved   *)
(* to a record and then to addresses, each by a call of its own that goes  *)
(* on whatever becomes of the browser.                                     *)
(*                                                                         *)
(* Every error of a browser or of a resolution stops the browser and sets  *)
(* a timer that makes a new one: two services that cannot be resolved make *)
(* two browsers of one.  An error of an advertisement, and one met while   *)
(* processing the result of a resolver, is emitted to nobody and ends the  *)
(* process; that is not followed.                                          *)
(***************************************************************************)
EXTENDS Integers, FiniteSets, SequencesExt

CONSTANTS
  MaxTime,      \* bound: calls of the advertising application
  MaxFaults     \* bound: crashes and errors

ASSUME MdnsAssumption == MaxTime \in Nat /\ MaxFaults \in Nat

VARIABLES
  \* the advertising node
  ad,           \* ads[attr]: the value advertised, or Absent
  pending,      \* advertisements without a callback yet
  onAir,        \* advertisements the daemon answers for
  uncalled,     \* history: overlapped, or were removed before their callback
  \* the discovering node
  service,      \* the browsers, in the order they are made
  found,        \* what the daemon has for each of them
  resolving,    \* services found, on their way to a record and to addresses
  timers,       \* of browser-error
  repeats,      \* history: errors of browsers that were stopped already
  faults

adVars == <<ad, pending, onAir, uncalled>>
browserVars == <<service, found, resolving, timers, repeats, faults>>

Absent == 0
Up(v) == [op |-> "up", value |-> v]
Down == [op |-> "down", value |-> Absent]

Browsers == 1..MaxFaults + 1

-----------------------------------------------------------------------------
(* A DNSServiceRef, the SocketWatcher of its file descriptor, and whether  *)
(* a browser knows the name of the interface yet.                          *)
MDNSService == [ref |-> "none", poll |-> "none", started |-> FALSE, names |-> FALSE]

(* A ref is initialized once and freed once.                               *)
DNSServiceBrowse(s) == IF s.ref = "none" THEN [s EXCEPT !.ref = "open"] ELSE s
DNSServiceRefDeallocate(s) == IF s.ref = "open" THEN [s EXCEPT !.ref = "null"] ELSE s

(* A watcher is set before its first start only, and keeps its poll handle *)
(* when it is stopped.                                                     *)
SocketWatcher_Set(s) == s.poll = "none"
SocketWatcher_Start(s) == [s EXCEPT !.poll = "active"]
SocketWatcher_Stop(s) == IF s.poll = "none" THEN s ELSE [s EXCEPT !.poll = "idle"]

start(s) ==
  IF ~s.started /\ s.ref = "open" /\ SocketWatcher_Set(s)
    THEN [SocketWatcher_Start(s) EXCEPT !.started = TRUE]
    ELSE s

(* A service that is stopped is stopped for good: it has learnt its names  *)
(* for nothing.                                                            *)
stop(s) ==
  IF s.started
    THEN [DNSServiceRefDeallocate(SocketWatcher_Stop(s)) EXCEPT !.started = FALSE, !.names = FALSE]
    ELSE s

(* The watcher's callback has results processed for a started service.     *)
Watched(s) == s.poll = "active" /\ s.started
DNSServiceProcessResult(b) == Watched(service[b]) /\ service[b].ref = "open"

-----------------------------------------------------------------------------
(* Advertisements *)

(* What the browsers report when the services named after the node change  *)
(* to S: records that go and come again within a second may be seen as no  *)
(* change.                                                                 *)
Arrivals(S) == [k \in 1..Cardinality(S) |-> Up(SetToSeq(S)[k])]

Changes(S) ==
  LET went == IF onAir \ S # {} THEN <<Down>> ELSE <<>>
  IN  {went \o Arrivals(S \ onAir)} \cup (IF onAir # {} /\ S # {} THEN {<<>>} ELSE {})

OnTheAir(S) ==
  /\ onAir' = S
  /\ \E change \in Changes(S) :
       found' = [b \in Browsers |-> IF Watched(service[b]) THEN found[b] \o change ELSE found[b]]

(* The attribute's only item of a TXT record has 255 bytes at most.        *)
TXTRecordSetValue(size) == size = "short"

DNSServiceRegister(v) ==
  /\ pending' = pending \cup {v}
  /\ OnTheAir((onAir \ {ad}) \cup {v})

Overlapping(S) == IF pending = {} THEN {} ELSE pending \cup S

createAdvertisement_unstopped(v, size) ==  \* mutant: the old advertisement runs on
  /\ ad' = Absent
  /\ pending' = pending \cup {v}
  /\ uncalled' = uncalled \cup Overlapping({v})
  /\ OnTheAir(onAir \cup {v})

(* _createAdvertisements stops the advertisement there is in ads, and only *)
(* then makes a record of the new value.  An advertisement whose callback  *)
(* did not come yet is not in ads.                                         *)
createAdvertisement(v, size) ==
  /\ ad' = Absent
  /\ IF TXTRecordSetValue(size)
       THEN uncalled' = uncalled \cup Overlapping({v}) /\ DNSServiceRegister(v)
       ELSE uncalled' = uncalled \cup pending /\ OnTheAir(onAir \ {ad}) /\ UNCHANGED pending

stopAdvertisement ==
  /\ ad' = Absent
  /\ uncalled' = uncalled \cup pending
  /\ OnTheAir(onAir \ {ad})
  /\ UNCHANGED pending

OnServiceRegistered(v) ==
  /\ v \in pending
  /\ pending' = pending \ {v}
  /\ ad' = v
  /\ UNCHANGED <<onAir, uncalled>>

-----------------------------------------------------------------------------
(* Browsers *)

(* The listener of error and the Registrar's of browser-error.             *)
Error(b) ==
  /\ faults < MaxFaults
  /\ faults' = faults + 1
  /\ service' = [service EXCEPT ![b] = stop(@)]
  /\ found' = [found EXCEPT ![b] = <<>>]
  /\ timers' = timers + 1
  /\ repeats' = IF service[b].started THEN repeats ELSE repeats + 1

(* DNSServiceProcessResult fails, or the daemon reports an error.          *)
BrowserError(b) ==
  /\ DNSServiceProcessResult(b)
  /\ Error(b)
  /\ UNCHANGED resolving

Unmade == {b \in Browsers : service[b].ref = "none"}

(* _browse makes a new browser, which finds what is there then.            *)
browse ==
  /\ timers > 0
  /\ timers' = timers - 1
  /\ LET b == CHOOSE c \in Unmade : \A d \in Unmade : c <= d IN
       /\ service' = [service EXCEPT ![b] = start(DNSServiceBrowse(MDNSService))]
       /\ found' = [found EXCEPT ![b] = Arrivals(onAir)]
  /\ UNCHANGED <<resolving, repeats, faults>>

Reported(b, op) == DNSServiceProcessResult(b) /\ found[b] # <<>> /\ Head(found[b]).op = op

DNSServiceResolve(b, v) ==
  resolving' = resolving \cup {[browser |-> b, step |-> "record", value |-> v]}

(* Whether the interface a service was found on still has a name.          *)
if_indextoname == BOOLEAN

(* A service that came is resolved, even when its interface has no name    *)
(* any more, which is an error of a browser that does not know it yet.     *)
OnServiceAdded(b) ==
  /\ Reported(b, "up")
  /\ DNSServiceResolve(b, Head(found[b]).value)
  /\ \E named \in if_indextoname :
       IF named \/ service[b].names
         THEN /\ found' = [found EXCEPT ![b] = Tail(@)]
              /\ service' = [service EXCEPT ![b].names = TRUE]
              /\ UNCHANGED <<timers, repeats, faults>>
         ELSE Error(b)

(* One that went is reported at once.                                      *)
OnServiceRemoved(b) ==
  /\ Reported(b, "down")
  /\ found' = [found EXCEPT ![b] = Tail(@)]
  /\ UNCHANGED <<service, resolving, timers, repeats, faults>>

Resolved(r) == resolving' = resolving \ {r}

DNSServiceGetAddrInfo(r, w) ==
  resolving' = (resolving \ {r}) \cup {[r EXCEPT !.step = "addresses", !.value = w]}

(* The name is resolved to the record found, or to one that took its       *)
(* place, whose addresses come next; when there is none any more,          *)
(* resolving it may also never end.                                        *)
OnResolve(r) ==
  /\ r.step = "record"
  /\ \/ /\ \/ \E w \in onAir \cup {r.value} : DNSServiceGetAddrInfo(r, w)
           \/ onAir = {} /\ Resolved(r)
        /\ UNCHANGED <<service, found, timers, repeats, faults>>
     \/ Resolved(r) /\ Error(r.browser)

(* The addresses of the host: the service is up.  Where the system has no  *)
(* DNSServiceGetAddrInfo they come from getaddrinfo.                       *)
OnAddressInfo(r) ==
  /\ r.step = "addresses"
  /\ Resolved(r)
  /\ UNCHANGED <<service, found, timers, repeats, faults>>

AddressError(r) ==
  /\ r.step = "addresses"
  /\ Resolved(r)
  /\ Error(r.browser)

MdnsInit ==
  /\ ad = Absent /\ pending = {} /\ onAir = {} /\ uncalled = {}
  /\ service = [b \in Browsers |-> IF b = 1 THEN start(DNSServiceBrowse(MDNSService))
                                            ELSE MDNSService]
  /\ found = [b \in Browsers |-> <<>>]
  /\ resolving = {} /\ timers = 0 /\ repeats = 0 /\ faults = 0
-----------------------------------------------------------------------------
MdnsTypes ==
  /\ ad \in 0..MaxTime
  /\ pending \cup onAir \cup uncalled \subseteq 1..MaxTime
  /\ service \in [Browsers -> [ref : {"none", "open", "null"}, poll : {"none", "active", "idle"},
                               started : BOOLEAN, names : BOOLEAN]]
  /\ resolving \subseteq [browser : Browsers, step : {"record", "addresses"}, value : 1..MaxTime]
  /\ {timers, repeats, faults} \subseteq 0..MaxFaults

Running == {b \in Browsers : service[b].started}

(* Discovery never ends: a browser runs or a timer will make one, and      *)
(* there are no more of both than errors of stopped browsers have added.   *)
(* A socket is polled only while its ref lives.                            *)
DiscoveryGoesOn ==
  /\ Cardinality(Running) + timers = 1 + repeats
  /\ \A b \in Browsers : service[b].poll = "active" => service[b].ref = "open"
=============================================================================
