-------------------------- MODULE Registrar_proofs --------------------------
(***************************************************************************)
(* Proofs for Registrar: however the two protocols, the browsers that are  *)
(* made anew, crashes and calls of the application interleave, discovery   *)
(* goes on, the application hears no event twice in a row and none that    *)
(* takes it back, and the daemon answers for what is wanted and no more.   *)
(*                                                                         *)
(* What is said of the application's events needs EliminateDuplicates.     *)
(***************************************************************************)
EXTENDS Registrar, FiniteSetTheorems, FunctionTheorems, SequenceTheorems, WellFoundedInduction, TLAPS

(***************************************************************************)
(* The inductive invariant                                                 *)
(***************************************************************************)
Events == {Down} \cup {Up(v) : v \in 1..MaxTime}
Resolutions == [browser : Browsers, step : {"record", "addresses"}, value : 1..MaxTime]

(* The advertising node.  What is advertised was added before.             *)
NodeOK ==
  /\ kind \in {"status", "custom"} /\ own \in BOOLEAN /\ time \in 0..MaxTime
  /\ state \in {"none", "made", "started"} /\ size \in {"short", "long"}
  /\ ad \in 0..time /\ wanted \in 0..time /\ published \in 0..time
  /\ pending \subseteq 1..time /\ onAir \subseteq 1..time /\ uncalled \subseteq 1..time
  /\ mqttQ \in Seq(Events) /\ orphan \in BOOLEAN

(* The discovering one. *)
DiscoveryOK ==
  /\ found \in [Browsers -> Seq(Events)] /\ resolving \subseteq Resolutions
  /\ discoveries \in Unknown..MaxTime /\ (discoveries = 0 => kind = "status")
  /\ heard \in Events \cup {NoEvent}
  /\ mapped \in BOOLEAN /\ thrown \in BOOLEAN /\ again \in BOOLEAN /\ late \in BOOLEAN

(* The life of a browser: not made, watching its socket, stopped.          *)
LivesOnce(s) ==
  \/ s = MDNSService
  \/ s.ref = "open" /\ s.poll = "active" /\ s.started
  \/ s.ref = "null" /\ s.poll = "idle" /\ ~s.started /\ ~s.names
Services == [ref : {"none", "open", "null"}, poll : {"none", "active", "idle"},
             started : BOOLEAN, names : BOOLEAN]
Made == {b \in Browsers : service[b].ref # "none"}

(* An error sets one timer and a timer makes one browser, so there is a    *)
(* browser to make whenever a timer runs.                                  *)
Counted ==
  /\ service \in [Browsers -> Services] /\ \A b \in Browsers : LivesOnce(service[b])
  /\ timers \in 0..faults /\ repeats \in 0..faults /\ faults \in 0..MaxFaults
  /\ Cardinality(Running) + timers = 1 + repeats
  /\ Cardinality(Made) + timers <= 1 + faults

(* The id that is booked tells what the application heard last.            *)
Booked ==
  /\ ~again /\ ~thrown
  /\ heard.op = "none" => discoveries = Unknown
  /\ heard.op = "up" => heard.value = discoveries
  /\ heard.op = "down" => discoveries = IF kind = "status" THEN 0 ELSE Unknown
  /\ discoveries # Unknown => mapped

(* What is on the air is in ads, waits for its callback, or was uncalled;  *)
(* when several advertisements overlap all of them are.                    *)
Handled ==
  /\ state # "started" => ad = Absent /\ pending = {} /\ onAir = {}
  /\ state = "made" => size = "short" /\ wanted \notin uncalled
  /\ onAir \subseteq {ad} \cup pending \cup uncalled
  /\ ad \in {Absent, wanted} \cup uncalled
  /\ ad # Absent /\ pending # {} => ad \in uncalled
  /\ \A v \in pending : v \in uncalled \/ (pending = {v} /\ v = wanted)

(* What the application believes in the end: while something is on the air *)
(* it has heard of it or will, as every way a discovery may still take     *)
(* leads to it; when nothing is published any more, it has heard so or MQTT*)
(* will tell.                                                              *)
EndsWith(q, op) == q # <<>> /\ q[Len(q)].op = op

PublishedIfWanted ==
  /\ state = "none" => wanted = Absent
  /\ published # Absent <=> state = "started" /\ wanted # Absent

MqttTells ==
  mqttQ # <<>> => /\ published # Absent => EndsWith(mqttQ, "up")
                  /\ published = Absent /\ ~orphan => EndsWith(mqttQ, "down")

FoundTells ==
  \A b \in Browsers : found[b] # <<>> =>
    /\ service[b].started
    /\ uncalled = {} /\ onAir # {} => EndsWith(found[b], "up")

OnItsWay ==
  mqttQ # <<>> \/ (\E b \in Browsers : found[b] # <<>>) \/ resolving # {} \/ timers # 0

UpToCome ==
  ~own /\ uncalled = {} /\ onAir # {} => heard.op = "up" \/ OnItsWay

DownToCome ==
  ~late /\ ~orphan /\ uncalled = {} /\ published = Absent /\ heard.op = "up" => mqttQ # <<>>

Told == PublishedIfWanted /\ MqttTells /\ FoundTells /\ UpToCome /\ DownToCome

TypeInv == NodeOK /\ DiscoveryOK /\ Counted

(***************************************************************************)
(* Operators                                                               *)
(***************************************************************************)

(* A set of values arrives as a sequence of events.                        *)
LEMMA ArrivalsAreEvents ==
  ASSUME NEW S \in SUBSET (1..MaxTime)
  PROVE  Arrivals(S) \in Seq(Events)
<1>1. IsFiniteSet(S) /\ Cardinality(S) \in Nat /\ ExistsBijection(1..Cardinality(S), S)
  <2>1. IsFiniteSet(1..MaxTime)
    BY MdnsAssumption, FS_Interval
  <2> QED
    BY <2>1, FS_Subset, FS_CardinalityType
<1>2. SetToSeq(S) \in [1..Cardinality(S) -> S]
  <2>1. \E f \in [1..Cardinality(S) -> S] : IsInjective(f)
    BY <1>1, Fun_ExistsBij DEF Bijection, Injection
  <2> QED
    BY <2>1 DEF SetToSeq
<1>3. \A k \in 1..Cardinality(S) : SetToSeq(S)[k] \in 1..MaxTime
  BY <1>2
<1> DEFINE e(k) == Up(SetToSeq(S)[k])
<1>4. \A k \in 1..Cardinality(S) : e(k) \in Events
  BY <1>3 DEF Events
<1> HIDE DEF e
<1>5. [k \in 1..Cardinality(S) |-> e(k)] \in Seq(Events)
  BY <1>1, <1>4, IsASeq
<1> QED
  BY <1>5 DEF Arrivals, e

LEMMA OnTheAirTypes ==
  ASSUME onAir \subseteq 1..MaxTime, NEW S \in SUBSET (1..MaxTime),
         found \in [Browsers -> Seq(Events)], OnTheAir(S)
  PROVE  onAir' = S /\ found' \in [Browsers -> Seq(Events)]
<1>1. \A change \in Changes(S) : change \in Seq(Events)
  <2>1. Arrivals(S \ onAir) \in Seq(Events)
    BY ArrivalsAreEvents
  <2>2. <<>> \in Seq(Events) /\ <<Down>> \in Seq(Events)
    BY DEF Events
  <2>3. /\ <<Down>> \o Arrivals(S \ onAir) \in Seq(Events)
        /\ <<>> \o Arrivals(S \ onAir) \in Seq(Events)
    BY <2>1, <2>2, ConcatProperties
  <2> QED
    BY <2>2, <2>3, Zenon DEF Changes
<1>2. PICK change \in Changes(S) :
        found' = [b \in Browsers |-> IF Watched(service[b]) THEN found[b] \o change ELSE found[b]]
  BY DEF OnTheAir
<1>3. \A b \in Browsers : found[b] \o change \in Seq(Events)
  BY <1>1, ConcatProperties
<1> QED
  BY <1>2, <1>3 DEF OnTheAir

(* A browser that is made is the first one unmade.                         *)
LEMMA LeastUnmade ==
  ASSUME Unmade # {}
  PROVE  (CHOOSE c \in Unmade : \A d \in Unmade : c <= d) \in Unmade
<1>1. Unmade \in SUBSET Nat
  BY MdnsAssumption DEF Unmade, Browsers
<1> DEFINE less == OpToRel(<, Nat)
<1>2. \E c \in Unmade : \A d \in Unmade : <<d, c>> \notin less
  <2>1. IsWellFoundedOn(less, Nat)
    BY NatLessThanWellFounded
  <2> HIDE DEF less
  <2> QED
    BY <1>1, <2>1, WFMin
<1>3. \A c, d \in Nat : <<d, c>> \notin less => c <= d
  BY DEF OpToRel
<1> QED
  BY <1>1, <1>2, <1>3

(***************************************************************************)
(* Browsers and timers                                                     *)
(***************************************************************************)
LEMMA BrowsersFinite ==
  /\ IsFiniteSet(Browsers) /\ Cardinality(Browsers) = MaxFaults + 1
  /\ \A S \in SUBSET Browsers : IsFiniteSet(S) /\ Cardinality(S) \in Nat
<1>1. IsFiniteSet(Browsers) /\ Cardinality(Browsers) = MaxFaults + 1
  BY MdnsAssumption, FS_Interval DEF Browsers
<1> QED
  BY <1>1, FS_Subset, FS_CardinalityType

LEMMA CountedInit == Init => Counted
<1> SUFFICES ASSUME Init PROVE Counted
  OBVIOUS
<1>1. service = [b \in Browsers |-> IF b = 1 THEN start(DNSServiceBrowse(MDNSService))
                                              ELSE MDNSService]
  BY DEF Init, MdnsInit
<1>2. start(DNSServiceBrowse(MDNSService)) =
        [ref |-> "open", poll |-> "active", started |-> TRUE, names |-> FALSE]
  BY DEF start, DNSServiceBrowse, MDNSService, SocketWatcher_Start, SocketWatcher_Set
<1>3. 1 \in Browsers
  BY MdnsAssumption DEF Browsers
<1>4. Running = {1} /\ Made = {1}
  BY <1>1, <1>2, <1>3 DEF Running, Made, MDNSService
<1>5. Cardinality({1}) = 1
  BY FS_Singleton
<1>6. service \in [Browsers -> Services] /\ \A b \in Browsers : LivesOnce(service[b])
  <2> DEFINE watching == [ref |-> "open", poll |-> "active", started |-> TRUE, names |-> FALSE]
  <2>1. /\ watching \in Services /\ LivesOnce(watching)
        /\ MDNSService \in Services /\ LivesOnce(MDNSService)
    BY DEF Services, LivesOnce, MDNSService
  <2>2. service = [b \in Browsers |-> IF b = 1 THEN watching ELSE MDNSService]
    BY <1>1, <1>2
  <2> HIDE DEF watching
  <2> QED
    BY <2>1, <2>2
<1> QED
  BY <1>4, <1>5, <1>6, MdnsAssumption DEF Counted, Init, MdnsInit

(* A step that leaves the browsers alone, a crash of a node among them.    *)
LEMMA CountedSame ==
  ASSUME Counted, UNCHANGED <<service, timers, repeats>>,
         faults' = faults \/ (faults < MaxFaults /\ faults' = faults + 1)
  PROVE  Counted'
<1>1. Running' = Running /\ Made' = Made
  BY DEF Running, Made
<1>2. Cardinality(Made) \in Nat
  BY BrowsersFinite DEF Made
<1> QED
  BY <1>1, <1>2, MdnsAssumption DEF Counted

LEMMA CountedError ==
  ASSUME Counted, NEW b \in Browsers, Error(b)
  PROVE  Counted'
<1> DEFINE s == service[b]
<1>1. s \in Services /\ LivesOnce(s) /\ service' = [service EXCEPT ![b] = stop(s)]
  BY DEF Counted, Error
<1>2. /\ stop(s) \in Services /\ LivesOnce(stop(s)) /\ ~stop(s).started
      /\ stop(s).ref = "none" <=> s.ref = "none"
      /\ s.started => s.ref # "none"
  <2> HIDE DEF s
  <2>1. CASE s.started
    <3> DEFINE idle == [s EXCEPT !.poll = "idle"]
               freed == [idle EXCEPT !.ref = "null"]
               over == [freed EXCEPT !.started = FALSE, !.names = FALSE]
    <3>1. s.ref = "open" /\ s.poll = "active"
      BY <1>1, <2>1 DEF LivesOnce, MDNSService
    <3>2. idle \in Services /\ idle.ref = "open" /\ idle.poll = "idle"
      BY <1>1, <3>1 DEF Services
    <3>3. idle = SocketWatcher_Stop(s)
      BY <3>1 DEF SocketWatcher_Stop
    <3> HIDE DEF idle
    <3>4. freed \in Services /\ freed.ref = "null" /\ freed.poll = "idle"
      BY <3>2 DEF Services
    <3>5. freed = DNSServiceRefDeallocate(idle)
      BY <3>2 DEF DNSServiceRefDeallocate
    <3> HIDE DEF freed
    <3>6. /\ over \in Services /\ over.ref = "null" /\ over.poll = "idle"
          /\ ~over.started /\ ~over.names
      BY <3>4 DEF Services
    <3>7. stop(s) = over
      BY <2>1, <3>3, <3>5 DEF stop
    <3> HIDE DEF over
    <3> QED
      BY <3>1, <3>6, <3>7 DEF LivesOnce
  <2>2. CASE ~s.started
    BY <1>1, <2>2 DEF stop, LivesOnce, MDNSService
  <2> QED
    BY <2>1, <2>2
<1>3. /\ service' \in [Browsers -> Services] /\ \A c \in Browsers : LivesOnce(service'[c])
      /\ Made' = Made /\ Running' = Running \ {b}
  BY <1>1, <1>2 DEF Counted, Made, Running
<1>4. Cardinality(Running \ {b}) = IF s.started THEN Cardinality(Running) - 1 ELSE Cardinality(Running)
  BY BrowsersFinite, FS_RemoveElement DEF Running
<1>5. Cardinality(Running) \in Nat /\ Cardinality(Made) \in Nat
  BY BrowsersFinite DEF Running, Made
<1>6. s.started \in BOOLEAN
  BY <1>1 DEF Services
<1> HIDE DEF s
<1>7. /\ timers' = timers + 1 /\ faults' = faults + 1 /\ faults < MaxFaults
      /\ repeats' = IF s.started THEN repeats ELSE repeats + 1
  BY DEF Error, s
<1> QED
  BY <1>3, <1>4, <1>5, <1>6, <1>7, MdnsAssumption DEF Counted

LEMMA CountedBrowse ==
  ASSUME Counted, browse
  PROVE  Counted'
<1>1. /\ Made \in SUBSET Browsers /\ Running \in SUBSET Browsers
      /\ IsFiniteSet(Made) /\ IsFiniteSet(Running)
      /\ Cardinality(Made) \in Nat /\ Cardinality(Running) \in Nat
  BY BrowsersFinite DEF Made, Running
<1>2. Unmade # {}
  <2>1. Cardinality(Made) < Cardinality(Browsers)
    BY <1>1, BrowsersFinite, MdnsAssumption DEF Counted, browse
  <2>2. Unmade = Browsers \ Made
    BY DEF Unmade, Made
  <2> QED
    BY <1>1, <2>1, <2>2
<1>3. PICK b \in Unmade : service' = [service EXCEPT ![b] = start(DNSServiceBrowse(MDNSService))]
  BY <1>2, LeastUnmade DEF browse
<1>4. start(DNSServiceBrowse(MDNSService)) =
        [ref |-> "open", poll |-> "active", started |-> TRUE, names |-> FALSE]
  BY DEF start, DNSServiceBrowse, MDNSService, SocketWatcher_Start, SocketWatcher_Set
<1>5. b \in Browsers /\ service[b].ref = "none" /\ ~service[b].started
  BY DEF Unmade, Counted, LivesOnce, MDNSService
<1>6. /\ service' \in [Browsers -> Services] /\ \A c \in Browsers : LivesOnce(service'[c])
      /\ Made' = Made \cup {b} /\ Running' = Running \cup {b}
  BY <1>3, <1>4, <1>5 DEF Counted, Made, Running, LivesOnce, Services
<1>7. b \notin Made /\ b \notin Running
  BY <1>5 DEF Made, Running
<1>8. /\ Cardinality(Made \cup {b}) = Cardinality(Made) + 1
      /\ Cardinality(Running \cup {b}) = Cardinality(Running) + 1
  BY <1>1, <1>7, FS_AddElement
<1>9. timers > 0 /\ timers' = timers - 1 /\ repeats' = repeats /\ faults' = faults
  BY DEF browse
<1> QED
  BY <1>1, <1>6, <1>8, <1>9, MdnsAssumption DEF Counted

LEMMA CountedAdded ==
  ASSUME Counted, NEW b \in Browsers, OnServiceAdded(b)
  PROVE  Counted'
<1>1. CASE Error(b)
  BY <1>1, CountedError
<1>2. CASE service' = [service EXCEPT ![b].names = TRUE] /\ UNCHANGED <<timers, repeats, faults>>
  <2>1. service[b].started /\ service[b].poll = "active"
    BY DEF OnServiceAdded, Reported, DNSServiceProcessResult, Watched
  <2> DEFINE s == [service[b] EXCEPT !.names = TRUE]
  <2>2. service' = [service EXCEPT ![b] = s]
    BY <1>2
  <2>3. /\ s \in Services /\ s.started /\ s.poll = "active" /\ s.ref = service[b].ref
        /\ service[b].ref = "open"
    <3> DEFINE old == service[b]
    <3>1. old \in Services /\ LivesOnce(old)
      BY DEF Counted
    <3>2. old.ref = "open" /\ old.started /\ old.poll = "active"
      BY <2>1, <3>1 DEF LivesOnce, MDNSService
    <3> HIDE DEF old
    <3>3. /\ [old EXCEPT !.names = TRUE] \in Services
          /\ [old EXCEPT !.names = TRUE].started = old.started
          /\ [old EXCEPT !.names = TRUE].poll = old.poll
          /\ [old EXCEPT !.names = TRUE].ref = old.ref
      BY <3>1 DEF Services
    <3> QED
      BY <3>2, <3>3 DEF old
  <2> HIDE DEF s
  <2>4. /\ service' \in [Browsers -> Services] /\ \A c \in Browsers : LivesOnce(service'[c])
        /\ Made' = Made /\ Running' = Running
    BY <2>1, <2>2, <2>3 DEF Counted, Made, Running, LivesOnce
  <2> QED
    BY <1>2, <2>4 DEF Counted
<1> QED
  BY <1>1, <1>2 DEF OnServiceAdded

LEMMA CountedStep == TypeInv /\ [Next]_vars => Counted'
<1> SUFFICES ASSUME TypeInv, [Next]_vars PROVE Counted'
  OBVIOUS
<1> USE DEF TypeInv
<1>1. CASE make \/ registerAndDiscover \/ addAttributes \/ removeAttributes \/ Advertised
  BY <1>1, CountedSame DEF make, registerAndDiscover, addAttributes, removeAttributes, Advertised,
     BrowsersGoOn, browserVars
<1>2. CASE Crash
  BY <1>2, CountedSame DEF Crash
<1>3. CASE MqttMessage \/ serviceDown \/ serviceUp
  BY <1>3, CountedSame DEF MqttMessage, serviceDown, serviceUp, OnServiceRemoved, OnAddressInfo,
     browserVars
<1>4. CASE Browsing
  <2>1. CASE browse
    BY <2>1, CountedBrowse
  <2>2. ASSUME NEW b \in Browsers, OnServiceAdded(b) \/ BrowserError(b) PROVE Counted'
    BY <2>2, CountedAdded, CountedError DEF BrowserError
  <2>3. ASSUME NEW r \in resolving, OnResolve(r) \/ AddressError(r) PROVE Counted'
    <3>1. r.browser \in Browsers
      BY DEF DiscoveryOK, Resolutions
    <3>2. Error(r.browser) \/ UNCHANGED <<service, timers, repeats, faults>>
      BY <2>3 DEF OnResolve, AddressError
    <3> QED
      BY <3>1, <3>2, CountedError, CountedSame
  <2> QED
    BY <1>4, <2>1, <2>2, <2>3 DEF Browsing
<1>5. CASE UNCHANGED vars
  BY <1>5, CountedSame DEF vars, browserVars
<1> QED
  BY <1>1, <1>2, <1>3, <1>4, <1>5 DEF Next

(***************************************************************************)
(* Types                                                                   *)
(***************************************************************************)
LEMMA TypesInit == Init => NodeOK /\ DiscoveryOK
<1> SUFFICES ASSUME Init PROVE NodeOK /\ DiscoveryOK
  OBVIOUS
<1>1. <<>> \in Seq(Events)
  BY EmptySeq
<1>2. NodeOK
  <2>1. 0 \in 0..MaxTime /\ 0 \in 0..0
    BY MdnsAssumption
  <2>2. /\ kind \in {"status", "custom"} /\ own \in BOOLEAN /\ time = 0 /\ state = "none"
        /\ size = "short" /\ ad = 0 /\ wanted = 0 /\ published = 0 /\ orphan = FALSE
        /\ pending = {} /\ onAir = {} /\ uncalled = {} /\ mqttQ = <<>>
    BY DEF Init, MdnsInit, Absent
  <2> QED
    BY <1>1, <2>1, <2>2 DEF NodeOK
<1>3. found \in [Browsers -> Seq(Events)]
  BY <1>1 DEF Init, MdnsInit
<1>4. -1 \in Unknown..MaxTime /\ Unknown # 0
  BY MdnsAssumption DEF Unknown
<1>5. DiscoveryOK
  BY <1>3, <1>4 DEF Init, MdnsInit, DiscoveryOK, Unknown
<1> QED
  BY <1>2, <1>5

(* What an advertisement changes.                                          *)
LEMMA Created ==
  ASSUME NodeOK, DiscoveryOK, NEW v \in 1..MaxTime, NEW z, createAdvertisement(v, z)
  PROVE  /\ ad' = Absent /\ found' \in [Browsers -> Seq(Events)]
         /\ \/ /\ z = "short" /\ pending' = pending \cup {v}
               /\ uncalled' = uncalled \cup Overlapping({v})
               /\ onAir' = (onAir \ {ad}) \cup {v}
            \/ /\ z # "short" /\ pending' = pending
               /\ uncalled' = uncalled \cup pending
               /\ onAir' = onAir \ {ad}
<1>1. /\ onAir \subseteq 1..MaxTime /\ onAir \ {ad} \in SUBSET (1..MaxTime)
      /\ (onAir \ {ad}) \cup {v} \in SUBSET (1..MaxTime)
      /\ found \in [Browsers -> Seq(Events)]
  BY MdnsAssumption DEF NodeOK, DiscoveryOK
<1>2. CASE z = "short"
  <2>1. ad' = Absent /\ uncalled' = uncalled \cup Overlapping({v}) /\ DNSServiceRegister(v)
    BY <1>2 DEF createAdvertisement, TXTRecordSetValue
  <2>2. pending' = pending \cup {v} /\ OnTheAir((onAir \ {ad}) \cup {v})
    BY <2>1 DEF DNSServiceRegister
  <2> QED
    BY <1>1, <1>2, <2>1, <2>2, OnTheAirTypes
<1>3. CASE z # "short"
  <2>1. ad' = Absent /\ uncalled' = uncalled \cup pending /\ OnTheAir(onAir \ {ad}) /\ pending' = pending
    BY <1>3 DEF createAdvertisement, TXTRecordSetValue
  <2> QED
    BY <1>1, <1>3, <2>1, OnTheAirTypes
<1> QED
  BY <1>2, <1>3

LEMMA Stopped ==
  ASSUME NodeOK, DiscoveryOK, stopAdvertisement
  PROVE  /\ ad' = Absent /\ found' \in [Browsers -> Seq(Events)]
         /\ pending' = pending /\ uncalled' = uncalled \cup pending /\ onAir' = onAir \ {ad}
<1>1. /\ onAir \subseteq 1..MaxTime /\ onAir \ {ad} \in SUBSET (1..MaxTime)
      /\ found \in [Browsers -> Seq(Events)]
  BY MdnsAssumption DEF NodeOK, DiscoveryOK
<1> QED
  BY <1>1, OnTheAirTypes DEF stopAdvertisement

(* A crash takes everything off the air.                                   *)
LEMMA Silenced ==
  ASSUME NodeOK, DiscoveryOK, OnTheAir({})
  PROVE  onAir' = {} /\ found' \in [Browsers -> Seq(Events)]
<1>1. onAir \subseteq 1..MaxTime /\ {} \in SUBSET (1..MaxTime) /\ found \in [Browsers -> Seq(Events)]
  BY MdnsAssumption DEF NodeOK, DiscoveryOK
<1> QED
  BY <1>1, OnTheAirTypes

LEMMA Published ==
  ASSUME NodeOK, NEW v \in 1..MaxTime, publish(v)
  PROVE  mqttQ' \in Seq(Events) /\ published' \in {published, v} /\ orphan' \in BOOLEAN
<1>1. Up(v) \in Events
  BY DEF Events
<1>2. mqttQ \in Seq(Events) /\ Append(mqttQ, Up(v)) \in Seq(Events)
  BY <1>1, AppendProperties DEF NodeOK
<1> QED
  BY <1>2 DEF publish, NodeOK

LEMMA Removal ==
  ASSUME NodeOK
  PROVE  Append(mqttQ, Down) \in Seq(Events)
<1>1. Down \in Events
  BY DEF Events
<1> QED
  BY <1>1, AppendProperties DEF NodeOK

LEMMA NodeStep == TypeInv /\ [Next]_vars => NodeOK'
<1> SUFFICES ASSUME TypeInv, [Next]_vars PROVE NodeOK'
  OBVIOUS
<1>0. NodeOK /\ DiscoveryOK /\ MaxTime \in Nat
  BY MdnsAssumption DEF TypeInv
<1>1. CASE make
  BY <1>0, <1>1 DEF make, NodeOK, adVars, Absent
<1>2. CASE registerAndDiscover
  <2>1. CASE wanted = Absent
    BY <1>0, <1>2, <2>1 DEF registerAndDiscover, NodeOK, adVars
  <2>2. CASE wanted # Absent
    <3>1. wanted \in 1..MaxTime /\ wanted \in 1..time
      BY <1>0, <2>2 DEF NodeOK, Absent
    <3>2. createAdvertisement(wanted, size) /\ publish(wanted)
      BY <1>2, <2>2 DEF registerAndDiscover
    <3>3. /\ mqttQ' \in Seq(Events) /\ published' \in 0..time /\ orphan' \in BOOLEAN
      BY <1>0, <3>1, <3>2, Published DEF NodeOK
    <3>4. /\ ad' = Absent /\ pending' \subseteq 1..time /\ onAir' \subseteq 1..time
          /\ uncalled' \subseteq 1..time
      BY <1>0, <3>1, <3>2, Created DEF NodeOK, Overlapping
    <3> QED
      BY <1>0, <1>2, <3>3, <3>4 DEF registerAndDiscover, NodeOK, Absent
  <2> QED
    BY <2>1, <2>2
<1>3. CASE addAttributes
  <2>1. CASE state # "started"
    <3>1. time + 1 \in 0..MaxTime /\ time' = time + 1 /\ wanted' = time + 1 /\ size' = "short"
      BY <1>0, <1>3, <2>1 DEF addAttributes, NodeOK
    <3>2. UNCHANGED <<kind, own, state, published, orphan, mqttQ, ad, pending, onAir, uncalled>>
      BY <1>3, <2>1 DEF addAttributes, adVars
    <3>3. 0..time \subseteq 0..time' /\ 1..time \subseteq 1..time' /\ time + 1 \in 0..time'
      BY <1>0, <3>1 DEF NodeOK
    <3> QED
      BY <1>0, <3>1, <3>2, <3>3 DEF NodeOK
  <2>2. CASE state = "started"
    <3>1. time + 1 \in 1..MaxTime /\ time' = time + 1 /\ wanted' = time + 1 /\ UNCHANGED <<kind, own, state>>
      BY <1>0, <1>3 DEF addAttributes, NodeOK
    <3>2. /\ createAdvertisement(time + 1, size') /\ publish(time + 1)
          /\ size' \in {"short", "long"}
      BY <1>3, <2>2 DEF addAttributes
    <3>3. /\ mqttQ' \in Seq(Events) /\ published' \in 0..time' /\ orphan' \in BOOLEAN
      BY <1>0, <3>1, <3>2, Published DEF NodeOK
    <3>4. /\ ad' = Absent /\ pending' \subseteq 1..time' /\ onAir' \subseteq 1..time'
          /\ uncalled' \subseteq 1..time'
      <4>1. 1..time \subseteq 1..time' /\ time + 1 \in 1..time'
        BY <1>0, <3>1 DEF NodeOK
      <4>2. pending \subseteq 1..time /\ onAir \subseteq 1..time /\ uncalled \subseteq 1..time
        BY <1>0 DEF NodeOK
      <4> QED
        BY <1>0, <3>1, <3>2, <4>1, <4>2, Created DEF Overlapping
    <3> QED
      BY <1>0, <3>1, <3>2, <3>3, <3>4 DEF NodeOK, Absent
  <2> QED
    BY <2>1, <2>2
<1>4. CASE removeAttributes
  <2>1. /\ ad' = Absent /\ pending' = pending /\ uncalled' = uncalled \cup pending
        /\ onAir' = onAir \ {ad}
    BY <1>0, <1>4, Stopped DEF removeAttributes
  <2>2. mqttQ' \in Seq(Events)
    BY <1>0, <1>4, Removal DEF removeAttributes, NodeOK
  <2> QED
    BY <1>0, <1>4, <2>1, <2>2 DEF removeAttributes, NodeOK, Absent
<1>5. CASE Advertised
  BY <1>0, <1>5 DEF Advertised, OnServiceRegistered, NodeOK, nodeVars
<1>6. CASE Crash
  BY <1>0, <1>6, Silenced, Removal DEF Crash, NodeOK, Absent
<1>7. CASE MqttMessage
  <2>1. Tail(mqttQ) \in Seq(Events)
    BY <1>0, <1>7, HeadTailProperties DEF MqttMessage, NodeOK
  <2> QED
    BY <1>0, <1>7, <2>1 DEF MqttMessage, NodeOK, nodeVars, adVars
<1>8. CASE serviceDown \/ serviceUp \/ Browsing
  BY <1>0, <1>8 DEF serviceDown, serviceUp, Browsing, NodeGoesOn, NodeOK, nodeVars, adVars
<1>9. CASE UNCHANGED vars
  BY <1>0, <1>9 DEF vars, NodeOK, nodeVars, adVars
<1> QED
  BY <1>1, <1>2, <1>3, <1>4, <1>5, <1>6, <1>7, <1>8, <1>9 DEF Next

(* What the application has heard and booked keeps its types whatever is   *)
(* reported.                                                               *)
LEMMA Responded ==
  ASSUME TypeInv, NEW event \in Events, Respond(event), kind' = kind,
         UNCHANGED late \/ late' \in BOOLEAN
  PROVE  /\ discoveries' \in Unknown..MaxTime /\ (discoveries' = 0 => kind' = "status")
         /\ heard' \in Events \cup {NoEvent}
         /\ mapped' \in BOOLEAN /\ thrown' \in BOOLEAN /\ again' \in BOOLEAN /\ late' \in BOOLEAN
<1>1. /\ DiscoveryOK /\ MaxTime \in Nat /\ Down \in Events /\ Down.op = "down" /\ Down.value = 0
      /\ event.value \in 0..MaxTime /\ (event.op = "down" <=> event.value = 0)
  BY MdnsAssumption DEF TypeInv, Events, Up, Down, Absent
<1>2. CASE respondToAttrRemovalEvent
  <2>1. /\ discoveries' \in {discoveries, Unknown} /\ mapped' = mapped /\ heard' \in {heard, Down}
        /\ thrown' \in {thrown, thrown \/ ~mapped} /\ again' \in {again, again \/ Down = heard}
    BY <1>2 DEF respondToAttrRemovalEvent, Emit
  <2>2. Unknown \in Unknown..MaxTime /\ Unknown # 0
    BY <1>1 DEF Unknown
  <2>3. /\ thrown' \in BOOLEAN /\ again' \in BOOLEAN /\ mapped' \in BOOLEAN
    BY <1>1, <2>1 DEF DiscoveryOK
  <2> QED
    BY <1>1, <2>1, <2>2, <2>3 DEF DiscoveryOK
<1>3. CASE respondToDiscoveryEvent(event) /\ (event.value = 0 => kind = "status")
  <2>1. /\ discoveries' \in {discoveries, event.value} /\ thrown' = thrown
        /\ heard' \in {heard, event}
        /\ mapped' \in {mapped, TRUE} /\ again' \in {again, again \/ event = heard}
    BY <1>3 DEF respondToDiscoveryEvent, updateDiscoveries, Emit
  <2>2. event.value \in Unknown..MaxTime
    BY <1>1 DEF Unknown
  <2>3. /\ thrown' \in BOOLEAN /\ again' \in BOOLEAN /\ mapped' \in BOOLEAN
    BY <1>1, <2>1 DEF DiscoveryOK
  <2>4. discoveries' \in Unknown..MaxTime /\ (discoveries' = 0 => kind = "status")
    BY <1>1, <1>3, <2>1, <2>2 DEF DiscoveryOK
  <2> QED
    BY <1>1, <2>1, <2>3, <2>4 DEF DiscoveryOK
<1> QED
  <2>1. kind = "custom" \/ kind = "status"
    BY DEF TypeInv, NodeOK
  <2> QED
    BY <1>1, <1>2, <1>3, <2>1 DEF Respond

(* Errors empty what a browser has to report.                              *)
LEMMA FoundError ==
  ASSUME DiscoveryOK, NEW b \in Browsers, Error(b)
  PROVE  found' \in [Browsers -> Seq(Events)]
BY EmptySeq DEF Error, DiscoveryOK

(* A report is an event, and the rest of them is what is left.             *)
LEMMA ReportTypes ==
  ASSUME DiscoveryOK, NEW b \in Browsers, found[b] # <<>>
  PROVE  /\ Head(found[b]) \in Events
         /\ [found EXCEPT ![b] = Tail(@)] \in [Browsers -> Seq(Events)]
<1>1. found[b] \in Seq(Events)
  BY DEF DiscoveryOK
<1>2. Head(found[b]) \in Events /\ Tail(found[b]) \in Seq(Events)
  BY <1>1, HeadTailProperties
<1> QED
  BY <1>2 DEF DiscoveryOK

LEMMA DiscoveryStep == TypeInv /\ [Next]_vars => DiscoveryOK'
<1> SUFFICES ASSUME TypeInv, [Next]_vars PROVE DiscoveryOK'
  OBVIOUS
<1>0. NodeOK /\ DiscoveryOK /\ MaxTime \in Nat
  BY MdnsAssumption DEF TypeInv
<1>1. CASE make \/ Advertised
  BY <1>0, <1>1 DEF make, Advertised, DiscoveryOK, browserVars, appVars
<1>2. CASE registerAndDiscover \/ addAttributes \/ removeAttributes \/ Crash
  <2>1. found' \in [Browsers -> Seq(Events)]
    <3>1. CASE registerAndDiscover
      <4>1. wanted = Absent \/ wanted \in 1..MaxTime
        BY <1>0 DEF NodeOK, Absent
      <4> QED
        BY <1>0, <3>1, <4>1, Created DEF registerAndDiscover, DiscoveryOK
    <3>2. CASE addAttributes
      <4>1. time + 1 \in 1..MaxTime
        BY <1>0, <3>2 DEF NodeOK, addAttributes
      <4> QED
        BY <1>0, <3>2, <4>1, Created DEF addAttributes, DiscoveryOK
    <3>3. CASE removeAttributes
      BY <1>0, <3>3, Stopped DEF removeAttributes
    <3>4. CASE Crash
      BY <1>0, <3>4, Silenced DEF Crash
    <3> QED
      BY <1>2, <3>1, <3>2, <3>3, <3>4
  <2>2. UNCHANGED <<kind, resolving, discoveries, heard, mapped, thrown, again, late>>
    BY <1>2 DEF registerAndDiscover, addAttributes, removeAttributes, Crash, BrowsersGoOn, appVars
  <2> QED
    BY <1>0, <2>1, <2>2 DEF DiscoveryOK
<1>3. CASE MqttMessage
  <2>1. Head(mqttQ) \in Events
    BY <1>0, <1>3, HeadTailProperties DEF MqttMessage, NodeOK
  <2>2. /\ Respond(Head(mqttQ))
        /\ UNCHANGED <<kind, late, found, resolving>>
    BY <1>3 DEF MqttMessage, browserVars
  <2> QED
    BY <1>0, <2>1, <2>2, Responded DEF DiscoveryOK
<1>4. CASE serviceDown
  <2>1. PICK b \in Browsers : OnServiceRemoved(b)
    BY <1>4 DEF serviceDown
  <2>2. found' \in [Browsers -> Seq(Events)] /\ resolving' = resolving
    BY <1>0, <2>1, ReportTypes DEF OnServiceRemoved, Reported
  <2>3. Respond(Down) /\ UNCHANGED <<kind, late>>
    BY <1>4 DEF serviceDown, NodeGoesOn
  <2>4. Down \in Events
    BY DEF Events
  <2> QED
    BY <1>0, <2>2, <2>3, <2>4, Responded DEF DiscoveryOK
<1>5. CASE serviceUp
  <2>1. PICK r \in resolving : /\ OnAddressInfo(r)
                               /\ IF own THEN UNCHANGED appVars
                                         ELSE /\ respondToDiscoveryEvent(Up(r.value))
                                              /\ late' = (late \/ r.value \notin onAir)
    BY <1>5 DEF serviceUp
  <2>2. found' = found /\ resolving' \subseteq Resolutions /\ kind' = kind
    BY <1>0, <1>5, <2>1 DEF OnAddressInfo, Resolved, serviceUp, NodeGoesOn, DiscoveryOK
  <2>3. CASE UNCHANGED appVars
    BY <1>0, <2>2, <2>3 DEF DiscoveryOK, appVars
  <2>4. CASE respondToDiscoveryEvent(Up(r.value)) /\ late' = (late \/ r.value \notin onAir)
    <3>1. Up(r.value) \in Events /\ Up(r.value).op = "up"
      BY <1>0 DEF DiscoveryOK, Resolutions, Events, Up
    <3>2. Respond(Up(r.value)) /\ late' \in BOOLEAN
      BY <1>0, <2>4, <3>1 DEF Respond, DiscoveryOK
    <3> QED
      BY <1>0, <2>2, <3>1, <3>2, Responded DEF DiscoveryOK
  <2> QED
    BY <2>1, <2>3, <2>4
<1>6. CASE Browsing
  <2>1. UNCHANGED appVars /\ kind' = kind
    BY <1>6 DEF Browsing, NodeGoesOn
  <2>2. found' \in [Browsers -> Seq(Events)] /\ resolving' \subseteq Resolutions
    <3>1. CASE browse
      <4>1. Arrivals(onAir) \in Seq(Events)
        <5>1. onAir \in SUBSET (1..MaxTime)
          BY <1>0 DEF NodeOK
        <5> QED
          BY <5>1, ArrivalsAreEvents
      <4> QED
        BY <1>0, <3>1, <4>1 DEF browse, DiscoveryOK
    <3>2. ASSUME NEW b \in Browsers, OnServiceAdded(b)
          PROVE  found' \in [Browsers -> Seq(Events)] /\ resolving' \subseteq Resolutions
      <4>1. found[b] # <<>> /\ Head(found[b]).op = "up" /\ DNSServiceResolve(b, Head(found[b]).value)
        BY <3>2 DEF OnServiceAdded, Reported
      <4>2. Head(found[b]).value \in 1..MaxTime
        <5>1. Head(found[b]) \in Events
          BY <1>0, <4>1, ReportTypes
        <5>2. \A e \in Events : e.op = "up" => e.value \in 1..MaxTime
          BY DEF Events, Up, Down
        <5> QED
          BY <4>1, <5>1, <5>2
      <4>3. resolving' \subseteq Resolutions
        BY <1>0, <4>1, <4>2 DEF DNSServiceResolve, DiscoveryOK, Resolutions
      <4> QED
        BY <1>0, <3>2, <4>1, <4>3, FoundError, ReportTypes DEF OnServiceAdded
    <3>3. ASSUME NEW b \in Browsers, BrowserError(b)
          PROVE  found' \in [Browsers -> Seq(Events)] /\ resolving' \subseteq Resolutions
      BY <1>0, <3>3, FoundError DEF BrowserError, DiscoveryOK
    <3>4. ASSUME NEW r \in resolving, OnResolve(r) \/ AddressError(r)
          PROVE  found' \in [Browsers -> Seq(Events)] /\ resolving' \subseteq Resolutions
      <4>1. r \in Resolutions /\ r.browser \in Browsers /\ r.value \in 1..MaxTime
        BY <1>0 DEF DiscoveryOK, Resolutions
      <4>2. Error(r.browser) \/ UNCHANGED found
        BY <3>4 DEF OnResolve, AddressError
      <4>3. Resolved(r) \/ \E w \in onAir \cup {r.value} : DNSServiceGetAddrInfo(r, w)
        BY <3>4 DEF OnResolve, AddressError
      <4>4. \A w \in onAir \cup {r.value} : [r EXCEPT !.step = "addresses", !.value = w] \in Resolutions
        <5>1. \A w \in onAir \cup {r.value} : w \in 1..MaxTime
          BY <1>0, <4>1 DEF NodeOK
        <5> QED
          BY <4>1, <5>1 DEF Resolutions
      <4>5. resolving' \subseteq Resolutions
        BY <1>0, <4>3, <4>4 DEF Resolved, DNSServiceGetAddrInfo, DiscoveryOK
      <4> QED
        BY <1>0, <4>1, <4>2, <4>5, FoundError DEF DiscoveryOK
    <3> QED
      BY <1>6, <3>1, <3>2, <3>3, <3>4 DEF Browsing
  <2> QED
    BY <1>0, <2>1, <2>2 DEF DiscoveryOK, appVars
<1>7. CASE UNCHANGED vars
  BY <1>0, <1>7 DEF vars, DiscoveryOK, browserVars, appVars
<1> QED
  BY <1>1, <1>2, <1>3, <1>4, <1>5, <1>6, <1>7 DEF Next

LEMMA TypeInitially == Init => TypeInv
BY TypesInit, CountedInit DEF TypeInv

LEMMA TypeStep == TypeInv /\ [Next]_vars => TypeInv'
BY NodeStep, DiscoveryStep, CountedStep DEF TypeInv

(* The values the variables take, whatever the configuration.              *)
THEOREM TypeCorrect == Spec => []TypeOK
<1>1. TypeInv => TypeOK
  <2> SUFFICES ASSUME TypeInv PROVE TypeOK
    OBVIOUS
  <2>1. MaxTime \in Nat /\ MaxFaults \in Nat /\ 0..time \subseteq 0..MaxTime /\ 1..time \subseteq 1..MaxTime
    BY MdnsAssumption DEF TypeInv, NodeOK
  <2>2. MdnsTypes
    BY <2>1 DEF TypeInv, NodeOK, DiscoveryOK, Counted, MdnsTypes, Services, Resolutions
  <2> QED
    BY <2>1, <2>2 DEF TypeInv, NodeOK, DiscoveryOK, TypeOK
<1> QED
  BY <1>1, TypeInitially, TypeStep, PTL DEF Spec

(* However often browsers fail, and whatever of theirs is still being      *)
(* resolved then, one of them runs or a timer will make one, and a socket  *)
(* is polled only while its ref lives.                                     *)
THEOREM DiscoveryNeverEnds == Spec => []DiscoveryGoesOn
<1>1. TypeInv => DiscoveryGoesOn
  BY DEF TypeInv, Counted, LivesOnce, DiscoveryGoesOn, MDNSService
<1> QED
  BY <1>1, TypeInitially, TypeStep, PTL DEF Spec

(***************************************************************************)
(* The events of the application                                           *)
(***************************************************************************)

(* A response books what it tells, tells nothing twice, and goes on to     *)
(* later values only.                                                      *)
LEMMA BookedResponse ==
  ASSUME EliminateDuplicates, TypeInv, Booked, NEW event \in Events, Respond(event), kind' = kind
  PROVE  /\ Booked'
         /\ heard.op = "up" /\ heard'.op = "up" /\ heard' # heard => heard'.value > heard.value
<1>1. /\ event.value \in Nat /\ (event.op = "down" <=> event.value = 0) /\ event.op \in {"up", "down"}
      /\ event = [op |-> event.op, value |-> event.value]
  BY DEF Events, Up, Down, Absent
<1>2. /\ discoveries \in Int /\ (discoveries = 0 => kind = "status")
      /\ kind = "status" \/ kind = "custom"
      /\ heard \in Events \cup {NoEvent} /\ mapped \in BOOLEAN
      /\ thrown \in BOOLEAN /\ again \in BOOLEAN
  BY MdnsAssumption DEF TypeInv, NodeOK, DiscoveryOK, Unknown
<1>3. /\ heard.op = "none" \/ heard.op = "up" \/ heard.op = "down"
      /\ heard.op = "down" => heard = Down
  BY <1>2 DEF Events, Up, Down, NoEvent
<1>4. Down.op = "down" /\ Down.value = 0
  BY DEF Down, Absent
<1>5. CASE kind = "custom" /\ event.op = "down"
  <2>1. respondToAttrRemovalEvent
    BY <1>5 DEF Respond
  <2>2. CASE discoveries = Unknown
    BY <2>1, <2>2 DEF respondToAttrRemovalEvent, Booked
  <2>3. CASE discoveries # Unknown
    <3>1. ~thrown' /\ discoveries' = Unknown /\ mapped' = mapped
      BY <2>1, <2>3 DEF respondToAttrRemovalEvent, Booked
    <3>2. heard' = Down /\ again' = (again \/ Down = heard)
      BY <2>1, <2>3, <3>1 DEF respondToAttrRemovalEvent, Emit
    <3>3. heard # Down
      BY <1>4, <1>5, <2>3 DEF Booked
    <3> QED
      BY <1>4, <1>5, <3>1, <3>2, <3>3 DEF Booked
  <2> QED
    BY <2>2, <2>3
<1>6. CASE respondToDiscoveryEvent(event) /\ (event.op = "down" => kind = "status")
  <2>1. CASE isDuplicate(event.value)
    BY <1>6, <2>1 DEF respondToDiscoveryEvent, Booked
  <2>2. CASE ~isDuplicate(event.value)
    <3>1. /\ discoveries' = event.value /\ mapped' = TRUE /\ heard' = event /\ thrown' = thrown
          /\ again' = (again \/ event = heard)
      BY <1>6, <2>2 DEF respondToDiscoveryEvent, updateDiscoveries, Emit
    <3>2. /\ discoveries # Unknown => event.value > discoveries \/ (event.value = 0 /\ discoveries # 0)
      BY <1>1, <1>2, <2>2 DEF isDuplicate
    <3>3. event # heard
      BY <1>1, <1>2, <1>3, <1>6, <3>2 DEF Booked, Unknown
    <3>4. heard.op = "up" /\ event.op = "up" => event.value > heard.value
      BY <1>1, <1>2, <3>2 DEF Booked, Unknown, Events, Up, Down, NoEvent, Absent
    <3> QED
      BY <1>1, <1>6, <3>1, <3>3, <3>4 DEF Booked, Unknown
  <2> QED
    BY <2>1, <2>2
<1> QED
  BY <1>1, <1>2, <1>5, <1>6 DEF Respond

(* What does not report anything leaves all that alone.                    *)
LEMMA BookedStep ==
  EliminateDuplicates /\ TypeInv /\ Booked /\ [Next]_vars
    => /\ Booked'
       /\ heard.op = "up" /\ heard'.op = "up" /\ heard' # heard => heard'.value > heard.value
<1> SUFFICES ASSUME EliminateDuplicates, TypeInv, Booked, [Next]_vars
             PROVE  /\ Booked'
                    /\ heard.op = "up" /\ heard'.op = "up" /\ heard' # heard
                         => heard'.value > heard.value
  OBVIOUS
<1>1. CASE UNCHANGED <<kind, appVars>>
  BY <1>1 DEF Booked, appVars
<1>2. CASE make \/ registerAndDiscover \/ addAttributes \/ removeAttributes \/ Advertised \/ Crash
  <2>1. UNCHANGED <<kind, appVars>>
    BY <1>2 DEF make, registerAndDiscover, addAttributes, removeAttributes, Advertised, Crash
  <2> QED
    BY <1>1, <2>1
<1>3. CASE MqttMessage
  <2>1. Head(mqttQ) \in Events
    BY <1>3, HeadTailProperties DEF MqttMessage, TypeInv, NodeOK
  <2> QED
    BY <1>3, <2>1, BookedResponse DEF MqttMessage
<1>4. CASE serviceDown
  <2>1. Down \in Events
    BY DEF Events
  <2> QED
    BY <1>4, <2>1, BookedResponse DEF serviceDown, NodeGoesOn
<1>5. CASE serviceUp
  <2>1. PICK r \in resolving : IF own THEN UNCHANGED appVars
                                      ELSE respondToDiscoveryEvent(Up(r.value))
    BY <1>5 DEF serviceUp
  <2>2. kind' = kind
    BY <1>5 DEF serviceUp, NodeGoesOn
  <2>3. CASE respondToDiscoveryEvent(Up(r.value))
    <3>1. Up(r.value) \in Events /\ Up(r.value).op = "up"
      BY DEF TypeInv, DiscoveryOK, Resolutions, Events, Up
    <3>2. Respond(Up(r.value))
      BY <2>3, <3>1 DEF Respond
    <3> QED
      BY <2>2, <3>1, <3>2, BookedResponse
  <2> QED
    BY <1>1, <2>1, <2>2, <2>3
<1>6. CASE Browsing
  BY <1>1, <1>6 DEF Browsing, NodeGoesOn
<1>7. CASE UNCHANGED vars
  BY <1>1, <1>7 DEF vars
<1> QED
  BY <1>2, <1>3, <1>4, <1>5, <1>6, <1>7 DEF Next

LEMMA BookedInitially == Init => Booked
BY DEF Init, Booked, NoEvent

(* With elimination, the values the variables take, no event twice in a    *)
(* row, no handler that fails, and browsing that goes on: though mDNS and  *)
(* MQTT both report an attribute, in any order and more than once.         *)
THEOREM RegistrarIsSound ==
  ASSUME EliminateDuplicates
  PROVE  Spec => []RegistrarInv
<1>1. Booked => NothingTwice /\ NeverThrows
  BY DEF Booked, NothingTwice, NeverThrows
<1>2. Spec => []Booked
  BY TypeInitially, TypeStep, BookedInitially, BookedStep, PTL DEF Spec
<1> QED
  BY <1>1, <1>2, TypeCorrect, DiscoveryNeverEnds, PTL DEF RegistrarInv

(* With elimination, the application goes from a value to a later one only,*)
(* unless it hears of a removal in between.                                *)
THEOREM NoValueComesBack ==
  ASSUME EliminateDuplicates
  PROVE  Spec => NoStepBack
<1>1. TypeInv /\ Booked /\ [Next]_vars
        => [heard.op = "up" /\ heard'.op = "up" /\ heard' # heard => heard'.value > heard.value]_vars
  BY BookedStep
<1> QED
  BY <1>1, TypeInitially, TypeStep, BookedInitially, BookedStep, PTL DEF Spec, NoStepBack

(***************************************************************************)
(* Advertisements                                                          *)
(***************************************************************************)
HandledInv == Handled /\ OnAirIsWanted

LEMMA HandledInitially == Init => HandledInv
BY DEF Init, MdnsInit, HandledInv, Handled, OnAirIsWanted

(* A new advertisement of the value that is wanted then, whether it fits   *)
(* or not.                                                                 *)
LEMMA HandledCreate ==
  ASSUME TypeInv, HandledInv, NEW v \in 1..MaxTime, createAdvertisement(v, size'),
         wanted' = v, state' = "started", v \notin uncalled,
         v \notin onAir \cup pending \cup {ad}, size' \in {"short", "long"}
  PROVE  HandledInv'
<1>0. NodeOK /\ DiscoveryOK
  BY DEF TypeInv
<1>1. ad' = Absent /\ v # Absent /\ (\A w \in pending : w \in uncalled \/ pending = {w})
  <2>1. ad' = Absent
    BY <1>0, Created
  <2> QED
    BY <2>1 DEF Absent, HandledInv, Handled
<1>2. onAir \subseteq {ad} \cup pending \cup uncalled
  BY DEF HandledInv, Handled
<1>3. CASE /\ size' = "short" /\ pending' = pending \cup {v}
           /\ uncalled' = uncalled \cup Overlapping({v})
           /\ onAir' = (onAir \ {ad}) \cup {v}
  <2>1. CASE pending = {}
    <3>1. uncalled' = uncalled /\ pending' = {v}
      BY <1>3, <2>1 DEF Overlapping
    <3> QED
      BY <1>1, <1>2, <1>3, <2>1, <3>1 DEF HandledInv, Handled, OnAirIsWanted
  <2>2. CASE pending # {}
    <3>1. uncalled' = uncalled \cup pending \cup {v}
      BY <1>3, <2>2 DEF Overlapping
    <3> QED
      BY <1>1, <1>2, <1>3, <3>1 DEF HandledInv, Handled, OnAirIsWanted
  <2> QED
    BY <2>1, <2>2
<1>4. CASE /\ size' # "short" /\ pending' = pending
           /\ uncalled' = uncalled \cup pending
           /\ onAir' = onAir \ {ad}
  <2>1. size' = "long"
    BY <1>4
  <2> QED
    BY <1>1, <1>2, <1>4, <2>1 DEF HandledInv, Handled, OnAirIsWanted
<1> QED
  BY <1>0, <1>3, <1>4, Created

LEMMA HandledStep == TypeInv /\ HandledInv /\ [Next]_vars => HandledInv'
<1> SUFFICES ASSUME TypeInv, HandledInv, [Next]_vars PROVE HandledInv'
  OBVIOUS
<1>0. NodeOK /\ DiscoveryOK /\ NodeOK' /\ MaxTime \in Nat
  BY TypeStep, MdnsAssumption DEF TypeInv
<1>1. time + 1 \notin 0..time /\ time \in Nat
  BY <1>0 DEF NodeOK
<1>2. CASE make
  <2>1. UNCHANGED <<ad, pending, onAir, uncalled>> /\ state = "none" /\ state' = "made" /\ size' = "short"
    BY <1>2 DEF make, adVars
  <2>2. wanted' \notin uncalled
    BY <1>0, <1>1, <1>2 DEF make, NodeOK, Absent
  <2> QED
    BY <2>1, <2>2 DEF HandledInv, Handled, OnAirIsWanted
<1>3. CASE registerAndDiscover
  <2>1. /\ state = "made" /\ state' = "started" /\ size = "short" /\ wanted \notin uncalled
        /\ ad = Absent /\ pending = {} /\ onAir = {} /\ wanted' = wanted /\ size' = size
    BY <1>3 DEF registerAndDiscover, HandledInv, Handled
  <2>2. CASE wanted = Absent
    BY <1>3, <2>1, <2>2 DEF registerAndDiscover, adVars, HandledInv, Handled, OnAirIsWanted
  <2>3. CASE wanted # Absent
    <3>1. wanted \in 1..MaxTime
      BY <1>0, <2>3 DEF NodeOK, Absent
    <3>2. createAdvertisement(wanted, size')
      BY <1>3, <2>1, <2>3 DEF registerAndDiscover
    <3> QED
      BY <2>1, <2>3, <3>1, <3>2, HandledCreate DEF Absent
  <2> QED
    BY <2>2, <2>3
<1>4. CASE addAttributes
  <2>1. CASE state = "started"
    <3>1. /\ time + 1 \in 1..MaxTime /\ time + 1 \notin uncalled
          /\ time + 1 \notin onAir \cup pending \cup {ad} /\ size' \in {"short", "long"}
      BY <1>0, <1>1, <1>4 DEF addAttributes, NodeOK
    <3>2. createAdvertisement(time + 1, size') /\ wanted' = time + 1 /\ state' = "started"
      BY <1>4, <2>1 DEF addAttributes
    <3> QED
      BY <3>1, <3>2, HandledCreate
  <2>2. CASE state # "started"
    <3>1. UNCHANGED <<ad, pending, onAir, uncalled, state>> /\ size' = "short" /\ wanted' = time + 1
      BY <1>4, <2>2 DEF addAttributes, adVars
    <3>2. wanted' \notin uncalled
      BY <1>0, <1>1, <3>1 DEF NodeOK
    <3> QED
      BY <2>2, <3>1, <3>2 DEF HandledInv, Handled, OnAirIsWanted
  <2> QED
    BY <2>1, <2>2
<1>5. CASE removeAttributes
  <2>1. /\ ad' = Absent /\ pending' = pending /\ uncalled' = uncalled \cup pending
        /\ onAir' = onAir \ {ad}
    BY <1>0, <1>5, Stopped DEF removeAttributes
  <2>2. wanted' = Absent /\ size' = "short" /\ state' = state /\ Absent \notin uncalled \cup pending
    BY <1>0, <1>5 DEF removeAttributes, NodeOK, Absent
  <2> QED
    BY <2>1, <2>2 DEF HandledInv, Handled, OnAirIsWanted
<1>6. CASE Advertised
  <2>1. PICK v \in pending : pending' = pending \ {v} /\ ad' = v /\ UNCHANGED <<onAir, uncalled>>
    BY <1>6 DEF Advertised, OnServiceRegistered
  <2>2. UNCHANGED <<wanted, size, state>>
    BY <1>6 DEF Advertised, nodeVars
  <2>3. Handled'
    <3>1. state = "started" /\ onAir \subseteq {ad} \cup pending \cup uncalled /\ Absent \notin onAir
      BY <1>0, <2>1 DEF HandledInv, Handled, NodeOK, Absent
    <3>2. (ad = Absent \/ ad \in uncalled) /\ v # Absent
      BY <1>0, <2>1 DEF HandledInv, Handled, NodeOK, Absent
    <3>3. CASE v \in uncalled
      BY <2>1, <2>2, <3>1, <3>2, <3>3 DEF HandledInv, Handled
    <3>4. CASE pending = {v} /\ v = wanted
      BY <2>1, <2>2, <3>1, <3>2, <3>4 DEF HandledInv, Handled
    <3> QED
      BY <2>1, <3>3, <3>4 DEF HandledInv, Handled
  <2> QED
    BY <2>1, <2>2, <2>3 DEF HandledInv, OnAirIsWanted
<1>7. CASE Crash
  <2>1. onAir' = {} /\ pending' = {} /\ ad' = Absent /\ state' = "none"
    BY <1>0, <1>7, Silenced DEF Crash
  <2> QED
    BY <2>1 DEF HandledInv, Handled, OnAirIsWanted
<1>8. CASE MqttMessage \/ serviceDown \/ serviceUp \/ Browsing \/ UNCHANGED vars
  <2>1. UNCHANGED <<ad, pending, onAir, uncalled, wanted, size, state>>
    BY <1>8 DEF MqttMessage, serviceDown, serviceUp, Browsing, NodeGoesOn, vars, nodeVars, adVars
  <2> QED
    BY <2>1 DEF HandledInv, Handled, OnAirIsWanted
<1> QED
  BY <1>2, <1>3, <1>4, <1>5, <1>6, <1>7, <1>8 DEF Next

(* The daemon answers for the value that is wanted, and for no other that  *)
(* was not replaced or removed before its callback came                    *)
(* (_createAdvertisements and _stopAdvertisements).                        *)
THEOREM WantedIsOnAir == Spec => []OnAirIsWanted
<1>1. HandledInv => OnAirIsWanted
  BY DEF HandledInv
<1> QED
  BY <1>1, TypeInitially, TypeStep, HandledInitially, HandledStep, PTL DEF Spec

(***************************************************************************)
(* What is still to be told                                                *)
(***************************************************************************)
LEMMA EventsEnd ==
  ASSUME NEW q \in Seq(Events), NEW op
  PROVE  /\ \A e \in Events : EndsWith(Append(q, e), e.op)
         /\ \A r \in Seq(Events) : EndsWith(r, op) => EndsWith(q \o r, op)
         /\ EndsWith(q, op) /\ (Tail(q) # <<>> \/ Head(q).op # op) => EndsWith(Tail(q), op)
<1>1. ASSUME NEW e \in Events PROVE EndsWith(Append(q, e), e.op)
  BY AppendProperties, EmptySeq DEF EndsWith
<1>2. ASSUME NEW r \in Seq(Events), EndsWith(r, op) PROVE EndsWith(q \o r, op)
  <2>1. Len(r) \in Nat /\ Len(r) # 0 /\ Len(q) \in Nat
    BY <1>2, EmptySeq, LenProperties DEF EndsWith
  <2>2. Len(q \o r) = Len(q) + Len(r) /\ q \o r # <<>> /\ (q \o r)[Len(q) + Len(r)] = r[Len(r)]
    BY <2>1, ConcatProperties
  <2> QED
    BY <1>2, <2>2 DEF EndsWith
<1>3. ASSUME EndsWith(q, op), Tail(q) # <<>> \/ Head(q).op # op PROVE EndsWith(Tail(q), op)
  <2>1. Len(q) \in Nat /\ Len(q) # 0 /\ q # <<>> /\ Head(q) = q[1] /\ q[Len(q)].op = op
    BY <1>3, EmptySeq, LenProperties, HeadTailProperties DEF EndsWith
  <2>2. Tail(q) \in Seq(Events) /\ Len(Tail(q)) = Len(q) - 1
    BY <2>1, HeadTailProperties
  <2>3. Len(q) \in Nat /\ Len(q) # 0
    BY <2>1
  <2>4. Len(q) > 1
    <3>1. ASSUME Len(q) = 1 PROVE FALSE
      <4>1. Head(q).op = op /\ Tail(q) = <<>>
        <5>1. Len(Tail(q)) = 0
          BY <2>2, <3>1
        <5> QED
          BY <2>1, <2>2, <3>1, <5>1, EmptySeq
      <4> QED
        BY <1>3, <4>1
    <3> QED
      BY <2>3, <3>1
  <2>5. Tail(q)[Len(q) - 1] = q[Len(q)]
    BY <2>1, <2>4, HeadTailProperties
  <2>6. Len(Tail(q)) = Len(q) - 1 /\ Len(Tail(q)) # 0
    <3>1. \A m \in Nat : m > 1 => m - 1 # 0
      OBVIOUS
    <3> QED
      BY <2>2, <2>3, <2>4, <3>1, Zenon
  <2>7. Tail(q) # <<>>
    BY <2>2, <2>6, EmptySeq
  <2>8. Tail(q)[Len(Tail(q))].op = op
    BY <2>1, <2>5, <2>6
  <2> QED
    BY <2>7, <2>8 DEF EndsWith
<1> QED
  BY <1>1, <1>2, <1>3

LEMMA ArrivalsEnd ==
  ASSUME NEW S \in SUBSET (1..MaxTime), S # {}
  PROVE  Arrivals(S) \in Seq(Events) /\ EndsWith(Arrivals(S), "up")
<1>1. IsFiniteSet(S) /\ Cardinality(S) \in Nat /\ Cardinality(S) # 0
  <2>1. IsFiniteSet(1..MaxTime)
    BY MdnsAssumption, FS_Interval
  <2> QED
    BY <2>1, FS_Subset, FS_CardinalityType, FS_EmptySet
<1> DEFINE e(k) == Up(SetToSeq(S)[k])
<1>2. \A k \in 1..Cardinality(S) : e(k).op = "up"
  BY DEF Up
<1>3. Arrivals(S) = [k \in 1..Cardinality(S) |-> e(k)]
  BY DEF Arrivals
<1>4. Arrivals(S) \in Seq(Events)
  BY ArrivalsAreEvents
<1> HIDE DEF e
<1>5. Len(Arrivals(S)) = Cardinality(S)
  BY <1>1, <1>3, <1>4, LenProperties
<1>6. Arrivals(S)[Cardinality(S)] = e(Cardinality(S)) /\ Cardinality(S) \in 1..Cardinality(S)
  BY <1>1, <1>3
<1> QED
  BY <1>1, <1>2, <1>4, <1>5, <1>6, EmptySeq DEF EndsWith

(* A step that changes what is on the air tells the running browsers of an *)
(* advertisement, or has left another one there, or took all away; unless  *)
(* advertisements overlapped.                                              *)
AirChange(S) ==
  /\ OnTheAir(S)
  /\ uncalled' = {} => uncalled = {} /\ (S = {} \/ S \ onAir # {})
  /\ mqttQ # <<>> => mqttQ' # <<>>
  /\ UNCHANGED <<own, service, resolving, timers, heard, late>>

LEMMA WatchedIfStarted ==
  ASSUME TypeInv, NEW b \in Browsers
  PROVE  Watched(service[b]) <=> service[b].started
BY DEF TypeInv, Counted, LivesOnce, Watched, MDNSService

LEMMA AirTells ==
  ASSUME TypeInv, NEW S \in SUBSET (1..MaxTime), OnTheAir(S), NEW b \in Browsers
  PROVE  /\ ~service[b].started => found'[b] = found[b]
         /\ found[b] # <<>> => found'[b] # <<>>
         /\ S \ onAir # {} /\ service[b].started
              => EndsWith(found'[b], "up") \/ (onAir # {} /\ found'[b] = found[b])
<1>1. PICK change \in Changes(S) :
        found' = [c \in Browsers |-> IF Watched(service[c]) THEN found[c] \o change ELSE found[c]]
  BY DEF OnTheAir
<1>2. /\ found'[b] = IF service[b].started THEN found[b] \o change ELSE found[b]
      /\ found[b] \in Seq(Events)
  BY <1>1, WatchedIfStarted DEF TypeInv, DiscoveryOK
<1>3. S \ onAir \in SUBSET (1..MaxTime) /\ <<Down>> \in Seq(Events) /\ <<>> \in Seq(Events)
  <2>1. <<Down>> \in Seq(Events) /\ <<>> \in Seq(Events)
    BY DEF Events
  <2> QED
    BY <2>1
<1>4. Arrivals(S \ onAir) \in Seq(Events)
  BY <1>3, ArrivalsAreEvents
<1>5. \/ change = <<>> /\ onAir # {}
      \/ \E went \in {<<>>, <<Down>>} : change = went \o Arrivals(S \ onAir)
  BY Zenon DEF Changes
<1>6. change \in Seq(Events)
  <2>1. \A went \in {<<>>, <<Down>>} : went \o Arrivals(S \ onAir) \in Seq(Events)
    BY <1>3, <1>4, ConcatProperties
  <2> QED
    BY <1>3, <1>5, <2>1
<1>7. found[b] # <<>> => found'[b] # <<>>
  BY <1>2, <1>6, ConcatEqualIffEmpty
<1>8. ASSUME S \ onAir # {}, service[b].started
      PROVE  EndsWith(found'[b], "up") \/ (onAir # {} /\ found'[b] = found[b])
  <2>1. EndsWith(Arrivals(S \ onAir), "up")
    BY <1>3, <1>8, ArrivalsEnd
  <2>2. \A went \in {<<>>, <<Down>>} : EndsWith(went \o Arrivals(S \ onAir), "up")
    BY <1>3, <1>4, <2>1, EventsEnd
  <2>3. CASE EndsWith(change, "up")
    BY <1>2, <1>6, <1>8, <2>3, EventsEnd
  <2>4. CASE change = <<>> /\ onAir # {}
    BY <1>2, <1>8, <2>4, ConcatEmptySeq
  <2> QED
    BY <1>5, <2>2, <2>3, <2>4
<1> QED
  BY <1>2, <1>7, <1>8

LEMMA AirSteps ==
  ASSUME TypeInv, HandledInv, registerAndDiscover \/ addAttributes \/ removeAttributes \/ Crash
  PROVE  \/ \E S \in SUBSET (1..MaxTime) : AirChange(S)
         \/ UNCHANGED <<own, uncalled, onAir, mqttQ, found, service, resolving, timers, heard, late>>
<1>0. /\ NodeOK /\ MaxTime \in Nat /\ onAir \in SUBSET (1..MaxTime)
      /\ onAir \subseteq {ad} \cup pending \cup uncalled
  BY MdnsAssumption DEF TypeInv, HandledInv, Handled, NodeOK
<1>1. \A e \in Events : Append(mqttQ, e) # <<>>
  BY <1>0, EventsEnd DEF NodeOK, EndsWith
<1>2. ASSUME NEW v \in 1..MaxTime, v \notin onAir, createAdvertisement(v, size'), publish(v),
             UNCHANGED <<own, service, resolving, timers, heard, late>>
      PROVE  \E S \in SUBSET (1..MaxTime) : AirChange(S)
  <2>1. Up(v) \in Events
    BY DEF Events
  <2>2. mqttQ # <<>> => mqttQ' # <<>>
    BY <1>1, <1>2, <2>1 DEF publish
  <2>3. CASE TXTRecordSetValue(size')
    <3> DEFINE S == (onAir \ {ad}) \cup {v}
    <3>1. OnTheAir(S) /\ uncalled' = uncalled \cup Overlapping({v})
      BY <1>2, <2>3 DEF createAdvertisement, DNSServiceRegister
    <3>2. S \in SUBSET (1..MaxTime) /\ S \ onAir # {}
      BY <1>0, <1>2
    <3> HIDE DEF S
    <3> QED
      BY <1>2, <2>2, <3>1, <3>2 DEF AirChange
  <2>4. CASE ~TXTRecordSetValue(size')
    <3>1. OnTheAir(onAir \ {ad}) /\ uncalled' = uncalled \cup pending
      BY <1>2, <2>4 DEF createAdvertisement
    <3>2. onAir \ {ad} \in SUBSET (1..MaxTime) /\ (uncalled' = {} => uncalled = {} /\ onAir \ {ad} = {})
      BY <1>0, <3>1
    <3> QED
      BY <1>2, <2>2, <3>1, <3>2 DEF AirChange
  <2> QED
    BY <2>3, <2>4
<1>3. CASE registerAndDiscover
  <2>1. UNCHANGED <<own, size, service, resolving, timers, heard, late>>
    BY <1>3 DEF registerAndDiscover, BrowsersGoOn, appVars
  <2>2. CASE wanted = Absent
    BY <1>3, <2>1, <2>2 DEF registerAndDiscover, adVars
  <2>3. CASE wanted # Absent
    <3>1. wanted \in 1..MaxTime /\ onAir = {}
      BY <1>0, <1>3, <2>3 DEF NodeOK, Absent, registerAndDiscover, HandledInv, Handled
    <3>2. createAdvertisement(wanted, size') /\ publish(wanted)
      BY <1>3, <2>1, <2>3 DEF registerAndDiscover
    <3> QED
      BY <1>2, <2>1, <3>1, <3>2
  <2> QED
    BY <2>2, <2>3
<1>4. CASE addAttributes
  <2>1. UNCHANGED <<own, service, resolving, timers, heard, late>>
    BY <1>4 DEF addAttributes, BrowsersGoOn, appVars
  <2>2. CASE state # "started"
    BY <1>4, <2>1, <2>2 DEF addAttributes, adVars
  <2>3. CASE state = "started"
    <3>1. time + 1 \in 1..MaxTime /\ time + 1 \notin onAir
      BY <1>0, <1>4 DEF NodeOK, addAttributes
    <3>2. createAdvertisement(time + 1, size') /\ publish(time + 1)
      BY <1>4, <2>3 DEF addAttributes
    <3> QED
      BY <1>2, <2>1, <3>1, <3>2
  <2> QED
    BY <2>2, <2>3
<1>5. CASE removeAttributes
  <2>1. /\ OnTheAir(onAir \ {ad}) /\ uncalled' = uncalled \cup pending
        /\ UNCHANGED <<own, service, resolving, timers, heard, late>>
    BY <1>5 DEF removeAttributes, stopAdvertisement, BrowsersGoOn, appVars
  <2>2. Down \in Events
    BY DEF Events
  <2>3. mqttQ # <<>> => mqttQ' # <<>>
    BY <1>1, <1>5, <2>2 DEF removeAttributes
  <2>4. onAir \ {ad} \in SUBSET (1..MaxTime) /\ (uncalled' = {} => uncalled = {} /\ onAir \ {ad} = {})
    BY <1>0, <2>1
  <2> QED
    BY <2>1, <2>3, <2>4 DEF AirChange
<1>6. CASE Crash
  <2>1. /\ OnTheAir({}) /\ uncalled' = uncalled
        /\ UNCHANGED <<own, service, resolving, timers, heard, late>>
    BY <1>6 DEF Crash, appVars
  <2>2. Down \in Events
    BY DEF Events
  <2>3. mqttQ # <<>> => mqttQ' # <<>>
    BY <1>1, <1>6, <2>2 DEF Crash
  <2> QED
    BY <2>1, <2>3 DEF AirChange
<1> QED
  BY <1>3, <1>4, <1>5, <1>6

LEMMA ToldInitially == Init => Told
<1> SUFFICES ASSUME Init PROVE Told
  OBVIOUS
<1>1. \A b \in Browsers : found[b] = <<>>
  BY DEF Init, MdnsInit
<1> QED
  BY <1>1 DEF Init, MdnsInit, Told, PublishedIfWanted, MqttTells, FoundTells, UpToCome, DownToCome,
     NoEvent

(* The MQTT registry of a started node has published what is wanted.       *)
LEMMA PublishedStep == TypeInv /\ PublishedIfWanted /\ [Next]_vars => PublishedIfWanted'
<1> SUFFICES ASSUME TypeInv, PublishedIfWanted, [Next]_vars PROVE PublishedIfWanted'
  OBVIOUS
<1>1. CASE make
  BY <1>1 DEF make, PublishedIfWanted
<1>2. CASE registerAndDiscover
  <2>1. state = "made" /\ state' = "started" /\ wanted' = wanted /\ published = Absent
    BY <1>2 DEF registerAndDiscover, PublishedIfWanted
  <2> QED
    BY <1>2, <2>1 DEF registerAndDiscover, publish, PublishedIfWanted
<1>3. CASE addAttributes
  <2>1. time + 1 # Absent /\ wanted' = time + 1 /\ state' = state /\ state # "none"
    BY <1>3 DEF addAttributes, TypeInv, NodeOK, Absent
  <2> QED
    BY <1>3, <2>1 DEF addAttributes, publish, PublishedIfWanted
<1>4. CASE removeAttributes
  BY <1>4 DEF removeAttributes, PublishedIfWanted
<1>5. CASE Crash
  BY <1>5 DEF Crash, PublishedIfWanted
<1>6. CASE Advertised \/ MqttMessage \/ serviceDown \/ serviceUp \/ Browsing \/ UNCHANGED vars
  <2>1. UNCHANGED <<state, wanted, published>>
    BY <1>6 DEF Advertised, MqttMessage, serviceDown, serviceUp, Browsing, NodeGoesOn, vars, nodeVars
  <2> QED
    BY <2>1 DEF PublishedIfWanted
<1> QED
  BY <1>1, <1>2, <1>3, <1>4, <1>5, <1>6 DEF Next

(* The last message of the broker is about what is published.              *)
LEMMA MqttStep == TypeInv /\ PublishedIfWanted /\ MqttTells /\ [Next]_vars => MqttTells'
<1> SUFFICES ASSUME TypeInv, PublishedIfWanted, MqttTells, [Next]_vars PROVE MqttTells'
  OBVIOUS
<1>0. /\ mqttQ \in Seq(Events) /\ orphan \in BOOLEAN
      /\ wanted \in 0..MaxTime /\ time \in Nat /\ MaxTime \in Nat
  BY MdnsAssumption DEF TypeInv, NodeOK
<1>1. ASSUME NEW e \in Events PROVE EndsWith(Append(mqttQ, e), e.op)
  BY <1>0, EventsEnd
<1>2. ASSUME NEW v \in 1..MaxTime, publish(v) PROVE MqttTells'
  <2>1. Up(v) \in Events /\ Up(v).op = "up" /\ v # Absent
    BY DEF Events, Up, Absent
  <2> QED
    BY <1>1, <1>2, <2>1 DEF publish, MqttTells, EndsWith
<1>3. CASE UNCHANGED <<mqttQ, published, orphan>>
  BY <1>3 DEF MqttTells, EndsWith
<1>4. Down \in Events /\ Down.op = "down"
  BY DEF Events, Down
<1>5. CASE registerAndDiscover
  <2>1. CASE wanted = Absent
    BY <1>3, <1>5, <2>1 DEF registerAndDiscover
  <2>2. CASE wanted # Absent
    <3>1. wanted \in 1..MaxTime
      BY <1>0, <2>2 DEF Absent
    <3> QED
      BY <1>2, <1>5, <2>2, <3>1 DEF registerAndDiscover
  <2> QED
    BY <2>1, <2>2
<1>6. CASE addAttributes
  <2>1. time + 1 \in 1..MaxTime
    BY <1>0, <1>6 DEF addAttributes
  <2> QED
    BY <1>2, <1>3, <1>6, <2>1 DEF addAttributes
<1>7. CASE removeAttributes
  BY <1>1, <1>4, <1>7 DEF removeAttributes, MqttTells, EndsWith
<1>8. CASE Crash
  <2>1. /\ published' = Absent /\ orphan' = (orphan \/ (kind = "custom" /\ published # Absent))
        /\ mqttQ' = IF kind = "status" /\ published # Absent THEN Append(mqttQ, Down) ELSE mqttQ
        /\ kind = "status" \/ kind = "custom"
    BY <1>8 DEF Crash, TypeInv, NodeOK
  <2>2. CASE kind = "status" /\ published # Absent
    BY <1>1, <1>4, <2>1, <2>2 DEF MqttTells
  <2>3. CASE kind = "custom" /\ published # Absent
    BY <2>1, <2>3 DEF MqttTells
  <2>4. CASE published = Absent
    BY <2>1, <2>4 DEF MqttTells, EndsWith
  <2> QED
    BY <2>1, <2>2, <2>3, <2>4
<1>9. CASE MqttMessage
  <2>1. mqttQ' = Tail(mqttQ) /\ UNCHANGED <<published, orphan>>
    BY <1>9 DEF MqttMessage, nodeVars
  <2>2. \A op : EndsWith(mqttQ, op) /\ Tail(mqttQ) # <<>> => EndsWith(Tail(mqttQ), op)
    BY <1>0, EventsEnd
  <2> QED
    BY <1>9, <2>1, <2>2 DEF MqttMessage, MqttTells
<1>10. CASE make \/ Advertised \/ serviceDown \/ serviceUp \/ Browsing \/ UNCHANGED vars
  BY <1>3, <1>10 DEF make, Advertised, serviceDown, serviceUp, Browsing, NodeGoesOn, vars, nodeVars
<1> QED
  BY <1>5, <1>6, <1>7, <1>8, <1>9, <1>10 DEF Next

(* A timer finds a browser to make.                                        *)
LEMMA BrowseMakes ==
  ASSUME Counted, browse
  PROVE  \E b \in Browsers : /\ service' = [service EXCEPT ![b] = start(DNSServiceBrowse(MDNSService))]
                              /\ found' = [found EXCEPT ![b] = Arrivals(onAir)]
                              /\ start(DNSServiceBrowse(MDNSService)).started
<1>1. Unmade # {}
  <2>1. Made \in SUBSET Browsers
    BY DEF Made
  <2>2. Cardinality(Made) \in Nat /\ Cardinality(Made) < Cardinality(Browsers)
    BY <2>1, BrowsersFinite, MdnsAssumption DEF Counted, browse
  <2>3. Unmade = Browsers \ Made
    BY DEF Unmade, Made
  <2>4. Unmade = {} => Made = Browsers
    BY <2>1, <2>3
  <2>5. Cardinality(Made) # Cardinality(Browsers)
    BY <2>2
  <2> QED
    BY <2>4, <2>5, Zenon
<1>2. start(DNSServiceBrowse(MDNSService)).started
  BY DEF start, DNSServiceBrowse, MDNSService, SocketWatcher_Start, SocketWatcher_Set
<1>3. Unmade \subseteq Browsers
  BY DEF Unmade
<1> QED
  BY <1>1, <1>2, <1>3, LeastUnmade DEF browse

(* Only browsers that run have something to report, and the last of it is  *)
(* what is on the air.                                                     *)
LEMMA FoundStep == TypeInv /\ HandledInv /\ FoundTells /\ [Next]_vars => FoundTells'
<1> SUFFICES ASSUME TypeInv, HandledInv, FoundTells, [Next]_vars PROVE FoundTells'
  OBVIOUS
<1>0. /\ found \in [Browsers -> Seq(Events)] /\ service \in [Browsers -> Services]
      /\ onAir \in SUBSET (1..MaxTime)
  BY MdnsAssumption DEF TypeInv, DiscoveryOK, Counted, NodeOK
<1>1. ASSUME UNCHANGED <<uncalled, onAir, found, service>> PROVE FoundTells'
  BY <1>1 DEF FoundTells
<1>2. ASSUME NEW S \in SUBSET (1..MaxTime), AirChange(S) PROVE FoundTells'
  <2> SUFFICES ASSUME NEW b \in Browsers, found'[b] # <<>>
               PROVE  /\ service'[b].started
                      /\ uncalled' = {} /\ onAir' # {} => EndsWith(found'[b], "up")
    BY DEF FoundTells
  <2>1. OnTheAir(S) /\ service' = service /\ onAir' = S
    BY <1>2 DEF AirChange, OnTheAir
  <2>2. service[b].started
    BY <2>1, AirTells DEF FoundTells
  <2>3. ASSUME uncalled' = {}, onAir' # {} PROVE EndsWith(found'[b], "up")
    <3>1. uncalled = {} /\ S \ onAir # {}
      BY <1>2, <2>1, <2>3 DEF AirChange
    <3>2. EndsWith(found'[b], "up") \/ (onAir # {} /\ found'[b] = found[b])
      BY <2>1, <2>2, <3>1, AirTells
    <3> QED
      BY <3>1, <3>2 DEF FoundTells
  <2> QED
    BY <2>1, <2>2, <2>3
<1>3. ASSUME NEW b \in Browsers, Error(b), UNCHANGED <<uncalled, onAir>> PROVE FoundTells'
  <2>1. /\ found'[b] = <<>>
        /\ \A c \in Browsers \ {b} : found'[c] = found[c] /\ service'[c] = service[c]
    BY <1>0, <1>3 DEF Error
  <2> QED
    BY <1>3, <2>1 DEF FoundTells
<1>4. ASSUME NEW b \in Browsers, found[b] # <<>>, found' = [found EXCEPT ![b] = Tail(@)],
             \A c \in Browsers : service'[c].started = service[c].started,
             UNCHANGED <<uncalled, onAir>>
      PROVE  FoundTells'
  <2>1. found'[b] = Tail(found[b]) /\ \A c \in Browsers \ {b} : found'[c] = found[c]
    BY <1>0, <1>4
  <2>2. EndsWith(found[b], "up") /\ Tail(found[b]) # <<>> => EndsWith(Tail(found[b]), "up")
    BY <1>0, EventsEnd
  <2> QED
    BY <1>4, <2>1, <2>2 DEF FoundTells
<1>5. CASE registerAndDiscover \/ addAttributes \/ removeAttributes \/ Crash
  BY <1>1, <1>2, <1>5, AirSteps
<1>6. CASE make \/ Advertised \/ MqttMessage \/ serviceUp \/ UNCHANGED vars
  <2>1. UNCHANGED <<uncalled, onAir, found, service>>
    BY <1>6 DEF make, Advertised, OnServiceRegistered, MqttMessage, serviceUp, OnAddressInfo,
       NodeGoesOn, vars, adVars, browserVars
  <2> QED
    BY <1>1, <2>1
<1>7. CASE serviceDown
  <2>1. PICK b \in Browsers : OnServiceRemoved(b)
    BY <1>7 DEF serviceDown
  <2>2. /\ found[b] # <<>> /\ found' = [found EXCEPT ![b] = Tail(@)] /\ service' = service
        /\ UNCHANGED <<uncalled, onAir>>
    BY <1>7, <2>1 DEF OnServiceRemoved, Reported, serviceDown, NodeGoesOn, adVars
  <2> QED
    BY <1>4, <2>2
<1>8. CASE Browsing
  <2>0. UNCHANGED <<uncalled, onAir>>
    BY <1>8 DEF Browsing, NodeGoesOn, adVars
  <2>1. CASE browse
    <3>1. PICK b \in Browsers :
            /\ service' = [service EXCEPT ![b] = start(DNSServiceBrowse(MDNSService))]
            /\ found' = [found EXCEPT ![b] = Arrivals(onAir)]
            /\ start(DNSServiceBrowse(MDNSService)).started
      BY <2>1, BrowseMakes DEF TypeInv
    <3>2. /\ found'[b] = Arrivals(onAir) /\ service'[b].started
          /\ \A c \in Browsers \ {b} : found'[c] = found[c] /\ service'[c] = service[c]
      BY <1>0, <3>1
    <3>3. onAir # {} => EndsWith(Arrivals(onAir), "up")
      BY <1>0, ArrivalsEnd
    <3> QED
      BY <2>0, <3>2, <3>3 DEF FoundTells
  <2>2. ASSUME NEW b \in Browsers, OnServiceAdded(b) PROVE FoundTells'
    <3>1. found[b] # <<>>
      BY <2>2 DEF OnServiceAdded, Reported
    <3>2. CASE Error(b)
      BY <1>3, <2>0, <3>2
    <3>3. CASE /\ found' = [found EXCEPT ![b] = Tail(@)]
               /\ service' = [service EXCEPT ![b].names = TRUE]
      <4>1. \A c \in Browsers : service'[c].started = service[c].started
        <5>1. \A c \in Browsers \ {b} : service'[c] = service[c]
          BY <1>0, <3>3
        <5>2. service'[b] = [service[b] EXCEPT !.names = TRUE] /\ service[b] \in Services
          BY <1>0, <3>3
        <5>3. \A x \in Services : [x EXCEPT !.names = TRUE].started = x.started
          BY DEF Services
        <5> QED
          BY <5>1, <5>2, <5>3
      <4> QED
        BY <1>4, <2>0, <3>1, <3>3, <4>1
    <3> QED
      BY <2>2, <3>2, <3>3 DEF OnServiceAdded
  <2>3. ASSUME NEW b \in Browsers, BrowserError(b) PROVE FoundTells'
    BY <1>3, <2>0, <2>3 DEF BrowserError
  <2>4. ASSUME NEW r \in resolving, OnResolve(r) \/ AddressError(r) PROVE FoundTells'
    <3>1. r.browser \in Browsers
      BY DEF TypeInv, DiscoveryOK, Resolutions
    <3>2. Error(r.browser) \/ UNCHANGED <<found, service>>
      BY <2>4 DEF OnResolve, AddressError
    <3> QED
      BY <1>1, <1>3, <2>0, <3>1, <3>2
  <2> QED
    BY <1>8, <2>1, <2>2, <2>3, <2>4 DEF Browsing
<1> QED
  BY <1>5, <1>6, <1>7, <1>8 DEF Next

(* A response to an event leaves the application with what it says.        *)
LEMMA EventIsHeard ==
  ASSUME EliminateDuplicates, TypeInv, Booked, NEW event \in Events, Respond(event)
  PROVE  heard'.op = "up" <=> event.op = "up"
<1>1. /\ event.value \in Nat /\ (event.op = "down" <=> event.value = 0) /\ event.op \in {"up", "down"}
      /\ Down.op = "down"
  BY DEF Events, Up, Down, Absent
<1>2. /\ discoveries \in Int /\ (discoveries = 0 => kind = "status")
      /\ kind = "status" \/ kind = "custom"
      /\ heard \in Events \cup {NoEvent} /\ Unknown = -1
  BY MdnsAssumption DEF TypeInv, NodeOK, DiscoveryOK, Unknown
<1>3. /\ heard.op = "none" \/ heard.op = "up" \/ heard.op = "down"
      /\ heard.op = "up" => heard.value \in Nat /\ heard.value # 0
  BY <1>2, MdnsAssumption DEF Events, Up, Down, NoEvent
<1>4. CASE kind = "custom" /\ event.op = "down"
  <2>1. respondToAttrRemovalEvent
    BY <1>4 DEF Respond
  <2>2. heard' = Down \/ (heard' = heard /\ discoveries = Unknown)
    BY <2>1 DEF respondToAttrRemovalEvent, Emit, Booked
  <2>3. discoveries = Unknown => heard.op # "up"
    BY <1>2, <1>3 DEF Booked
  <2> QED
    BY <1>1, <1>4, <2>2, <2>3
<1>5. CASE respondToDiscoveryEvent(event) /\ (event.op = "down" => kind = "status")
  <2>1. CASE ~isDuplicate(event.value)
    BY <1>5, <2>1 DEF respondToDiscoveryEvent, Emit
  <2>2. CASE isDuplicate(event.value)
    <3>1. heard' = heard \/ heard' = event
      BY <1>5 DEF respondToDiscoveryEvent, Emit
    <3>2. /\ discoveries # Unknown /\ event.value <= discoveries
          /\ event.value = 0 => discoveries = 0
      BY <2>2 DEF isDuplicate
    <3>3. CASE event.op = "up"
      <4>1. discoveries # 0
        BY <1>1, <1>2, <3>2, <3>3
      <4>2. heard.op = "up"
        BY <1>2, <1>3, <3>2, <4>1 DEF Booked
      <4> QED
        BY <3>1, <3>3, <4>2
    <3>4. CASE event.op = "down"
      <4>1. discoveries = 0
        BY <1>1, <3>2, <3>4
      <4>2. heard.op # "up"
        BY <1>3, <4>1 DEF Booked
      <4> QED
        BY <3>1, <3>4, <4>2
    <3> QED
      BY <1>1, <3>3, <3>4
  <2> QED
    BY <2>1, <2>2
<1> QED
  BY <1>1, <1>2, <1>4, <1>5 DEF Respond

(* What is on the air was published.                                       *)
LEMMA OnAirIsPublished ==
  ASSUME TypeInv, HandledInv, PublishedIfWanted, uncalled = {}, onAir # {}
  PROVE  published # Absent
<1>1. state = "started"
  BY DEF HandledInv, Handled
<1>2. onAir = IF size = "long" THEN {} ELSE {wanted} \ {Absent}
  BY <1>1 DEF HandledInv, OnAirIsWanted
<1> QED
  BY <1>1, <1>2 DEF PublishedIfWanted

(* Every way a discovery takes ends at the application, or leaves one that *)
(* does.                                                                   *)
LEMMA UpStep ==
  ASSUME EliminateDuplicates, TypeInv, HandledInv, Booked, Told, [Next]_vars
  PROVE  UpToCome'
<1>0. /\ found \in [Browsers -> Seq(Events)] /\ mqttQ \in Seq(Events)
      /\ resolving \subseteq Resolutions /\ timers \in Nat /\ onAir \in SUBSET (1..MaxTime)
  BY MdnsAssumption DEF TypeInv, DiscoveryOK, NodeOK, Counted
<1>1. CASE UNCHANGED <<own, uncalled, onAir, mqttQ, found, resolving, timers, heard>>
  BY <1>1 DEF Told, UpToCome, OnItsWay
<1>2. ASSUME NEW S \in SUBSET (1..MaxTime), AirChange(S), ~own', uncalled' = {}, onAir' # {}
      PROVE  heard'.op = "up" \/ OnItsWay'
  <2>1. /\ OnTheAir(S) /\ uncalled = {} /\ S \ onAir # {} /\ ~own
        /\ UNCHANGED <<service, resolving, timers, heard>> /\ (mqttQ # <<>> => mqttQ' # <<>>)
    BY <1>2 DEF AirChange, OnTheAir
  <2>2. CASE onAir # {}
    <3>1. heard.op = "up" \/ OnItsWay
      BY <2>1, <2>2 DEF Told, UpToCome
    <3>2. \A b \in Browsers : found[b] # <<>> => found'[b] # <<>>
      BY <2>1, AirTells
    <3> QED
      BY <2>1, <3>1, <3>2 DEF OnItsWay
  <2>3. CASE onAir = {} /\ Running # {}
    <3>1. PICK b \in Browsers : service[b].started
      BY <2>3 DEF Running
    <3>2. found'[b] # <<>>
      BY <2>1, <2>3, <3>1, AirTells DEF EndsWith
    <3> QED
      BY <3>2 DEF OnItsWay
  <2>4. CASE Running = {}
    <3>1. Cardinality(Running) = 0
      BY <2>4, FS_EmptySet
    <3>2. timers # 0
      BY <3>1, MdnsAssumption DEF TypeInv, Counted
    <3> QED
      BY <2>1, <3>2 DEF OnItsWay
  <2> QED
    BY <2>2, <2>3, <2>4
<1>3. CASE registerAndDiscover \/ addAttributes \/ removeAttributes \/ Crash
  <2>1. CASE \E S \in SUBSET (1..MaxTime) : AirChange(S)
    BY <1>2, <2>1 DEF UpToCome
  <2> QED
    BY <1>1, <1>3, <2>1, AirSteps
<1>4. CASE make \/ Advertised \/ UNCHANGED vars
  <2>1. UNCHANGED <<own, uncalled, onAir, mqttQ, found, resolving, timers, heard>>
    BY <1>4 DEF make, Advertised, OnServiceRegistered, vars, adVars, browserVars, appVars
  <2> QED
    BY <1>1, <2>1
<1>5. CASE MqttMessage
  <2> SUFFICES ASSUME uncalled = {}, onAir # {}
               PROVE  heard'.op = "up" \/ OnItsWay'
    BY <1>5 DEF MqttMessage, UpToCome, adVars
  <2>1. mqttQ # <<>> /\ mqttQ' = Tail(mqttQ) /\ Respond(Head(mqttQ)) /\ Head(mqttQ) \in Events
    BY <1>0, <1>5, HeadTailProperties DEF MqttMessage
  <2>2. CASE Head(mqttQ).op = "up"
    BY <2>1, <2>2, EventIsHeard
  <2>3. CASE Head(mqttQ).op # "up"
    <3>1. EndsWith(mqttQ, "up")
      BY <2>1, OnAirIsPublished DEF Told, MqttTells
    <3>2. EndsWith(Tail(mqttQ), "up")
      BY <1>0, <2>3, <3>1, EventsEnd
    <3> QED
      BY <2>1, <3>2 DEF EndsWith, OnItsWay
  <2> QED
    BY <2>2, <2>3
<1>6. CASE serviceDown
  <2> SUFFICES ASSUME uncalled = {}, onAir # {}
               PROVE  OnItsWay'
    BY <1>6 DEF serviceDown, NodeGoesOn, UpToCome, adVars
  <2>1. PICK b \in Browsers : OnServiceRemoved(b)
    BY <1>6 DEF serviceDown
  <2>2. found[b] # <<>> /\ Head(found[b]).op = "down" /\ found'[b] = Tail(found[b])
    BY <1>0, <2>1 DEF OnServiceRemoved, Reported
  <2>3. EndsWith(found[b], "up")
    BY <2>2 DEF Told, FoundTells
  <2>4. EndsWith(Tail(found[b]), "up")
    BY <1>0, <2>2, <2>3, EventsEnd
  <2> QED
    BY <2>2, <2>4 DEF EndsWith, OnItsWay
<1>7. CASE serviceUp
  <2> SUFFICES ASSUME ~own PROVE heard'.op = "up"
    BY <1>7 DEF serviceUp, NodeGoesOn, UpToCome
  <2>1. PICK r \in resolving : respondToDiscoveryEvent(Up(r.value))
    BY <1>7 DEF serviceUp
  <2>2. Up(r.value) \in Events /\ Up(r.value).op = "up"
    BY <1>0 DEF Resolutions, Events, Up
  <2>3. Respond(Up(r.value))
    BY <2>1, <2>2 DEF Respond
  <2> QED
    BY <2>2, <2>3, EventIsHeard
<1>8. CASE Browsing
  <2> SUFFICES ASSUME onAir # {} PROVE OnItsWay'
    BY <1>8 DEF Browsing, NodeGoesOn, UpToCome, adVars
  <2>1. ASSUME NEW b \in Browsers, Error(b) PROVE OnItsWay'
    <3>1. timers' = timers + 1
      BY <2>1 DEF Error
    <3> QED
      BY <1>0, <3>1 DEF OnItsWay
  <2>2. CASE browse
    <3>1. PICK b \in Browsers : found' = [found EXCEPT ![b] = Arrivals(onAir)]
      BY <2>2, BrowseMakes DEF TypeInv
    <3>2. found'[b] = Arrivals(onAir) /\ EndsWith(Arrivals(onAir), "up")
      BY <1>0, <3>1, ArrivalsEnd
    <3> QED
      BY <3>2 DEF EndsWith, OnItsWay
  <2>3. ASSUME NEW b \in Browsers, OnServiceAdded(b) PROVE OnItsWay'
    BY <2>3 DEF OnServiceAdded, DNSServiceResolve, OnItsWay
  <2>4. ASSUME NEW b \in Browsers, BrowserError(b) PROVE OnItsWay'
    BY <2>1, <2>4 DEF BrowserError
  <2>5. ASSUME NEW r \in resolving, OnResolve(r) \/ AddressError(r) PROVE OnItsWay'
    <3>1. r.browser \in Browsers
      BY <1>0 DEF Resolutions
    <3>2. Error(r.browser) \/ \E w \in onAir \cup {r.value} : DNSServiceGetAddrInfo(r, w)
      BY <2>5 DEF OnResolve, AddressError
    <3>3. (\E w \in onAir \cup {r.value} : DNSServiceGetAddrInfo(r, w)) => resolving' # {}
      BY DEF DNSServiceGetAddrInfo
    <3> QED
      BY <2>1, <3>1, <3>2, <3>3 DEF OnItsWay
  <2> QED
    BY <1>8, <2>2, <2>3, <2>4, <2>5 DEF Browsing
<1> QED
  BY <1>3, <1>4, <1>5, <1>6, <1>7, <1>8 DEF Next

(* What was published is taken back by the broker's last message.          *)
LEMMA DownStep ==
  ASSUME EliminateDuplicates, TypeInv, HandledInv, Booked, Told, [Next]_vars
  PROVE  DownToCome'
<1>0. /\ mqttQ \in Seq(Events) /\ resolving \subseteq Resolutions
      /\ kind = "status" \/ kind = "custom"
  BY DEF TypeInv, DiscoveryOK, NodeOK
<1>1. CASE UNCHANGED <<late, orphan, uncalled, published, heard, mqttQ>>
  BY <1>1 DEF Told, DownToCome
<1>2. \A e \in Events : Append(mqttQ, e) # <<>>
  BY <1>0, EventsEnd DEF EndsWith
<1>3. Down \in Events /\ Down.op = "down"
  BY DEF Events, Down
<1>4. CASE make \/ Advertised \/ Browsing \/ UNCHANGED vars
  <2>1. UNCHANGED <<late, orphan, uncalled, published, heard, mqttQ>>
    BY <1>4 DEF make, Advertised, OnServiceRegistered, Browsing, NodeGoesOn, vars, nodeVars, adVars, appVars
  <2> QED
    BY <1>1, <2>1
<1>5. CASE registerAndDiscover \/ addAttributes
  <2>1. ASSUME NEW v \in 1..MaxTime, publish(v) PROVE DownToCome'
    BY <2>1 DEF publish, DownToCome, Absent
  <2>2. CASE registerAndDiscover /\ wanted # Absent
    <3>1. wanted \in 1..MaxTime
      BY <2>2, MdnsAssumption DEF TypeInv, NodeOK, Absent
    <3> QED
      BY <2>1, <2>2, <3>1 DEF registerAndDiscover
  <2>3. CASE addAttributes /\ state = "started"
    <3>1. time + 1 \in 1..MaxTime
      BY <2>3, MdnsAssumption DEF addAttributes, TypeInv, NodeOK
    <3> QED
      BY <2>1, <2>3, <3>1 DEF addAttributes
  <2>4. CASE (registerAndDiscover /\ wanted = Absent) \/ (addAttributes /\ state # "started")
    <3>1. UNCHANGED <<late, orphan, uncalled, published, heard, mqttQ>>
      BY <2>4 DEF registerAndDiscover, addAttributes, adVars, appVars
    <3> QED
      BY <1>1, <3>1
  <2> QED
    BY <1>5, <2>2, <2>3, <2>4
<1>6. CASE removeAttributes
  <2>1. /\ UNCHANGED <<late, orphan, heard>> /\ uncalled' = uncalled \cup pending
        /\ mqttQ' = IF published # Absent THEN Append(mqttQ, Down) ELSE mqttQ
    BY <1>6 DEF removeAttributes, stopAdvertisement, appVars
  <2> QED
    BY <1>2, <1>3, <2>1 DEF Told, DownToCome
<1>7. CASE Crash
  <2>1. /\ UNCHANGED <<late, uncalled, heard>> /\ orphan' = (orphan \/ (kind = "custom" /\ published # Absent))
        /\ mqttQ' = IF kind = "status" /\ published # Absent THEN Append(mqttQ, Down) ELSE mqttQ
    BY <1>7 DEF Crash, appVars
  <2> QED
    BY <1>0, <1>2, <1>3, <2>1 DEF Told, DownToCome
<1>8. CASE MqttMessage
  <2>1. /\ mqttQ # <<>> /\ mqttQ' = Tail(mqttQ) /\ Respond(Head(mqttQ)) /\ Head(mqttQ) \in Events
        /\ UNCHANGED <<late, orphan, uncalled, published>>
    BY <1>0, <1>8, HeadTailProperties DEF MqttMessage, nodeVars, adVars
  <2>2. Head(mqttQ).op # "up" => heard'.op # "up"
    BY <2>1, EventIsHeard
  <2>3. ASSUME ~orphan, published = Absent, Head(mqttQ).op = "up" PROVE Tail(mqttQ) # <<>>
    <3>1. EndsWith(mqttQ, "down")
      BY <2>1, <2>3 DEF Told, MqttTells
    <3>2. EndsWith(Tail(mqttQ), "down")
      BY <1>0, <2>3, <3>1, EventsEnd
    <3> QED
      BY <3>2 DEF EndsWith
  <2> QED
    BY <2>1, <2>2, <2>3 DEF DownToCome
<1>9. CASE serviceDown
  <2>1. heard'.op # "up"
    BY <1>3, <1>9, EventIsHeard DEF serviceDown
  <2> QED
    BY <2>1 DEF DownToCome
<1>10. CASE serviceUp
  <2>1. CASE own
    <3>1. UNCHANGED <<late, orphan, uncalled, published, heard, mqttQ>>
      BY <1>10, <2>1 DEF serviceUp, NodeGoesOn, nodeVars, adVars, appVars
    <3> QED
      BY <1>1, <3>1
  <2>2. CASE ~own
    <3>1. PICK r \in resolving : late' = (late \/ r.value \notin onAir)
      BY <1>10, <2>2 DEF serviceUp
    <3>2. UNCHANGED <<uncalled, published>>
      BY <1>10 DEF serviceUp, NodeGoesOn, nodeVars, adVars
    <3>3. published = Absent /\ uncalled = {} => onAir = {}
      BY OnAirIsPublished DEF Told
    <3> QED
      BY <3>1, <3>2, <3>3 DEF DownToCome
  <2> QED
    BY <2>1, <2>2
<1> QED
  BY <1>4, <1>5, <1>6, <1>7, <1>8, <1>9, <1>10 DEF Next

(* The messages under way account for what the application has not heard.  *)
LEMMA TruthIfEliminated ==
  ASSUME EliminateDuplicates
  PROVE  Spec => []PresentWhenQuiet
<1> DEFINE Everything == TypeInv /\ HandledInv /\ Booked /\ Told
<1>1. Init => Everything
  BY TypeInitially, HandledInitially, BookedInitially, ToldInitially
<1>2. Everything /\ [Next]_vars => Everything'
  BY TypeStep, HandledStep, BookedStep, PublishedStep, MqttStep, FoundStep, UpStep, DownStep DEF Told
<1>3. Everything => PresentWhenQuiet
  <2> SUFFICES ASSUME Everything, Quiet, ~own, ~late, ~orphan, uncalled = {}, size = "short"
               PROVE  heard.op = "up" <=> wanted # Absent
    BY DEF PresentWhenQuiet
  <2>1. ~OnItsWay /\ mqttQ = <<>> /\ state # "made"
    BY DEF Quiet, OnItsWay
  <2>2. published # Absent <=> wanted # Absent
    BY <2>1 DEF Told, PublishedIfWanted, TypeInv, NodeOK
  <2>3. ASSUME wanted # Absent PROVE heard.op = "up"
    <3>1. state = "started"
      BY <2>2, <2>3 DEF Told, PublishedIfWanted
    <3>2. onAir = {wanted}
      BY <2>3, <3>1 DEF HandledInv, OnAirIsWanted
    <3> QED
      BY <2>1, <3>2 DEF Told, UpToCome
  <2>4. ASSUME wanted = Absent PROVE heard.op # "up"
    BY <2>1, <2>2, <2>4 DEF Told, DownToCome
  <2> QED
    BY <2>3, <2>4
<1> HIDE DEF Everything
<1> QED
  BY <1>1, <1>2, <1>3, PTL DEF Spec

(* When all messages have arrived, the application believes that the       *)
(* attribute of another node is there exactly when it is, whatever         *)
(* browsers and resolutions failed meanwhile and whichever protocol was    *)
(* faster; the exceptions are those the property names.                    *)
THEOREM TruthWhenQuiet == Spec => []PresentWhenQuiet
<1>1. CASE EliminateDuplicates
  BY <1>1, TruthIfEliminated
<1>2. CASE ~EliminateDuplicates
  <2>1. PresentWhenQuiet
    BY <1>2 DEF PresentWhenQuiet
  <2> QED
    BY <2>1, PTL
<1> QED
  BY <1>1, <1>2
=============================================================================
