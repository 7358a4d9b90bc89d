-------------------------- MODULE DataService_proofs --------------------------
(***************************************************************************)
(* Proofs for DataService: who connects has the whole address unless       *)
(* somebody looked between its two halves; what is logged is never mislaid *)
(* on its way to the server; and a broadcast variable gets the messages of *)
(* its channel in order, whatever the other threads do.                    *)
(***************************************************************************)
EXTENDS DataService, FiniteSetTheorems, SequenceTheorems, TLAPS

(***************************************************************************)
(* Sequences                                                               *)
(***************************************************************************)

LEMMA AppendElements ==
  ASSUME NEW S, NEW s \in Seq(S), NEW e \in S
  PROVE  Append(s, e) \in Seq(S) /\ Range(Append(s, e)) = Range(s) \cup {e}
<1>1. /\ Append(s, e) \in Seq(S) /\ Len(Append(s, e)) = Len(s) + 1 /\ Len(s) \in Nat
      /\ \A i \in 1..Len(s) : Append(s, e)[i] = s[i]
      /\ Append(s, e)[Len(s) + 1] = e
  BY AppendProperties, LenProperties
<1>2. Range(Append(s, e)) = {Append(s, e)[i] : i \in 1..(Len(s) + 1)}
  BY <1>1, RangeEquality
<1>3. Range(s) = {s[i] : i \in 1..Len(s)}
  BY RangeEquality
<1>4. 1..(Len(s) + 1) = (1..Len(s)) \cup {Len(s) + 1}
  BY <1>1
<1> QED
  BY <1>1, <1>2, <1>3, <1>4

LEMMA TailElements ==
  ASSUME NEW S, NEW s \in Seq(S), s # <<>>
  PROVE  /\ Head(s) \in S /\ Tail(s) \in Seq(S)
         /\ Range(s) = Range(Tail(s)) \cup {Head(s)}
<1>1. /\ Head(s) \in S /\ Tail(s) \in Seq(S) /\ Len(Tail(s)) = Len(s) - 1
      /\ \A i \in 1..Len(Tail(s)) : Tail(s)[i] = s[i + 1]
  BY HeadTailProperties
<1>2. Len(s) \in Nat /\ Len(s) > 0 /\ Head(s) = s[1]
  BY EmptySeq, LenProperties
<1>3. Range(s) = {s[i] : i \in 1..Len(s)} /\ Range(Tail(s)) = {Tail(s)[i] : i \in 1..Len(Tail(s))}
  BY <1>1, RangeEquality
<1>4. \A i \in 1..Len(s) : i = 1 \/ i - 1 \in 1..Len(Tail(s))
  BY <1>1, <1>2
<1>5. \A i \in 1..Len(Tail(s)) : i + 1 \in 1..Len(s)
  BY <1>1, <1>2
<1>6. \A i \in 1..Len(s) : s[i] = Head(s) \/ \E j \in 1..Len(Tail(s)) : s[i] = Tail(s)[j]
  BY <1>1, <1>2, <1>4
<1>7. \A j \in 1..Len(Tail(s)) : \E i \in 1..Len(s) : s[i] = Tail(s)[j]
  BY <1>1, <1>5
<1> QED
  BY <1>2, <1>3, <1>6, <1>7

LEMMA NoElements == Range(<<>>) = {}
<1> DEFINE s == <<>>
<1>1. s \in Seq({}) /\ Len(s) = 0 /\ 1..0 = {}
  OBVIOUS
<1>2. Range(s) = {s[i] : i \in 1..Len(s)}
  <2> HIDE DEF s
  <2> QED
    BY <1>1, RangeEquality
<1>3. 1..Len(s) = {}
  BY <1>1
<1>4. Range(s) = {}
  <2> HIDE DEF s
  <2> QED
    BY <1>2, <1>3
<1> QED
  BY <1>4

(***************************************************************************)
(* The address                                                             *)
(***************************************************************************)

Labels == {"check", "wait", "post", "connect", "loop", "flag", "first",
           "done", "failed", "over", "exit"}

(* The threads that have let the next one through.                         *)
Posted == {t \in Threads : pc[t] \notin {"check", "wait", "post"}}

ThreadTypes ==
  /\ pc \in [Threads -> Labels]
  /\ link \in [Threads -> {"none", "opening", "open", "closed"}]
  /\ early \subseteq Threads /\ halfway \subseteq Threads
  /\ redserver \in BOOLEAN /\ redport \in BOOLEAN
  /\ worker \in {"idle", "port"} /\ puts \in 0..MaxPuts
  /\ jdsem \in Nat

(* Every post of jdsem is that of an announcement or of a thread.          *)
PostsAreCounted ==
  jdsem + (IF worker = "port" THEN 1 ELSE 0) <= puts + Cardinality(Posted)

(* Before the port is there, only who came too early gets past jdsem.      *)
HeldBack ==
  early = {} /\ ~redport =>
    jdsem = 0 /\ halfway = {} /\ \A t \in Threads : pc[t] \in {"check", "wait"}

NotYetConnected ==
  \A t \in Threads : pc[t] \in {"check", "wait", "post", "connect"} => link[t] = "none"

AddressInv == ThreadTypes /\ PostsAreCounted /\ HeldBack /\ AddressIsWhole /\ NotYetConnected

Early == {"check", "wait", "post"}
Beyond == Labels \ Early

LEMMA PostedFinite == IsFiniteSet(Posted) /\ Cardinality(Posted) \in 0..Cardinality(Threads)
                      /\ Cardinality(Threads) \in Nat
<1>1. IsFiniteSet(Threads)
  BY DataServiceAssumption, FS_AddElement DEF Threads
<1>2. Posted \in SUBSET Threads
  BY DEF Posted
<1> QED
  BY <1>1, <1>2, FS_Subset, FS_CardinalityType

LEMMA InitialAddress == Init => AddressInv
<1> SUFFICES ASSUME Init
             PROVE  AddressInv
  OBVIOUS
<1>1. ThreadTypes
  <2>1. redserver \in BOOLEAN /\ redport \in BOOLEAN
    BY DEF Init
  <2>2. puts \in 0..MaxPuts
    BY DataServiceAssumption DEF Init
  <2> QED
    BY <2>1, <2>2 DEF Init, ThreadTypes, Labels
<1>2. PostsAreCounted
  BY PostedFinite DEF Init, PostsAreCounted
<1>3. HeldBack /\ AddressIsWhole /\ NotYetConnected
  BY DEF Init, HeldBack, AddressIsWhole, NotYetConnected
<1> QED
  BY <1>1, <1>2, <1>3 DEF AddressInv

(* What a thread does once it has let the next one through, and what       *)
(* happens to its connection then.                                         *)
LEMMA BeyondStep ==
  ASSUME AddressInv, NEW t \in Threads, NEW l \in Beyond,
         pc[t] \in Beyond, l # "connect",
         pc' = [pc EXCEPT ![t] = l] \/ pc' = pc,
         link' \in [Threads -> {"none", "opening", "open", "closed"}],
         \A u \in Threads : link'[u] # link[u] =>
             pc'[u] \notin {"check", "wait", "post", "connect"},
         UNCHANGED <<addrVars, jdsem, early, halfway>>
  PROVE  AddressInv'
<1>1. ThreadTypes /\ PostsAreCounted /\ HeldBack /\ AddressIsWhole /\ NotYetConnected
  BY DEF AddressInv
<1>2. /\ pc' \in [Threads -> Labels]
      /\ \A u \in Threads : pc'[u] \in Early <=> pc[u] \in Early
      /\ \A u \in Threads : pc'[u] # pc[u] => pc'[u] = l
  BY <1>1 DEF ThreadTypes, Beyond
<1>3. Posted' = Posted
  BY <1>2 DEF Posted, Early
<1>4. ThreadTypes'
  BY <1>1, <1>2 DEF ThreadTypes, addrVars
<1>5. PostsAreCounted'
  BY <1>1, <1>3 DEF PostsAreCounted, addrVars
<1>6. HeldBack' /\ AddressIsWhole'
  BY <1>1 DEF HeldBack, AddressIsWhole, addrVars, Beyond, Early
<1>7. NotYetConnected'
  BY <1>1, <1>2 DEF NotYetConnected, Beyond, Early
<1> QED
  BY <1>4, <1>5, <1>6, <1>7 DEF AddressInv

LEMMA AddressUnchanged ==
  ASSUME AddressInv, UNCHANGED <<addrVars, jdsem, pc, early, link, halfway>>
  PROVE  AddressInv'
BY DEF AddressInv, ThreadTypes, PostsAreCounted, HeldBack, AddressIsWhole, NotYetConnected,
       addrVars, Posted

LEMMA AnnounceStep ==
  ASSUME AddressInv, SetServer \/ SetPort
  PROVE  AddressInv'
<1>1. ThreadTypes /\ PostsAreCounted /\ HeldBack /\ AddressIsWhole /\ NotYetConnected
  BY DEF AddressInv
<1>2. Posted' = Posted /\ Cardinality(Posted) \in Nat
  BY PostedFinite DEF SetServer, SetPort, Posted
<1>3. CASE SetServer
  <2>1. ThreadTypes'
    <3>1. puts' \in 0..MaxPuts
      BY <1>1, <1>3, DataServiceAssumption DEF ThreadTypes, SetServer
    <3>2. redserver' \in BOOLEAN
      BY <1>3 DEF SetServer
    <3> QED
      BY <1>1, <1>3, <3>1, <3>2 DEF ThreadTypes, SetServer
  <2>2. PostsAreCounted'
    BY <1>1, <1>2, <1>3 DEF ThreadTypes, PostsAreCounted, SetServer
  <2> QED
    BY <1>1, <1>3, <2>1, <2>2
    DEF SetServer, AddressInv, HeldBack, AddressIsWhole, NotYetConnected
<1>4. CASE SetPort
  <2>1. ThreadTypes'
    <3>1. redport' \in BOOLEAN
      BY <1>4 DEF SetPort
    <3> QED
      BY <1>1, <1>4, <3>1 DEF ThreadTypes, SetPort
  <2>2. PostsAreCounted'
    BY <1>1, <1>2, <1>4 DEF ThreadTypes, PostsAreCounted, SetPort
  <2> QED
    BY <1>1, <1>4, <2>1, <2>2
    DEF SetPort, AddressInv, HeldBack, AddressIsWhole, NotYetConnected
<1> QED
  BY <1>3, <1>4

LEMMA CheckStep ==
  ASSUME AddressInv, NEW t \in Threads, Check(t)
  PROVE  AddressInv'
<1>1. ThreadTypes /\ PostsAreCounted /\ HeldBack /\ AddressIsWhole /\ NotYetConnected
  BY DEF AddressInv
<1>2. /\ pc[t] = "check" /\ pc' = [pc EXCEPT ![t] = IF redserver THEN "post" ELSE "wait"]
      /\ UNCHANGED <<redserver, redport, worker, puts, jdsem, link, halfway>>
      /\ early' = IF redserver /\ ~redport THEN early \cup {t} ELSE early
  BY DEF Check, Goto, addrVars
<1>3. ThreadTypes'
  BY <1>1, <1>2 DEF ThreadTypes, Labels
<1>4. Posted' = Posted
  BY <1>1, <1>2 DEF ThreadTypes, Posted
<1>5. PostsAreCounted'
  BY <1>1, <1>2, <1>4 DEF PostsAreCounted
<1>6. HeldBack' /\ AddressIsWhole'
  BY <1>1, <1>2 DEF ThreadTypes, HeldBack, AddressIsWhole
<1>7. NotYetConnected'
  BY <1>1, <1>2 DEF ThreadTypes, NotYetConnected
<1> QED
  BY <1>3, <1>5, <1>6, <1>7 DEF AddressInv

LEMMA WaitStep ==
  ASSUME AddressInv, NEW t \in Threads, Wait(t)
  PROVE  AddressInv'
<1>1. ThreadTypes /\ PostsAreCounted /\ HeldBack /\ AddressIsWhole /\ NotYetConnected
  BY DEF AddressInv
<1>2. /\ pc[t] = "wait" /\ jdsem > 0 /\ jdsem' = jdsem - 1
      /\ pc' = [pc EXCEPT ![t] = "post"]
      /\ UNCHANGED <<redserver, redport, worker, puts, early, link, halfway>>
  BY DEF Wait, Goto, addrVars
<1>3. ThreadTypes'
  BY <1>1, <1>2 DEF ThreadTypes, Labels
<1>4. Posted' = Posted /\ Cardinality(Posted) \in Nat
  BY <1>1, <1>2, PostedFinite DEF ThreadTypes, Posted
<1>5. PostsAreCounted'
  BY <1>1, <1>2, <1>4 DEF PostsAreCounted, ThreadTypes
<1>6. HeldBack' /\ AddressIsWhole'
  BY <1>1, <1>2 DEF ThreadTypes, HeldBack, AddressIsWhole
<1>7. NotYetConnected'
  BY <1>1, <1>2 DEF ThreadTypes, NotYetConnected
<1> QED
  BY <1>3, <1>5, <1>6, <1>7 DEF AddressInv

LEMMA PostStep ==
  ASSUME AddressInv, NEW t \in Threads, Post(t)
  PROVE  AddressInv'
<1>1. ThreadTypes /\ PostsAreCounted /\ HeldBack /\ AddressIsWhole /\ NotYetConnected
  BY DEF AddressInv
<1>2. /\ pc[t] = "post" /\ jdsem' = jdsem + 1
      /\ pc' = [pc EXCEPT ![t] = "connect"]
      /\ UNCHANGED <<redserver, redport, worker, puts, early, link, halfway>>
  BY DEF Post, Goto, addrVars
<1>3. ThreadTypes'
  BY <1>1, <1>2 DEF ThreadTypes, Labels
<1>4. Posted' = Posted \cup {t} /\ t \notin Posted
  BY <1>1, <1>2 DEF ThreadTypes, Posted
<1>5. Cardinality(Posted') = Cardinality(Posted) + 1 /\ Cardinality(Posted) \in Nat
  BY <1>4, PostedFinite, FS_AddElement
<1>6. PostsAreCounted'
  BY <1>1, <1>2, <1>5 DEF PostsAreCounted, ThreadTypes
<1>7. HeldBack' /\ AddressIsWhole'
  BY <1>1, <1>2 DEF ThreadTypes, HeldBack, AddressIsWhole
<1>8. NotYetConnected'
  BY <1>1, <1>2 DEF ThreadTypes, NotYetConnected
<1> QED
  BY <1>3, <1>6, <1>7, <1>8 DEF AddressInv

LEMMA ConnectStep ==
  ASSUME AddressInv, NEW t \in Threads, Connect(t)
  PROVE  AddressInv'
<1>1. ThreadTypes /\ PostsAreCounted /\ HeldBack /\ AddressIsWhole /\ NotYetConnected
  BY DEF AddressInv
<1>2. /\ pc[t] = "connect" /\ link' = [link EXCEPT ![t] = "opening"]
      /\ halfway' = IF redport THEN halfway ELSE halfway \cup {t}
      /\ pc' = [pc EXCEPT ![t] = IF t = Logger THEN "loop" ELSE "flag"]
      /\ UNCHANGED <<redserver, redport, worker, puts, early, jdsem>>
  BY DEF Connect, Goto, addrVars
<1>3. ThreadTypes'
  BY <1>1, <1>2 DEF ThreadTypes, Labels
<1>4. Posted' = Posted
  BY <1>1, <1>2 DEF ThreadTypes, Posted
<1>5. PostsAreCounted'
  BY <1>1, <1>2, <1>4 DEF PostsAreCounted
<1>6. HeldBack' /\ AddressIsWhole'
  BY <1>1, <1>2 DEF ThreadTypes, HeldBack, AddressIsWhole
<1>7. NotYetConnected'
  BY <1>1, <1>2 DEF ThreadTypes, NotYetConnected
<1> QED
  BY <1>3, <1>5, <1>6, <1>7 DEF AddressInv

(***************************************************************************)
(* The log                                                                 *)
(***************************************************************************)

Entries == [time : Nat \ {0}, null : BOOLEAN, meant : Int, val : Int]

LogTypes ==
  /\ logged \in Seq(Entries) /\ dataoutq \in Seq(Entries)
  /\ writing \in Seq(Entries \cup {Dummy}) /\ Len(writing) <= 1
  /\ reply \in {"none", "ok", "error", "null"}

(* An item's time is its place in the log: it comes once.                  *)
TimesAreUsed == \A x \in Range(logged) : x.time <= Len(logged)
EachOnce == \A i, j \in 1..Len(dataoutq) : dataoutq[i] = dataoutq[j] => i = j

(* A reply is about the item under way.                                    *)
RepliesAreTrue ==
  /\ reply \in {"ok", "error"} => Range(writing) \subseteq stored \cup dropped
  /\ reply = "null" => link[Logger] = "closed"

LoggerIdle ==
  pc[Logger] \in {"check", "wait", "post", "connect"} => reply = "none" /\ writing = <<>>

LogInv == LogTypes /\ TimesAreUsed /\ EachOnce /\ RepliesAreTrue /\ LoggerIdle /\ NothingMislaid

LEMMA AddressPreserved == AddressInv /\ LogInv /\ [Next]_vars => AddressInv'
<1> SUFFICES ASSUME AddressInv, LogInv, [Next]_vars
             PROVE  AddressInv'
  OBVIOUS
<1>1. ThreadTypes /\ NotYetConnected
  BY DEF AddressInv
<1>2. CASE SetServer \/ SetPort
  BY <1>2, AnnounceStep
<1>3. CASE \E t \in Threads : Starting(t)
  BY <1>3, CheckStep, WaitStep, PostStep, ConnectStep DEF Starting
<1>4. ASSUME NEW t \in Threads, ConnectFails(t)
      PROVE  AddressInv'
  <2>1. /\ pc[t] = "connect" /\ UNCHANGED <<addrVars, jdsem, early, link, halfway>>
        /\ \E l \in {"exit", "failed"} : pc' = [pc EXCEPT ![t] = l]
    BY <1>4 DEF ConnectFails, Goto
  <2>2. "exit" \in Beyond /\ "failed" \in Beyond /\ "connect" \in Beyond
    BY DEF Beyond, Labels, Early
  <2>3. link' \in [Threads -> {"none", "opening", "open", "closed"}]
    BY <1>1, <2>1 DEF ThreadTypes
  <2> QED
    BY <2>1, <2>2, <2>3, BeyondStep
<1>5. ASSUME NEW t \in Threads, Opened(t) \/ Closed(t)
      PROVE  AddressInv'
  <2>1. /\ link[t] \in {"opening", "open"} /\ UNCHANGED <<addrVars, jdsem, pc, early, halfway>>
        /\ \E k \in {"open", "closed"} : link' = [link EXCEPT ![t] = k]
    BY <1>5 DEF Opened, Closed
  <2>2. pc[t] \in Beyond /\ pc[t] # "connect"
    BY <1>1, <2>1 DEF ThreadTypes, NotYetConnected, Beyond, Early
  <2>3. /\ link' \in [Threads -> {"none", "opening", "open", "closed"}]
        /\ \A u \in Threads : link'[u] # link[u] =>
               pc'[u] \notin {"check", "wait", "post", "connect"}
    BY <1>1, <2>1, <2>2 DEF ThreadTypes, Beyond, Early
  <2>4. pc' = pc
    BY <2>1
  <2> QED
    BY <2>1, <2>2, <2>3, <2>4, BeyondStep
<1>6. CASE (\E form \in Forms, v \in Values : Log(form, v)) \/ Store
  BY <1>6, AddressUnchanged DEF Log, Store
<1>7. CASE jamdata_logger_cb
  <2>1. /\ UNCHANGED <<addrVars, jdsem, early, link, halfway>>
        /\ (\E l \in {"over", "exit"} : pc' = [pc EXCEPT ![Logger] = l]) \/ pc' = pc
    BY <1>7 DEF jamdata_logger_cb, Goto
  <2>2. Logger \in Threads /\ "over" \in Beyond /\ "exit" \in Beyond
    BY DEF Threads, Beyond, Labels, Early
  <2>3. link' \in [Threads -> {"none", "opening", "open", "closed"}]
    BY <1>1, <2>1 DEF ThreadTypes
  <2>4. pc[Logger] \in Beyond
    BY <1>1, <1>7, <2>2 DEF LogInv, LoggerIdle, jamdata_logger_cb, ThreadTypes, Beyond, Early
  <2>5. "over" # "connect" /\ "exit" # "connect" /\ \A u \in Threads : link'[u] = link[u]
    BY <2>1
  <2> QED
    BY <2>1, <2>2, <2>3, <2>4, <2>5, BeyondStep
<1>8. ASSUME NEW c \in Casters, Running(c)
      PROVE  AddressInv'
  <2>1. /\ UNCHANGED <<addrVars, jdsem, early, link, halfway>>
        /\ pc[c] \in {"flag", "first", "loop"}
        /\ \E l \in {"done", "first", "loop"} : pc' = [pc EXCEPT ![c] = l]
    BY <1>8 DEF Running, ReadFlag, Dispatch, LoopEnds, Goto
  <2>2. c \in Threads /\ pc[c] \in Beyond /\ \A l \in {"done", "first", "loop"} : l \in Beyond
    BY <2>1 DEF Threads, Beyond, Labels, Early
  <2>3. link' \in [Threads -> {"none", "opening", "open", "closed"}]
    BY <1>1, <2>1 DEF ThreadTypes
  <2> QED
    BY <2>1, <2>2, <2>3, BeyondStep
<1>9. CASE \E c \in Casters : Broadcast(c) \/ jambcast_recv_callback(c)
  BY <1>9, AddressUnchanged DEF Broadcast, jambcast_recv_callback
<1>10. CASE UNCHANGED vars
  BY <1>10, AddressUnchanged DEF vars
<1> QED
  BY <1>2, <1>3, <1>4, <1>5, <1>6, <1>7, <1>8, <1>9, <1>10 DEF Next

LEMMA InitialLog == Init => LogInv
<1> SUFFICES ASSUME Init
             PROVE  LogInv
  OBVIOUS
<1>1. /\ logged = <<>> /\ dataoutq = <<>> /\ writing = <<>> /\ reply = "none"
      /\ stored = {} /\ dropped = {}
  BY DEF Init
<1>2. \A S : <<>> \in Seq(S) /\ Len(<<>>) = 0
  OBVIOUS
<1>3. Range(<<>>) = {}
  BY NoElements
<1>4. LogTypes
  BY <1>1, <1>2 DEF LogTypes
<1>5. TimesAreUsed /\ EachOnce /\ RepliesAreTrue /\ NothingMislaid
  BY <1>1, <1>2, <1>3 DEF TimesAreUsed, EachOnce, RepliesAreTrue, NothingMislaid
<1> QED
  BY <1>1, <1>4, <1>5 DEF LogInv, LoggerIdle

LEMMA ItemIsEntry ==
  ASSUME NEW form \in Forms, NEW v \in Values, logged \in Seq(Entries)
  PROVE  Item(form, v) \in Entries /\ Item(form, v).time = Len(logged) + 1
<1>1. v \in Int /\ Half \in Int /\ Len(logged) \in Nat
  BY DataServiceAssumption, LenProperties
<1>2. AsUnsigned(v) \in Int /\ AsMagnitude(v) \in Int
  BY <1>1 DEF AsUnsigned, AsMagnitude
<1>3. Len(logged) + 1 \in Nat \ {0}
  BY <1>1
<1> QED
  BY <1>1, <1>2, <1>3 DEF Item, Entries

LEMMA DummyIsNoEntry == Dummy \notin Entries
<1>1. Dummy.time = 0
  BY DEF Dummy
<1>2. \A x \in Entries : x.time # 0
  BY DEF Entries
<1> QED
  BY <1>1, <1>2

LEMMA RangesOfEntries ==
  ASSUME NEW S, NEW s \in Seq(S)
  PROVE  Range(s) \subseteq S
<1>1. Range(s) = {s[i] : i \in 1..Len(s)} /\ \A i \in 1..Len(s) : s[i] \in S
  BY RangeEquality, ElementOfSeq
<1> QED
  BY <1>1

LEMMA NewItem ==
  ASSUME LogInv, NEW form \in Forms, NEW v \in Values, Log(form, v)
  PROVE  LogInv'
<1> DEFINE e == Item(form, v)
<1>1. LogTypes /\ TimesAreUsed /\ EachOnce /\ RepliesAreTrue /\ LoggerIdle /\ NothingMislaid
  BY DEF LogInv
<1>2. /\ logged' = Append(logged, e) /\ dataoutq' = Append(dataoutq, e)
      /\ UNCHANGED <<writing, reply, stored, dropped, pc, link>>
  BY DEF Log
<1>3. logged \in Seq(Entries) /\ dataoutq \in Seq(Entries) /\ Len(logged) \in Nat
  BY <1>1, LenProperties DEF LogTypes
<1>4. e \in Entries /\ e.time = Len(logged) + 1
  BY <1>3, ItemIsEntry
<1>5. /\ Range(logged') = Range(logged) \cup {e} /\ logged' \in Seq(Entries)
      /\ Range(dataoutq') = Range(dataoutq) \cup {e} /\ dataoutq' \in Seq(Entries)
  BY <1>2, <1>3, <1>4, AppendElements
<1>6. Len(logged') = Len(logged) + 1
  BY <1>2, <1>3, <1>4, AppendProperties
<1>7. \A x \in Range(logged) : x.time \in Nat /\ x.time <= Len(logged)
  <2>1. Range(logged) \subseteq Entries
    BY <1>3, RangesOfEntries
  <2> QED
    BY <1>1, <2>1 DEF TimesAreUsed, Entries
<1>8. e \notin Range(logged) /\ e # Dummy
  BY <1>3, <1>4, <1>7, DummyIsNoEntry
<1>9. TimesAreUsed'
  BY <1>3, <1>4, <1>5, <1>6, <1>7 DEF TimesAreUsed
<1>10. EachOnce'
  <2>1. /\ Len(dataoutq) \in Nat /\ Len(dataoutq') = Len(dataoutq) + 1
        /\ \A i \in 1..Len(dataoutq) : dataoutq'[i] = dataoutq[i]
        /\ dataoutq'[Len(dataoutq) + 1] = e
    BY <1>2, <1>3, <1>4, AppendProperties, LenProperties
  <2>2. \A i \in 1..Len(dataoutq) : dataoutq[i] # e
    <3>1. Range(dataoutq) = {dataoutq[i] : i \in 1..Len(dataoutq)}
      BY <1>3, RangeEquality
    <3>2. Range(dataoutq) \subseteq Range(logged)
      <4>1. Range(dataoutq) \subseteq Entries
        BY <1>3, RangesOfEntries
      <4> QED
        BY <1>1, <4>1, DummyIsNoEntry DEF NothingMislaid
    <3> QED
      BY <1>8, <3>1, <3>2
  <2>3. \A i \in 1..Len(dataoutq') : i \in 1..Len(dataoutq) \/ i = Len(dataoutq) + 1
    BY <2>1
  <2> QED
    BY <1>1, <2>1, <2>2, <2>3 DEF EachOnce
<1>11. NothingMislaid'
  <2>1. e \notin stored \cup dropped \cup Range(writing)
    BY <1>1, <1>8 DEF NothingMislaid
  <2>2. Range(writing') = Range(writing)
    BY <1>2
  <2> QED
    BY <1>1, <1>2, <1>5, <1>8, <2>1, <2>2 DEF NothingMislaid
<1>12. LogTypes' /\ RepliesAreTrue' /\ LoggerIdle'
  BY <1>1, <1>2, <1>5 DEF LogTypes, RepliesAreTrue, LoggerIdle
<1> QED
  BY <1>9, <1>10, <1>11, <1>12 DEF LogInv

LEMMA StoreStep ==
  ASSUME LogInv, Store
  PROVE  LogInv'
<1>1. LogTypes /\ TimesAreUsed /\ EachOnce /\ RepliesAreTrue /\ LoggerIdle /\ NothingMislaid
  BY DEF LogInv
<1>2. /\ writing # <<>> /\ link[Logger] = "open"
      /\ UNCHANGED <<logged, dataoutq, writing, pc, link>>
      /\ \/ stored' = stored \cup {Head(writing)} /\ reply' = "ok" /\ dropped' = dropped
         \/ dropped' = dropped \cup {Head(writing)} /\ reply' = "error" /\ stored' = stored
  BY DEF Store
<1>3. Range(writing) = {Head(writing)}
  <2>1. writing \in Seq(Entries \cup {Dummy}) /\ Len(writing) <= 1
    BY <1>1 DEF LogTypes
  <2>2. Len(writing) \in Nat /\ Len(writing) # 0 /\ Head(writing) = writing[1]
    BY <1>2, <2>1, EmptySeq, LenProperties
  <2>3. Range(writing) = {writing[i] : i \in 1..Len(writing)} /\ 1..Len(writing) = {1}
    BY <2>1, <2>2, RangeEquality
  <2> QED
    BY <2>2, <2>3
<1>4. LogTypes'
  BY <1>1, <1>2 DEF LogTypes
<1>5. RepliesAreTrue'
  BY <1>2, <1>3 DEF RepliesAreTrue
<1>6. NothingMislaid'
  BY <1>1, <1>2, <1>3 DEF NothingMislaid
<1>7. TimesAreUsed' /\ EachOnce'
  BY <1>1, <1>2 DEF TimesAreUsed, EachOnce
<1>8. LoggerIdle'
  BY <1>1, <1>2 DEF LoggerIdle
<1> QED
  BY <1>4, <1>5, <1>6, <1>7, <1>8 DEF LogInv

LEMMA SingletonSeq ==
  ASSUME NEW S, NEW x \in S
  PROVE  <<x>> \in Seq(S) /\ Range(<<x>>) = {x} /\ Len(<<x>>) = 1
<1>1. <<x>> \in Seq(S) /\ Len(<<x>>) = 1 /\ <<x>>[1] = x
  OBVIOUS
<1>2. Range(<<x>>) = {<<x>>[i] : i \in 1..1}
  BY <1>1, RangeEquality
<1> QED
  BY <1>1, <1>2

LEMMA NextItem ==
  ASSUME LogInv, jamdata_logger_cb, pc \in [Threads -> Labels]
  PROVE  LogInv'
<1>1. LogTypes /\ TimesAreUsed /\ EachOnce /\ RepliesAreTrue /\ LoggerIdle /\ NothingMislaid
  BY DEF LogInv
<1>2. /\ reply # "none" /\ dataoutq # <<>> /\ dataoutq' = Tail(dataoutq) /\ reply' = "none"
      /\ UNCHANGED <<logged, stored, link>>
  BY DEF jamdata_logger_cb
<1>3. dataoutq \in Seq(Entries)
  BY <1>1 DEF LogTypes
<1>4. /\ Head(dataoutq) \in Entries /\ dataoutq' \in Seq(Entries)
      /\ Range(dataoutq) = Range(dataoutq') \cup {Head(dataoutq)}
  BY <1>2, <1>3, TailElements
<1>5. /\ Len(dataoutq) \in Nat /\ Len(dataoutq') = Len(dataoutq) - 1 /\ Len(dataoutq) > 0
      /\ \A i \in 1..Len(dataoutq') : dataoutq'[i] = dataoutq[i + 1]
      /\ Head(dataoutq) = dataoutq[1]
  BY <1>2, <1>3, HeadTailProperties, LenProperties, EmptySeq
<1>6. \A i \in 1..Len(dataoutq') : i + 1 \in 1..Len(dataoutq) /\ i + 1 # 1
  BY <1>5
<1>7. EachOnce'
  BY <1>1, <1>5, <1>6 DEF EachOnce
<1>8. Head(dataoutq) \notin Range(dataoutq')
  <2>1. Range(dataoutq') = {dataoutq'[i] : i \in 1..Len(dataoutq')}
    BY <1>4, RangeEquality
  <2>2. 1 \in 1..Len(dataoutq)
    BY <1>5
  <2> QED
    BY <1>1, <1>5, <1>6, <2>1, <2>2 DEF EachOnce
<1>9. TimesAreUsed'
  BY <1>1, <1>2 DEF TimesAreUsed
<1>10. Head(dataoutq) # Dummy
  BY <1>4, DummyIsNoEntry
<1>11. <<Head(dataoutq)>> \in Seq(Entries \cup {Dummy}) /\ Len(<<Head(dataoutq)>>) = 1
       /\ Range(<<Head(dataoutq)>>) = {Head(dataoutq)}
  BY <1>4, SingletonSeq
<1> DEFINE sent == link[Logger] = "open" /\ ~Head(dataoutq).null
<1>12. CASE sent
  <2>1. writing' = <<Head(dataoutq)>> /\ dropped' = dropped /\ pc' = pc
    BY <1>12 DEF jamdata_logger_cb
  <2>2. Range(writing) \subseteq stored \cup dropped
    BY <1>1, <1>2, <1>12 DEF LogTypes, RepliesAreTrue
  <2>3. Range(writing') = {Head(dataoutq)}
    BY <1>11, <2>1
  <2>4. NothingMislaid'
    BY <1>1, <1>2, <1>4, <1>8, <2>1, <2>2, <2>3 DEF NothingMislaid
  <2>5. LogTypes'
    BY <1>1, <1>2, <1>4, <1>11, <2>1 DEF LogTypes
  <2>6. RepliesAreTrue' /\ LoggerIdle'
    BY <1>1, <1>2, <2>1 DEF RepliesAreTrue, LoggerIdle
  <2> QED
    BY <1>7, <1>9, <2>4, <2>5, <2>6 DEF LogInv
<1>13. CASE ~sent
  <2>1. /\ writing' = <<>> /\ \E l \in {"over", "exit"} : pc' = [pc EXCEPT ![Logger] = l]
        /\ dropped' = dropped \cup {Head(dataoutq)} \cup (Range(writing) \ stored)
    BY <1>13 DEF jamdata_logger_cb, Goto
  <2>2. <<>> \in Seq(Entries \cup {Dummy}) /\ Len(<<>>) = 0
    OBVIOUS
  <2>3. Range(writing') = {}
    BY <2>1, NoElements
  <2>4. NothingMislaid'
    BY <1>1, <1>2, <1>4, <1>8, <2>1, <2>3 DEF NothingMislaid
  <2>5. LogTypes'
    BY <1>1, <1>2, <1>4, <2>1, <2>2 DEF LogTypes
  <2>6. pc'[Logger] \in {"over", "exit"}
    BY <2>1 DEF Threads
  <2>7. RepliesAreTrue' /\ LoggerIdle'
    BY <1>2, <2>6 DEF RepliesAreTrue, LoggerIdle
  <2> QED
    BY <1>7, <1>9, <2>4, <2>5, <2>7 DEF LogInv
<1> QED
  BY <1>12, <1>13

(* The other steps leave the log alone; the logger's own connection and    *)
(* its way to it may change.                                               *)
LEMMA LogUnchanged ==
  ASSUME LogInv, UNCHANGED logVars,
         link[Logger] = "closed" => link'[Logger] = "closed",
         pc'[Logger] \in {"check", "wait", "post", "connect"} =>
             pc[Logger] \in {"check", "wait", "post", "connect"}
  PROVE  LogInv'
<1>1. UNCHANGED <<logged, dataoutq, writing, reply, stored, dropped>>
  BY DEF logVars
<1>2. LogTypes' /\ TimesAreUsed' /\ EachOnce' /\ NothingMislaid'
  BY <1>1 DEF LogInv, LogTypes, TimesAreUsed, EachOnce, NothingMislaid
<1>3. RepliesAreTrue' /\ LoggerIdle'
  BY <1>1 DEF LogInv, RepliesAreTrue, LoggerIdle
<1> QED
  BY <1>2, <1>3 DEF LogInv

LEMMA ConnectionOfTheLogger ==
  ASSUME AddressInv, LogInv, Connect(Logger) \/ Closed(Logger)
  PROVE  LogInv'
<1>1. LogTypes /\ TimesAreUsed /\ EachOnce /\ RepliesAreTrue /\ LoggerIdle /\ NothingMislaid
  BY DEF LogInv
<1>2. ThreadTypes /\ NotYetConnected
  BY DEF AddressInv
<1>3. UNCHANGED <<logged, dataoutq, stored, dropped>> /\ Logger \in Threads
  BY DEF Connect, Closed, Threads
<1>4. TimesAreUsed' /\ EachOnce'
  BY <1>1, <1>3 DEF TimesAreUsed, EachOnce
<1>5. CASE Connect(Logger)
  <2>1. /\ writing' = <<Dummy>> /\ UNCHANGED reply /\ pc[Logger] = "connect"
        /\ pc' = [pc EXCEPT ![Logger] = "loop"]
    BY <1>5 DEF Connect, Goto
  <2>2. writing = <<>> /\ reply = "none"
    BY <1>1, <2>1 DEF LoggerIdle
  <2>3. <<Dummy>> \in Seq(Entries \cup {Dummy}) /\ Range(<<Dummy>>) = {Dummy} /\ Len(<<Dummy>>) = 1
    BY SingletonSeq
  <2>5. Range(writing) = {}
    BY <2>2, NoElements
  <2>6. LogTypes'
    BY <1>1, <1>3, <2>1, <2>3 DEF LogTypes
  <2>7. Dummy \notin Range(dataoutq)
    BY <1>1, DummyIsNoEntry, RangesOfEntries DEF LogTypes
  <2>8. Range(writing') = {Dummy}
    BY <2>1, <2>3
  <2>9. NothingMislaid'
    BY <1>1, <1>3, <2>5, <2>7, <2>8 DEF NothingMislaid
  <2>10. pc'[Logger] = "loop"
    BY <1>2, <1>3, <2>1 DEF ThreadTypes
  <2>11. RepliesAreTrue' /\ LoggerIdle'
    BY <2>1, <2>2, <2>10 DEF RepliesAreTrue, LoggerIdle
  <2> QED
    BY <1>4, <2>6, <2>9, <2>11 DEF LogInv
<1>6. CASE Closed(Logger)
  <2>1. /\ link' = [link EXCEPT ![Logger] = "closed"] /\ UNCHANGED <<pc, writing>>
        /\ reply' = IF writing = <<>> THEN reply ELSE "null"
        /\ link[Logger] \in {"opening", "open"}
    BY <1>6 DEF Closed
  <2>2. link'[Logger] = "closed"
    BY <1>2, <1>3, <2>1 DEF ThreadTypes
  <2>3. LogTypes'
    BY <1>1, <1>3, <2>1 DEF LogTypes
  <2>4. NothingMislaid'
    BY <1>1, <1>3, <2>1 DEF NothingMislaid
  <2>5. RepliesAreTrue'
    BY <1>1, <1>3, <2>1, <2>2 DEF RepliesAreTrue
  <2>6. LoggerIdle'
    BY <1>2, <1>3, <2>1 DEF LoggerIdle, NotYetConnected
  <2> QED
    BY <1>4, <2>3, <2>4, <2>5, <2>6 DEF LogInv
<1> QED
  BY <1>5, <1>6

LEMMA LogPreserved == AddressInv /\ LogInv /\ [Next]_vars => LogInv'
<1> SUFFICES ASSUME AddressInv, LogInv, [Next]_vars
             PROVE  LogInv'
  OBVIOUS
<1>1. /\ ThreadTypes /\ NotYetConnected /\ Logger \in Threads
      /\ \A c \in Casters : c # Logger /\ c \in Threads
  BY DataServiceAssumption DEF AddressInv, Threads
<1>2. CASE SetServer \/ SetPort
  BY <1>2, LogUnchanged DEF SetServer, SetPort
<1>3. ASSUME NEW t \in Threads, Check(t) \/ Wait(t) \/ Post(t)
      PROVE  LogInv'
  <2>1. UNCHANGED <<logVars, link>> /\ \E l : pc' = [pc EXCEPT ![t] = l]
    BY <1>3 DEF Check, Wait, Post, Goto
  <2>2. pc[t] \in {"check", "wait", "post", "connect"}
    BY <1>3 DEF Check, Wait, Post
  <2>3. pc'[Logger] = pc[Logger] \/ t = Logger
    BY <1>1, <2>1 DEF ThreadTypes
  <2> QED
    BY <2>1, <2>2, <2>3, LogUnchanged
<1>4. ASSUME NEW t \in Threads, Connect(t) \/ Closed(t), t # Logger
      PROVE  LogInv'
  <2>1. /\ UNCHANGED logVars /\ \E l : pc' = [pc EXCEPT ![t] = l] \/ pc' = pc
        /\ \E k : link' = [link EXCEPT ![t] = k]
    BY <1>4 DEF Connect, Closed, Goto, logVars
  <2>2. pc'[Logger] = pc[Logger] /\ link'[Logger] = link[Logger]
    BY <1>1, <1>4, <2>1 DEF ThreadTypes
  <2> QED
    BY <2>1, <2>2, LogUnchanged
<1>5. ASSUME NEW t \in Threads, ConnectFails(t)
      PROVE  LogInv'
  <2>1. UNCHANGED <<logVars, link>> /\ pc[t] = "connect" /\ \E l : pc' = [pc EXCEPT ![t] = l]
    BY <1>5 DEF ConnectFails, Goto
  <2>2. pc'[Logger] = pc[Logger] \/ t = Logger
    BY <1>1, <2>1 DEF ThreadTypes
  <2> QED
    BY <2>1, <2>2, LogUnchanged
<1>6. ASSUME NEW t \in Threads, Opened(t)
      PROVE  LogInv'
  <2>1. /\ UNCHANGED <<logVars, pc>> /\ link[t] = "opening"
        /\ link' = [link EXCEPT ![t] = "open"]
    BY <1>6 DEF Opened
  <2>2. link[Logger] = "closed" => link'[Logger] = "closed"
    BY <1>1, <2>1 DEF ThreadTypes
  <2> QED
    BY <2>1, <2>2, LogUnchanged
<1>7. ASSUME NEW c \in Casters, Running(c) \/ Broadcast(c) \/ jambcast_recv_callback(c)
      PROVE  LogInv'
  <2>1. /\ UNCHANGED <<logVars, link>>
        /\ (\E l : pc' = [pc EXCEPT ![c] = l]) \/ pc' = pc
    BY <1>7 DEF Running, ReadFlag, Dispatch, LoopEnds, Broadcast, jambcast_recv_callback, Goto
  <2>2. pc'[Logger] = pc[Logger]
    BY <1>1, <2>1 DEF ThreadTypes
  <2> QED
    BY <2>1, <2>2, LogUnchanged
<1>8. CASE UNCHANGED vars
  BY <1>8, LogUnchanged DEF vars
<1>9. CASE jamdata_logger_cb
  BY <1>1, <1>9, NextItem DEF ThreadTypes
<1>10. CASE \E form \in Forms, v \in Values : Log(form, v)
  BY <1>10, NewItem
<1> QED
  BY <1>2, <1>3, <1>4, <1>5, <1>6, <1>7, <1>8, <1>9, <1>10, StoreStep, ConnectionOfTheLogger
  DEF Next, Starting

(***************************************************************************)
(* The values of the broadcast variables                                   *)
(***************************************************************************)

ValueTypes ==
  /\ published \in [Casters -> Nat]
  /\ wire \in [Casters -> Seq(Nat)] /\ dataq \in [Casters -> Seq(Nat)]
  /\ ready \subseteq Casters /\ bloop \in {"off", "running"}

(* How many values a variable has, and how many are on their way to it.    *)
Got(c) == Len(dataq[c])
Coming(c) == Len(wire[c])

(* What is on its way to a variable goes on where its values end.          *)
Consecutive(c) ==
  /\ \A i \in 1..Got(c) : dataq[c][i] = i
  /\ \A i \in 1..Coming(c) : wire[c][i] = Got(c) + i
  /\ Got(c) + Coming(c) <= published[c]
  /\ link[c] = "open" => Got(c) + Coming(c) = published[c]

(* No message comes before the subscription.                               *)
Fresh(c) ==
  link[c] \in {"none", "opening"} => published[c] = 0 /\ wire[c] = <<>> /\ dataq[c] = <<>>

ValuesInv == ValueTypes /\ \A c \in Casters : Consecutive(c) /\ Fresh(c)

LEMMA InitialValues == Init => ValuesInv
<1> SUFFICES ASSUME Init
             PROVE  ValuesInv
  OBVIOUS
<1>1. <<>> \in Seq(Nat) /\ Len(<<>>) = 0 /\ 1..0 = {} /\ 0 + 0 = 0 /\ 0 <= 0
  OBVIOUS
<1>2. /\ published = [c \in Casters |-> 0] /\ ready = {} /\ bloop = "off"
      /\ wire = [c \in Casters |-> <<>>] /\ dataq = [c \in Casters |-> <<>>]
  BY DEF Init
<1>3. ValueTypes
  BY <1>1, <1>2 DEF ValueTypes
<1>4. \A c \in Casters : published[c] = 0 /\ wire[c] = <<>> /\ dataq[c] = <<>>
  BY <1>2
<1>5. \A c \in Casters : Got(c) = 0 /\ Coming(c) = 0
  BY <1>1, <1>4 DEF Got, Coming
<1>6. \A c \in Casters : Consecutive(c)
  BY <1>1, <1>4, <1>5 DEF Consecutive
<1> QED
  BY <1>3, <1>4, <1>6 DEF ValuesInv, Fresh

LEMMA ValuesUnchanged ==
  ASSUME ValuesInv, UNCHANGED <<published, wire, dataq>>,
         ready' \subseteq Casters, bloop' \in {"off", "running"},
         \A c \in Casters :
           \/ link'[c] = link[c]
           \/ link[c] = "none" /\ link'[c] = "opening"
           \/ link[c] = "opening" /\ link'[c] = "open"
  PROVE  ValuesInv'
<1>1. ValueTypes'
  BY DEF ValuesInv, ValueTypes
<1>2. ASSUME NEW c \in Casters
      PROVE  (Consecutive(c) /\ Fresh(c))'
  <2>1. Consecutive(c) /\ Fresh(c)
    BY DEF ValuesInv
  <2>2. Got(c)' = Got(c) /\ Coming(c)' = Coming(c)
    BY DEF Got, Coming
  <2>3. CASE link[c] = "opening" /\ link'[c] = "open"
    <3>1. Len(<<>>) = 0 /\ 0 + 0 = 0
      OBVIOUS
    <3>2. Got(c) = 0 /\ Coming(c) = 0 /\ published[c] = 0
      BY <2>1, <2>3, <3>1 DEF Fresh, Got, Coming
    <3> QED
      BY <2>1, <2>2, <2>3, <3>1, <3>2 DEF Consecutive, Fresh
  <2>4. CASE link'[c] = link[c] \/ (link[c] = "none" /\ link'[c] = "opening")
    BY <2>1, <2>2, <2>4 DEF Consecutive, Fresh
  <2> QED
    BY <2>3, <2>4
<1> QED
  BY <1>1, <1>2 DEF ValuesInv

LEMMA BroadcastStep ==
  ASSUME ValuesInv, NEW c \in Casters, Broadcast(c)
  PROVE  ValuesInv'
<1> DEFINE w == Append(wire[c], published[c] + 1)
<1>1. /\ link[c] = "open" /\ published' = [published EXCEPT ![c] = published[c] + 1]
      /\ wire' = [wire EXCEPT ![c] = Append(wire[c], published'[c])]
      /\ UNCHANGED <<link, dataq, ready, bloop>>
  BY DEF Broadcast
<1>2. ValueTypes /\ \A d \in Casters : Consecutive(d) /\ Fresh(d)
  BY DEF ValuesInv
<1>3. /\ wire[c] \in Seq(Nat) /\ dataq[c] \in Seq(Nat) /\ published[c] \in Nat
      /\ Coming(c) \in Nat /\ Got(c) \in Nat
  BY <1>2, LenProperties DEF ValueTypes, Got, Coming
<1>4. published'[c] = published[c] + 1 /\ wire' = [wire EXCEPT ![c] = w]
  BY <1>1, <1>2 DEF ValueTypes
<1>5. /\ w \in Seq(Nat) /\ Len(w) = Coming(c) + 1
      /\ \A i \in 1..Coming(c) : w[i] = wire[c][i]
      /\ w[Coming(c) + 1] = published[c] + 1
  BY <1>3, AppendProperties DEF Coming
<1> HIDE DEF w
<1>6. ValueTypes'
  BY <1>1, <1>2, <1>3, <1>4, <1>5 DEF ValueTypes
<1>7. ASSUME NEW d \in Casters, d # c
      PROVE  (Consecutive(d) /\ Fresh(d))'
  <2>1. UNCHANGED <<link[d], published[d], wire[d], dataq[d]>>
    BY <1>1, <1>2, <1>4, <1>7 DEF ValueTypes
  <2>2. Got(d)' = Got(d) /\ Coming(d)' = Coming(d)
    BY <2>1 DEF Got, Coming
  <2> QED
    BY <1>2, <2>1, <2>2 DEF Consecutive, Fresh
<1>8. (Consecutive(c) /\ Fresh(c))'
  <2>1. wire'[c] = w /\ dataq'[c] = dataq[c] /\ link'[c] = "open"
    BY <1>1, <1>2, <1>4 DEF ValueTypes
  <2>2. /\ \A i \in 1..Coming(c) : wire[c][i] = Got(c) + i
        /\ Got(c) + Coming(c) = published[c]
        /\ \A i \in 1..Got(c) : dataq[c][i] = i
    BY <1>1, <1>2 DEF Consecutive
  <2>3. \A i \in 1..Len(w) : i \in 1..Coming(c) \/ i = Coming(c) + 1
    BY <1>3, <1>5
  <2>4. ASSUME NEW i \in 1..Len(w)
        PROVE  w[i] = Got(c) + i
    <3>1. CASE i \in 1..Coming(c)
      BY <1>5, <2>2, <3>1
    <3>2. CASE i = Coming(c) + 1
      <4>1. published[c] + 1 = Got(c) + i
        BY <1>3, <2>2, <3>2
      <4> QED
        BY <1>5, <3>2, <4>1
    <3> QED
      BY <2>3, <3>1, <3>2
  <2>5. Got(c) + Len(w) = published[c] + 1
    BY <1>3, <1>5, <2>2
  <2>6. Got(c)' = Got(c) /\ Coming(c)' = Len(w)
    BY <2>1 DEF Got, Coming
  <2>7. Consecutive(c)'
    BY <1>3, <1>4, <1>5, <2>1, <2>2, <2>4, <2>5, <2>6 DEF Consecutive
  <2> QED
    BY <2>1, <2>7 DEF Fresh
<1> QED
  BY <1>6, <1>7, <1>8 DEF ValuesInv

LEMMA ValueArrives ==
  ASSUME ValuesInv, NEW c \in Casters, jambcast_recv_callback(c)
  PROVE  ValuesInv'
<1> DEFINE q == Append(dataq[c], Head(wire[c]))
           w == Tail(wire[c])
<1>1. /\ wire[c] # <<>> /\ wire' = [wire EXCEPT ![c] = w] /\ dataq' = [dataq EXCEPT ![c] = q]
      /\ UNCHANGED <<link, published, ready, bloop>>
  BY DEF jambcast_recv_callback
<1>2. ValueTypes /\ \A d \in Casters : Consecutive(d) /\ Fresh(d)
  BY DEF ValuesInv
<1>3. /\ wire[c] \in Seq(Nat) /\ dataq[c] \in Seq(Nat) /\ published[c] \in Nat
      /\ Coming(c) \in Nat /\ Got(c) \in Nat
  BY <1>2, LenProperties DEF ValueTypes, Got, Coming
<1>4. /\ Head(wire[c]) \in Nat /\ Head(wire[c]) = wire[c][1] /\ Coming(c) > 0
      /\ w \in Seq(Nat) /\ Len(w) = Coming(c) - 1
      /\ \A i \in 1..Len(w) : w[i] = wire[c][i + 1]
  BY <1>1, <1>3, HeadTailProperties, EmptySeq DEF Coming
<1>5. /\ q \in Seq(Nat) /\ Len(q) = Got(c) + 1
      /\ \A i \in 1..Got(c) : q[i] = dataq[c][i]
      /\ q[Got(c) + 1] = wire[c][1]
  BY <1>3, <1>4, AppendProperties DEF Got
<1> HIDE DEF w, q
<1>6. ValueTypes'
  BY <1>1, <1>2, <1>4, <1>5 DEF ValueTypes
<1>7. ASSUME NEW d \in Casters, d # c
      PROVE  (Consecutive(d) /\ Fresh(d))'
  <2>1. UNCHANGED <<link[d], published[d], wire[d], dataq[d]>>
    BY <1>1, <1>2, <1>7 DEF ValueTypes
  <2>2. Got(d)' = Got(d) /\ Coming(d)' = Coming(d)
    BY <2>1 DEF Got, Coming
  <2> QED
    BY <1>2, <2>1, <2>2 DEF Consecutive, Fresh
<1>8. (Consecutive(c) /\ Fresh(c))'
  <2>1. wire'[c] = w /\ dataq'[c] = q /\ UNCHANGED <<link[c], published[c]>>
    BY <1>1, <1>2 DEF ValueTypes
  <2>2. /\ \A i \in 1..Coming(c) : wire[c][i] = Got(c) + i
        /\ Got(c) + Coming(c) <= published[c]
        /\ link[c] = "open" => Got(c) + Coming(c) = published[c]
        /\ \A i \in 1..Got(c) : dataq[c][i] = i
    BY <1>2 DEF Consecutive
  <2>3. \A i \in 1..Len(q) : i \in 1..Got(c) \/ i = Got(c) + 1
    BY <1>3, <1>5
  <2>4. wire[c][1] = Got(c) + 1
    BY <1>3, <1>4, <2>2
  <2>5. \A i \in 1..Len(q) : q[i] = i
    BY <1>3, <1>5, <2>2, <2>3, <2>4
  <2>6. \A i \in 1..Len(w) : i + 1 \in 1..Coming(c)
    BY <1>3, <1>4
  <2>7. ASSUME NEW i \in 1..Len(w)
        PROVE  w[i] = Len(q) + i
    <3>1. w[i] = wire[c][i + 1] /\ wire[c][i + 1] = Got(c) + (i + 1)
      BY <1>4, <2>2, <2>6
    <3>2. Got(c) + (i + 1) = Len(q) + i
      BY <1>3, <1>5
    <3> QED
      BY <3>1, <3>2
  <2>8. Len(q) + Len(w) = Got(c) + Coming(c)
    BY <1>3, <1>4, <1>5
  <2>9. Got(c)' = Len(q) /\ Coming(c)' = Len(w)
    BY <2>1 DEF Got, Coming
  <2>10. Consecutive(c)'
    BY <2>1, <2>2, <2>5, <2>7, <2>8, <2>9 DEF Consecutive
  <2>11. Fresh(c)'
    BY <1>1, <1>2, <2>1 DEF Fresh
  <2> QED
    BY <2>10, <2>11
<1> QED
  BY <1>6, <1>7, <1>8 DEF ValuesInv

LEMMA SubscriptionEnds ==
  ASSUME AddressInv, ValuesInv, NEW c \in Casters, Closed(c)
  PROVE  ValuesInv'
<1>1. c # Logger /\ c \in Threads
  BY DataServiceAssumption DEF Threads
<1>2. /\ link' = [link EXCEPT ![c] = "closed"] /\ wire' = [wire EXCEPT ![c] = <<>>]
      /\ UNCHANGED <<published, dataq, ready, bloop>>
  BY <1>1 DEF Closed
<1>3. ValueTypes /\ ThreadTypes /\ \A d \in Casters : Consecutive(d) /\ Fresh(d)
  BY DEF ValuesInv, AddressInv
<1>4. <<>> \in Seq(Nat) /\ Len(<<>>) = 0 /\ 1..0 = {}
  OBVIOUS
<1>5. ValueTypes'
  BY <1>2, <1>3, <1>4 DEF ValueTypes
<1>6. ASSUME NEW d \in Casters, d # c
      PROVE  (Consecutive(d) /\ Fresh(d))'
  <2>1. UNCHANGED <<link[d], published[d], wire[d], dataq[d]>>
    BY <1>2, <1>3, <1>6 DEF ValueTypes, ThreadTypes, Threads
  <2>2. Got(d)' = Got(d) /\ Coming(d)' = Coming(d)
    BY <2>1 DEF Got, Coming
  <2> QED
    BY <1>3, <2>1, <2>2 DEF Consecutive, Fresh
<1>7. (Consecutive(c) /\ Fresh(c))'
  <2>1. link'[c] = "closed" /\ wire'[c] = <<>> /\ UNCHANGED <<published[c], dataq[c]>>
    BY <1>1, <1>2, <1>3 DEF ValueTypes, ThreadTypes
  <2>2. Got(c) \in Nat /\ Coming(c) \in Nat /\ published[c] \in Nat
    BY <1>3, LenProperties DEF ValueTypes, Got, Coming
  <2>3. /\ \A i \in 1..Got(c) : dataq[c][i] = i
        /\ Got(c) + 0 <= published[c]
    BY <1>3, <2>2 DEF Consecutive
  <2>4. Got(c)' = Got(c) /\ Coming(c)' = 0
    BY <1>4, <2>1 DEF Got, Coming
  <2>5. Consecutive(c)'
    BY <1>4, <2>1, <2>3, <2>4 DEF Consecutive
  <2> QED
    BY <2>1, <2>5 DEF Fresh
<1> QED
  BY <1>5, <1>6, <1>7 DEF ValuesInv

LEMMA ValuesPreserved == AddressInv /\ ValuesInv /\ [Next]_vars => ValuesInv'
<1> SUFFICES ASSUME AddressInv, ValuesInv, [Next]_vars
             PROVE  ValuesInv'
  OBVIOUS
<1>1. /\ ThreadTypes /\ NotYetConnected /\ ValueTypes
      /\ \A c \in Casters : c # Logger /\ c \in Threads
  BY DataServiceAssumption DEF AddressInv, ValuesInv, Threads
<1>2. ready \subseteq Casters /\ bloop \in {"off", "running"}
  BY <1>1 DEF ValueTypes
<1>3. CASE SetServer \/ SetPort
  BY <1>2, <1>3, ValuesUnchanged DEF SetServer, SetPort, castVars
<1>4. CASE \E t \in Threads : Check(t) \/ Wait(t) \/ Post(t) \/ ConnectFails(t)
  BY <1>2, <1>4, ValuesUnchanged DEF Check, Wait, Post, ConnectFails, castVars
<1>5. ASSUME NEW t \in Threads, Connect(t)
      PROVE  ValuesInv'
  <2>1. /\ UNCHANGED <<published, wire, dataq, ready, bloop>> /\ link[t] = "none"
        /\ link' = [link EXCEPT ![t] = "opening"]
    BY <1>1, <1>5 DEF Connect, castVars, NotYetConnected
  <2>2. \A c \in Casters : c = t \/ link'[c] = link[c]
    BY <1>1, <2>1 DEF ThreadTypes
  <2>3. link'[t] = "opening"
    BY <1>1, <2>1 DEF ThreadTypes
  <2> QED
    BY <1>2, <2>1, <2>2, <2>3, ValuesUnchanged
<1>6. ASSUME NEW t \in Threads, Opened(t)
      PROVE  ValuesInv'
  <2>1. /\ UNCHANGED <<published, wire, dataq, ready, bloop>> /\ link[t] = "opening"
        /\ link' = [link EXCEPT ![t] = "open"]
    BY <1>6 DEF Opened
  <2>2. \A c \in Casters : c = t \/ link'[c] = link[c]
    BY <1>1, <2>1 DEF ThreadTypes
  <2>3. link'[t] = "open"
    BY <1>1, <2>1 DEF ThreadTypes
  <2> QED
    BY <1>2, <2>1, <2>2, <2>3, ValuesUnchanged
<1>7. CASE Closed(Logger)
  <2>1. /\ UNCHANGED <<published, wire, dataq, ready, bloop>>
        /\ link' = [link EXCEPT ![Logger] = "closed"]
    BY <1>7 DEF Closed
  <2>2. \A c \in Casters : link'[c] = link[c]
    BY <1>1, <2>1 DEF ThreadTypes
  <2> QED
    BY <1>2, <2>1, <2>2, ValuesUnchanged
<1>8. CASE (\E form \in Forms, v \in Values : Log(form, v)) \/ Store
           \/ jamdata_logger_cb
  BY <1>2, <1>8, ValuesUnchanged DEF Log, Store, jamdata_logger_cb, castVars
<1>9. ASSUME NEW c \in Casters, Running(c)
      PROVE  ValuesInv'
  <2>1. UNCHANGED <<published, wire, dataq, link>>
    BY <1>9 DEF Running, ReadFlag, Dispatch, LoopEnds
  <2>2. ready' \subseteq Casters /\ bloop' \in {"off", "running"}
    BY <1>2, <1>9 DEF Running, ReadFlag, Dispatch, LoopEnds
  <2> QED
    BY <2>1, <2>2, ValuesUnchanged
<1>10. CASE UNCHANGED vars
  BY <1>2, <1>10, ValuesUnchanged DEF vars, castVars
<1>11. CASE \E c \in Casters : Broadcast(c) \/ jambcast_recv_callback(c) \/ Closed(c)
  BY <1>11, BroadcastStep, ValueArrives, SubscriptionEnds
<1> QED
  BY <1>3, <1>4, <1>5, <1>6, <1>7, <1>8, <1>9, <1>10, <1>11 DEF Next, Starting, Threads

(***************************************************************************)
(* The theorems                                                            *)
(***************************************************************************)

(* The three invariants carry one another: the logger is idle until it is  *)
(* connected, which is what lets its callback move it; and a connection is *)
(* only made by a thread that has none.                                    *)
LEMMA AllPreserved == Spec => [](AddressInv /\ LogInv /\ ValuesInv)
<1>1. Init => AddressInv /\ LogInv /\ ValuesInv
  BY InitialAddress, InitialLog, InitialValues
<1>2. AddressInv /\ LogInv /\ ValuesInv /\ [Next]_vars => (AddressInv /\ LogInv /\ ValuesInv)'
  BY AddressPreserved, LogPreserved, ValuesPreserved
<1> QED
  BY <1>1, <1>2, PTL DEF Spec

LEMMA InOrder ==
  ASSUME ValuesInv
  PROVE  ValuesInOrder
<1> SUFFICES ASSUME NEW c \in Casters
             PROVE  /\ \A i \in DOMAIN (dataq[c] \o wire[c]) : (dataq[c] \o wire[c])[i] = i
                    /\ link[c] = "open" => Len(dataq[c] \o wire[c]) = published[c]
  BY DEF ValuesInOrder
<1> DEFINE seen == dataq[c] \o wire[c]
<1>1. /\ wire[c] \in Seq(Nat) /\ dataq[c] \in Seq(Nat)
      /\ Coming(c) \in Nat /\ Got(c) \in Nat /\ Consecutive(c)
  BY LenProperties DEF ValuesInv, ValueTypes, Got, Coming
<1>2. /\ seen \in Seq(Nat) /\ Len(seen) = Got(c) + Coming(c)
      /\ \A i \in 1..Len(seen) :
           seen[i] = IF i <= Got(c) THEN dataq[c][i] ELSE wire[c][i - Got(c)]
  BY <1>1, ConcatProperties DEF Got, Coming
<1>3. DOMAIN seen = 1..Len(seen)
  BY <1>2, LenProperties
<1> HIDE DEF seen
<1>4. ASSUME NEW i \in 1..Len(seen)
      PROVE  seen[i] = i
  <2>1. CASE i \in 1..Got(c)
    <3>1. seen[i] = dataq[c][i]
      BY <1>1, <1>2, <2>1
    <3> QED
      BY <1>1, <2>1, <3>1 DEF Consecutive
  <2>2. CASE i \notin 1..Got(c)
    <3> DEFINE j == i - Got(c)
    <3>1. j \in 1..Coming(c) /\ Got(c) + j = i
      BY <1>1, <1>2, <2>2
    <3>2. ~(i <= Got(c))
      BY <1>1, <1>2, <2>2
    <3>3. seen[i] = wire[c][j]
      BY <1>2, <3>2
    <3> HIDE DEF j
    <3>4. wire[c][j] = Got(c) + j
      BY <1>1, <3>1 DEF Consecutive
    <3> QED
      BY <3>1, <3>3, <3>4
  <2> QED
    BY <2>1, <2>2
<1>5. link[c] = "open" => Len(seen) = published[c]
  BY <1>1, <1>2 DEF Consecutive
<1> QED
  BY <1>3, <1>4, <1>5 DEF seen

LEMMA Typed ==
  ASSUME AddressInv, LogInv, ValuesInv
  PROVE  TypeOK
<1>1. ThreadTypes /\ PostsAreCounted /\ LogTypes /\ ValueTypes /\ \A c \in Casters : Consecutive(c)
  BY DEF AddressInv, LogInv, ValuesInv
<1>2. jdsem \in 0..(MaxPuts + Cardinality(Threads))
  <2>1. /\ Cardinality(Posted) \in 0..Cardinality(Threads) /\ Cardinality(Threads) \in Nat
        /\ jdsem \in Nat /\ puts \in 0..MaxPuts /\ MaxPuts \in Nat
    BY <1>1, PostedFinite, DataServiceAssumption DEF ThreadTypes
  <2>2. jdsem <= puts + Cardinality(Posted)
    BY <1>1, <2>1 DEF PostsAreCounted
  <2> QED
    BY <2>1, <2>2
<1>3. \A c \in Casters : Len(dataq[c]) <= published[c]
  <2> SUFFICES ASSUME NEW c \in Casters
               PROVE  Len(dataq[c]) <= published[c]
    OBVIOUS
  <2>1. Got(c) \in Nat /\ Coming(c) \in Nat /\ published[c] \in Nat
    BY <1>1, LenProperties DEF ValueTypes, Got, Coming
  <2>2. Got(c) + Coming(c) <= published[c]
    BY <1>1 DEF Consecutive
  <2>3. Got(c) <= published[c]
    BY <2>1, <2>2
  <2> QED
    BY <2>3 DEF Got
<1> QED
  BY <1>1, <1>2, <1>3 DEF TypeOK, ThreadTypes, LogTypes, ValueTypes, Labels

(* Nobody connects before the whole address is there unless a thread looked*)
(* between its halves, and each broadcast variable gets the messages of its*)
(* channel in order and without a gap.                                     *)
THEOREM ServiceIsSound == Spec => []DataServiceInv
<1>1. AddressInv /\ LogInv /\ ValuesInv => DataServiceInv
  BY Typed, InOrder DEF DataServiceInv, AddressInv
<1> QED
  BY <1>1, AllPreserved, PTL

(* Whatever becomes of the connection, an item the program has logged is   *)
(* in exactly one place: stored, waiting, under way or known to be lost.   *)
THEOREM NoItemMislaid == Spec => []NothingMislaid
<1>1. LogInv => NothingMislaid
  BY DEF LogInv
<1> QED
  BY <1>1, AllPreserved, PTL

===============================================================================
