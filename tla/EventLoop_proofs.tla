---------------------------- MODULE EventLoop_proofs ----------------------------
(***************************************************************************)
(* Proofs for EventLoop: its types, the tokens of globalinq's semaphores,  *)
(* that no admitted request is swallowed, and that the cache admits no id  *)
(* too early however the worker, the event loop and the other tasks        *)
(* interleave.                                                             *)
(***************************************************************************)
EXTENDS EventLoop, FiniteSetTheorems, TLAPS

(***************************************************************************)
(* Admission, one step at a time: the cache keeps the ids let in last,     *)
(* hence none is let in twice within CacheSize others; and the overflow    *)
(* detector stays within one step of its limits.                           *)
(***************************************************************************)

AdmissionInv == AdmissionOK /\ OdcountBounded /\ NoEarlyRepeat

LEMMA AdmissionInitial ==
  ASSUME AdmissionInit
  PROVE  AdmissionInv
BY AdmissionAssumption
DEF AdmissionInit, AdmissionInv, AdmissionOK, CacheIsRecent, OdcountBounded, NoEarlyRepeat

(* What Remember leaves in the cache is again the end of the history.      *)
LEMMA RememberIsRecent ==
  ASSUME NEW a \in Acts, CacheIsRecent, Remember(a)
  PROVE  CacheIsRecent'
<1> USE AdmissionAssumption DEF CacheIsRecent
<1>1. seen' = Append(seen, a) /\ seen' \in Seq(Acts) /\ Len(seen') = Len(seen) + 1
  BY DEF Remember
<1>2. \A i \in 1..Len(seen) : seen'[i] = seen[i]
  BY <1>1
<1>3. seen'[Len(seen) + 1] = a
  BY <1>1
<1> DEFINE longer == Append(cache, a)
<1>4. /\ longer \in Seq(Acts) /\ Len(longer) = Len(cache) + 1
      /\ longer[Len(cache) + 1] = a
      /\ \A i \in 1..Len(cache) : longer[i] = cache[i]
  OBVIOUS
<1> HIDE DEF longer
<1>5. \A i \in 1..Len(longer) : longer[i] = seen'[Len(seen') - Len(longer) + i]
  <2> SUFFICES ASSUME NEW i \in 1..Len(longer)
               PROVE  longer[i] = seen'[Len(seen') - Len(longer) + i]
    OBVIOUS
  <2>1. CASE i = Len(cache) + 1
    <3>1. i = Len(longer) /\ i \in Nat
      BY <2>1, <1>4
    <3>2. Len(seen') \in Nat
      BY <1>1
    <3>3. Len(seen') - Len(longer) + i = Len(seen')
      BY <3>1, <3>2
    <3> QED
      BY <2>1, <3>3, <1>1, <1>3, <1>4
  <2>2. CASE i # Len(cache) + 1
    <3>1. i \in 1..Len(cache)
      BY <2>2, <1>4
    <3>2. Len(cache) <= Len(seen)
      OBVIOUS
    <3>3. Len(seen) - Len(cache) + i \in 1..Len(seen)
      BY <3>1, <3>2
    <3>4. Len(seen') - Len(longer) + i = Len(seen) - Len(cache) + i
      BY <1>1, <1>4, <3>1
    <3> QED
      BY <3>1, <3>3, <3>4, <1>2, <1>4
  <2> QED
    BY <2>1, <2>2
<1>6. CASE Len(cache) >= CacheSize
  <2>1. cache' = Tail(longer)
    BY <1>6 DEF Remember, longer
  <2>2. Len(cache) = CacheSize /\ Len(seen) >= CacheSize
    BY <1>6
  <2>3. longer # <<>>
    BY <1>4
  <2>4. cache' \in Seq(Acts) /\ Len(cache') = Len(longer) - 1
    BY <2>1, <2>3, <1>4
  <2>5. \A i \in 1..Len(cache') : cache'[i] = longer[i + 1]
    BY <2>1, <2>3, <2>4, <1>4
  <2>6. \A i \in 1..Len(cache') : cache'[i] = seen'[Len(seen') - Len(cache') + i]
    <3> SUFFICES ASSUME NEW i \in 1..Len(cache')
                 PROVE  cache'[i] = seen'[Len(seen') - Len(cache') + i]
      OBVIOUS
    <3>1. i + 1 \in 1..Len(longer)
      BY <2>4, <1>4
    <3>2. Len(seen') - Len(longer) + (i + 1) = Len(seen') - Len(cache') + i
      BY <2>4, <1>4, <1>1
    <3> QED
      BY <3>1, <3>2, <2>5, <1>5
  <2>7. Len(cache') = IF Len(seen') < CacheSize THEN Len(seen') ELSE CacheSize
    BY <2>2, <2>4, <1>1, <1>4
  <2> QED
    BY <2>4, <2>6, <2>7, <1>1
<1>7. CASE ~(Len(cache) >= CacheSize)
  <2>1. cache' = longer
    BY <1>7 DEF Remember, longer
  <2>2. Len(cache) = Len(seen) /\ Len(seen) < CacheSize
    BY <1>7
  <2>3. Len(cache') = IF Len(seen') < CacheSize THEN Len(seen') ELSE CacheSize
    BY <2>1, <2>2, <1>1, <1>4
  <2> QED
    BY <2>1, <2>3, <1>1, <1>4, <1>5
<1> QED
  BY <1>6, <1>7

(* An id that is not in the cache was let in more than CacheSize ids ago,  *)
(* if ever.                                                                *)
LEMMA RememberIsNoRepeat ==
  ASSUME NEW a \in Acts, CacheIsRecent, NoEarlyRepeat, ~Cached(a), Remember(a)
  PROVE  NoEarlyRepeat'
<1> USE AdmissionAssumption
<1>1. /\ seen \in Seq(Acts) /\ cache \in Seq(Acts)
      /\ Len(cache) = IF Len(seen) < CacheSize THEN Len(seen) ELSE CacheSize
      /\ \A i \in 1..Len(cache) : cache[i] = seen[Len(seen) - Len(cache) + i]
  BY DEF CacheIsRecent
<1>2. seen' = Append(seen, a) /\ Len(seen') = Len(seen) + 1 /\ seen'[Len(seen) + 1] = a
  BY <1>1 DEF Remember
<1>3. \A i \in 1..Len(seen) : seen'[i] = seen[i]
  BY <1>1, <1>2
<1> SUFFICES ASSUME NEW i \in 1..Len(seen'), NEW j \in 1..Len(seen'),
                    i < j, seen'[i] = seen'[j]
             PROVE  j - i > CacheSize
  BY DEF NoEarlyRepeat
<1>4. i \in 1..Len(seen)
  BY <1>1, <1>2
<1>5. CASE j \in 1..Len(seen)
  BY <1>3, <1>4, <1>5 DEF NoEarlyRepeat
<1>6. CASE j = Len(seen) + 1
  <2>1. seen[i] = a
    BY <1>2, <1>3, <1>4, <1>6
  <2>2. ~(i > Len(seen) - Len(cache))
    <3> SUFFICES ASSUME i > Len(seen) - Len(cache)
                 PROVE  FALSE
      OBVIOUS
    <3> DEFINE k == i - (Len(seen) - Len(cache))
    <3>0. Len(seen) \in Nat /\ Len(cache) \in Nat
      BY <1>1
    <3>1. k \in 1..Len(cache) /\ Len(seen) - Len(cache) + k = i
      BY <3>0, <1>4
    <3> HIDE DEF k
    <3>2. cache[k] = a
      BY <3>1, <2>1, <1>1
    <3> QED
      BY <3>1, <3>2 DEF Cached
  <2> QED
    BY <2>2, <1>1, <1>4, <1>6
<1>7. j \in 1..Len(seen) \/ j = Len(seen) + 1
  <2>1. Len(seen) \in Nat
    BY <1>1
  <2> QED
    BY <1>2, <2>1
<1> QED
  BY <1>5, <1>6, <1>7

LEMMA RememberStep ==
  ASSUME NEW a \in Acts, AdmissionInv, ~Cached(a), Remember(a)
  PROVE  AdmissionInv'
<1>1. CacheIsRecent'
  BY RememberIsRecent DEF AdmissionInv, AdmissionOK
<1>2. NoEarlyRepeat'
  BY RememberIsNoRepeat DEF AdmissionInv, AdmissionOK
<1>3. odcount' = odcount
  BY DEF Remember
<1> QED
  BY <1>1, <1>2, <1>3 DEF AdmissionInv, AdmissionOK, OdcountBounded

LEMMA NoThreadFoundStep ==
  ASSUME AdmissionInv, NoThreadFound
  PROVE  AdmissionInv'
<1>1. CacheIsRecent' /\ NoEarlyRepeat'
  BY DEF NoThreadFound, AdmissionInv, AdmissionOK, CacheIsRecent, NoEarlyRepeat
<1>2. odcount' \in Int /\ OdcountBounded'
  BY AdmissionAssumption DEF NoThreadFound, AdmissionInv, AdmissionOK, OdcountBounded
<1> QED
  BY <1>1, <1>2 DEF AdmissionInv, AdmissionOK

LEMMA ActivityFreeStep ==
  ASSUME AdmissionInv, activity_free
  PROVE  AdmissionInv'
<1>1. CacheIsRecent' /\ NoEarlyRepeat'
  BY DEF activity_free, AdmissionInv, AdmissionOK, CacheIsRecent, NoEarlyRepeat
<1>2. odcount' \in Int /\ OdcountBounded'
  BY AdmissionAssumption DEF activity_free, AdmissionInv, AdmissionOK, OdcountBounded
<1> QED
  BY <1>1, <1>2 DEF AdmissionInv, AdmissionOK

LEMMA AdmissionStutter ==
  ASSUME AdmissionInv, UNCHANGED admissionVars
  PROVE  AdmissionInv'
BY DEF admissionVars, AdmissionInv, AdmissionOK, CacheIsRecent, OdcountBounded, NoEarlyRepeat

(***************************************************************************)
(* Messages                                                                *)
(***************************************************************************)

LEMMA MessageTypes ==
  /\ Requests \subseteq Messages
  /\ \A m \in Messages : m # GO => m \in Requests
  /\ \A m \in Messages : m = GO => m \in Messages \cap {GO}
  /\ \A m \in Requests : m.act \in Acts /\ m # GO /\ m.kind \in {"ASY", "SYN"}
BY EventLoopAssumption DEF Messages, Requests, GO

(* What a handler does is done for its level.                              *)
LEMMA HandlersHandle ==
  ASSUME jwork_process_device \/ jwork_process_fog \/ jwork_process_cloud
  PROVE  \E l \in Levels : Discard(l) \/ Refuse(l) \/ Admit(l) \/ Relay(l)
BY DEF jwork_process_device, jwork_process_fog, jwork_process_cloud, Handle

(***************************************************************************)
(* Types                                                                   *)
(***************************************************************************)

WorkerTypes ==
  /\ inq \in [Levels -> Seq(Messages)]
  /\ arrived \in 0..MaxMsgs
  /\ worker \in {"poll", "sem", "goSem"}
  /\ admitted \in [Acts -> Nat]

QueueTypes ==
  /\ lqueue \in Seq(Requests) /\ hqueue \in Seq(Messages \cap {GO})
  /\ sem \in Nat /\ goSem \in Nat

LoopTypes ==
  /\ loop \in LoopStates
  /\ busy \in 0..NumThreads
  /\ fault \in BOOLEAN
  /\ started \in [Acts -> Nat] /\ lost \in [Acts -> Nat]

(* The command in hand is a message wherever it is used.                   *)
InHandOK == loop.pc \in {"go", "pollgo", "delay"} => loop.cmd \in Messages

TypeInv == WorkerTypes /\ QueueTypes /\ LoopTypes /\ InHandOK

LEMMA TypeInvIsTypeOK == TypeInv => TypeOK
BY DEF TypeInv, WorkerTypes, QueueTypes, LoopTypes, TypeOK

LEMMA WaitingType == Waiting \in LoopStates /\ Waiting.pc = "wait"
BY DEF Waiting, LoopStates, Nothing

LEMMA InitialTypes == Init => TypeInv
<1> SUFFICES ASSUME Init
             PROVE  TypeInv
  OBVIOUS
<1>1. WorkerTypes
  BY EventLoopAssumption DEF Init, WorkerTypes
<1>2. QueueTypes
  BY DEF Init, QueueTypes
<1>3. loop = Waiting /\ InHandOK
  BY WaitingType DEF Init, InHandOK
<1>4. /\ busy \in 0..NumThreads
      /\ started \in [Acts -> Nat] /\ lost \in [Acts -> Nat]
  BY EventLoopAssumption DEF Init
<1>5. fault \in BOOLEAN
  BY DEF Init
<1> QED
  BY <1>1, <1>2, <1>3, <1>4, <1>5, WaitingType DEF TypeInv, LoopTypes

LEMMA StartTypes ==
  ASSUME LoopTypes, NEW m \in Messages, Start(m)
  PROVE  LoopTypes' /\ InHandOK'
<1>1. loop' \in LoopStates /\ InHandOK'
  BY WaitingType DEF Start, InHandOK
<1>2. busy' \in 0..NumThreads /\ fault' \in BOOLEAN /\ lost' \in [Acts -> Nat]
  BY EventLoopAssumption DEF Start, LoopTypes
<1>3. started' \in [Acts -> Nat]
  BY MessageTypes DEF Start, LoopTypes
<1> QED
  BY <1>1, <1>2, <1>3 DEF LoopTypes

LEMMA DelayTypes ==
  ASSUME LoopTypes, NEW m \in Messages, NEW n \in 1..3, Delay(m, n)
  PROVE  LoopTypes' /\ InHandOK'
<1>1. loop' = [pc |-> "delay", cmd |-> m, try |-> n]
  BY DEF Delay
<1>2. loop' \in LoopStates /\ InHandOK'
  BY <1>1 DEF LoopStates, InHandOK
<1> QED
  BY <1>2 DEF LoopTypes, Delay

LEMMA CreateTypes ==
  ASSUME LoopTypes, NEW m \in Messages, Create(m)
  PROVE  LoopTypes' /\ InHandOK'
BY StartTypes, DelayTypes DEF Create

LEMMA GiveUpTypes ==
  ASSUME LoopTypes, NEW m \in Messages, GiveUp(m)
  PROVE  LoopTypes' /\ InHandOK'
<1>1. loop' \in LoopStates /\ InHandOK'
  BY WaitingType DEF GiveUp, InHandOK
<1>2. lost' \in [Acts -> Nat]
  BY MessageTypes DEF GiveUp, LoopTypes
<1>3. fault' \in BOOLEAN
  BY DEF GiveUp
<1> QED
  BY <1>1, <1>2, <1>3 DEF GiveUp, LoopTypes

(* The worker pthread's steps.                                             *)
LEMMA ArriveTypes ==
  ASSUME TypeInv, NEW l \in Levels, NEW m \in Messages, Arrive(l, m)
  PROVE  TypeInv'
<1>1. WorkerTypes'
  BY EventLoopAssumption DEF Arrive, TypeInv, WorkerTypes
<1>2. QueueTypes' /\ LoopTypes' /\ InHandOK'
  BY DEF Arrive, TypeInv, QueueTypes, LoopTypes, InHandOK, queueVars, loopVars
<1> QED
  BY <1>1, <1>2 DEF TypeInv

LEMMA TakenTypes ==
  ASSUME TypeInv, NEW l \in Levels, Taken(l)
  PROVE  /\ inq' \in [Levels -> Seq(Messages)]
         /\ arrived' = arrived /\ sem' = sem /\ goSem' = goSem
         /\ loop' = loop /\ LoopTypes' /\ InHandOK'
         /\ Incoming(l) \in Messages
<1>1. inq \in [Levels -> Seq(Messages)] /\ inq[l] # <<>>
  BY DEF Taken, TypeInv, WorkerTypes
<1>2. Incoming(l) \in Messages /\ Tail(inq[l]) \in Seq(Messages)
  BY <1>1 DEF Incoming
<1>3. inq' \in [Levels -> Seq(Messages)]
  BY <1>1, <1>2 DEF Taken
<1>4. LoopTypes' /\ InHandOK'
  BY DEF Taken, loopVars, TypeInv, LoopTypes, InHandOK
<1> QED
  BY <1>2, <1>3, <1>4 DEF Taken, loopVars

LEMMA WorkerStepTypes ==
  ASSUME TypeInv, NEW l \in Levels, Discard(l) \/ Refuse(l) \/ Admit(l) \/ Relay(l)
  PROVE  TypeInv'
<1>1. Taken(l)
  BY DEF Discard, Refuse, Admit, Relay
<1>2. /\ inq' \in [Levels -> Seq(Messages)]
      /\ arrived' = arrived /\ sem' = sem /\ goSem' = goSem
      /\ LoopTypes' /\ InHandOK'
      /\ Incoming(l) \in Messages
  BY <1>1, TakenTypes
<1>3. WorkerTypes /\ QueueTypes
  BY DEF TypeInv
<1>4. CASE Discard(l) \/ Refuse(l)
  BY <1>2, <1>3, <1>4 DEF Discard, Refuse, TypeInv, WorkerTypes, QueueTypes
<1>5. CASE Admit(l)
  <2>1. Incoming(l) \in Requests /\ Incoming(l).act \in Acts
    BY <1>2, <1>5, MessageTypes DEF Admit
  <2>2. lqueue' \in Seq(Requests) /\ hqueue' = hqueue
    BY <1>3, <1>5, <2>1 DEF Admit, QueueTypes
  <2>3. admitted' \in [Acts -> Nat] /\ worker' = "sem"
    BY <1>3, <1>5, <2>1 DEF Admit, WorkerTypes
  <2> QED
    BY <1>2, <1>3, <2>2, <2>3 DEF TypeInv, WorkerTypes, QueueTypes
<1>6. CASE Relay(l)
  <2>1. GO \in Messages \cap {GO}
    BY <1>2, <1>6 DEF Relay
  <2>2. hqueue' \in Seq(Messages \cap {GO}) /\ lqueue' = lqueue
    BY <1>3, <1>6, <2>1 DEF Relay, QueueTypes
  <2>3. admitted' = admitted /\ worker' = "goSem"
    BY <1>6 DEF Relay
  <2> QED
    BY <1>2, <1>3, <2>2, <2>3 DEF TypeInv, WorkerTypes, QueueTypes
<1> QED
  BY <1>4, <1>5, <1>6

LEMMA SignalTypes ==
  ASSUME TypeInv, Signal
  PROVE  TypeInv'
BY DEF Signal, TypeInv, WorkerTypes, QueueTypes, LoopTypes, InHandOK, loopVars

(* The event loop's steps.                                                 *)
LEMMA TakeTokenTypes ==
  ASSUME TypeInv, TakeToken
  PROVE  TypeInv'
<1>1. LoopTypes /\ InHandOK /\ QueueTypes /\ WorkerTypes
  BY DEF TypeInv
<1>2. WorkerTypes'
  BY <1>1 DEF TakeToken, WorkerTypes, workerVars
<1>3. QueueTypes'
  BY <1>1 DEF TakeToken, QueueTypes
<1>4. loop' \in LoopStates /\ InHandOK'
  BY <1>1 DEF TakeToken, LoopTypes, LoopStates, InHandOK
<1> QED
  BY <1>1, <1>2, <1>3, <1>4 DEF TypeInv, LoopTypes, TakeToken

LEMMA PollQueuesTypes ==
  ASSUME TypeInv, PollQueues
  PROVE  TypeInv'
<1> DEFINE high == hqueue # <<>>
           m == IF high THEN Head(hqueue) ELSE Head(lqueue)
<1>1. LoopTypes /\ InHandOK /\ QueueTypes /\ WorkerTypes
  BY DEF TypeInv
<1>2. WorkerTypes'
  BY <1>1 DEF PollQueues, WorkerTypes, workerVars
<1>3. QueueTypes'
  BY <1>1 DEF PollQueues, QueueTypes
<1>4. high \/ lqueue # <<>> => m \in Messages
  BY <1>1, MessageTypes DEF QueueTypes
<1> HIDE DEF m
<1>5. CASE ~high /\ lqueue = <<>>
  <2>1. loop' = Waiting /\ UNCHANGED <<busy, fault, started, lost>>
    BY <1>5 DEF PollQueues
  <2> QED
    BY <1>1, <1>2, <1>3, <2>1, WaitingType DEF TypeInv, LoopTypes, InHandOK
<1>6. CASE (high \/ lqueue # <<>>) /\ m.kind = "SYN"
  <2>1. /\ loop' = [pc |-> "go", cmd |-> m, try |-> 0]
        /\ UNCHANGED <<busy, fault, started, lost>>
    BY <1>6 DEF PollQueues, m
  <2>2. loop' \in LoopStates /\ InHandOK'
    BY <1>4, <1>6, <2>1 DEF LoopStates, InHandOK
  <2> QED
    BY <1>1, <1>2, <1>3, <2>1, <2>2 DEF TypeInv, LoopTypes
<1>7. CASE (high \/ lqueue # <<>>) /\ m.kind # "SYN"
  <2>1. Create(m)
    BY <1>7 DEF PollQueues, m
  <2>2. PICK c \in Messages : c = m
    BY <1>4, <1>7
  <2>3. LoopTypes' /\ InHandOK'
    BY <1>1, <2>1, <2>2, CreateTypes
  <2> QED
    BY <1>2, <1>3, <2>3 DEF TypeInv
<1> QED
  BY <1>5, <1>6, <1>7

LEMMA PollStartTypes ==
  ASSUME TypeInv, PollStart
  PROVE  TypeInv'
<1>1. LoopTypes /\ InHandOK /\ QueueTypes /\ WorkerTypes
  BY DEF TypeInv
<1>2. WorkerTypes'
  BY <1>1 DEF PollStart, WorkerTypes, workerVars
<1>3. QueueTypes'
  BY <1>1 DEF PollStart, QueueTypes
<1>4. loop.cmd \in Messages /\ Create(loop.cmd)
  BY <1>1 DEF PollStart, InHandOK
<1>7. LoopTypes' /\ InHandOK'
  BY <1>1, <1>4, CreateTypes
<1> QED
  BY <1>2, <1>3, <1>7 DEF TypeInv

LEMMA RetryTypes ==
  ASSUME TypeInv, Retry
  PROVE  TypeInv'
<1>1. LoopTypes /\ InHandOK /\ QueueTypes /\ WorkerTypes
  BY DEF TypeInv
<1>2. WorkerTypes' /\ QueueTypes'
  BY <1>1 DEF Retry, WorkerTypes, QueueTypes, workerVars, queueVars
<1>3. loop.cmd \in Messages /\ loop.try \in 0..3
  BY <1>1 DEF Retry, InHandOK, LoopTypes, LoopStates
<1>4. CASE Start(loop.cmd)
  BY <1>1, <1>2, <1>3, <1>4, StartTypes DEF TypeInv
<1>5. CASE loop.try < 3 /\ Delay(loop.cmd, loop.try + 1)
  <2>1. loop.try + 1 \in 1..3
    BY <1>3, <1>5
  <2> QED
    BY <1>1, <1>2, <1>3, <1>5, <2>1, DelayTypes DEF TypeInv
<1>6. CASE GiveUp(loop.cmd)
  BY <1>1, <1>2, <1>3, <1>6, GiveUpTypes DEF TypeInv
<1> QED
  BY <1>4, <1>5, <1>6 DEF Retry

LEMMA OtherTasksTypes ==
  ASSUME TypeInv, OtherTasks
  PROVE  TypeInv'
<1>1. LoopTypes /\ InHandOK /\ QueueTypes /\ WorkerTypes
  BY DEF TypeInv
<1>2. busy' \in 0..NumThreads
  BY <1>1, EventLoopAssumption DEF OtherTasks, LoopTypes
<1> QED
  BY <1>1, <1>2
  DEF OtherTasks, TypeInv, LoopTypes, InHandOK, QueueTypes, WorkerTypes, workerVars, queueVars

LEMMA TypesPreserved == TypeInv /\ [Next]_vars => TypeInv'
<1> SUFFICES ASSUME TypeInv, [Next]_vars
             PROVE  TypeInv'
  OBVIOUS
<1>1. CASE \E l \in Levels, m \in Messages : Arrive(l, m)
  BY <1>1, ArriveTypes
<1>2. CASE Worker
  BY <1>2, HandlersHandle, WorkerStepTypes, SignalTypes DEF Worker
<1>3. CASE EventLoop
  BY <1>3, TakeTokenTypes, PollQueuesTypes, PollStartTypes, RetryTypes DEF EventLoop
<1>4. CASE OtherTasks
  BY <1>4, OtherTasksTypes
<1>5. CASE UNCHANGED vars
  BY <1>5 DEF vars, workerVars, queueVars, loopVars, TypeInv, WorkerTypes, QueueTypes,
              LoopTypes, InHandOK
<1> QED
  BY <1>1, <1>2, <1>3, <1>4, <1>5 DEF Next

LEMMA TypesHold == Spec => []TypeInv
BY InitialTypes, TypesPreserved, PTL DEF Spec

(* Every variable of the worker, of globalinq and of jam_event_loop keeps  *)
(* its type, however many levels, messages and threads there are.          *)
THEOREM TypeCorrect == Spec => []TypeOK
BY TypesHold, TypeInvIsTypeOK, PTL

(***************************************************************************)
(* Tokens                                                                  *)
(***************************************************************************)

LEMMA InitialTokens == Init => TokensAreCovered
BY DEF Init, TokensAreCovered, Tokens, Waiting

(* A poll gives up one token and at most one command; if it takes none,    *)
(* there was none.                                                         *)
LEMMA PollSpendsToken ==
  ASSUME TypeInv, TokensAreCovered, loop.pc \in {"poll", "pollgo"},
         worker' = worker, sem' = sem, goSem' = goSem,
         loop'.pc \notin {"poll", "pollgo"},
         \/ lqueue' = lqueue /\ hqueue # <<>> /\ hqueue' = Tail(hqueue)
         \/ hqueue' = hqueue /\ lqueue # <<>> /\ lqueue' = Tail(lqueue)
         \/ hqueue' = hqueue /\ lqueue' = lqueue
  PROVE  TokensAreCovered'
<1>1. /\ lqueue \in Seq(Requests) /\ hqueue \in Seq(Messages \cap {GO})
      /\ sem \in Nat /\ goSem \in Nat
  BY DEF TypeInv, QueueTypes
<1>2. Len(lqueue') + Len(hqueue') >= Len(lqueue) + Len(hqueue) - 1
  BY <1>1
<1>3. Len(lqueue') \in Nat /\ Len(hqueue') \in Nat /\ Len(lqueue) \in Nat /\ Len(hqueue) \in Nat
  BY <1>1
<1>4. Tokens' = Tokens - 1 /\ Tokens \in Nat
  BY <1>1 DEF Tokens
<1> QED
  BY <1>2, <1>3, <1>4 DEF TokensAreCovered

LEMMA TokensPreserved ==
  TypeInv /\ TokensAreCovered /\ [Next]_vars => TokensAreCovered'
<1> SUFFICES ASSUME TypeInv, TokensAreCovered, [Next]_vars
             PROVE  TokensAreCovered'
  OBVIOUS
<1>1. /\ lqueue \in Seq(Requests) /\ hqueue \in Seq(Messages \cap {GO})
      /\ sem \in Nat /\ goSem \in Nat /\ worker \in {"poll", "sem", "goSem"}
  BY DEF TypeInv, QueueTypes, WorkerTypes
<1>2. CASE \E l \in Levels, m \in Messages : Arrive(l, m)
  BY <1>2 DEF Arrive, queueVars, loopVars, TokensAreCovered, Tokens
<1>3. CASE \E l \in Levels : Discard(l) \/ Refuse(l)
  BY <1>3 DEF Discard, Refuse, Taken, loopVars, TokensAreCovered, Tokens
<1>4. ASSUME NEW l \in Levels, Admit(l)
      PROVE  TokensAreCovered'
  <2>1. /\ worker = "poll" /\ worker' = "sem" /\ hqueue' = hqueue
        /\ loop' = loop /\ sem' = sem /\ goSem' = goSem
    BY <1>4 DEF Admit, Taken, loopVars
  <2>2. Incoming(l) \in Requests
    BY <1>4, TakenTypes, MessageTypes DEF Admit
  <2>3. Len(lqueue') = Len(lqueue) + 1 /\ Len(lqueue) \in Nat /\ Len(hqueue) \in Nat
    BY <1>1, <1>4, <2>2 DEF Admit
  <2>4. Tokens' = Tokens + 1 /\ Tokens \in Nat
    BY <1>1, <2>1 DEF Tokens
  <2> QED
    BY <2>1, <2>3, <2>4 DEF TokensAreCovered
<1>5. ASSUME NEW l \in Levels, Relay(l)
      PROVE  TokensAreCovered'
  <2>1. /\ worker = "poll" /\ worker' = "goSem" /\ lqueue' = lqueue
        /\ loop' = loop /\ sem' = sem /\ goSem' = goSem
    BY <1>5 DEF Relay, Taken, loopVars
  <2>2. GO \in Messages \cap {GO}
    BY <1>5, TakenTypes DEF Relay
  <2>3. Len(hqueue') = Len(hqueue) + 1 /\ Len(lqueue) \in Nat /\ Len(hqueue) \in Nat
    BY <1>1, <1>5, <2>2 DEF Relay
  <2>4. Tokens' = Tokens + 1 /\ Tokens \in Nat
    BY <1>1, <2>1 DEF Tokens
  <2> QED
    BY <2>1, <2>3, <2>4 DEF TokensAreCovered
<1>6. CASE Signal
  <2>1. loop' = loop /\ lqueue' = lqueue /\ hqueue' = hqueue
    BY <1>6 DEF Signal, loopVars
  <2>2. CASE worker = "sem"
    <3>1. worker' = "poll" /\ sem' = sem + 1 /\ goSem' = goSem
      BY <1>6, <2>2 DEF Signal
    <3> QED
      BY <1>1, <2>1, <2>2, <3>1 DEF TokensAreCovered, Tokens
  <2>3. CASE worker = "goSem"
    <3>1. worker' = "poll" /\ sem' = sem /\ goSem' = goSem + 1
      BY <1>6, <2>3 DEF Signal
    <3> QED
      BY <1>1, <2>1, <2>3, <3>1 DEF TokensAreCovered, Tokens
  <2> QED
    BY <1>1, <1>6, <2>2, <2>3 DEF Signal
<1>7. CASE TakeToken
  <2>1. loop \in LoopStates
    BY DEF TypeInv, LoopTypes
  <2>2. Tokens' = Tokens
    BY <1>1, <1>7, <2>1 DEF TakeToken, Tokens, workerVars, LoopStates
  <2>3. lqueue' = lqueue /\ hqueue' = hqueue
    BY <1>7 DEF TakeToken
  <2> QED
    BY <2>2, <2>3 DEF TokensAreCovered
<1>8. CASE PollQueues
  <2>1. loop'.pc \notin {"poll", "pollgo"}
    BY <1>8 DEF PollQueues, Create, Start, Delay, Waiting
  <2>2. loop.pc \in {"poll", "pollgo"} /\ worker' = worker /\ sem' = sem /\ goSem' = goSem
    BY <1>8 DEF PollQueues, workerVars
  <2>3. \/ lqueue' = lqueue /\ hqueue # <<>> /\ hqueue' = Tail(hqueue)
        \/ hqueue' = hqueue /\ lqueue # <<>> /\ lqueue' = Tail(lqueue)
        \/ hqueue' = hqueue /\ lqueue' = lqueue
    BY <1>8 DEF PollQueues
  <2> QED
    BY <2>1, <2>2, <2>3, PollSpendsToken
<1>9. CASE PollStart
  <2>1. loop'.pc \notin {"poll", "pollgo"}
    BY <1>9 DEF PollStart, Create, Start, Delay, Waiting
  <2>2. loop.pc \in {"poll", "pollgo"} /\ worker' = worker /\ sem' = sem /\ goSem' = goSem
    BY <1>9 DEF PollStart, workerVars
  <2>3. \/ lqueue' = lqueue /\ hqueue # <<>> /\ hqueue' = Tail(hqueue)
        \/ hqueue' = hqueue /\ lqueue' = lqueue
    BY <1>9 DEF PollStart
  <2> QED
    BY <2>1, <2>2, <2>3, PollSpendsToken
<1>10. CASE Retry
  <2>1. loop.pc = "delay" /\ worker' = worker /\ UNCHANGED queueVars
    BY <1>10 DEF Retry, workerVars
  <2>2. loop'.pc \notin {"poll", "pollgo"}
    BY <1>10 DEF Retry, Start, Delay, GiveUp, Waiting
  <2> QED
    BY <2>1, <2>2 DEF queueVars, TokensAreCovered, Tokens
<1>11. CASE OtherTasks
  BY <1>11 DEF OtherTasks, workerVars, queueVars, TokensAreCovered, Tokens
<1>12. CASE UNCHANGED vars
  BY <1>12 DEF vars, workerVars, queueVars, loopVars, TokensAreCovered, Tokens
<1> QED
  BY <1>2, <1>3, <1>4, <1>5, <1>6, <1>7, <1>8, <1>9, <1>10, <1>11, <1>12, HandlersHandle
  DEF Next, Worker, EventLoop

(* Every token of globalinq's two semaphores, given out, about to be or    *)
(* spent on the poll under way, stands for a queued command.               *)
THEOREM TokensCovered == Spec => []TokensAreCovered
BY InitialTokens, TypesHold, TokensPreserved, PTL DEF Spec

(* The event loop never polls globalinq when it is empty, so it never      *)
(* blocks the main pthread for the 20 s of nn_poll.                        *)
THEOREM PollIsNeverEmpty == Spec => []PollFindsSomething
<1>1. TypeInv /\ TokensAreCovered => PollFindsSomething
  <2> SUFFICES ASSUME TypeInv, TokensAreCovered, loop.pc \in {"poll", "pollgo"}
               PROVE  Len(lqueue) + Len(hqueue) > 0
    BY DEF PollFindsSomething
  <2>1. sem \in Nat /\ goSem \in Nat
    BY DEF TypeInv, QueueTypes
  <2>2. Tokens \in Nat /\ Tokens > 0
    BY <2>1 DEF Tokens
  <2>3. Len(lqueue) \in Nat /\ Len(hqueue) \in Nat
    BY DEF TypeInv, QueueTypes
  <2> QED
    BY <2>2, <2>3 DEF TokensAreCovered
<1> QED
  BY <1>1, TypesHold, TokensCovered, PTL

(***************************************************************************)
(* No admitted command is swallowed or run twice                           *)
(***************************************************************************)

Places(s, a) == {i \in 1..Len(s) : s[i].act = a}

One(m, a) == IF m.act = a THEN 1 ELSE 0

LEMMA PlacesFinite ==
  ASSUME NEW s \in Seq(Requests), NEW a
  PROVE  IsFiniteSet(Places(s, a)) /\ Cardinality(Places(s, a)) \in Nat
<1>1. Places(s, a) \in SUBSET (1..Len(s))
  BY DEF Places
<1>2. IsFiniteSet(1..Len(s))
  BY FS_Interval
<1>3. IsFiniteSet(Places(s, a))
  BY <1>1, <1>2, FS_Subset
<1> QED
  BY <1>3, FS_CardinalityType

(* A command added at the end is one more of its id.                       *)
LEMMA PlacesAppend ==
  ASSUME NEW s \in Seq(Requests), NEW m \in Requests, NEW a
  PROVE  Cardinality(Places(Append(s, m), a)) = Cardinality(Places(s, a)) + One(m, a)
<1> DEFINE t == Append(s, m)
           n == Len(s) + 1
<1>1. /\ Len(t) = n /\ t[n] = m /\ n \in Nat
      /\ \A i \in 1..Len(s) : t[i] = s[i]
  OBVIOUS
<1> HIDE DEF t
<1>2. IsFiniteSet(Places(s, a)) /\ Cardinality(Places(s, a)) \in Nat
  BY PlacesFinite
<1>3. n \notin Places(s, a)
  BY DEF Places
<1>4. CASE m.act = a
  <2>1. Places(t, a) = Places(s, a) \cup {n}
    BY <1>1, <1>4 DEF Places
  <2> QED
    BY <1>2, <1>3, <1>4, <2>1, FS_AddElement DEF One, t
<1>5. CASE m.act # a
  <2>1. Places(t, a) = Places(s, a)
    BY <1>1, <1>5 DEF Places
  <2> QED
    BY <1>2, <1>5, <2>1 DEF One, t
<1> QED
  BY <1>4, <1>5

(* The command at the head is one of its id, and the others only move up.  *)
LEMMA PlacesTail ==
  ASSUME NEW s \in Seq(Requests), s # <<>>, NEW a
  PROVE  Cardinality(Places(s, a)) = Cardinality(Places(Tail(s), a)) + One(Head(s), a)
<1> DEFINE t == Tail(s)
           rest == Places(s, a) \ {1}
<1>1. /\ t \in Seq(Requests) /\ Len(s) \in Nat /\ Len(s) > 0 /\ Len(t) = Len(s) - 1
      /\ Head(s) = s[1]
      /\ \A i \in 1..Len(t) : t[i] = s[i + 1]
  OBVIOUS
<1> HIDE DEF t
<1>2. IsFiniteSet(Places(s, a)) /\ Cardinality(Places(s, a)) \in Nat
  BY PlacesFinite
<1>3. IsFiniteSet(Places(t, a)) /\ Cardinality(Places(t, a)) \in Nat
  BY <1>1, PlacesFinite
<1>4. Cardinality(rest) = Cardinality(Places(t, a))
  <2> DEFINE up == [i \in Places(t, a) |-> i + 1]
  <2>1. \A i \in Places(t, a) : i + 1 \in rest
    BY <1>1 DEF Places
  <2>2. \A j \in rest : j - 1 \in Places(t, a) /\ (j - 1) + 1 = j
    BY <1>1 DEF Places
  <2>3. up \in Injection(Places(t, a), rest)
    <3>1. up \in [Places(t, a) -> rest]
      BY <2>1
    <3>2. \A i, j \in Places(t, a) : up[i] = up[j] => i = j
      BY DEF Places
    <3> QED
      BY <3>1, <3>2 DEF Injection, IsInjective
  <2>4. up \in Surjection(Places(t, a), rest)
    BY <2>1, <2>2 DEF Surjection
  <2>5. up \in Bijection(Places(t, a), rest)
    BY <2>3, <2>4 DEF Bijection
  <2>6. ExistsBijection(Places(t, a), rest)
    BY <2>5 DEF ExistsBijection
  <2> QED
    BY <1>3, <2>6, FS_Bijection
<1>5. Cardinality(Places(s, a)) = Cardinality(rest) + One(Head(s), a)
  <2>1. 1 \in Places(s, a) <=> Head(s).act = a
    BY <1>1 DEF Places
  <2>2. Cardinality(rest) =
          IF 1 \in Places(s, a) THEN Cardinality(Places(s, a)) - 1 ELSE Cardinality(Places(s, a))
    BY <1>2, FS_RemoveElement
  <2> QED
    BY <1>2, <2>1, <2>2 DEF One
<1> QED
  BY <1>4, <1>5 DEF t

(* The hand is empty while the event loop waits for a command.             *)
HandEmpty == loop.pc \in {"wait", "poll"} => loop.cmd = Nothing

SwallowInv == HandEmpty /\ NothingSwallowed

LEMMA InHandCounts == \A a : Queued(a) = Cardinality(Places(lqueue, a)) /\ InHand(a) = One(loop.cmd, a)
BY DEF Queued, Places, InHand, One

LEMMA NotCounted == \A a \in Acts : One(Nothing, a) = 0 /\ One(GO, a) = 0
BY EventLoopAssumption DEF One, Nothing, GO

LEMMA InitialSwallow == Init => SwallowInv
<1> SUFFICES ASSUME Init
             PROVE  SwallowInv
  OBVIOUS
<1>1. HandEmpty
  BY DEF Init, HandEmpty, Waiting
<1>2. \A a \in Acts : Queued(a) = 0
  <2>1. 1..Len(lqueue) = {}
    BY DEF Init
  <2>2. \A a : {i \in 1..Len(lqueue) : lqueue[i].act = a} = {}
    BY <2>1
  <2> QED
    BY <2>2, FS_EmptySet DEF Queued
<1>3. \A a \in Acts : InHand(a) = 0
  BY EventLoopAssumption DEF Init, InHand, Waiting, Nothing
<1> QED
  BY <1>1, <1>2, <1>3 DEF Init, SwallowInv, NothingSwallowed

(* Starting m, waiting for a thread for it and giving it up put it in one  *)
(* of the places that are counted.                                         *)
LEMMA StartCounts ==
  ASSUME TypeInv, NEW m \in Messages, Start(m) \/ GiveUp(m), NEW a \in Acts
  PROVE  /\ started'[a] + lost'[a] + InHand(a)' = started[a] + lost[a] + One(m, a)
         /\ HandEmpty'
<1>1. started \in [Acts -> Nat] /\ lost \in [Acts -> Nat]
  BY DEF TypeInv, LoopTypes
<1>2. loop' = Waiting
  BY DEF Start, GiveUp
<1>3. InHand(a)' = 0 /\ HandEmpty'
  BY <1>2, NotCounted, InHandCounts DEF Waiting, HandEmpty, InHand, One
<1>4. CASE m = GO
  BY <1>1, <1>3, <1>4, NotCounted DEF Start, GiveUp
<1>5. CASE m # GO
  <2>1. m.act \in Acts
    BY <1>5, MessageTypes
  <2>2. \/ started' = [started EXCEPT ![m.act] = @ + 1] /\ lost' = lost
        \/ lost' = [lost EXCEPT ![m.act] = @ + 1] /\ started' = started
    BY <1>5 DEF Start, GiveUp
  <2>3. started'[a] + lost'[a] = started[a] + lost[a] + One(m, a)
    BY <1>1, <2>1, <2>2 DEF One
  <2>4. started'[a] + lost'[a] \in Nat
    BY <1>1, <2>1, <2>2
  <2> QED
    BY <1>3, <2>3, <2>4
<1> QED
  BY <1>4, <1>5

LEMMA DelayCounts ==
  ASSUME TypeInv, NEW m \in Messages, NEW n, Delay(m, n), NEW a \in Acts
  PROVE  /\ started'[a] + lost'[a] + InHand(a)' = started[a] + lost[a] + One(m, a)
         /\ HandEmpty'
BY DEF Delay, InHand, One, HandEmpty

LEMMA CreateCounts ==
  ASSUME TypeInv, NEW m \in Messages, Create(m), NEW a \in Acts
  PROVE  /\ started'[a] + lost'[a] + InHand(a)' = started[a] + lost[a] + One(m, a)
         /\ HandEmpty'
BY StartCounts, DelayCounts DEF Create

(* A step that moves what it counts from one place to another.             *)
LEMMA AdmitSwallow ==
  ASSUME TypeInv, SwallowInv, NEW l \in Levels, Admit(l)
  PROVE  SwallowInv'
<1>1. /\ lqueue \in Seq(Requests) /\ admitted \in [Acts -> Nat]
      /\ started \in [Acts -> Nat] /\ lost \in [Acts -> Nat]
  BY DEF TypeInv, QueueTypes, WorkerTypes, LoopTypes
<1>2. Incoming(l) \in Requests /\ Incoming(l).act \in Acts
  BY TakenTypes, MessageTypes DEF Admit
<1>3. /\ lqueue' = Append(lqueue, Incoming(l))
      /\ admitted' = [admitted EXCEPT ![Incoming(l).act] = @ + 1]
      /\ loop' = loop /\ started' = started /\ lost' = lost
  BY DEF Admit, Taken, loopVars
<1> SUFFICES ASSUME NEW a \in Acts
             PROVE  admitted'[a] = Queued(a)' + InHand(a)' + started'[a] + lost'[a]
  BY <1>3 DEF SwallowInv, HandEmpty, NothingSwallowed
<1>4. Queued(a)' = Queued(a) + One(Incoming(l), a) /\ Queued(a) \in Nat
  <2>1. Queued(a) = Cardinality(Places(lqueue, a)) /\ Queued(a)' = Cardinality(Places(lqueue', a))
    BY DEF Queued, Places
  <2>2. Cardinality(Places(lqueue', a)) = Cardinality(Places(lqueue, a)) + One(Incoming(l), a)
    BY <1>1, <1>2, <1>3, PlacesAppend
  <2> QED
    BY <1>1, <2>1, <2>2, PlacesFinite
<1>5. admitted'[a] = admitted[a] + One(Incoming(l), a)
  BY <1>1, <1>2, <1>3 DEF One
<1>6. InHand(a)' = InHand(a) /\ InHand(a) \in Nat
  BY <1>3 DEF InHand
<1>7. One(Incoming(l), a) \in Nat
  BY DEF One
<1> QED
  BY <1>1, <1>3, <1>4, <1>5, <1>6, <1>7 DEF SwallowInv, NothingSwallowed

LEMMA PollQueuesSwallow ==
  ASSUME TypeInv, SwallowInv, PollQueues
  PROVE  SwallowInv'
<1> DEFINE high == hqueue # <<>>
           m == IF high THEN Head(hqueue) ELSE Head(lqueue)
<1>1. /\ lqueue \in Seq(Requests) /\ hqueue \in Seq(Messages \cap {GO})
      /\ admitted \in [Acts -> Nat] /\ started \in [Acts -> Nat] /\ lost \in [Acts -> Nat]
  BY DEF TypeInv, QueueTypes, WorkerTypes, LoopTypes
<1>2. loop.cmd = Nothing /\ admitted' = admitted
  BY DEF PollQueues, SwallowInv, HandEmpty, workerVars
<1>3. high => m = GO /\ m \in Messages /\ lqueue' = lqueue
  BY <1>1 DEF PollQueues
<1>4. ~high /\ lqueue # <<>> => m = Head(lqueue) /\ m \in Messages /\ lqueue' = Tail(lqueue)
  BY <1>1, MessageTypes DEF PollQueues
<1>5. ~high /\ lqueue = <<>> =>
        lqueue' = lqueue /\ loop' = Waiting /\ UNCHANGED <<busy, fault, started, lost>>
  BY DEF PollQueues
<1>6. high \/ lqueue # <<>> =>
        \/ /\ loop' = [pc |-> "go", cmd |-> m, try |-> 0]
           /\ UNCHANGED <<busy, fault, started, lost>>
        \/ Create(m)
  BY DEF PollQueues
<1> HIDE DEF high, m
<1>7. CASE ~high /\ lqueue = <<>>
  <2>1. SwallowInv' <=> HandEmpty' /\ \A a \in Acts : admitted'[a] = Queued(a)' + InHand(a)' + started'[a] + lost'[a]
    BY DEF SwallowInv, NothingSwallowed
  <2>2. HandEmpty'
    BY <1>5, <1>7 DEF HandEmpty, Waiting
  <2>3. \A a \in Acts : InHand(a)' = InHand(a) /\ Queued(a)' = Queued(a)
    BY <1>2, <1>5, <1>7 DEF InHand, Queued, Waiting
  <2> QED
    BY <1>2, <1>5, <1>7, <2>1, <2>2, <2>3 DEF SwallowInv, NothingSwallowed
<1>8. CASE high \/ lqueue # <<>>
  <2>1. m \in Messages
    BY <1>3, <1>4, <1>8
  <2>2. ASSUME NEW a \in Acts
        PROVE  /\ started'[a] + lost'[a] + InHand(a)' = started[a] + lost[a] + One(m, a)
               /\ HandEmpty'
    <3>1. CASE loop' = [pc |-> "go", cmd |-> m, try |-> 0] /\ UNCHANGED <<busy, fault, started, lost>>
      BY <3>1 DEF InHand, One, HandEmpty
    <3> QED
      BY <1>6, <1>8, <2>1, <3>1, CreateCounts
  <2>3. HandEmpty'
    <3>1. CASE loop' = [pc |-> "go", cmd |-> m, try |-> 0]
      BY <3>1 DEF HandEmpty
    <3>2. CASE Create(m)
      BY <3>2 DEF Create, Start, Delay, Waiting, HandEmpty
    <3> QED
      BY <1>6, <1>8, <3>1, <3>2
  <2>4. ASSUME NEW a \in Acts
        PROVE  Queued(a) = Queued(a)' + One(m, a) /\ Queued(a)' \in Nat
    <3>1. lqueue' \in Seq(Requests)
      <4>1. lqueue # <<>> => Tail(lqueue) \in Seq(Requests)
        BY <1>1
      <4> QED
        BY <1>1, <1>3, <1>4, <1>8, <4>1
    <3>2. Queued(a)' \in Nat
      BY <3>1, PlacesFinite DEF Queued, Places
    <3>3. CASE high
      BY <1>3, <3>2, <3>3, NotCounted DEF Queued
    <3>4. CASE ~high
      <4>1. lqueue # <<>> /\ m = Head(lqueue) /\ lqueue' = Tail(lqueue)
        BY <1>4, <1>8, <3>4
      <4> QED
        BY <1>1, <3>2, <4>1, PlacesTail DEF Queued, Places
    <3> QED
      BY <3>2, <3>3, <3>4
  <2> SUFFICES ASSUME NEW a \in Acts
               PROVE  admitted'[a] = Queued(a)' + InHand(a)' + started'[a] + lost'[a]
    BY <2>3 DEF SwallowInv, NothingSwallowed
  <2>5. admitted[a] = Queued(a) + started[a] + lost[a]
    <3>1. admitted[a] = Queued(a) + InHand(a) + started[a] + lost[a] /\ InHand(a) = 0
      BY <1>2, NotCounted, InHandCounts DEF SwallowInv, NothingSwallowed
    <3>2. Queued(a) \in Nat /\ started[a] \in Nat /\ lost[a] \in Nat
      BY <1>1, PlacesFinite DEF Queued, Places
    <3> QED
      BY <3>1, <3>2
  <2>6. /\ started[a] \in Nat /\ lost[a] \in Nat /\ One(m, a) \in Nat
        /\ InHand(a)' \in Nat
    BY <1>1 DEF One, InHand
  <2>7. LoopTypes'
    BY PollQueuesTypes DEF TypeInv
  <2>8. started'[a] \in Nat /\ lost'[a] \in Nat
    BY <2>7 DEF LoopTypes
  <2> QED
    BY <1>2, <2>2, <2>4, <2>5, <2>6, <2>8
<1> QED
  BY <1>7, <1>8

(* The command in hand is started, waits on or is given up.                *)
LEMMA HandSwallow ==
  ASSUME TypeInv, TypeInv', SwallowInv, admitted' = admitted, lqueue' = lqueue,
         loop.cmd \in Messages,
         \/ Create(loop.cmd)
         \/ \E n \in 0..4 : Start(loop.cmd) \/ Delay(loop.cmd, n)
         \/ GiveUp(loop.cmd)
  PROVE  SwallowInv'
<1>1. /\ lqueue \in Seq(Requests) /\ admitted \in [Acts -> Nat]
      /\ started \in [Acts -> Nat] /\ lost \in [Acts -> Nat]
      /\ started' \in [Acts -> Nat] /\ lost' \in [Acts -> Nat]
  BY DEF TypeInv, QueueTypes, WorkerTypes, LoopTypes
<1>2. ASSUME NEW a \in Acts
      PROVE  /\ started'[a] + lost'[a] + InHand(a)' = started[a] + lost[a] + One(loop.cmd, a)
             /\ HandEmpty'
  BY StartCounts, DelayCounts, CreateCounts
<1>3. HandEmpty'
  BY DEF Create, Start, Delay, GiveUp, Waiting, HandEmpty
<1> SUFFICES ASSUME NEW a \in Acts
             PROVE  admitted'[a] = Queued(a)' + InHand(a)' + started'[a] + lost'[a]
  BY <1>3 DEF SwallowInv, NothingSwallowed
<1>4. Queued(a)' = Queued(a) /\ Queued(a) \in Nat
  BY <1>1, PlacesFinite DEF Queued, Places
<1>5. InHand(a) = One(loop.cmd, a) /\ InHand(a) \in Nat /\ InHand(a)' \in Nat
  BY DEF InHand, One
<1>6. admitted[a] = Queued(a) + InHand(a) + started[a] + lost[a]
  BY DEF SwallowInv, NothingSwallowed
<1>7. /\ started[a] \in Nat /\ lost[a] \in Nat /\ started'[a] \in Nat /\ lost'[a] \in Nat
      /\ started'[a] + lost'[a] + InHand(a)' = started[a] + lost[a] + One(loop.cmd, a)
  BY <1>1, <1>2
<1> QED
  BY <1>4, <1>5, <1>6, <1>7

LEMMA SwallowUnchanged ==
  ASSUME SwallowInv, UNCHANGED <<admitted, lqueue, loop, started, lost>>
  PROVE  SwallowInv'
<1>1. \A a : Queued(a)' = Queued(a) /\ InHand(a)' = InHand(a)
  BY DEF Queued, InHand
<1> QED
  BY <1>1 DEF SwallowInv, HandEmpty, NothingSwallowed

LEMMA SwallowPreserved == TypeInv /\ SwallowInv /\ [Next]_vars => SwallowInv'
<1> SUFFICES ASSUME TypeInv, SwallowInv, [Next]_vars
             PROVE  SwallowInv'
  OBVIOUS
<1>1. TypeInv'
  BY TypesPreserved
<1>2. CASE \E l \in Levels, m \in Messages : Arrive(l, m)
  BY <1>2, SwallowUnchanged DEF Arrive, queueVars, loopVars
<1>3. CASE \E l \in Levels : Discard(l) \/ Refuse(l) \/ Relay(l)
  BY <1>3, SwallowUnchanged DEF Discard, Refuse, Relay, Taken, loopVars
<1>4. CASE \E l \in Levels : Admit(l)
  BY <1>4, AdmitSwallow
<1>5. CASE Signal
  BY <1>5, SwallowUnchanged DEF Signal, loopVars
<1>6. CASE TakeToken
  <2>1. /\ UNCHANGED <<admitted, lqueue, started, lost>>
        /\ loop \in LoopStates
        /\ \/ loop.pc = "wait" /\ loop' = [loop EXCEPT !.pc = "poll"]
           \/ loop.pc = "go" /\ loop' = [loop EXCEPT !.pc = "pollgo"]
    BY <1>6 DEF TakeToken, workerVars, TypeInv, LoopTypes
  <2>2. loop'.cmd = loop.cmd /\ HandEmpty'
    BY <2>1 DEF LoopStates, SwallowInv, HandEmpty
  <2>3. \A a : Queued(a)' = Queued(a) /\ InHand(a)' = InHand(a)
    BY <2>1, <2>2 DEF Queued, InHand
  <2> QED
    BY <2>1, <2>2, <2>3 DEF SwallowInv, NothingSwallowed
<1>7. CASE PollQueues
  BY <1>7, PollQueuesSwallow
<1>8. CASE PollStart
  <2>1. Create(loop.cmd) /\ admitted' = admitted /\ lqueue' = lqueue /\ loop.cmd \in Messages
    BY <1>8 DEF PollStart, workerVars, TypeInv, InHandOK
  <2> QED
    BY <1>1, <2>1, HandSwallow
<1>9. CASE Retry
  <2>1. admitted' = admitted /\ lqueue' = lqueue /\ loop.cmd \in Messages /\ loop.try \in 0..3
    BY <1>9 DEF Retry, workerVars, queueVars, TypeInv, InHandOK, LoopTypes, LoopStates
  <2>2. \/ \E n \in 0..4 : Start(loop.cmd) \/ Delay(loop.cmd, n)
        \/ GiveUp(loop.cmd)
    <3>1. loop.try + 1 \in 0..4
      BY <2>1
    <3> QED
      BY <1>9, <3>1 DEF Retry
  <2> QED
    BY <1>1, <2>1, <2>2, HandSwallow
<1>10. CASE OtherTasks
  BY <1>10, SwallowUnchanged DEF OtherTasks, workerVars, queueVars
<1>11. CASE UNCHANGED vars
  BY <1>11, SwallowUnchanged DEF vars, workerVars, queueVars, loopVars
<1> QED
  BY <1>2, <1>3, <1>4, <1>5, <1>6, <1>7, <1>8, <1>9, <1>10, <1>11, HandlersHandle
  DEF Next, Worker, EventLoop

(* Whatever the levels send and however many threads there are, every      *)
(* command the worker admits is queued, held by the event loop, started    *)
(* once, or dropped for want of a thread: p2queue_deq, p2queue_deq_high    *)
(* and jam_event_loop lose none and start none twice.                      *)
THEOREM NoRequestSwallowed == Spec => []NothingSwallowed
<1>1. SwallowInv => NothingSwallowed
  BY DEF SwallowInv
<1> QED
  BY <1>1, InitialSwallow, TypesHold, SwallowPreserved, PTL DEF Spec

(***************************************************************************)
(* Admission under the worker, the event loop and the other tasks          *)
(***************************************************************************)

LEMMA AdmissionPreserved == TypeInv /\ AdmissionInv /\ [Next]_vars => AdmissionInv'
<1> SUFFICES ASSUME TypeInv, AdmissionInv, [Next]_vars
             PROVE  AdmissionInv'
  OBVIOUS
<1>1. ASSUME NEW l \in Levels, Refuse(l) \/ Admit(l)
      PROVE  AdmissionInv'
  <2>1. Taken(l) /\ Incoming(l) # GO
    BY <1>1 DEF Refuse, Admit
  <2>2. Incoming(l) \in Messages
    BY <2>1, TakenTypes
  <2>3. PICK a \in Acts : a = Incoming(l).act
    BY <2>1, <2>2, MessageTypes
  <2>4. ~Cached(a) /\ Remember(a)
    BY <1>1, <2>3 DEF Refuse, Admit
  <2> QED
    BY <2>4, RememberStep
<1>2. CASE Retry
  BY <1>2, NoThreadFoundStep, AdmissionStutter DEF Retry, GiveUp
<1>3. CASE OtherTasks
  BY <1>3, ActivityFreeStep, AdmissionStutter DEF OtherTasks
<1>4. CASE UNCHANGED admissionVars
  BY <1>4, AdmissionStutter
<1>5. ASSUME NEW l \in Levels, Discard(l) \/ Relay(l)
      PROVE  UNCHANGED admissionVars
  BY <1>5 DEF Discard, Relay
<1>6. (\E l \in Levels, m \in Messages : Arrive(l, m)) \/ Signal => UNCHANGED admissionVars
  BY DEF Arrive, Signal
<1>7. TakeToken \/ PollQueues \/ PollStart => UNCHANGED admissionVars
  BY DEF TakeToken, PollQueues, PollStart
<1>8. UNCHANGED vars => UNCHANGED admissionVars
  BY DEF vars
<1> QED
  BY <1>1, <1>2, <1>3, <1>4, <1>5, <1>6, <1>7, <1>8, HandlersHandle
  DEF Next, Worker, EventLoop

LEMMA AdmissionHolds == Spec => []AdmissionInv
<1>1. Init => AdmissionInv
  BY AdmissionInitial DEF Init
<1> QED
  BY <1>1, TypesHold, AdmissionPreserved, PTL DEF Spec

(* The cache of duplicate_detect holds the ids let in last, whatever its   *)
(* size.                                                                   *)
THEOREM RecentIdsCached == Spec => []AdmissionOK
<1>1. AdmissionInv => AdmissionOK
  BY DEF AdmissionInv
<1> QED
  BY <1>1, AdmissionHolds, PTL

(* However many levels relay a request and however the event loop keeps    *)
(* up, the worker lets the same id in again only after CacheSize others.   *)
THEOREM NoIdRepeatsEarly == Spec => []NoEarlyRepeat
<1>1. AdmissionInv => NoEarlyRepeat
  BY DEF AdmissionInv
<1> QED
  BY <1>1, AdmissionHolds, PTL

(* odcount stays within a step of its limits, whatever their values and    *)
(* however requests fail and activities are freed.                         *)
THEOREM DetectorBounded == Spec => []OdcountBounded
<1>1. AdmissionInv => OdcountBounded
  BY DEF AdmissionInv
<1> QED
  BY <1>1, AdmissionHolds, PTL
=============================================================================
