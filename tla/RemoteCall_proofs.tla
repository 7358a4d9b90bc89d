-------------------------- MODULE RemoteCall_proofs --------------------------
(***************************************************************************)
(* Theorems about RemoteCall, for every number of threads and callers and  *)
(* every bound: its variables keep their types, its threads are handed out *)
(* as ThreadPool says, timers follow their threads, no sync caller is      *)
(* forgotten and threads come back.                                        *)
(***************************************************************************)
EXTENDS RemoteCall, WellFoundedInduction, SequenceTheorems, TLAPS

(***************************************************************************)
(* Lemmas about the helpers                                                *)
(***************************************************************************)

(* 0 stands for no thread and for no activity.                             *)
LEMMA NotZero == NoThread \notin Threads /\ 0 \notin Threads /\ 0 \notin Acts
BY DEF NoThread, Threads, Acts

(* First picks a member of a set of threads that has one.                  *)
LEMMA FirstMember ==
  ASSUME NEW S \in SUBSET Threads
  PROVE  IF S = {} THEN First(S) = NoThread ELSE First(S) \in S
<1>1. CASE S = {}
  BY <1>1 DEF First
<1>2. CASE S # {}
  <2>1. S \in SUBSET Nat
    BY ConstantsAssumption DEF Threads
  <2> DEFINE less == OpToRel(<, Nat)
  <2>2. \E t \in S : \A u \in S : <<u, t>> \notin less
    <3>1. IsWellFoundedOn(less, Nat)
      BY NatLessThanWellFounded
    <3> HIDE DEF less
    <3>2. QED
      BY <1>2, <2>1, <3>1, WFMin
  <2>3. \E t \in S : \A u \in S : t <= u
    <3>1. \A t, u \in Nat : <<u, t>> \notin less => t <= u
      BY DEF OpToRel
    <3>2. QED
      BY <2>1, <2>2, <3>1
  <2>4. QED
    BY <1>2, <2>3 DEF First
<1>3. QED
  BY <1>1, <1>2

(* athread_get returns the activity's own thread if it has one, an idle    *)
(* one otherwise, and NULL only if there is neither.                       *)
LEMMA ThreadGot ==
  ASSUME NEW a, jindx \in [Threads -> Acts \cup {0}]
  PROVE  \/ /\ athread_get(a) \in Threads
            /\ jindx[athread_get(a)] = a
         \/ /\ athread_get(a) \in Threads
            /\ jindx[athread_get(a)] = 0
            /\ \A t \in Threads : jindx[t] # a
         \/ /\ athread_get(a) = NoThread
            /\ \A t \in Threads : jindx[t] # a /\ jindx[t] # 0
<1> DEFINE own == {t \in Threads : jindx[t] = a}
           idle == {t \in Threads : jindx[t] = 0}
<1>1. CASE own # {}
  <2>1. athread_get(a) = First(own)
    BY <1>1 DEF athread_get
  <2>2. First(own) \in own
    BY <1>1, FirstMember
  <2>3. QED
    BY <2>1, <2>2
<1>2. CASE own = {}
  <2>1. athread_get(a) = First(idle)
    BY <1>2 DEF athread_get
  <2>2. \A t \in Threads : jindx[t] # a
    BY <1>2
  <2>3. IF idle = {} THEN First(idle) = NoThread ELSE First(idle) \in idle
    BY FirstMember
  <2>4. QED
    BY <2>1, <2>2, <2>3
<1>3. QED
  BY <1>1, <1>2

(* athread_getbyindx returns the activity's own thread or NULL.            *)
LEMMA ThreadFound ==
  ASSUME NEW a, jindx \in [Threads -> Acts \cup {0}], Derefs(a)
  PROVE  \/ athread_getbyindx(a) = NoThread
         \/ athread_getbyindx(a) \in Threads /\ jindx[athread_getbyindx(a)] = a
BY ThreadGot DEF Derefs, athread_getbyindx

(* What jam_set_timer and jam_clear_timer queue are timer commands.        *)
LEMMA TimerQueueType ==
  ASSUME NEW q \in Seq(TimerCommands), NEW a \in Acts,
         jindx \in [Threads -> Acts \cup {0}]
  PROVE  /\ jam_clear_timer(q, a) \in Seq(TimerCommands)
         /\ jam_set_timer(q, a) \in Seq(TimerCommands)
         /\ \A t \in Threads : Append(q, SetTimer(a, t)) \in Seq(TimerCommands)
<1>1. ClearTimer(a) \in TimerCommands /\ \A t \in Threads : SetTimer(a, t) \in TimerCommands
  BY DEF ClearTimer, SetTimer, TimerCommands
<1>2. QED
  BY <1>1, ThreadFound, AppendProperties DEF jam_clear_timer, jam_set_timer

(* Taking from one queue of a family, and adding to one.                   *)
LEMMA Popped ==
  ASSUME NEW S, NEW T, NEW q \in [T -> Seq(S)], NEW t \in T, q[t] # <<>>
  PROVE  /\ Head(q[t]) \in S
         /\ [q EXCEPT ![t] = Tail(@)] \in [T -> Seq(S)]
<1>1. q[t] \in Seq(S)
  OBVIOUS
<1>2. Head(q[t]) \in S /\ Tail(q[t]) \in Seq(S)
  BY <1>1, HeadTailProperties
<1>3. QED
  BY <1>2

LEMMA Pushed ==
  ASSUME NEW S, NEW T, NEW q \in [T -> Seq(S)], NEW t \in T, NEW x \in S
  PROVE  [q EXCEPT ![t] = Append(@, x)] \in [T -> Seq(S)]
<1>1. Append(q[t], x) \in Seq(S)
  BY AppendProperties
<1>2. QED
  BY <1>1

(* The same for the three queues of an activity thread.                    *)
LEMMA QueueSteps ==
  ASSUME QueuesOK, NEW t \in Threads
  PROVE  /\ \A m \in Messages : [inq EXCEPT ![t] = Append(@, m)] \in [Threads -> Seq(Messages)]
         /\ \A a \in Acts : [outq EXCEPT ![t] = Append(@, a)] \in [Threads -> Seq(Acts)]
         /\ \A r \in Results :
              [resultq EXCEPT ![t] = Append(@, r)] \in [Threads -> Seq(Results)]
         /\ inq[t] # <<>> =>
              /\ Head(inq[t]) \in Messages
              /\ [inq EXCEPT ![t] = Tail(@)] \in [Threads -> Seq(Messages)]
         /\ outq[t] # <<>> =>
              /\ Head(outq[t]) \in Acts
              /\ [outq EXCEPT ![t] = Tail(@)] \in [Threads -> Seq(Acts)]
         /\ resultq[t] # <<>> =>
              /\ Head(resultq[t]) \in Results
              /\ [resultq EXCEPT ![t] = Tail(@)] \in [Threads -> Seq(Results)]
<1> USE DEF QueuesOK
<1>1. \A m \in Messages : [inq EXCEPT ![t] = Append(@, m)] \in [Threads -> Seq(Messages)]
  BY Pushed
<1>2. \A a \in Acts : [outq EXCEPT ![t] = Append(@, a)] \in [Threads -> Seq(Acts)]
  BY Pushed
<1>3. \A r \in Results :
        [resultq EXCEPT ![t] = Append(@, r)] \in [Threads -> Seq(Results)]
  BY Pushed
<1>4. inq[t] # <<>> =>
        /\ Head(inq[t]) \in Messages
        /\ [inq EXCEPT ![t] = Tail(@)] \in [Threads -> Seq(Messages)]
  BY Popped
<1>5. outq[t] # <<>> =>
        /\ Head(outq[t]) \in Acts
        /\ [outq EXCEPT ![t] = Tail(@)] \in [Threads -> Seq(Acts)]
  BY Popped
<1>6. resultq[t] # <<>> =>
        /\ Head(resultq[t]) \in Results
        /\ [resultq EXCEPT ![t] = Tail(@)] \in [Threads -> Seq(Results)]
  BY Popped
<1>7. QED
  BY <1>1, <1>2, <1>3, <1>4, <1>5, <1>6

(***************************************************************************)
(* The inductive invariant                                                 *)
(***************************************************************************)

(* Whoever is in the middle of something has an activity to do it for.     *)
InHand ==
  /\ \A t \in Threads : run[t].pc # "top" => jindx[t] # 0
  /\ \A c \in Callers : task[c].pc # "idle" => task[c].act # 0
  /\ \A c \in Callers : task[c].pc = "wait" => task[c].thr # NoThread
  /\ worker.pc # "poll" => worker.msg \in Replies
  /\ worker.pc = "enq" => worker.thr # NoThread

(* Every number in use was taken from the counter.                         *)
Numbered ==
  /\ \A t \in Threads : jindx[t] < jcounter
  /\ \A c \in Callers : task[c].act < jcounter

TypeInv == CallsOK /\ InHand /\ Numbered

(* A caller's activity is its own, and has no thread while the caller waits *)
(* for one.                                                                *)
Waiting ==
  /\ \A c \in Callers : task[c].pc = "delay" => \A t \in Threads : jindx[t] # task[c].act
  /\ \A c, d \in Callers : task[c].pc # "idle" /\ task[d].act = task[c].act => d = c

(* The kinds of the activities agree with what their callers and threads   *)
(* are doing.                                                              *)
KindsAgree ==
  /\ \A a \in Acts : kind[a] # "missing"
  /\ \A c \in Callers : task[c].pc = "wait" =>
       task[c].kind \in {"sync", "async"} /\ kind[task[c].act] = task[c].kind
  /\ \A t \in Threads :
       /\ run[t].pc = "result" => kind[jindx[t]] = "sync"
       /\ run[t].pc = "ack" => kind[jindx[t]] \in {"async", "lexec"}
       /\ run[t].pc \in {"callback", "sleep", "woken"} =>
            kind[jindx[t]] \in {"lexec", "remote", "none"} \/ jindx[t] \in hijacked

(* Where a thread is while its timer runs.                                 *)
Timed(a, t) ==
  /\ jindx[t] = a
  /\ kind[a] \in {"remote", "none"} => run[t].pc = "sleep"
  /\ kind[a] = "lexec" => run[t].pc \in {"ack", "sleep"}

TimersInv ==
  \A a \in Acts, t \in Threads : WillBeArmed(a, t) => Timed(a, t) \/ a \in hijacked

TimedInv == OneThreadPerActivity /\ Waiting /\ KindsAgree /\ TimersInv

(***************************************************************************)
(* Types                                                                   *)
(***************************************************************************)

LEMMA TypeInit == Init => TypeInv
<1> SUFFICES ASSUME Init PROVE TypeInv
  OBVIOUS
<1>1. TableOK /\ Numbered
  BY ConstantsAssumption DEF Init, TableOK, Numbered, Idle
<1>2. QueuesOK
  BY DEF Init, QueuesOK
<1>3. run \in [Threads -> RunStates]
  BY DEF Init, AtTop, RunStates
<1>4. task \in [Callers -> TaskStates]
  BY DEF Init, TaskStates, Idle, Tries
<1>5. WorkerOK
  BY ConstantsAssumption DEF Init, WorkerOK, WorkerStates
<1>6. TimerOK
  BY DEF Init, TimerOK
<1>7. InHand
  BY DEF Init, InHand, Idle, AtTop
<1>8. fault \in BOOLEAN
  BY DEF Init
<1>9. QED
  BY <1>1, <1>2, <1>3, <1>4, <1>5, <1>6, <1>7, <1>8 DEF TypeInv, CallsOK

LEMMA IdleState == Idle \in TaskStates /\ Idle.pc = "idle" /\ Idle.act = 0
BY DEF Idle, TaskStates, Tries

(* The end of activity_new, on thread t for the activity numbered a, and   *)
(* the start of what its caller does.                                      *)
LEMMA LaunchType ==
  ASSUME TypeInv, NEW c \in Callers, NEW k \in AllKinds, NEW a \in Acts, NEW t \in Threads,
         Launch(c, k, a, t), a < jcounter', jcounter' >= jcounter,
         UNCHANGED <<resultq, run, workerVars, armed, due>>,
         jcounter' \in 1..(MaxActs + 1), fault' \in BOOLEAN
  PROVE  TypeInv'
<1>1. /\ TableOK /\ QueuesOK /\ WorkerOK /\ TimerOK
      /\ run \in [Threads -> RunStates] /\ task \in [Callers -> TaskStates]
      /\ InHand /\ Numbered
  BY DEF TypeInv, CallsOK
<1>2. /\ jindx' = [jindx EXCEPT ![t] = a]
      /\ alist' = alist \cup {a}
      /\ Send(c, k, a, t) \/ GiveUp(c, k) \/ RunHere(c, k, a, t)
  BY DEF Launch
<1>3. TableOK'
  <2>1. kind' = kind \/ kind' = [kind EXCEPT ![a] = k]
    BY <1>2 DEF Send, GiveUp, RunHere
  <2>2. QED
    BY <1>1, <1>2, <2>1 DEF TableOK
<1>4. QueuesOK'
  <2>1. inq' \in [Threads -> Seq(Messages)]
    <3>1. \A m \in {"LEXEC", "REXEC"} :
            [inq EXCEPT ![t] = Append(@, [kind |-> m, act |-> a])] \in [Threads -> Seq(Messages)]
      BY <1>1, QueueSteps DEF Messages
    <3>2. QED
      BY <1>1, <1>2, <3>1 DEF QueuesOK, Send, GiveUp, RunHere
  <2>2. outq' \in [Threads -> Seq(Acts)]
    <3>1. [outq EXCEPT ![t] = Append(@, a)] \in [Threads -> Seq(Acts)]
      BY <1>1, QueueSteps
    <3>2. outq' = outq \/ outq' = [outq EXCEPT ![t] = Append(@, a)]
      BY <1>2 DEF Send, GiveUp, RunHere
    <3>3. QED
      BY <1>1, <3>1, <3>2 DEF QueuesOK
  <2>3. QED
    BY <1>1, <2>1, <2>2 DEF QueuesOK
<1>5. PICK s \in TaskStates :
        /\ task' = [task EXCEPT ![c] = s]
        /\ s.pc \in {"idle", "wait"}
        /\ s.act \in {0, a}
        /\ s.pc = "wait" => s.act = a /\ s.thr = t
  <2>1. CASE Send(c, k, a, t)
    <3>1. [pc |-> "wait", act |-> a, thr |-> t, try |-> 1, kind |-> k] \in TaskStates
      BY DEF TaskStates, Tries
    <3>2. QED
      BY <2>1, <3>1 DEF Send
  <2>2. CASE task' = [task EXCEPT ![c] = Idle]
    BY <2>2, IdleState
  <2>3. QED
    BY <1>2, <2>1, <2>2 DEF GiveUp, RunHere
<1>6. TimerOK'
  <2>1. Append(timerqueue, SetTimer(a, t)) \in Seq(TimerCommands)
    BY <1>1, TimerQueueType DEF TableOK, TimerOK
  <2>2. timerqueue' = timerqueue \/ timerqueue' = Append(timerqueue, SetTimer(a, t))
    BY <1>2 DEF Send, GiveUp, RunHere
  <2>3. QED
    BY <1>1, <2>1, <2>2 DEF TimerOK
<1>8. CallsOK'
  BY <1>1, <1>3, <1>4, <1>5, <1>6 DEF CallsOK, WorkerOK, workerVars
<1>9. InHand'
  <2>1. \A u \in Threads : run'[u].pc # "top" => jindx'[u] # 0
    BY <1>1, <1>2, NotZero DEF TableOK, InHand
  <2>2. \A d \in Callers : /\ task'[d].pc # "idle" => task'[d].act # 0
                           /\ task'[d].pc = "wait" => task'[d].thr # NoThread
    BY <1>1, <1>5, NotZero DEF InHand
  <2>3. QED
    BY <1>1, <2>1, <2>2 DEF InHand, workerVars
<1>10. Numbered'
  <2>1. \A n \in Acts \cup {0} : n < jcounter => n < jcounter'
    BY ConstantsAssumption, <1>1 DEF Acts, TableOK
  <2>2. 0 < jcounter'
    OBVIOUS
  <2>3. \A u \in Threads : jindx'[u] < jcounter'
    BY <1>1, <1>2, <2>1 DEF Numbered, TableOK
  <2>4. \A d \in Callers : task[d].act \in Acts \cup {0}
    BY <1>1 DEF TaskStates
  <2>5. \A d \in Callers : task'[d].act < jcounter'
    BY <1>1, <1>5, <2>1, <2>2, <2>4 DEF Numbered
  <2>6. QED
    BY <2>3, <2>5 DEF Numbered
<1>11. QED
  BY <1>8, <1>9, <1>10 DEF TypeInv

LEMMA CallType ==
  ASSUME TypeInv, NEW c \in Callers, NEW k \in Kinds, Call(c, k)
  PROVE  TypeInv'
<1> DEFINE a == jcounter
           t == athread_get(a)
<1>1. /\ TableOK /\ QueuesOK /\ WorkerOK /\ TimerOK
      /\ run \in [Threads -> RunStates] /\ task \in [Callers -> TaskStates]
      /\ InHand /\ Numbered /\ fault \in BOOLEAN
  BY DEF TypeInv, CallsOK
<1>2. a \in Acts /\ jcounter' = a + 1 /\ jcounter' \in 1..(MaxActs + 1)
  BY <1>1, ConstantsAssumption DEF Call, TableOK, Acts
<1>3. k \in AllKinds
  BY ConstantsAssumption
<1>4. fault' \in BOOLEAN
  BY <1>1, Zenon DEF Call, Running
<1>5. UNCHANGED <<resultq, run, workerVars, armed, due>>
  BY DEF Call
<1>6. CASE t # NoThread /\ Launch(c, k, a, t)
  <2>1. t \in Threads
    BY <1>1, <1>6, ThreadGot DEF TableOK
  <2>2. a < jcounter' /\ jcounter' >= jcounter
    BY <1>2 DEF Acts
  <2> HIDE DEF a, t
  <2>3. QED
    BY <1>2, <1>3, <1>4, <1>5, <1>6, <2>1, <2>2, LaunchType
<1>7. CASE ~(t # NoThread /\ Launch(c, k, a, t))
  <2>1. PICK s \in TaskStates :
          /\ task' = [task EXCEPT ![c] = s]
          /\ s.pc = "delay" /\ s.act = a
    <3>1. [pc |-> "delay", act |-> a, thr |-> NoThread, try |-> 1, kind |-> k] \in TaskStates
      BY <1>2, <1>3 DEF TaskStates, Tries
    <3>2. QED
      BY <1>7, <3>1 DEF Call
  <2>2. UNCHANGED <<jindx, alist, kind, inq, outq, timerqueue>>
    BY <1>7 DEF Call
  <2>3. CallsOK'
    BY <1>1, <1>2, <1>4, <1>5, <2>1, <2>2
       DEF CallsOK, TableOK, QueuesOK, WorkerOK, TimerOK, workerVars
  <2>4. InHand'
    BY <1>1, <1>2, <1>5, <2>1, <2>2, NotZero DEF InHand, workerVars
  <2>5. Numbered'
    BY <1>1, <1>2, <2>1, <2>2 DEF Numbered, TableOK, TaskStates, Acts
  <2>6. QED
    BY <2>3, <2>4, <2>5 DEF TypeInv
<1>8. QED
  BY <1>6, <1>7

LEMMA RetryType ==
  ASSUME TypeInv, NEW c \in Callers, Retry(c)
  PROVE  TypeInv'
<1> DEFINE a == task[c].act
           t == athread_get(a)
<1>1. /\ TableOK /\ QueuesOK /\ WorkerOK /\ TimerOK
      /\ run \in [Threads -> RunStates] /\ task \in [Callers -> TaskStates]
      /\ InHand /\ Numbered /\ fault \in BOOLEAN
  BY DEF TypeInv, CallsOK
<1>2. task[c].pc = "delay" /\ a \in Acts /\ a < jcounter
  BY <1>1 DEF Retry, TaskStates, InHand, Numbered
<1>3. UNCHANGED <<jcounter, resultq, run, workerVars, armed, due>>
  BY DEF Retry
<1>4. fault' \in BOOLEAN
  BY <1>1, Zenon DEF Retry, Running
<1>5. CASE t # NoThread /\ Launch(c, task[c].kind, a, t)
  <2>1. t \in Threads
    BY <1>1, <1>5, ThreadGot DEF TableOK
  <2>2. task[c].kind \in AllKinds
    BY <1>1, <1>5 DEF Launch, Send, GiveUp, RunHere, AllKinds
  <2>3. jcounter \in 1..(MaxActs + 1) /\ jcounter \in Nat
    BY <1>1, ConstantsAssumption DEF TableOK
  <2> HIDE DEF a, t
  <2>4. QED
    BY <1>2, <1>3, <1>4, <1>5, <2>1, <2>2, <2>3, LaunchType
<1>6. CASE ~(t # NoThread /\ Launch(c, task[c].kind, a, t))
  <2>1. PICK s \in TaskStates :
          /\ task' = [task EXCEPT ![c] = s]
          /\ s.act \in {0, a}
          /\ s.pc # "wait"
          /\ s.pc # "idle" => s.act # 0
    <3>1. CASE task[c].try < Gets /\ task' = [task EXCEPT ![c].try = @ + 1]
      <4>1. [task[c] EXCEPT !.try = @ + 1] \in TaskStates
        BY <1>1, <3>1 DEF TaskStates, Tries, Gets
      <4>2. QED
        BY <1>1, <1>2, <3>1, <4>1, NotZero DEF TaskStates
    <3>2. CASE task' = [task EXCEPT ![c] = Idle]
      BY <3>2, IdleState
    <3>3. QED
      BY <1>6, <3>1, <3>2 DEF Retry
  <2>2. UNCHANGED <<jindx, alist, kind, inq, outq, timerqueue>>
    BY <1>6 DEF Retry
  <2>4. CallsOK'
    BY <1>1, <1>3, <1>4, <2>1, <2>2
       DEF CallsOK, TableOK, QueuesOK, WorkerOK, TimerOK, workerVars
  <2>5. InHand'
    BY <1>1, <1>3, <2>1, <2>2 DEF InHand, workerVars
  <2>6. Numbered'
    <3>1. 0 < jcounter
      BY <1>1, ConstantsAssumption DEF TableOK
    <3>2. QED
      BY <1>1, <1>2, <1>3, <2>1, <2>2, <3>1 DEF Numbered
  <2>7. QED
    BY <2>4, <2>5, <2>6 DEF TypeInv
<1>7. QED
  BY <1>5, <1>6

LEMMA ReturnType ==
  ASSUME TypeInv, NEW c \in Callers, task[c].pc = "wait", Return(c)
  PROVE  /\ task' = [task EXCEPT ![c] = Idle]
         /\ alist' \subseteq Acts
<1>1. TableOK /\ InHand /\ task \in [Callers -> TaskStates]
  BY DEF TypeInv, CallsOK
<1>2. task[c].act \in Acts
  BY <1>1 DEF TaskStates, InHand
<1>3. task' = [task EXCEPT ![c] = Idle]
  BY DEF Return
<1>5. alist' = alist \/ alist' = alist \ {task[c].act}
  BY DEF Return
<1>6. QED
  BY <1>1, <1>2, <1>3, <1>5 DEF TableOK

(* A runner's step on a result leaves everything typed if what it sends    *)
(* and where it waits next is.                                             *)
LEMMA CollectType ==
  ASSUME TypeInv, NEW c \in Callers, NEW t \in Threads, resultq[t] # <<>>,
         resultq' = [resultq EXCEPT ![t] = Tail(@)],
         NEW s \in TaskStates, task' = [task EXCEPT ![c] = s],
         s.pc # "delay", s.act \in {0, task[c].act},
         s.pc = "wait" => s.act # 0 /\ s.thr # NoThread,
         outq' \in [Threads -> Seq(Acts)], timerqueue' \in Seq(TimerCommands),
         alist' \subseteq Acts, fault' \in BOOLEAN,
         UNCHANGED <<jindx, jcounter, kind, inq, run, workerVars, armed, due>>
  PROVE  TypeInv'
<1>1. /\ TableOK /\ QueuesOK /\ WorkerOK /\ TimerOK
      /\ run \in [Threads -> RunStates] /\ task \in [Callers -> TaskStates]
      /\ InHand /\ Numbered /\ fault \in BOOLEAN
  BY DEF TypeInv, CallsOK
<1>2. TableOK' /\ WorkerOK' /\ TimerOK'
  BY <1>1 DEF TableOK, WorkerOK, TimerOK, workerVars
<1>3. QueuesOK'
  BY <1>1, QueueSteps DEF QueuesOK
<1>4. run' \in [Threads -> RunStates] /\ task' \in [Callers -> TaskStates]
  BY <1>1
<1>5. s.pc \in {"idle", "wait"}
  BY DEF TaskStates
<1>6. InHand'
  BY <1>1, <1>5 DEF InHand, workerVars
<1>7. Numbered'
  <2>1. 0 < jcounter
    BY <1>1, ConstantsAssumption DEF TableOK
  <2>2. QED
    BY <1>1, <2>1 DEF Numbered
<1>8. QED
  BY <1>2, <1>3, <1>4, <1>6, <1>7 DEF TypeInv, CallsOK

(* The next try of the command of a waiting caller.                        *)
LEMMA NextTry ==
  ASSUME NEW s \in TaskStates, s.try < Tries, NEW t \in Threads
  PROVE  /\ [s EXCEPT !.try = @ + 1] \in TaskStates
         /\ [s EXCEPT !.try = @ + 1, !.thr = t] \in TaskStates
<1>1. s.try + 1 \in 0..Tries
  BY DEF TaskStates, Tries
<1>2. [s EXCEPT !.try = @ + 1] \in TaskStates
  BY <1>1 DEF TaskStates
<1>3. [s EXCEPT !.try = @ + 1, !.thr = t] \in TaskStates
  BY <1>1 DEF TaskStates
<1>4. QED
  BY <1>2, <1>3

LEMMA SyncCollectType ==
  ASSUME TypeInv, NEW c \in Callers, SyncCollect(c)
  PROVE  TypeInv'
<1> DEFINE a == task[c].act
           t == task[c].thr
           u == athread_getbyindx(a)
           again == Head(resultq[t]).val \in {"null", "failed"} /\ TryAgain(c)
<1>1. /\ TableOK /\ QueuesOK /\ WorkerOK /\ TimerOK
      /\ run \in [Threads -> RunStates] /\ task \in [Callers -> TaskStates]
      /\ InHand /\ Numbered /\ fault \in BOOLEAN
  BY DEF TypeInv, CallsOK
<1>2. /\ task[c].pc = "wait"
      /\ resultq[t] # <<>>
      /\ resultq' = [resultq EXCEPT ![t] = Tail(@)]
      /\ UNCHANGED <<jindx, jcounter, kind, inq, run, workerVars, armed, due>>
  BY DEF SyncCollect, Collect
<1>3. a \in Acts /\ t \in Threads
  BY <1>1, <1>2 DEF TaskStates, InHand
<1>6. fault' \in BOOLEAN
  BY <1>1, Zenon DEF SyncCollect, Using
<1>7. jam_clear_timer(timerqueue, a) \in Seq(TimerCommands)
  BY <1>1, <1>3, TimerQueueType DEF TableOK, TimerOK
<1>8. CASE /\ again /\ Derefs(a) /\ u # NoThread
           /\ outq' = [outq EXCEPT ![u] = Append(@, a)]
           /\ timerqueue' = jam_set_timer(jam_clear_timer(timerqueue, a), a)
           /\ task' = [task EXCEPT ![c].try = @ + 1, ![c].thr = u]
           /\ UNCHANGED alist
  <2>1. u \in Threads
    BY <1>1, <1>8, ThreadFound DEF TableOK
  <2>2. outq' \in [Threads -> Seq(Acts)]
    BY <1>1, <1>3, <1>8, <2>1, QueueSteps
  <2>3. timerqueue' \in Seq(TimerCommands)
    BY <1>1, <1>3, <1>7, <1>8, TimerQueueType DEF TableOK
  <2>4. alist' \subseteq Acts
    BY <1>1, <1>3, <1>8 DEF TableOK
  <2> DEFINE s == [task[c] EXCEPT !.try = @ + 1, !.thr = u]
  <2>5. s \in TaskStates
    BY <1>1, <1>8, <2>1, NextTry DEF TryAgain
  <2>6. task' = [task EXCEPT ![c] = s] /\ s.pc = "wait" /\ s.act = a /\ s.thr = u
    BY <1>1, <1>2, <1>8 DEF TaskStates
  <2>7. s.act # 0 /\ s.thr # NoThread
    BY <1>3, <2>1, <2>6, NotZero
  <2> HIDE DEF s, t, u, a
  <2>8. QED
    BY <1>2, <1>3, <1>6, <2>2, <2>3, <2>4, <2>5, <2>6, <2>7, CollectType DEF a
<1>9. CASE /\ timerqueue' = jam_clear_timer(timerqueue, a)
           /\ Return(c)
           /\ UNCHANGED outq
  <2>1. task' = [task EXCEPT ![c] = Idle] /\ alist' \subseteq Acts
    BY <1>2, <1>9, ReturnType
  <2>2. outq' \in [Threads -> Seq(Acts)]
    BY <1>1, <1>9 DEF QueuesOK
  <2> HIDE DEF t, a
  <2>3. QED
    BY <1>2, <1>3, <1>6, <1>7, <1>9, <2>1, <2>2, IdleState, CollectType
<1>10. CASE /\ timerqueue' = jam_clear_timer(timerqueue, a)
            /\ UNCHANGED <<outq, task, alist>>
  <2>1. task[c] \in TaskStates /\ task' = [task EXCEPT ![c] = task[c]]
    BY <1>1, <1>10
  <2>2. /\ outq' \in [Threads -> Seq(Acts)]
        /\ alist' \subseteq Acts
    BY <1>1, <1>10 DEF QueuesOK, TableOK
  <2>3. task[c].act # 0 /\ task[c].thr # NoThread
    BY <1>3, NotZero
  <2> HIDE DEF t, a
  <2>4. QED
    BY <1>2, <1>3, <1>6, <1>7, <1>10, <2>1, <2>2, <2>3, CollectType
<1>11. QED
  BY <1>8, <1>9, <1>10 DEF SyncCollect

LEMMA AsyncCollectType ==
  ASSUME TypeInv, NEW c \in Callers, AsyncCollect(c)
  PROVE  TypeInv'
<1> DEFINE a == task[c].act
           t == task[c].thr
<1>1. /\ TableOK /\ QueuesOK /\ WorkerOK /\ TimerOK
      /\ run \in [Threads -> RunStates] /\ task \in [Callers -> TaskStates]
      /\ InHand /\ Numbered /\ fault \in BOOLEAN
  BY DEF TypeInv, CallsOK
<1>2. /\ task[c].pc = "wait"
      /\ resultq[t] # <<>>
      /\ resultq' = [resultq EXCEPT ![t] = Tail(@)]
      /\ UNCHANGED <<jindx, jcounter, kind, inq, run, workerVars, armed, due>>
  BY DEF AsyncCollect, Collect
<1>3. a \in Acts /\ t \in Threads
  BY <1>1, <1>2 DEF TaskStates, InHand
<1>5. fault' \in BOOLEAN
  <2>1. (~Derefs(a)) \in BOOLEAN
    BY Zenon
  <2>2. QED
    BY <2>1 DEF AsyncCollect, Using
<1>6. jam_clear_timer(timerqueue, a) \in Seq(TimerCommands)
  BY <1>1, <1>3, TimerQueueType DEF TableOK, TimerOK
<1>7. CASE /\ TryAgain(c)
           /\ outq' = [outq EXCEPT ![t] = Append(@, a)]
           /\ timerqueue' = jam_set_timer(jam_clear_timer(timerqueue, a), a)
           /\ task' = [task EXCEPT ![c].try = @ + 1]
           /\ UNCHANGED alist
  <2>1. outq' \in [Threads -> Seq(Acts)]
    BY <1>1, <1>3, <1>7, QueueSteps
  <2>2. timerqueue' \in Seq(TimerCommands)
    BY <1>1, <1>3, <1>6, <1>7, TimerQueueType DEF TableOK
  <2>3. alist' \subseteq Acts
    BY <1>1, <1>3, <1>7 DEF TableOK
  <2> DEFINE s == [task[c] EXCEPT !.try = @ + 1]
  <2>4. s \in TaskStates
    BY <1>1, <1>3, <1>7, NextTry DEF TryAgain
  <2>5. task' = [task EXCEPT ![c] = s] /\ s.pc = "wait" /\ s.act = a /\ s.thr = t
    BY <1>1, <1>2, <1>7 DEF TaskStates
  <2>6. s.act # 0 /\ s.thr # NoThread
    BY <1>3, <2>5, NotZero
  <2> HIDE DEF s, t, a
  <2>7. QED
    BY <1>2, <1>3, <1>5, <2>1, <2>2, <2>3, <2>4, <2>5, <2>6, CollectType DEF a
<1>8. CASE /\ timerqueue' = jam_clear_timer(timerqueue, a)
           /\ Return(c)
           /\ UNCHANGED outq
  <2>1. task' = [task EXCEPT ![c] = Idle] /\ alist' \subseteq Acts
    BY <1>2, <1>8, ReturnType
  <2>2. outq' \in [Threads -> Seq(Acts)]
    BY <1>1, <1>8 DEF QueuesOK
  <2> HIDE DEF t, a
  <2>3. QED
    BY <1>2, <1>3, <1>5, <1>6, <1>8, <2>1, <2>2, IdleState, CollectType
<1>9. QED
  BY <1>7, <1>8 DEF AsyncCollect

(* A step of an activity thread leaves everything typed if it only takes a *)
(* command, queues results and timer commands, and moves to a state that   *)
(* fits jindx.                                                             *)
LEMMA RunType ==
  ASSUME TypeInv, NEW t \in Threads, NEW r \in RunStates,
         run' = [run EXCEPT ![t] = r],
         \/ UNCHANGED jindx /\ (r.pc # "top" => jindx[t] # 0)
         \/ jindx' = [jindx EXCEPT ![t] = 0] /\ r.pc = "top",
         inq' \in [Threads -> Seq(Messages)], resultq' \in [Threads -> Seq(Results)],
         timerqueue' \in Seq(TimerCommands), alist' \subseteq Acts,
         fault' \in BOOLEAN,
         UNCHANGED <<jcounter, kind, outq, task, workerVars, armed, due>>
  PROVE  TypeInv'
<1>1. /\ TableOK /\ QueuesOK /\ WorkerOK /\ TimerOK
      /\ run \in [Threads -> RunStates] /\ task \in [Callers -> TaskStates]
      /\ InHand /\ Numbered /\ fault \in BOOLEAN
  BY DEF TypeInv, CallsOK
<1>2. jindx' \in [Threads -> Acts \cup {0}]
  BY <1>1 DEF TableOK
<1>3. TableOK' /\ QueuesOK' /\ WorkerOK' /\ TimerOK'
  BY <1>1, <1>2 DEF TableOK, QueuesOK, WorkerOK, TimerOK, workerVars
<1>4. run' \in [Threads -> RunStates] /\ task' \in [Callers -> TaskStates]
  BY <1>1
<1>5. fault' \in BOOLEAN
  BY <1>1
<1>6. InHand'
  BY <1>1 DEF InHand, workerVars, TableOK
<1>7. Numbered'
  <2>1. 0 < jcounter
    BY <1>1, ConstantsAssumption DEF TableOK
  <2>2. QED
    BY <1>1, <2>1 DEF Numbered, TableOK
<1>8. QED
  BY <1>3, <1>4, <1>5, <1>6, <1>7 DEF TypeInv, CallsOK

LEMMA TopState == AtTop \in RunStates /\ AtTop.pc = "top"
BY DEF AtTop, RunStates

LEMMA PcState ==
  ASSUME NEW r \in RunStates,
         NEW pc \in {"result", "callback", "sleep", "woken"}
  PROVE  /\ [r EXCEPT !.pc = pc] \in RunStates /\ [r EXCEPT !.pc = pc].pc = pc
         /\ \A b \in BOOLEAN :
              /\ [r EXCEPT !.pc = "ack", !.failed = b] \in RunStates
              /\ [r EXCEPT !.pc = "callback", !.frees = b] \in RunStates
BY DEF RunStates

(* What an attempt's end changes.                                          *)
LEMMA FinishType ==
  ASSUME TypeInv, NEW t \in Threads, jindx[t] \in Acts, NEW k \in {"null", "arg", "ok", "failed"},
         Finish(t, k)
  PROVE  /\ timerqueue' \in Seq(TimerCommands)
         /\ resultq' \in [Threads -> Seq(Results)]
         /\ jindx' = [jindx EXCEPT ![t] = 0]
         /\ run' = [run EXCEPT ![t] = AtTop]
<1>1. TableOK /\ QueuesOK /\ TimerOK
  BY DEF TypeInv, CallsOK
<1>2. [val |-> k, act |-> jindx[t]] \in Results
  BY DEF Results
<1>3. QED
  BY <1>1, <1>2, QueueSteps, TimerQueueType DEF Finish, Result, Released, TableOK, TimerOK

LEMMA DropCommandType ==
  ASSUME TypeInv, NEW t \in Threads, DropCommand(t)
  PROVE  TypeInv'
<1>1. /\ TableOK /\ QueuesOK /\ WorkerOK /\ TimerOK
      /\ run \in [Threads -> RunStates] /\ task \in [Callers -> TaskStates]
      /\ InHand /\ Numbered /\ fault \in BOOLEAN
  BY DEF TypeInv, CallsOK
<1>2. fault' \in BOOLEAN
  BY <1>1, Zenon DEF DropCommand, Running
<1>3. inq' \in [Threads -> Seq(Messages)]
  BY <1>1, QueueSteps DEF DropCommand
<1>4. run[t] \in RunStates /\ run' = [run EXCEPT ![t] = run[t]]
  BY <1>1 DEF DropCommand
<1>5. /\ UNCHANGED jindx
      /\ resultq' \in [Threads -> Seq(Results)]
      /\ timerqueue' \in Seq(TimerCommands)
      /\ alist' \subseteq Acts
      /\ UNCHANGED <<jcounter, kind, outq, task, workerVars, armed, due>>
  BY <1>1 DEF DropCommand, tableVars, timerVars, QueuesOK, TimerOK, TableOK
<1>6. run[t].pc = "top"
  BY DEF DropCommand
<1>7. QED
  BY <1>2, <1>3, <1>4, <1>5, <1>6, RunType

LEMMA RunCommandType ==
  ASSUME TypeInv, NEW t \in Threads, RunCommand(t)
  PROVE  TypeInv'
<1> DEFINE a == jindx[t]
<1>1. /\ TableOK /\ QueuesOK /\ WorkerOK /\ TimerOK
      /\ run \in [Threads -> RunStates] /\ task \in [Callers -> TaskStates]
      /\ InHand /\ Numbered /\ fault \in BOOLEAN
  BY DEF TypeInv, CallsOK
<1>2. a \in Acts /\ a # 0
  BY <1>1, NotZero DEF RunCommand, TableOK
<1>3. inq' \in [Threads -> Seq(Messages)]
  BY <1>1, QueueSteps DEF RunCommand
<1>4. /\ UNCHANGED <<jcounter, kind, outq, task, workerVars, armed, due>>
      /\ alist' \subseteq Acts
  BY <1>1 DEF RunCommand, TableOK
<1>5. fault' \in BOOLEAN
  BY <1>1, Zenon DEF RunCommand, Running
<1>6. jam_set_timer(jam_clear_timer(timerqueue, a), a) \in Seq(TimerCommands)
  <2>1. jam_clear_timer(timerqueue, a) \in Seq(TimerCommands)
    BY <1>1, <1>2, TimerQueueType DEF TableOK, TimerOK
  <2>2. QED
    BY <1>1, <1>2, <2>1, TimerQueueType DEF TableOK
<1>7. ASSUME NEW r \in RunStates, run' = [run EXCEPT ![t] = r],
             UNCHANGED <<jindx, resultq>>, timerqueue' \in Seq(TimerCommands)
      PROVE  TypeInv'
  <2>1. resultq' \in [Threads -> Seq(Results)]
    BY <1>1, <1>7 DEF QueuesOK
  <2>2. QED
    BY <1>2, <1>3, <1>4, <1>5, <1>7, <2>1, RunType
<1>8. ASSUME NEW k \in {"null", "ok", "failed"}, Finish(t, k)
      PROVE  TypeInv'
  <2>1. /\ timerqueue' \in Seq(TimerCommands)
        /\ resultq' \in [Threads -> Seq(Results)]
        /\ jindx' = [jindx EXCEPT ![t] = 0]
        /\ run' = [run EXCEPT ![t] = AtTop]
    BY <1>2, <1>8, FinishType
  <2> HIDE DEF a
  <2>2. QED
    BY <1>3, <1>4, <1>5, <2>1, TopState, RunType
<1>9. [run[t] EXCEPT !.pc = "result"] \in RunStates
  BY <1>1, PcState
<1>10. CASE SyncAck(t)
  <2>1. CASE Finish(t, "null")
    BY <1>8, <2>1
  <2>2. CASE /\ run' = [run EXCEPT ![t].pc = "result"]
             /\ timerqueue' = jam_set_timer(jam_clear_timer(timerqueue, a), a)
             /\ UNCHANGED <<jindx, resultq>>
    <3>1. [run[t] EXCEPT !.pc = "result"] \in RunStates
      BY <1>9
    <3>2. QED
      BY <1>6, <1>7, <2>2, <3>1
  <2>3. QED
    BY <1>10, <2>1, <2>2 DEF SyncAck
<1>11. CASE AsyncAck(t)
  <2>1. PICK h \in Heights :
          LET bad == h > 1 /\ Negative(Head(inq[t])) IN
          \/ /\ run' = [run EXCEPT ![t].pc = "ack", ![t].failed = bad]
             /\ timerqueue' = jam_set_timer(jam_clear_timer(timerqueue, a), a)
             /\ UNCHANGED <<jindx, resultq>>
          \/ Finish(t, IF bad THEN "failed" ELSE "ok")
    BY <1>11, Zenon DEF AsyncAck
  <2> DEFINE bad == h > 1 /\ Negative(Head(inq[t]))
  <2>2. bad \in BOOLEAN
    BY Zenon
  <2> HIDE DEF bad
  <2>3. CASE Finish(t, IF bad THEN "failed" ELSE "ok")
    BY <1>8, <2>3
  <2>4. CASE /\ run' = [run EXCEPT ![t].pc = "ack", ![t].failed = bad]
             /\ timerqueue' = jam_set_timer(jam_clear_timer(timerqueue, a), a)
             /\ UNCHANGED <<jindx, resultq>>
    <3>1. [run[t] EXCEPT !.pc = "ack", !.failed = bad] \in RunStates
      BY <1>1, <2>2, PcState
    <3>2. run' = [run EXCEPT ![t] = [run[t] EXCEPT !.pc = "ack", !.failed = bad]]
      BY <1>1, <2>4 DEF RunStates
    <3>3. QED
      BY <1>6, <1>7, <2>4, <3>1, <3>2
  <2>5. QED
    BY <2>1, <2>3, <2>4 DEF bad
<1>12. CASE StartCallback(t)
  <2>1. timerqueue' \in Seq(TimerCommands)
    BY <1>1, <1>12 DEF StartCallback, TimerOK
  <2>2. PICK b \in BOOLEAN : run' = [run EXCEPT ![t].pc = "callback", ![t].frees = b]
    BY <1>12, Zenon DEF StartCallback
  <2>3. [run[t] EXCEPT !.pc = "callback", !.frees = b] \in RunStates
    BY <1>1, PcState
  <2>4. run' = [run EXCEPT ![t] = [run[t] EXCEPT !.pc = "callback", !.frees = b]]
    BY <1>1, <2>2 DEF RunStates
  <2>5. QED
    BY <1>7, <1>12, <2>1, <2>3, <2>4 DEF StartCallback
<1>13. CASE IgnoreCommand(t)
  <2>1. resultq' \in [Threads -> Seq(Results)] /\ timerqueue' \in Seq(TimerCommands)
    BY <1>1, <1>13 DEF IgnoreCommand, QueuesOK, TimerOK
  <2>2. QED
    BY <1>3, <1>4, <1>5, <1>13, <2>1, TopState, RunType DEF IgnoreCommand, Released
<1>14. QED
  BY <1>10, <1>11, <1>12, <1>13 DEF RunCommand

LEMMA SyncResultType ==
  ASSUME TypeInv, NEW t \in Threads, SyncResult(t)
  PROVE  TypeInv'
<1>1. /\ TableOK /\ QueuesOK /\ WorkerOK /\ TimerOK
      /\ run \in [Threads -> RunStates] /\ task \in [Callers -> TaskStates]
      /\ InHand /\ Numbered /\ fault \in BOOLEAN
  BY DEF TypeInv, CallsOK
<1>2. jindx[t] \in Acts
  BY <1>1 DEF SyncResult, InHand, TableOK
<1>3. inq' \in [Threads -> Seq(Messages)] /\ Head(inq[t]).act \in Acts
  BY <1>1, QueueSteps DEF SyncResult, Messages
<1>4. /\ UNCHANGED <<jcounter, kind, outq, task, workerVars, armed, due>>
      /\ alist' \subseteq Acts
  BY <1>1 DEF SyncResult, TableOK
<1>5. fault' \in BOOLEAN
  BY DEF SyncResult, Using
<1>6. Finish(t, "arg") \/ Finish(t, "null")
  BY DEF SyncResult
<1>7. /\ timerqueue' \in Seq(TimerCommands)
      /\ resultq' \in [Threads -> Seq(Results)]
      /\ jindx' = [jindx EXCEPT ![t] = 0]
      /\ run' = [run EXCEPT ![t] = AtTop]
  BY <1>2, <1>3, <1>6, FinishType
<1>8. QED
  BY <1>3, <1>4, <1>5, <1>7, TopState, RunType

LEMMA AsyncSecondAckType ==
  ASSUME TypeInv, NEW t \in Threads, AsyncSecondAck(t)
  PROVE  TypeInv'
<1>1. /\ TableOK /\ QueuesOK /\ WorkerOK /\ TimerOK
      /\ run \in [Threads -> RunStates] /\ task \in [Callers -> TaskStates]
      /\ InHand /\ Numbered /\ fault \in BOOLEAN
  BY DEF TypeInv, CallsOK
<1>2. jindx[t] \in Acts
  BY <1>1 DEF AsyncSecondAck, InHand, TableOK
<1>3. inq' \in [Threads -> Seq(Messages)]
  BY <1>1, QueueSteps DEF AsyncSecondAck
<1>4. /\ UNCHANGED <<jcounter, kind, outq, task, workerVars, armed, due>>
      /\ alist' \subseteq Acts
  BY <1>1 DEF AsyncSecondAck, TableOK
<1>5. fault' \in BOOLEAN
  BY DEF AsyncSecondAck, Using
<1>6. Finish(t, "failed") \/ Finish(t, "ok")
  BY Zenon DEF AsyncSecondAck
<1>7. /\ timerqueue' \in Seq(TimerCommands)
      /\ resultq' \in [Threads -> Seq(Results)]
      /\ jindx' = [jindx EXCEPT ![t] = 0]
      /\ run' = [run EXCEPT ![t] = AtTop]
  BY <1>2, <1>6, FinishType
<1>8. QED
  BY <1>3, <1>4, <1>5, <1>7, TopState, RunType

LEMMA CallbackType ==
  ASSUME TypeInv, NEW t \in Threads, EndCallback(t) \/ Sleep(t) \/ Wake(t)
  PROVE  TypeInv'
<1>1. /\ TableOK /\ QueuesOK /\ WorkerOK /\ TimerOK
      /\ run \in [Threads -> RunStates] /\ task \in [Callers -> TaskStates]
      /\ InHand /\ Numbered /\ fault \in BOOLEAN
  BY DEF TypeInv, CallsOK
<1>2. jindx[t] \in Acts /\ jindx[t] # 0
  BY <1>1, NotZero DEF EndCallback, Sleep, Wake, InHand, TableOK
<1>3. fault' \in BOOLEAN
  BY DEF EndCallback, Sleep, Wake, Using
<1>4. /\ jam_set_timer(timerqueue, jindx[t]) \in Seq(TimerCommands)
      /\ jam_clear_timer(timerqueue, jindx[t]) \in Seq(TimerCommands)
  BY <1>1, <1>2, TimerQueueType DEF TableOK, TimerOK
<1>5. /\ timerqueue' \in Seq(TimerCommands)
      /\ inq' \in [Threads -> Seq(Messages)]
      /\ resultq' \in [Threads -> Seq(Results)]
      /\ alist' \subseteq Acts
  BY <1>1, <1>4, QueueSteps
     DEF EndCallback, Sleep, Wake, tableVars, queueVars, timerVars, TableOK, QueuesOK, TimerOK
<1>6. UNCHANGED <<jcounter, kind, outq, task, workerVars, armed, due>>
  BY DEF EndCallback, Sleep, Wake, tableVars, queueVars, timerVars
<1>7. CASE EndCallback(t)
  BY <1>3, <1>5, <1>6, <1>7, TopState, RunType DEF EndCallback, Released
<1>8. CASE Sleep(t)
  <2>1. [run[t] EXCEPT !.pc = "sleep"] \in RunStates
    BY <1>1, PcState
  <2>2. run' = [run EXCEPT ![t] = [run[t] EXCEPT !.pc = "sleep"]] /\ UNCHANGED jindx
    BY <1>8 DEF Sleep, tableVars
  <2>3. QED
    BY <1>2, <1>3, <1>5, <1>6, <2>1, <2>2, RunType
<1>9. CASE Wake(t)
  <2>1. [run[t] EXCEPT !.pc = "woken"] \in RunStates
    BY <1>1, PcState
  <2>2. run' = [run EXCEPT ![t] = [run[t] EXCEPT !.pc = "woken"]] /\ UNCHANGED jindx
    BY <1>9 DEF Wake, tableVars
  <2>3. QED
    BY <1>2, <1>3, <1>5, <1>6, <2>1, <2>2, RunType
<1>10. QED
  BY <1>7, <1>8, <1>9

(* Steps of the other pthreads leave the table and the tasks alone.        *)
LEMMA OutsideType ==
  ASSUME TypeInv, UNCHANGED <<tableVars, resultq, run, task>>,
         inq' \in [Threads -> Seq(Messages)], outq' \in [Threads -> Seq(Acts)],
         WorkerOK', TimerOK', fault' \in BOOLEAN,
         worker'.pc # "poll" => worker'.msg \in Replies,
         worker'.pc = "enq" => worker'.thr # NoThread
  PROVE  TypeInv'
<1>1. /\ TableOK /\ QueuesOK /\ WorkerOK /\ TimerOK
      /\ run \in [Threads -> RunStates] /\ task \in [Callers -> TaskStates]
      /\ InHand /\ Numbered /\ fault \in BOOLEAN
  BY DEF TypeInv, CallsOK
<1>2. TableOK' /\ QueuesOK'
  BY <1>1 DEF TableOK, QueuesOK, tableVars
<1>3. InHand' /\ Numbered'
  BY <1>1 DEF InHand, Numbered, tableVars
<1>4. QED
  BY <1>1, <1>2, <1>3 DEF TypeInv, CallsOK

LEMMA PublishType ==
  ASSUME TypeInv, NEW t \in Threads, Publish(t)
  PROVE  TypeInv'
<1>1. /\ TableOK /\ QueuesOK /\ WorkerOK /\ TimerOK
      /\ run \in [Threads -> RunStates] /\ task \in [Callers -> TaskStates]
      /\ InHand /\ Numbered /\ fault \in BOOLEAN
  BY DEF TypeInv, CallsOK
<1>2. UNCHANGED <<tableVars, inq, resultq, run, task, worker, deviceinq, replies, timerVars>>
  BY DEF Publish
<1>3. outq' \in [Threads -> Seq(Acts)] /\ Head(outq[t]) \in Acts
  BY <1>1, QueueSteps DEF Publish
<1>4. WorkerOK'
  BY <1>1, <1>3 DEF Publish, WorkerOK
<1>5. TimerOK' /\ inq' \in [Threads -> Seq(Messages)]
  BY <1>1, <1>2 DEF TimerOK, QueuesOK, timerVars
<1>6. fault' \in BOOLEAN
  BY <1>1, Zenon DEF Publish, Running
<1>7. /\ worker'.pc # "poll" => worker'.msg \in Replies
      /\ worker'.pc = "enq" => worker'.thr # NoThread
  BY <1>1, <1>2 DEF InHand
<1>8. QED
  BY <1>2, <1>3, <1>4, <1>5, <1>6, <1>7, OutsideType

LEMMA ReplyType ==
  ASSUME TypeInv, NEW a \in Acts, NEW k \in ReplyKinds, Reply(a, k)
  PROVE  TypeInv'
<1>1. /\ TableOK /\ QueuesOK /\ WorkerOK /\ TimerOK
      /\ run \in [Threads -> RunStates] /\ task \in [Callers -> TaskStates]
      /\ InHand /\ Numbered /\ fault \in BOOLEAN
  BY DEF TypeInv, CallsOK
<1>2. UNCHANGED <<tableVars, queueVars, run, task, worker, published, timerVars>>
  BY DEF Reply
<1>3. deviceinq' \in Seq(Replies)
  <2>1. [kind |-> k, act |-> a] \in Replies
    BY ConstantsAssumption DEF Replies
  <2>2. QED
    BY <1>1, <2>1, AppendProperties DEF Reply, WorkerOK
<1>4. replies' \in 0..MaxReplies
  BY <1>1, ConstantsAssumption DEF Reply, WorkerOK
<1>5. WorkerOK' /\ TimerOK' /\ inq' \in [Threads -> Seq(Messages)] /\ outq' \in [Threads -> Seq(Acts)]
  BY <1>1, <1>2, <1>3, <1>4 DEF WorkerOK, TimerOK, QueuesOK, queueVars, timerVars
<1>6. fault' \in BOOLEAN
  BY <1>1, Zenon DEF Reply, Running
<1>7. /\ worker'.pc # "poll" => worker'.msg \in Replies
      /\ worker'.pc = "enq" => worker'.thr # NoThread
  BY <1>1, <1>2 DEF InHand
<1>8. QED
  BY <1>2, <1>5, <1>6, <1>7, OutsideType DEF queueVars

LEMMA FindActivityType ==
  ASSUME TypeInv, FindActivity
  PROVE  TypeInv'
<1>1. /\ TableOK /\ QueuesOK /\ WorkerOK /\ TimerOK
      /\ run \in [Threads -> RunStates] /\ task \in [Callers -> TaskStates]
      /\ InHand /\ Numbered /\ fault \in BOOLEAN
  BY DEF TypeInv, CallsOK
<1>2. UNCHANGED <<tableVars, queueVars, run, task, published, replies, timerVars>>
  BY DEF FindActivity
<1>3. deviceinq' \in Seq(Replies) /\ Head(deviceinq) \in Replies
  BY <1>1, HeadTailProperties DEF FindActivity, WorkerOK
<1>4. worker.pc = "poll"
  BY DEF FindActivity
<1>5. /\ worker' \in WorkerStates
      /\ worker'.pc # "poll" => worker'.msg \in Replies
      /\ worker'.pc # "enq"
  <2>1. worker \in WorkerStates
    BY <1>1 DEF WorkerOK
  <2>2. CASE worker' = worker
    BY <1>4, <2>1, <2>2
  <2>3. CASE worker' = [worker EXCEPT !.pc = "found", !.msg = Head(deviceinq)]
    BY <1>3, <2>1, <2>3 DEF WorkerStates
  <2>4. QED
    BY <2>2, <2>3 DEF FindActivity
<1>6. WorkerOK' /\ TimerOK' /\ inq' \in [Threads -> Seq(Messages)] /\ outq' \in [Threads -> Seq(Acts)]
  BY <1>1, <1>2, <1>3, <1>5 DEF WorkerOK, TimerOK, QueuesOK, queueVars, timerVars
<1>7. fault' \in BOOLEAN
  BY <1>1, Zenon DEF FindActivity, Running
<1>8. QED
  BY <1>2, <1>5, <1>6, <1>7, OutsideType DEF queueVars

LEMMA FindThreadType ==
  ASSUME TypeInv, FindThread
  PROVE  TypeInv'
<1>1. /\ TableOK /\ QueuesOK /\ WorkerOK /\ TimerOK
      /\ run \in [Threads -> RunStates] /\ task \in [Callers -> TaskStates]
      /\ InHand /\ Numbered /\ fault \in BOOLEAN
  BY DEF TypeInv, CallsOK
<1>2. UNCHANGED <<tableVars, queueVars, run, task, deviceinq, published, replies, timerVars>>
  BY DEF FindThread
<1> DEFINE u == athread_getbyindx(worker.msg.act)
<1>3. worker \in WorkerStates /\ worker.msg \in Replies
  BY <1>1 DEF FindThread, WorkerOK, InHand
<1>4. /\ worker' \in WorkerStates
      /\ worker'.pc # "poll" => worker'.msg \in Replies
      /\ worker'.pc = "enq" => worker'.thr # NoThread
  <2>1. CASE /\ Derefs(worker.msg.act) /\ u # NoThread
             /\ worker' = [worker EXCEPT !.pc = "enq", !.thr = u]
    <3>1. u \in Threads
      BY <1>1, <2>1, ThreadFound DEF TableOK
    <3>2. QED
      BY <1>3, <2>1, <3>1 DEF WorkerStates
  <2>2. CASE worker' = [worker EXCEPT !.pc = "poll"]
    BY <1>3, <2>2 DEF WorkerStates
  <2>3. QED
    BY <2>1, <2>2 DEF FindThread
<1>5. WorkerOK' /\ TimerOK' /\ inq' \in [Threads -> Seq(Messages)] /\ outq' \in [Threads -> Seq(Acts)]
  BY <1>1, <1>2, <1>4 DEF WorkerOK, TimerOK, QueuesOK, queueVars, timerVars
<1>6. fault' \in BOOLEAN
  BY Zenon DEF FindThread
<1>7. QED
  BY <1>2, <1>4, <1>5, <1>6, OutsideType DEF queueVars

LEMMA DeliverType ==
  ASSUME TypeInv, Deliver
  PROVE  TypeInv'
<1>1. /\ TableOK /\ QueuesOK /\ WorkerOK /\ TimerOK
      /\ run \in [Threads -> RunStates] /\ task \in [Callers -> TaskStates]
      /\ InHand /\ Numbered /\ fault \in BOOLEAN
  BY DEF TypeInv, CallsOK
<1>2. UNCHANGED <<tableVars, outq, resultq, run, task, deviceinq, published, replies, timerVars>>
  BY DEF Deliver
<1>3. worker \in WorkerStates /\ worker.msg \in Replies /\ worker.thr \in Threads
  BY <1>1 DEF Deliver, WorkerOK, InHand, WorkerStates
<1>4. inq' \in [Threads -> Seq(Messages)]
  <2>1. worker.msg \in Messages
    BY <1>3 DEF Replies, Messages
  <2>2. QED
    BY <1>1, <1>3, <2>1, QueueSteps DEF Deliver
<1>5. worker' \in WorkerStates /\ worker'.pc = "poll"
  BY <1>3 DEF Deliver, WorkerStates
<1>6. WorkerOK' /\ TimerOK' /\ outq' \in [Threads -> Seq(Acts)]
  BY <1>1, <1>2, <1>5 DEF WorkerOK, TimerOK, QueuesOK, timerVars
<1>7. fault' \in BOOLEAN
  BY <1>1, Zenon DEF Deliver, Running
<1>8. QED
  BY <1>2, <1>4, <1>5, <1>6, <1>7, OutsideType

LEMMA TimerType ==
  ASSUME TypeInv, Timer
  PROVE  TypeInv'
<1>1. /\ TableOK /\ QueuesOK /\ WorkerOK /\ TimerOK
      /\ run \in [Threads -> RunStates] /\ task \in [Callers -> TaskStates]
      /\ InHand /\ Numbered /\ fault \in BOOLEAN
  BY DEF TypeInv, CallsOK
<1>2. fault' \in BOOLEAN
  BY <1>1, Zenon DEF Timer, TimerCommand, Expire, Fire, Running
<1>3. UNCHANGED <<tableVars, outq, resultq, run, task, workerVars>>
  BY DEF Timer, TimerCommand, Expire, Fire, queueVars
<1>4. WorkerOK' /\ outq' \in [Threads -> Seq(Acts)]
  BY <1>1, <1>3 DEF WorkerOK, QueuesOK, workerVars
<1>5. /\ worker'.pc # "poll" => worker'.msg \in Replies
      /\ worker'.pc = "enq" => worker'.thr # NoThread
  BY <1>1, <1>3 DEF InHand, workerVars
<1>6. TimerOK' /\ inq' \in [Threads -> Seq(Messages)]
  <2>1. CASE TimerCommand
    <3> DEFINE e == Head(timerqueue)
    <3>1. e \in TimerCommands /\ Tail(timerqueue) \in Seq(TimerCommands)
      BY <1>1, <2>1, HeadTailProperties DEF TimerCommand, TimerOK
    <3>2. e.op = "ADDEVENT" => [act |-> e.act, thr |-> e.thr] \in Events
      BY <3>1 DEF TimerCommands, Events
    <3>3. QED
      BY <1>1, <2>1, <3>1, <3>2 DEF TimerCommand, TimerOK, QueuesOK, queueVars
  <2>2. CASE Expire
    BY <1>1, <2>2 DEF Expire, TimerOK, QueuesOK, queueVars
  <2>3. ASSUME NEW e \in due, Fire(e)
        PROVE  TimerOK' /\ inq' \in [Threads -> Seq(Messages)]
    <3>1. e \in Events
      BY <1>1 DEF TimerOK
    <3>2. [kind |-> "TIMEOUT", act |-> e.act] \in Messages /\ e.thr \in Threads
      BY <3>1 DEF Events, Messages
    <3>3. inq' \in [Threads -> Seq(Messages)]
      BY <1>1, <2>3, <3>2, QueueSteps DEF Fire
    <3>4. QED
      BY <1>1, <2>3, <3>3 DEF Fire, TimerOK
  <2>4. QED
    BY <2>1, <2>2, <2>3 DEF Timer
<1>7. QED
  BY <1>2, <1>3, <1>4, <1>5, <1>6, OutsideType DEF workerVars

LEMMA TypeStep == TypeInv /\ [Next]_vars => TypeInv'
<1> SUFFICES ASSUME TypeInv, [Next]_vars PROVE TypeInv'
  OBVIOUS
<1>1. ASSUME NEW c \in Callers, CallerStep(c) PROVE TypeInv'
  BY <1>1, RetryType, SyncCollectType, AsyncCollectType DEF CallerStep
<1>2. ASSUME NEW c \in Callers, NEW k \in Kinds, Call(c, k) PROVE TypeInv'
  BY <1>2, CallType
<1>3. ASSUME NEW t \in Threads, RunActivity(t) \/ Sleep(t) PROVE TypeInv'
  BY <1>3, DropCommandType, RunCommandType, SyncResultType, AsyncSecondAckType, CallbackType
     DEF RunActivity
<1>4. CASE Worker
  BY <1>4, PublishType, FindActivityType, FindThreadType, DeliverType DEF Worker
<1>5. ASSUME NEW a \in Acts, NEW k \in ReplyKinds, Reply(a, k) PROVE TypeInv'
  BY <1>5, ReplyType
<1>6. CASE Timer
  BY <1>6, TimerType
<1>7. CASE UNCHANGED vars
  BY <1>7 DEF vars, tableVars, queueVars, workerVars, timerVars, TypeInv, CallsOK,
     TableOK, QueuesOK, WorkerOK, TimerOK, InHand, Numbered
<1>8. QED
  BY <1>1, <1>2, <1>3, <1>4, <1>5, <1>6, <1>7 DEF Next

(* The history speaks of activities.                                       *)
LEMMA HistoryStep == TypeInv /\ HistoryOK /\ [Next]_vars => HistoryOK'
<1> SUFFICES ASSUME TypeInv, HistoryOK, [Next]_vars PROVE HistoryOK'
  OBVIOUS
<1> USE DEF HistoryOK
<1>1. ASSUME NEW c \in Callers, Collect(c) PROVE HistoryOK'
  <2>1. task[c].act \in Acts /\ task[c].thr \in Threads /\ QueuesOK
    BY <1>1 DEF TypeInv, CallsOK, TaskStates, InHand, Collect
  <2>2. Head(resultq[task[c].thr]).act \in Acts
    BY <1>1, <2>1, QueueSteps DEF Results, Collect
  <2>3. QED
    BY <1>1, <2>1, <2>2 DEF Collect
<1>2. ASSUME NEW t \in Threads, RunCommand(t) PROVE HistoryOK'
  <2>1. jindx[t] \in Acts
    BY <1>2, NotZero DEF TypeInv, CallsOK, TableOK, RunCommand
  <2>2. UNCHANGED hijacked \/ hijacked' = hijacked \cup {jindx[t]}
    BY <1>2 DEF RunCommand, StartCallback
  <2>3. QED
    BY <1>2, <2>1, <2>2 DEF RunCommand
<1>3. UNCHANGED historyVars => HistoryOK'
  BY DEF historyVars
<1>4. ASSUME NEW c \in Callers, CallerStep(c) PROVE HistoryOK'
  BY <1>1, <1>3, <1>4 DEF CallerStep, Retry, SyncCollect, AsyncCollect
<1>5. ASSUME NEW c \in Callers, NEW k \in Kinds, Call(c, k) PROVE HistoryOK'
  BY <1>3, <1>5 DEF Call
<1>6. ASSUME NEW t \in Threads, RunActivity(t) \/ Sleep(t) PROVE HistoryOK'
  BY <1>2, <1>3, <1>6, Zenon
     DEF RunActivity, DropCommand, SyncResult, AsyncSecondAck, EndCallback, Sleep, Wake
<1>7. CASE Worker
  BY <1>3, <1>7 DEF Worker, Publish, FindActivity, FindThread, Deliver
<1>8. ASSUME NEW a \in Acts, NEW k \in ReplyKinds, Reply(a, k) PROVE HistoryOK'
  BY <1>3, <1>8 DEF Reply
<1>9. CASE Timer
  BY <1>3, <1>9 DEF Timer, TimerCommand, Expire, Fire
<1>10. CASE UNCHANGED vars
  BY <1>3, <1>10 DEF vars
<1>11. QED
  BY <1>4, <1>5, <1>6, <1>7, <1>8, <1>9, <1>10 DEF Next

(* The variables keep their types, every task, thread and the worker have  *)
(* the activity they are working for in hand, and every activity number in *)
(* use was taken from the counter.                                         *)
THEOREM TypeCorrect == Spec => [](TypeOK /\ InHand /\ Numbered)
<1>1. Spec => []TypeInv
  BY TypeInit, TypeStep, PTL DEF Spec
<1>2. Init => HistoryOK
  BY DEF Init, HistoryOK
<1>3. Spec => []HistoryOK
  BY <1>1, <1>2, HistoryStep, PTL DEF Spec
<1>4. TypeInv /\ HistoryOK => TypeOK /\ InHand /\ Numbered
  BY DEF TypeInv, TypeOK
<1>5. QED
  BY <1>1, <1>3, <1>4, PTL

(***************************************************************************)
(* RemoteCall implements ThreadPool                                        *)
(***************************************************************************)

LEMMA CallPool ==
  ASSUME TypeInv, NEW c \in Callers, NEW k \in Kinds, Call(c, k)
  PROVE  Pool!Next
<1> DEFINE a == jcounter
           t == athread_get(a)
<1>1. TableOK /\ Numbered
  BY DEF TypeInv, CallsOK
<1>2. jcounter <= MaxActs /\ jcounter' = jcounter + 1
  BY DEF Call
<1>3. CASE t # NoThread /\ Launch(c, k, a, t)
  <2>1. t \in Threads /\ (jindx[t] = a \/ jindx[t] = 0)
    BY <1>1, <1>3, ThreadGot DEF TableOK
  <2>2. jindx[t] = 0
    BY <1>1, <2>1, ConstantsAssumption DEF Numbered, TableOK
  <2>3. Pool!Create(t)
    BY <1>2, <1>3, <2>2 DEF Pool!Create, Launch
  <2>4. QED
    BY <2>1, <2>3 DEF Pool!Next
<1>4. CASE UNCHANGED jindx
  BY <1>2, <1>4 DEF Pool!Next, Pool!Reserve
<1>5. QED
  BY <1>3, <1>4 DEF Call

LEMMA RetryPool ==
  ASSUME TypeInv, NEW c \in Callers, Retry(c)
  PROVE  [Pool!Next]_(Pool!poolVars)
<1> DEFINE a == task[c].act
           t == athread_get(a)
<1>1. TableOK /\ Numbered /\ InHand /\ task \in [Callers -> TaskStates]
  BY DEF TypeInv, CallsOK
<1>2. UNCHANGED jcounter
  BY DEF Retry
<1>3. CASE t # NoThread /\ Launch(c, task[c].kind, a, t)
  <2>1. a \in Acts /\ a < jcounter
    BY <1>1 DEF Retry, InHand, TaskStates, Numbered
  <2>2. /\ t \in Threads
        /\ jindx[t] = a \/ (jindx[t] = 0 /\ \A u \in Threads : jindx[u] # a)
    BY <1>1, <1>3, ThreadGot DEF TableOK
  <2>3. jindx' = [jindx EXCEPT ![t] = a]
    BY <1>3 DEF Launch
  <2>4. CASE jindx[t] = a
    BY <1>1, <1>2, <2>2, <2>3, <2>4 DEF Pool!poolVars, TableOK
  <2>5. CASE jindx[t] = 0 /\ \A u \in Threads : jindx[u] # a
    <3>1. Pool!Assign(t, a)
      BY <1>2, <2>1, <2>3, <2>5 DEF Pool!Assign, Pool!Acts, Acts
    <3>2. QED
      BY <2>1, <2>2, <3>1 DEF Pool!Next, Pool!Acts, Acts
  <2>6. QED
    BY <2>2, <2>4, <2>5
<1>4. CASE UNCHANGED jindx
  BY <1>2, <1>4 DEF Pool!poolVars
<1>5. QED
  BY <1>3, <1>4 DEF Retry

(* An activity thread only ever gives itself back.                         *)
LEMMA RunPool ==
  ASSUME NEW t \in Threads, RunActivity(t) \/ Sleep(t)
  PROVE  [Pool!Next]_(Pool!poolVars)
<1>1. UNCHANGED jcounter
  BY DEF RunActivity, DropCommand, RunCommand, SyncResult, AsyncSecondAck, EndCallback, Sleep,
     Wake, tableVars
<1>2. UNCHANGED jindx \/ jindx' = [jindx EXCEPT ![t] = 0]
  <2>1. CASE DropCommand(t) \/ Sleep(t) \/ Wake(t)
    BY <2>1 DEF DropCommand, Sleep, Wake, tableVars
  <2>2. CASE RunCommand(t)
    <3>1. SyncAck(t) \/ AsyncAck(t) \/ StartCallback(t) \/ IgnoreCommand(t)
      BY <2>2 DEF RunCommand
    <3>2. CASE SyncAck(t)
      BY <3>2 DEF SyncAck, Finish, Released
    <3>3. CASE AsyncAck(t)
      BY <3>3, Zenon DEF AsyncAck, Finish, Released
    <3>4. CASE StartCallback(t) \/ IgnoreCommand(t)
      BY <3>4 DEF StartCallback, IgnoreCommand, Released
    <3>5. QED
      BY <3>1, <3>2, <3>3, <3>4
  <2>3. CASE SyncResult(t) \/ AsyncSecondAck(t) \/ EndCallback(t)
    BY <2>3, Zenon DEF SyncResult, AsyncSecondAck, EndCallback, Finish, Released
  <2>4. QED
    BY <2>1, <2>2, <2>3 DEF RunActivity
<1>3. QED
  BY <1>1, <1>2 DEF Pool!poolVars, Pool!Next, Pool!Release

LEMMA PoolStep == TypeInv /\ [Next]_vars => [Pool!Next]_(Pool!poolVars)
<1> SUFFICES ASSUME TypeInv, [Next]_vars PROVE [Pool!Next]_(Pool!poolVars)
  OBVIOUS
<1>1. ASSUME NEW c \in Callers, CallerStep(c) PROVE [Pool!Next]_(Pool!poolVars)
  <2>1. CASE Retry(c)
    BY <2>1, RetryPool
  <2>2. CASE SyncCollect(c) \/ AsyncCollect(c)
    BY <2>2 DEF SyncCollect, AsyncCollect, Collect, Pool!poolVars
  <2>3. QED
    BY <1>1, <2>1, <2>2 DEF CallerStep
<1>2. ASSUME NEW c \in Callers, NEW k \in Kinds, Call(c, k) PROVE [Pool!Next]_(Pool!poolVars)
  BY <1>2, CallPool
<1>3. ASSUME NEW t \in Threads, RunActivity(t) \/ Sleep(t) PROVE [Pool!Next]_(Pool!poolVars)
  BY <1>3, RunPool
<1>4. CASE Worker
  BY <1>4 DEF Worker, Publish, FindActivity, FindThread, Deliver, Pool!poolVars, tableVars
<1>5. ASSUME NEW a \in Acts, NEW k \in ReplyKinds, Reply(a, k)
      PROVE  [Pool!Next]_(Pool!poolVars)
  BY <1>5 DEF Reply, Pool!poolVars, tableVars
<1>6. CASE Timer
  BY <1>6 DEF Timer, TimerCommand, Expire, Fire, Pool!poolVars, tableVars
<1>7. CASE UNCHANGED vars
  BY <1>7 DEF vars, tableVars, Pool!poolVars
<1>8. QED
  BY <1>1, <1>2, <1>3, <1>4, <1>5, <1>6, <1>7 DEF Next

(* Whatever callers, replies and timeouts do, every step of the system     *)
(* hands out or gives back a thread as ThreadPool says, or leaves the pool *)
(* as it is (activity_new, run_activity).                                  *)
THEOREM PoolImplemented == Spec => ImplementsThreadPool
<1>1. Init => Pool!Init
  BY DEF Init, Pool!Init
<1>2. Spec => []TypeInv
  BY TypeInit, TypeStep, PTL DEF Spec
<1>3. QED
  BY <1>1, <1>2, PoolStep, PTL DEF Spec, ImplementsThreadPool, Pool!Spec

LEMMA OneThreadStep ==
  TypeInv /\ OneThreadPerActivity /\ [Pool!Next]_(Pool!poolVars) => OneThreadPerActivity'
<1> SUFFICES ASSUME TypeInv, OneThreadPerActivity, [Pool!Next]_(Pool!poolVars)
             PROVE  OneThreadPerActivity'
  OBVIOUS
<1> USE DEF OneThreadPerActivity, Pool!OneThreadPerActivity
<1>1. TableOK /\ \A t \in Threads : jindx[t] # jcounter
  BY ConstantsAssumption DEF TypeInv, CallsOK, Numbered, TableOK
<1>2. CASE Pool!Reserve \/ UNCHANGED Pool!poolVars
  BY <1>2 DEF Pool!Reserve, Pool!poolVars
<1>3. ASSUME NEW t \in Threads, Pool!Create(t) PROVE OneThreadPerActivity'
  BY <1>1, <1>3 DEF Pool!Create, TableOK
<1>4. ASSUME NEW t \in Threads, Pool!Release(t) PROVE OneThreadPerActivity'
  BY <1>1, <1>4 DEF Pool!Release, TableOK
<1>5. ASSUME NEW t \in Threads, NEW a \in Pool!Acts, Pool!Assign(t, a)
      PROVE  OneThreadPerActivity'
  BY <1>1, <1>5 DEF Pool!Assign, TableOK
<1>6. QED
  BY <1>2, <1>3, <1>4, <1>5 DEF Pool!Next

(* Two threads never serve the same activity, so a message for "the"       *)
(* thread of an activity has one destination (athread_get).                *)
THEOREM OneThread == Spec => []OneThreadPerActivity
<1>1. Init => OneThreadPerActivity
  BY DEF Init, OneThreadPerActivity, Pool!OneThreadPerActivity
<1>2. QED
  BY <1>1, TypeInit, TypeStep, PoolStep, OneThreadStep, PTL DEF Spec

(* A thread serves nothing or an activity already numbered: the counter    *)
(* (jcounter++ in activity_new) is always ahead of every jindx.            *)
THEOREM PoolTypeCorrect == Spec => []Pool!PoolTypeOK
<1>1. TypeInv => Pool!PoolTypeOK
  BY ConstantsAssumption DEF TypeInv, CallsOK, TableOK, Numbered, Acts, Pool!PoolTypeOK
<1>2. QED
  BY <1>1, TypeInit, TypeStep, PTL DEF Spec

(* A thread in use only ever goes back to 0: no step hands it on           *)
(* (run_activity's last assignment).                                       *)
THEOREM NotStolen == Spec => Pool!ThreadNotStolen
<1>1. TypeInv /\ [Pool!Next]_(Pool!poolVars)
        => [\A t \in Threads : jindx'[t] # jindx[t] => jindx[t] = 0 \/ jindx'[t] = 0]_(Pool!poolVars)
  <2> SUFFICES ASSUME TypeInv, Pool!Next
               PROVE  \A t \in Threads : jindx'[t] # jindx[t] => jindx[t] = 0 \/ jindx'[t] = 0
    OBVIOUS
  <2>1. jindx \in [Threads -> Nat]
    BY DEF TypeInv, CallsOK, TableOK, Acts
  <2>2. QED
    BY <2>1 DEF Pool!Next, Pool!Create, Pool!Reserve, Pool!Assign, Pool!Release
<1>2. QED
  BY <1>1, TypeInit, TypeStep, PoolStep, PTL DEF Spec, Pool!ThreadNotStolen

(***************************************************************************)
(* Timers follow threads                                                   *)
(***************************************************************************)

LEMMA Distinct ==
  ASSUME NEW a \in Acts, NEW b \in Acts, NEW t \in Threads, NEW u \in Threads
  PROVE  /\ SetTimer(a, t) # ClearTimer(b)
         /\ SetTimer(a, t) = SetTimer(b, u) => a = b /\ t = u
         /\ ClearTimer(a) = ClearTimer(b) => a = b
BY DEF SetTimer, ClearTimer

(* A new ADDEVENT arms its own event and no other.                         *)
LEMMA ArmedAddedEvent ==
  ASSUME NEW q \in Seq(TimerCommands), NEW E, NEW a \in Acts, NEW t \in Threads,
         NEW b \in Acts, NEW u \in Threads,
         ArmedAfter(Append(q, SetTimer(b, u)), E, a, t)
  PROVE  ArmedAfter(q, E, a, t) \/ (a = b /\ t = u)
<1> DEFINE r == Append(q, SetTimer(b, u))
<1>1. SetTimer(b, u) \in TimerCommands
  BY DEF SetTimer, TimerCommands
<1>2. /\ Len(q) \in Nat
      /\ Len(r) = Len(q) + 1
      /\ \A i \in 1..Len(q) : r[i] = q[i]
      /\ r[Len(q) + 1] = SetTimer(b, u)
  BY <1>1, AppendProperties
<1> HIDE DEF r
<1>3. CASE \E i \in 1..Len(r) :
             r[i] = SetTimer(a, t) /\ \A j \in i+1..Len(r) : r[j] # ClearTimer(a)
  <2>1. PICK i \in 1..Len(r) :
          r[i] = SetTimer(a, t) /\ \A j \in i+1..Len(r) : r[j] # ClearTimer(a)
    BY <1>3
  <2>2. CASE i = Len(q) + 1
    BY <1>2, <2>1, <2>2, Distinct
  <2>3. CASE i \in 1..Len(q)
    <3>1. q[i] = SetTimer(a, t) /\ \A j \in i+1..Len(q) : q[j] # ClearTimer(a)
      BY <1>2, <2>1, <2>3
    <3>2. QED
      BY <2>3, <3>1 DEF ArmedAfter
  <2>4. QED
    BY <1>2, <2>1, <2>2, <2>3
<1>4. CASE [act |-> a, thr |-> t] \in E /\ \A j \in 1..Len(r) : r[j] # ClearTimer(a)
  <2>1. \A j \in 1..Len(q) : q[j] # ClearTimer(a)
    BY <1>2, <1>4
  <2>2. QED
    BY <1>4, <2>1 DEF ArmedAfter
<1>5. QED
  BY <1>3, <1>4 DEF ArmedAfter, r

(* A new DELEVENT disarms the activity's events and arms none.             *)
LEMMA ArmedDeletedEvent ==
  ASSUME NEW q \in Seq(TimerCommands), NEW E, NEW a \in Acts, NEW t \in Threads,
         NEW b \in Acts, ArmedAfter(Append(q, ClearTimer(b)), E, a, t)
  PROVE  ArmedAfter(q, E, a, t) /\ a # b
<1> DEFINE r == Append(q, ClearTimer(b))
<1>1. ClearTimer(b) \in TimerCommands
  BY DEF ClearTimer, TimerCommands
<1>2. /\ Len(q) \in Nat
      /\ Len(r) = Len(q) + 1
      /\ \A i \in 1..Len(q) : r[i] = q[i]
      /\ r[Len(q) + 1] = ClearTimer(b)
  BY <1>1, AppendProperties
<1> HIDE DEF r
<1>3. CASE \E i \in 1..Len(r) :
             r[i] = SetTimer(a, t) /\ \A j \in i+1..Len(r) : r[j] # ClearTimer(a)
  <2>1. PICK i \in 1..Len(r) :
          r[i] = SetTimer(a, t) /\ \A j \in i+1..Len(r) : r[j] # ClearTimer(a)
    BY <1>3
  <2>2. i # Len(q) + 1
    BY <1>2, <2>1, Distinct
  <2>3. i \in 1..Len(q)
    BY <1>2, <2>2
  <2>4. Len(q) + 1 \in i+1..Len(r)
    BY <1>2, <2>3
  <2>5. a # b
    BY <1>2, <2>1, <2>4
  <2>6. q[i] = SetTimer(a, t) /\ \A j \in i+1..Len(q) : q[j] # ClearTimer(a)
    BY <1>2, <2>1, <2>3
  <2>7. QED
    BY <2>3, <2>5, <2>6 DEF ArmedAfter
<1>4. CASE [act |-> a, thr |-> t] \in E /\ \A j \in 1..Len(r) : r[j] # ClearTimer(a)
  <2>1. Len(q) + 1 \in 1..Len(r)
    BY <1>2
  <2>2. a # b
    BY <1>2, <1>4, <2>1
  <2>3. \A j \in 1..Len(q) : q[j] # ClearTimer(a)
    BY <1>2, <1>4
  <2>4. QED
    BY <1>4, <2>2, <2>3 DEF ArmedAfter
<1>5. QED
  BY <1>3, <1>4 DEF ArmedAfter, r

(* The timer pthread's taking of a command arms nothing that its queue did *)
(* not announce.                                                           *)
LEMMA ArmedTakenCommand ==
  ASSUME NEW q \in Seq(TimerCommands), q # <<>>, NEW E, NEW F, NEW a \in Acts, NEW t \in Threads,
         ArmedAfter(Tail(q), F, a, t),
         \/ /\ Head(q).op = "ADDEVENT"
            /\ F = E \cup {[act |-> Head(q).act, thr |-> Head(q).thr]}
         \/ /\ Head(q).op = "DELEVENT"
            /\ F = {f \in E : f.act # Head(q).act}
  PROVE  ArmedAfter(q, E, a, t)
<1> DEFINE r == Tail(q)
<1>1. /\ Head(q) \in TimerCommands /\ Head(q) = q[1]
      /\ Len(q) \in Nat \ {0}
      /\ Len(r) = Len(q) - 1
      /\ \A i \in 1..Len(r) : r[i] = q[i + 1]
  BY HeadTailProperties
<1> HIDE DEF r
<1>2. CASE \E i \in 1..Len(r) :
             r[i] = SetTimer(a, t) /\ \A j \in i+1..Len(r) : r[j] # ClearTimer(a)
  <2>1. PICK i \in 1..Len(r) :
          r[i] = SetTimer(a, t) /\ \A j \in i+1..Len(r) : r[j] # ClearTimer(a)
    BY <1>2
  <2>2. i + 1 \in 1..Len(q) /\ q[i + 1] = SetTimer(a, t)
    BY <1>1, <2>1
  <2>3. ASSUME NEW j \in (i+1)+1..Len(q) PROVE q[j] # ClearTimer(a)
    <3>1. j - 1 \in i+1..Len(r) /\ q[j] = r[j - 1]
      BY <1>1
    <3>2. QED
      BY <2>1, <3>1
  <2>4. QED
    BY <2>2, <2>3 DEF ArmedAfter
<1>3. CASE [act |-> a, thr |-> t] \in F /\ \A j \in 1..Len(r) : r[j] # ClearTimer(a)
  <2>1. ASSUME NEW j \in 2..Len(q) PROVE q[j] # ClearTimer(a)
    <3>1. j - 1 \in 1..Len(r) /\ q[j] = r[j - 1]
      BY <1>1
    <3>2. QED
      BY <1>3, <3>1
  <2>2. CASE [act |-> a, thr |-> t] = [act |-> Head(q).act, thr |-> Head(q).thr]
             /\ Head(q).op = "ADDEVENT"
    <3>1. Head(q).act = a /\ Head(q).thr = t
      BY <2>2
    <3>2. q[1] = SetTimer(a, t)
      BY <1>1, <2>2, <3>1 DEF TimerCommands, SetTimer
    <3>3. 1 \in 1..Len(q) /\ \A j \in 1+1..Len(q) : q[j] # ClearTimer(a)
      BY <1>1, <2>1
    <3>4. QED
      BY <3>2, <3>3 DEF ArmedAfter
  <2>3. CASE [act |-> a, thr |-> t] \in E
    <3>1. CASE Head(q).op = "ADDEVENT"
      <4>1. q[1] # ClearTimer(a)
        BY <1>1, <3>1 DEF ClearTimer
      <4>2. \A j \in 1..Len(q) : q[j] # ClearTimer(a)
        BY <1>1, <2>1, <4>1
      <4>3. QED
        BY <2>3, <4>2 DEF ArmedAfter
    <3>2. CASE Head(q).op = "DELEVENT"
      <4>1. a # Head(q).act
        BY <1>3, <3>2
      <4>2. q[1] # ClearTimer(a)
        BY <1>1, <4>1 DEF ClearTimer
      <4>3. \A j \in 1..Len(q) : q[j] # ClearTimer(a)
        BY <1>1, <2>1, <4>2
      <4>4. QED
        BY <2>3, <4>3 DEF ArmedAfter
    <3>3. QED
      BY <3>1, <3>2
  <2>4. QED
    BY <1>3, <2>2, <2>3
<1>4. QED
  BY <1>2, <1>3 DEF ArmedAfter, r

(* History is not forgotten.                                               *)
LEMMA HistoryGrows ==
  [Next]_vars => misled \subseteq misled' /\ robbed \subseteq robbed' /\ hijacked \subseteq hijacked'
<1> SUFFICES ASSUME [Next]_vars
             PROVE  misled \subseteq misled' /\ robbed \subseteq robbed' /\ hijacked \subseteq hijacked'
  OBVIOUS
<1> DEFINE Grows == misled \subseteq misled' /\ robbed \subseteq robbed' /\ hijacked \subseteq hijacked'
<1>1. UNCHANGED historyVars => Grows
  BY DEF historyVars
<1>2. ASSUME NEW c \in Callers, CallerStep(c) PROVE Grows
  <2>1. Collect(c) => Grows
    BY DEF Collect
  <2>2. QED
    BY <1>1, <1>2, <2>1 DEF CallerStep, Retry, SyncCollect, AsyncCollect
<1>3. ASSUME NEW c \in Callers, NEW k \in Kinds, Call(c, k) PROVE Grows
  BY <1>1, <1>3 DEF Call
<1>4. ASSUME NEW t \in Threads, RunActivity(t) \/ Sleep(t) PROVE Grows
  <2>1. RunCommand(t) => Grows
    BY DEF RunCommand, StartCallback
  <2> HIDE DEF Grows
  <2>2. QED
    BY <1>1, <1>4, <2>1, Zenon
       DEF RunActivity, DropCommand, SyncResult, AsyncSecondAck, EndCallback, Sleep, Wake
<1>5. CASE Worker
  BY <1>1, <1>5 DEF Worker, Publish, FindActivity, FindThread, Deliver
<1>6. ASSUME NEW a \in Acts, NEW k \in ReplyKinds, Reply(a, k) PROVE Grows
  BY <1>1, <1>6 DEF Reply
<1>7. CASE Timer
  BY <1>1, <1>7 DEF Timer, TimerCommand, Expire, Fire
<1>8. CASE UNCHANGED vars
  BY <1>1, <1>8 DEF vars
<1>9. QED
  BY <1>2, <1>3, <1>4, <1>5, <1>6, <1>7, <1>8 DEF Next

(* A number no thread serves and no other caller holds.                    *)
Fresh(c, a) ==
  /\ a \in Acts
  /\ \A u \in Threads : jindx[u] # a
  /\ \A d \in Callers : task[d].act = a => d = c

(* What a caller does without a thread, or at its last failure to get one. *)
StillOut(c) ==
  /\ UNCHANGED <<jindx, kind, timerqueue, armed, run>>
  /\ \A d \in Callers : d # c => task'[d] = task[d]
  /\ \/ task'[c].pc = "delay" /\ Fresh(c, task'[c].act)
     \/ task'[c].pc = "idle" /\ task'[c].act = 0

(* The number of a call: the one it has, or the counter's.                 *)
NumberOf(c, a) ==
  \/ task[c].pc = "delay" /\ a = task[c].act
  \/ a = jcounter /\ jcounter' = a + 1

(* A call that goes out does so on an idle thread, for a fresh number.     *)
LEMMA StartStep ==
  ASSUME TypeInv, Waiting, NEW c \in Callers,
         Retry(c) \/ \E k \in Kinds : Call(c, k)
  PROVE  \/ StillOut(c) /\ (task'[c].pc = "delay" => NumberOf(c, task'[c].act))
         \/ \E k \in AllKinds, a \in Acts, t \in Threads :
              /\ Launch(c, k, a, t) /\ UNCHANGED <<run, armed>>
              /\ jindx[t] = 0 /\ run[t].pc = "top" /\ Fresh(c, a) /\ NumberOf(c, a)
              /\ task[c].pc # "wait"
<1> DEFINE Waits == StillOut(c) /\ (task'[c].pc = "delay" => NumberOf(c, task'[c].act))
<1>1. /\ TableOK /\ task \in [Callers -> TaskStates] /\ run \in [Threads -> RunStates]
      /\ InHand /\ Numbered
  BY DEF TypeInv, CallsOK
<1>2. ASSUME NEW a, Fresh(c, a), athread_get(a) # NoThread
      PROVE  /\ athread_get(a) \in Threads
             /\ jindx[athread_get(a)] = 0
             /\ run[athread_get(a)].pc = "top"
  <2>1. athread_get(a) \in Threads /\ jindx[athread_get(a)] = 0
    BY <1>1, <1>2, ThreadGot DEF TableOK, Fresh
  <2>2. QED
    BY <1>1, <2>1 DEF InHand
<1>3. ASSUME NEW k \in Kinds, Call(c, k) PROVE Waits \/
         /\ Launch(c, k, jcounter, athread_get(jcounter)) /\ UNCHANGED <<run, armed>>
         /\ athread_get(jcounter) # NoThread /\ Fresh(c, jcounter) /\ NumberOf(c, jcounter)
         /\ task[c].pc # "wait" /\ k \in AllKinds
  <2>1. jcounter \in Acts /\ k \in AllKinds /\ task[c].pc = "idle" /\ UNCHANGED <<run, armed>>
    BY <1>1, <1>3, ConstantsAssumption DEF Call, TableOK, Acts
  <2>5. NumberOf(c, jcounter)
    BY <1>3 DEF Call, NumberOf
  <2>2. Fresh(c, jcounter)
    BY <1>1, <2>1 DEF Fresh, Numbered, TableOK, TaskStates, Acts
  <2>3. CASE /\ task' = [task EXCEPT ![c] =
                  [pc |-> "delay", act |-> jcounter, thr |-> NoThread, try |-> 1, kind |-> k]]
             /\ UNCHANGED <<jindx, kind, timerqueue>>
    <3>1. StillOut(c)
      BY <1>1, <2>1, <2>2, <2>3 DEF StillOut
    <3>2. task'[c].act = jcounter
      BY <1>1, <2>3
    <3>3. QED
      BY <2>5, <3>1, <3>2
  <2>4. QED
    BY <1>3, <2>1, <2>2, <2>3, <2>5 DEF Call
<1>4. ASSUME Retry(c) PROVE Waits \/
         \E k \in AllKinds, a \in Acts :
           /\ Launch(c, k, a, athread_get(a)) /\ UNCHANGED <<run, armed>>
           /\ athread_get(a) # NoThread /\ Fresh(c, a) /\ NumberOf(c, a)
           /\ task[c].pc # "wait"
  <2> DEFINE a == task[c].act
  <2>1. /\ a \in Acts /\ task[c].pc = "delay" /\ UNCHANGED <<run, armed>>
        /\ task[c] \in TaskStates
    BY <1>1, <1>4 DEF Retry, InHand, TaskStates
  <2>2. Fresh(c, a) /\ NumberOf(c, a)
    BY <2>1 DEF Fresh, Waiting, NumberOf
  <2>3. CASE Launch(c, task[c].kind, a, athread_get(a)) /\ athread_get(a) # NoThread
    <3>1. task[c].kind \in AllKinds
      BY <2>3 DEF Launch, Send, GiveUp, RunHere, AllKinds
    <3>2. QED
      BY <2>1, <2>2, <2>3, <3>1
  <2>4. CASE task' = [task EXCEPT ![c].try = @ + 1] /\ UNCHANGED <<jindx, kind, timerqueue>>
    <3>1. task'[c].pc = "delay" /\ task'[c].act = a
      BY <1>1, <2>1, <2>4 DEF TaskStates
    <3>2. \A d \in Callers : d # c => task'[d] = task[d]
      BY <1>1, <2>4
    <3>3. StillOut(c)
      BY <2>1, <2>2, <2>4, <3>1, <3>2 DEF StillOut
    <3>4. QED
      BY <2>2, <3>1, <3>3
  <2>5. CASE task' = [task EXCEPT ![c] = Idle] /\ UNCHANGED <<jindx, kind, timerqueue>>
    <3>1. StillOut(c)
      BY <1>1, <2>1, <2>5, IdleState DEF StillOut
    <3>2. task'[c].pc # "delay"
      BY <1>1, <2>5, IdleState
    <3>3. QED
      BY <3>1, <3>2
  <2>6. QED
    BY <1>4, <2>3, <2>4, <2>5 DEF Retry
<1>5. QED
  BY <1>2, <1>3, <1>4 DEF Fresh

(* A runner that gets a result keeps its activity or lets go of it.        *)
LEMMA CollectStep ==
  ASSUME TypeInv, NEW c \in Callers, SyncCollect(c) \/ AsyncCollect(c)
  PROVE  /\ UNCHANGED <<jindx, kind, armed, run>>
         /\ \A d \in Callers : d # c => task'[d] = task[d]
         /\ task[c].pc = "wait" /\ task[c].act \in Acts
         /\ \/ task'[c].pc = "wait" /\ task'[c].act = task[c].act /\ task'[c].kind = task[c].kind
            \/ task'[c].pc = "idle" /\ task'[c].act = 0
         /\ \/ timerqueue' = jam_clear_timer(timerqueue, task[c].act)
            \/ timerqueue' = jam_set_timer(jam_clear_timer(timerqueue, task[c].act), task[c].act)
<1>1. task \in [Callers -> TaskStates] /\ InHand
  BY DEF TypeInv, CallsOK
<1>2. /\ UNCHANGED <<jindx, kind, armed, run>> /\ task[c].pc = "wait"
      /\ \/ timerqueue' = jam_clear_timer(timerqueue, task[c].act)
         \/ timerqueue' = jam_set_timer(jam_clear_timer(timerqueue, task[c].act), task[c].act)
  <2>1. CASE SyncCollect(c)
    BY <2>1 DEF SyncCollect, Collect
  <2>2. CASE AsyncCollect(c)
    BY <2>2 DEF AsyncCollect, Collect
  <2>3. QED
    BY <2>1, <2>2
<1>3. \/ task' = task
      \/ task' = [task EXCEPT ![c] = Idle]
      \/ \E u : task' = [task EXCEPT ![c].try = @ + 1, ![c].thr = u]
      \/ task' = [task EXCEPT ![c].try = @ + 1]
  <2>1. CASE SyncCollect(c)
    BY <2>1 DEF SyncCollect, Return
  <2>2. CASE AsyncCollect(c)
    BY <2>2 DEF AsyncCollect, Return
  <2>3. QED
    BY <2>1, <2>2
<1>4. task[c] \in TaskStates /\ task[c].act \in Acts
  BY <1>1, <1>2 DEF InHand, TaskStates
<1>5. CASE task' = task
  BY <1>2, <1>4, <1>5
<1>6. CASE task' = [task EXCEPT ![c] = Idle]
  BY <1>1, <1>2, <1>4, <1>6, IdleState
<1>7. ASSUME NEW u, task' = [task EXCEPT ![c].try = @ + 1, ![c].thr = u]
      PROVE  task'[c].pc = "wait" /\ task'[c].act = task[c].act /\ task'[c].kind = task[c].kind
             /\ \A d \in Callers : d # c => task'[d] = task[d]
  BY <1>1, <1>2, <1>4, <1>7 DEF TaskStates
<1>8. CASE task' = [task EXCEPT ![c].try = @ + 1]
  <2>1. task'[c].pc = "wait" /\ task'[c].act = task[c].act /\ task'[c].kind = task[c].kind
    BY <1>1, <1>2, <1>4, <1>8 DEF TaskStates
  <2>2. \A d \in Callers : d # c => task'[d] = task[d]
    BY <1>1, <1>8
  <2>3. QED
    BY <1>2, <1>4, <2>1, <2>2
<1>9. QED
  BY <1>2, <1>3, <1>4, <1>5, <1>6, <1>7, <1>8

(* What a step of an activity thread means for its timer: an attempt ends, *)
(* an activity without a timer leaves, a call or a callback goes on.       *)
Ends(t) ==
  /\ jindx'[t] = 0 /\ run'[t].pc = "top"
  /\ timerqueue' = jam_clear_timer(timerqueue, jindx[t])

Leaves(t) ==
  /\ jindx'[t] = 0 /\ run'[t].pc = "top"
  /\ \/ kind[jindx[t]] \in {"remote", "none"} /\ run[t].pc # "sleep"
     \/ kind[jindx[t]] = "lexec" /\ run[t].pc \in {"callback", "woken"}
     \/ jindx[t] \in hijacked
  /\ UNCHANGED timerqueue

Acked(t) ==
  /\ jindx'[t] = jindx[t]
  /\ \/ kind[jindx[t]] = "sync" /\ run'[t].pc = "result"
     \/ kind[jindx[t]] \in {"async", "lexec"} /\ run'[t].pc = "ack"
  /\ timerqueue' = jam_set_timer(jam_clear_timer(timerqueue, jindx[t]), jindx[t])

CallsBack(t) ==
  /\ jindx'[t] = jindx[t]
  /\ kind[jindx[t]] \in {"lexec", "remote", "none"} \/ jindx[t] \in hijacked'
  /\ \/ run[t].pc = "top" /\ run'[t].pc = "callback" /\ UNCHANGED timerqueue
     \/ run'[t].pc = "sleep" /\ timerqueue' = jam_set_timer(timerqueue, jindx[t])
     \/ run'[t].pc = "woken" /\ timerqueue' = jam_clear_timer(timerqueue, jindx[t])

LEMMA RunStep ==
  ASSUME TypeInv, KindsAgree, NEW t \in Threads, RunActivity(t) \/ Sleep(t)
  PROVE  /\ UNCHANGED <<task, kind, armed>>
         /\ \A u \in Threads : u # t => jindx'[u] = jindx[u] /\ run'[u] = run[u]
         /\ \/ UNCHANGED <<jindx, run, timerqueue>>
            \/ jindx[t] \in Acts /\ (Ends(t) \/ Leaves(t) \/ Acked(t) \/ CallsBack(t))
<1> DEFINE Others == \A u \in Threads : u # t => jindx'[u] = jindx[u] /\ run'[u] = run[u]
<1>1. /\ jindx \in [Threads -> Acts \cup {0}] /\ alist \subseteq Acts
      /\ run \in [Threads -> RunStates] /\ run[t] \in RunStates
      /\ kind \in [Acts -> AllKinds \cup {"none"}] /\ \A a \in Acts : kind[a] # "missing"
      /\ run[t].pc # "top" => jindx[t] \in Acts
      /\ run[t].pc = "result" => kind[jindx[t]] = "sync"
      /\ run[t].pc = "ack" => kind[jindx[t]] \in {"async", "lexec"}
      /\ run[t].pc \in {"callback", "sleep", "woken"} =>
           kind[jindx[t]] \in {"lexec", "remote", "none"} \/ jindx[t] \in hijacked
  BY DEF TypeInv, CallsOK, TableOK, InHand, KindsAgree
<1>2. UNCHANGED <<task, kind, armed>>
  BY DEF RunActivity, DropCommand, RunCommand, SyncResult, AsyncSecondAck, EndCallback, Sleep,
     Wake, tableVars, timerVars
<1>3. Released(t) => jindx'[t] = 0 /\ run'[t].pc = "top" /\ Others
  BY <1>1, TopState DEF Released
<1>4. \A k : Finish(t, k) => Ends(t) /\ Others
  BY <1>3, Zenon DEF Finish, Ends
<1>5. ASSUME NEW p, UNCHANGED jindx, run' = [run EXCEPT ![t].pc = p]
      PROVE  jindx'[t] = jindx[t] /\ run'[t].pc = p /\ Others
  BY <1>1, <1>5 DEF RunStates
<1>6. CASE DropCommand(t)
  BY <1>2, <1>6 DEF DropCommand, tableVars, timerVars
<1>7. CASE RunCommand(t)
  <2>1. /\ run[t].pc = "top" /\ jindx[t] \in Acts /\ inq[t] # <<>>
        /\ SyncAck(t) \/ AsyncAck(t) \/ StartCallback(t) \/ IgnoreCommand(t)
    BY <1>1, <1>7 DEF RunCommand
  <2>3. CASE SyncAck(t)
    <3>1. CASE Finish(t, "null")
      BY <1>2, <1>4, <2>1, <3>1
    <3>2. CASE /\ run' = [run EXCEPT ![t].pc = "result"] /\ UNCHANGED jindx
               /\ timerqueue' = jam_set_timer(jam_clear_timer(timerqueue, jindx[t]), jindx[t])
      <4>1. kind[jindx[t]] = "sync"
        BY <2>3 DEF SyncAck
      <4>2. QED
        BY <1>2, <1>5, <2>1, <3>2, <4>1 DEF Acked
    <3>3. QED
      BY <2>3, <3>1, <3>2 DEF SyncAck
  <2>4. CASE AsyncAck(t)
    <3>1. kind[jindx[t]] \in {"async", "lexec"}
      BY <2>4 DEF AsyncAck
    <3>2. ASSUME NEW b, run' = [run EXCEPT ![t].pc = "ack", ![t].failed = b], UNCHANGED jindx,
                 timerqueue' = jam_set_timer(jam_clear_timer(timerqueue, jindx[t]), jindx[t])
          PROVE  Acked(t) /\ Others
      <4>1. jindx'[t] = jindx[t] /\ run'[t].pc = "ack" /\ Others
        BY <1>1, <3>2 DEF RunStates
      <4>2. QED
        BY <3>1, <3>2, <4>1 DEF Acked
    <3>3. (\E k : Finish(t, k)) \/
          \E b : /\ run' = [run EXCEPT ![t].pc = "ack", ![t].failed = b] /\ UNCHANGED jindx
                 /\ timerqueue' = jam_set_timer(jam_clear_timer(timerqueue, jindx[t]), jindx[t])
      BY <2>4, Zenon DEF AsyncAck
    <3>4. QED
      BY <1>2, <1>4, <2>1, <3>2, <3>3
  <2>5. CASE StartCallback(t)
    <3>1. kind[jindx[t]] \in {"lexec", "remote", "none"} \/ jindx[t] \in hijacked'
      BY <1>1, <2>1, <2>5 DEF StartCallback, AllKinds
    <3>2. /\ UNCHANGED <<jindx, timerqueue>>
          /\ \E b : run' = [run EXCEPT ![t].pc = "callback", ![t].frees = b]
      BY <2>5 DEF StartCallback
    <3>3. jindx'[t] = jindx[t] /\ run'[t].pc = "callback" /\ Others
      BY <1>1, <3>2 DEF RunStates
    <3>4. QED
      BY <1>2, <2>1, <3>1, <3>2, <3>3 DEF CallsBack
  <2>6. CASE IgnoreCommand(t)
    <3>1. /\ kind[jindx[t]] \in {"remote", "none"} /\ Released(t) /\ UNCHANGED timerqueue
      BY <2>6 DEF IgnoreCommand
    <3>2. QED
      BY <1>2, <1>3, <2>1, <3>1 DEF Leaves
  <2>7. QED
    BY <2>1, <2>3, <2>4, <2>5, <2>6
<1>8. CASE SyncResult(t) \/ AsyncSecondAck(t)
  <2>1. run[t].pc # "top" /\ \E k : Finish(t, k)
    BY <1>8, Zenon DEF SyncResult, AsyncSecondAck
  <2>2. QED
    BY <1>1, <1>2, <1>4, <2>1
<1>9. CASE EndCallback(t)
  <2>1. run[t].pc \in {"callback", "woken"} /\ Released(t) /\ UNCHANGED timerqueue
    BY <1>9 DEF EndCallback, timerVars
  <2>2. QED
    BY <1>1, <1>2, <1>3, <2>1 DEF Leaves
<1>10. CASE Sleep(t) \/ Wake(t)
  <2>1. UNCHANGED <<jindx, hijacked>> /\ run[t].pc \in {"callback", "sleep"}
    BY <1>10 DEF Sleep, Wake, tableVars, historyVars
  <2>2. \/ /\ run' = [run EXCEPT ![t].pc = "sleep"]
           /\ timerqueue' = jam_set_timer(timerqueue, jindx[t])
        \/ /\ run' = [run EXCEPT ![t].pc = "woken"]
           /\ timerqueue' = jam_clear_timer(timerqueue, jindx[t])
    BY <1>10 DEF Sleep, Wake
  <2>3. kind[jindx[t]] \in {"lexec", "remote", "none"} \/ jindx[t] \in hijacked'
    BY <1>1, <2>1
  <2>4. QED
    BY <1>1, <1>2, <1>5, <2>1, <2>2, <2>3 DEF CallsBack
<1>11. QED
  BY <1>6, <1>7, <1>8, <1>9, <1>10 DEF RunActivity

(* Steps of the worker, the J nodes and the timer, and stuttering, leave   *)
(* the calls as they are.                                                  *)
Elsewhere ==
  \/ Worker \/ Timer \/ UNCHANGED vars
  \/ \E a \in Acts, k \in ReplyKinds : Reply(a, k)

LEMMA ElsewhereStep == Elsewhere => UNCHANGED <<jindx, kind, task, run>>
BY DEF Elsewhere, Worker, Publish, FindActivity, FindThread, Deliver, Timer, TimerCommand, Expire,
   Fire, Reply, vars, tableVars

LEMMA StepCases ==
  ASSUME [Next]_vars
  PROVE  \/ \E c \in Callers : \/ Retry(c) \/ \E k \in Kinds : Call(c, k)
                              \/ SyncCollect(c) \/ AsyncCollect(c)
         \/ \E t \in Threads : RunActivity(t) \/ Sleep(t)
         \/ Elsewhere
BY DEF Next, CallerStep, Elsewhere

(* What a call that goes out does to the calls.                            *)
LEMMA LaunchStep ==
  ASSUME TypeInv, NEW c \in Callers, NEW k \in AllKinds, NEW a \in Acts, NEW t \in Threads,
         Launch(c, k, a, t)
  PROVE  /\ jindx'[t] = a
         /\ \A u \in Threads : u # t => jindx'[u] = jindx[u]
         /\ \A d \in Callers : d # c => task'[d] = task[d]
         /\ \A b \in Acts : b # a => kind'[b] = kind[b]
         /\ kind'[a] # "missing" \/ kind' = kind
         /\ \/ /\ kind'[a] \in {"sync", "async"} /\ task'[c].kind = kind'[a]
               /\ task'[c].pc = "wait" /\ task'[c].act = a /\ task'[c].thr = t
               /\ timerqueue' = Append(timerqueue, SetTimer(a, t))
            \/ task'[c].pc = "idle" /\ task'[c].act = 0 /\ UNCHANGED timerqueue
<1>1. TableOK /\ task \in [Callers -> TaskStates]
  BY DEF TypeInv, CallsOK
<1>2. /\ jindx'[t] = a
      /\ \A u \in Threads : u # t => jindx'[u] = jindx[u]
  BY <1>1 DEF Launch, TableOK
<1>3. CASE Send(c, k, a, t)
  <2>1. /\ k \in {"sync", "async"} /\ kind' = [kind EXCEPT ![a] = k]
        /\ timerqueue' = Append(timerqueue, SetTimer(a, t))
        /\ task' = [task EXCEPT ![c] =
                      [pc |-> "wait", act |-> a, thr |-> t, try |-> 1, kind |-> k]]
    BY <1>3 DEF Send
  <2>2. QED
    BY <1>1, <1>2, <2>1 DEF TableOK
<1>4. CASE GiveUp(c, k) \/ RunHere(c, k, a, t)
  <2>1. /\ kind' = kind \/ (k \in {"lexec", "remote"} /\ kind' = [kind EXCEPT ![a] = k])
        /\ UNCHANGED timerqueue
        /\ task' = [task EXCEPT ![c] = Idle]
    BY <1>4 DEF GiveUp, RunHere
  <2>2. QED
    BY <1>1, <1>2, <2>1, IdleState DEF TableOK
<1>5. QED
  BY <1>3, <1>4 DEF Launch

(* Callers that wait for a thread keep their activity to themselves.       *)
LEMMA WaitingStep ==
  ASSUME TypeInv, KindsAgree, Waiting, [Next]_vars
  PROVE  Waiting'
<1>1. InHand /\ TableOK /\ task \in [Callers -> TaskStates]
  BY DEF TypeInv, CallsOK
<1>2. ASSUME NEW c \in Callers, Retry(c) \/ \E k \in Kinds : Call(c, k) PROVE Waiting'
  <2>1. CASE StillOut(c)
    BY <1>1, <2>1 DEF StillOut, Fresh, Waiting, InHand
  <2>2. ASSUME NEW k \in AllKinds, NEW a \in Acts, NEW t \in Threads,
               Launch(c, k, a, t), Fresh(c, a)
        PROVE  Waiting'
    <3>1. /\ jindx'[t] = a
          /\ \A u \in Threads : u # t => jindx'[u] = jindx[u]
          /\ \A d \in Callers : d # c => task'[d] = task[d]
          /\ task'[c].pc # "delay"
          /\ task'[c].act = a \/ (task'[c].pc = "idle" /\ task'[c].act = 0)
      BY <2>2, LaunchStep
    <3>2. QED
      BY <1>1, <2>2, <3>1 DEF Fresh, Waiting, InHand
  <2>3. QED
    BY <1>2, <2>1, <2>2, StartStep
<1>3. ASSUME NEW c \in Callers, SyncCollect(c) \/ AsyncCollect(c) PROVE Waiting'
  BY <1>1, <1>3, CollectStep DEF Waiting, InHand
<1>4. ASSUME NEW t \in Threads, RunActivity(t) \/ Sleep(t) PROVE Waiting'
  <2>1. /\ UNCHANGED task
        /\ \A u \in Threads : jindx'[u] = jindx[u] \/ jindx'[u] = 0
    BY <1>4, RunStep DEF Ends, Leaves, Acked, CallsBack
  <2>2. QED
    BY <1>1, <2>1 DEF Waiting, InHand
<1>5. CASE Elsewhere
  BY <1>5, ElsewhereStep DEF Waiting
<1>6. QED
  BY <1>2, <1>3, <1>4, <1>5, StepCases

LEMMA KindsStep ==
  ASSUME TypeInv, KindsAgree, Waiting, [Next]_vars
  PROVE  KindsAgree'
<1>1. InHand /\ TableOK /\ task \in [Callers -> TaskStates] /\ run \in [Threads -> RunStates]
  BY DEF TypeInv, CallsOK
<1>2. ASSUME NEW c \in Callers, Retry(c) \/ \E k \in Kinds : Call(c, k) PROVE KindsAgree'
  <2>1. CASE StillOut(c)
    BY <1>1, <1>2, <2>1, HistoryGrows DEF StillOut, KindsAgree, Next, CallerStep
  <2>2. ASSUME NEW k \in AllKinds, NEW a \in Acts, NEW t \in Threads,
               Launch(c, k, a, t), Fresh(c, a), UNCHANGED run, run[t].pc = "top"
        PROVE  KindsAgree'
    <3>1. /\ jindx'[t] = a
          /\ \A u \in Threads : u # t => jindx'[u] = jindx[u]
          /\ \A d \in Callers : d # c => task'[d] = task[d]
          /\ \A b \in Acts : b # a => kind'[b] = kind[b]
          /\ kind'[a] # "missing" \/ kind' = kind
          /\ task'[c].pc = "wait" =>
               task'[c].kind \in {"sync", "async"} /\ kind'[task'[c].act] = task'[c].kind
      BY <2>2, LaunchStep
    <3>2. ASSUME NEW d \in Callers, task'[d].pc = "wait"
          PROVE  task'[d].kind \in {"sync", "async"} /\ kind'[task'[d].act] = task'[d].kind
      <4>1. CASE d # c
        <5>1. task[d].act \in Acts /\ task[d].act # a
          BY <1>1, <2>2, <3>1, <3>2, <4>1 DEF InHand, Fresh, TaskStates
        <5>2. QED
          BY <3>1, <3>2, <4>1, <5>1 DEF KindsAgree
      <4>2. QED
        BY <3>1, <3>2, <4>1
    <3>3. ASSUME NEW u \in Threads, run'[u].pc # "top"
          PROVE  /\ run'[u] = run[u] /\ jindx'[u] = jindx[u]
                 /\ kind'[jindx'[u]] = kind[jindx[u]]
      <4>1. u # t /\ jindx[u] \in Acts /\ jindx[u] # a
        BY <1>1, <2>2, <3>3 DEF InHand, Fresh, TableOK
      <4>2. QED
        BY <2>2, <3>1, <4>1
    <3>4. \A b \in Acts : kind'[b] # "missing"
      BY <3>1 DEF KindsAgree
    <3>5. hijacked \subseteq hijacked'
      BY HistoryGrows
    <3>6. QED
      BY <3>2, <3>3, <3>4, <3>5 DEF KindsAgree
  <2>3. QED
    BY <1>2, <2>1, <2>2, StartStep
<1>3. ASSUME NEW c \in Callers, SyncCollect(c) \/ AsyncCollect(c) PROVE KindsAgree'
  BY <1>3, CollectStep, HistoryGrows DEF KindsAgree
<1>4. ASSUME NEW t \in Threads, RunActivity(t) \/ Sleep(t) PROVE KindsAgree'
  <2>1. /\ UNCHANGED <<task, kind>>
        /\ \A u \in Threads : u # t => jindx'[u] = jindx[u] /\ run'[u] = run[u]
        /\ \/ UNCHANGED <<jindx, run>>
           \/ Ends(t) \/ Leaves(t) \/ Acked(t) \/ CallsBack(t)
    BY <1>4, RunStep
  <2>2. \/ jindx'[t] = jindx[t] /\ run'[t] = run[t]
        \/ run'[t].pc = "top"
        \/ /\ jindx'[t] = jindx[t]
           /\ \/ kind[jindx[t]] = "sync" /\ run'[t].pc = "result"
              \/ kind[jindx[t]] \in {"async", "lexec"} /\ run'[t].pc = "ack"
              \/ /\ kind[jindx[t]] \in {"lexec", "remote", "none"} \/ jindx[t] \in hijacked'
                 /\ run'[t].pc \in {"callback", "sleep", "woken"}
    BY <2>1 DEF Ends, Leaves, Acked, CallsBack
  <2>3. QED
    BY <2>1, <2>2, HistoryGrows DEF KindsAgree
<1>5. CASE Elsewhere
  BY <1>5, ElsewhereStep, HistoryGrows DEF KindsAgree
<1>6. QED
  BY <1>2, <1>3, <1>4, <1>5, StepCases

(* jam_set_timer arms at most an event of the activity on its own thread.  *)
LEMMA ArmedSetTimer ==
  ASSUME jindx \in [Threads -> Acts \cup {0}], NEW q \in Seq(TimerCommands), NEW E,
         NEW a \in Acts, NEW t \in Threads, NEW b \in Acts,
         ArmedAfter(jam_set_timer(q, b), E, a, t)
  PROVE  ArmedAfter(q, E, a, t) \/ (a = b /\ jindx[t] = b)
<1> DEFINE u == athread_getbyindx(b)
<1>1. CASE jam_set_timer(q, b) = q
  BY <1>1
<1>2. CASE Derefs(b) /\ u # NoThread /\ jam_set_timer(q, b) = Append(q, SetTimer(b, u))
  <2>1. u \in Threads /\ jindx[u] = b
    BY <1>2, ThreadFound
  <2> HIDE DEF u
  <2>2. QED
    BY <1>2, <2>1, ArmedAddedEvent
<1>3. QED
  BY <1>1, <1>2 DEF jam_set_timer

(* Starting over: the old events go, a new one belongs to the activity's   *)
(* thread.                                                                 *)
LEMMA ArmedSetAgain ==
  ASSUME jindx \in [Threads -> Acts \cup {0}], NEW q \in Seq(TimerCommands), NEW E,
         NEW a \in Acts, NEW t \in Threads, NEW b \in Acts,
         ArmedAfter(jam_set_timer(jam_clear_timer(q, b), b), E, a, t)
  PROVE  (ArmedAfter(q, E, a, t) /\ a # b) \/ (a = b /\ jindx[t] = b)
<1>1. jam_clear_timer(q, b) \in Seq(TimerCommands)
  BY TimerQueueType
<1>2. ArmedAfter(jam_clear_timer(q, b), E, a, t) \/ (a = b /\ jindx[t] = b)
  BY <1>1, ArmedSetTimer
<1>3. QED
  BY <1>2, ArmedDeletedEvent DEF jam_clear_timer

(* The timer pthread and the others arm nothing new.                       *)
LEMMA ArmedElsewhere ==
  ASSUME TypeInv, Elsewhere, NEW a \in Acts, NEW t \in Threads, WillBeArmed(a, t)'
  PROVE  WillBeArmed(a, t)
<1>1. TimerOK
  BY DEF TypeInv, CallsOK
<1>2. CASE TimerCommand
  <2>1. /\ timerqueue # <<>> /\ timerqueue' = Tail(timerqueue)
        /\ armed' = IF Head(timerqueue).op = "ADDEVENT"
                    THEN armed \cup {[act |-> Head(timerqueue).act, thr |-> Head(timerqueue).thr]}
                    ELSE {f \in armed : f.act # Head(timerqueue).act}
    BY <1>2 DEF TimerCommand
  <2>2. Head(timerqueue) \in TimerCommands
    BY <1>1, <2>1, HeadTailProperties DEF TimerOK
  <2>3. \/ Head(timerqueue).op = "ADDEVENT"
        \/ Head(timerqueue).op = "DELEVENT" /\ Head(timerqueue).op # "ADDEVENT"
    BY <2>2 DEF TimerCommands
  <2>4. ArmedAfter(Tail(timerqueue), armed', a, t)
    BY <2>1 DEF WillBeArmed
  <2>5. ArmedAfter(timerqueue, armed, a, t)
    BY <1>1, <2>1, <2>3, <2>4, ArmedTakenCommand DEF TimerOK
  <2>6. QED
    BY <2>5 DEF WillBeArmed
<1>3. CASE UNCHANGED <<timerqueue, armed>>
  BY <1>3 DEF WillBeArmed
<1>4. ASSUME NEW e \in due, Fire(e) PROVE WillBeArmed(a, t)
  BY <1>4 DEF Fire, WillBeArmed, ArmedAfter
<1>5. QED
  BY <1>2, <1>3, <1>4 DEF Elsewhere, Worker, Publish, FindActivity, FindThread, Deliver, Timer,
     Expire, Reply, vars, timerVars

LEMMA TimersStep ==
  ASSUME TypeInv, TimedInv, [Next]_vars
  PROVE  TimersInv'
<1>1. /\ jindx \in [Threads -> Acts \cup {0}] /\ timerqueue \in Seq(TimerCommands)
      /\ run \in [Threads -> RunStates]
      /\ KindsAgree /\ Waiting /\ TimersInv /\ InHand
      /\ \A t, u \in Threads : jindx[t] # 0 /\ jindx[t] = jindx[u] => t = u
  BY DEF TypeInv, CallsOK, TableOK, TimerOK, TimedInv, OneThreadPerActivity,
     Pool!OneThreadPerActivity
<1>2. SUFFICES ASSUME NEW a \in Acts, NEW t \in Threads, WillBeArmed(a, t)', a \notin hijacked'
               PROVE  Timed(a, t)'
  BY DEF TimersInv
<1>3. a # 0 /\ a \notin hijacked
  BY <1>2, NotZero, HistoryGrows
<1>4. WillBeArmed(a, t) => Timed(a, t)
  BY <1>1, <1>3 DEF TimersInv
<1>5. ASSUME NEW c \in Callers, Retry(c) \/ \E k \in Kinds : Call(c, k) PROVE Timed(a, t)'
  <2>1. CASE StillOut(c)
    <3>1. UNCHANGED <<jindx, kind, run>> /\ WillBeArmed(a, t)
      BY <1>2, <2>1 DEF StillOut, WillBeArmed
    <3>2. QED
      BY <1>4, <3>1 DEF Timed
  <2>2. ASSUME NEW k \in AllKinds, NEW b \in Acts, NEW u \in Threads,
               Launch(c, k, b, u), Fresh(c, b), UNCHANGED <<run, armed>>, jindx[u] = 0
        PROVE  Timed(a, t)'
    <3>1. /\ jindx'[u] = b
          /\ \A v \in Threads : v # u => jindx'[v] = jindx[v]
          /\ \A d \in Acts : d # b => kind'[d] = kind[d]
          /\ \/ kind'[b] \in {"sync", "async"} /\ timerqueue' = Append(timerqueue, SetTimer(b, u))
             \/ UNCHANGED timerqueue
      BY <2>2, LaunchStep
    <3>2. CASE WillBeArmed(a, t)
      <4>1. jindx[t] = a /\ t # u /\ a # b
        BY <1>3, <1>4, <2>2, <3>2 DEF Timed, Fresh
      <4>2. QED
        BY <1>4, <2>2, <3>1, <3>2, <4>1 DEF Timed
    <3>3. CASE timerqueue' = Append(timerqueue, SetTimer(b, u)) /\ kind'[b] \in {"sync", "async"}
      <4>1. WillBeArmed(a, t) \/ (a = b /\ t = u)
        BY <1>1, <1>2, <2>2, <3>3, ArmedAddedEvent DEF WillBeArmed
      <4>2. QED
        BY <3>1, <3>2, <3>3, <4>1 DEF Timed
    <3>4. CASE UNCHANGED timerqueue
      BY <1>2, <2>2, <3>2, <3>4 DEF WillBeArmed
    <3>5. QED
      BY <3>1, <3>3, <3>4
  <2>3. QED
    BY <1>1, <1>5, <2>1, <2>2, StartStep
<1>6. ASSUME NEW c \in Callers, SyncCollect(c) \/ AsyncCollect(c) PROVE Timed(a, t)'
  <2> DEFINE b == task[c].act
  <2>1. /\ UNCHANGED <<jindx, kind, armed, run>>
        /\ b \in Acts /\ kind[b] \in {"sync", "async"}
        /\ \/ timerqueue' = jam_clear_timer(timerqueue, b)
           \/ timerqueue' = jam_set_timer(jam_clear_timer(timerqueue, b), b)
    BY <1>1, <1>6, CollectStep DEF KindsAgree
  <2> HIDE DEF b
  <2>2. WillBeArmed(a, t) \/ (a = b /\ jindx[t] = b)
    <3>1. CASE timerqueue' = jam_clear_timer(timerqueue, b)
      BY <1>1, <1>2, <2>1, <3>1, ArmedDeletedEvent DEF WillBeArmed, jam_clear_timer
    <3>2. CASE timerqueue' = jam_set_timer(jam_clear_timer(timerqueue, b), b)
      BY <1>1, <1>2, <2>1, <3>2, ArmedSetAgain DEF WillBeArmed
    <3>3. QED
      BY <2>1, <3>1, <3>2
  <2>3. QED
    BY <1>4, <2>1, <2>2 DEF Timed
<1>7. ASSUME NEW u \in Threads, RunActivity(u) \/ Sleep(u) PROVE Timed(a, t)'
  <2> DEFINE b == jindx[u]
  <2>1. /\ UNCHANGED <<kind, armed>>
        /\ \A v \in Threads : v # u => jindx'[v] = jindx[v] /\ run'[v] = run[v]
        /\ \/ UNCHANGED <<jindx, run, timerqueue>>
           \/ b \in Acts /\ (Ends(u) \/ Leaves(u) \/ Acked(u) \/ CallsBack(u))
    BY <1>1, <1>7, RunStep
  <2>2. CASE t # u /\ WillBeArmed(a, t)
    BY <1>4, <2>1, <2>2 DEF Timed
  <2>3. CASE UNCHANGED <<jindx, run, timerqueue>>
    BY <1>2, <1>4, <2>1, <2>3 DEF Timed, WillBeArmed
  <2>4. CASE b \in Acts /\ Ends(u)
    <3>1. WillBeArmed(a, t) /\ a # b
      BY <1>1, <1>2, <2>1, <2>4, ArmedDeletedEvent DEF Ends, WillBeArmed, jam_clear_timer
    <3>2. t # u
      BY <1>4, <3>1 DEF Timed
    <3>3. QED
      BY <2>2, <3>1, <3>2
  <2>5. CASE Leaves(u)
    <3>1. WillBeArmed(a, t)
      BY <1>2, <2>1, <2>5 DEF Leaves, WillBeArmed
    <3>2. t # u
      BY <1>3, <1>4, <2>5, <3>1 DEF Timed, Leaves
    <3>3. QED
      BY <2>2, <3>1, <3>2
  <2>6. CASE b \in Acts /\ Acked(u)
    <3>1. (WillBeArmed(a, t) /\ a # b) \/ (a = b /\ jindx[t] = b)
      BY <1>1, <1>2, <2>1, <2>6, ArmedSetAgain DEF Acked, WillBeArmed
    <3>2. CASE WillBeArmed(a, t) /\ a # b
      <4>1. t # u
        BY <1>4, <3>2 DEF Timed
      <4>2. QED
        BY <2>2, <3>2, <4>1
    <3>3. CASE a = b /\ jindx[t] = b
      <4>1. t = u
        BY <1>1, <1>3, <3>3
      <4>2. QED
        BY <2>1, <2>6, <3>3, <4>1 DEF Acked, Timed
    <3>4. QED
      BY <3>1, <3>2, <3>3
  <2>7. CASE b \in Acts /\ CallsBack(u)
    <3>1. CASE run[u].pc = "top" /\ run'[u].pc = "callback" /\ UNCHANGED timerqueue
      <4>1. WillBeArmed(a, t)
        BY <1>2, <2>1, <3>1 DEF WillBeArmed
      <4>2. t # u
        BY <1>2, <1>4, <2>7, <3>1, <4>1 DEF Timed, CallsBack
      <4>3. QED
        BY <2>2, <4>1, <4>2
    <3>2. CASE run'[u].pc = "sleep" /\ timerqueue' = jam_set_timer(timerqueue, b)
      <4>1. WillBeArmed(a, t) \/ (a = b /\ jindx[t] = b)
        BY <1>1, <1>2, <2>1, <2>7, <3>2, ArmedSetTimer DEF WillBeArmed
      <4>2. CASE t = u
        <5>1. a = b
          BY <1>4, <4>1, <4>2 DEF Timed
        <5>2. QED
          BY <2>1, <2>7, <3>2, <4>2, <5>1 DEF CallsBack, Timed
      <4>3. CASE t # u
        BY <1>1, <1>3, <2>2, <4>1, <4>3
      <4>4. QED
        BY <4>2, <4>3
    <3>3. CASE run'[u].pc = "woken" /\ timerqueue' = jam_clear_timer(timerqueue, b)
      <4>1. WillBeArmed(a, t) /\ a # b
        BY <1>1, <1>2, <2>1, <2>7, <3>3, ArmedDeletedEvent DEF WillBeArmed, jam_clear_timer
      <4>2. t # u
        BY <1>4, <4>1 DEF Timed
      <4>3. QED
        BY <2>2, <4>1, <4>2
    <3>4. QED
      BY <2>7, <3>1, <3>2, <3>3 DEF CallsBack
  <2>8. QED
    BY <2>1, <2>3, <2>4, <2>5, <2>6, <2>7
<1>8. CASE Elsewhere
  BY <1>2, <1>4, <1>8, ArmedElsewhere, ElsewhereStep DEF Timed
<1>9. QED
  BY <1>5, <1>6, <1>7, <1>8, StepCases

(* A timer that is not being cancelled belongs to the activity its thread  *)
(* serves now, whatever calls of whatever kinds share the threads: no      *)
(* attempt's timer outlives it (jam_set_timer and jam_clear_timer in the   *)
(* runners and run_activity).  Excepted is a call whose thread ran another *)
(* activity's local function (activity.c:292-297).                         *)
THEOREM TimersFollow == Spec => []TimersFollowThreads
<1>1. Init => TimedInv
  <2>1. \A a \in Acts, t \in Threads : Init => ~WillBeArmed(a, t)
    BY DEF Init, WillBeArmed, ArmedAfter
  <2>2. QED
    BY <2>1, IdleState, TopState DEF Init, TimedInv, OneThreadPerActivity,
       Pool!OneThreadPerActivity, Waiting, KindsAgree, TimersInv
<1>2. TypeInv /\ TimedInv /\ [Next]_vars => TimedInv'
  <2> SUFFICES ASSUME TypeInv, TimedInv, [Next]_vars PROVE TimedInv'
    OBVIOUS
  <2>2. OneThreadPerActivity /\ Waiting /\ KindsAgree
    BY DEF TimedInv
  <2>3. OneThreadPerActivity'
    BY <2>2, PoolStep, OneThreadStep
  <2>4. QED
    BY <2>2, <2>3, WaitingStep, KindsStep, TimersStep DEF TimedInv
<1>3. TimedInv => TimersFollowThreads
  BY DEF TimedInv, TimersInv, Timed, TimersFollowThreads
<1>4. QED
  BY <1>1, <1>2, <1>3, TypeInit, TypeStep, PTL DEF Spec

(***************************************************************************)
(* Results                                                                 *)
(***************************************************************************)

(* The number of an activity whose result is queued serves nothing else.   *)
ResultsLeft ==
  \A t \in Threads, a \in Acts : Holds(resultq[t], a) =>
    /\ a < jcounter
    /\ \A u \in Threads : jindx[u] # a
    /\ \A c \in Callers : task[c].pc = "delay" => task[c].act # a

(* An activity has no kind before it has a thread.                         *)
Unnamed ==
  /\ \A a \in Acts : a >= jcounter => kind[a] = "none"
  /\ \A c \in Callers : task[c].pc = "delay" => kind[task[c].act] = "none"

(* While a thread serves a call, its caller waits, or has left with the    *)
(* result of another one.                                                  *)
Served ==
  \A t \in Threads : jindx[t] # 0 /\ kind[jindx[t]] \in {"sync", "async"} =>
    \/ jindx[t] \in misled
    \/ \E c \in Callers : task[c].pc = "wait" /\ task[c].act = jindx[t]

(* What runs on this node keeps its thread only until a command is there.  *)
LocalStarts ==
  \A t \in Threads :
    jindx[t] # 0 /\ kind[jindx[t]] \in {"lexec", "remote"} /\ run[t].pc = "top" =>
      jindx[t] \in alist /\ inq[t] # <<>>

CallsInv ==
  /\ Waiting /\ KindsAgree
  /\ ResultsLeft /\ Unnamed /\ Served /\ LocalStarts /\ NoForgottenSyncCaller

LEMMA ResultAdded ==
  ASSUME NEW q \in Seq(Results), NEW r \in Results, NEW a
  PROVE  Holds(Append(q, r), a) <=> Holds(q, a) \/ r.act = a
<1> DEFINE p == Append(q, r)
<1>1. /\ Len(q) \in Nat /\ DOMAIN q = 1..Len(q) /\ DOMAIN p = 1..Len(q) + 1
      /\ \A i \in 1..Len(q) : p[i] = q[i]
      /\ p[Len(q) + 1] = r
  BY AppendProperties
<1> HIDE DEF p
<1>2. \A i \in DOMAIN p : i \in DOMAIN q \/ i = Len(q) + 1
  BY <1>1
<1>3. \A i \in DOMAIN q : i \in DOMAIN p
  BY <1>1
<1>4. Len(q) + 1 \in DOMAIN p
  BY <1>1
<1>5. Holds(p, a) <=> Holds(q, a) \/ r.act = a
  BY <1>1, <1>2, <1>3, <1>4 DEF Holds
<1>6. QED
  BY <1>5 DEF p

LEMMA ResultTaken ==
  ASSUME NEW q \in Seq(Results), q # <<>>, NEW a
  PROVE  /\ Holds(Tail(q), a) => Holds(q, a)
         /\ Holds(q, a) => Holds(Tail(q), a) \/ Head(q).act = a
         /\ Holds(q, Head(q).act)
<1> DEFINE p == Tail(q)
<1>1. /\ Len(q) \in Nat \ {0} /\ DOMAIN q = 1..Len(q) /\ DOMAIN p = 1..Len(q) - 1
      /\ \A i \in 1..Len(q) - 1 : p[i] = q[i + 1]
      /\ q[1] = Head(q)
  BY HeadTailProperties
<1> HIDE DEF p
<1>2. \A i \in DOMAIN p : i + 1 \in DOMAIN q /\ p[i] = q[i + 1]
  BY <1>1
<1>3. \A i \in DOMAIN q : i = 1 \/ (i - 1 \in DOMAIN p /\ p[i - 1] = q[i])
  BY <1>1
<1>4. 1 \in DOMAIN q
  BY <1>1
<1>5. Holds(p, a) => Holds(q, a)
  BY <1>2 DEF Holds
<1>6. Holds(q, a) => Holds(p, a) \/ Head(q).act = a
  BY <1>1, <1>3 DEF Holds
<1>7. Holds(q, Head(q).act)
  BY <1>1, <1>4 DEF Holds
<1>8. QED
  BY <1>5, <1>6, <1>7 DEF p

(* Once the process is gone nothing happens, and history is not forgotten. *)
LEMMA UnluckyStays ==
  ASSUME [Next]_vars, NEW a, Unlucky(a)
  PROVE  Unlucky(a)'
<1>1. CASE fault
  <2>1. ASSUME NEW c \in Callers, CallerStep(c) PROVE FALSE
    BY <1>1, <2>1 DEF CallerStep, Retry, SyncCollect, AsyncCollect, Using
  <2>2. ASSUME NEW c \in Callers, NEW k \in Kinds, Call(c, k) PROVE FALSE
    BY <1>1, <2>2 DEF Call, Running
  <2>3. ASSUME NEW t \in Threads, RunActivity(t) \/ Sleep(t) PROVE FALSE
    BY <1>1, <2>3, Zenon DEF RunActivity, DropCommand, RunCommand, SyncResult, AsyncSecondAck,
       EndCallback, Sleep, Wake, Running, Using
  <2>4. ASSUME Worker PROVE FALSE
    BY <1>1, <2>4 DEF Worker, Publish, FindActivity, FindThread, Deliver, Running
  <2>5. ASSUME NEW b \in Acts, NEW k \in ReplyKinds, Reply(b, k) PROVE FALSE
    BY <1>1, <2>5 DEF Reply, Running
  <2>6. ASSUME Timer PROVE FALSE
    BY <1>1, <2>6 DEF Timer, TimerCommand, Expire, Fire, Running
  <2>7. UNCHANGED vars
    BY <2>1, <2>2, <2>3, <2>4, <2>5, <2>6 DEF Next
  <2>8. QED
    BY <1>1, <2>7 DEF vars, Unlucky
<1>2. CASE a \in robbed \/ a \in hijacked
  BY <1>2, HistoryGrows DEF Unlucky
<1>3. QED
  BY <1>1, <1>2 DEF Unlucky

LEMMA AppendIsNotEmpty ==
  ASSUME NEW S, NEW q \in Seq(S), NEW x \in S
  PROVE  Append(q, x) # <<>>
BY AppendProperties, EmptySeq, LenProperties

(* What the steps of an activity thread do to the table and the queues.    *)
LEMMA RunQueues ==
  ASSUME TypeInv, KindsAgree, NEW t \in Threads, RunActivity(t) \/ Sleep(t)
  PROVE  /\ UNCHANGED <<task, kind, jcounter>>
         /\ \A u \in Threads : u # t => /\ jindx'[u] = jindx[u] /\ run'[u] = run[u]
                                        /\ inq'[u] = inq[u] /\ resultq'[u] = resultq[u]
         /\ alist' = alist \/ (alist' = alist \ {jindx[t]} /\ jindx'[t] = 0)
         /\ \/ /\ jindx'[t] = 0 /\ jindx[t] \in Acts
               /\ \E r \in Results : r.act = jindx[t] /\ resultq'[t] = Append(resultq[t], r)
            \/ /\ jindx'[t] = 0 /\ jindx[t] \in Acts /\ resultq'[t] = resultq[t]
               /\ kind[jindx[t]] \in {"lexec", "remote", "none"} \/ jindx[t] \in hijacked
            \/ jindx'[t] = jindx[t] /\ resultq'[t] = resultq[t]
         /\ jindx'[t] # 0 /\ run'[t].pc = "top" => run[t].pc = "top" /\ jindx[t] \notin alist
<1> DEFINE Others == \A u \in Threads : u # t => jindx'[u] = jindx[u] /\ run'[u] = run[u]
<1>1. /\ jindx \in [Threads -> Acts \cup {0}] /\ alist \subseteq Acts
      /\ run \in [Threads -> RunStates] /\ run[t] \in RunStates
      /\ resultq \in [Threads -> Seq(Results)] /\ inq \in [Threads -> Seq(Messages)]
      /\ run[t].pc # "top" => jindx[t] \in Acts
      /\ run[t].pc \in {"callback", "sleep", "woken"} =>
           kind[jindx[t]] \in {"lexec", "remote", "none"} \/ jindx[t] \in hijacked
      /\ 0 \notin Acts
  BY NotZero DEF TypeInv, CallsOK, TableOK, QueuesOK, InHand, KindsAgree
<1>2. UNCHANGED <<task, kind, jcounter>>
  BY DEF RunActivity, DropCommand, RunCommand, SyncResult, AsyncSecondAck, EndCallback, Sleep,
     Wake, tableVars
<1>3. Released(t) => jindx'[t] = 0 /\ Others
  BY <1>1 DEF Released
<1>4. ASSUME NEW k \in {"null", "arg", "ok", "failed"}, Finish(t, k), jindx[t] \in Acts
      PROVE  /\ jindx'[t] = 0 /\ Others
             /\ \E r \in Results : r.act = jindx[t] /\ resultq'[t] = Append(resultq[t], r)
             /\ \A u \in Threads : u # t => resultq'[u] = resultq[u]
  <2> DEFINE r == [val |-> k, act |-> jindx[t]]
  <2>1. r \in Results /\ r.act = jindx[t]
    BY <1>4 DEF Results
  <2>2. resultq' = [resultq EXCEPT ![t] = Append(@, r)] /\ Released(t)
    BY <1>4 DEF Finish, Result
  <2> HIDE DEF r
  <2>3. QED
    BY <1>1, <1>3, <2>1, <2>2
<1>5. inq' = [inq EXCEPT ![t] = Tail(@)] => \A u \in Threads : u # t => inq'[u] = inq[u]
  BY <1>1
<1>6. ASSUME NEW p, UNCHANGED jindx, run' = [run EXCEPT ![t].pc = p]
      PROVE  jindx'[t] = jindx[t] /\ run'[t].pc = p /\ Others
  BY <1>1, <1>6 DEF RunStates
<1>7. CASE DropCommand(t)
  <2>1. /\ UNCHANGED <<jindx, alist, run, resultq>> /\ jindx[t] \notin alist
        /\ run[t].pc = "top" /\ inq' = [inq EXCEPT ![t] = Tail(@)]
    BY <1>7 DEF DropCommand, tableVars
  <2>2. QED
    BY <1>2, <1>5, <2>1
<1>8. CASE RunCommand(t)
  <2>1. /\ run[t].pc = "top" /\ jindx[t] \in Acts
        /\ inq' = [inq EXCEPT ![t] = Tail(@)] /\ alist' = alist
        /\ SyncAck(t) \/ AsyncAck(t) \/ StartCallback(t) \/ IgnoreCommand(t)
    BY <1>1, <1>8 DEF RunCommand
  <2>2. CASE SyncAck(t)
    <3>1. CASE Finish(t, "null")
      BY <1>2, <1>4, <1>5, <2>1, <3>1
    <3>2. CASE run' = [run EXCEPT ![t].pc = "result"] /\ UNCHANGED <<jindx, resultq>>
      BY <1>2, <1>5, <1>6, <2>1, <3>2
    <3>3. QED
      BY <2>2, <3>1, <3>2 DEF SyncAck
  <2>3. CASE AsyncAck(t)
    <3>1. ASSUME NEW b, run' = [run EXCEPT ![t].pc = "ack", ![t].failed = b], UNCHANGED jindx
          PROVE  jindx'[t] = jindx[t] /\ run'[t].pc = "ack" /\ Others
      BY <1>1, <3>1 DEF RunStates
    <3>2. \/ Finish(t, "failed") \/ Finish(t, "ok")
          \/ \E b : /\ run' = [run EXCEPT ![t].pc = "ack", ![t].failed = b]
                    /\ UNCHANGED <<jindx, resultq>>
      BY <2>3, Zenon DEF AsyncAck
    <3>3. CASE Finish(t, "failed") \/ Finish(t, "ok")
      BY <1>2, <1>4, <1>5, <2>1, <3>3
    <3>4. QED
      BY <1>2, <1>5, <2>1, <3>1, <3>2, <3>3
  <2>4. CASE StartCallback(t)
    <3>1. /\ UNCHANGED <<jindx, resultq>>
          /\ \E b : run' = [run EXCEPT ![t].pc = "callback", ![t].frees = b]
      BY <2>4 DEF StartCallback
    <3>2. jindx'[t] = jindx[t] /\ run'[t].pc = "callback" /\ Others
      BY <1>1, <3>1 DEF RunStates
    <3>3. QED
      BY <1>2, <1>5, <2>1, <3>1, <3>2
  <2>5. CASE IgnoreCommand(t)
    <3>1. kind[jindx[t]] \in {"remote", "none"} /\ Released(t) /\ UNCHANGED resultq
      BY <2>5 DEF IgnoreCommand
    <3>2. QED
      BY <1>2, <1>3, <1>5, <2>1, <3>1
  <2>6. QED
    BY <2>1, <2>2, <2>3, <2>4, <2>5
<1>9. CASE SyncResult(t) \/ AsyncSecondAck(t)
  <2>1. /\ run[t].pc # "top" /\ inq' = [inq EXCEPT ![t] = Tail(@)] /\ alist' = alist
        /\ \E k \in {"null", "arg", "ok", "failed"} : Finish(t, k)
    <3>1. CASE SyncResult(t)
      <4>1. Finish(t, "arg") \/ Finish(t, "null")
        BY <3>1, Zenon DEF SyncResult
      <4>2. QED
        BY <3>1, <4>1 DEF SyncResult
    <3>2. CASE AsyncSecondAck(t)
      <4>1. Finish(t, "failed") \/ Finish(t, "ok")
        BY <3>2, Zenon DEF AsyncSecondAck
      <4>2. QED
        BY <3>2, <4>1 DEF AsyncSecondAck
    <3>3. QED
      BY <1>9, <3>1, <3>2
  <2>2. QED
    BY <1>1, <1>2, <1>4, <1>5, <2>1
<1>10. CASE EndCallback(t)
  <2>1. /\ run[t].pc \in {"callback", "woken"} /\ Released(t)
        /\ alist' = alist \/ alist' = alist \ {jindx[t]}
        /\ UNCHANGED <<inq, resultq>>
    BY <1>10 DEF EndCallback, queueVars
  <2>2. QED
    BY <1>1, <1>2, <1>3, <2>1
<1>11. CASE Sleep(t) \/ Wake(t)
  <2>1. /\ UNCHANGED <<jindx, alist, resultq>>
        /\ inq' = inq \/ inq' = [inq EXCEPT ![t] = Tail(@)]
        /\ run' = [run EXCEPT ![t].pc = "sleep"] \/ run' = [run EXCEPT ![t].pc = "woken"]
    BY <1>11 DEF Sleep, Wake, tableVars, queueVars
  <2>2. QED
    BY <1>2, <1>5, <1>6, <2>1
<1>12. QED
  BY <1>7, <1>8, <1>9, <1>10, <1>11 DEF RunActivity

LEMMA RunCalls ==
  ASSUME TypeInv, CallsInv, OneThreadPerActivity, NEW t \in Threads, RunActivity(t) \/ Sleep(t)
  PROVE  ResultsLeft' /\ Unnamed' /\ Served' /\ LocalStarts' /\ NoForgottenSyncCaller'
<1>1. /\ KindsAgree /\ Waiting /\ ResultsLeft /\ Unnamed /\ Served /\ LocalStarts
      /\ NoForgottenSyncCaller
      /\ jindx \in [Threads -> Acts \cup {0}] /\ resultq \in [Threads -> Seq(Results)]
      /\ task \in [Callers -> TaskStates] /\ InHand /\ Numbered /\ 0 \notin Acts
  BY NotZero DEF TypeInv, CallsOK, TableOK, QueuesOK, CallsInv
<1>2. /\ UNCHANGED <<task, kind, jcounter>>
      /\ \A u \in Threads : u # t => /\ jindx'[u] = jindx[u] /\ run'[u] = run[u]
                                     /\ inq'[u] = inq[u] /\ resultq'[u] = resultq[u]
      /\ alist' = alist \/ (alist' = alist \ {jindx[t]} /\ jindx'[t] = 0)
      /\ \/ /\ jindx'[t] = 0 /\ jindx[t] \in Acts
            /\ \E r \in Results : r.act = jindx[t] /\ resultq'[t] = Append(resultq[t], r)
         \/ /\ jindx'[t] = 0 /\ jindx[t] \in Acts /\ resultq'[t] = resultq[t]
            /\ kind[jindx[t]] \in {"lexec", "remote", "none"} \/ jindx[t] \in hijacked
         \/ jindx'[t] = jindx[t] /\ resultq'[t] = resultq[t]
      /\ jindx'[t] # 0 /\ run'[t].pc = "top" => run[t].pc = "top" /\ jindx[t] \notin alist
  BY <1>1, RunQueues
<1>3. \A u \in Threads : u # t /\ jindx[u] # 0 => jindx[u] # jindx[t]
  BY DEF OneThreadPerActivity, Pool!OneThreadPerActivity
<1>4. \A u \in Threads : jindx'[u] = jindx[u] \/ jindx'[u] = 0
  BY <1>2
<1>5. misled \subseteq misled' /\ hijacked \subseteq hijacked'
  BY HistoryGrows DEF Next
<1>6. /\ \A a \in Acts : Holds(resultq'[t], a) =>
           Holds(resultq[t], a) \/ (a = jindx[t] /\ jindx'[t] = 0)
      /\ \A a \in Acts : Holds(resultq[t], a) => Holds(resultq'[t], a)
      /\ \/ jindx'[t] = jindx[t] \/ Holds(resultq'[t], jindx[t]) \/ jindx[t] \in hijacked
         \/ kind[jindx[t]] \in {"lexec", "remote", "none"}
  <2>1. CASE /\ jindx'[t] = 0 /\ jindx[t] \in Acts
             /\ \E r \in Results : r.act = jindx[t] /\ resultq'[t] = Append(resultq[t], r)
    <3>1. PICK r \in Results : r.act = jindx[t] /\ resultq'[t] = Append(resultq[t], r)
      BY <2>1
    <3>2. \A a : Holds(Append(resultq[t], r), a) <=> Holds(resultq[t], a) \/ r.act = a
      BY <1>1, ResultAdded
    <3>3. QED
      BY <2>1, <3>1, <3>2
  <2>2. QED
    BY <1>2, <2>1
<1>7. ResultsLeft'
  <2> SUFFICES ASSUME NEW u \in Threads, NEW a \in Acts, Holds(resultq'[u], a)
               PROVE  /\ a < jcounter'
                      /\ \A v \in Threads : jindx'[v] # a
                      /\ \A c \in Callers : task'[c].pc = "delay" => task'[c].act # a
    BY DEF ResultsLeft
  <2>1. CASE Holds(resultq[u], a)
    BY <1>1, <1>2, <1>4, <2>1 DEF ResultsLeft
  <2>2. CASE a = jindx[t] /\ jindx'[t] = 0
    <3>1. a < jcounter
      BY <1>1, <2>2 DEF Numbered
    <3>2. \A v \in Threads : jindx'[v] # a
      BY <1>1, <1>2, <1>3, <2>2
    <3>3. \A c \in Callers : task[c].pc = "delay" => task[c].act # a
      BY <1>1, <2>2 DEF Waiting
    <3>4. QED
      BY <1>2, <3>1, <3>2, <3>3
  <2>3. QED
    BY <1>2, <1>6, <2>1, <2>2
<1>8. Unnamed'
  BY <1>1, <1>2 DEF Unnamed
<1>9. Served'
  BY <1>1, <1>2, <1>4, <1>5 DEF Served
<1>10. LocalStarts'
  <2> SUFFICES ASSUME NEW u \in Threads, jindx'[u] # 0, kind'[jindx'[u]] \in {"lexec", "remote"},
                      run'[u].pc = "top"
               PROVE  jindx'[u] \in alist' /\ inq'[u] # <<>>
    BY DEF LocalStarts
  <2>1. CASE u = t
    <3>1. jindx'[t] = jindx[t] /\ run[t].pc = "top" /\ jindx[t] \notin alist
      BY <1>2, <2>1
    <3>2. QED
      BY <1>1, <1>2, <2>1, <3>1 DEF LocalStarts
  <2>2. CASE u # t
    <3>1. jindx[u] \in alist /\ inq[u] # <<>> /\ jindx[u] # jindx[t]
      BY <1>1, <1>2, <1>3, <2>2 DEF LocalStarts
    <3>2. QED
      BY <1>2, <2>2, <3>1
  <2>3. QED
    BY <2>1, <2>2
<1>11. NoForgottenSyncCaller'
  <2> SUFFICES ASSUME NEW c \in Callers, NEW a \in Acts, WaitsFor(c, a)'
               PROVE  \/ jindx'[task'[c].thr] = a \/ Holds(resultq'[task'[c].thr], a)
                      \/ Unlucky(a)'
    BY DEF NoForgottenSyncCaller
  <2>1. /\ WaitsFor(c, a) /\ task'[c].thr = task[c].thr /\ task[c].thr \in Threads
        /\ kind[a] = "sync"
    BY <1>1, <1>2 DEF WaitsFor, KindsAgree, InHand, TaskStates
  <2>2. CASE Unlucky(a)
    BY <2>2, UnluckyStays DEF Next
  <2>3. CASE Holds(resultq[task[c].thr], a)
    BY <1>2, <1>6, <2>1, <2>3
  <2>4. CASE jindx[task[c].thr] = a
    <3>1. CASE task[c].thr # t
      BY <1>2, <2>1, <2>4, <3>1
    <3>2. CASE task[c].thr = t
      <4>1. CASE a \in hijacked
        BY <1>5, <4>1 DEF Unlucky
      <4>2. CASE a \notin hijacked
        BY <1>6, <2>1, <2>4, <3>2, <4>2
      <4>3. QED
        BY <4>1, <4>2
    <3>3. QED
      BY <3>1, <3>2
  <2>5. QED
    BY <1>1, <2>1, <2>2, <2>3, <2>4 DEF NoForgottenSyncCaller
<1>12. QED
  BY <1>7, <1>8, <1>9, <1>10, <1>11

(* What a caller does when it gets a result.  A sync caller that asks      *)
(* again waits on the thread of its activity.                              *)
LEMMA CollectOutcome ==
  ASSUME TypeInv, NEW c \in Callers, SyncCollect(c) \/ AsyncCollect(c)
  PROVE  /\ UNCHANGED <<run, inq, jcounter>> /\ task[c].thr \in Threads
         /\ resultq[task[c].thr] # <<>>
         /\ resultq' = [resultq EXCEPT ![task[c].thr] = Tail(@)]
         /\ Head(resultq[task[c].thr]).act \in Acts
         /\ \/ Head(resultq[task[c].thr]).act = task[c].act
            \/ task[c].act \in misled' /\ Head(resultq[task[c].thr]).act \in robbed'
         /\ alist' = alist \/ alist' = alist \ {task[c].act}
         /\ \/ task'[c].pc # "wait" \/ task[c].kind = "async" \/ fault'
            \/ task'[c].thr \in Threads /\ jindx[task'[c].thr] = task[c].act
<1> DEFINE a == task[c].act
           t == task[c].thr
           u == athread_getbyindx(a)
<1>1. /\ TableOK /\ QueuesOK /\ task \in [Callers -> TaskStates] /\ InHand
  BY DEF TypeInv, CallsOK
<1>2. Collect(c)
  BY DEF SyncCollect, AsyncCollect
<1>3. /\ UNCHANGED <<run, inq, jcounter>> /\ task[c].pc = "wait" /\ resultq[t] # <<>>
      /\ resultq' = [resultq EXCEPT ![t] = Tail(@)]
      /\ \/ Head(resultq[t]).act = a
         \/ a \in misled' /\ Head(resultq[t]).act \in robbed'
  BY <1>2 DEF Collect
<1>4. t \in Threads /\ Head(resultq[t]).act \in Acts
  <2>1. t \in Threads
    BY <1>1, <1>3 DEF InHand, TaskStates
  <2>2. Head(resultq[t]) \in Results
    BY <1>1, <1>3, <2>1, QueueSteps
  <2>3. QED
    BY <2>1, <2>2 DEF Results
<1>5. CASE AsyncCollect(c)
  <2>1. task[c].kind = "async" /\ (alist' = alist \/ alist' = alist \ {a})
    BY <1>5 DEF AsyncCollect, Return
  <2>2. QED
    BY <1>3, <1>4, <2>1
<1>6. CASE SyncCollect(c)
  <2>1. CASE /\ Derefs(a) /\ u # NoThread /\ UNCHANGED alist
             /\ task' = [task EXCEPT ![c].try = @ + 1, ![c].thr = u]
    <3>1. u \in Threads /\ jindx[u] = a
      BY <1>1, <2>1, ThreadFound DEF TableOK
    <3>2. task'[c].thr = u
      BY <1>1, <2>1 DEF TaskStates
    <3> HIDE DEF u
    <3>3. QED
      BY <1>3, <1>4, <2>1, <3>1, <3>2
  <2>2. CASE Return(c)
    <3>1. task'[c].pc # "wait" /\ (alist' = alist \/ alist' = alist \ {a})
      BY <1>1, <2>2, IdleState DEF Return
    <3>2. QED
      BY <1>3, <1>4, <3>1
  <2>3. CASE fault' = TRUE /\ UNCHANGED alist
    BY <1>3, <1>4, <2>3
  <2>4. QED
    BY <1>6, <2>1, <2>2, <2>3 DEF SyncCollect
<1>7. QED
  BY <1>5, <1>6

LEMMA CollectCalls ==
  ASSUME TypeInv, CallsInv, NEW c \in Callers, SyncCollect(c) \/ AsyncCollect(c)
  PROVE  ResultsLeft' /\ Unnamed' /\ Served' /\ LocalStarts' /\ NoForgottenSyncCaller'
<1> DEFINE a == task[c].act
           t == task[c].thr
           other == Head(resultq[t]).act
<1>1. /\ KindsAgree /\ Waiting /\ ResultsLeft /\ Unnamed /\ Served /\ LocalStarts
      /\ NoForgottenSyncCaller
      /\ jindx \in [Threads -> Acts \cup {0}] /\ resultq \in [Threads -> Seq(Results)]
      /\ task \in [Callers -> TaskStates] /\ InHand /\ 0 \notin Acts
  BY NotZero DEF TypeInv, CallsOK, TableOK, QueuesOK, CallsInv
<1>2. /\ UNCHANGED <<jindx, kind, run>>
      /\ \A d \in Callers : d # c => task'[d] = task[d]
      /\ task[c].pc = "wait" /\ a \in Acts
      /\ \/ task'[c].pc = "wait" /\ task'[c].act = a /\ task'[c].kind = task[c].kind
         \/ task'[c].pc = "idle" /\ task'[c].act = 0
  BY CollectStep
<1>3. /\ UNCHANGED <<inq, jcounter>> /\ t \in Threads /\ resultq[t] # <<>>
      /\ resultq' = [resultq EXCEPT ![t] = Tail(@)]
      /\ other \in Acts /\ (other = a \/ (a \in misled' /\ other \in robbed'))
      /\ alist' = alist \/ alist' = alist \ {a}
      /\ \/ task'[c].pc # "wait" \/ task[c].kind = "async" \/ fault'
         \/ task'[c].thr \in Threads /\ jindx[task'[c].thr] = a
  BY CollectOutcome
<1>4. misled \subseteq misled'
  BY HistoryGrows DEF Next, CallerStep
<1>5. /\ \A b, u : u \in Threads /\ Holds(resultq'[u], b) => Holds(resultq[u], b)
      /\ \A b, u : u \in Threads /\ Holds(resultq[u], b) =>
           Holds(resultq'[u], b) \/ (u = t /\ b = other)
      /\ Holds(resultq[t], other)
  <2>1. resultq'[t] = Tail(resultq[t]) /\ \A u \in Threads : u # t => resultq'[u] = resultq[u]
    BY <1>1, <1>3
  <2>2. resultq[t] \in Seq(Results)
    BY <1>1, <1>3
  <2> HIDE DEF t
  <2>3. \A b : /\ Holds(Tail(resultq[t]), b) => Holds(resultq[t], b)
               /\ Holds(resultq[t], b) => Holds(Tail(resultq[t]), b) \/ Head(resultq[t]).act = b
               /\ Holds(resultq[t], Head(resultq[t]).act)
    BY <1>3, <2>2, ResultTaken
  <2>4. QED
    BY <2>1, <2>3
<1> HIDE DEF a, t, other
<1>6. \A d \in Callers : task'[d].pc = "delay" => d # c
  BY <1>2
<1>7. ResultsLeft'
  <2> SUFFICES ASSUME NEW u \in Threads, NEW b \in Acts, Holds(resultq'[u], b)
               PROVE  /\ b < jcounter
                      /\ \A v \in Threads : jindx[v] # b
                      /\ \A d \in Callers : task'[d].pc = "delay" => task'[d].act # b
    BY <1>2, <1>3 DEF ResultsLeft
  <2>1. Holds(resultq[u], b)
    BY <1>5
  <2>2. QED
    BY <1>1, <1>2, <1>6, <2>1 DEF ResultsLeft
<1>8. Unnamed'
  BY <1>1, <1>2, <1>3, <1>6 DEF Unnamed
<1>9. Served'
  <2> SUFFICES ASSUME NEW u \in Threads, jindx[u] # 0, kind[jindx[u]] \in {"sync", "async"},
                      jindx[u] \notin misled'
               PROVE  \E d \in Callers : task'[d].pc = "wait" /\ task'[d].act = jindx[u]
    BY <1>2 DEF Served
  <2>1. PICK d \in Callers : task[d].pc = "wait" /\ task[d].act = jindx[u]
    BY <1>1, <1>4 DEF Served
  <2>2. CASE d # c
    BY <1>2, <2>1, <2>2
  <2>3. CASE d = c
    <3>1. jindx[u] = a
      BY <2>1, <2>3 DEF a
    <3>2. other = a
      BY <1>3, <3>1
    <3>3. jindx[u] # other
      BY <1>1, <1>3, <1>5 DEF ResultsLeft
    <3>4. QED
      BY <3>1, <3>2, <3>3
  <2>4. QED
    BY <2>2, <2>3
<1>10. LocalStarts'
  <2>1. kind[a] \in {"sync", "async"}
    BY <1>1, <1>2 DEF KindsAgree, a
  <2>2. QED
    BY <1>1, <1>2, <1>3, <2>1 DEF LocalStarts
<1>11. NoForgottenSyncCaller'
  <2> SUFFICES ASSUME NEW d \in Callers, NEW b \in Acts, WaitsFor(d, b)'
               PROVE  \/ jindx'[task'[d].thr] = b \/ Holds(resultq'[task'[d].thr], b)
                      \/ Unlucky(b)'
    BY DEF NoForgottenSyncCaller
  <2>1. CASE d = c
    <3>1. task'[c].pc = "wait" /\ task'[c].kind = "sync" /\ b = a
      BY <1>2, <2>1 DEF WaitsFor
    <3>2. fault' \/ jindx[task'[c].thr] = a
      BY <1>2, <1>3, <3>1
    <3>3. QED
      BY <1>2, <2>1, <3>1, <3>2 DEF Unlucky
  <2>2. CASE d # c
    <3>1. WaitsFor(d, b) /\ task'[d] = task[d] /\ task[d].thr \in Threads /\ b # a
      BY <1>1, <1>2, <2>2 DEF WaitsFor, Waiting, InHand, TaskStates, a
    <3>2. CASE Unlucky(b)
      BY <3>2, UnluckyStays DEF Next, CallerStep
    <3>3. CASE Holds(resultq[task[d].thr], b)
      <4>1. Holds(resultq'[task[d].thr], b) \/ b = other
        BY <1>5, <3>1, <3>3
      <4>2. QED
        BY <1>3, <3>1, <4>1 DEF Unlucky
    <3>4. QED
      BY <1>1, <1>2, <3>1, <3>2, <3>3 DEF NoForgottenSyncCaller
  <2>3. QED
    BY <2>1, <2>2
<1>12. QED
  BY <1>7, <1>8, <1>9, <1>10, <1>11

(* The other queues when a call goes out, or does not.                     *)
LEMMA StartQueues ==
  ASSUME TypeInv, NEW c \in Callers, Retry(c) \/ \E k \in Kinds : Call(c, k)
  PROVE  /\ UNCHANGED resultq /\ ~fault
         /\ alist \subseteq alist' /\ jcounter' >= jcounter
         /\ \A u \in Threads : inq[u] # <<>> => inq'[u] # <<>>
<1>1. /\ TableOK /\ inq \in [Threads -> Seq(Messages)] /\ task \in [Callers -> TaskStates] /\ InHand
  BY DEF TypeInv, CallsOK, QueuesOK
<1>2. UNCHANGED resultq /\ ~fault
  BY DEF Retry, Call, Running
<1>3. jcounter' >= jcounter
  <2>1. jcounter \in Nat
    BY <1>1, ConstantsAssumption DEF TableOK
  <2> QED
    BY <2>1 DEF Retry, Call
<1>4. ASSUME NEW k, NEW a \in Acts, NEW t, Launch(c, k, a, t)
      PROVE  /\ alist \subseteq alist' /\ \A u \in Threads : inq[u] # <<>> => inq'[u] # <<>>
  <2>1. alist' = alist \cup {a}
    BY <1>4 DEF Launch
  <2>2. inq' = inq \/ \E m \in Messages : inq' = [inq EXCEPT ![t] = Append(@, m)]
    BY <1>4 DEF Launch, Send, GiveUp, RunHere, Messages
  <2>3. \A m \in Messages, u \in Threads : Append(inq[u], m) # <<>>
    BY <1>1, AppendIsNotEmpty
  <2> QED
    BY <1>1, <2>1, <2>2, <2>3
<1>5. CASE \E k \in Kinds : Call(c, k)
  <2>1. jcounter \in Acts
    BY <1>1, <1>5, ConstantsAssumption DEF Call, TableOK, Acts
  <2> QED
    BY <1>2, <1>3, <1>4, <1>5, <2>1 DEF Call
<1>6. CASE Retry(c)
  <2>1. task[c].act \in Acts
    BY <1>1, <1>6 DEF Retry, InHand, TaskStates
  <2> QED
    BY <1>2, <1>3, <1>4, <1>6, <2>1 DEF Retry
<1> QED
  BY <1>5, <1>6

(* What runs on this node finds its command on its thread.                 *)
LEMMA LaunchHere ==
  ASSUME TypeInv, NEW c \in Callers, NEW k \in AllKinds, NEW a \in Acts, NEW t \in Threads,
         Launch(c, k, a, t)
  PROVE  /\ a \in alist'
         /\ kind' = kind \/ kind'[a] \in {"sync", "async"} \/ inq'[t] # <<>>
         /\ kind'[a] \in {"sync", "async"} =>
              kind' = kind \/ (task'[c].pc = "wait" /\ task'[c].act = a)
<1>1. TableOK /\ inq \in [Threads -> Seq(Messages)] /\ task \in [Callers -> TaskStates]
  BY DEF TypeInv, CallsOK, QueuesOK
<1>2. a \in alist' /\ (Send(c, k, a, t) \/ GiveUp(c, k) \/ RunHere(c, k, a, t))
  BY DEF Launch
<1>3. CASE Send(c, k, a, t)
  BY <1>1, <1>2, <1>3 DEF Send, TableOK
<1>4. CASE GiveUp(c, k)
  BY <1>2, <1>4 DEF GiveUp
<1>5. CASE RunHere(c, k, a, t)
  <2> DEFINE x == [kind |-> IF k = "lexec" THEN "LEXEC" ELSE "REXEC", act |-> a]
  <2>0. x \in Messages
    BY DEF Messages
  <2>1. PICK m \in Messages : inq' = [inq EXCEPT ![t] = Append(@, m)]
    BY <1>5, <2>0 DEF RunHere
  <2>2. Append(inq[t], m) # <<>>
    BY <1>1, AppendIsNotEmpty
  <2>3. k \in {"lexec", "remote"} /\ kind'[a] = k
    BY <1>1, <1>5 DEF RunHere, TableOK
  <2>4. QED
    BY <1>1, <1>2, <2>1, <2>2, <2>3
<1>6. QED
  BY <1>2, <1>3, <1>4, <1>5

LEMMA StartCalls ==
  ASSUME TypeInv, CallsInv, NEW c \in Callers, Retry(c) \/ \E k \in Kinds : Call(c, k)
  PROVE  ResultsLeft' /\ Unnamed' /\ Served' /\ LocalStarts' /\ NoForgottenSyncCaller'
<1>1. /\ KindsAgree /\ Waiting /\ ResultsLeft /\ Unnamed /\ Served /\ LocalStarts
      /\ NoForgottenSyncCaller
      /\ TableOK /\ task \in [Callers -> TaskStates] /\ InHand /\ Numbered
      /\ 0 \notin Acts /\ Acts \subseteq Nat
  BY NotZero DEF TypeInv, CallsOK, CallsInv, Acts
<1>2. /\ resultq' = resultq /\ ~fault /\ alist \subseteq alist'
      /\ \A u \in Threads : inq[u] # <<>> => inq'[u] # <<>>
      /\ jcounter' >= jcounter /\ jcounter \in Nat
  BY <1>1, StartQueues, ConstantsAssumption DEF TableOK
<1>3. jcounter' \in Nat
  <2>1. TypeInv'
    BY TypeStep DEF Next, CallerStep
  <2> QED
    BY <2>1, ConstantsAssumption DEF TypeInv, CallsOK, TableOK
<1>4. misled \subseteq misled' /\ \A b : Unlucky(b) => Unlucky(b)'
  <2>1. [Next]_vars
    BY DEF Next, CallerStep
  <2>2. QED
    BY <2>1, HistoryGrows, UnluckyStays
<1>5. \A d \in Callers : task[d].pc = "wait" => task[d].thr \in Threads /\ task[d].act \in Acts
  BY <1>1 DEF InHand, TaskStates
<1>6. ASSUME NEW a \in Acts, NumberOf(c, a)
      PROVE  /\ kind[a] = "none" /\ a < jcounter'
             /\ \A t \in Threads : ~Holds(resultq[t], a)
  <2>1. CASE task[c].pc = "delay" /\ a = task[c].act
    BY <1>1, <1>2, <1>3, <2>1 DEF Unnamed, Numbered, ResultsLeft
  <2>2. CASE a = jcounter /\ jcounter' = a + 1
    BY <1>1, <2>2 DEF Unnamed, ResultsLeft
  <2> QED
    BY <1>6, <2>1, <2>2 DEF NumberOf
<1>7. CASE StillOut(c) /\ (task'[c].pc = "delay" => NumberOf(c, task'[c].act))
  <2>1. /\ UNCHANGED <<jindx, kind, run>>
        /\ \A d \in Callers : d # c => task'[d] = task[d]
        /\ \/ task'[c].pc = "delay" /\ task'[c].act \in Acts /\ NumberOf(c, task'[c].act)
           \/ task'[c].pc = "idle" /\ task'[c].act = 0
    BY <1>7 DEF StillOut, Fresh
  <2>2. task[c].pc # "wait"
    BY DEF Retry, Call
  <2>3. \A d \in Callers : task[d].pc = "wait" => task'[d] = task[d]
    BY <2>1, <2>2
  <2>4. ResultsLeft'
    <3> SUFFICES ASSUME NEW t \in Threads, NEW a \in Acts, Holds(resultq[t], a)
                 PROVE  /\ a < jcounter'
                        /\ \A u \in Threads : jindx[u] # a
                        /\ \A d \in Callers : task'[d].pc = "delay" => task'[d].act # a
      BY <1>2, <2>1 DEF ResultsLeft
    <3>1. a < jcounter' /\ \A u \in Threads : jindx[u] # a
      BY <1>1, <1>2, <1>3 DEF ResultsLeft
    <3>2. task'[c].pc = "delay" => task'[c].act # a
      BY <1>6, <2>1
    <3>3. QED
      BY <1>1, <2>1, <3>1, <3>2 DEF ResultsLeft
  <2>5. Unnamed'
    <3>1. \A a \in Acts : a >= jcounter' => kind[a] = "none"
      BY <1>1, <1>2, <1>3 DEF Unnamed
    <3>2. task'[c].pc = "delay" => kind[task'[c].act] = "none"
      BY <1>6, <2>1
    <3>3. QED
      BY <1>1, <2>1, <3>1, <3>2 DEF Unnamed
  <2>6. Served'
    BY <1>1, <1>4, <2>1, <2>3 DEF Served
  <2>7. LocalStarts'
    BY <1>1, <1>2, <2>1 DEF LocalStarts
  <2>8. NoForgottenSyncCaller'
    BY <1>1, <1>2, <1>4, <2>1 DEF NoForgottenSyncCaller, WaitsFor
  <2> QED
    BY <2>4, <2>5, <2>6, <2>7, <2>8
<1>8. ASSUME NEW k \in AllKinds, NEW a \in Acts, NEW t \in Threads,
             Launch(c, k, a, t), UNCHANGED run, jindx[t] = 0, Fresh(c, a),
             task[c].pc # "wait", NumberOf(c, a)
      PROVE  ResultsLeft' /\ Unnamed' /\ Served' /\ LocalStarts' /\ NoForgottenSyncCaller'
  <2>1. /\ jindx'[t] = a
        /\ \A u \in Threads : u # t => jindx'[u] = jindx[u]
        /\ \A d \in Callers : d # c => task'[d] = task[d]
        /\ \A b \in Acts : b # a => kind'[b] = kind[b]
        /\ task'[c].pc = "wait" => task'[c].act = a /\ task'[c].thr = t
        /\ task'[c].pc # "delay"
    BY <1>8, LaunchStep
  <2>2. /\ a \in alist'
        /\ kind' = kind \/ kind'[a] \in {"sync", "async"} \/ inq'[t] # <<>>
        /\ kind'[a] \in {"sync", "async"} =>
             kind' = kind \/ (task'[c].pc = "wait" /\ task'[c].act = a)
    BY <1>8, LaunchHere
  <2>3. /\ kind[a] = "none" /\ a < jcounter' /\ a # 0
        /\ \A u \in Threads : jindx[u] # a /\ ~Holds(resultq[u], a)
        /\ \A d \in Callers : d # c => task[d].act # a
    BY <1>1, <1>6, <1>8 DEF Fresh
  <2>4. \A u \in Threads : jindx[u] # 0 =>
          u # t /\ jindx'[u] = jindx[u] /\ kind'[jindx[u]] = kind[jindx[u]]
    BY <1>1, <1>8, <2>1, <2>3 DEF TableOK
  <2>5. \A d \in Callers : task[d].pc = "wait" => d # c /\ task'[d] = task[d]
    BY <1>8, <2>1
  <2>6. \A d \in Callers : task'[d].pc = "delay" => d # c /\ task'[d] = task[d]
    BY <2>1
  <2>7. ResultsLeft'
    <3> SUFFICES ASSUME NEW u \in Threads, NEW b \in Acts, Holds(resultq[u], b)
                 PROVE  /\ b < jcounter'
                        /\ \A v \in Threads : jindx'[v] # b
                        /\ \A d \in Callers : task'[d].pc = "delay" => task'[d].act # b
      BY <1>2 DEF ResultsLeft
    <3>1. b < jcounter /\ b # a /\ \A v \in Threads : jindx[v] # b
      BY <1>1, <2>3 DEF ResultsLeft
    <3>2. b < jcounter'
      BY <1>1, <1>2, <1>3, <3>1
    <3>3. QED
      BY <1>1, <2>1, <2>6, <3>1, <3>2 DEF ResultsLeft
  <2>8. Unnamed'
    <3>1. \A b \in Acts : b >= jcounter' => b # a /\ b >= jcounter
      BY <1>1, <1>2, <1>3, <2>3
    <3>2. \A d \in Callers : task[d].pc = "delay" => task[d].act \in Acts
      BY <1>1 DEF InHand, TaskStates
    <3>3. \A b \in Acts : b >= jcounter' => kind'[b] = "none"
      BY <1>1, <2>1, <3>1 DEF Unnamed
    <3>4. ASSUME NEW d \in Callers, task'[d].pc = "delay" PROVE kind'[task'[d].act] = "none"
      <4>1. d # c /\ task'[d] = task[d]
        BY <2>6, <3>4
      <4>2. task[d].act \in Acts /\ task[d].act # a /\ kind[task[d].act] = "none"
        BY <1>1, <2>3, <3>2, <3>4, <4>1 DEF Unnamed
      <4>3. QED
        BY <2>1, <4>1, <4>2
    <3>5. QED
      BY <3>3, <3>4 DEF Unnamed
  <2>9. Served'
    <3> SUFFICES ASSUME NEW u \in Threads, jindx'[u] # 0,
                        kind'[jindx'[u]] \in {"sync", "async"}, jindx'[u] \notin misled'
                 PROVE  \E d \in Callers : task'[d].pc = "wait" /\ task'[d].act = jindx'[u]
      BY DEF Served
    <3>1. CASE u = t
      BY <2>1, <2>2, <2>3, <3>1
    <3>2. CASE u # t
      <4>1. jindx'[u] = jindx[u] /\ kind[jindx[u]] \in {"sync", "async"} /\ jindx[u] \notin misled
        BY <1>4, <2>1, <2>4, <3>2
      <4>2. PICK d \in Callers : task[d].pc = "wait" /\ task[d].act = jindx[u]
        BY <1>1, <4>1 DEF Served
      <4>3. QED
        BY <2>5, <4>1, <4>2
    <3>3. QED
      BY <3>1, <3>2
  <2>10. LocalStarts'
    <3> SUFFICES ASSUME NEW u \in Threads, jindx'[u] # 0,
                        kind'[jindx'[u]] \in {"lexec", "remote"}, run'[u].pc = "top"
                 PROVE  jindx'[u] \in alist' /\ inq'[u] # <<>>
      BY DEF LocalStarts
    <3>1. CASE u = t
      BY <2>1, <2>2, <2>3, <3>1
    <3>2. CASE u # t
      <4>1. jindx'[u] = jindx[u] /\ kind[jindx[u]] \in {"lexec", "remote"} /\ run[u].pc = "top"
        BY <1>8, <2>1, <2>4, <3>2
      <4>2. QED
        BY <1>1, <1>2, <4>1 DEF LocalStarts
    <3>3. QED
      BY <3>1, <3>2
  <2>11. NoForgottenSyncCaller'
    <3> SUFFICES ASSUME NEW d \in Callers, NEW b \in Acts, WaitsFor(d, b)'
                 PROVE  \/ jindx'[task'[d].thr] = b \/ Holds(resultq'[task'[d].thr], b)
                        \/ Unlucky(b)'
      BY DEF NoForgottenSyncCaller
    <3>1. CASE d = c
      BY <2>1, <3>1 DEF WaitsFor
    <3>2. CASE d # c
      <4>1. WaitsFor(d, b) /\ task'[d] = task[d] /\ task[d].thr \in Threads
        BY <1>5, <2>1, <3>2 DEF WaitsFor
      <4>2. \/ jindx[task[d].thr] = b \/ Holds(resultq[task[d].thr], b) \/ Unlucky(b)
        BY <1>1, <4>1 DEF NoForgottenSyncCaller
      <4>3. QED
        BY <1>1, <1>2, <1>4, <2>4, <4>1, <4>2
    <3>3. QED
      BY <3>1, <3>2
  <2> QED
    BY <2>7, <2>8, <2>9, <2>10, <2>11
<1> QED
  BY <1>1, <1>7, <1>8, StartStep

LEMMA ElsewhereCalls ==
  ASSUME TypeInv, CallsInv, Elsewhere
  PROVE  ResultsLeft' /\ Unnamed' /\ Served' /\ LocalStarts' /\ NoForgottenSyncCaller'
<1>1. /\ ResultsLeft /\ Unnamed /\ Served /\ LocalStarts /\ NoForgottenSyncCaller
      /\ inq \in [Threads -> Seq(Messages)] /\ WorkerOK /\ TimerOK /\ InHand
  BY DEF TypeInv, CallsOK, QueuesOK, CallsInv
<1>2. UNCHANGED <<jindx, kind, task, run>>
  BY ElsewhereStep
<1>3. UNCHANGED <<resultq, alist, jcounter>>
  BY DEF Elsewhere, Worker, Publish, FindActivity, FindThread, Deliver, Timer, TimerCommand, Expire,
     Fire, Reply, vars, tableVars, queueVars
<1>4. misled \subseteq misled' /\ \A b : Unlucky(b) => Unlucky(b)'
  <2>1. [Next]_vars
    BY DEF Next, Elsewhere
  <2>2. QED
    BY <2>1, HistoryGrows, UnluckyStays
<1>5. \A u \in Threads : inq[u] # <<>> => inq'[u] # <<>>
  <2>1. ASSUME NEW t \in Threads, NEW m \in Messages, inq' = [inq EXCEPT ![t] = Append(@, m)]
        PROVE  \A u \in Threads : inq[u] # <<>> => inq'[u] # <<>>
    <3>1. Append(inq[t], m) # <<>>
      BY <1>1, AppendIsNotEmpty
    <3>2. QED
      BY <1>1, <2>1, <3>1
  <2>2. CASE Deliver
    <3>1. worker.msg \in Messages /\ worker.thr \in Threads
      BY <1>1, <2>2 DEF Deliver, InHand, WorkerOK, WorkerStates, Replies, Messages
    <3>2. QED
      BY <2>1, <2>2, <3>1 DEF Deliver
  <2>3. ASSUME NEW e \in due, Fire(e) PROVE \A u \in Threads : inq[u] # <<>> => inq'[u] # <<>>
    <3>1. [kind |-> "TIMEOUT", act |-> e.act] \in Messages /\ e.thr \in Threads
      BY <1>1 DEF TimerOK, Events, Messages
    <3>2. QED
      BY <2>1, <2>3, <3>1 DEF Fire
  <2>4. CASE UNCHANGED inq
    BY <2>4
  <2>5. QED
    BY <2>2, <2>3, <2>4 DEF Elsewhere, Worker, Publish, FindActivity, FindThread, Timer,
       TimerCommand, Expire, Reply, vars, queueVars
<1>6. ResultsLeft' /\ Unnamed' /\ Served' /\ LocalStarts'
  BY <1>1, <1>2, <1>3, <1>4, <1>5 DEF ResultsLeft, Unnamed, Served, LocalStarts
<1>7. NoForgottenSyncCaller'
  BY <1>1, <1>2, <1>3, <1>4 DEF NoForgottenSyncCaller, WaitsFor
<1>8. QED
  BY <1>6, <1>7

LEMMA InitialCalls == Init => CallsInv
<1> SUFFICES ASSUME Init PROVE CallsInv
  OBVIOUS
<1>1. \A c \in Callers : task[c].pc = "idle" /\ task[c].act = 0 /\ task[c].kind = "none"
  BY DEF Init, Idle
<1>2. /\ \A t \in Threads : jindx[t] = 0 /\ run[t].pc = "top" /\ resultq[t] = <<>>
      /\ \A a \in Acts : kind[a] = "none"
  BY TopState DEF Init
<1>3. Waiting /\ KindsAgree
  BY <1>1, <1>2 DEF Waiting, KindsAgree
<1>4. ResultsLeft /\ Unnamed /\ Served /\ LocalStarts /\ NoForgottenSyncCaller
  BY <1>1, <1>2 DEF ResultsLeft, Holds, Unnamed, Served, LocalStarts, NoForgottenSyncCaller, WaitsFor
<1>5. QED
  BY <1>3, <1>4 DEF CallsInv

LEMMA CallsPreserved == TypeInv /\ OneThreadPerActivity /\ CallsInv /\ [Next]_vars => CallsInv'
<1> SUFFICES ASSUME TypeInv, OneThreadPerActivity, CallsInv, [Next]_vars PROVE CallsInv'
  OBVIOUS
<1>1. Waiting /\ KindsAgree
  BY DEF CallsInv
<1>2. Waiting' /\ KindsAgree'
  BY <1>1, WaitingStep, KindsStep
<1>3. ResultsLeft' /\ Unnamed' /\ Served' /\ LocalStarts' /\ NoForgottenSyncCaller'
  BY StepCases, StartCalls, CollectCalls, RunCalls, ElsewhereCalls
<1>4. QED
  BY <1>2, <1>3 DEF CallsInv

LEMMA CallsCorrect == Spec => [](TypeInv /\ CallsInv)
<1>1. Spec => []OneThreadPerActivity
  BY OneThread
<1>2. Spec => []TypeInv
  BY TypeInit, TypeStep, PTL DEF Spec
<1>3. QED
  BY <1>1, <1>2, InitialCalls, CallsPreserved, PTL DEF Spec

(* Whatever the J nodes, the timers and the other callers do, a waiting    *)
(* sync caller's thread works for it or its result is there (run_activity, *)
(* jam_sync_runner), unless another caller took that result or a local     *)
(* function the thread.                                                    *)
THEOREM NobodyForgotten == Spec => []NoForgottenSyncCaller
<1>1. CallsInv => NoForgottenSyncCaller
  BY DEF CallsInv
<1>2. QED
  BY <1>1, CallsCorrect, PTL

(* A thread with no command, whose activity no caller waits for, is idle:  *)
(* run_activity has given it back (jindx = 0).  Excepted are the calls     *)
(* that found no machine (jam_rexec_async's early return) and those whose  *)
(* caller left with another call's result.                                 *)
THEOREM PoolComesBack == Spec => []PoolIsWholeAgain
<1>1. TypeInv /\ CallsInv => PoolIsWholeAgain
  <2> SUFFICES ASSUME TypeInv, CallsInv, NEW t \in Threads, Abandoned(t), jindx[t] # 0,
                      jindx[t] \notin misled
               PROVE  kind[jindx[t]] = "none"
    BY DEF PoolIsWholeAgain
  <2>1. Served /\ LocalStarts /\ KindsAgree /\ TableOK
    BY DEF CallsInv, TypeInv, CallsOK
  <2>2. jindx[t] \in Acts /\ kind[jindx[t]] \in AllKinds \cup {"none"}
    BY <2>1 DEF TableOK
  <2>3. kind[jindx[t]] # "missing"
    BY <2>1, <2>2 DEF KindsAgree
  <2>4. kind[jindx[t]] \notin {"sync", "async"}
    BY <2>1 DEF Served, Abandoned
  <2>5. kind[jindx[t]] \notin {"lexec", "remote"}
    BY <2>1 DEF LocalStarts, Abandoned
  <2>6. QED
    BY <2>2, <2>3, <2>4, <2>5 DEF AllKinds
<1>2. QED
  BY <1>1, CallsCorrect, PTL

=============================================================================
