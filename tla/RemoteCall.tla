------------------------------ MODULE RemoteCall ------------------------------
(***************************************************************************)
(* Remote and local calls of the C runtime: the callers (jamsync.c,        *)
(* jamasync.c, the REXEC-ASY arm of jam_event_loop), the activity threads  *)
(* (run_activity), the worker pthread that publishes commands and routes   *)
(* replies (jamworker.c) and the timer pthread.                            *)
(*                                                                         *)
(* The tasks of the main pthread are cooperative: what one of them does    *)
(* between two yields (pqueue_deq, taskdelay, taskyield) is one action.    *)
(* The worker and the timer are pthreads of their own: an action of theirs *)
(* ends wherever they release the table's lock or touch a queue.           *)
(*                                                                         *)
(* Data: an activity id is the activity's number; a message is its kind    *)
(* and the activity it was made for (for a TIMEOUT, which carries no id in *)
(* the code, the activity that set the timer).  Time is abstracted: a      *)
(* timer may expire in any 100 ms silence of the timer queue.              *)
(***************************************************************************)
EXTENDS Naturals, Sequences

CONSTANTS
  NumThreads,  \* size of the thread pool (MAX_ACT_THREADS)
  Callers,     \* tasks of the main pthread that make calls
  Kinds,       \* the calls they make, a subset of AllKinds
  Heights,     \* what machine_height() may return whenever it is asked: 1 for
               \* the device alone, 2 with a fog, 3 with a cloud; fogs and clouds
               \* come and go on a pthread of the MQTT client
  ReplyKinds,  \* what the J nodes may answer: of REXEC-ACK, REXEC-NAK, REXEC-RES
  MaxActs,     \* bound: activities created in one behaviour
  MaxReplies   \* bound: messages the J nodes send in one behaviour

(* "missing" is an async call for which no machine of the requested level  *)
(* shows up (wait_for_machine).                                            *)
AllKinds == {"sync", "async", "missing", "lexec", "remote"}

ASSUME ConstantsAssumption ==
  /\ NumThreads \in Nat \ {0}
  /\ MaxActs \in Nat
  /\ MaxReplies \in Nat
  /\ Heights \subseteq 1..3 /\ Heights # {}
  /\ Kinds \subseteq AllKinds
  /\ ReplyKinds \subseteq {"ACK", "NAK", "RES"}

Threads == 1..NumThreads
Acts == 1..MaxActs
NoThread == 0
Tries == 3        \* "Repeat for three times" in both runners
Gets == 3         \* athread_get calls in activity_new before it gives up

VARIABLES
  \* activity table
  jindx,     \* athread->jindx of each thread
  jcounter,  \* number of the next activity
  alist,     \* activities on the table's list
  kind,      \* what each activity is for (type and remote flag)
  \* queues of each thread
  inq, outq, resultq,
  \* tasks of the main pthread
  run,       \* run_activity of each thread: where it waits, ack_failed
  task,      \* the callers
  \* worker pthread and J nodes
  worker, deviceinq, published, replies,
  \* timer pthread
  timerqueue, armed, due,
  fault,     \* a NULL pointer or a freed activity was used: anything may follow,
             \* and nothing is said of it
  \* history: the activities whose
  misled,    \* caller took another one's result
  robbed,    \* result was taken by another one's caller
  hijacked   \* thread ran a function that was not theirs

tableVars == <<jindx, jcounter, alist, kind>>
queueVars == <<inq, outq, resultq>>
workerVars == <<worker, deviceinq, published, replies>>
timerVars == <<timerqueue, armed, due>>
historyVars == <<misled, robbed, hijacked>>
vars == <<tableVars, queueVars, run, task, workerVars, timerVars, fault, historyVars>>

Replies == [kind : {"ACK", "NAK", "RES"}, act : Acts]
Messages == [kind : {"ACK", "NAK", "RES", "TIMEOUT", "LEXEC", "REXEC"}, act : Acts]
Results == [val : {"null", "arg", "ok", "failed"}, act : Acts]
Events == [act : Acts, thr : Threads]
TimerCommands == [op : {"ADDEVENT"}, act : Acts, thr : Threads] \cup
                 [op : {"DELEVENT"}, act : Acts, thr : {NoThread}]
TaskStates == [pc : {"idle", "delay", "wait"}, act : Acts \cup {0},
               thr : Threads \cup {NoThread}, try : 0..Tries, kind : AllKinds \cup {"none"}]
RunStates == [pc : {"top", "result", "ack", "callback", "sleep", "woken"},
              failed : BOOLEAN, frees : BOOLEAN]
WorkerStates == [pc : {"poll", "found", "enq"},
                 msg : Replies \cup {[kind |-> "none", act |-> 0]}, thr : Threads \cup {NoThread}]

Negative(m) == m.kind \in {"TIMEOUT", "NAK"}

(***************************************************************************)
(* Activity table                                                          *)
(***************************************************************************)

(* athread_get: the thread of activity a, else the first idle one, else    *)
(* NULL.                                                                   *)
First(S) == IF S = {} THEN NoThread ELSE CHOOSE t \in S : \A u \in S : t <= u

athread_get_busy(a) ==  \* mutant: any thread will do
  LET own == {t \in Threads : jindx[t] = a}
  IN  First(IF own # {} THEN own ELSE Threads)

athread_get(a) ==
  LET own == {t \in Threads : jindx[t] = a}
  IN  First(IF own # {} THEN own ELSE {t \in Threads : jindx[t] = 0})

(* athread_getbyindx, and athread_getbyid once the activity is found on    *)
(* the list.  Both dereference what athread_get returns: Derefs(a) is      *)
(* FALSE when that is NULL.                                                *)
Derefs(a) == athread_get(a) # NoThread

athread_getbyindx(a) ==
  IF jindx[athread_get(a)] = a THEN athread_get(a) ELSE NoThread

SetTimer(a, t) == [op |-> "ADDEVENT", act |-> a, thr |-> t]
ClearTimer(a) == [op |-> "DELEVENT", act |-> a, thr |-> NoThread]
(* jam_set_timer finds the activity's thread once more: nothing is queued  *)
(* when it has none.                                                       *)
jam_set_timer_lost(q, a) == q  \* mutant: the timer is never set again

jam_set_timer(q, a) ==
  IF a \in alist /\ Derefs(a) /\ athread_getbyindx(a) # NoThread
  THEN Append(q, SetTimer(a, athread_getbyindx(a)))
  ELSE q

jam_clear_timer(q, a) == Append(q, ClearTimer(a))

(* The process is alive, and this step does not kill it ...                *)
Running == ~fault /\ UNCHANGED fault

(* ... unless the activity it uses has been freed: that may go well.       *)
Using(a) == ~fault /\ fault' \in {FALSE, a \notin alist}

(***************************************************************************)
(* Callers.                                                                *)
(***************************************************************************)

Idle == [pc |-> "idle", act |-> 0, thr |-> NoThread, try |-> 0, kind |-> "none"]
AtTop == [pc |-> "top", failed |-> FALSE, frees |-> FALSE]

Init ==
  /\ jindx = [t \in Threads |-> 0]
  /\ jcounter = 1
  /\ alist = {}
  /\ kind = [a \in Acts |-> "none"]
  /\ inq = [t \in Threads |-> <<>>]
  /\ outq = [t \in Threads |-> <<>>]
  /\ resultq = [t \in Threads |-> <<>>]
  /\ run = [t \in Threads |-> AtTop]
  /\ task = [c \in Callers |-> Idle]
  /\ worker = [pc |-> "poll", msg |-> [kind |-> "none", act |-> 0], thr |-> NoThread]
  /\ deviceinq = <<>>
  /\ published = {}
  /\ replies = 0
  /\ timerqueue = <<>>
  /\ armed = {}
  /\ due = {}
  /\ fault = FALSE
  /\ misled = {} /\ robbed = {} /\ hijacked = {}

(* jam_async_runner and jam_sync_runner, first try: the command and the    *)
(* timer are queued and the caller waits for a result.                     *)
Send(c, k, a, t) ==
  /\ k \in {"sync", "async"}
  /\ kind' = [kind EXCEPT ![a] = k]
  /\ outq' = [outq EXCEPT ![t] = Append(@, a)]
  /\ timerqueue' = Append(timerqueue, SetTimer(a, t))
  /\ task' = [task EXCEPT ![c] = [pc |-> "wait", act |-> a, thr |-> t, try |-> 1, kind |-> k]]
  /\ UNCHANGED inq

(* jam_rexec_async without a machine: the activity gets no type, and the   *)
(* stub frees NULL instead of it.                                          *)
GiveUp(c, k) ==
  /\ k = "missing"
  /\ task' = [task EXCEPT ![c] = Idle]
  /\ UNCHANGED <<kind, inq, outq, timerqueue>>

(* jam_lexec_async, and the REXEC-ASY arm of jam_event_loop: the activity  *)
(* runs on this node.                                                      *)
RunHere(c, k, a, t) ==
  /\ k \in {"lexec", "remote"}
  /\ kind' = [kind EXCEPT ![a] = k]
  /\ inq' = [inq EXCEPT ![t] =
       Append(@, [kind |-> IF k = "lexec" THEN "LEXEC" ELSE "REXEC", act |-> a])]
  /\ task' = [task EXCEPT ![c] = Idle]
  /\ UNCHANGED <<outq, timerqueue>>

(* The call goes out on thread t: activity_new's end and what its caller   *)
(* does up to its first yield.                                             *)
Launch(c, k, a, t) ==
  /\ jindx' = [jindx EXCEPT ![t] = a]
  /\ alist' = alist \cup {a}
  /\ Send(c, k, a, t) \/ GiveUp(c, k) \/ RunHere(c, k, a, t)

(* A call starts: activity_new numbers the activity and looks for a        *)
(* thread; without one it sleeps 10 ms.                                    *)
Call(c, k) ==
  LET a == jcounter
      t == athread_get(a)
  IN  /\ task[c].pc = "idle"
      /\ a <= MaxActs
      /\ jcounter' = a + 1
      /\ \/ t # NoThread /\ Launch(c, k, a, t)
         \/ /\ t = NoThread
            /\ task' = [task EXCEPT ![c] =
                 [pc |-> "delay", act |-> a, thr |-> NoThread, try |-> 1, kind |-> k]]
            /\ UNCHANGED <<jindx, alist, kind, inq, outq, timerqueue>>
      /\ UNCHANGED <<resultq, run, workerVars, armed, due, historyVars>>
      /\ Running

(* activity_new after a 10 ms sleep.  At the third failure it returns      *)
(* NULL, which jam_lexec_async dereferences; the other callers report or   *)
(* drop the call.                                                          *)
Retry(c) ==
  LET a == task[c].act
      t == athread_get(a)
  IN  /\ task[c].pc = "delay"
      /\ ~fault
      /\ \/ /\ task[c].try < Gets
            /\ t # NoThread
            /\ Launch(c, task[c].kind, a, t)
            /\ UNCHANGED fault
         \/ /\ task[c].try < Gets
            /\ t = NoThread
            /\ task' = [task EXCEPT ![c].try = @ + 1]
            /\ UNCHANGED <<jindx, alist, kind, inq, outq, timerqueue>>
            /\ Running
         \/ /\ task[c].try = Gets
            /\ task' = [task EXCEPT ![c] = Idle]
            /\ fault' = (task[c].kind = "lexec")
            /\ UNCHANGED <<jindx, alist, kind, inq, outq, timerqueue>>
      /\ UNCHANGED <<jcounter, resultq, run, workerVars, armed, due, historyVars>>

(* The call of c returns.  The async stub frees its activity; the sync     *)
(* call does so only when the device stands alone.                         *)
Return(c) ==
  LET a == task[c].act IN
  /\ task' = [task EXCEPT ![c] = Idle]
  /\ \E h \in Heights :
       alist' = IF task[c].kind = "async" \/ h = 1 THEN alist \ {a} ELSE alist

(* Both runners' loop condition when the attempt gave no result.           *)
TryAgain(c) == task[c].try < Tries

(* A runner wakes up with the first result on the resultq it waits on,     *)
(* whosever it is, and clears its timer.                                   *)
Collect(c) ==
  LET a == task[c].act
      t == task[c].thr
      other == {Head(resultq[t]).act} \ {a}
  IN  /\ task[c].pc = "wait"
      /\ resultq[t] # <<>>
      /\ resultq' = [resultq EXCEPT ![t] = Tail(@)]
      /\ misled' = IF other = {} THEN misled ELSE misled \cup {a}
      /\ robbed' = robbed \cup other
      /\ UNCHANGED <<jindx, jcounter, kind, inq, run, workerVars, armed, due, hijacked>>

(* jam_sync_runner returns a value of the other end, or an acknowledgement *)
(* as NULL.  On any other result, with a try left, it looks its thread up  *)
(* again and resends if it still has one.                                  *)
SyncCollect(c) ==
  LET a == task[c].act
      again == Head(resultq[task[c].thr]).val \in {"null", "failed"} /\ TryAgain(c)
  IN  /\ task[c].kind = "sync"
      /\ Collect(c)
      /\ \/ /\ again
            /\ Derefs(a)
            /\ athread_getbyindx(a) # NoThread
            /\ outq' = [outq EXCEPT ![athread_getbyindx(a)] = Append(@, a)]
            /\ timerqueue' = jam_set_timer(jam_clear_timer(timerqueue, a), a)
            /\ task' = [task EXCEPT ![c].try = @ + 1, ![c].thr = athread_getbyindx(a)]
            /\ UNCHANGED alist
            /\ Using(a)
         \/ /\ again => Derefs(a) /\ athread_getbyindx(a) = NoThread
            /\ timerqueue' = jam_clear_timer(timerqueue, a)
            /\ Return(c)
            /\ UNCHANGED outq
            /\ Using(a)
         \/ /\ again /\ ~Derefs(a)
            /\ ~fault /\ fault' = TRUE
            /\ timerqueue' = jam_clear_timer(timerqueue, a)
            /\ UNCHANGED <<outq, task, alist>>

(* jam_async_runner stays on the resultq of the thread it was given at the *)
(* start, whether that thread is still its own or not.  (It pauses only if *)
(* queue_deq itself fails: a NULL result comes as one of length 0.)        *)
AsyncCollect(c) ==
  LET a == task[c].act
      t == task[c].thr
      again == Head(resultq[t]).val # "ok" /\ TryAgain(c)
  IN  /\ task[c].kind = "async"
      /\ Collect(c)
      /\ \/ /\ again
            /\ outq' = [outq EXCEPT ![t] = Append(@, a)]
            /\ ~fault
            /\ IF a \in alist THEN fault' = ~Derefs(a) ELSE fault' \in BOOLEAN
            /\ timerqueue' = jam_set_timer(jam_clear_timer(timerqueue, a), a)
            /\ task' = [task EXCEPT ![c].try = @ + 1]
            /\ UNCHANGED alist
         \/ /\ ~again
            /\ timerqueue' = jam_clear_timer(timerqueue, a)
            /\ Return(c)
            /\ UNCHANGED outq
            /\ Using(a)

(***************************************************************************)
(* run_activity                                                            *)
(***************************************************************************)

Result(t, k) == resultq' = [resultq EXCEPT ![t] = Append(@, [val |-> k, act |-> jindx[t]])]

Released_busy(t) ==  \* mutant: the thread is left marked as serving
  /\ run' = [run EXCEPT ![t] = AtTop]
  /\ UNCHANGED jindx

Released(t) ==
  /\ jindx' = [jindx EXCEPT ![t] = 0]
  /\ run' = [run EXCEPT ![t] = AtTop]

(* An attempt of a call ends: timer off, result k to the runner, thread    *)
(* idle.                                                                   *)
Finish_timer_left(t, k) ==  \* mutant: jam_clear_timer is forgotten
  /\ UNCHANGED timerqueue
  /\ Result(t, k)
  /\ Released(t)

Finish_unanswered(t, k) ==  \* mutant: the runner gets no result
  /\ timerqueue' = jam_clear_timer(timerqueue, jindx[t])
  /\ UNCHANGED resultq
  /\ Released(t)

Finish(t, k) ==
  /\ timerqueue' = jam_clear_timer(timerqueue, jindx[t])
  /\ Result(t, k)
  /\ Released(t)

(* A command for a thread that serves nothing is a spurious wakeup; one    *)
(* for an activity no longer on the list leaves jindx as it is.            *)
DropCommand(t) ==
  /\ run[t].pc = "top"
  /\ inq[t] # <<>>
  /\ jindx[t] \notin alist
  /\ inq' = [inq EXCEPT ![t] = Tail(@)]
  /\ UNCHANGED <<tableVars, outq, resultq, run, task, workerVars, timerVars, historyVars>>
  /\ Running

(* First command of a SYNC_RTE call: an acknowledgement starts the wait    *)
(* for the result, a TIMEOUT or REXEC-NAK ends the attempt.                *)
SyncAck(t) ==
  LET a == jindx[t]
      m == Head(inq[t])
  IN  /\ kind[a] = "sync"
      /\ m.kind # "LEXEC"
      /\ \/ /\ ~Negative(m)
            /\ run' = [run EXCEPT ![t].pc = "result"]
            /\ timerqueue' = jam_set_timer(jam_clear_timer(timerqueue, a), a)
            /\ UNCHANGED <<jindx, resultq>>
         \/ /\ Negative(m)
            /\ Finish(t, "null")

(* First command of an ASYNC activity, which a LEXEC-ASY one is too.  The  *)
(* loop over machine_height - 1 levels looks at no command on a lone       *)
(* device, at one with a fog, and at two with a cloud.                     *)
AsyncAck(t) ==
  \E h \in Heights :
  LET a == jindx[t]
      bad == h > 1 /\ Negative(Head(inq[t]))
  IN  /\ kind[a] \in {"async", "lexec"}
      /\ Head(inq[t]).kind # "LEXEC"
      /\ \/ /\ h > 2
            /\ run' = [run EXCEPT ![t].pc = "ack", ![t].failed = bad]
            /\ timerqueue' = jam_set_timer(jam_clear_timer(timerqueue, a), a)
            /\ UNCHANGED <<jindx, resultq>>
         \/ /\ h <= 2
            /\ Finish(t, IF bad THEN "failed" ELSE "ok")

(* A local activity starts the callback of a LEXEC-ASY, whatever its type  *)
(* and whosever the command; a remote one, or one that got no type, that   *)
(* of a REXEC-ASY.  Afterwards the activity is freed, unless it is neither *)
(* remote nor was the command local.                                       *)
StartCallback(t) ==
  LET a == jindx[t]
      local == Head(inq[t]).kind = "LEXEC"
  IN  /\ \/ local /\ kind[a] # "remote"
         \/ Head(inq[t]).kind = "REXEC" /\ kind[a] \in {"remote", "none"}
      /\ run' = [run EXCEPT ![t].pc = "callback", ![t].frees = local \/ kind[a] = "remote"]
      /\ hijacked' = IF kind[a] \in {"sync", "async"} THEN hijacked \cup {a} ELSE hijacked
      /\ UNCHANGED <<jindx, resultq, timerqueue>>

(* Any other command, and a REXEC-ASY for a function that is not           *)
(* registered, ends the activity's stay on the thread unanswered.          *)
IgnoreCommand(t) ==
  /\ \/ kind[jindx[t]] = "none" /\ Head(inq[t]).kind # "LEXEC"
     \/ kind[jindx[t]] = "remote"
  /\ Released(t)
  /\ UNCHANGED <<resultq, timerqueue>>

RunCommand(t) ==
  /\ run[t].pc = "top"
  /\ inq[t] # <<>>
  /\ jindx[t] \in alist
  /\ inq' = [inq EXCEPT ![t] = Tail(@)]
  /\ \/ StartCallback(t)
     \/ (SyncAck(t) \/ AsyncAck(t) \/ IgnoreCommand(t)) /\ UNCHANGED hijacked
  /\ UNCHANGED <<jcounter, alist, kind, outq, task, workerVars, armed, due, misled, robbed>>
  /\ Running

(* Second command of a SYNC_RTE call: its result, or a failure.            *)
SyncResult(t) ==
  LET m == Head(inq[t])
  IN  /\ run[t].pc = "result"
      /\ inq[t] # <<>>
      /\ inq' = [inq EXCEPT ![t] = Tail(@)]
      /\ IF m.kind = "RES" THEN Finish(t, "arg") ELSE Finish(t, "null")
      /\ UNCHANGED <<jcounter, alist, kind, outq, task, workerVars, armed, due, historyVars>>
      /\ Using(jindx[t])

(* Second command of an ASYNC call on a machine of height 3; it does not   *)
(* count if the machine has shrunk meanwhile.                              *)
AsyncSecondAck(t) ==
  \E h \in Heights :
  LET bad == run[t].failed \/ (h > 2 /\ Negative(Head(inq[t])))
  IN  /\ run[t].pc = "ack"
      /\ inq[t] # <<>>
      /\ inq' = [inq EXCEPT ![t] = Tail(@)]
      /\ Finish(t, IF bad THEN "failed" ELSE "ok")
      /\ UNCHANGED <<jcounter, alist, kind, outq, task, workerVars, armed, due, historyVars>>
      /\ Using(jindx[t])

(* The callback returns; run_activity or jrun_arun_callback frees the      *)
(* activity.                                                               *)
EndCallback(t) ==
  /\ run[t].pc \in {"callback", "woken"}
  /\ alist' = IF run[t].frees THEN alist \ {jindx[t]} ELSE alist
  /\ Released(t)
  /\ UNCHANGED <<jcounter, kind, queueVars, task, workerVars, timerVars, historyVars>>
  /\ Using(jindx[t])

(* A callback sleeps (jsleep): the timer's command, or any other, wakes    *)
(* it.  Bound: at most one sleep in a callback.                            *)
Sleep(t) ==
  /\ run[t].pc = "callback"
  /\ run' = [run EXCEPT ![t].pc = "sleep"]
  /\ timerqueue' = jam_set_timer(timerqueue, jindx[t])
  /\ UNCHANGED <<tableVars, queueVars, task, workerVars, armed, due, historyVars>>
  /\ Using(jindx[t])

Wake(t) ==
  /\ run[t].pc = "sleep"
  /\ inq[t] # <<>>
  /\ inq' = [inq EXCEPT ![t] = Tail(@)]
  /\ run' = [run EXCEPT ![t].pc = "woken"]
  /\ timerqueue' = jam_clear_timer(timerqueue, jindx[t])
  /\ UNCHANGED <<tableVars, outq, resultq, task, workerVars, armed, due, historyVars>>
  /\ Using(jindx[t])

(***************************************************************************)
(* The worker pthread and the J nodes                                      *)
(***************************************************************************)

(* jwork_process_actoutq: the command goes to every connected level.       *)
Publish(t) ==
  /\ worker.pc = "poll"
  /\ outq[t] # <<>>
  /\ published' = published \cup {Head(outq[t])}
  /\ outq' = [outq EXCEPT ![t] = Tail(@)]
  /\ UNCHANGED <<tableVars, inq, resultq, run, task, worker, deviceinq, replies, timerVars, historyVars>>
  /\ Running

(* A J node answers a command it has seen: once, twice, late or never.     *)
(* Bound: a reply comes when the last one has been taken.  They are taken  *)
(* in order, whenever the worker gets to them, so no order is left out.    *)
Reply(a, k) ==
  /\ a \in published
  /\ replies < MaxReplies
  /\ deviceinq = <<>>
  /\ k = "RES" => kind[a] = "sync"
  /\ replies' = replies + 1
  /\ deviceinq' = Append(deviceinq, [kind |-> k, act |-> a])
  /\ UNCHANGED <<tableVars, queueVars, run, task, worker, published, timerVars, historyVars>>
  /\ Running

(* jwork_process_device on REXEC-ACK, -NAK and -RES, athread_getbyid:      *)
(* the activity is looked up under the lock ...                            *)
FindActivity ==
  /\ worker.pc = "poll"
  /\ deviceinq # <<>>
  /\ deviceinq' = Tail(deviceinq)
  /\ worker' = IF Head(deviceinq).act \in alist
               THEN [worker EXCEPT !.pc = "found", !.msg = Head(deviceinq)]
               ELSE worker
  /\ UNCHANGED <<tableVars, queueVars, run, task, published, replies, timerVars, historyVars>>
  /\ Running

(* ... its thread under the lock again, if the activity is still there or  *)
(* its memory as it was ...                                                *)
FindThread ==
  LET a == worker.msg.act IN
  /\ worker.pc = "found"
  /\ ~fault
  /\ fault' \in {~Derefs(a), ~Derefs(a) \/ a \notin alist}
  /\ worker' = IF Derefs(a) /\ athread_getbyindx(a) # NoThread
               THEN [worker EXCEPT !.pc = "enq", !.thr = athread_getbyindx(a)]
               ELSE [worker EXCEPT !.pc = "poll"]
  /\ UNCHANGED <<tableVars, queueVars, run, task, deviceinq, published, replies, timerVars,
                 historyVars>>

(* ... and the command is queued after the lock is gone.                   *)
Deliver ==
  /\ worker.pc = "enq"
  /\ inq' = [inq EXCEPT ![worker.thr] = Append(@, worker.msg)]
  /\ worker' = [worker EXCEPT !.pc = "poll"]
  /\ UNCHANGED <<tableVars, outq, resultq, run, task, deviceinq, published, replies, timerVars,
                 historyVars>>
  /\ Running

(***************************************************************************)
(* The timer pthread                                                       *)
(***************************************************************************)

(* timer_loop takes a command when it is not firing.  `armed' is a set:    *)
(* two events of the same activity and thread count as one, so a second    *)
(* TIMEOUT from them is left out; a DELEVENT removes both in the code too. *)
TimerCommand ==
  LET e == Head(timerqueue) IN
  /\ due = {}
  /\ timerqueue # <<>>
  /\ timerqueue' = Tail(timerqueue)
  /\ armed' = IF e.op = "ADDEVENT" THEN armed \cup {[act |-> e.act, thr |-> e.thr]}
                                   ELSE {f \in armed : f.act # e.act}
  /\ UNCHANGED <<tableVars, queueVars, run, task, workerVars, due, historyVars>>
  /\ Running

(* 100 ms without a command: some events have run out of time.             *)
Expire ==
  /\ due = {}
  /\ timerqueue = <<>>
  /\ \E S \in SUBSET armed \ {{}} : due' = S
  /\ UNCHANGED <<tableVars, queueVars, run, task, workerVars, timerqueue, armed, historyVars>>
  /\ Running

(* tcallback puts a TIMEOUT on the inq of the thread the event was set for.*)
Fire(e) ==
  /\ e \in due
  /\ inq' = [inq EXCEPT ![e.thr] = Append(@, [kind |-> "TIMEOUT", act |-> e.act])]
  /\ armed' = armed \ {e}
  /\ due' = due \ {e}
  /\ UNCHANGED <<tableVars, outq, resultq, run, task, workerVars, timerqueue, historyVars>>
  /\ Running

CallerStep(c) == Retry(c) \/ SyncCollect(c) \/ AsyncCollect(c)

RunActivity(t) ==
  \/ DropCommand(t) \/ RunCommand(t) \/ SyncResult(t) \/ AsyncSecondAck(t)
  \/ EndCallback(t) \/ Wake(t)

Worker == (\E t \in Threads : Publish(t)) \/ FindActivity \/ FindThread \/ Deliver

Timer == TimerCommand \/ Expire \/ (\E e \in due : Fire(e))

Next ==
  \/ \E c \in Callers : CallerStep(c) \/ \E k \in Kinds : Call(c, k)
  \/ \E t \in Threads : RunActivity(t) \/ Sleep(t)
  \/ Worker
  \/ \E a \in Acts, k \in ReplyKinds : Reply(a, k)
  \/ Timer

Spec == Init /\ [][Next]_vars

(* The main pthread, the worker and the timer pthread keep running, and    *)
(* libtask's ready queue is first in, first out: a task that can go on     *)
(* does.  Callers need not call, and J nodes need not answer.              *)
Fairness ==
  /\ \A c \in Callers : WF_vars(CallerStep(c))
  /\ \A t \in Threads : WF_vars(RunActivity(t))
  /\ WF_vars(Worker)
  /\ WF_vars(Timer)

FairSpec == Spec /\ Fairness

(***************************************************************************)
(* Properties                                                              *)
(***************************************************************************)

TableOK ==
  /\ jindx \in [Threads -> Acts \cup {0}]
  /\ jcounter \in 1..(MaxActs + 1)
  /\ alist \subseteq Acts
  /\ kind \in [Acts -> AllKinds \cup {"none"}]

QueuesOK ==
  /\ inq \in [Threads -> Seq(Messages)]
  /\ outq \in [Threads -> Seq(Acts)]
  /\ resultq \in [Threads -> Seq(Results)]

WorkerOK ==
  /\ worker \in WorkerStates
  /\ deviceinq \in Seq(Replies)
  /\ published \subseteq Acts
  /\ replies \in 0..MaxReplies

TimerOK ==
  /\ timerqueue \in Seq(TimerCommands)
  /\ armed \subseteq Events
  /\ due \subseteq armed

CallsOK ==
  /\ TableOK /\ QueuesOK
  /\ run \in [Threads -> RunStates]
  /\ task \in [Callers -> TaskStates]
  /\ WorkerOK /\ TimerOK
  /\ fault \in BOOLEAN

HistoryOK == misled \cup robbed \cup hijacked \subseteq Acts

TypeOK == CallsOK /\ HistoryOK

Pool == INSTANCE ThreadPool
  WITH Threads <- Threads, MaxActs <- MaxActs, jindx <- jindx, jcounter <- jcounter

(* Whatever callers, replies and timeouts do, the threads are handed out   *)
(* and given back as ThreadPool says (activity_new, run_activity).         *)
ImplementsThreadPool == Pool!Spec

(* Two threads never serve the same activity, so athread_get's first match *)
(* is the only one.                                                        *)
OneThreadPerActivity == Pool!OneThreadPerActivity

(* With commands q queued for the timer pthread and events E armed, the    *)
(* event of activity a on thread t will be armed once the queue is empty.  *)
ArmedAfter(q, E, a, t) ==
  \/ \E i \in 1..Len(q) :
       /\ q[i] = SetTimer(a, t)
       /\ \A j \in i+1..Len(q) : q[j] # ClearTimer(a)
  \/ /\ [act |-> a, thr |-> t] \in E
     /\ \A j \in 1..Len(q) : q[j] # ClearTimer(a)

WillBeArmed(a, t) == ArmedAfter(timerqueue, armed, a, t)

(* A timer that is not being cancelled belongs to the activity its thread  *)
(* serves now: whoever ends an attempt has queued the cancellation before  *)
(* the thread can be reused (jam_clear_timer in run_activity and in the    *)
(* runners).  Excepted is a call whose thread ran a local function that a  *)
(* stale command had kept from running for its own activity: nobody clears *)
(* its timer (activity.c:292-297).                                         *)
TimersFollowThreads ==
  \A a \in Acts, t \in Threads : WillBeArmed(a, t) => jindx[t] = a \/ a \in hijacked

WaitsFor(c, a) == task[c].pc = "wait" /\ task[c].kind = "sync" /\ task[c].act = a
Holds(q, a) == \E i \in DOMAIN q : q[i].act = a
Unlucky(a) == fault \/ a \in robbed \/ a \in hijacked

(* The thread a sync call was sent on still works for it, or its own       *)
(* result is there: run_activity pushes one on every path that gives up    *)
(* the thread.  The exceptions: another caller on the same resultq has     *)
(* taken it (the thread goes idle before its runner wakes up), or the      *)
(* thread has run a local function instead; or the process is gone.        *)
NoForgottenSyncCaller ==
  \A c \in Callers, a \in Acts :
    WaitsFor(c, a) => \/ jindx[task[c].thr] = a
                      \/ Holds(resultq[task[c].thr], a)
                      \/ Unlucky(a)

(* A sync call comes back, with or without a result, even when no J node   *)
(* ever answers and whatever other calls do on its resultq (the timers of  *)
(* jam_sync_runner and run_activity), with the same exceptions.            *)
SyncCallReturns ==
  \A a \in Acts :
    (\E c \in Callers : WaitsFor(c, a)) ~> (\A c \in Callers : ~WaitsFor(c, a)) \/ Unlucky(a)

(* A thread with nothing to do, and no caller waiting for what it does, is *)
(* idle.  Two things shrink the pool: a call that finds no machine         *)
(* (jamasync.c:58-60), and a caller that left with the result of another   *)
(* call and cleared the timer of its own (jamsync.c:143, jamasync.c:125).  *)
Abandoned(t) ==
  /\ run[t].pc = "top" /\ inq[t] = <<>>
  /\ \A c \in Callers : task[c].pc = "wait" => task[c].act # jindx[t]
PoolIsWholeAgain ==
  \A t \in Threads :
    Abandoned(t) => jindx[t] = 0 \/ kind[jindx[t]] = "none" \/ jindx[t] \in misled
=============================================================================
