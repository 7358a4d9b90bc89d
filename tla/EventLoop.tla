------------------------------- MODULE EventLoop -------------------------------
(***************************************************************************)
(* Requests from J nodes on their way to an activity thread: the worker    *)
(* pthread takes them from the inbound queue of each level, admits them    *)
(* and puts them on globalinq (jwork_process_device, _fog and _cloud);     *)
(* jam_event_loop, a task of the main pthread, takes them from there and   *)
(* creates their activities.                                               *)
(*                                                                         *)
(* globalinq (pushqueue.c) is two queues with a semaphore each: requests   *)
(* go to the low one, SYNCSTART, the signal that starts a REXEC-SYN        *)
(* everywhere at once, to the high one.  Both ways of taking from it first *)
(* wait for a token of one semaphore and then poll both queues.            *)
(*                                                                         *)
(* What follows on the activity thread is in RemoteCall (the "remote"      *)
(* kind); here an activity is a busy thread.                               *)
(***************************************************************************)
EXTENDS Admission, FiniteSets

CONSTANTS
  Levels,      \* connected J nodes: a subset of {"device", "fog", "cloud"}
  MsgKinds,    \* what they send: a subset of {"ASY", "SYN", "GO"}, GO for SYNCSTART
  NumThreads,  \* size of the thread pool
  MaxMsgs      \* bound: messages the J nodes send in one behaviour

NoAct == "__"  \* the id of a SYNCSTART
GO == [kind |-> "GO", act |-> NoAct]
Requests == [kind : MsgKinds \cap {"ASY", "SYN"}, act : Acts]
Messages == Requests \cup (IF "GO" \in MsgKinds THEN {GO} ELSE {})

ASSUME EventLoopAssumption ==
  /\ NoAct \notin Acts
  /\ Levels \subseteq {"device", "fog", "cloud"}
  /\ MsgKinds \subseteq {"ASY", "SYN", "GO"}
  /\ NumThreads \in Nat \ {0}
  /\ MaxMsgs \in Nat

VARIABLES
  inq,        \* deviceinq, foginq, cloudinq
  arrived,    \* messages sent so far
  worker,     \* "poll", or the semaphore it is about to signal
  lqueue, hqueue, sem, goSem,  \* globalinq
  loop,       \* jam_event_loop: where it waits, its command, its attempt at a
              \* thread
  busy,       \* activity threads in use
  fault,      \* a NULL pointer was dereferenced: the process is gone
  \* history
  admitted,   \* commands of each id put on globalinq
  started,    \* commands of each id given to an activity thread
  lost        \* commands of each id for which no thread was found

queueVars == <<lqueue, hqueue, sem, goSem>>
loopVars == <<loop, busy, fault, started, lost>>
workerVars == <<inq, arrived, worker, admitted>>
vars == <<workerVars, queueVars, loopVars, admissionVars>>

Nothing == [kind |-> "none", act |-> NoAct]
Waiting == [pc |-> "wait", cmd |-> Nothing, try |-> 0]

Init ==
  /\ AdmissionInit
  /\ inq = [l \in Levels |-> <<>>]
  /\ arrived = 0
  /\ worker = "poll"
  /\ lqueue = <<>> /\ hqueue = <<>> /\ sem = 0 /\ goSem = 0
  /\ loop = Waiting
  /\ busy = 0
  /\ fault = FALSE
  /\ admitted = [a \in Acts |-> 0]
  /\ started = [a \in Acts |-> 0]
  /\ lost = [a \in Acts |-> 0]

(***************************************************************************)
(* The worker pthread                                                      *)
(***************************************************************************)

(* A J node sends a request or a SYNCSTART (jwork_msg_arrived); any level  *)
(* may relay the same request, and SYNCSTART goes to every device,         *)
(* expected or not.                                                        *)
Arrive(l, m) ==
  /\ arrived < MaxMsgs
  /\ arrived' = arrived + 1
  /\ inq' = [inq EXCEPT ![l] = Append(@, m)]
  /\ UNCHANGED <<worker, admitted, queueVars, loopVars, admissionVars>>

Incoming(l) == Head(inq[l])

(* The worker takes the next message of a level.                           *)
Taken(l) ==
  /\ ~fault
  /\ worker = "poll"
  /\ inq[l] # <<>>
  /\ inq' = [inq EXCEPT ![l] = Tail(@)]
  /\ UNCHANGED <<arrived, sem, goSem, loopVars>>

Sheds(l, draw) == l = "device" /\ Incoming(l).kind = "ASY" /\ overflow_detect(draw)

(* An overflow, or a request let in before: nothing is sent back.          *)
Discard(l) ==
  /\ Taken(l)
  /\ Incoming(l) # GO
  /\ Cached(Incoming(l).act) \/ \E draw \in Draws : Sheds(l, draw)
  /\ UNCHANGED <<worker, admitted, lqueue, hqueue, admissionVars>>

(* The request's condition is false: jwork_send_nak.                       *)
Refuse(l) ==
  /\ Taken(l)
  /\ Incoming(l) # GO
  /\ ~Cached(Incoming(l).act)
  /\ \E draw \in Draws : ~Sheds(l, draw)
  /\ Remember(Incoming(l).act)
  /\ UNCHANGED <<worker, admitted, lqueue, hqueue>>

(* p2queue_enq_low, its first half.                                        *)
Admit(l) ==
  /\ Taken(l)
  /\ Incoming(l) # GO
  /\ ~Cached(Incoming(l).act)
  /\ \E draw \in Draws : ~Sheds(l, draw)
  /\ Remember(Incoming(l).act)
  /\ lqueue' = Append(lqueue, Incoming(l))
  /\ admitted' = [admitted EXCEPT ![Incoming(l).act] = @ + 1]
  /\ worker' = "sem"
  /\ UNCHANGED hqueue

(* p2queue_enq_high, its first half.                                       *)
Relay(l) ==
  /\ Taken(l)
  /\ Incoming(l) = GO
  /\ hqueue' = Append(hqueue, GO)
  /\ worker' = "goSem"
  /\ UNCHANGED <<admitted, lqueue, admissionVars>>

Signal_lost ==  \* mutant: the low queue's reader is not woken up
  /\ ~fault
  /\ worker # "poll"
  /\ worker' = "poll"
  /\ sem' = sem
  /\ goSem' = IF worker = "goSem" THEN goSem + 1 ELSE goSem
  /\ UNCHANGED <<inq, arrived, admitted, lqueue, hqueue, loopVars, admissionVars>>

Signal_both ==  \* mutant: a SYNCSTART wakes up both readers
  /\ ~fault
  /\ worker # "poll"
  /\ worker' = "poll"
  /\ sem' = sem + 1
  /\ goSem' = IF worker = "goSem" THEN goSem + 1 ELSE goSem
  /\ UNCHANGED <<inq, arrived, admitted, lqueue, hqueue, loopVars, admissionVars>>

(* thread_signal, the other half of both.                                  *)
Signal ==
  /\ ~fault
  /\ worker # "poll"
  /\ worker' = "poll"
  /\ sem' = IF worker = "sem" THEN sem + 1 ELSE sem
  /\ goSem' = IF worker = "goSem" THEN goSem + 1 ELSE goSem
  /\ UNCHANGED <<inq, arrived, admitted, lqueue, hqueue, loopVars, admissionVars>>

(***************************************************************************)
(* jam_event_loop                                                          *)
(***************************************************************************)

(* activity_new finds an idle thread for command m and the command goes to *)
(* its inq; a REXEC-SYN first waits for its start time.  Without a thread  *)
(* it sleeps 10 ms.                                                        *)
Start(m) ==
  /\ busy < NumThreads
  /\ busy' = busy + 1
  /\ loop' = Waiting
  /\ started' = IF m = GO THEN started ELSE [started EXCEPT ![m.act] = @ + 1]
  /\ UNCHANGED <<lost, fault>>

Delay(m, try) ==
  /\ busy = NumThreads
  /\ loop' = [pc |-> "delay", cmd |-> m, try |-> try]
  /\ UNCHANGED <<busy, started, lost, fault>>

Create(m) == Start(m) \/ Delay(m, 1)

(* The third failure: a REXEC-ASY, or a SYNCSTART in its place, is dropped.*)
(* The REXEC-SYN arm dereferences the missing activity.                    *)
GiveUp(m) ==
  /\ NoThreadFound
  /\ loop' = Waiting
  /\ fault' = (m.kind = "SYN")
  /\ lost' = IF m = GO THEN lost ELSE [lost EXCEPT ![m.act] = @ + 1]
  /\ UNCHANGED <<busy, started>>

(* task_wait in p2queue_deq and p2queue_deq_high takes a token ...         *)
TakeToken ==
  /\ ~fault
  /\ \/ loop.pc = "wait" /\ sem > 0 /\ sem' = sem - 1 /\ UNCHANGED goSem
        /\ loop' = [loop EXCEPT !.pc = "poll"]
     \/ loop.pc = "go" /\ goSem > 0 /\ goSem' = goSem - 1 /\ UNCHANGED sem
        /\ loop' = [loop EXCEPT !.pc = "pollgo"]
  /\ UNCHANGED <<lqueue, hqueue, busy, fault, started, lost, workerVars, admissionVars>>

(* ... and nn_poll prefers the high queue.  A command whose seventh letter *)
(* is an A gets an activity, a REXEC-ASY as well as a SYNCSTART; a         *)
(* REXEC-SYN makes the device say READY and wait for the SYNCSTART.        *)
PollQueues ==
  LET high == hqueue # <<>>
      m == IF high THEN Head(hqueue) ELSE Head(lqueue)
  IN  /\ ~fault
      /\ loop.pc = "poll"
      /\ hqueue' = IF high THEN Tail(hqueue) ELSE hqueue
      /\ lqueue' = IF high \/ lqueue = <<>> THEN lqueue ELSE Tail(lqueue)
      /\ IF ~high /\ lqueue = <<>>
         THEN loop' = Waiting /\ UNCHANGED <<busy, fault, started, lost>>
         ELSE IF m.kind = "SYN"
         THEN /\ loop' = [pc |-> "go", cmd |-> m, try |-> 0]
              /\ UNCHANGED <<busy, fault, started, lost>>
         ELSE Create(m)
      /\ UNCHANGED <<sem, goSem, workerVars, admissionVars>>

PollStart_greedy ==  \* mutant: it takes whatever is there
  /\ ~fault
  /\ loop.pc = "pollgo"
  /\ hqueue' = IF hqueue # <<>> THEN Tail(hqueue) ELSE hqueue
  /\ lqueue' = IF hqueue = <<>> /\ lqueue # <<>> THEN Tail(lqueue) ELSE lqueue
  /\ Create(loop.cmd)
  /\ UNCHANGED <<sem, goSem, workerVars, admissionVars>>

(* p2queue_deq_high after its token: the high queue's SYNCSTART, or        *)
(* nothing when only the low queue has something.                          *)
PollStart ==
  /\ ~fault
  /\ loop.pc = "pollgo"
  /\ hqueue' = IF hqueue # <<>> THEN Tail(hqueue) ELSE hqueue
  /\ Create(loop.cmd)
  /\ UNCHANGED <<lqueue, sem, goSem, workerVars, admissionVars>>

(* activity_new wakes up after its 10 ms.                                  *)
Retry ==
  /\ ~fault
  /\ loop.pc = "delay"
  /\ \/ /\ loop.try < 3
        /\ Start(loop.cmd) \/ Delay(loop.cmd, loop.try + 1)
        /\ UNCHANGED admissionVars
     \/ loop.try = 3 /\ GiveUp(loop.cmd)
  /\ UNCHANGED <<workerVars, queueVars>>

(* The main pthread's other tasks run when the event loop yields: local    *)
(* calls take threads, and threads become idle, with or without freeing an *)
(* activity.                                                               *)
OtherTasks ==
  /\ ~fault
  /\ loop.pc \in {"wait", "go", "delay"}
  /\ \/ busy < NumThreads /\ busy' = busy + 1 /\ UNCHANGED admissionVars
     \/ busy > 0 /\ busy' = busy - 1 /\ (activity_free \/ UNCHANGED admissionVars)
  /\ UNCHANGED <<loop, fault, started, lost, workerVars, queueVars>>

(* The three inbound queues, each with a handler of its own.  They differ   *)
(* in what Sheds says, and in what Connection and RemoteCall model.         *)
Handle(l) == l \in Levels /\ (Discard(l) \/ Refuse(l) \/ Admit(l) \/ Relay(l))

jwork_process_device == Handle("device")

jwork_process_fog == Handle("fog")

jwork_process_cloud == Handle("cloud")

Worker == Signal \/ jwork_process_device \/ jwork_process_fog \/ jwork_process_cloud

EventLoop == TakeToken \/ PollQueues \/ PollStart \/ Retry

Next ==
  \/ \E l \in Levels, m \in Messages : Arrive(l, m)
  \/ Worker
  \/ EventLoop
  \/ OtherTasks

Spec == Init /\ [][Next]_vars

(* The worker and the main pthread keep running, and a task that can go on *)
(* is scheduled (libtask's ready queue is first in, first out).            *)
FairSpec == Spec /\ WF_vars(Worker) /\ WF_vars(EventLoop)

(***************************************************************************)
(* Properties                                                              *)
(***************************************************************************)

LoopStates == [pc : {"wait", "poll", "go", "pollgo", "delay"}, cmd : Messages \cup {Nothing},
               try : 0..3]

TypeOK ==
  /\ inq \in [Levels -> Seq(Messages)]
  /\ arrived \in 0..MaxMsgs
  /\ worker \in {"poll", "sem", "goSem"}
  /\ lqueue \in Seq(Requests) /\ hqueue \in Seq(Messages \cap {GO})
  /\ sem \in Nat /\ goSem \in Nat
  /\ loop \in LoopStates
  /\ busy \in 0..NumThreads
  /\ fault \in BOOLEAN
  /\ admitted \in [Acts -> Nat] /\ started \in [Acts -> Nat] /\ lost \in [Acts -> Nat]

(* Tokens given out or about to be, and the one the event loop polls for.  *)
Tokens == sem + goSem + (IF worker = "poll" THEN 0 ELSE 1)
                      + (IF loop.pc \in {"poll", "pollgo"} THEN 1 ELSE 0)

(* Every token stands for a command that is queued: whoever gets one finds *)
(* something, and the 20 s poll of p2queue_deq, which would block every    *)
(* task of the main pthread, never runs out.                               *)
TokensAreCovered == Tokens <= Len(lqueue) + Len(hqueue)
PollFindsSomething == loop.pc \in {"poll", "pollgo"} => Len(lqueue) + Len(hqueue) > 0

Queued(a) == Cardinality({i \in 1..Len(lqueue) : lqueue[i].act = a})
InHand(a) == IF loop.cmd.act = a THEN 1 ELSE 0

(* An admitted command is queued, in the event loop's hands, given to a    *)
(* thread once, or dropped for want of one: no path of the event loop      *)
(* swallows a request or runs it twice.                                    *)
NothingSwallowed ==
  \A a \in Acts : admitted[a] = Queued(a) + InHand(a) + started[a] + lost[a]

(* While no SYNCSTART comes, an admitted command is started or dropped in  *)
(* the end, unless the event loop has begun its wait for one, which has no *)
(* limit (jam.c:209): no token is missing for any command.                 *)
AllHandled ==
  [](hqueue = <<>>) =>
    \A a \in Acts : admitted[a] > started[a] + lost[a]
                    ~> admitted[a] = started[a] + lost[a] \/ loop.pc = "go"
=============================================================================
