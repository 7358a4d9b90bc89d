------------------------------ MODULE ThreadPool ------------------------------
(***************************************************************************)
(* What the activity table of jamlib promises about its activity threads.  *)
(*                                                                         *)
(* A fixed set of cooperative threads is created once and reused.  Each    *)
(* thread carries in jindx the number of the activity it serves, 0 when it *)
(* serves none.  Activity numbers come from a counter and are never handed *)
(* out twice, so a number names one activity for the life of the program.  *)
(*                                                                         *)
(* This is the abstract specification; RemoteCall refines it.              *)
(***************************************************************************)
EXTENDS Naturals

CONSTANTS
  Threads,  \* the activity threads (MAX_ACT_THREADS of them in the code)
  MaxActs   \* bound on the activities created in one behaviour

VARIABLES
  jindx,    \* the activity each thread serves, 0 for none
  jcounter  \* the number the next activity gets

poolVars == <<jindx, jcounter>>

Acts == 1..MaxActs

Init ==
  /\ jindx = [t \in Threads |-> 0]
  /\ jcounter = 1

(* A new activity that found an idle thread at once. *)
Create(t) ==
  /\ jcounter <= MaxActs
  /\ jindx[t] = 0
  /\ jindx' = [jindx EXCEPT ![t] = jcounter]
  /\ jcounter' = jcounter + 1

(* A new activity that found no idle thread: its number is used up. *)
Reserve ==
  /\ jcounter <= MaxActs
  /\ jcounter' = jcounter + 1
  /\ UNCHANGED jindx

(* An activity numbered earlier gets a thread that has become idle. *)
Assign(t, a) ==
  /\ a \in Acts
  /\ a < jcounter
  /\ \A u \in Threads : jindx[u] # a
  /\ jindx[t] = 0
  /\ jindx' = [jindx EXCEPT ![t] = a]
  /\ UNCHANGED jcounter

(* The thread has done its activity's work. *)
Release(t) ==
  /\ jindx' = [jindx EXCEPT ![t] = 0]
  /\ UNCHANGED jcounter

Next ==
  \/ Reserve
  \/ \E t \in Threads :
       \/ Create(t)
       \/ Release(t)
       \/ \E a \in Acts : Assign(t, a)

Spec == Init /\ [][Next]_poolVars

(* The values the two variables take: a thread serves nothing or an        *)
(* activity that was numbered (activity.c: jindx, jcounter).               *)
PoolTypeOK ==
  /\ jcounter \in 1..(MaxActs + 1)
  /\ jindx \in [Threads -> 0..(jcounter - 1)]

(* No two threads serve the same activity: a message resolved to "the"     *)
(* thread of an activity has one destination (athread_get stops at the     *)
(* first match).                                                           *)
OneThreadPerActivity ==
  \A t, u \in Threads : jindx[t] # 0 /\ jindx[t] = jindx[u] => t = u

(* A thread in use is never handed to another activity: it goes back to 0  *)
(* first (run_activity's last assignment).                                 *)
ThreadNotStolen ==
  [][\A t \in Threads : jindx'[t] # jindx[t] => jindx[t] = 0 \/ jindx'[t] = 0]_poolVars
=============================================================================
