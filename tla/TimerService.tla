---------------------------- MODULE TimerService ----------------------------
(***************************************************************************)
(* What the timer of jamlib promises to the activities that wait on it,    *)
(* without the array it keeps its events in.                               *)
(*                                                                         *)
(* A client asks for an event, waits until the event or something else     *)
(* wakes it and then withdraws what it asked for.  The requests travel     *)
(* through a queue; the timer serves them one at a time and lets time pass *)
(* only while no request is waiting for it.                                *)
(*                                                                         *)
(* This is the abstract specification; TimerTable refines it.              *)
(***************************************************************************)
EXTENDS Naturals, Sequences

CONSTANTS
  Clients,   \* the activities that set timers, one at a time each
  Periodic,  \* those that ask for a repeated event and never withdraw it
  MaxTicks,  \* bound: the longest time asked for, in periods of 100 ms
  MaxQueue   \* bound: requests a client may find before its own in the queue

VARIABLES
  client,  \* what each client does
  queue,   \* requests under way (timerqueue)
  armed,   \* the events the timer will fire
  silent   \* the timer has found no request for 100 ms

serviceVars == <<client, queue, armed, silent>>

Events == [tag : Clients, timeoutval : 1..MaxTicks, timeleft : 1..MaxTicks,
           repeated : BOOLEAN]

Event(c, n) == [tag |-> c, timeoutval |-> n, timeleft |-> n, repeated |-> c \in Periodic]
Add(c, n) == [op |-> "ADDEVENT", ev |-> Event(c, n)]
Del(c) == [op |-> "DELEVENT", tag |-> c]

Init ==
  /\ client = [c \in Clients |-> "idle"]
  /\ queue = <<>>
  /\ armed = {}
  /\ silent = FALSE

(* A client's part: it sets, is woken by something else, and clears.       *)
Set(c, n) ==
  /\ client[c] = "idle"
  /\ Len(queue) < MaxQueue
  /\ client' = [client EXCEPT ![c] = "waiting"]
  /\ queue' = Append(queue, Add(c, n))
  /\ UNCHANGED <<armed, silent>>

Answered(c) ==
  /\ client[c] = "waiting"
  /\ c \notin Periodic
  /\ client' = [client EXCEPT ![c] = "woken"]
  /\ UNCHANGED <<queue, armed, silent>>

Clear(c) ==
  /\ client[c] = "woken"
  /\ Len(queue) < MaxQueue
  /\ client' = [client EXCEPT ![c] = "idle"]
  /\ queue' = Append(queue, Del(c))
  /\ UNCHANGED <<armed, silent>>

(* The timer's part: it serves the oldest request, or lets 100 ms pass.    *)
Arm ==
  /\ ~silent
  /\ queue # <<>>
  /\ Head(queue).op = "ADDEVENT"
  /\ armed' = armed \cup {Head(queue).ev}
  /\ queue' = Tail(queue)
  /\ UNCHANGED <<client, silent>>

Disarm ==
  /\ ~silent
  /\ queue # <<>>
  /\ Head(queue).op = "DELEVENT"
  /\ armed' = {e \in armed : e.tag # Head(queue).tag}
  /\ queue' = Tail(queue)
  /\ UNCHANGED <<client, silent>>

Silence ==
  /\ ~silent
  /\ queue = <<>>
  /\ silent' = TRUE
  /\ UNCHANGED <<client, queue, armed>>

Expires(e) == e.timeleft = 1
Aged(e) == [e EXCEPT !.timeleft = IF Expires(e) THEN e.timeoutval ELSE e.timeleft - 1]

(* Who is woken when the events of E fire: a repeated event does not end   *)
(* its client's wait.                                                      *)
Woken(E) == [c \in Clients |->
  IF client[c] = "waiting" /\ (\E e \in E : e.tag = c /\ Expires(e) /\ ~e.repeated)
  THEN "woken" ELSE client[c]]

Elapse ==
  /\ silent
  /\ silent' = FALSE
  /\ armed' = {Aged(e) : e \in {x \in armed : x.repeated \/ ~Expires(x)}}
  /\ client' = Woken(armed)
  /\ UNCHANGED queue

Next ==
  \/ \E c \in Clients : Answered(c) \/ Clear(c) \/ \E n \in 1..MaxTicks : Set(c, n)
  \/ Arm \/ Disarm \/ Silence \/ Elapse

Spec == Init /\ [][Next]_serviceVars
=============================================================================
