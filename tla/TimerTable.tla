----------------------------- MODULE TimerTable -----------------------------
(***************************************************************************)
(* The timer of timer.c: the table of its events and the pthread that      *)
(* serves the queue.  A client is an activity that sets a timer, waits on  *)
(* its inq and clears the timer (jsleep, the call stubs, run_activity).    *)
(*                                                                         *)
(* The events array has slots 0..MaxEvents-1.  The three loops of          *)
(* timer_delete_records_with_tag are steps of their own: what they leave   *)
(* behind is what the next command starts from.  Only the timer pthread    *)
(* touches the array.  Time is counted in the periods of 100 ms that       *)
(* timer_decrement_and_fire_events subtracts.                              *)
(***************************************************************************)
EXTENDS Naturals, Integers, Sequences, FiniteSets

CONSTANTS Clients, Periodic, MaxTicks, MaxQueue,  \* as in TimerService
          MaxEvents, \* slots of the events array (MAX_EVENTS)
          NULL       \* an empty slot

(* Every activity thread has at most one timer (32 threads, 256 slots).    *)
ASSUME TimerAssumption ==
  /\ IsFiniteSet(Clients)
  /\ Periodic \subseteq Clients
  /\ MaxTicks \in Nat
  /\ MaxQueue \in Nat
  /\ MaxEvents \in Nat /\ Cardinality(Clients) < MaxEvents
  /\ NULL \notin [tag : Clients, timeoutval : 1..MaxTicks,
                     timeleft : 1..MaxTicks, repeated : BOOLEAN]

VARIABLES
  client,        \* "idle", "waiting" on its inq or "woken"
  queue,         \* tmr->timerqueue
  events,        \* tmr->events
  numevents,     \* tmr->numevents
  pc,            \* where the timer pthread is
  i, j           \* the cursors of the compaction

tableVars == <<events, numevents, i, j>>
vars == <<client, queue, events, numevents, pc, i, j>>

Slots == 0..(MaxEvents - 1)
Live == {events[k] : k \in {x \in Slots : events[x] # NULL}}

Service == INSTANCE TimerService WITH armed <- Live, silent <- (pc = "tick")

Init ==
  /\ client = [c \in Clients |-> "idle"]
  /\ queue = <<>>
  /\ events = [k \in Slots |-> NULL]
  /\ numevents = 0
  /\ pc = "poll"
  /\ i = 0 /\ j = 0

(***************************************************************************)
(* Clients                                                                 *)
(***************************************************************************)

(* jam_set_timer: timer_add_event makes the event and queues its address.  *)
jam_set_timer(c, n) ==
  /\ client[c] = "idle"
  /\ Len(queue) < MaxQueue
  /\ client' = [client EXCEPT ![c] = "waiting"]
  /\ queue' = Append(queue, Service!Add(c, n))
  /\ UNCHANGED <<tableVars, pc>>

(* Another message reaches the client's inq first. *)
Answered(c) ==
  /\ client[c] = "waiting"
  /\ c \notin Periodic
  /\ client' = [client EXCEPT ![c] = "woken"]
  /\ UNCHANGED <<queue, tableVars, pc>>

jam_clear_timer_lazy(c) ==  \* mutant: the event is left to expire
  /\ client[c] = "woken"
  /\ client' = [client EXCEPT ![c] = "idle"]
  /\ UNCHANGED <<queue, tableVars, pc>>

jam_clear_timer(c) ==
  /\ client[c] = "woken"
  /\ Len(queue) < MaxQueue
  /\ client' = [client EXCEPT ![c] = "idle"]
  /\ queue' = Append(queue, Service!Del(c))
  /\ UNCHANGED <<tableVars, pc>>

(***************************************************************************)
(* timer_loop                                                              *)
(***************************************************************************)

(* s is the first free slot at or after k; the table always has one        *)
(* (NoOverrun).                                                            *)
IsFirstFree(k, s) ==
  /\ s \in Slots /\ s >= k /\ events[s] = NULL
  /\ \A x \in Slots : x >= k /\ x < s => events[x] # NULL

(* s is the last used slot at or before k.  Nothing in the code ends this  *)
(* search at slot 0: in an empty table it reads events[-1], outside the    *)
(* array, which is where timertype_t has numevents.  NoOverrun is about    *)
(* what it finds there.                                                    *)
IsLastUsed(k, s) ==
  /\ s \in Slots \cup {-1} /\ s <= k
  /\ s \in Slots => events[s] # NULL
  /\ \A x \in Slots : x <= k /\ x > s => events[x] = NULL

Insert_uncounted ==  \* mutant: the count is not raised for a slot at the end
  /\ pc = "poll"
  /\ queue # <<>> /\ Head(queue).op = "ADDEVENT"
  /\ queue' = Tail(queue)
  /\ \E s \in Slots :
       /\ IsFirstFree(0, s)
       /\ events' = [events EXCEPT ![s] = Head(queue).ev]
  /\ UNCHANGED <<client, numevents, pc, i, j>>

(* ADDEVENT: timer_insert_event_record takes the first free slot below     *)
(* numevents, or the next one.                                             *)
Insert ==
  /\ pc = "poll"
  /\ queue # <<>> /\ Head(queue).op = "ADDEVENT"
  /\ queue' = Tail(queue)
  /\ \E s \in Slots :
       /\ IsFirstFree(0, s)
       /\ events' = [events EXCEPT ![s] = Head(queue).ev]
       /\ numevents' = IF s < numevents THEN numevents ELSE numevents + 1
  /\ UNCHANGED <<client, pc, i, j>>

(* DELEVENT: timer_delete_records_with_tag frees the events of that tag    *)
(* and starts to compact the table.                                        *)
Delete ==
  /\ pc = "poll"
  /\ queue # <<>> /\ Head(queue).op = "DELEVENT"
  /\ queue' = Tail(queue)
  /\ events' = [k \in Slots |->
       IF events[k] # NULL /\ events[k].tag = Head(queue).tag THEN NULL ELSE events[k]]
  /\ pc' = "compact"
  /\ i' = 0 /\ j' = numevents
  /\ UNCHANGED <<client, numevents>>

(* One round of the compaction: the last event moves to the first hole.    *)
Compact ==
  /\ pc = "compact"
  /\ IF i < j
       THEN \E a \in Slots, b \in Slots \cup {-1} :
              /\ IsFirstFree(i, a) /\ IsLastUsed(j, b)
              /\ i' = a /\ j' = b
              /\ events' = IF a < b THEN [events EXCEPT ![a] = events[b], ![b] = NULL]
                                    ELSE events
              /\ UNCHANGED pc
       ELSE pc' = "count" /\ UNCHANGED <<events, i, j>>
  /\ UNCHANGED <<client, queue, numevents>>

Count_short ==  \* mutant: the last event is not counted
  /\ pc = "count"
  /\ pc' = "poll"
  /\ \E s \in Slots : IsFirstFree(0, s) /\ numevents' = IF s = 0 THEN 0 ELSE s - 1
  /\ UNCHANGED <<client, queue, events, i, j>>

(* The number of events is where the first hole is now. *)
Count ==
  /\ pc = "count"
  /\ pc' = "poll"
  /\ \E s \in Slots : IsFirstFree(0, s) /\ numevents' = s
  /\ UNCHANGED <<client, queue, events, i, j>>

(* queue_deq_timeout returns NULL after 100 ms without a command.          *)
Timeout ==
  /\ pc = "poll"
  /\ queue = <<>>
  /\ pc' = "tick"
  /\ UNCHANGED <<client, queue, tableVars>>

Fire_hole ==  \* mutant: the loop stops at the first hole
  LET seen == {x \in 0..(numevents - 1) : \A y \in 0..x : events[y] # NULL}
  IN  /\ pc = "tick"
      /\ pc' = "poll"
      /\ events' = [k \in Slots |->
           IF k \notin seen THEN events[k]
           ELSE IF Service!Expires(events[k]) /\ ~events[k].repeated THEN NULL
           ELSE Service!Aged(events[k])]
      /\ client' = Service!Woken({events[k] : k \in seen})
      /\ UNCHANGED <<queue, numevents, i, j>>

(* timer_decrement_and_fire_events: tcallback puts a TIMEOUT in the inq of *)
(* the client; an event fires and is freed, a repeated one starts again.   *)
Fire ==
  /\ pc = "tick"
  /\ pc' = "poll"
  /\ events' = [k \in Slots |->
       IF k >= numevents \/ events[k] = NULL THEN events[k]
       ELSE IF Service!Expires(events[k]) /\ ~events[k].repeated THEN NULL
       ELSE Service!Aged(events[k])]
  /\ client' = Service!Woken({events[k] : k \in {x \in 0..(numevents - 1) : events[x] # NULL}})
  /\ UNCHANGED <<queue, numevents, i, j>>

TimerStep == Insert \/ Delete \/ Compact \/ Count \/ Timeout \/ Fire

Next ==
  \/ \E c \in Clients :
       \/ Answered(c) \/ jam_clear_timer(c)
       \/ \E n \in 1..MaxTicks : jam_set_timer(c, n)
  \/ TimerStep

Spec == Init /\ [][Next]_vars

(* The timer pthread runs for ever, and a task that was woken is scheduled *)
(* in the end; nobody is obliged to answer or to set a timer.              *)
FairSpec == Spec /\ WF_vars(TimerStep) /\ \A c \in Clients : WF_vars(jam_clear_timer(c))
-----------------------------------------------------------------------------
Commands == [op : {"ADDEVENT"}, ev : Service!Events] \cup [op : {"DELEVENT"}, tag : Clients]

TypeOK ==
  /\ client \in [Clients -> {"idle", "waiting", "woken"}]
  /\ queue \in Seq(Commands)
  /\ events \in [Slots -> Service!Events \cup {NULL}]
  /\ numevents \in 0..MaxEvents
  /\ pc \in {"poll", "tick", "compact", "count"}
  /\ i \in Slots /\ j \in Slots \cup {-1}

(* Insertion, compaction and count have no test against either end of the  *)
(* array.  They never reach the upper one, behind which is the pointer to  *)
(* the queue: the table holds no more events than there are clients.  The  *)
(* search for the last event does leave the array at the lower one, but by *)
(* one word only and only when no event is left: numevents, which it reads *)
(* there, is not yet 0 then, and the search ends.                          *)
NoOverrun ==
  /\ numevents <= Cardinality(Clients) /\ j <= Cardinality(Clients)
  /\ pc = "compact" /\ j = -1 => numevents > 0 /\ \A k \in Slots : events[k] = NULL

(* No event sits where the firing loop does not look, above numevents:     *)
(* whatever insertions, deletions and expiries came before, the compaction *)
(* and the count that follows leave no event behind.                       *)
NothingOutOfSight == \A k \in Slots : k >= numevents => events[k] = NULL

(* An activity has one event at most: the DELEVENT of its last timer is    *)
(* ahead of the ADDEVENT of the next one in the queue, even when the timer *)
(* fired while it was under way.                                           *)
OneEventPerClient ==
  \A a, b \in Slots :
    events[a] # NULL /\ events[b] # NULL /\ events[a].tag = events[b].tag => a = b

(* The table with its holes, moves and recounts is a set of events to its  *)
(* clients: no command loses, doubles or revives one.                      *)
TableIsAService == Service!Spec

(* Once the timer queue stays empty every activity that waits for a timer  *)
(* is woken.  The condition is needed: time passes only in 100 ms without  *)
(* a command, and calls that set and clear timers all the time stop it.    *)
WokenOnceQuiet ==
  <>[](queue = <<>>) =>
    \A c \in Clients \ Periodic : [](client[c] = "waiting" => <>(client[c] # "waiting"))
=============================================================================
