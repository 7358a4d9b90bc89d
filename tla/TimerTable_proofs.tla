------------------------- MODULE TimerTable_proofs -------------------------
(***************************************************************************)
(* The table of timer.c, for any set of clients, any number of slots above *)
(* their number and any bound on times and requests: it stays within its   *)
(* slots, keeps no event where it is not seen, and implements              *)
(* TimerService.                                                           *)
(***************************************************************************)
EXTENDS TimerTable, TLAPS, FiniteSetTheorems, FunctionTheorems

USE DEF Slots

IsAdd(p, c) == queue[p].op = "ADDEVENT" /\ queue[p].ev.tag = c
IsDel(p, c) == queue[p].op = "DELEVENT" /\ queue[p].tag = c
Positions == DOMAIN queue
HasEvent(c) == \E k \in Slots : events[k] # NULL /\ events[k].tag = c

(* The requests of a client alternate: between two ADDEVENTs of its own,   *)
(* between its event and the next ADDEVENT, and before it is idle, there   *)
(* is a DELEVENT.                                                          *)
AddAfterDel == \A c \in Clients : \A p, q \in Positions :
  p < q /\ IsAdd(p, c) /\ IsAdd(q, c) => \E r \in Positions : p < r /\ r < q /\ IsDel(r, c)
AddAfterEvent == \A c \in Clients : \A q \in Positions :
  IsAdd(q, c) /\ HasEvent(c) => \E r \in Positions : r < q /\ IsDel(r, c)
IdleAfterEvent == \A c \in Clients :
  client[c] = "idle" /\ HasEvent(c) => \E r \in Positions : IsDel(r, c)
IdleAfterAdd == \A c \in Clients : \A p \in Positions :
  client[c] = "idle" /\ IsAdd(p, c) => \E r \in Positions : p < r /\ IsDel(r, c)
Alternate == AddAfterDel /\ AddAfterEvent /\ IdleAfterEvent /\ IdleAfterAdd

(* What the compaction keeps while it runs: no hole before i, nothing      *)
(* behind j, and when the cursors have met the events are a prefix.  The   *)
(* count is as it was before: while the cursors are apart it is not 0.     *)
Compacting ==
  /\ pc = "compact" =>
       /\ \A k \in Slots : k < i => events[k] # NULL
       /\ \A k \in Slots : k > j => events[k] = NULL
       /\ i >= j => \A k \in Slots : k >= i => events[k] = NULL
       /\ j <= numevents
  /\ pc = "count" =>
       /\ \A k \in Slots : k < i => events[k] # NULL
       /\ \A k \in Slots : k >= i => events[k] = NULL

IInv == TypeOK /\ NoOverrun /\ NothingOutOfSight /\ OneEventPerClient /\ Alternate /\ Compacting

(***************************************************************************)
(* Sequences as the queue uses them.                                       *)
(***************************************************************************)

LEMMA Appended ==
  ASSUME NEW S, NEW s \in Seq(S), NEW x \in S
  PROVE  /\ Append(s, x) \in Seq(S)
         /\ DOMAIN Append(s, x) = (DOMAIN s) \cup {Len(s) + 1}
         /\ \A p \in DOMAIN s : Append(s, x)[p] = s[p] /\ p < Len(s) + 1 /\ p \in Nat
         /\ Append(s, x)[Len(s) + 1] = x
         /\ Len(s) + 1 \in Nat
  OBVIOUS

LEMMA Served ==
  ASSUME NEW S, NEW s \in Seq(S), s # <<>>
  PROVE  /\ Tail(s) \in Seq(S)
         /\ Head(s) \in S /\ Head(s) = s[1] /\ 1 \in DOMAIN s
         /\ \A p \in DOMAIN Tail(s) : Tail(s)[p] = s[p + 1] /\ p + 1 \in DOMAIN s
                                     /\ p \in Nat /\ p + 1 > 1
         /\ \A p \in DOMAIN s : p > 1 => p - 1 \in DOMAIN Tail(s) /\ p \in Nat
  OBVIOUS

LEMMA CommandFacts ==
  ASSUME NEW m \in Commands
  PROVE  /\ m.op = "ADDEVENT" => m.ev \in Service!Events /\ m.ev.tag \in Clients /\ m.ev # NULL
         /\ m.op = "DELEVENT" => m.tag \in Clients
         /\ m.op \in {"ADDEVENT", "DELEVENT"}
  BY TimerAssumption DEF Commands, Service!Events

LEMMA RequestsAreCommands ==
  ASSUME NEW c \in Clients
  PROVE  /\ \A n \in 1..MaxTicks : /\ Service!Add(c, n) \in Commands
                                  /\ Service!Add(c, n).op = "ADDEVENT"
                                  /\ Service!Add(c, n).ev.tag = c
         /\ Service!Del(c) \in Commands
         /\ Service!Del(c).op = "DELEVENT" /\ Service!Del(c).tag = c
  BY DEF Commands, Service!Events, Service!Add, Service!Del, Service!Event

(***************************************************************************)
(* The alternation survives every change of the queue.                     *)
(***************************************************************************)

(* A client that is idle sets a timer: its last request was a DELEVENT.    *)
LEMMA SetKeepsOrder ==
  ASSUME TypeOK, Alternate, NEW c \in Clients, NEW n \in 1..MaxTicks, jam_set_timer(c, n)
  PROVE  Alternate'
<1>0. PICK L : L = Len(queue) + 1
  OBVIOUS
<1>1. /\ Positions' = Positions \cup {L}
      /\ \A p \in Positions : queue'[p] = queue[p] /\ p < L /\ p \in Nat
      /\ queue'[L] = Service!Add(c, n) /\ L \in Nat
  BY <1>0, Appended, RequestsAreCommands DEF jam_set_timer, TypeOK, Positions
<1>2. queue'[L].op = "ADDEVENT" /\ queue'[L].ev.tag = c
  BY <1>1, RequestsAreCommands
<1>3. \A d \in Clients, p \in Positions : (IsAdd(p, d)' <=> IsAdd(p, d)) /\ (IsDel(p, d)' <=> IsDel(p, d))
  BY <1>1 DEF IsAdd, IsDel
<1>4. \A d \in Clients : (IsAdd(L, d)' => d = c) /\ ~IsDel(L, d)'
  BY <1>2 DEF IsAdd, IsDel
<1>5. \A d \in Clients : HasEvent(d)' <=> HasEvent(d)
  BY DEF jam_set_timer, tableVars, HasEvent
<1>6. client[c] = "idle" /\ \A d \in Clients : client'[d] = "idle" => d # c /\ client[d] = "idle"
  BY DEF jam_set_timer, TypeOK
<1>7. AddAfterDel'
  <2> SUFFICES ASSUME NEW d \in Clients, NEW p \in Positions', NEW q \in Positions',
                      p < q, IsAdd(p, d)', IsAdd(q, d)'
               PROVE  \E r \in Positions' : p < r /\ r < q /\ IsDel(r, d)'
    BY DEF AddAfterDel
  <2>1. p \in Positions
    BY <1>1
  <2>2. CASE q \in Positions
    BY <1>1, <1>3, <2>1, <2>2 DEF Alternate, AddAfterDel
  <2>3. CASE q = L
    BY <1>1, <1>3, <1>4, <1>6, <2>1, <2>3 DEF Alternate, IdleAfterAdd
  <2>4. QED
    BY <1>1, <2>2, <2>3
<1>8. AddAfterEvent'
  <2> SUFFICES ASSUME NEW d \in Clients, NEW q \in Positions', IsAdd(q, d)', HasEvent(d)'
               PROVE  \E r \in Positions' : r < q /\ IsDel(r, d)'
    BY DEF AddAfterEvent
  <2>1. CASE q \in Positions
    BY <1>1, <1>3, <1>5, <2>1 DEF Alternate, AddAfterEvent
  <2>2. CASE q = L
    BY <1>1, <1>3, <1>4, <1>5, <1>6, <2>2 DEF Alternate, IdleAfterEvent
  <2>3. QED
    BY <1>1, <2>1, <2>2
<1>9. IdleAfterEvent'
  BY <1>1, <1>3, <1>5, <1>6 DEF Alternate, IdleAfterEvent
<1>10. IdleAfterAdd'
  BY <1>1, <1>3, <1>4, <1>6 DEF Alternate, IdleAfterAdd
<1>11. QED
  BY <1>7, <1>8, <1>9, <1>10 DEF Alternate

(* A client that clears its timer puts the DELEVENT behind everything.     *)
LEMMA ClearKeepsOrder ==
  ASSUME TypeOK, Alternate, NEW c \in Clients, jam_clear_timer(c)
  PROVE  Alternate'
<1>0. PICK L : L = Len(queue) + 1
  OBVIOUS
<1>1. /\ Positions' = Positions \cup {L}
      /\ \A p \in Positions : queue'[p] = queue[p] /\ p < L /\ p \in Nat
      /\ queue'[L] = Service!Del(c) /\ L \in Nat
  BY <1>0, Appended, RequestsAreCommands DEF jam_clear_timer, TypeOK, Positions
<1>2. queue'[L].op = "DELEVENT" /\ queue'[L].tag = c
  BY <1>1, RequestsAreCommands
<1>3. \A d \in Clients, p \in Positions : (IsAdd(p, d)' <=> IsAdd(p, d)) /\ (IsDel(p, d)' <=> IsDel(p, d))
  BY <1>1 DEF IsAdd, IsDel
<1>4. \A d \in Clients : ~IsAdd(L, d)' /\ IsDel(L, c)'
  BY <1>2 DEF IsAdd, IsDel
<1>5. \A d \in Clients : HasEvent(d)' <=> HasEvent(d)
  BY DEF jam_clear_timer, tableVars, HasEvent
<1>6. \A d \in Clients : client'[d] = "idle" => d = c \/ client[d] = "idle"
  BY DEF jam_clear_timer, TypeOK
<1>7. AddAfterDel'
  BY <1>1, <1>3, <1>4 DEF Alternate, AddAfterDel
<1>8. AddAfterEvent'
  BY <1>1, <1>3, <1>4, <1>5 DEF Alternate, AddAfterEvent
<1>9. IdleAfterEvent'
  BY <1>1, <1>3, <1>4, <1>5, <1>6 DEF Alternate, IdleAfterEvent
<1>10. IdleAfterAdd'
  <2> SUFFICES ASSUME NEW d \in Clients, NEW p \in Positions', client'[d] = "idle", IsAdd(p, d)'
               PROVE  \E r \in Positions' : p < r /\ IsDel(r, d)'
    BY DEF IdleAfterAdd
  <2>1. p \in Positions /\ IsAdd(p, d)
    BY <1>1, <1>3, <1>4
  <2>2. CASE d = c
    BY <1>1, <1>4, <2>1, <2>2
  <2>3. CASE client[d] = "idle"
    BY <1>1, <1>3, <2>1, <2>3 DEF Alternate, IdleAfterAdd
  <2>4. QED
    BY <1>6, <2>2, <2>3
<1>11. QED
  BY <1>7, <1>8, <1>9, <1>10 DEF Alternate

(* Serving the oldest request moves the others up by one.                  *)
LEMMA Shifted ==
  ASSUME TypeOK, queue # <<>>, queue' = Tail(queue)
  PROVE  /\ \A p \in Positions' : p + 1 \in Positions /\ p \in Nat /\ p + 1 > 1
         /\ \A p \in Positions : p > 1 => p - 1 \in Positions' /\ p \in Nat
         /\ \A p \in Positions', d \in Clients :
              (IsAdd(p, d)' <=> IsAdd(p + 1, d)) /\ (IsDel(p, d)' <=> IsDel(p + 1, d))
         /\ 1 \in Positions /\ Head(queue) = queue[1] /\ Head(queue) \in Commands
         /\ queue' \in Seq(Commands)
         /\ Positions \subseteq Nat /\ \A p \in Positions : p = 1 \/ p > 1
<1>1. queue \in Seq(Commands)
  BY DEF TypeOK
<1>2. QED
  BY <1>1, Served DEF Positions, IsAdd, IsDel

(* The event of a served ADDEVENT is new to the table.                     *)
LEMMA InsertKeepsOrder ==
  ASSUME TypeOK, Alternate, Insert
  PROVE  /\ Alternate'
         /\ Head(queue).ev.tag \in Clients /\ ~HasEvent(Head(queue).ev.tag)
<1>1. queue # <<>> /\ queue' = Tail(queue) /\ client' = client /\ Head(queue).op = "ADDEVENT"
  BY DEF Insert
<1>2. PICK c \in Clients : c = Head(queue).ev.tag
  BY <1>1, Shifted, CommandFacts
<1>3. IsAdd(1, c) /\ \A d \in Clients : ~IsDel(1, d)
  BY <1>1, <1>2, Shifted DEF IsAdd, IsDel
<1>4. ~HasEvent(c)
  BY <1>1, <1>3, Shifted DEF Alternate, AddAfterEvent
<1>5. \A d \in Clients : HasEvent(d)' => HasEvent(d) \/ d = c
  <2>1. PICK s \in Slots : events' = [events EXCEPT ![s] = Head(queue).ev]
    BY DEF Insert
  <2>2. \A k \in Slots : events'[k] = IF k = s THEN Head(queue).ev ELSE events[k]
    BY <2>1 DEF TypeOK
  <2>3. QED
    BY <1>2, <2>2 DEF HasEvent
<1>6. AddAfterDel'
  <2> SUFFICES ASSUME NEW d \in Clients, NEW p \in Positions', NEW q \in Positions',
                      p < q, IsAdd(p, d)', IsAdd(q, d)'
               PROVE  \E r \in Positions' : p < r /\ r < q /\ IsDel(r, d)'
    BY DEF AddAfterDel
  <2>1. /\ p + 1 \in Positions /\ q + 1 \in Positions /\ p \in Nat /\ q \in Nat
        /\ IsAdd(p + 1, d) /\ IsAdd(q + 1, d)
    BY <1>1, Shifted
  <2>2. PICK r \in Positions : p + 1 < r /\ r < q + 1 /\ IsDel(r, d)
    BY <2>1 DEF Alternate, AddAfterDel
  <2>3. r \in Nat /\ r > 1 /\ r - 1 \in Positions' /\ (r - 1) + 1 = r
    BY <1>1, <2>1, <2>2, Shifted
  <2>4. IsDel(r - 1, d)'
    BY <1>1, <2>2, <2>3, Shifted
  <2>5. QED
    BY <2>1, <2>2, <2>3, <2>4
<1>7. AddAfterEvent'
  <2> SUFFICES ASSUME NEW d \in Clients, NEW q \in Positions', IsAdd(q, d)', HasEvent(d)'
               PROVE  \E r \in Positions' : r < q /\ IsDel(r, d)'
    BY DEF AddAfterEvent
  <2>1. q + 1 \in Positions /\ IsAdd(q + 1, d) /\ q \in Nat
    BY <1>1, Shifted
  <2>2. PICK r \in Positions : r < q + 1 /\ IsDel(r, d)
    <3>1. CASE HasEvent(d)
      BY <2>1, <3>1 DEF Alternate, AddAfterEvent
    <3>2. CASE d = c
      BY <1>1, <1>3, <2>1, <3>2, Shifted DEF Alternate, AddAfterDel
    <3>3. QED
      BY <1>5, <3>1, <3>2
  <2>3. r > 1 /\ r - 1 \in Positions' /\ IsDel(r - 1, d)'
    BY <1>1, <1>3, <2>2, Shifted
  <2>4. QED
    BY <1>1, <2>1, <2>2, <2>3, Shifted
<1>8. IdleAfterEvent'
  <2> SUFFICES ASSUME NEW d \in Clients, client'[d] = "idle", HasEvent(d)'
               PROVE  \E r \in Positions' : IsDel(r, d)'
    BY DEF IdleAfterEvent
  <2>1. PICK r \in Positions : IsDel(r, d)
    BY <1>1, <1>3, <1>5, Shifted DEF Alternate, IdleAfterEvent, IdleAfterAdd
  <2>2. r > 1 /\ r - 1 \in Positions'
    BY <1>1, <1>3, <2>1, Shifted
  <2>3. QED
    BY <1>1, <2>1, <2>2, Shifted
<1>9. IdleAfterAdd'
  <2> SUFFICES ASSUME NEW d \in Clients, NEW p \in Positions', client'[d] = "idle", IsAdd(p, d)'
               PROVE  \E r \in Positions' : p < r /\ IsDel(r, d)'
    BY DEF IdleAfterAdd
  <2>1. PICK r \in Positions : p + 1 < r /\ IsDel(r, d)
    BY <1>1, Shifted DEF Alternate, IdleAfterAdd
  <2>2. r - 1 \in Positions' /\ IsDel(r - 1, d)'
    BY <1>1, <2>1, Shifted
  <2>3. QED
    BY <1>1, <2>1, <2>2, Shifted
<1>10. QED
  BY <1>2, <1>4, <1>6, <1>7, <1>8, <1>9 DEF Alternate

(* A served DELEVENT leaves no event of its client behind.                 *)
LEMMA DeleteKeepsOrder ==
  ASSUME TypeOK, Alternate, Delete
  PROVE  Alternate'
<1>1. queue # <<>> /\ queue' = Tail(queue) /\ client' = client /\ Head(queue).op = "DELEVENT"
  BY DEF Delete
<1>2. PICK c \in Clients : c = Head(queue).tag
  BY <1>1, Shifted, CommandFacts
<1>3. \A d \in Clients : ~IsAdd(1, d) /\ (IsDel(1, d) => d = c)
  BY <1>1, <1>2, Shifted DEF IsAdd, IsDel
<1>4. \A d \in Clients : HasEvent(d)' => HasEvent(d) /\ d # c
  BY <1>2 DEF HasEvent, Delete
<1>5. AddAfterDel'
  <2> SUFFICES ASSUME NEW d \in Clients, NEW p \in Positions', NEW q \in Positions',
                      p < q, IsAdd(p, d)', IsAdd(q, d)'
               PROVE  \E r \in Positions' : p < r /\ r < q /\ IsDel(r, d)'
    BY DEF AddAfterDel
  <2>1. /\ p + 1 \in Positions /\ q + 1 \in Positions /\ p \in Nat /\ q \in Nat
        /\ IsAdd(p + 1, d) /\ IsAdd(q + 1, d)
    BY <1>1, Shifted
  <2>2. PICK r \in Positions : p + 1 < r /\ r < q + 1 /\ IsDel(r, d)
    BY <2>1 DEF Alternate, AddAfterDel
  <2>3. r \in Nat /\ r > 1 /\ r - 1 \in Positions' /\ (r - 1) + 1 = r
    BY <1>1, <2>1, <2>2, Shifted
  <2>4. IsDel(r - 1, d)'
    BY <1>1, <2>2, <2>3, Shifted
  <2>5. QED
    BY <2>1, <2>2, <2>3, <2>4
<1>6. AddAfterEvent'
  <2> SUFFICES ASSUME NEW d \in Clients, NEW q \in Positions', IsAdd(q, d)', HasEvent(d)'
               PROVE  \E r \in Positions' : r < q /\ IsDel(r, d)'
    BY DEF AddAfterEvent
  <2>1. PICK r \in Positions : r < q + 1 /\ IsDel(r, d)
    BY <1>1, <1>4, Shifted DEF Alternate, AddAfterEvent
  <2>2. r > 1 /\ r - 1 \in Positions' /\ IsDel(r - 1, d)'
    BY <1>1, <1>3, <1>4, <2>1, Shifted
  <2>3. QED
    BY <1>1, <2>1, <2>2, Shifted
<1>7. IdleAfterEvent'
  <2> SUFFICES ASSUME NEW d \in Clients, client'[d] = "idle", HasEvent(d)'
               PROVE  \E r \in Positions' : IsDel(r, d)'
    BY DEF IdleAfterEvent
  <2>1. PICK r \in Positions : IsDel(r, d)
    BY <1>1, <1>4 DEF Alternate, IdleAfterEvent
  <2>2. r > 1 /\ r - 1 \in Positions'
    BY <1>1, <1>3, <1>4, <2>1, Shifted
  <2>3. QED
    BY <1>1, <2>1, <2>2, Shifted
<1>8. IdleAfterAdd'
  <2> SUFFICES ASSUME NEW d \in Clients, NEW p \in Positions', client'[d] = "idle", IsAdd(p, d)'
               PROVE  \E r \in Positions' : p < r /\ IsDel(r, d)'
    BY DEF IdleAfterAdd
  <2>1. PICK r \in Positions : p + 1 < r /\ IsDel(r, d)
    BY <1>1, Shifted DEF Alternate, IdleAfterAdd
  <2>2. r - 1 \in Positions' /\ IsDel(r - 1, d)'
    BY <1>1, <2>1, Shifted
  <2>3. QED
    BY <1>1, <2>1, <2>2, Shifted
<1>9. QED
  BY <1>5, <1>6, <1>7, <1>8 DEF Alternate

(* A step that queues and serves nothing, adds no event and makes no       *)
(* client idle leaves the order as it is.                                  *)
LEMMA QuietKeepsOrder ==
  ASSUME Alternate, queue' = queue,
         \A d \in Clients : HasEvent(d)' => HasEvent(d),
         \A d \in Clients : client'[d] = "idle" => client[d] = "idle"
  PROVE  Alternate'
<1>1. \A d \in Clients, p \in Positions : (IsAdd(p, d)' <=> IsAdd(p, d)) /\ (IsDel(p, d)' <=> IsDel(p, d))
  BY DEF IsAdd, IsDel
<1>2. Positions' = Positions
  BY DEF Positions
<1>3. AddAfterDel'
  BY <1>1, <1>2 DEF Alternate, AddAfterDel
<1>4. AddAfterEvent'
  BY <1>1, <1>2 DEF Alternate, AddAfterEvent
<1>5. IdleAfterEvent'
  BY <1>1, <1>2 DEF Alternate, IdleAfterEvent
<1>6. IdleAfterAdd'
  BY <1>1, <1>2 DEF Alternate, IdleAfterAdd
<1>7. QED
  BY <1>3, <1>4, <1>5, <1>6 DEF Alternate

(***************************************************************************)
(* The slots                                                               *)
(***************************************************************************)

LEMMA ClientsAreCounted == Cardinality(Clients) \in Nat /\ Cardinality(Clients) < MaxEvents
  BY TimerAssumption, FS_CardinalityType

(* As many slots in a row as hold events, and each event of another        *)
(* client: not more than there are clients.                                *)
LEMMA UsedSlotsAreClients ==
  ASSUME NEW T \in [Slots -> Service!Events \cup {NULL}], NEW n \in 0..MaxEvents,
         \A a, b \in Slots : T[a] # NULL /\ T[b] # NULL /\ T[a].tag = T[b].tag => a = b,
         \A k \in Slots : k < n => T[k] # NULL
  PROVE  n <= Cardinality(Clients)
<1> DEFINE S == 0..(n - 1)
           f == [k \in S |-> T[k].tag]
<1>1. S \subseteq Slots /\ n \in Nat /\ MaxEvents \in Nat
  BY TimerAssumption
<1>2. \A k \in S : T[k] # NULL /\ T[k] \in Service!Events
  BY <1>1
<1>3. f \in [S -> Clients]
  BY <1>2 DEF Service!Events
<1>4. \A a, b \in S : f[a] = f[b] => a = b
  BY <1>1, <1>2
<1>5. f \in Injection(S, Clients)
  <2> HIDE DEF f
  <2>1. QED
    BY <1>3, <1>4 DEF Injection, IsInjective
<1>6. Cardinality(S) <= Cardinality(Clients)
  <2> HIDE DEF f, S
  <2>1. QED
    BY <1>5, FS_Injection, TimerAssumption
<1>7. Cardinality(S) = n
  BY <1>1, FS_Interval
<1>8. QED
  BY <1>6, <1>7

THEOREM InitInv == Init => IInv
<1> SUFFICES ASSUME Init PROVE IInv
  OBVIOUS
<1> USE DEF Init
<1>1. TypeOK
  BY TimerAssumption, ClientsAreCounted DEF TypeOK
<1>2. NoOverrun /\ NothingOutOfSight /\ OneEventPerClient /\ Compacting
  BY ClientsAreCounted DEF NoOverrun, NothingOutOfSight, OneEventPerClient, Compacting
<1>3. Alternate
  BY DEF Alternate, AddAfterDel, AddAfterEvent, IdleAfterEvent, IdleAfterAdd, Positions, HasEvent
<1>4. QED
  BY <1>1, <1>2, <1>3 DEF IInv

(* What the steps of the clients leave alone.                              *)
LEMMA ClientSteps ==
  ASSUME IInv, UNCHANGED <<tableVars, pc>>,
         client' \in [Clients -> {"idle", "waiting", "woken"}], queue' \in Seq(Commands), Alternate'
  PROVE  IInv'
<1>1. TypeOK' /\ NoOverrun' /\ NothingOutOfSight' /\ OneEventPerClient' /\ Compacting'
  BY DEF IInv, TypeOK, NoOverrun, NothingOutOfSight, OneEventPerClient, Compacting, tableVars
<1>2. QED
  BY <1>1 DEF IInv

(* ADDEVENT: the first hole takes the event, whose client has no other.    *)
LEMMA InsertKeepsInv == ASSUME IInv, Insert PROVE IInv'
<1> USE DEF IInv
<1>1. PICK s \in Slots : /\ IsFirstFree(0, s)
                         /\ events' = [events EXCEPT ![s] = Head(queue).ev]
                         /\ numevents' = IF s < numevents THEN numevents ELSE numevents + 1
  BY DEF Insert
<1>2. /\ queue # <<>> /\ Head(queue).op = "ADDEVENT" /\ queue' = Tail(queue)
      /\ UNCHANGED <<client, pc, i, j>> /\ pc = "poll"
  BY DEF Insert
<1>3. Head(queue).ev \in Service!Events /\ Head(queue).ev # NULL /\ queue' \in Seq(Commands)
  BY <1>2, Shifted, CommandFacts
<1>4. \A k \in Slots : events'[k] = IF k = s THEN Head(queue).ev ELSE events[k]
  BY <1>1 DEF TypeOK
<1>5. s <= numevents /\ MaxEvents \in Nat /\ numevents \in Nat
  BY <1>1, ClientsAreCounted, TimerAssumption DEF IsFirstFree, NothingOutOfSight, TypeOK, NoOverrun
<1>6. OneEventPerClient'
  BY <1>1, <1>4, InsertKeepsOrder DEF OneEventPerClient, HasEvent
<1>7. NothingOutOfSight'
  BY <1>1, <1>4, <1>5 DEF NothingOutOfSight
<1>8. TypeOK'
  <2>1. events' \in [Slots -> Service!Events \cup {NULL}]
    BY <1>1, <1>3 DEF TypeOK
  <2>2. numevents' \in 0..MaxEvents
    BY <1>1, <1>5 DEF TypeOK
  <2>3. QED
    BY <1>2, <1>3, <2>1, <2>2 DEF TypeOK
<1>9. NoOverrun'
  <2>1. CASE s < numevents
    BY <1>1, <1>2, <2>1 DEF NoOverrun
  <2>2. CASE s = numevents
    <3>1. \A k \in Slots : k < numevents' => events'[k] # NULL
      BY <1>1, <1>3, <1>4, <1>5, <2>2 DEF IsFirstFree
    <3>2. PICK n \in 0..MaxEvents, T \in [Slots -> Service!Events \cup {NULL}] :
            n = numevents' /\ T = events'
      BY <1>8 DEF TypeOK
    <3>3. n <= Cardinality(Clients)
      BY <1>6, <3>1, <3>2, UsedSlotsAreClients DEF OneEventPerClient
    <3>4. QED
      BY <1>2, <3>2, <3>3 DEF NoOverrun
  <2>3. QED
    BY <1>5, <2>1, <2>2
<1>10. Compacting'
  BY <1>2 DEF Compacting
<1>11. QED
  BY <1>6, <1>7, <1>8, <1>9, <1>10, InsertKeepsOrder

(* DELEVENT: the events of the tag go, the cursors start at the two ends.  *)
LEMMA DeleteKeepsInv == ASSUME IInv, Delete PROVE IInv'
<1> USE DEF IInv
<1>1. /\ queue # <<>> /\ queue' = Tail(queue) /\ UNCHANGED <<client, numevents>>
      /\ pc' = "compact" /\ i' = 0 /\ j' = numevents
  BY DEF Delete
<1>2. /\ \A k \in Slots : events'[k] = NULL \/ events'[k] = events[k]
      /\ events' \in [Slots -> Service!Events \cup {NULL}]
  BY DEF Delete, TypeOK
<1>3. numevents \in Slots /\ 0 \in Slots
  BY ClientsAreCounted, TimerAssumption DEF TypeOK, NoOverrun
<1>4. TypeOK'
  BY <1>1, <1>2, <1>3, Shifted DEF TypeOK
<1>5. NoOverrun' /\ NothingOutOfSight' /\ OneEventPerClient'
  <2>1. NoOverrun'
    <3>1. j' # -1
      BY <1>1, <1>3
    <3> QED
      BY <1>1, <3>1 DEF NoOverrun
  <2> QED
    BY <1>1, <1>2, <2>1 DEF NothingOutOfSight, OneEventPerClient
<1>6. Compacting'
  <2>1. numevents <= numevents
    BY DEF TypeOK
  <2> QED
    BY <1>1, <1>2, <1>3, <2>1, TimerAssumption DEF Compacting, NothingOutOfSight
<1>7. QED
  BY <1>4, <1>5, <1>6, DeleteKeepsOrder

(* A round of the compaction moves one event down, or ends the loop.       *)
LEMMA CompactKeepsInv == ASSUME IInv, Compact PROVE IInv'
<1> USE DEF IInv
<1>1. pc = "compact" /\ UNCHANGED <<client, queue, numevents>>
  BY DEF Compact
<1>2. MaxEvents \in Nat /\ i \in Slots /\ j \in Slots \cup {-1} /\ Cardinality(Clients) \in Nat
  BY TimerAssumption, ClientsAreCounted DEF TypeOK
<1>3. CASE i >= j
  <2>1. pc' = "count" /\ UNCHANGED <<events, i, j>>
    BY <1>2, <1>3 DEF Compact
  <2>2. Alternate'
    BY <1>1, <2>1, QuietKeepsOrder DEF HasEvent
  <2>3. Compacting'
    BY <1>1, <1>3, <2>1 DEF Compacting
  <2>4. QED
    BY <1>1, <2>1, <2>2, <2>3 DEF TypeOK, NoOverrun, NothingOutOfSight, OneEventPerClient
<1>4. CASE i < j
  <2>1. PICK a \in Slots, b \in Slots \cup {-1} :
          /\ IsFirstFree(i, a) /\ IsLastUsed(j, b)
          /\ i' = a /\ j' = b /\ pc' = pc
          /\ events' = IF a < b THEN [events EXCEPT ![a] = events[b], ![b] = NULL] ELSE events
    BY <1>4 DEF Compact
  <2>2. \A k \in Slots : k < a => events[k] # NULL
    BY <1>1, <1>2, <2>1 DEF Compacting, IsFirstFree
  <2>3. \A k \in Slots : k > b => events[k] = NULL
    BY <1>1, <1>2, <2>1 DEF Compacting, IsLastUsed
  <2>4. events[a] = NULL /\ b <= j /\ (b \in Slots => events[b] # NULL)
    BY <2>1 DEF IsFirstFree, IsLastUsed
  <2>5. NoOverrun' /\ b <= numevents
    <3>1. numevents \in Nat /\ numevents > 0 /\ b <= numevents
      BY <1>1, <1>2, <1>4, <2>4 DEF Compacting, TypeOK
    <3>2. b = -1 => \A k \in Slots : events[k] = NULL
      BY <1>2, <2>3
    <3>3. b = -1 => ~(a < b)
      BY <1>2
    <3> QED
      BY <1>1, <1>2, <2>1, <2>4, <3>1, <3>2, <3>3 DEF NoOverrun
  <2>6. CASE a < b
    <3>1. b \in Slots /\ a # b
      BY <1>2, <2>1, <2>6
    <3>2. \A k \in Slots : events'[k] = IF k = b THEN NULL ELSE IF k = a THEN events[b] ELSE events[k]
      BY <2>1, <2>6, <3>1 DEF TypeOK
    <3>3. TypeOK'
      <4>1. events' \in [Slots -> Service!Events \cup {NULL}]
        BY <2>1, <2>6, <3>1 DEF TypeOK
      <4>2. QED
        BY <1>1, <2>1, <4>1 DEF TypeOK
    <3>4. NothingOutOfSight'
      BY <1>1, <1>2, <2>1, <2>4, <2>6, <3>1, <3>2 DEF NothingOutOfSight, TypeOK
    <3>5. OneEventPerClient'
      BY <2>4, <3>1, <3>2 DEF OneEventPerClient
    <3>6. Compacting'
      <4>1. \A k \in Slots : k < a => events'[k] # NULL
        BY <2>2, <2>6, <3>1, <3>2
      <4>2. \A k \in Slots : k > b => events'[k] = NULL
        BY <2>3, <2>6, <3>1, <3>2
      <4>3. pc' = "compact" /\ i' = a /\ j' = b /\ ~(a >= b)
        BY <1>1, <2>1, <2>6, <3>1
      <4>4. QED
        BY <1>1, <2>5, <4>1, <4>2, <4>3 DEF Compacting
    <3>7. Alternate'
      BY <1>1, <3>1, <3>2, QuietKeepsOrder DEF HasEvent
    <3>8. QED
      BY <2>5, <3>3, <3>4, <3>5, <3>6, <3>7
  <2>7. CASE b <= a
    <3>1. events' = events
      BY <1>2, <2>1, <2>7
    <3>2. Compacting'
      BY <1>1, <1>2, <2>1, <2>2, <2>3, <2>4, <2>5, <2>7, <3>1 DEF Compacting
    <3>3. Alternate'
      BY <1>1, <3>1, QuietKeepsOrder DEF HasEvent
    <3>4. TypeOK'
      BY <1>1, <2>1, <3>1 DEF TypeOK
    <3>5. QED
      BY <1>1, <2>5, <3>1, <3>2, <3>3, <3>4 DEF NothingOutOfSight, OneEventPerClient
  <2>8. QED
    BY <1>2, <2>1, <2>6, <2>7
<1>5. QED
  BY <1>2, <1>3, <1>4

(* The count is where the prefix of events ends.                           *)
LEMMA CountKeepsInv == ASSUME IInv, Count PROVE IInv'
<1> USE DEF IInv
<1>1. PICK s \in Slots : IsFirstFree(0, s) /\ numevents' = s
  BY DEF Count
<1>2. pc = "count" /\ pc' = "poll" /\ UNCHANGED <<client, queue, events, i, j>>
  BY DEF Count
<1>3. MaxEvents \in Nat /\ i \in Slots
  BY TimerAssumption DEF TypeOK
<1>4. s = i
  BY <1>1, <1>2, <1>3 DEF IsFirstFree, Compacting
<1>5. NothingOutOfSight'
  BY <1>1, <1>2, <1>4 DEF NothingOutOfSight, Compacting
<1>6. s <= Cardinality(Clients)
  BY <1>1, <1>3, UsedSlotsAreClients DEF IsFirstFree, TypeOK, OneEventPerClient
<1>7. Alternate'
  BY <1>2, QuietKeepsOrder DEF HasEvent
<1>8. TypeOK' /\ NoOverrun' /\ OneEventPerClient' /\ Compacting'
  BY <1>1, <1>2, <1>3, <1>6 DEF TypeOK, NoOverrun, OneEventPerClient, Compacting
<1>9. QED
  BY <1>5, <1>7, <1>8

(* Firing frees events and changes the time left of the others.            *)
LEMMA AgedIsEvent ==
  ASSUME NEW e \in Service!Events
  PROVE  /\ Service!Expires(e) \in BOOLEAN
         /\ Service!Aged(e) \in Service!Events /\ Service!Aged(e) # NULL
         /\ Service!Aged(e).tag = e.tag
<1>1. Service!Aged(e) \in Service!Events /\ Service!Aged(e).tag = e.tag
  BY TimerAssumption DEF Service!Events, Service!Aged, Service!Expires
<1>2. QED
  BY <1>1, TimerAssumption DEF Service!Events, Service!Expires

LEMMA FireKeepsInv == ASSUME IInv, Fire PROVE IInv'
<1> USE DEF IInv
<1>1. pc' = "poll" /\ UNCHANGED <<queue, numevents, i, j>>
  BY DEF Fire
<1>2. \A k \in Slots :
        \/ events'[k] = NULL \/ events'[k] = events[k]
        \/ events[k] # NULL /\ events'[k] = Service!Aged(events[k])
  BY DEF Fire, TypeOK
<1>3. \A k \in Slots : events'[k] # NULL => events[k] # NULL /\ events'[k].tag = events[k].tag
  BY <1>2, AgedIsEvent DEF TypeOK
<1>4. \A k \in Slots : events'[k] \in Service!Events \cup {NULL}
  BY <1>2, AgedIsEvent DEF TypeOK
<1>5. events' \in [Slots -> Service!Events \cup {NULL}]
  BY <1>4 DEF Fire
<1>6. /\ client' \in [Clients -> {"idle", "waiting", "woken"}]
      /\ \A d \in Clients : client'[d] = "idle" => client[d] = "idle"
  BY DEF Fire, Service!Woken, TypeOK
<1>7. Alternate'
  BY <1>1, <1>3, <1>6, QuietKeepsOrder DEF HasEvent
<1>8. TypeOK' /\ NoOverrun' /\ Compacting'
  BY <1>1, <1>5, <1>6 DEF TypeOK, NoOverrun, Compacting
<1>9. NothingOutOfSight' /\ OneEventPerClient'
  BY <1>1, <1>3 DEF NothingOutOfSight, OneEventPerClient
<1>10. QED
  BY <1>7, <1>8, <1>9

THEOREM NextInv == IInv /\ [Next]_vars => IInv'
<1> SUFFICES ASSUME IInv, [Next]_vars PROVE IInv'
  OBVIOUS
<1>1. ASSUME NEW c \in Clients, Answered(c) PROVE IInv'
  <2>1. Alternate'
    BY <1>1, QuietKeepsOrder DEF IInv, TypeOK, Answered, tableVars, HasEvent
  <2>2. QED
    BY <1>1, <2>1, ClientSteps DEF IInv, TypeOK, Answered
<1>2. ASSUME NEW c \in Clients, jam_clear_timer(c) PROVE IInv'
  <2>1. Alternate'
    BY <1>2, ClearKeepsOrder DEF IInv
  <2>2. QED
    BY <1>2, <2>1, ClientSteps, RequestsAreCommands DEF IInv, TypeOK, jam_clear_timer
<1>3. ASSUME NEW c \in Clients, NEW n \in 1..MaxTicks, jam_set_timer(c, n) PROVE IInv'
  <2>1. Alternate'
    BY <1>3, SetKeepsOrder DEF IInv
  <2>2. QED
    BY <1>3, <2>1, ClientSteps, RequestsAreCommands DEF IInv, TypeOK, jam_set_timer
<1>4. CASE Timeout
  <2>1. Alternate'
    BY <1>4, QuietKeepsOrder DEF IInv, Timeout, tableVars, HasEvent
  <2>2. QED
    BY <1>4, <2>1 DEF IInv, Timeout, tableVars, TypeOK, NoOverrun, NothingOutOfSight,
                      OneEventPerClient, Compacting
<1>5. CASE UNCHANGED vars
  <2>1. Alternate'
    BY <1>5, QuietKeepsOrder DEF IInv, vars, HasEvent
  <2>2. QED
    BY <1>5, <2>1 DEF IInv, vars, TypeOK, NoOverrun, NothingOutOfSight,
                      OneEventPerClient, Compacting
<1>6. QED
  BY <1>1, <1>2, <1>3, <1>4, <1>5, InsertKeepsInv, DeleteKeepsInv, CompactKeepsInv,
     CountKeepsInv, FireKeepsInv DEF Next, TimerStep

THEOREM Invariance == Spec => []IInv
  BY InitInv, NextInv, PTL DEF Spec

(* Whatever is set, cleared and fired, no event lies where the firing loop *)
(* does not look (timer.c, numevents).                                     *)
THEOREM TableIsSeen == Spec => []NothingOutOfSight
  BY Invariance, PTL DEF IInv

(* No search or insertion passes the end of the array, which has no test   *)
(* of its own against MAX_EVENTS: the slots in use are never more than the *)
(* clients.  The search that leaves it at the other end stops at           *)
(* numevents, whatever was inserted, fired and deleted before.             *)
THEOREM TableIsLargeEnough == Spec => []NoOverrun
  BY Invariance, PTL DEF IInv

(* An activity never has two events in the table.                          *)
THEOREM OneEvent == Spec => []OneEventPerClient
  BY Invariance, PTL DEF IInv

(***************************************************************************)
(* The table implements TimerService.                                      *)
(***************************************************************************)

LEMMA InsertArms == ASSUME IInv, Insert PROVE Service!Arm
<1>1. PICK s \in Slots : IsFirstFree(0, s) /\ events' = [events EXCEPT ![s] = Head(queue).ev]
  BY DEF Insert
<1>2. Head(queue).ev # NULL
  BY Shifted, CommandFacts DEF IInv, Insert
<1>3. \A k \in Slots : events'[k] = IF k = s THEN Head(queue).ev ELSE events[k]
  BY <1>1 DEF IInv, TypeOK
<1>4. events[s] = NULL
  BY <1>1 DEF IsFirstFree
<1>5. Live' = Live \cup {Head(queue).ev}
  BY <1>2, <1>3, <1>4 DEF Live
<1>6. pc = "poll" /\ UNCHANGED <<client, pc>>
  BY DEF Insert
<1>7. QED
  BY <1>5, <1>6 DEF Service!Arm, Insert

LEMMA DeleteDisarms == ASSUME IInv, Delete PROVE Service!Disarm
<1>1. \A k \in Slots : events'[k] =
        IF events[k] # NULL /\ events[k].tag = Head(queue).tag THEN NULL ELSE events[k]
  BY DEF Delete
<1>2. Live' = {e \in Live : e.tag # Head(queue).tag}
  BY <1>1 DEF Live
<1>3. pc = "poll" /\ pc' = "compact" /\ UNCHANGED client
  BY DEF Delete
<1>4. QED
  BY <1>2, <1>3 DEF Service!Disarm, Delete

LEMMA CompactStutters == ASSUME IInv, Compact PROVE UNCHANGED Service!serviceVars
<1>1. pc = "compact" /\ pc' \in {"compact", "count"} /\ UNCHANGED <<client, queue>>
  BY DEF Compact
<1>2. Live' = Live
  <2>1. CASE UNCHANGED events
    BY <2>1 DEF Live
  <2>2. CASE ~ UNCHANGED events
    <3>1. PICK a \in Slots, b \in Slots \cup {-1} :
            /\ IsFirstFree(i, a) /\ IsLastUsed(j, b) /\ a < b
            /\ events' = [events EXCEPT ![a] = events[b], ![b] = NULL]
      BY <2>2 DEF Compact
    <3>2. b \in Slots /\ a # b /\ events[a] = NULL /\ events[b] # NULL
      BY <3>1, TimerAssumption DEF IsFirstFree, IsLastUsed
    <3>3. \A k \in Slots : events'[k] = IF k = b THEN NULL ELSE IF k = a THEN events[b] ELSE events[k]
      BY <3>1, <3>2 DEF IInv, TypeOK
    <3>4. QED
      BY <3>2, <3>3 DEF Live
  <2>3. QED
    BY <2>1, <2>2
<1>3. QED
  BY <1>1, <1>2 DEF Service!serviceVars

(* The firing loop stops at numevents, and sees every event all the same.  *)
LEMMA FireElapses == ASSUME IInv, Fire PROVE Service!Elapse
<1>1. \A k \in Slots : events[k] # NULL => k < numevents
  BY TimerAssumption DEF IInv, NothingOutOfSight, TypeOK
<1>2. \A k \in Slots : events'[k] =
        IF events[k] = NULL THEN NULL
        ELSE IF Service!Expires(events[k]) /\ ~events[k].repeated THEN NULL
        ELSE Service!Aged(events[k])
  <2>1. TAKE k \in Slots
  <2>2. events'[k] = IF k >= numevents \/ events[k] = NULL THEN events[k]
                     ELSE IF Service!Expires(events[k]) /\ ~events[k].repeated THEN NULL
                     ELSE Service!Aged(events[k])
    BY Zenon DEF Fire
  <2>3. k \in Nat /\ numevents \in Nat
    BY TimerAssumption DEF IInv, TypeOK, Slots
  <2>4. CASE events[k] = NULL
    BY <2>2, <2>4
  <2>5. CASE events[k] # NULL
    <3>1. ~(k >= numevents)
      BY <1>1, <2>3, <2>5
    <3>2. QED
      BY <2>2, <2>5, <3>1, Zenon
  <2>6. QED
    BY <2>4, <2>5
<1>3. \A k \in Slots : events[k] # NULL => Service!Aged(events[k]) # NULL
  BY AgedIsEvent DEF IInv, TypeOK
<1>4. Live' = {Service!Aged(e) : e \in {x \in Live : x.repeated \/ ~Service!Expires(x)}}
  BY <1>2, <1>3 DEF Live
<1>5. {events[k] : k \in {x \in 0..(numevents - 1) : events[x] # NULL}} = Live
  <2>1. numevents - 1 < MaxEvents - 1 /\ numevents \in Nat /\ MaxEvents \in Nat
    BY ClientsAreCounted, TimerAssumption DEF IInv, NoOverrun, TypeOK
  <2>2. {x \in 0..(numevents - 1) : events[x] # NULL} = {x \in Slots : events[x] # NULL}
    BY <1>1, <2>1
  <2>3. QED
    BY <2>2 DEF Live
<1>6. client' = Service!Woken(Live)
  BY <1>5 DEF Fire
<1>7. pc = "tick" /\ pc' = "poll" /\ UNCHANGED queue
  BY DEF Fire
<1>8. QED
  BY <1>4, <1>6, <1>7 DEF Service!Elapse

(* Every command and every period of the table is one of the service; the  *)
(* compaction and the count are invisible.                                 *)
THEOREM StepRefines == IInv /\ [Next]_vars => [Service!Next]_Service!serviceVars
<1> SUFFICES ASSUME IInv, [Next]_vars PROVE Service!Next \/ UNCHANGED Service!serviceVars
  OBVIOUS
<1>1. ASSUME NEW c \in Clients, Answered(c) PROVE Service!Answered(c)
  BY <1>1 DEF Answered, Service!Answered, tableVars, Live
<1>2. ASSUME NEW c \in Clients, jam_clear_timer(c) PROVE Service!Clear(c)
  BY <1>2 DEF jam_clear_timer, Service!Clear, tableVars, Live
<1>3. ASSUME NEW c \in Clients, NEW n \in 1..MaxTicks, jam_set_timer(c, n) PROVE Service!Set(c, n)
  BY <1>3 DEF jam_set_timer, Service!Set, tableVars, Live
<1>4. ASSUME Timeout PROVE Service!Silence
  BY <1>4 DEF Timeout, Service!Silence, tableVars, Live
<1>5. ASSUME Count PROVE UNCHANGED Service!serviceVars
  BY <1>5 DEF Count, Service!serviceVars, Live
<1>6. ASSUME UNCHANGED vars PROVE UNCHANGED Service!serviceVars
  BY <1>6 DEF vars, Service!serviceVars, Live
<1>7. CASE \E c \in Clients : Answered(c) \/ jam_clear_timer(c) \/ \E n \in 1..MaxTicks : jam_set_timer(c, n)
  BY <1>1, <1>2, <1>3, <1>7 DEF Service!Next
<1>8. CASE TimerStep
  BY <1>4, <1>5, <1>8, InsertArms, DeleteDisarms, CompactStutters, FireElapses
     DEF TimerStep, Service!Next
<1>9. QED
  BY <1>6, <1>7, <1>8 DEF Next

(* The table with its holes, moves and recounts behaves as a set of events *)
(* (timer.c as a whole).                                                   *)
THEOREM Refinement == Spec => TableIsAService
<1>1. Init => Service!Init
  BY DEF Init, Service!Init, Live
<1>2. QED
  BY <1>1, StepRefines, Invariance, PTL DEF Spec, Service!Spec, TableIsAService
=============================================================================
