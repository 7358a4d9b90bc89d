------------------------------ MODULE RunTable ------------------------------
(***************************************************************************)
(* The run table of jamrunner.c and its users: the runner of an async call *)
(* keeps a pointer into it across its waits (jamasync.c), the event loop   *)
(* enters a remote REXEC-SYN (jam.c), whose activity looks its entry up to *)
(* send the result (activity.c) and deletes it in the end.  All of them    *)
(* are tasks of one thread that give way only between these steps.         *)
(*                                                                         *)
(* A deleted entry keeps its id and is found until it is used again.       *)
(***************************************************************************)
EXTENDS Integers, FiniteSets

CONSTANTS
  Own,        \* ids of this node's async calls: every call has a new one
  Remote,     \* ids of the REXEC-SYNs that come in; one may come again
  Slots,      \* the entries, MAX_RUN_ENTRIES of them
  NoId,
  NoSlot,     \* a runner's act_entry before its call
  MaxTime     \* bound: seconds

ASSUME RunTableAssumption ==
  /\ Own \cap Remote = {} /\ NoId \notin Own \cup Remote
  /\ IsFiniteSet(Slots) /\ NoSlot \notin Slots

Ids == Own \cup Remote

VARIABLES
  status, actid, accesstime,  \* of each entry
  rcount,
  now,        \* activity_getseconds
  active,     \* calls and remote activities that run
  pointer,    \* act_entry of each async call that runs
  used,       \* history: ids there have been
  repeated,   \* history: remote ids that came again
  unserved,   \* history: remote ids whose activity left its entry as it was
  exited

tableVars == <<status, actid, accesstime, rcount>>
vars == <<tableVars, now, active, pointer, used, repeated, unserved, exited>>

Entries(id) == {i \in Slots : status[i] # "EMPTY" /\ actid[i] = id}

Has(id) == Entries(id) # {}

(* runtable_find: the entry of an id, deleted or not (OneEntryPerId).      *)
Find(id) == CHOOSE i \in Entries(id) : TRUE

Init ==
  /\ status = [i \in Slots |-> "EMPTY"]
  /\ actid = [i \in Slots |-> NoId]
  /\ accesstime = [i \in Slots |-> 0]
  /\ rcount = 0 /\ now = 0
  /\ active = {} /\ used = {} /\ repeated = {} /\ unserved = {}
  /\ pointer = [id \in Own |-> NoSlot]
  /\ exited = FALSE

Spare_any ==  \* mutant: a running call's entry will do
  {i \in Slots : status[i] # "EMPTY" /\ accesstime[i] < now}

(* Deleted, and last touched in an earlier second. *)
Spare == {i \in Slots : status[i] = "DELETED" /\ accesstime[i] < now}

(* runtable_getfree: an empty entry, else the spare one touched longest    *)
(* ago.                                                                    *)
Free ==
  LET empty == {i \in Slots : status[i] = "EMPTY"} IN
  IF empty # {} THEN empty
                ELSE {i \in Spare : \A j \in Spare : accesstime[i] <= accesstime[j]}

(* What runtable_find leaves behind. *)
Touch(i) == accesstime' = [accesstime EXCEPT ![i] = now]

(* runtable_insert: nothing for an id that is found, and the end of the    *)
(* program for want of an entry.                                           *)
Insert(id) ==
  \/ /\ Has(id)
     /\ Touch(Find(id))
     /\ UNCHANGED <<status, actid, rcount, exited>>
  \/ /\ ~Has(id) /\ Free # {}
     /\ \E i \in Free :
          /\ status' = [status EXCEPT ![i] = "STARTED"]
          /\ actid' = [actid EXCEPT ![i] = id]
          /\ Touch(i)
     /\ rcount' = rcount + 1
     /\ UNCHANGED exited
  \/ /\ ~Has(id) /\ Free = {}
     /\ exited' = TRUE
     /\ UNCHANGED tableVars

Delete_empty(id) ==  \* mutant: the entry is emptied
  IF Has(id)
    THEN LET i == Find(id) IN
         /\ status' = [status EXCEPT ![i] = "EMPTY"]
         /\ Touch(i)
         /\ rcount' = rcount - 1
         /\ UNCHANGED <<actid, exited>>
    ELSE UNCHANGED <<tableVars, exited>>

(* runtable_del *)
Delete(id) ==
  IF Has(id)
    THEN LET i == Find(id) IN
         /\ status' = [status EXCEPT ![i] = "DELETED"]
         /\ Touch(i)
         /\ rcount' = rcount - 1
         /\ UNCHANGED <<actid, exited>>
    ELSE UNCHANGED <<tableVars, exited>>

(***************************************************************************)
(* The table's users                                                       *)
(***************************************************************************)

(* jam_async_runner inserts its id and remembers where it found it ...     *)
StartCall(id) ==
  /\ ~exited /\ id \in Own \ used
  /\ used' = used \cup {id}
  /\ active' = active \cup {id}
  /\ Insert(id)
  /\ pointer' = IF exited' THEN pointer ELSE [pointer EXCEPT ![id] = Find(id)']
  /\ UNCHANGED <<now, repeated, unserved>>

EndCall_kept(id) ==  \* mutant: the runner forgets its entry
  /\ ~exited /\ id \in Own \cap active
  /\ active' = active \ {id}
  /\ UNCHANGED <<tableVars, now, pointer, used, repeated, unserved, exited>>

(* ... and deletes the id that is there when the call is over.             *)
EndCall(id) ==
  /\ ~exited /\ id \in Own \cap active
  /\ active' = active \ {id}
  /\ Delete(actid[pointer[id]])
  /\ UNCHANGED <<now, pointer, used, repeated, unserved>>

(* The event loop starts a REXEC-SYN.  An id comes again only when the     *)
(* cache of duplicate_detect has forgotten it; not while it runs, and (a   *)
(* bound) once.                                                            *)
StartRemote(id) ==
  /\ ~exited /\ id \in Remote \ (active \cup repeated)
  /\ used' = used \cup {id}
  /\ repeated' = IF id \in used THEN repeated \cup {id} ELSE repeated
  /\ active' = active \cup {id}
  /\ Insert(id)
  /\ UNCHANGED <<now, pointer, unserved>>

(* activity_complete sends a result if it finds the entry.                 *)
Complete(id) ==
  /\ ~exited /\ id \in Remote \cap active
  /\ Has(id)
  /\ Touch(Find(id))
  /\ UNCHANGED <<status, actid, rcount, now, active, pointer, used, repeated, unserved, exited>>

(* The activity's thread is done with the function ...                     *)
EndRemote(id) ==
  /\ ~exited /\ id \in Remote \cap active
  /\ active' = active \ {id}
  /\ Delete(id)
  /\ UNCHANGED <<now, pointer, used, repeated, unserved>>

(* ... or it never ran one: there is no function of that name, the thread  *)
(* was given another command first, or its activity was gone.  Then nobody *)
(* deletes the entry.                                                      *)
IgnoreRemote(id) ==
  /\ ~exited /\ id \in Remote \cap active
  /\ active' = active \ {id}
  /\ unserved' = unserved \cup {id}
  /\ UNCHANGED <<tableVars, now, pointer, used, repeated, exited>>

Tick ==
  /\ ~exited /\ now < MaxTime
  /\ now' = now + 1
  /\ UNCHANGED <<tableVars, active, pointer, used, repeated, unserved, exited>>

Next ==
  \/ \E id \in Ids :
       \/ StartCall(id) \/ EndCall(id)
       \/ StartRemote(id) \/ Complete(id) \/ EndRemote(id) \/ IgnoreRemote(id)
  \/ Tick

Spec == Init /\ [][Next]_vars
-----------------------------------------------------------------------------
TypeOK ==
  /\ status \in [Slots -> {"EMPTY", "STARTED", "DELETED"}]
  /\ actid \in [Slots -> Ids \cup {NoId}]
  /\ accesstime \in [Slots -> Nat]
  /\ rcount \in Int /\ rcount <= Cardinality(Slots)
  /\ now \in Nat
  /\ active \subseteq used /\ used \subseteq Ids /\ repeated \subseteq Remote
  /\ unserved \subseteq Remote
  /\ pointer \in [Own -> Slots \cup {NoSlot}]
  /\ exited \in BOOLEAN

(* "It should not slip memory underneath an active allocation": as long as *)
(* a call runs, the entry its runner points to is its own, whatever was    *)
(* entered, deleted and entered again meanwhile.                           *)
EntryIsMine ==
  ~exited => \A id \in Own \cap active :
    /\ pointer[id] \in Slots
    /\ actid[pointer[id]] = id
    /\ status[pointer[id]] = "STARTED"

(* A remote activity finds its entry, and so can send its result, unless   *)
(* its id came again: insert then leaves it in a deleted entry, which may  *)
(* be taken from it.                                                       *)
ResultIsSent ==
  ~exited => \A id \in (Remote \cap active) \ repeated :
    \E i \in Slots : status[i] = "STARTED" /\ actid[i] = id

(* No id has two entries. *)
OneEntryPerId == \A i, j \in Slots :
  status[i] # "EMPTY" /\ status[j] # "EMPTY" /\ actid[i] = actid[j] => i = j

(* rcount is the number of calls and activities with an entry, unless an   *)
(* id came again and its deleted entry was deleted twice.                  *)
CountRight ==
  repeated = {} => rcount = Cardinality({i \in Slots : status[i] = "STARTED"})

(* "we need it to check if a callback is relevant for the local node": an  *)
(* id that was used is found at least until the second is over.            *)
FoundForASecond ==
  [][\A id \in Ids : Has(id) /\ ~exited /\ (\E i \in Entries(id) : accesstime[i] = now) => Has(id)']_vars

(* The program gives up only when every entry is that of a call or an      *)
(* activity that runs, was touched in this very second, or was left behind *)
(* by an activity that ran no function: no other use of the table leaks.   *)
ExitsOnlyWhenFull ==
  exited => \A i \in Slots : actid[i] \in active \cup unserved \/ accesstime[i] = now
=============================================================================
