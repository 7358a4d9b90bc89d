--------------------------- MODULE Worker_proofs ---------------------------
(***************************************************************************)
(* What the worker thread keeps: the run table, and the connections to the *)
(* J nodes.                                                                *)
(*                                                                         *)
(* The run table, for any number of calls, entries and seconds: an entry   *)
(* belongs to its call until the call is over, rcount counts the running   *)
(* calls, and the program gives up only when no entry can be spared.       *)
(*                                                                         *)
(* The connections, for any number of hosts and any length of the queue: a *)
(* level in use has a client that is connected and subscribed, and is      *)
(* given up for no announcement but its own.                               *)
(***************************************************************************)
EXTENDS Connection, RunTable, TLAPS, FiniteSetTheorems, SequenceTheorems, WellFoundedInduction

Started == {i \in Slots : status[i] = "STARTED"}

(* Everything in the table has been used, and in the past. *)
IdsAreUsed == \A i \in Slots : status[i] # "EMPTY" => actid[i] \in used
UsedInThePast == \A i \in Slots : accesstime[i] <= now

(* A started entry is somebody's, or was left behind. *)
StartedIsOwned == \A i \in Slots : status[i] = "STARTED" => actid[i] \in active \cup unserved

CountBounded == rcount <= Cardinality(Started)

IInv ==
  /\ TypeOK /\ EntryIsMine /\ ResultIsSent /\ OneEntryPerId /\ CountRight /\ ExitsOnlyWhenFull
  /\ IdsAreUsed /\ UsedInThePast /\ CountBounded /\ StartedIsOwned

(***************************************************************************)
(* What the operations of the table do                                     *)
(***************************************************************************)
Found(id, i) ==
  /\ i \in Entries(id)
  /\ accesstime' = [accesstime EXCEPT ![i] = now]
  /\ UNCHANGED <<status, actid, rcount>>

Entered(id, i) ==
  /\ Entries(id) = {}
  /\ i \in Slots /\ status[i] # "STARTED"
  /\ status[i] = "EMPTY" \/ accesstime[i] < now
  /\ status' = [status EXCEPT ![i] = "STARTED"]
  /\ actid' = [actid EXCEPT ![i] = id]
  /\ accesstime' = [accesstime EXCEPT ![i] = now]
  /\ rcount' = rcount + 1

Deleted(id, i) ==
  /\ i \in Entries(id)
  /\ status' = [status EXCEPT ![i] = "DELETED"]
  /\ accesstime' = [accesstime EXCEPT ![i] = now]
  /\ rcount' = rcount - 1
  /\ actid' = actid

Full == \A i \in Slots : status[i] = "STARTED" \/ accesstime[i] = now

(* The entry that is found is one of the id. *)
LEMMA FindFinds ==
  ASSUME NEW id, Has(id)
  PROVE  Find(id) \in Entries(id)
  BY DEF Find, Has

(* A set of entries that is not empty has one touched longest ago. *)
LEMMA OldestExists ==
  ASSUME NEW S, S # {}, NEW f, \A i \in S : f[i] \in Nat
  PROVE  \E i \in S : \A j \in S : f[i] <= f[j]
<1> DEFINE T == {f[i] : i \in S}
           R == OpToRel(<, Nat)
<1>1. T \subseteq Nat /\ T # {}
  OBVIOUS
<1>2. \E x \in T : \A y \in T : ~(<<y, x>> \in R)
  <2> HIDE DEF T, R
  <2> QED  BY <1>1, NatLessThanWellFounded, WFMin DEF R
<1>3. PICK x \in T : \A y \in T : ~(<<y, x>> \in R)
  BY <1>2
<1>4. \A y \in T : x <= y
  <2> TAKE y \in T
  <2>1. x \in Nat /\ y \in Nat
    BY <1>1
  <2>2. ~(y < x)
    BY <1>3, <2>1 DEF OpToRel
  <2> QED  BY <2>1, <2>2
<1> QED  BY <1>3, <1>4

(* runtable_insert finds the id, enters it, or finds every entry in use. *)
LEMMA Inserting ==
  ASSUME TypeOK, UsedInThePast, NEW id \in Ids, Insert(id)
  PROVE  \/ (\E i \in Slots : Found(id, i)) /\ exited' = exited
         \/ (\E i \in Slots : Entered(id, i)) /\ exited' = exited
         \/ exited' = TRUE /\ Full /\ UNCHANGED tableVars
<1>1. CASE Has(id) /\ Touch(Find(id)) /\ UNCHANGED <<status, actid, rcount, exited>>
  <2>1. Find(id) \in Entries(id) /\ Find(id) \in Slots
    BY <1>1, FindFinds DEF Entries
  <2> QED  BY <1>1, <2>1 DEF Found, Touch
<1>2. ASSUME ~Has(id), NEW i \in Free,
             status' = [status EXCEPT ![i] = "STARTED"], actid' = [actid EXCEPT ![i] = id],
             Touch(i), rcount' = rcount + 1, exited' = exited
      PROVE  (\E k \in Slots : Entered(id, k)) /\ exited' = exited
  <2>1. i \in Slots /\ status[i] # "STARTED" /\ (status[i] = "EMPTY" \/ accesstime[i] < now)
    BY <1>2 DEF Free, Spare
  <2> QED  BY <1>2, <2>1 DEF Entered, Has, Touch
<1>3. CASE Free = {} /\ exited' = TRUE /\ UNCHANGED tableVars
  <2>1. {i \in Slots : status[i] = "EMPTY"} = {}
    BY <1>3 DEF Free
  <2>2. Spare = {}
    <3>1. \A i \in Spare : accesstime[i] \in Nat
      BY DEF Spare, TypeOK
    <3>2. ~ \E i \in Spare : \A j \in Spare : accesstime[i] <= accesstime[j]
      BY <1>3, <2>1 DEF Free
    <3> QED  BY <3>1, <3>2, OldestExists
  <2>3. Full
    <3> SUFFICES ASSUME NEW i \in Slots, status[i] # "STARTED"
                 PROVE  accesstime[i] = now
      BY DEF Full
    <3>1. status[i] = "DELETED"
      BY <2>1 DEF TypeOK
    <3>2. ~(accesstime[i] < now)
      BY <2>2, <3>1 DEF Spare
    <3>3. accesstime[i] \in Nat /\ now \in Nat /\ accesstime[i] <= now
      BY DEF TypeOK, UsedInThePast
    <3> QED  BY <3>2, <3>3
  <2> QED  BY <1>3, <2>3
<1> QED  BY <1>1, <1>2, <1>3 DEF Insert

(* runtable_del deletes the entry of an id that has one. *)
LEMMA Deleting ==
  ASSUME NEW id, Delete(id)
  PROVE  /\ exited' = exited
         /\ \/ \E i \in Slots : Deleted(id, i)
            \/ Entries(id) = {} /\ UNCHANGED tableVars
<1>1. CASE Has(id)
  <2>1. Find(id) \in Entries(id) /\ Find(id) \in Slots
    BY <1>1, FindFinds DEF Entries
  <2> QED  BY <1>1, <2>1 DEF Delete, Deleted, Touch
<1>2. CASE ~Has(id)
  BY <1>2 DEF Delete, Has
<1> QED  BY <1>1, <1>2

(***************************************************************************)
(* What they keep                                                          *)
(***************************************************************************)
Operation(id) ==
  \/ \E i \in Slots : Found(id, i) \/ Entered(id, i) \/ Deleted(id, i)
  \/ UNCHANGED tableVars

TableTyped ==
  /\ status \in [Slots -> {"EMPTY", "STARTED", "DELETED"}]
  /\ actid \in [Slots -> Ids \cup {NoId}]
  /\ accesstime \in [Slots -> Nat]
  /\ rcount \in Int

LEMMA KeepsTypes ==
  ASSUME IInv, NEW id \in Ids, Operation(id)
  PROVE  TableTyped' /\ (\A i \in Slots : accesstime'[i] <= now)
<1> USE DEF IInv, TypeOK, UsedInThePast, TableTyped, tableVars
<1>1. now \in Nat /\ now <= now
  OBVIOUS
<1>2. ASSUME NEW i \in Slots, Found(id, i)
      PROVE  TableTyped' /\ (\A j \in Slots : accesstime'[j] <= now)
  BY <1>1, <1>2 DEF Found
<1>3. ASSUME NEW i \in Slots, Entered(id, i)
      PROVE  TableTyped' /\ (\A j \in Slots : accesstime'[j] <= now)
  BY <1>1, <1>3 DEF Entered
<1>4. ASSUME NEW i \in Slots, Deleted(id, i)
      PROVE  TableTyped' /\ (\A j \in Slots : accesstime'[j] <= now)
  BY <1>1, <1>4 DEF Deleted
<1>5. CASE UNCHANGED tableVars
  BY <1>5
<1> QED  BY <1>2, <1>3, <1>4, <1>5 DEF Operation

(* Running entries of other ids stay what they are ... *)
LEMMA KeepsOthers ==
  ASSUME IInv, NEW id, Operation(id),
         NEW j \in Slots, status[j] = "STARTED", actid[j] # id
  PROVE  status'[j] = "STARTED" /\ actid'[j] = actid[j]
<1> USE DEF IInv, TypeOK, tableVars, Entries
<1>1. ASSUME NEW i \in Slots, Found(id, i) \/ Entered(id, i) \/ Deleted(id, i)
      PROVE  status'[j] = "STARTED" /\ actid'[j] = actid[j]
  BY <1>1 DEF Found, Entered, Deleted
<1> QED  BY <1>1 DEF Operation

(* ... and no id but the one of the operation is new. *)
LEMMA KeepsIds ==
  ASSUME IInv, NEW id \in Ids, Operation(id), NEW j \in Slots, status'[j] # "EMPTY"
  PROVE  actid'[j] = id \/ (status[j] # "EMPTY" /\ actid'[j] = actid[j])
<1> USE DEF IInv, TypeOK, tableVars, Entries
<1>1. ASSUME NEW i \in Slots, Found(id, i) \/ Entered(id, i) \/ Deleted(id, i)
      PROVE  actid'[j] = id \/ (status[j] # "EMPTY" /\ actid'[j] = actid[j])
  BY <1>1 DEF Found, Entered, Deleted
<1> QED  BY <1>1 DEF Operation

LEMMA KeepsOneEntry ==
  ASSUME IInv, NEW id \in Ids, Operation(id)
  PROVE  OneEntryPerId'
<1> SUFFICES ASSUME NEW j \in Slots, NEW k \in Slots, status'[j] # "EMPTY", status'[k] # "EMPTY",
                    actid'[j] = actid'[k]
             PROVE  j = k
  BY DEF OneEntryPerId
<1> USE DEF IInv, TypeOK, OneEntryPerId, tableVars
<1>1. ASSUME NEW i \in Slots, Found(id, i) \/ Deleted(id, i)
      PROVE  j = k
  BY <1>1 DEF Found, Deleted, Entries
<1>2. ASSUME NEW i \in Slots, Entered(id, i)
      PROVE  j = k
  <2>1. \A l \in Slots \ {i} : status'[l] = status[l] /\ actid'[l] = actid[l]
    BY <1>2 DEF Entered
  <2>2. \A l \in Slots \ {i} : status[l] # "EMPTY" => actid[l] # id
    BY <1>2 DEF Entered, Entries
  <2>3. actid'[i] = id
    BY <1>2 DEF Entered
  <2> QED  BY <2>1, <2>2, <2>3
<1> QED  BY <1>1, <1>2 DEF Operation

(***************************************************************************)
(* Counting                                                                *)
(***************************************************************************)
LEMMA StartedIsFinite == IsFiniteSet(Started) /\ Cardinality(Started) \in Nat /\
                         Cardinality(Started) <= Cardinality(Slots)
<1>1. IsFiniteSet(Slots) /\ Started \in SUBSET Slots
  BY RunTableAssumption DEF Started
<1>2. IsFiniteSet(Started) /\ Cardinality(Started) <= Cardinality(Slots)
  BY <1>1, FS_Subset
<1> QED  BY <1>2, FS_CardinalityType

LEMMA CountsFound ==
  ASSUME IInv, NEW id, NEW i \in Slots, Found(id, i)
  PROVE  rcount' = rcount /\ Started' = Started
  BY DEF Found, Started

LEMMA CountsEntered ==
  ASSUME IInv, NEW id, NEW i \in Slots, Entered(id, i)
  PROVE  rcount' = rcount + 1 /\ Cardinality(Started') = Cardinality(Started) + 1
<1>1. Started' = Started \cup {i} /\ i \notin Started
  BY DEF IInv, TypeOK, Entered, Started
<1> QED  BY <1>1, StartedIsFinite, FS_AddElement DEF Entered

LEMMA CountsDeleted ==
  ASSUME IInv, NEW id, NEW i \in Slots, Deleted(id, i)
  PROVE  /\ rcount' = rcount - 1
         /\ Cardinality(Started') = IF status[i] = "STARTED" THEN Cardinality(Started) - 1
                                                             ELSE Cardinality(Started)
<1>1. Started' = Started \ {i}
  BY DEF IInv, TypeOK, Deleted, Started
<1>2. i \in Started <=> status[i] = "STARTED"
  BY DEF Started
<1> QED  BY <1>1, <1>2, StartedIsFinite, FS_RemoveElement DEF Deleted

(* rcount stays below the number of running entries, and equal to it if it *)
(* was equal, unless a deleted entry is deleted.                           *)
LEMMA KeepsCount ==
  ASSUME IInv, NEW id \in Ids, Operation(id)
  PROVE  /\ rcount' <= Cardinality(Started')
         /\ \/ rcount = Cardinality(Started) => rcount' = Cardinality(Started')
            \/ \E i \in Slots : Deleted(id, i) /\ status[i] # "STARTED"
<1> USE StartedIsFinite DEF IInv, TypeOK, CountBounded
<1>1. ASSUME NEW i \in Slots, Found(id, i)
      PROVE  rcount' <= Cardinality(Started') /\ (rcount = Cardinality(Started) => rcount' = Cardinality(Started'))
  BY <1>1, CountsFound
<1>2. ASSUME NEW i \in Slots, Entered(id, i)
      PROVE  rcount' <= Cardinality(Started') /\ (rcount = Cardinality(Started) => rcount' = Cardinality(Started'))
  BY <1>2, CountsEntered
<1>3. ASSUME NEW i \in Slots, Deleted(id, i)
      PROVE  /\ rcount' <= Cardinality(Started')
             /\ \/ rcount = Cardinality(Started) => rcount' = Cardinality(Started')
                \/ status[i] # "STARTED"
  BY <1>3, CountsDeleted
<1>4. CASE UNCHANGED tableVars
  BY <1>4 DEF tableVars, Started
<1> QED  BY <1>1, <1>2, <1>3, <1>4 DEF Operation

(***************************************************************************)
(* The users                                                               *)
(***************************************************************************)

(* An operation on one id leaves the entries of the others alone. *)
LEMMA KeepsMine ==
  ASSUME IInv, ~exited, NEW id, Operation(id), NEW o \in Own \cap active, o # id
  PROVE  /\ pointer[o] \in Slots
         /\ actid'[pointer[o]] = o
         /\ status'[pointer[o]] = "STARTED"
<1>1. pointer[o] \in Slots /\ actid[pointer[o]] = o /\ status[pointer[o]] = "STARTED"
  BY DEF IInv, EntryIsMine
<1> QED  BY <1>1, KeepsOthers

LEMMA KeepsResult ==
  ASSUME IInv, ~exited, NEW id, Operation(id),
         NEW r \in (Remote \cap active) \ repeated, r # id
  PROVE  \E i \in Slots : status'[i] = "STARTED" /\ actid'[i] = r
<1>1. PICK i \in Slots : status[i] = "STARTED" /\ actid[i] = r
  BY DEF IInv, ResultIsSent
<1> QED  BY <1>1, KeepsOthers

(* What every step on the table keeps, whoever takes it. *)
LEMMA KeepsTable ==
  ASSUME IInv, ~exited, NEW id \in Ids, Operation(id), exited' = exited, now' = now,
         used' = used \/ used' = used \cup {id}, id \in used'
  PROVE  /\ TableTyped' /\ rcount' <= Cardinality(Slots) /\ UsedInThePast'
         /\ OneEntryPerId' /\ ExitsOnlyWhenFull' /\ IdsAreUsed' /\ CountBounded'
<1>1. TableTyped' /\ UsedInThePast'
  BY KeepsTypes DEF UsedInThePast
<1>2. OneEntryPerId'
  BY KeepsOneEntry
<1>3. ExitsOnlyWhenFull'
  BY DEF ExitsOnlyWhenFull
<1>4. IdsAreUsed'
  <2> SUFFICES ASSUME NEW j \in Slots, status'[j] # "EMPTY"
               PROVE  actid'[j] \in used'
    BY DEF IdsAreUsed
  <2>1. actid'[j] = id \/ (status[j] # "EMPTY" /\ actid'[j] = actid[j])
    BY KeepsIds
  <2> QED  BY <2>1 DEF IInv, IdsAreUsed
<1>5. rcount' <= Cardinality(Started')
  BY KeepsCount
<1>6. CountBounded'
  BY <1>5 DEF CountBounded
<1>7. IsFiniteSet(Slots) /\ Started' \in SUBSET Slots
  BY RunTableAssumption DEF Started
<1>8. /\ Cardinality(Started') <= Cardinality(Slots) /\ Cardinality(Started') \in Nat
      /\ Cardinality(Slots) \in Nat
  BY <1>7, FS_Subset, FS_CardinalityType
<1>9. rcount' \in Int
  BY <1>1 DEF TableTyped
<1> QED  BY <1>1, <1>2, <1>3, <1>4, <1>5, <1>6, <1>8, <1>9

(* A step that ends the program leaves the table as it is. *)
LEMMA KeepsAtExit ==
  ASSUME IInv, exited' = TRUE, Full, UNCHANGED tableVars, now' = now,
         used \subseteq used', used' \subseteq Ids, active' \subseteq used', pointer' = pointer,
         active \subseteq active', unserved' = unserved, repeated \subseteq repeated', repeated' \subseteq Remote
  PROVE  IInv'
<1>1. Started' = Started
  BY DEF Started, tableVars
<1>2. CountRight' /\ CountBounded'
  <2>1. CountBounded'
    BY <1>1 DEF IInv, CountBounded, tableVars
  <2>2. CountRight <=> (repeated = {} => rcount = Cardinality(Started))
    BY DEF CountRight, Started
  <2>3. CountRight' <=> (repeated' = {} => rcount' = Cardinality(Started'))
    BY DEF CountRight, Started
  <2> QED  BY <1>1, <2>1, <2>2, <2>3 DEF IInv, tableVars
<1>3. TypeOK' /\ OneEntryPerId' /\ IdsAreUsed' /\ UsedInThePast' /\ StartedIsOwned'
  BY DEF IInv, TypeOK, OneEntryPerId, IdsAreUsed, UsedInThePast, StartedIsOwned, tableVars
<1>4. EntryIsMine' /\ ResultIsSent' /\ ExitsOnlyWhenFull'
  BY DEF IInv, EntryIsMine, ResultIsSent, ExitsOnlyWhenFull, StartedIsOwned, Full, tableVars
<1> QED  BY <1>2, <1>3, <1>4 DEF IInv

(* Only an id whose entry is deleted may cease to own it. *)
LEMMA KeepsOwned ==
  ASSUME IInv, NEW id \in Ids, Operation(id), active \subseteq active' \cup {id},
         unserved \subseteq unserved',
         \/ id \in active'
         \/ \E i \in Slots : Deleted(id, i)
         \/ Entries(id) = {} /\ UNCHANGED tableVars
  PROVE  StartedIsOwned'
<1> USE DEF IInv, TypeOK, tableVars, Entries
<1> SUFFICES ASSUME NEW j \in Slots, status'[j] = "STARTED"
             PROVE  actid'[j] \in active' \cup unserved'
  BY DEF StartedIsOwned
<1>1. CASE actid'[j] # id
  <2>1. actid'[j] = actid[j] /\ status[j] = "STARTED"
    <3>1. ASSUME NEW i \in Slots, Found(id, i) \/ Entered(id, i) \/ Deleted(id, i)
          PROVE  actid'[j] = actid[j] /\ status[j] = "STARTED"
      BY <1>1, <3>1 DEF Found, Entered, Deleted
    <3> QED  BY <3>1 DEF Operation
  <2> QED  BY <1>1, <2>1 DEF StartedIsOwned
<1>2. CASE actid'[j] = id /\ id \notin active'
  <2>1. ASSUME NEW i \in Slots, Deleted(id, i)
        PROVE  FALSE
    BY <1>2, <2>1 DEF Deleted, OneEntryPerId
  <2>2. CASE Entries(id) = {} /\ UNCHANGED tableVars
    BY <1>2, <2>2
  <2> QED  BY <1>2, <2>1, <2>2
<1> QED  BY <1>1, <1>2

(* An id that was never used has no entry. *)
LEMMA NewHasNone ==
  ASSUME IInv, NEW id, id \notin used
  PROVE  Entries(id) = {}
  BY DEF IInv, IdsAreUsed, Entries

LEMMA CountIs == CountRight <=> (repeated = {} => rcount = Cardinality(Started))
  BY DEF CountRight, Started

LEMMA StepStartCall ==
  ASSUME IInv, NEW id \in Ids, StartCall(id)
  PROVE  IInv'
<1> USE DEF StartCall
<1>1. Entries(id) = {}
  BY NewHasNone
<1>2. \/ (\E i \in Slots : Entered(id, i)) /\ exited' = exited
      \/ exited' = TRUE /\ Full /\ UNCHANGED tableVars
  BY <1>1, Inserting DEF IInv, Found
<1>3. CASE exited' = TRUE /\ Full /\ UNCHANGED tableVars
  BY <1>3, KeepsAtExit DEF IInv, TypeOK
<1>4. ASSUME NEW i \in Slots, Entered(id, i), exited' = exited
      PROVE  IInv'
  <2>1. Operation(id)
    BY <1>4 DEF Operation
  <2>2. /\ TableTyped' /\ rcount' <= Cardinality(Slots) /\ UsedInThePast'
        /\ OneEntryPerId' /\ ExitsOnlyWhenFull' /\ IdsAreUsed' /\ CountBounded'
    BY <1>4, <2>1, KeepsTable
  <2>3. status'[i] = "STARTED" /\ actid'[i] = id
    BY <1>4 DEF Entered, IInv, TypeOK
  <2>4. Entries(id)' = {i}
    BY <2>2, <2>3 DEF Entries, OneEntryPerId
  <2>5. Find(id)' = i
    BY <2>4 DEF Find
  <2>6. pointer' = [pointer EXCEPT ![id] = i]
    BY <1>4, <2>5
  <2>7. TypeOK'
    BY <1>4, <2>2, <2>6 DEF TypeOK, TableTyped, IInv
  <2>8. EntryIsMine'
    <3> SUFFICES ASSUME NEW o \in Own \cap active'
                 PROVE  /\ pointer'[o] \in Slots
                        /\ actid'[pointer'[o]] = o
                        /\ status'[pointer'[o]] = "STARTED"
      BY DEF EntryIsMine
    <3>1. CASE o = id
      BY <2>3, <2>6, <3>1 DEF IInv, TypeOK
    <3>2. CASE o # id
      <4>1. o \in Own \cap active /\ pointer'[o] = pointer[o]
        BY <2>6, <3>2 DEF IInv, TypeOK
      <4> QED  BY <2>1, <3>2, <4>1, KeepsMine
    <3> QED  BY <3>1, <3>2
  <2>9. ResultIsSent'
    <3> SUFFICES ASSUME NEW r \in (Remote \cap active') \ repeated'
                 PROVE  \E k \in Slots : status'[k] = "STARTED" /\ actid'[k] = r
      BY DEF ResultIsSent
    <3>1. r # id
      BY RunTableAssumption
    <3> QED  BY <2>1, <3>1, KeepsResult
  <2>10. CountRight'
    <3>1. rcount' = rcount + 1 /\ Cardinality(Started') = Cardinality(Started) + 1
      BY <1>4, CountsEntered
    <3>2. CountRight' <=> (repeated' = {} => rcount' = Cardinality(Started'))
      BY DEF CountRight, Started
    <3> QED  BY <3>1, <3>2, CountIs DEF IInv
  <2>11. StartedIsOwned'
    BY <2>1, KeepsOwned
  <2> QED  BY <2>2, <2>7, <2>8, <2>9, <2>10, <2>11 DEF IInv
<1> QED  BY <1>2, <1>3, <1>4

(* A step of another id keeps what running calls and activities rely on. *)
LEMMA KeepsUsers ==
  ASSUME IInv, ~exited, NEW id \in Ids, Operation(id), pointer' = pointer,
         active' \subseteq active \cup {id}, repeated \subseteq repeated',
         id \notin Own \cap active',
         id \in (Remote \cap active') \ repeated' =>
           \E i \in Slots : status'[i] = "STARTED" /\ actid'[i] = id
  PROVE  EntryIsMine' /\ ResultIsSent'
<1>1. EntryIsMine'
  <2> SUFFICES ASSUME NEW o \in Own \cap active'
               PROVE  /\ pointer'[o] \in Slots
                      /\ actid'[pointer'[o]] = o
                      /\ status'[pointer'[o]] = "STARTED"
    BY DEF EntryIsMine
  <2> QED  BY KeepsMine
<1>2. ResultIsSent'
  <2> SUFFICES ASSUME NEW r \in (Remote \cap active') \ repeated'
               PROVE  \E k \in Slots : status'[k] = "STARTED" /\ actid'[k] = r
    BY DEF ResultIsSent
  <2>1. CASE r = id
    BY <2>1
  <2>2. CASE r # id
    BY <2>2, KeepsResult
  <2> QED  BY <2>1, <2>2
<1> QED  BY <1>1, <1>2

(* Nothing but a running entry is deleted that no id came again for. *)
LEMMA KeepsCountRight ==
  ASSUME IInv, ~exited, NEW id \in Ids, Operation(id), repeated \subseteq repeated',
         \A i \in Slots : Deleted(id, i) => status[i] = "STARTED" \/ repeated' # {}
  PROVE  CountRight'
<1>1. CountRight' <=> (repeated' = {} => rcount' = Cardinality(Started'))
  BY DEF CountRight, Started
<1>2. CASE repeated' = {}
  <2>1. rcount = Cardinality(Started)
    BY <1>2, CountIs DEF IInv
  <2>2. \A i \in Slots : Deleted(id, i) => status[i] = "STARTED"
    BY <1>2
  <2> QED  BY <1>1, <2>1, <2>2, KeepsCount
<1> QED  BY <1>1, <1>2

LEMMA StepEndCall ==
  ASSUME IInv, NEW id \in Ids, EndCall(id)
  PROVE  IInv'
<1> USE DEF EndCall
<1>1. /\ id \in Own /\ pointer[id] \in Slots
      /\ actid[pointer[id]] = id /\ status[pointer[id]] = "STARTED"
  BY DEF IInv, EntryIsMine
<1>2. Delete(id)
  BY <1>1
<1>3. exited' = exited /\ Operation(id)
  BY <1>2, Deleting DEF Operation
<1>4. /\ TableTyped' /\ rcount' <= Cardinality(Slots) /\ UsedInThePast'
      /\ OneEntryPerId' /\ ExitsOnlyWhenFull' /\ IdsAreUsed' /\ CountBounded'
  BY <1>3, KeepsTable DEF IInv, TypeOK
<1>5. TypeOK'
  BY <1>3, <1>4 DEF TypeOK, TableTyped, IInv
<1>6. EntryIsMine' /\ ResultIsSent'
  BY <1>1, <1>3, KeepsUsers, RunTableAssumption
<1>7. CountRight'
  <2>1. \A i \in Slots : Deleted(id, i) => status[i] = "STARTED"
    BY <1>1 DEF Deleted, Entries, IInv, OneEntryPerId
  <2> QED  BY <1>3, <2>1, KeepsCountRight
<1>8. StartedIsOwned'
  BY <1>2, <1>3, Deleting, KeepsOwned
<1> QED  BY <1>4, <1>5, <1>6, <1>7, <1>8 DEF IInv

LEMMA StepStartRemote ==
  ASSUME IInv, NEW id \in Ids, StartRemote(id)
  PROVE  IInv'
<1> USE DEF StartRemote
<1>1. \/ (\E i \in Slots : Found(id, i) \/ Entered(id, i)) /\ exited' = exited
      \/ exited' = TRUE /\ Full /\ UNCHANGED tableVars
  BY Inserting DEF IInv
<1>2. used' \subseteq Ids /\ active' \subseteq used' /\ repeated \subseteq repeated' /\ repeated' \subseteq Remote
  BY DEF IInv, TypeOK
<1>3. CASE exited' = TRUE /\ Full /\ UNCHANGED tableVars
  BY <1>2, <1>3, KeepsAtExit
<1>4. ASSUME NEW i \in Slots, Found(id, i) \/ Entered(id, i), exited' = exited
      PROVE  IInv'
  <2>1. Operation(id)
    BY <1>4 DEF Operation
  <2>2. /\ TableTyped' /\ rcount' <= Cardinality(Slots) /\ UsedInThePast'
        /\ OneEntryPerId' /\ ExitsOnlyWhenFull' /\ IdsAreUsed' /\ CountBounded'
    BY <1>4, <2>1, KeepsTable
  <2>3. TypeOK'
    BY <1>2, <1>4, <2>2 DEF TypeOK, TableTyped, IInv
  <2>4. id \notin repeated' => \E k \in Slots : status'[k] = "STARTED" /\ actid'[k] = id
    <3> SUFFICES ASSUME id \notin repeated'
                 PROVE  status'[i] = "STARTED" /\ actid'[i] = id
      OBVIOUS
    <3>1. id \notin used
      OBVIOUS
    <3>2. Entries(id) = {}
      BY <3>1, NewHasNone
    <3>3. Entered(id, i)
      BY <1>4, <3>2 DEF Found
    <3> QED  BY <3>3 DEF Entered, IInv, TypeOK
  <2>5. EntryIsMine' /\ ResultIsSent'
    BY <1>2, <2>1, <2>4, KeepsUsers, RunTableAssumption
  <2>6. CountRight'
    <3>1. \A k \in Slots : Deleted(id, k) => status[k] = "STARTED" \/ repeated' # {}
      <4> SUFFICES ASSUME NEW k \in Slots, Deleted(id, k)
                   PROVE  FALSE
        OBVIOUS
      <4>1. rcount \in Int
        BY DEF IInv, TypeOK
      <4>2. rcount' = rcount - 1
        BY DEF Deleted
      <4>3. rcount' = rcount \/ rcount' = rcount + 1
        BY <1>4 DEF Found, Entered
      <4> QED  BY <4>1, <4>2, <4>3
    <3> QED  BY <1>2, <2>1, <3>1, KeepsCountRight
  <2>7. StartedIsOwned'
    BY <2>1, KeepsOwned
  <2> QED  BY <2>2, <2>3, <2>5, <2>6, <2>7 DEF IInv
<1> QED  BY <1>1, <1>3, <1>4

LEMMA StepComplete ==
  ASSUME IInv, NEW id \in Ids, Complete(id)
  PROVE  IInv'
<1> USE DEF Complete
<1>1. PICK i \in Slots : Found(id, i)
  <2>1. Find(id) \in Entries(id) /\ Find(id) \in Slots
    BY FindFinds DEF Entries
  <2> QED  BY <2>1 DEF Found, Touch
<1>2. Operation(id)
  BY <1>1 DEF Operation
<1>3. id \in used
  BY DEF IInv, TypeOK
<1>4. /\ TableTyped' /\ rcount' <= Cardinality(Slots) /\ UsedInThePast'
      /\ OneEntryPerId' /\ ExitsOnlyWhenFull' /\ IdsAreUsed' /\ CountBounded'
  BY <1>2, <1>3, KeepsTable
<1>5. TypeOK'
  BY <1>4 DEF TypeOK, TableTyped, IInv
<1>6. EntryIsMine' /\ ResultIsSent'
  BY DEF IInv, EntryIsMine, ResultIsSent
<1>7. CountRight'
  BY CountIs, CountsFound, <1>1 DEF CountRight, Started, IInv
<1>8. StartedIsOwned'
  BY <1>2, KeepsOwned
<1> QED  BY <1>4, <1>5, <1>6, <1>7, <1>8 DEF IInv

LEMMA StepEndRemote ==
  ASSUME IInv, NEW id \in Ids, EndRemote(id)
  PROVE  IInv'
<1> USE DEF EndRemote
<1>1. exited' = exited /\ Operation(id)
  BY Deleting DEF Operation
<1>2. /\ TableTyped' /\ rcount' <= Cardinality(Slots) /\ UsedInThePast'
      /\ OneEntryPerId' /\ ExitsOnlyWhenFull' /\ IdsAreUsed' /\ CountBounded'
  BY <1>1, KeepsTable DEF IInv, TypeOK
<1>3. TypeOK'
  BY <1>1, <1>2 DEF TypeOK, TableTyped, IInv
<1>4. EntryIsMine' /\ ResultIsSent'
  BY <1>1, KeepsUsers
<1>5. CountRight'
  <2>1. ASSUME NEW i \in Slots, Deleted(id, i), id \notin repeated
        PROVE  status[i] = "STARTED"
    <3>1. PICK k \in Slots : status[k] = "STARTED" /\ actid[k] = id
      BY <2>1 DEF IInv, ResultIsSent
    <3>2. status[i] # "EMPTY" /\ actid[i] = id
      BY <2>1 DEF Deleted, Entries
    <3> QED  BY <3>1, <3>2 DEF IInv, OneEntryPerId
  <2> QED  BY <1>1, <2>1, KeepsCountRight
<1>6. StartedIsOwned'
  BY <1>1, Deleting, KeepsOwned
<1> QED  BY <1>2, <1>3, <1>4, <1>5, <1>6 DEF IInv

LEMMA StepIgnoreRemote ==
  ASSUME IInv, NEW id \in Ids, IgnoreRemote(id)
  PROVE  IInv'
<1> USE DEF IgnoreRemote, tableVars
<1>1. TypeOK' /\ OneEntryPerId' /\ IdsAreUsed' /\ UsedInThePast'
  BY DEF IInv, TypeOK, OneEntryPerId, IdsAreUsed, UsedInThePast
<1>2. CountBounded' /\ CountRight'
  BY DEF IInv, CountBounded, CountRight, Started
<1>3. EntryIsMine' /\ ResultIsSent' /\ ExitsOnlyWhenFull' /\ StartedIsOwned'
  BY DEF IInv, EntryIsMine, ResultIsSent, ExitsOnlyWhenFull, StartedIsOwned
<1> QED  BY <1>1, <1>2, <1>3 DEF IInv

LEMMA StepTick ==
  ASSUME IInv, Tick
  PROVE  IInv'
<1> USE DEF Tick, tableVars
<1>1. now \in Nat /\ now' = now + 1 /\ \A i \in Slots : accesstime[i] \in Nat /\ accesstime[i] <= now
  BY DEF IInv, TypeOK, UsedInThePast
<1>2. UsedInThePast'
  BY <1>1 DEF UsedInThePast
<1>3. TypeOK' /\ OneEntryPerId' /\ IdsAreUsed' /\ CountBounded' /\ CountRight'
  BY <1>1 DEF IInv, TypeOK, OneEntryPerId, IdsAreUsed, CountBounded, CountRight, Started
<1>4. EntryIsMine' /\ ResultIsSent' /\ ExitsOnlyWhenFull' /\ StartedIsOwned'
  BY DEF IInv, EntryIsMine, ResultIsSent, ExitsOnlyWhenFull, StartedIsOwned
<1> QED  BY <1>2, <1>3, <1>4 DEF IInv

LEMMA Stutter ==
  ASSUME IInv, UNCHANGED vars
  PROVE  IInv'
<1> USE DEF IInv, vars, tableVars
<1>1. TypeOK' /\ OneEntryPerId' /\ IdsAreUsed' /\ UsedInThePast'
  BY DEF TypeOK, OneEntryPerId, IdsAreUsed, UsedInThePast
<1>2. CountBounded' /\ CountRight'
  BY DEF CountBounded, CountRight, Started
<1>3. EntryIsMine' /\ ResultIsSent' /\ ExitsOnlyWhenFull' /\ StartedIsOwned'
  BY DEF EntryIsMine, ResultIsSent, ExitsOnlyWhenFull, StartedIsOwned
<1> QED  BY <1>1, <1>2, <1>3

LEMMA Initially == Init => IInv
<1> SUFFICES ASSUME Init
             PROVE  IInv
  OBVIOUS
<1> USE DEF Init
<1>1. Started = {}
  BY DEF Started
<1>2. Cardinality(Started) = 0 /\ Cardinality(Slots) \in Nat
  BY <1>1, FS_EmptySet, FS_CardinalityType, RunTableAssumption
<1>3. TypeOK /\ UsedInThePast
  <2>1. /\ status \in [Slots -> {"EMPTY", "STARTED", "DELETED"}]
        /\ actid \in [Slots -> Ids \cup {NoId}]
        /\ accesstime \in [Slots -> Nat]
        /\ pointer \in [Own -> Slots \cup {NoSlot}]
    OBVIOUS
  <2>2. rcount \in Int /\ rcount <= Cardinality(Slots) /\ now \in Nat
    BY <1>2
  <2>3. /\ active \subseteq used /\ used \subseteq Ids /\ repeated \subseteq Remote
        /\ unserved \subseteq Remote /\ exited \in BOOLEAN
    OBVIOUS
  <2>4. UsedInThePast
    BY DEF UsedInThePast
  <2>5. TypeOK
    <3> HIDE DEF Init
    <3> QED  BY <2>1, <2>2, <2>3 DEF TypeOK
  <2> QED  BY <2>4, <2>5
<1>4. CountBounded /\ CountRight
  BY <1>2, CountIs DEF CountBounded
<1>5. /\ EntryIsMine /\ ResultIsSent /\ OneEntryPerId /\ ExitsOnlyWhenFull /\ IdsAreUsed
      /\ StartedIsOwned
  BY DEF EntryIsMine, ResultIsSent, OneEntryPerId, ExitsOnlyWhenFull, IdsAreUsed, StartedIsOwned
<1> QED  BY <1>3, <1>4, <1>5 DEF IInv

(* The invariant holds of every reachable state of the table. *)
THEOREM Invariance == Spec => []IInv
<1>1. IInv /\ [Next]_vars => IInv'
  <2> SUFFICES ASSUME IInv, [Next]_vars
               PROVE  IInv'
    OBVIOUS
  <2>1. CASE UNCHANGED vars
    BY <2>1, Stutter
  <2>2. CASE Tick
    BY <2>2, StepTick
  <2>3. ASSUME NEW id \in Ids,
               \/ StartCall(id) \/ EndCall(id)
               \/ StartRemote(id) \/ Complete(id) \/ EndRemote(id) \/ IgnoreRemote(id)
        PROVE  IInv'
    BY <2>3, StepStartCall, StepEndCall, StepStartRemote, StepComplete, StepEndRemote,
       StepIgnoreRemote
  <2> QED  BY <2>1, <2>2, <2>3 DEF Next
<1> QED  BY <1>1, Initially, PTL DEF Spec

(* While a call of jam_async_runner runs, the entry it points to is its    *)
(* own and started, whatever other calls come and go.                      *)
THEOREM CallKeepsItsEntry == Spec => []EntryIsMine
<1>1. IInv => EntryIsMine
  BY DEF IInv
<1> QED  BY <1>1, Invariance, PTL

(* activity_complete finds the entry of every remote activity whose id did *)
(* not come again.                                                         *)
THEOREM ResultsAreSent == Spec => []ResultIsSent
<1>1. IInv => ResultIsSent
  BY DEF IInv
<1> QED  BY <1>1, Invariance, PTL

(* runtable_find has one entry to find. *)
THEOREM OneEntry == Spec => []OneEntryPerId
<1>1. IInv => OneEntryPerId
  BY DEF IInv
<1> QED  BY <1>1, Invariance, PTL

(* rcount counts the started entries, and the program ends in              *)
(* runtable_insert only when every entry is in use, recent, or left behind *)
(* by an activity that ran no function.                                    *)
THEOREM CountsAndExits == Spec => [](TypeOK /\ CountRight /\ ExitsOnlyWhenFull)
<1>1. IInv => TypeOK /\ CountRight /\ ExitsOnlyWhenFull
  BY DEF IInv
<1> QED  BY <1>1, Invariance, PTL

(* An id used in this second is still found after any step.               *)
THEOREM RecentIdsAreFound == Spec => FoundForASecond
<1> DEFINE Recent(id) == Has(id) /\ ~exited /\ \E i \in Entries(id) : accesstime[i] = now
<1>1. IInv /\ [Next]_vars => [\A id \in Ids : Recent(id) => Has(id)']_vars
  <2> SUFFICES ASSUME IInv, Next, NEW id \in Ids, Recent(id)
               PROVE  Has(id)'
    OBVIOUS
  <2>1. PICK i \in Slots : status[i] # "EMPTY" /\ actid[i] = id /\ accesstime[i] = now
    BY DEF Entries
  <2>2. ASSUME NEW o, Operation(o)
        PROVE  status'[i] # "EMPTY" /\ actid'[i] = id
    <3>1. accesstime[i] \in Nat /\ ~(accesstime[i] < now)
      BY <2>1 DEF IInv, TypeOK
    <3>2. ASSUME NEW k \in Slots, Found(o, k) \/ Entered(o, k) \/ Deleted(o, k)
          PROVE  status'[i] # "EMPTY" /\ actid'[i] = id
      BY <2>1, <3>1, <3>2 DEF Found, Entered, Deleted, Entries, IInv, TypeOK
    <3> QED  BY <2>1, <2>2, <3>2 DEF Operation, tableVars
  <2>3. \/ \E o : Operation(o)
        \/ UNCHANGED <<status, actid>>
    <3>1. ASSUME NEW o \in Ids, Insert(o)
          PROVE  \E q : Operation(q)
      BY <3>1, Inserting DEF Operation, IInv
    <3>2. ASSUME NEW o, Delete(o)
          PROVE  \E q : Operation(q)
      BY <3>2, Deleting DEF Operation
    <3> QED  BY <3>1, <3>2 DEF Next, StartCall, EndCall, StartRemote, Complete, EndRemote, IgnoreRemote,
                               Tick, tableVars
  <2>4. status'[i] # "EMPTY" /\ actid'[i] = id
    BY <2>1, <2>2, <2>3
  <2> QED  BY <2>4 DEF Has, Entries
<1> QED  BY <1>1, Invariance, PTL DEF Spec, FoundForASecond

(***************************************************************************)
(* The connections: what holds of each level between two steps             *)
(***************************************************************************)
Disabling(l) == worker.pc = "disable" /\ worker.level = l
Welcoming(l) == Calling(l) /\ paho.pc \notin {"lost", "reconnect"}

(* What a level's flags, its clients and the threads at work say of each   *)
(* other.                                                                  *)
LevelOK(l) ==
  /\ enabled[l] \/ Calling(l) => HasClient(l)
  /\ \A k \in DOMAIN clients[l] : clients[l][k].host \in Hosts
  /\ Disabling(l) => hid[l] = NoHost
  /\ l \notin muddled =>
       /\ Welcoming(l) => Current(l).state = "connected" /\ ~Disabling(l)
       /\ Welcoming(l) /\ paho.pc = "subscribe" => enabled[l]
       /\ Welcoming(l) /\ paho.pc \in {"check", "write"} => Current(l).subscribed
       /\ enabled[l] \/ Welcoming(l) =>
            Current(l).host = (IF Disabling(l) THEN worker.host ELSE hid[l])
       /\ Calling(l) /\ paho.pc = "reconnect" => ~enabled[l]

LevelsOK == HasClient(0) /\ \A l \in Levels : LevelOK(l)

IConn == ConnectionInv /\ LevelsOK

-----------------------------------------------------------------------------
(* Clients *)


LEMMA SetToSeqElements ==
  ASSUME NEW S, IsFiniteSet(S)
  PROVE  Cardinality(S) \in Nat /\ SetToSeq(S) \in [1..Cardinality(S) -> S]
<1>1. Cardinality(S) \in Nat /\ ExistsBijection(1..Cardinality(S), S)
  BY FS_CardinalityType
<1>2. \E f \in [1..Cardinality(S) -> S] : IsInjective(f)
  BY <1>1 DEF ExistsBijection, Bijection, Injection
<1> QED
  BY <1>1, <1>2 DEF SetToSeq

LEMMA LastClient ==
  ASSUME NEW s \in Seq(Clients), s # <<>>
  PROVE  Len(s) \in DOMAIN s /\ Len(s) \in Nat /\ Last(s) = s[Len(s)] /\ Last(s) \in Clients
BY DEF Last

Changed(l, k, c) == [clients EXCEPT ![l] = [clients[l] EXCEPT ![k] = c]]

LEMMA ClientChanged ==
  ASSUME clients \in [All -> Seq(Clients)], NEW l \in All, NEW k \in DOMAIN clients[l],
         NEW c \in Clients, clients' = Changed(l, k, c)
  PROVE  /\ clients' \in [All -> Seq(Clients)]
         /\ \A m \in All \ {l} : clients'[m] = clients[m]
         /\ HasClient(l) /\ HasClient(l)'
         /\ DOMAIN clients'[l] = DOMAIN clients[l] /\ clients'[l][k] = c
         /\ \A j \in DOMAIN clients[l] \ {k} : clients'[l][j] = clients[l][j]
         /\ Current(l)' = IF k = Len(clients[l]) THEN c ELSE Current(l)
<1> DEFINE s == [clients[l] EXCEPT ![k] = c]
<1>1. clients[l] \in Seq(Clients) /\ clients[l] # <<>>
  OBVIOUS
<1>2. s \in Seq(Clients) /\ DOMAIN s = DOMAIN clients[l] /\ Len(s) = Len(clients[l]) /\ s # <<>>
  BY <1>1
<1>3. s[k] = c /\ \A j \in DOMAIN clients[l] \ {k} : s[j] = clients[l][j]
  BY <1>1
<1>4. clients'[l] = s /\ \A m \in All \ {l} : clients'[m] = clients[m]
  BY DEF Changed
<1>5. clients' \in [All -> Seq(Clients)]
  BY <1>2 DEF Changed
<1>6. Current(l)' = s[Len(s)] /\ Current(l) = clients[l][Len(clients[l])]
  BY <1>1, <1>2, <1>4, LastClient DEF Current
<1>7. Len(clients[l]) \in DOMAIN clients[l]
  BY <1>1, LastClient
<1> QED
  BY <1>1, <1>2, <1>3, <1>4, <1>5, <1>6, <1>7 DEF HasClient

Added(l, c) == [clients EXCEPT ![l] = Append(clients[l], c)]

LEMMA ClientAdded ==
  ASSUME clients \in [All -> Seq(Clients)], NEW l \in All, NEW c \in Clients,
         clients' = Added(l, c)
  PROVE  /\ clients' \in [All -> Seq(Clients)]
         /\ \A m \in All \ {l} : clients'[m] = clients[m]
         /\ HasClient(l)' /\ Current(l)' = c
         /\ \A k \in DOMAIN clients'[l] : clients'[l][k] = c \/ (k \in DOMAIN clients[l] /\ clients'[l][k] = clients[l][k])
<1> DEFINE s == Append(clients[l], c)
<1>1. clients[l] \in Seq(Clients)
  OBVIOUS
<1>2. s \in Seq(Clients) /\ s # <<>> /\ Len(s) = Len(clients[l]) + 1 /\ s[Len(s)] = c
  BY <1>1, AppendProperties
<1>3. \A k \in DOMAIN s : s[k] = c \/ (k \in DOMAIN clients[l] /\ s[k] = clients[l][k])
  BY <1>1
<1>4. clients'[l] = s /\ clients' \in [All -> Seq(Clients)] /\ \A m \in All \ {l} : clients'[m] = clients[m]
  BY <1>2 DEF Added
<1>5. Current(l)' = c
  BY <1>2, <1>4, LastClient DEF Current
<1> QED
  BY <1>2, <1>3, <1>4, <1>5 DEF HasClient

-----------------------------------------------------------------------------
(* Steps that leave connections alone *)

LEMMA QuietStep ==
  ASSUME IConn, ConnTypeOK', UNCHANGED <<enabled, hid, clients, paho, muddled>>,
         worker' = worker \/ (worker.pc # "disable" /\ worker'.pc # "disable")
  PROVE  IConn'
<1>1. \A l \in Levels : /\ LevelOK(l)
                        /\ enabled[l] /\ l \notin muddled =>
                             \/ Current(l).state = "connected" /\ Current(l).subscribed
                             \/ Calling(l) \/ Disabling(l)
  BY DEF IConn, LevelsOK, ConnectionInv, EnabledIsUp, Disabling
<1>2. \A l \in Levels : /\ Current(l)' = Current(l) /\ Calling(l)' = Calling(l) /\ Disabling(l)' = Disabling(l)
                        /\ Welcoming(l)' = Welcoming(l) /\ HasClient(l)' = HasClient(l)
                        /\ Disabling(l) => worker' = worker
  BY DEF Current, Calling, Disabling, Welcoming, HasClient
<1>3. \A l \in Levels : LevelOK(l)'
  BY <1>1, <1>2 DEF LevelOK
<1>4. EnabledIsUp'
  BY <1>1, <1>2 DEF EnabledIsUp, Disabling
<1>5. HasClient(0)'
  BY DEF HasClient, IConn, LevelsOK
<1> QED
  BY <1>3, <1>4, <1>5 DEF IConn, LevelsOK, ConnectionInv

LEMMA TakenMessage ==
  ASSUME ConnTypeOK, NEW type, Take(type)
  PROVE  /\ inq' \in Seq(Messages) /\ Head(inq).type = type /\ worker = Idle
         /\ type \in {"ADD", "DEL"} => Head(inq).level \in Levels /\ Head(inq).host \in Hosts
<1>1. inq \in Seq(Messages) /\ inq # <<>> /\ inq' = Tail(inq) /\ Head(inq).type = type /\ worker = Idle
  BY DEF Take, ConnTypeOK
<1>2. Head(inq) \in Messages /\ Tail(inq) \in Seq(Messages)
  BY <1>1, HeadTailProperties
<1> QED
  BY <1>1, <1>2 DEF Messages

LEMMA RegisterAckStep == ASSUME IConn, RegisterAck PROVE IConn'
<1>1. ConnTypeOK /\ Take("REGISTER-ACK")
  BY DEF IConn, ConnectionInv, RegisterAck
<1>2. ConnTypeOK'
  BY <1>1, TakenMessage DEF RegisterAck, ConnTypeOK, jVars
<1> QED
  BY <1>2, QuietStep DEF RegisterAck

LEMMA PingStep == ASSUME IConn, Ping PROVE IConn'
<1>1. ConnTypeOK /\ Take("PING")
  BY DEF IConn, ConnectionInv, Ping
<1>2. pendingcount' \in -1..MaxPending
  BY <1>1, ConnectionAssumption DEF Ping, ConnTypeOK
<1>3. pending' \in [All -> BOOLEAN]
  BY <1>1 DEF Ping, ConnTypeOK
<1>4. register' \in BOOLEAN /\ asked' \in BOOLEAN
  BY <1>1 DEF Ping, ConnTypeOK
<1>5. ConnTypeOK'
  BY <1>1, <1>2, <1>3, <1>4, TakenMessage DEF Ping, ConnTypeOK, jVars
<1> QED
  BY <1>5, QuietStep DEF Ping

LEMMA WorkerCheckStep == ASSUME IConn, WorkerCheck PROVE IConn'
<1>1. ConnTypeOK
  BY DEF IConn, ConnectionInv
<1>2. Seeking \in BOOLEAN
  BY DEF Seeking
<1>3. CASE worker.pc = "check"
  <2>1. worker' = [pc |-> "write", flag |-> Seeking] /\ cfPending' = cfPending
    BY <1>3 DEF WorkerCheck
  <2>2. ConnTypeOK'
    BY <1>1, <1>2, <2>1 DEF WorkerCheck, ConnTypeOK, jVars
  <2> QED
    BY <1>3, <2>1, <2>2, QuietStep DEF WorkerCheck
<1>4. CASE worker.pc = "write"
  <2>1. worker' = Idle /\ cfPending' = worker.flag
    BY <1>4 DEF WorkerCheck
  <2>2. worker.flag \in BOOLEAN
    BY <1>1, <1>4 DEF ConnTypeOK
  <2>3. ConnTypeOK'
    BY <1>1, <2>1, <2>2 DEF WorkerCheck, ConnTypeOK, jVars, Idle
  <2> QED
    BY <1>4, <2>1, <2>3, QuietStep DEF WorkerCheck, Idle
<1> QED
  BY <1>3, <1>4 DEF WorkerCheck

LEMMA JNodeStep ==
  ASSUME IConn,
         \/ \E l \in Levels, h \in Hosts \cup {NoHost} : Change(l, h)
         \/ Answer \/ Acknowledge \/ SendPing \/ SendKill
  PROVE  IConn'
<1>1. ConnTypeOK
  BY DEF IConn, ConnectionInv
<1>2. \A l \in Levels, h \in Hosts :
        <<Info("DEL", l, h)>> \in Seq(Messages) /\ <<Info("ADD", l, h)>> \in Seq(Messages)
  BY DEF Info, Messages
<1>3. CASE \E l \in Levels, h \in Hosts \cup {NoHost} : Change(l, h)
  <2>1. PICK l \in Levels, h \in Hosts \cup {NoHost} : Change(l, h)
    BY <1>3
  <2> DEFINE gone == IF known[l] = NoHost THEN <<>> ELSE <<Info("DEL", l, known[l])>>
             come == IF h = NoHost THEN <<>> ELSE <<Info("ADD", l, h)>>
  <2>2. gone \in Seq(Messages) /\ come \in Seq(Messages) /\ inq \in Seq(Messages)
    BY <1>1, <1>2 DEF ConnTypeOK
  <2>3. inq' \in IF Listening THEN {inq \o gone \o come, inq \o come \o gone} ELSE {inq}
    BY <2>1, Zenon DEF Change
  <2> HIDE DEF gone, come
  <2>4. inq' \in Seq(Messages)
    <3>1. inq \o gone \in Seq(Messages) /\ inq \o come \in Seq(Messages)
      BY <2>2, ConcatProperties
    <3>2. inq \o gone \o come \in Seq(Messages) /\ inq \o come \o gone \in Seq(Messages)
      BY <2>2, <3>1, ConcatProperties
    <3> QED
      BY <2>2, <2>3, <3>2, Zenon
  <2>5. known' \in [Levels -> Hosts \cup {NoHost}]
    BY <1>1, <2>1 DEF Change, ConnTypeOK
  <2>6. ConnTypeOK'
    BY <1>1, <2>1, <2>4, <2>5 DEF Change, ConnTypeOK, coreVars
  <2> QED
    BY <2>1, <2>6, QuietStep DEF Change, coreVars
<1>4. CASE Answer
  <2> DEFINE S == {l \in Levels : known[l] # NoHost}
             levels == SetToSeq(S)
             answer == [k \in DOMAIN levels |-> Info("ADD", levels[k], known[levels[k]])]
  <2>1. IsFiniteSet(S)
    <3>1. IsFiniteSet({1} \cup {2})
      BY FS_Singleton, FS_AddElement
    <3>2. S \in SUBSET ({1} \cup {2})
      BY ConnectionAssumption
    <3> QED
      BY <3>1, <3>2, FS_Subset
  <2>2. Cardinality(S) \in Nat /\ levels \in [1..Cardinality(S) -> S]
    BY <2>1, SetToSeqElements
  <2>3. answer \in Seq(Messages)
    <3>1. \A k \in 1..Cardinality(S) : Info("ADD", levels[k], known[levels[k]]) \in Messages
      BY <1>1, <2>2 DEF ConnTypeOK, Info, Messages
    <3>2. answer \in [1..Cardinality(S) -> Messages]
      BY <2>2, <3>1
    <3> QED
      BY <2>2, <3>2
  <2>4. inq' = inq \o answer
    BY <1>4 DEF Answer
  <2> HIDE DEF answer
  <2>5. inq' \in Seq(Messages)
    BY <1>1, <2>3, <2>4, ConcatProperties DEF ConnTypeOK
  <2>6. ConnTypeOK'
    BY <1>1, <1>4, <2>5 DEF Answer, ConnTypeOK, coreVars, jVars
  <2> QED
    BY <1>4, <2>6, QuietStep DEF Answer, coreVars
<1>5. CASE Acknowledge \/ SendPing \/ SendKill
  <2>1. inq' \in Seq(Messages)
    <3>1. \A type \in {"REGISTER-ACK", "PING", "KILL"} : [type |-> type] \in Messages
      BY DEF Messages
    <3>2. \A m \in Messages : Append(inq, m) \in Seq(Messages)
      BY <1>1, AppendProperties DEF ConnTypeOK
    <3>3. inq' = inq \/ \E type \in {"REGISTER-ACK", "PING", "KILL"} : inq' = Append(inq, [type |-> type])
      BY <1>5 DEF Acknowledge, SendPing, SendKill
    <3> QED
      BY <1>1, <3>1, <3>2, <3>3 DEF ConnTypeOK
  <2>2. register' \in BOOLEAN
    BY <1>1, <1>5 DEF ConnTypeOK, Acknowledge, SendPing, SendKill
  <2>3. UNCHANGED <<coreVars, worker, clients, paho, known, asked, dead, muddled>>
    BY <1>5 DEF Acknowledge, SendPing, SendKill, jVars
  <2>4. ConnTypeOK'
    BY <1>1, <2>1, <2>2, <2>3 DEF ConnTypeOK, coreVars
  <2> QED
    BY <2>3, <2>4, QuietStep DEF coreVars
<1> QED
  BY <1>3, <1>4, <1>5

-----------------------------------------------------------------------------
(* Steps that concern one level *)

Up(l) ==
  enabled[l] /\ l \notin muddled =>
    (Current(l).state = "connected" /\ Current(l).subscribed) \/ Calling(l) \/ Disabling(l)

LEMMA Parts == IConn <=> ConnTypeOK /\ HasClient(0) /\ \A l \in Levels : LevelOK(l) /\ Up(l)
BY DEF IConn, ConnectionInv, EnabledIsUp, LevelsOK, Up, Disabling

(* Nothing happens to m. *)
Apart(m) ==
  /\ enabled'[m] = enabled[m] /\ hid'[m] = hid[m] /\ clients'[m] = clients[m]
  /\ m \in muddled => m \in muddled'
  /\ paho' = paho \/ (~Calling(m) /\ ~Calling(m)')
  /\ worker' = worker \/ (~Disabling(m) /\ ~Disabling(m)')

LEMMA OtherLevels ==
  ASSUME IConn, ConnTypeOK', HasClient(0)', NEW l \in All,
         \A m \in Levels \ {l} : Apart(m),
         l \in Levels => LevelOK(l)' /\ Up(l)'
  PROVE  IConn'
<1>1. ASSUME NEW m \in Levels \ {l}
      PROVE  LevelOK(m)' /\ Up(m)'
  <2>1. LevelOK(m) /\ Up(m) /\ Apart(m)
    BY Parts
  <2>2. HasClient(m)' = HasClient(m) /\ Current(m)' = Current(m)
    BY <2>1 DEF Apart, HasClient, Current
  <2>3. CASE paho' = paho /\ worker' = worker
    BY <2>1, <2>2, <2>3 DEF Apart, LevelOK, Up, Calling, Welcoming, Disabling
  <2>4. CASE paho' = paho /\ ~Disabling(m) /\ ~Disabling(m)'
    BY <2>1, <2>2, <2>4 DEF Apart, LevelOK, Up, Calling, Welcoming
  <2>5. CASE ~Calling(m) /\ ~Calling(m)' /\ worker' = worker
    BY <2>1, <2>2, <2>5 DEF Apart, LevelOK, Up, Welcoming, Disabling
  <2>6. CASE ~Calling(m) /\ ~Calling(m)' /\ ~Disabling(m) /\ ~Disabling(m)'
    BY <2>1, <2>2, <2>6 DEF Apart, LevelOK, Up, Welcoming
  <2> QED
    BY <2>1, <2>3, <2>4, <2>5, <2>6 DEF Apart
<1>2. \A m \in Levels : LevelOK(m)' /\ Up(m)'
  BY <1>1
<1> QED
  BY <1>2 DEF IConn, ConnectionInv, EnabledIsUp, LevelsOK, Up, Disabling

LEMMA Numbers == 0 \notin Levels /\ NoHost \notin Hosts /\ Levels \subseteq All /\ 0 \in All
BY ConnectionAssumption DEF NoHost, Hosts, All

LEMMA AddStep == ASSUME IConn, Add PROVE IConn'
<1>1. ConnTypeOK /\ Take("ADD")
  BY Parts DEF Add
<1>. PICK l \in Levels, h \in Hosts : l = Head(inq).level /\ h = Head(inq).host
  BY <1>1, TakenMessage
<1>2. /\ inq' \in Seq(Messages) /\ worker = Idle
      /\ worker' = [pc |-> "check"]
      /\ UNCHANGED <<enabled, cfPending, registered, started, paho, jVars, asked, register, dead>>
  BY <1>1, TakenMessage DEF Add
<1>3. CASE ~(~enabled[l] /\ ~pending[l])
  <2>1. UNCHANGED <<pending, pendingcount, clients, hid, muddled>>
    BY <1>3 DEF Add
  <2>2. ConnTypeOK'
    BY <1>1, <1>2, <2>1 DEF ConnTypeOK, jVars
  <2> QED
    BY <1>2, <2>1, <2>2, QuietStep DEF Idle
<1>4. CASE ~enabled[l] /\ ~pending[l]
  <2>1. /\ pending' = [pending EXCEPT ![l] = TRUE] /\ pendingcount' = MaxPending
        /\ clients' = Connecting(l, h) /\ hid' = [hid EXCEPT ![l] = h]
        /\ Muddle(l, Calling(l))
    BY <1>4 DEF Add
  <2>2. l \in All /\ clients \in [All -> Seq(Clients)] /\ LevelOK(l)
    BY <1>1, <1>2, Numbers, Parts DEF ConnTypeOK
  <2>3. /\ clients' \in [All -> Seq(Clients)]
        /\ \A m \in All \ {l} : clients'[m] = clients[m]
        /\ HasClient(l)' /\ Current(l)'.host = h
        /\ \A k \in DOMAIN clients'[l] : clients'[l][k].host \in Hosts
    <3>1. CASE HasClient(l) /\ Current(l).host = h
      <4> DEFINE c == [Current(l) EXCEPT !.state = IF @ = "idle" THEN "connecting" ELSE @, !.armed = TRUE]
                 k == Len(clients[l])
      <4>1. k \in DOMAIN clients[l] /\ Current(l) = clients[l][k] /\ Current(l) \in Clients
        BY <2>2, <3>1, LastClient DEF HasClient, Current
      <4>2. c \in Clients /\ c.host = h
        BY <3>1, <4>1 DEF Clients
      <4>3. clients' = Changed(l, k, c)
        BY <2>1, <2>2, <3>1, <4>1 DEF Connecting, OnCurrent, Changed
      <4> HIDE DEF c
      <4>4. /\ clients' \in [All -> Seq(Clients)]
            /\ \A m \in All \ {l} : clients'[m] = clients[m]
            /\ HasClient(l)' /\ Current(l)' = c
            /\ DOMAIN clients'[l] = DOMAIN clients[l] /\ clients'[l][k] = c
            /\ \A j \in DOMAIN clients[l] \ {k} : clients'[l][j] = clients[l][j]
        BY <2>2, <4>1, <4>2, <4>3, ClientChanged
      <4>5. Current(l).host \in Hosts /\ c.host \in Hosts
        BY <2>2, <4>1, <4>2 DEF LevelOK
      <4> QED
        BY <2>2, <3>1, <4>2, <4>4, <4>5 DEF LevelOK
    <3>2. CASE ~(HasClient(l) /\ Current(l).host = h)
      <4>1. Client(h) \in Clients /\ Client(h).host = h
        BY <1>2 DEF Client, Clients
      <4>2. clients' = Added(l, Client(h))
        BY <2>1, <3>2 DEF Connecting, Added
      <4>3. /\ clients' \in [All -> Seq(Clients)]
            /\ \A m \in All \ {l} : clients'[m] = clients[m]
            /\ HasClient(l)' /\ Current(l)' = Client(h)
            /\ \A k \in DOMAIN clients'[l] :
                 clients'[l][k] = Client(h) \/ (k \in DOMAIN clients[l] /\ clients'[l][k] = clients[l][k])
        BY <2>2, <4>1, <4>2, ClientAdded
      <4> QED
        BY <2>2, <4>1, <4>3 DEF LevelOK
    <3> QED
      BY <3>1, <3>2
  <2>4. ConnTypeOK'
    <3>1. pending' \in [All -> BOOLEAN] /\ hid' \in [All -> Hosts \cup {NoHost}]
      BY <1>1, <1>2, <2>1, <2>2 DEF ConnTypeOK
    <3>2. pendingcount' \in -1..MaxPending
      BY <2>1, ConnectionAssumption
    <3>3. muddled' \subseteq All
      BY <1>1, <2>1, <2>2 DEF ConnTypeOK, Muddle
    <3> QED
      BY <1>1, <1>2, <2>3, <3>1, <3>2, <3>3 DEF ConnTypeOK, jVars
  <2>5. hid'[l] = h /\ \A m \in All \ {l} : hid'[m] = hid[m]
    BY <1>1, <2>1, <2>2 DEF ConnTypeOK
  <2>6. Calling(l)' => l \in muddled'
    BY <1>2, <2>1 DEF Muddle, Calling
  <2>7. LevelOK(l)' /\ Up(l)'
    BY <1>2, <1>4, <2>3, <2>5, <2>6 DEF LevelOK, Up, Welcoming, Disabling
  <2>8. \A m \in Levels \ {l} : Apart(m)
    BY <1>2, <2>1, <2>3, <2>5, Numbers DEF Apart, Muddle, Disabling, Idle
  <2>9. HasClient(0)'
    BY <1>2, <2>3, Numbers, Parts DEF HasClient
  <2> QED
    BY <2>2, <2>4, <2>7, <2>8, <2>9, OtherLevels
<1> QED
  BY <1>3, <1>4

LEMMA DelStep == ASSUME IConn, Del PROVE IConn'
<1>1. ConnTypeOK /\ Take("DEL")
  BY Parts DEF Del
<1>. PICK l \in Levels, h \in Hosts : l = Head(inq).level /\ h = Head(inq).host
  BY <1>1, TakenMessage
<1>2. /\ inq' \in Seq(Messages) /\ worker = Idle
      /\ UNCHANGED <<enabled, pending, pendingcount, cfPending, registered, started, paho, jVars, asked,
                     register, dead>>
  BY <1>1, TakenMessage DEF Del
<1>3. CASE IsStray(l, h)
  <2>1. worker' = [pc |-> "check"] /\ UNCHANGED <<clients, hid, muddled>>
    BY <1>3 DEF Del
  <2>2. ConnTypeOK'
    BY <1>1, <1>2, <2>1 DEF ConnTypeOK, jVars
  <2> QED
    BY <1>2, <2>1, <2>2, QuietStep DEF Idle
<1>4. CASE ~IsStray(l, h)
  <2>1. /\ worker' = [pc |-> "disable", level |-> l, host |-> h]
        /\ hid' = [hid EXCEPT ![l] = NoHost]
        /\ clients' = IF HasClient(l)
                        THEN OnCurrent(l, LAMBDA c :
                               [c EXCEPT !.state = IF @ = "connected" THEN "closing" ELSE @])
                        ELSE clients
        /\ Muddle(l, Calling(l))
    BY <1>4 DEF Del
  <2>2. l \in All /\ clients \in [All -> Seq(Clients)] /\ LevelOK(l)
    BY <1>1, <1>2, Numbers, Parts DEF ConnTypeOK
  <2>3. /\ clients' \in [All -> Seq(Clients)]
        /\ \A m \in All \ {l} : clients'[m] = clients[m]
        /\ HasClient(l)' = HasClient(l)
        /\ HasClient(l) => Current(l)'.host = Current(l).host
        /\ \A k \in DOMAIN clients'[l] : clients'[l][k].host \in Hosts
    <3>1. CASE HasClient(l)
      <4> DEFINE c == [Current(l) EXCEPT !.state = IF @ = "connected" THEN "closing" ELSE @]
                 k == Len(clients[l])
      <4>1. k \in DOMAIN clients[l] /\ Current(l) = clients[l][k] /\ Current(l) \in Clients
        BY <2>2, <3>1, LastClient DEF HasClient, Current
      <4>2. c \in Clients /\ c.host = Current(l).host
        BY <3>1, <4>1 DEF Clients
      <4>3. clients' = Changed(l, k, c)
        BY <2>1, <2>2, <3>1, <4>1 DEF OnCurrent, Changed
      <4> HIDE DEF c
      <4>4. /\ clients' \in [All -> Seq(Clients)]
            /\ \A m \in All \ {l} : clients'[m] = clients[m]
            /\ HasClient(l)' /\ Current(l)' = c
            /\ DOMAIN clients'[l] = DOMAIN clients[l] /\ clients'[l][k] = c
            /\ \A j \in DOMAIN clients[l] \ {k} : clients'[l][j] = clients[l][j]
        BY <2>2, <4>1, <4>2, <4>3, ClientChanged
      <4>5. Current(l).host \in Hosts /\ c.host \in Hosts
        BY <2>2, <4>1, <4>2 DEF LevelOK
      <4> QED
        BY <2>2, <3>1, <4>2, <4>4, <4>5 DEF LevelOK
    <3>2. CASE ~HasClient(l)
      BY <2>1, <2>2, <3>2 DEF LevelOK, HasClient
    <3> QED
      BY <3>1, <3>2
  <2>4. ConnTypeOK'
    <3>1. hid' \in [All -> Hosts \cup {NoHost}]
      BY <1>1, <2>1, <2>2 DEF ConnTypeOK
    <3>2. muddled' \subseteq All
      BY <1>1, <2>1, <2>2 DEF ConnTypeOK, Muddle
    <3>3. worker' \in [pc : {"disable"}, level : Levels, host : Hosts]
      BY <1>2, <2>1
    <3> QED
      BY <1>1, <1>2, <2>3, <3>1, <3>2, <3>3 DEF ConnTypeOK, jVars
  <2>5. hid'[l] = NoHost /\ \A m \in All \ {l} : hid'[m] = hid[m]
    BY <1>1, <2>1, <2>2 DEF ConnTypeOK
  <2>6. Calling(l)' \/ l \in muddled => l \in muddled'
    BY <1>2, <2>1 DEF Muddle, Calling
  <2>7. enabled[l] /\ l \notin muddled => HasClient(l) /\ Current(l).host = h
    <3>1. SUFFICES ASSUME enabled[l], l \notin muddled
                   PROVE  HasClient(l) /\ Current(l).host = h
      OBVIOUS
    <3>2. HasClient(l) /\ Current(l).host = hid[l]
      BY <1>2, <2>2, <3>1 DEF LevelOK, Disabling, Idle
    <3>3. Current(l).host \in Hosts
      BY <2>2, <3>2, LastClient DEF LevelOK, HasClient, Current
    <3> QED
      BY <1>4, <3>1, <3>2, <3>3, Numbers DEF IsStray
  <2>8. LevelOK(l)' /\ Up(l)'
    <3>1. Disabling(l)' /\ worker'.host = h
      BY <2>1 DEF Disabling
    <3>2. Calling(l)' = Calling(l) /\ enabled' = enabled
      BY <1>2 DEF Calling
    <3> QED
      BY <2>2, <2>3, <2>5, <2>6, <2>7, <3>1, <3>2 DEF LevelOK, Up, Welcoming
  <2>9. \A m \in Levels \ {l} : Apart(m)
    BY <1>2, <2>1, <2>3, <2>5, Numbers DEF Apart, Muddle, Disabling, Idle
  <2>10. HasClient(0)'
    BY <1>2, <2>3, Numbers, Parts DEF HasClient
  <2> QED
    BY <2>2, <2>4, <2>8, <2>9, <2>10, OtherLevels
<1> QED
  BY <1>3, <1>4

LEMMA DisableStep == ASSUME IConn, Disable PROVE IConn'
<1>1. ConnTypeOK /\ worker.pc = "disable"
  BY Parts DEF Disable
<1>. PICK l \in Levels : l = worker.level
  BY <1>1 DEF ConnTypeOK, Idle
<1>2. l \in All /\ LevelOK(l) /\ Disabling(l)
  BY <1>1, Numbers, Parts DEF Disabling
<1>3. /\ enabled' = [enabled EXCEPT ![l] = FALSE]
      /\ pending' = IF l = 1 THEN [pending EXCEPT ![1] = FALSE] ELSE pending
      /\ worker' = [pc |-> "check"]
      /\ Muddle(l, Calling(l))
      /\ UNCHANGED <<pendingcount, hid, cfPending, registered, started, clients, paho, inq, jVars, asked,
                     register, dead>>
  BY DEF Disable
<1>4. ConnTypeOK'
  <2>1. enabled' \in [All -> BOOLEAN] /\ pending' \in [All -> BOOLEAN] /\ muddled' \subseteq All
    BY <1>1, <1>2, <1>3 DEF ConnTypeOK, Muddle
  <2> QED
    BY <1>1, <1>3, <2>1 DEF ConnTypeOK, jVars
<1>5. ~enabled'[l] /\ \A m \in All \ {l} : enabled'[m] = enabled[m]
  BY <1>1, <1>2, <1>3 DEF ConnTypeOK
<1>6. Calling(l)' => l \in muddled'
  BY <1>3 DEF Muddle, Calling
<1>7. HasClient(l)' = HasClient(l) /\ Current(l)' = Current(l) /\ Calling(l)' = Calling(l)
  BY <1>3 DEF HasClient, Current, Calling
<1>8. LevelOK(l)' /\ Up(l)'
  BY <1>2, <1>3, <1>5, <1>6, <1>7 DEF LevelOK, Up, Welcoming, Disabling
<1>9. \A m \in Levels \ {l} : Apart(m)
  BY <1>2, <1>3, <1>5, Numbers DEF Apart, Muddle, Disabling
<1>10. HasClient(0)'
  BY <1>3, Parts DEF HasClient
<1> QED
  BY <1>2, <1>4, <1>8, <1>9, <1>10, OtherLevels

(* A change of one client. *)
LEMMA ChangedTypes ==
  ASSUME IConn, NEW l \in All, NEW k \in DOMAIN clients[l], NEW c \in Clients, clients' = Changed(l, k, c),
         c.host = clients[l][k].host
  PROVE  /\ clients' \in [All -> Seq(Clients)] /\ HasClient(0)'
         /\ \A m \in All \ {l} : clients'[m] = clients[m]
         /\ HasClient(l) /\ HasClient(l)'
         /\ Current(l)' = IF k = Len(clients[l]) THEN c ELSE Current(l)
         /\ k = Len(clients[l]) => clients[l][k] = Current(l)
         /\ l \in Levels => \A j \in DOMAIN clients'[l] : clients'[l][j].host \in Hosts
<1>1. clients \in [All -> Seq(Clients)] /\ HasClient(0)
  BY Parts DEF ConnTypeOK
<1>2. /\ clients' \in [All -> Seq(Clients)]
      /\ \A m \in All \ {l} : clients'[m] = clients[m]
      /\ HasClient(l) /\ HasClient(l)'
      /\ DOMAIN clients'[l] = DOMAIN clients[l] /\ clients'[l][k] = c
      /\ \A j \in DOMAIN clients[l] \ {k} : clients'[l][j] = clients[l][j]
      /\ Current(l)' = IF k = Len(clients[l]) THEN c ELSE Current(l)
  BY <1>1, ClientChanged
<1>3. k = Len(clients[l]) => clients[l][k] = Current(l)
  BY <1>1, <1>2, LastClient DEF Current, HasClient
<1>4. l \in Levels => \A j \in DOMAIN clients'[l] : clients'[l][j].host \in Hosts
  BY <1>2, Parts DEF LevelOK
<1>5. HasClient(0)'
  BY <1>1, <1>2, Numbers DEF HasClient
<1> QED
  BY <1>1, <1>2, <1>3, <1>4, <1>5

LEMMA ConnAckStep == ASSUME IConn, NEW l \in All, NEW k \in DOMAIN clients[l], ConnAck(l, k) PROVE IConn'
<1> DEFINE old == clients[l][k]
           c == [old EXCEPT !.state = "connected", !.armed = FALSE]
<1>1. ConnTypeOK /\ old \in Clients /\ paho = Idle /\ old.state = "connecting"
  BY Parts DEF ConnTypeOK, ConnAck
<1>2. c \in Clients /\ c.host = old.host /\ c.state = "connected" /\ ~c.armed
  BY <1>1 DEF Clients
<1>3. clients' = Changed(l, k, c)
  BY <1>1 DEF ConnAck, Changed, ConnTypeOK
<1>4. /\ clients' \in [All -> Seq(Clients)] /\ HasClient(0)'
      /\ \A m \in All \ {l} : clients'[m] = clients[m]
      /\ HasClient(l) /\ HasClient(l)'
      /\ Current(l)' = IF k = Len(clients[l]) THEN c ELSE Current(l)
      /\ k = Len(clients[l]) => old = Current(l)
      /\ l \in Levels => \A j \in DOMAIN clients'[l] : clients'[l][j].host \in Hosts
  <2> HIDE DEF c
  <2> QED
    BY <1>2, <1>3, ChangedTypes
<1>5. /\ paho' = IF old.armed THEN [pc |-> "enable", level |-> l] ELSE Idle
      /\ Muddle(l, old.armed /\ (k # Len(clients[l]) \/ hid[l] # old.host))
      /\ UNCHANGED <<coreVars, worker, inq, jVars, asked, register, dead>>
  BY DEF ConnAck
<1>6. ConnTypeOK'
  <2>1. muddled' \subseteq All
    BY <1>1, <1>5 DEF ConnTypeOK, Muddle
  <2>2. paho' \in {Idle} \cup [pc : {"enable", "subscribe", "check", "lost", "reconnect"}, level : All]
    BY <1>5
  <2> QED
    BY <1>1, <1>4, <1>5, <2>1, <2>2 DEF ConnTypeOK, coreVars, jVars
<1>7. ASSUME l \in Levels
      PROVE  LevelOK(l)' /\ Up(l)'
  <2>1. LevelOK(l) /\ Up(l) /\ ~Calling(l) /\ old.host \in Hosts
    BY <1>1, <1>7, Parts DEF Calling, LevelOK
  <2>2. UNCHANGED <<enabled, hid, worker>> /\ Disabling(l)' = Disabling(l)
    BY <1>5 DEF coreVars, Disabling
  <2>3. /\ Calling(l)' => old.armed /\ paho'.pc = "enable"
        /\ Welcoming(l)' => Calling(l)'
    BY <1>5 DEF Calling, Welcoming, Idle
  <2>4. l \notin muddled' => l \notin muddled
    BY <1>5 DEF Muddle
  <2> HIDE DEF c, old
  <2>5. ASSUME l \notin muddled', old.armed
        PROVE  k = Len(clients[l]) /\ hid[l] = old.host /\ ~Disabling(l) /\ ~enabled[l]
    <3>1. k = Len(clients[l]) /\ hid[l] = old.host
      BY <1>5, <2>5 DEF Muddle
    <3>2. ~Disabling(l)
      BY <2>1, <3>1, Numbers DEF LevelOK
    <3> QED
      BY <1>1, <1>4, <2>1, <2>4, <2>5, <3>1, <3>2 DEF Up
  <2>6. LevelOK(l)'
    BY <1>2, <1>4, <1>7, <2>1, <2>2, <2>3, <2>4, <2>5 DEF LevelOK
  <2>7. Up(l)'
    <3>1. CASE old.armed
      BY <2>2, <2>5, <3>1 DEF Up
    <3>2. CASE ~old.armed
      BY <1>1, <1>2, <1>4, <2>1, <2>2, <2>4, <3>2 DEF Up
    <3> QED
      BY <3>1, <3>2
  <2> QED
    BY <2>6, <2>7
<1>8. \A m \in Levels \ {l} : Apart(m)
  BY <1>1, <1>4, <1>5, Numbers DEF Apart, Muddle, Calling, coreVars, Idle
<1> QED
  BY <1>4, <1>6, <1>7, <1>8, OtherLevels

(* A client becomes idle that was not connected. *)
LEMMA IdleStep ==
  ASSUME IConn, NEW l \in All, NEW k \in DOMAIN clients[l], NEW c \in Clients, clients' = Changed(l, k, c),
         clients[l][k].state \in {"connecting", "closing"}, c.host = clients[l][k].host, c.state = "idle",
         UNCHANGED <<coreVars, worker, paho, inq, jVars, asked, register, dead, muddled>>
  PROVE  IConn'
<1> DEFINE old == clients[l][k]
<1>1. ConnTypeOK
  BY Parts
<1>2. /\ clients' \in [All -> Seq(Clients)] /\ HasClient(0)'
      /\ \A m \in All \ {l} : clients'[m] = clients[m]
      /\ HasClient(l) /\ HasClient(l)'
      /\ Current(l)' = IF k = Len(clients[l]) THEN c ELSE Current(l)
      /\ k = Len(clients[l]) => old = Current(l)
      /\ l \in Levels => \A j \in DOMAIN clients'[l] : clients'[l][j].host \in Hosts
  BY ChangedTypes
<1>3. ConnTypeOK'
  BY <1>1, <1>2 DEF ConnTypeOK, coreVars, jVars
<1>4. ASSUME l \in Levels
      PROVE  LevelOK(l)' /\ Up(l)'
  <2>1. LevelOK(l) /\ Up(l)
    BY <1>4, Parts
  <2>2. UNCHANGED <<enabled, hid, worker, paho, muddled>> /\ Disabling(l)' = Disabling(l)
        /\ Calling(l)' = Calling(l) /\ Welcoming(l)' = Welcoming(l)
    BY DEF coreVars, Disabling, Calling, Welcoming
  <2> HIDE DEF old
  <2>3. CASE k = Len(clients[l])
    <3>1. Current(l).state # "connected" /\ Current(l)' = c /\ c.host = Current(l).host
      BY <1>2, <2>3 DEF old
    <3> QED
      BY <1>2, <1>4, <2>1, <2>2, <3>1 DEF LevelOK, Up
  <2>4. CASE k # Len(clients[l])
    BY <1>2, <1>4, <2>1, <2>2, <2>4 DEF LevelOK, Up
  <2> QED
    BY <2>3, <2>4
<1>5. \A m \in Levels \ {l} : Apart(m)
  BY <1>2, Numbers DEF Apart, coreVars
<1> QED
  BY <1>2, <1>3, <1>4, <1>5, OtherLevels

LEMMA ConnFailStep == ASSUME IConn, NEW l \in All, NEW k \in DOMAIN clients[l], ConnFail(l, k) PROVE IConn'
<1> DEFINE old == clients[l][k]
           c == [old EXCEPT !.state = "idle"]
<1>1. ConnTypeOK /\ old \in Clients /\ old.state = "connecting"
  BY Parts DEF ConnTypeOK, ConnFail
<1>2. c \in Clients /\ c.host = old.host /\ c.state = "idle"
  BY <1>1 DEF Clients
<1>3. clients' = Changed(l, k, c)
  BY <1>1 DEF ConnFail, Changed, ConnTypeOK
<1> HIDE DEF c
<1> QED
  BY <1>1, <1>2, <1>3, IdleStep DEF ConnFail

LEMMA CloseStep == ASSUME IConn, NEW l \in All, NEW k \in DOMAIN clients[l], Close(l, k) PROVE IConn'
<1> DEFINE old == clients[l][k]
           c == [old EXCEPT !.state = "idle", !.subscribed = FALSE]
<1>1. ConnTypeOK /\ old \in Clients /\ old.state = "closing"
  BY Parts DEF ConnTypeOK, Close
<1>2. c \in Clients /\ c.host = old.host /\ c.state = "idle"
  BY <1>1 DEF Clients
<1>3. clients' = Changed(l, k, c)
  BY <1>1 DEF Close, Changed, ConnTypeOK
<1> HIDE DEF c
<1> QED
  BY <1>1, <1>2, <1>3, IdleStep DEF Close

(* The callback is about a level, which has a client. *)
LEMMA CallbackLevel ==
  ASSUME IConn, paho.pc \in {"enable", "subscribe", "check", "lost", "reconnect", "write"}
  PROVE  /\ paho # Idle /\ paho.level \in All /\ HasClient(paho.level)
         /\ \A l \in All : Calling(l) <=> paho.level = l
<1>1. ConnTypeOK /\ paho # Idle
  BY Parts DEF Idle
<1>2. paho.level \in All
  BY <1>1 DEF ConnTypeOK
<1>3. \A l \in All : Calling(l) <=> paho.level = l
  BY <1>1 DEF Calling
<1>4. HasClient(paho.level)
  BY <1>2, <1>3, Parts DEF LevelOK, All
<1> QED
  BY <1>1, <1>2, <1>3, <1>4

(* A callback that leaves the clients alone. *)
LEMMA CallbackStep ==
  ASSUME IConn, ConnTypeOK', NEW l \in All, Calling(l),
         UNCHANGED <<hid, clients, worker, muddled>>, paho' = Idle \/ paho'.level = l,
         \A m \in All \ {l} : enabled'[m] = enabled[m],
         l \in Levels => LevelOK(l)' /\ Up(l)'
  PROVE  IConn'
<1>1. \A m \in Levels \ {l} : Apart(m)
  BY Numbers DEF Apart, Calling
<1>2. HasClient(0)'
  BY Parts DEF HasClient
<1> QED
  BY <1>1, <1>2, OtherLevels

LEMMA EnableStep == ASSUME IConn, Enable PROVE IConn'
<1>1. ConnTypeOK /\ paho.pc = "enable"
  BY Parts DEF Enable
<1>. PICK l \in All : l = paho.level
  BY <1>1, CallbackLevel
<1>2. HasClient(l) /\ Calling(l) /\ Welcoming(l)
  BY <1>1, CallbackLevel DEF Welcoming
<1>3. /\ enabled' = [enabled EXCEPT ![l] = TRUE]
      /\ paho' = [paho EXCEPT !.pc = "subscribe"]
      /\ UNCHANGED <<pending, pendingcount, hid, cfPending, registered, started, worker, clients, inq,
                     jVars, asked, register, dead, muddled>>
  BY DEF Enable
<1>4. /\ paho' \in [pc : {"enable", "subscribe", "check", "lost", "reconnect"}, level : All]
      /\ paho'.pc = "subscribe" /\ paho'.level = l
  BY <1>1, <1>3 DEF ConnTypeOK, Idle
<1>5. ConnTypeOK'
  <2>1. enabled' \in [All -> BOOLEAN]
    BY <1>1, <1>3 DEF ConnTypeOK
  <2> QED
    BY <1>1, <1>3, <1>4, <2>1 DEF ConnTypeOK, jVars
<1>6. enabled'[l] /\ \A m \in All \ {l} : enabled'[m] = enabled[m]
  BY <1>1, <1>3 DEF ConnTypeOK
<1>7. ASSUME l \in Levels
      PROVE  LevelOK(l)' /\ Up(l)'
  <2>1. LevelOK(l)
    BY <1>7, Parts
  <2>2. HasClient(l)' = HasClient(l) /\ Current(l)' = Current(l) /\ Disabling(l)' = Disabling(l)
    BY <1>3 DEF HasClient, Current, Disabling
  <2>3. Calling(l)'
    BY <1>4 DEF Calling, Idle
  <2> QED
    BY <1>2, <1>3, <1>4, <1>6, <2>1, <2>2, <2>3 DEF LevelOK, Up
<1> QED
  BY <1>2, <1>3, <1>4, <1>5, <1>6, <1>7, CallbackStep

LEMMA PahoCheckStep == ASSUME IConn, PahoCheck PROVE IConn'
<1>1. ConnTypeOK /\ paho.pc \in {"check", "write"}
  BY Parts DEF PahoCheck
<1>. PICK l \in All : l = paho.level
  BY <1>1, CallbackLevel
<1>2. HasClient(l) /\ Calling(l) /\ Welcoming(l)
  BY <1>1, CallbackLevel DEF Welcoming
<1>3. UNCHANGED <<enabled, pending, pendingcount, hid, registered, started, worker, clients, inq, jVars,
                  asked, register, dead, muddled>>
  BY DEF PahoCheck
<1>4. /\ cfPending' \in BOOLEAN
      /\ paho' = Idle \/ (paho' \in [pc : {"write"}, level : All, flag : BOOLEAN] /\ paho'.level = l)
  <2>1. CASE paho.pc = "check"
    <3>1. Seeking \in BOOLEAN
      BY DEF Seeking
    <3>2. paho' = [pc |-> "write", level |-> l, flag |-> Seeking] /\ UNCHANGED cfPending
      BY <2>1 DEF PahoCheck
    <3>3. cfPending \in BOOLEAN
      BY <1>1 DEF ConnTypeOK
    <3> QED
      BY <3>1, <3>2, <3>3
  <2>2. CASE paho.pc = "write"
    <3>1. paho.flag \in BOOLEAN
      BY <1>1, <2>2 DEF ConnTypeOK, Idle
    <3> QED
      BY <2>2, <3>1 DEF PahoCheck
  <2> QED
    BY <1>1, <2>1, <2>2
<1>5. ConnTypeOK'
  BY <1>1, <1>3, <1>4 DEF ConnTypeOK, jVars
<1>6. ASSUME l \in Levels
      PROVE  LevelOK(l)' /\ Up(l)'
  <2>1. LevelOK(l) /\ Up(l)
    BY <1>6, Parts
  <2>2. HasClient(l)' = HasClient(l) /\ Current(l)' = Current(l) /\ Disabling(l)' = Disabling(l)
    BY <1>3 DEF HasClient, Current, Disabling
  <2>3. CASE paho' = Idle
    <3>1. ~Calling(l)' /\ ~Welcoming(l)'
      BY <2>3 DEF Calling, Welcoming
    <3> QED
      BY <1>1, <1>2, <1>3, <2>1, <2>2, <3>1 DEF LevelOK, Up
  <2>4. CASE paho' # Idle
    <3>1. Calling(l)' /\ Welcoming(l)' /\ paho'.pc = "write"
      BY <1>4, <2>4 DEF Calling, Welcoming
    <3> QED
      BY <1>1, <1>2, <1>3, <2>1, <2>2, <3>1 DEF LevelOK, Up
  <2> QED
    BY <2>3, <2>4
<1> QED
  BY <1>2, <1>3, <1>4, <1>5, <1>6, CallbackStep

LEMMA LostStep == ASSUME IConn, Lost PROVE IConn'
<1>1. ConnTypeOK /\ paho.pc = "lost"
  BY Parts DEF Lost
<1>. PICK l \in All : l = paho.level
  BY <1>1, CallbackLevel
<1>2. HasClient(l) /\ Calling(l)
  BY <1>1, CallbackLevel
<1>3. /\ enabled' = [enabled EXCEPT ![l] = FALSE]
      /\ paho' = [paho EXCEPT !.pc = "reconnect"]
      /\ UNCHANGED <<pending, pendingcount, hid, cfPending, registered, started, worker, clients, inq,
                     jVars, asked, register, dead, muddled>>
  BY DEF Lost
<1>4. /\ paho' \in [pc : {"enable", "subscribe", "check", "lost", "reconnect"}, level : All]
      /\ paho'.pc = "reconnect" /\ paho'.level = l
  BY <1>1, <1>3 DEF ConnTypeOK, Idle
<1>5. ConnTypeOK'
  <2>1. enabled' \in [All -> BOOLEAN]
    BY <1>1, <1>3 DEF ConnTypeOK
  <2> QED
    BY <1>1, <1>3, <1>4, <2>1 DEF ConnTypeOK, jVars
<1>6. ~enabled'[l] /\ \A m \in All \ {l} : enabled'[m] = enabled[m]
  BY <1>1, <1>3 DEF ConnTypeOK
<1>7. ASSUME l \in Levels
      PROVE  LevelOK(l)' /\ Up(l)'
  <2>1. LevelOK(l)
    BY <1>7, Parts
  <2>2. HasClient(l)' = HasClient(l) /\ Current(l)' = Current(l)
    BY <1>3 DEF HasClient, Current
  <2>3. ~Welcoming(l)'
    BY <1>4 DEF Welcoming
  <2>4. Disabling(l)' = Disabling(l)
    BY <1>3 DEF Disabling
  <2>5. hid'[l] = hid[l] /\ Calling(l)'
    BY <1>3, <1>4 DEF Calling, Idle
  <2> QED
    BY <1>2, <1>3, <1>6, <2>1, <2>2, <2>3, <2>4, <2>5 DEF LevelOK, Up
<1> QED
  BY <1>2, <1>3, <1>4, <1>5, <1>6, <1>7, CallbackStep

LEMMA SubscribeStep == ASSUME IConn, Subscribe PROVE IConn'
<1>1. ConnTypeOK /\ paho.pc = "subscribe"
  BY Parts DEF Subscribe
<1>. PICK l \in All : l = paho.level
  BY <1>1, CallbackLevel
<1> DEFINE k == Len(clients[l])
           old == Current(l)
           c == [old EXCEPT !.subscribed = @ \/ (enabled[l] /\ old.state = "connected")]
<1>2. HasClient(l) /\ Calling(l) /\ Welcoming(l)
  BY <1>1, CallbackLevel DEF Welcoming
<1>3. k \in DOMAIN clients[l] /\ old = clients[l][k] /\ old \in Clients
  BY <1>1, <1>2, LastClient DEF HasClient, Current, ConnTypeOK
<1>4. /\ c \in Clients /\ c.host = old.host /\ c.armed = old.armed /\ c.state = old.state
      /\ enabled[l] /\ old.state = "connected" => c.subscribed
  <2>1. enabled[l] \in BOOLEAN /\ old.subscribed \in BOOLEAN
    BY <1>1, <1>3 DEF Clients, ConnTypeOK
  <2>2. c.subscribed = (old.subscribed \/ (enabled[l] /\ old.state = "connected"))
    BY <1>3 DEF Clients
  <2> QED
    BY <1>3, <2>1, <2>2 DEF Clients
<1>5. clients' = Changed(l, k, c)
  BY <1>3 DEF Subscribe, OnCurrent, Changed
<1>6. /\ clients' \in [All -> Seq(Clients)] /\ HasClient(0)'
      /\ \A m \in All \ {l} : clients'[m] = clients[m]
      /\ HasClient(l)' /\ Current(l)' = c
      /\ l \in Levels => \A j \in DOMAIN clients'[l] : clients'[l][j].host \in Hosts
  <2> HIDE DEF c, old
  <2> QED
    BY <1>3, <1>4, <1>5, ChangedTypes
<1>7. /\ register' \in BOOLEAN
      /\ paho' = [paho EXCEPT !.pc = "check"]
      /\ UNCHANGED <<coreVars, worker, inq, jVars, asked, dead, muddled>>
  BY <1>1 DEF Subscribe, ConnTypeOK
<1>8. /\ paho' \in [pc : {"enable", "subscribe", "check", "lost", "reconnect"}, level : All]
      /\ paho'.pc = "check" /\ paho'.level = l
  <2> HIDE DEF c, old, k
  <2>1. paho \in [pc : {"enable", "subscribe", "check", "lost", "reconnect"}, level : All]
    BY <1>1 DEF ConnTypeOK, Idle
  <2> QED
    BY <2>1, <1>7
<1>9. ConnTypeOK'
  BY <1>1, <1>6, <1>7, <1>8 DEF ConnTypeOK, coreVars, jVars
<1>10. ASSUME l \in Levels
       PROVE  LevelOK(l)' /\ Up(l)'
  <2>1. LevelOK(l)
    BY <1>10, Parts
  <2>2. Calling(l)' /\ Disabling(l)' = Disabling(l) /\ UNCHANGED <<enabled, hid, worker>>
    BY <1>7, <1>8 DEF Calling, Disabling, coreVars, Idle
  <2> HIDE DEF c
  <2> QED
    BY <1>1, <1>2, <1>4, <1>6, <1>7, <1>8, <1>10, <2>1, <2>2 DEF LevelOK, Up
<1>11. \A m \in Levels \ {l} : Apart(m)
  BY <1>2, <1>6, <1>7, <1>8, Numbers DEF Apart, Calling, coreVars
<1> QED
  BY <1>6, <1>9, <1>10, <1>11, OtherLevels

LEMMA ReconnectStep == ASSUME IConn, Reconnect PROVE IConn'
<1>1. ConnTypeOK /\ paho.pc = "reconnect"
  BY Parts DEF Reconnect
<1>. PICK l \in All : l = paho.level
  BY <1>1, CallbackLevel
<1> DEFINE k == Len(clients[l])
           old == Current(l)
           c == IF old.state = "idle" THEN [old EXCEPT !.state = "connecting"] ELSE old
<1>2. HasClient(l) /\ Calling(l)
  BY <1>1, CallbackLevel
<1>3. k \in DOMAIN clients[l] /\ old = clients[l][k] /\ old \in Clients
  BY <1>1, <1>2, LastClient DEF HasClient, Current, ConnTypeOK
<1>4. c \in Clients /\ c.host = old.host /\ c.armed = old.armed
  BY <1>3 DEF Clients
<1>5. clients' = Changed(l, k, c)
  BY <1>3 DEF Reconnect, OnCurrent, Changed
<1>6. /\ clients' \in [All -> Seq(Clients)] /\ HasClient(0)'
      /\ \A m \in All \ {l} : clients'[m] = clients[m]
      /\ HasClient(l)' /\ Current(l)' = c
      /\ l \in Levels => \A j \in DOMAIN clients'[l] : clients'[l][j].host \in Hosts
  <2> HIDE DEF c, old
  <2> QED
    BY <1>3, <1>4, <1>5, ChangedTypes
<1>7. paho' = Idle /\ UNCHANGED <<coreVars, worker, inq, jVars, asked, register, dead, muddled>>
  BY DEF Reconnect
<1>8. ConnTypeOK'
  BY <1>1, <1>6, <1>7 DEF ConnTypeOK, coreVars, jVars
<1>9. ASSUME l \in Levels
      PROVE  LevelOK(l)' /\ Up(l)'
  <2>1. LevelOK(l)
    BY <1>9, Parts
  <2>2. ~Calling(l)' /\ ~Welcoming(l)' /\ UNCHANGED <<enabled, hid, worker>>
    BY <1>7 DEF Calling, Welcoming, coreVars
  <2>3. l \notin muddled' => ~enabled'[l]
    BY <1>1, <1>2, <1>7, <2>1, <2>2 DEF LevelOK
  <2> HIDE DEF c, old
  <2> QED
    BY <1>6, <1>9, <2>1, <2>2, <2>3 DEF LevelOK, Up, Disabling
<1>10. \A m \in Levels \ {l} : Apart(m)
  BY <1>2, <1>6, <1>7, Numbers DEF Apart, Calling, coreVars
<1> QED
  BY <1>6, <1>8, <1>9, <1>10, OtherLevels

-----------------------------------------------------------------------------
(* Beginning and end *)

LEMMA InitiallyUp == ConnInit => IConn
<1> SUFFICES ASSUME ConnInit
             PROVE  IConn
  OBVIOUS
<1>1. Client(NoHost) \in Clients /\ <<Client(NoHost)>> \in Seq(Clients) /\ <<>> \in Seq(Clients)
  BY DEF Client, Clients
<1>2. clients \in [All -> Seq(Clients)] /\ HasClient(0) /\ \A l \in Levels : clients[l] = <<>>
  BY <1>1, Numbers DEF ConnInit, Start, HasClient
<1>3. /\ enabled = [l \in All |-> FALSE] /\ pending = [l \in All |-> FALSE] /\ hid = [l \in All |-> NoHost]
      /\ worker = Idle /\ paho = Idle
  BY DEF ConnInit, Start
<1>4. ConnTypeOK
  <2>1. pendingcount \in -1..MaxPending
    BY ConnectionAssumption DEF ConnInit
  <2>2. inq \in Seq(Messages)
    BY DEF ConnInit
  <2>3. worker \in [pc : {"idle", "check"}]
    BY <1>3 DEF Idle
  <2> QED
    BY <1>2, <1>3, <2>1, <2>2, <2>3 DEF ConnInit, ConnTypeOK
<1>5. \A l \in Levels : LevelOK(l) /\ Up(l)
  BY <1>2, <1>3, Numbers DEF LevelOK, Up, Calling, Welcoming, Disabling, HasClient, Idle
<1> QED
  BY <1>2, <1>4, <1>5, Parts

LEMMA ExitStep == ASSUME Exit PROVE IConn'
<1>1. Client(NoHost) \in Clients /\ <<Client(NoHost)>> \in Seq(Clients) /\ <<>> \in Seq(Clients)
  BY DEF Client, Clients
<1>2. clients' \in [All -> Seq(Clients)] /\ HasClient(0)' /\ \A l \in Levels : clients'[l] = <<>>
  BY <1>1, Numbers DEF Exit, Start, HasClient
<1>3. /\ enabled' = [l \in All |-> FALSE] /\ pending' = [l \in All |-> FALSE]
      /\ hid' = [l \in All |-> NoHost]
      /\ worker' = Idle /\ paho' = Idle
  BY DEF Exit, Start
<1>4. ConnTypeOK'
  <2>1. pendingcount' \in -1..MaxPending
    BY ConnectionAssumption DEF Exit
  <2>2. inq' \in Seq(Messages)
    BY DEF Exit
  <2>3. worker' \in [pc : {"idle", "check"}]
    BY <1>3 DEF Idle
  <2> QED
    BY <1>2, <1>3, <2>1, <2>2, <2>3 DEF Exit, ConnTypeOK
<1>5. \A l \in Levels : LevelOK(l)' /\ Up(l)'
  BY <1>2, <1>3, Numbers DEF LevelOK, Up, Calling, Welcoming, Disabling, HasClient, Idle
<1> QED
  BY <1>2, <1>4, <1>5 DEF IConn, ConnectionInv, EnabledIsUp, LevelsOK, Up, Disabling

LEMMA LoseStep == ASSUME IConn, NEW l \in All, NEW k \in DOMAIN clients[l], Lose(l, k) PROVE IConn'
<1>1. CASE l = 0
  BY <1>1, ExitStep DEF Lose
<1>2. CASE l # 0
  <2> DEFINE old == clients[l][k]
             c == [old EXCEPT !.state = "idle", !.subscribed = FALSE]
  <2>1. ConnTypeOK /\ old \in Clients /\ l \in Levels /\ paho = Idle
    BY <1>2, Parts DEF ConnTypeOK, Lose, All
  <2>2. c \in Clients /\ c.host = old.host /\ c.armed = old.armed
    BY <2>1 DEF Clients
  <2>3. clients' = Changed(l, k, c)
    BY <1>2, <2>1 DEF Lose, Changed, ConnTypeOK
  <2>4. /\ clients' \in [All -> Seq(Clients)] /\ HasClient(0)'
        /\ \A m \in All \ {l} : clients'[m] = clients[m]
        /\ HasClient(l) /\ HasClient(l)'
        /\ Current(l)' = IF k = Len(clients[l]) THEN c ELSE Current(l)
        /\ k = Len(clients[l]) => old = Current(l)
        /\ l \in Levels => \A j \in DOMAIN clients'[l] : clients'[l][j].host \in Hosts
    <3> HIDE DEF c
    <3> QED
      BY <2>2, <2>3, ChangedTypes
  <2>5. /\ paho' = [pc |-> "lost", level |-> l]
        /\ UNCHANGED <<coreVars, worker, inq, jVars, asked, register, dead, muddled>>
    BY <1>2 DEF Lose
  <2>6. ConnTypeOK'
    <3>1. paho' \in [pc : {"enable", "subscribe", "check", "lost", "reconnect"}, level : All]
      BY <2>5
    <3> QED
      BY <2>1, <2>4, <2>5, <3>1 DEF ConnTypeOK, coreVars, jVars
  <2>7. LevelOK(l)' /\ Up(l)'
    <3>1. LevelOK(l)
      BY <2>1, Parts
    <3>2. /\ UNCHANGED <<enabled, hid, worker, muddled>> /\ Disabling(l)' = Disabling(l)
          /\ Calling(l)' /\ ~Welcoming(l)' /\ paho'.pc = "lost"
      BY <2>5 DEF coreVars, Disabling, Calling, Welcoming, Idle
    <3> HIDE DEF c, old
    <3>3. Current(l)'.host = Current(l).host
      BY <2>2, <2>4
    <3> QED
      BY <2>1, <2>4, <3>1, <3>2, <3>3 DEF LevelOK, Up
  <2>8. \A m \in Levels \ {l} : Apart(m)
    BY <2>1, <2>4, <2>5, Numbers DEF Apart, Calling, coreVars
  <2> QED
    BY <2>4, <2>6, <2>7, <2>8, OtherLevels
<1> QED
  BY <1>1, <1>2

LEMMA ConnStep == IConn /\ [ConnNext]_connVars => IConn'
<1> SUFFICES ASSUME IConn, [ConnNext]_connVars
             PROVE  IConn'
  OBVIOUS
<1>1. CASE Worker
  BY <1>1, ExitStep, RegisterAckStep, PingStep, AddStep, DelStep, DisableStep, WorkerCheckStep
     DEF Worker, Kill
<1>2. CASE Callback
  BY <1>2, EnableStep, SubscribeStep, PahoCheckStep, LostStep, ReconnectStep DEF Callback
<1>3. CASE ConnResult \/ \E l \in All : \E k \in DOMAIN clients[l] : ConnFail(l, k) \/ Lose(l, k)
  BY <1>3, ConnAckStep, ConnFailStep, CloseStep, LoseStep DEF ConnResult
<1>4. CASE \/ \E l \in Levels, h \in Hosts \cup {NoHost} : Change(l, h)
           \/ Answer \/ Acknowledge \/ SendPing \/ SendKill
  BY <1>4, JNodeStep
<1>5. CASE UNCHANGED connVars
  <2>1. ConnTypeOK'
    BY <1>5, Parts DEF connVars, coreVars, jVars, ConnTypeOK
  <2> QED
    BY <1>5, <2>1, QuietStep DEF connVars, coreVars
<1> QED
  BY <1>1, <1>2, <1>3, <1>4, <1>5 DEF ConnNext

(* Whatever the threads do to each other's flags, connections are made,    *)
(* refused or lost and announcements come in: a level in use is connected  *)
(* and subscribed to, or somebody is about to change that; the exceptions  *)
(* are the connect callbacks that meet an ADD or a DEL of their level, or  *)
(* come after one.                                                         *)
THEOREM InUseIsUp == ConnSpec => []ConnectionInv
<1>1. IConn => ConnectionInv
  BY DEF IConn
<1> QED
  BY <1>1, InitiallyUp, ConnStep, PTL DEF ConnSpec

-----------------------------------------------------------------------------
(* Who gives a level up *)

LEMMA GivenUpStep ==
  ASSUME IConn, ConnNext, NEW l \in Levels, l \notin muddled', enabled[l], ~enabled'[l], ~dead'
  PROVE  Calling(l) \/ (worker.pc = "disable" /\ worker.host = Current(l).host)
<1>1. l \in All /\ enabled \in [All -> BOOLEAN]
  BY Numbers, Parts DEF ConnTypeOK
<1>2. ~Exit
  BY DEF Exit
<1>3. Disable \/ Enable \/ Lost
  <2>1. ~UNCHANGED enabled
    OBVIOUS
  <2>2. ~(\E m \in All : \E k \in DOMAIN clients[m] : ConnAck(m, k) \/ Close(m, k) \/ ConnFail(m, k) \/ Lose(m, k))
    <3> SUFFICES ASSUME NEW m \in All, NEW k \in DOMAIN clients[m],
                        ConnAck(m, k) \/ Close(m, k) \/ ConnFail(m, k) \/ Lose(m, k)
                 PROVE  FALSE
      OBVIOUS
    <3>1. CASE ConnAck(m, k)
      BY <2>1, <3>1 DEF ConnAck, coreVars
    <3>2. CASE Close(m, k)
      BY <2>1, <3>2 DEF Close, coreVars
    <3>3. CASE ConnFail(m, k)
      BY <2>1, <3>3 DEF ConnFail, coreVars
    <3>4. CASE Lose(m, k)
      BY <1>2, <2>1, <3>4 DEF Lose, coreVars
    <3> QED
      BY <3>1, <3>2, <3>3, <3>4
  <2>3. ~(\E m \in Levels, h \in Hosts \cup {NoHost} : Change(m, h))
    BY <2>1 DEF Change, coreVars
  <2>4. ~(Answer \/ Acknowledge \/ SendPing \/ SendKill)
    BY <2>1 DEF Answer, Acknowledge, SendPing, SendKill, coreVars
  <2>5. ~(Kill \/ RegisterAck \/ Ping \/ Add \/ Del \/ WorkerCheck)
    BY <1>2, <2>1 DEF Kill, RegisterAck, Ping, Add, Del, WorkerCheck
  <2>6. ~(Subscribe \/ PahoCheck \/ Reconnect)
    BY <2>1 DEF Subscribe, PahoCheck, Reconnect, coreVars
  <2> QED
    BY <2>2, <2>3, <2>4, <2>5, <2>6 DEF ConnNext, Worker, Callback, ConnResult
<1>4. CASE Enable
  BY <1>1, <1>4 DEF Enable
<1>5. CASE Lost
  <2>1. paho.pc = "lost" /\ enabled' = [enabled EXCEPT ![paho.level] = FALSE]
    BY <1>5 DEF Lost
  <2>2. paho.level = l
    BY <1>1, <2>1
  <2> QED
    BY <1>1, <2>1, <2>2, CallbackLevel
<1>6. CASE Disable
  <2>1. worker.pc = "disable" /\ enabled' = [enabled EXCEPT ![worker.level] = FALSE]
        /\ Muddle(worker.level, Calling(worker.level))
    BY <1>6 DEF Disable
  <2>2. worker.level = l
    BY <1>1, <2>1
  <2>3. l \notin muddled
    BY <2>1, <2>2 DEF Muddle
  <2> QED
    BY <2>1, <2>2, <2>3, Parts DEF LevelOK, Disabling
<1> QED
  BY <1>3, <1>4, <1>5, <1>6

(* A fog or cloud in use is given up only because its own connection was   *)
(* lost or its own DEL came, for any number of hosts and any order of the  *)
(* announcements; the same exceptions, of which one is a fog that came     *)
(* into use after its own DEL.                                             *)
THEOREM GivenUpForItself == ConnSpec => NotGivenUpForAnother
<1>1. IConn /\ [ConnNext]_connVars =>
        [\A l \in Levels \ muddled' :
           enabled[l] /\ ~enabled'[l] /\ ~dead'
             => Calling(l) \/ (worker.pc = "disable" /\ worker.host = Current(l).host)]_connVars
  BY GivenUpStep
<1> QED
  BY <1>1, InitiallyUp, ConnStep, PTL DEF ConnSpec, NotGivenUpForAnother

=============================================================================
