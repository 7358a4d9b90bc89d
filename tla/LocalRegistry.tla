---------------------------- MODULE LocalRegistry ----------------------------
(***************************************************************************)
(* Discovery between nodes on one machine (localregistry.js).  Every node  *)
(* writes an entry into a file that all of them share, touches it every    *)
(* Interval and reads the others' as often.  Writers exclude each other    *)
(* with a lock file; readers take no lock.                                 *)
(*                                                                         *)
(* The nodes here share one bin (_getBinName): a scan reads bin after bin, *)
(* and what one bin shows does not depend on the others.  An entry has the *)
(* status and one more attribute, whose value is a number that grows with  *)
(* every addAttributes (0 when the attribute is absent).                   *)
(*                                                                         *)
(* A time is kept as its age, and stands still where no comparison tells   *)
(* the difference any more.                                                *)
(*                                                                         *)
(* A node that was overtaken while it held the initial lock may empty the  *)
(* bins of those that run already (emptied): that is not followed further. *)
(*                                                                         *)
(* What mqttregistry.js has under the same name is marked with Local here; *)
(* attrsToDelete is the attrsToRemove of this registry.                    *)
(***************************************************************************)
EXTENDS Naturals, FiniteSets

CONSTANTS
  Nodes,
  Adders,      \* those whose applications add and remove the attribute
  Watchers,    \* those whose applications look for it; the scans of the others,
               \* which change nothing but their own times, are left out
  Interval,    \* checkInInterval = scanInterval
  MaxDelay,    \* how late a check-in or the end of a scan may be
  StartDelay,  \* how long a node may wait for its first entry
  Mortal,      \* nodes that may crash
  MaxAdded,    \* bound: additions of the attribute by a node
  MaxCrashes,  \* bound
  NULL

Overdue == 2 * Interval + 1          \* such an age, or more, is offline
Old == Interval + MaxDelay + 1       \* older than any last scan
Never == Old + 1                     \* lastScanAt = 0

Entries == [lastCheckIn : 0..Overdue, createdAt : 0..Old, attr : 0..MaxAdded,
            updatedAt : 0..Old]
Files == [Nodes -> Entries \cup {NULL}]

(* NULL is none of the values it stands beside. *)
ASSUME LocalRegistryAssumption ==
  /\ Adders \subseteq Nodes /\ Watchers \subseteq Nodes
  /\ Interval \in Nat \ {0}
  /\ MaxDelay \in Nat /\ StartDelay \in Nat /\ StartDelay + MaxDelay <= Interval
  /\ MaxAdded \in Nat /\ MaxCrashes \in Nat
  /\ NULL \notin Nodes /\ NULL \notin Entries /\ NULL \notin Files

VARIABLES
  initLock,     \* the lock of _initLocalStorage: "free", "held" or "left" by a crash
  initialized,  \* the item of that name
  overtaken,    \* history: initLock was taken as stale from a node that still had it
  emptied,      \* history: a node has prepared the bins when there were entries
  store,        \* the entries in the file
  lock,         \* who made the lock file of the bin
  pc,           \* what each node does
  data,         \* the entry a node has still to write for the first time
  nodes,        \* the file's contents in the memory of a node that rewrites it
  registered,   \* its check-ins have started
  attrsToAdd, attrsToDelete,
  attrsToDiscover,     \* it looks for the others' status and attribute
  lastScanAt,
  currentOfflineMachs,
  prevMachs,    \* nodes that had the attribute in the last scan
  checkWait, scanWait, \* time since a check-in and a scan were last due
  version,      \* the value of the attribute added last
  crashes,
  \* what the application was told
  view,         \* the last word on the status of each node
  heard,        \* the latest value of its attribute
  believed      \* the nodes that have the attribute, for all it knows

startVars == <<initLock, initialized, overtaken, emptied>>
storageVars == <<startVars, store, lock>>
ownVars == <<data, nodes, registered, attrsToAdd, attrsToDelete, attrsToDiscover>>
scanVars == <<lastScanAt, currentOfflineMachs, prevMachs>>
timeVars == <<checkWait, scanWait, crashes>>
appVars == <<version, view, heard, believed>>
localVars == <<storageVars, pc, ownVars, scanVars, timeVars, appVars>>

LocalInit ==
  /\ initLock = "free" /\ initialized = FALSE
  /\ overtaken = FALSE /\ emptied = FALSE
  /\ store = [n \in Nodes |-> NULL]
  /\ lock = NULL
  /\ pc = [n \in Nodes |-> "down"]
  /\ data = [n \in Nodes |-> NULL]
  /\ nodes = [n \in Nodes |-> NULL]
  /\ registered = [n \in Nodes |-> FALSE]
  /\ attrsToAdd = [n \in Nodes |-> 0]
  /\ attrsToDelete = [n \in Nodes |-> FALSE]
  /\ attrsToDiscover = [n \in Nodes |-> FALSE]
  /\ lastScanAt = [n \in Nodes |-> Never]
  /\ currentOfflineMachs = [n \in Nodes |-> {}]
  /\ prevMachs = [n \in Nodes |-> {}]
  /\ checkWait = [n \in Nodes |-> 0]
  /\ scanWait = [n \in Nodes |-> 0]
  /\ version = [n \in Nodes |-> 0]
  /\ crashes = 0
  /\ view = [n \in Nodes |-> [m \in Nodes |-> "unknown"]]
  /\ heard = [n \in Nodes |-> [m \in Nodes |-> 0]]
  /\ believed = [n \in Nodes |-> {}]

(***************************************************************************)
(* Start                                                                   *)
(***************************************************************************)

(* registerAndDiscover, _initLocalStorage: a node that gets the lock       *)
(* prepares the bins, the others wait for it.  A lock that was left is     *)
(* taken over once it is stale, and so is that of a node that takes long.  *)
registerLocally(n) ==
  /\ pc[n] = "down"
  /\ \/ /\ initLock' = "held"
        /\ overtaken' = (overtaken \/ initLock = "held")
        /\ pc' = [pc EXCEPT ![n] = "open"]
     \/ /\ initLock # "free"
        /\ pc' = [pc EXCEPT ![n] = "await"]
        /\ UNCHANGED <<initLock, overtaken>>
  /\ UNCHANGED <<initialized, emptied, store, lock, ownVars, scanVars, timeVars, appVars>>

Entry(v) == [lastCheckIn |-> 0, createdAt |-> 0, attr |-> v, updatedAt |-> 0]

(* The node has its storage: _kickStartCheckIns makes its entry, without   *)
(* the lock, and _kickStartScanning starts with a scan.                    *)
KickStart(n) ==
  /\ pc' = [pc EXCEPT ![n] = "idle"]
  /\ data' = [data EXCEPT ![n] = Entry(attrsToAdd[n])]
  /\ attrsToAdd' = [attrsToAdd EXCEPT ![n] = 0]
  /\ scanWait' = [scanWait EXCEPT ![n] = IF n \in Watchers THEN Interval ELSE 0]
  /\ UNCHANGED <<nodes, registered, attrsToDelete, attrsToDiscover,
                 scanVars, checkWait, crashes, appVars, overtaken, lock>>

Prepared_not == FALSE  \* mutant: whoever gets the lock prepares the bins

(* What a node that gets the lock finds. *)
Prepared == initialized

Open(n) ==
  /\ pc[n] = "open"
  /\ \/ /\ Prepared
        /\ initLock' = "free"
        /\ UNCHANGED <<initialized, emptied, store>>
        /\ KickStart(n)
     \/ /\ ~Prepared
        /\ pc' = [pc EXCEPT ![n] = "format"]
        /\ UNCHANGED <<storageVars, ownVars, scanVars, timeVars, appVars>>

(* All bins are set to nothing, then the flag is set. *)
Format(n) ==
  /\ pc[n] = "format"
  /\ store' = [m \in Nodes |-> NULL]
  /\ emptied' = \E m \in Nodes : store[m] # NULL
  /\ initialized' = TRUE
  /\ initLock' = "free"
  /\ KickStart(n)

(* The loop around new LocalStorage goes on for ever if the flag was not   *)
(* there the first time: a process gets the same object each time, and     *)
(* that knows the items it found when it was made.                         *)
Await(n) ==
  /\ pc[n] = "await"
  /\ \/ /\ initialized
        /\ UNCHANGED <<initLock, initialized, emptied, store>>
        /\ KickStart(n)
     \/ /\ ~initialized
        /\ pc' = [pc EXCEPT ![n] = "hung"]
        /\ UNCHANGED <<storageVars, ownVars, scanVars, timeVars, appVars>>

(***************************************************************************)
(* Writing: _addNodeToLocalStorage and _checkIn                            *)
(***************************************************************************)

WantsLock(n) == pc[n] = "idle" /\ (data[n] # NULL \/ (registered[n] /\ checkWait[n] >= Interval))
InSection(n) == pc[n] \in {"load", "save"}
Held == lock # NULL /\ InSection(lock)

Lock_unchecked(n) ==  \* mutant: the lock file is no obstacle
  /\ WantsLock(n)
  /\ lock' = n
  /\ pc' = [pc EXCEPT ![n] = "load"]
  /\ UNCHANGED <<startVars, store, ownVars, scanVars, timeVars, appVars>>

(* A lock that is held makes the call fail, and it is repeated after a     *)
(* random time.  A node is never in its section for the second after which *)
(* a lock counts as stale; a lock that a crash has left becomes stale.     *)
Lock(n) ==
  /\ WantsLock(n)
  /\ ~Held
  /\ lock' = n
  /\ pc' = [pc EXCEPT ![n] = "load"]
  /\ UNCHANGED <<startVars, store, ownVars, scanVars, timeVars, appVars>>

(* What a check-in makes of its own entry: removals before additions.      *)
CheckedIn(n) ==
  LET kept == IF attrsToDelete[n] THEN 0 ELSE store[n].attr IN
  IF attrsToAdd[n] # 0
    THEN [store[n] EXCEPT !.lastCheckIn = 0, !.attr = attrsToAdd[n], !.updatedAt = 0]
    ELSE [store[n] EXCEPT !.lastCheckIn = 0, !.attr = kept]

Load(n) ==
  /\ pc[n] = "load"
  /\ pc' = [pc EXCEPT ![n] = "save"]
  /\ \/ /\ data[n] # NULL
        /\ nodes' = [nodes EXCEPT ![n] = [store EXCEPT ![n] = data[n]]]
        /\ UNCHANGED <<attrsToAdd, attrsToDelete>>
     \/ /\ data[n] = NULL
        /\ nodes' = [nodes EXCEPT ![n] = [store EXCEPT ![n] = CheckedIn(n)]]
        /\ attrsToAdd' = [attrsToAdd EXCEPT ![n] = 0]
        /\ attrsToDelete' = [attrsToDelete EXCEPT ![n] = FALSE]
  /\ UNCHANGED <<storageVars, data, registered, attrsToDiscover, scanVars, timeVars, appVars>>

(* The interval is fixed; the first entry starts it.                       *)
NextCheckIn(n) == IF registered[n] THEN checkWait[n] - Interval ELSE 0

SaveAndUnlock(n) ==
  /\ pc[n] = "save"
  /\ pc' = [pc EXCEPT ![n] = "idle"]
  /\ store' = nodes[n]
  /\ lock' = NULL
  /\ nodes' = [nodes EXCEPT ![n] = NULL]
  /\ data' = [data EXCEPT ![n] = NULL]
  /\ registered' = [registered EXCEPT ![n] = TRUE]
  /\ checkWait' = [checkWait EXCEPT ![n] = NextCheckIn(n)]
  /\ UNCHANGED <<startVars, attrsToAdd, attrsToDelete, attrsToDiscover,
                 scanVars, scanWait, crashes, appVars>>

(***************************************************************************)
(* Reading: _scan                                                          *)
(***************************************************************************)

IsOverdue_hasty(m) == store[m].lastCheckIn > Interval  \* mutant: one check-in missed is enough

IsOverdue(m) == store[m].lastCheckIn > 2 * Interval

(* A time is later than lastScanAt when it is of a lesser age. *)
LooksNew_first(n, m) ==  \* mutant: "else" is missing
  store[m].createdAt < lastScanAt[n]

LooksNew(n, m) == ~IsOverdue(m) /\ store[m].createdAt < lastScanAt[n]

LooksUpdated_again(n, m) ==  \* mutant: an update in the millisecond of the scan counts as new
  store[m].attr # 0 /\ store[m].updatedAt <= lastScanAt[n]

LooksUpdated(n, m) == store[m].attr # 0 /\ store[m].updatedAt < lastScanAt[n]

Present == {m \in Nodes : store[m] # NULL}
Scans(n) == pc[n] = "idle" /\ scanWait[n] >= Interval

Found(n) == IF attrsToDiscover[n] THEN Present ELSE {}
Online(n) == {m \in Found(n) : LooksNew(n, m)}
Offline(n) == {m \in Found(n) : IsOverdue(m)} \ currentOfflineMachs[n]
Updated(n) == {m \in Found(n) : LooksUpdated(n, m)}
Removed(n) == {m \in Found(n) \cap prevMachs[n] : store[m].attr = 0}

Remembered_updates(n) ==  \* mutant: only what was reported is remembered
  Updated(n)

Remembered(n) == {m \in Found(n) : store[m].attr # 0}

(* _makeDiscoveries and _detectRemovedAttrs on what the file shows now.    *)
Scan(n) ==
  /\ Scans(n)
  /\ pc' = [pc EXCEPT ![n] = "scan"]
  /\ currentOfflineMachs' = [currentOfflineMachs EXCEPT ![n] =
       (@ \cup Offline(n)) \ Online(n)]
  /\ prevMachs' = [prevMachs EXCEPT ![n] = Remembered(n)]
  /\ view' = [view EXCEPT ![n] = [m \in Nodes |->
       IF m \in Online(n) THEN "online" ELSE IF m \in Offline(n) THEN "offline" ELSE @[m]]]
  /\ heard' = [heard EXCEPT ![n] = [m \in Nodes |->
       IF m \in Updated(n) THEN store[m].attr ELSE @[m]]]
  /\ believed' = [believed EXCEPT ![n] = (@ \cup Updated(n)) \ Removed(n)]
  /\ UNCHANGED <<storageVars, ownVars, lastScanAt, timeVars, version>>

(* The last line of _scan asks for the time once more. *)
ScanEnd(n) ==
  /\ pc[n] = "scan"
  /\ pc' = [pc EXCEPT ![n] = "idle"]
  /\ lastScanAt' = [lastScanAt EXCEPT ![n] = 0]
  /\ scanWait' = [scanWait EXCEPT ![n] = @ - Interval]
  /\ UNCHANGED <<storageVars, ownVars, currentOfflineMachs, prevMachs, checkWait, crashes, appVars>>

(***************************************************************************)
(* The application                                                         *)
(***************************************************************************)
addLocally(n) ==
  /\ pc[n] \in {"down", "idle"}
  /\ version[n] < MaxAdded
  /\ version' = [version EXCEPT ![n] = @ + 1]
  /\ attrsToAdd' = [attrsToAdd EXCEPT ![n] = version[n] + 1]
  /\ UNCHANGED <<storageVars, pc, data, nodes, registered, attrsToDelete, attrsToDiscover,
                 scanVars, timeVars, view, heard, believed>>

removeLocally(n) ==
  /\ pc[n] = "idle"
  /\ ~attrsToDelete[n] \/ attrsToAdd[n] # 0
  /\ attrsToAdd' = [attrsToAdd EXCEPT ![n] = 0]
  /\ attrsToDelete' = [attrsToDelete EXCEPT ![n] = TRUE]
  /\ UNCHANGED <<storageVars, pc, data, nodes, registered, attrsToDiscover,
                 scanVars, timeVars, appVars>>

(* discoverAttributes and stopDiscoveringAttributes change what the next   *)
(* scan looks for.                                                         *)
discoverLocally(n) ==
  /\ pc[n] \in {"down", "idle"}
  /\ ~attrsToDiscover[n]
  /\ attrsToDiscover' = [attrsToDiscover EXCEPT ![n] = TRUE]
  /\ UNCHANGED <<storageVars, pc, data, nodes, registered, attrsToAdd, attrsToDelete,
                 scanVars, timeVars, appVars>>

stopDiscoveringLocally(n) ==
  /\ pc[n] = "idle"
  /\ attrsToDiscover[n]
  /\ attrsToDiscover' = [attrsToDiscover EXCEPT ![n] = FALSE]
  /\ believed' = [believed EXCEPT ![n] = {}]
  /\ UNCHANGED <<storageVars, pc, data, nodes, registered, attrsToAdd, attrsToDelete,
                 scanVars, timeVars, version, view, heard>>

(***************************************************************************)
(* Crashes and time                                                        *)
(***************************************************************************)

(* The process ends at any point; the file and the lock files stay.  The   *)
(* application of the next one starts from nothing.                        *)
CrashNode(n) ==
  /\ n \in Mortal
  /\ pc[n] # "down"
  /\ crashes < MaxCrashes
  /\ crashes' = crashes + 1
  /\ pc' = [pc EXCEPT ![n] = "down"]
  /\ initLock' = IF pc[n] \in {"open", "format"} /\ initLock = "held" THEN "left" ELSE initLock
  /\ data' = [data EXCEPT ![n] = NULL]
  /\ nodes' = [nodes EXCEPT ![n] = NULL]
  /\ registered' = [registered EXCEPT ![n] = FALSE]
  /\ attrsToAdd' = [attrsToAdd EXCEPT ![n] = 0]
  /\ attrsToDelete' = [attrsToDelete EXCEPT ![n] = FALSE]
  /\ attrsToDiscover' = [attrsToDiscover EXCEPT ![n] = FALSE]
  /\ lastScanAt' = [lastScanAt EXCEPT ![n] = Never]
  /\ currentOfflineMachs' = [currentOfflineMachs EXCEPT ![n] = {}]
  /\ prevMachs' = [prevMachs EXCEPT ![n] = {}]
  /\ checkWait' = [checkWait EXCEPT ![n] = 0]
  /\ scanWait' = [scanWait EXCEPT ![n] = 0]
  /\ view' = [view EXCEPT ![n] = [m \in Nodes |-> "unknown"]]
  /\ heard' = [heard EXCEPT ![n] = [m \in Nodes |-> 0]]
  /\ believed' = [believed EXCEPT ![n] = {}]
  /\ UNCHANGED <<initialized, overtaken, emptied, store, lock, version>>

Older(age) == IF age < Overdue THEN age + 1 ELSE age

(* A time that no node's last scan is before has lost its meaning. *)
Aging(age) ==
  IF \E n \in Watchers : lastScanAt[n] # Never /\ age < lastScanAt[n] THEN age + 1 ELSE Old

Aged(e) ==
  IF e = NULL THEN NULL
  ELSE [e EXCEPT !.lastCheckIn = Older(@), !.createdAt = Aging(@), !.updatedAt = Aging(@)]

(* Time passes, but a running node is never late by more than MaxDelay.    *)
Up(n) == pc[n] \notin {"down", "open", "format", "await", "hung"}
Late(n, wait) == wait[n] >= Interval + MaxDelay

Tick ==
  /\ \A n \in Nodes : Up(n) =>
       /\ ~Scans(n) /\ ~Late(n, scanWait)
       /\ ~(registered[n] /\ Late(n, checkWait))
       /\ data[n] # NULL => data[n].lastCheckIn < StartDelay
  /\ store' = [n \in Nodes |-> Aged(store[n])]
  /\ data' = [n \in Nodes |-> Aged(data[n])]
  /\ nodes' = [n \in Nodes |-> IF nodes[n] = NULL THEN NULL
                               ELSE [m \in Nodes |-> Aged(nodes[n][m])]]
  /\ lastScanAt' = [n \in Nodes |-> IF lastScanAt[n] = Never THEN Never ELSE lastScanAt[n] + 1]
  /\ scanWait' = [n \in Nodes |-> IF Up(n) /\ n \in Watchers THEN scanWait[n] + 1 ELSE 0]
  /\ checkWait' = [n \in Nodes |-> IF registered[n] THEN checkWait[n] + 1 ELSE 0]
  /\ UNCHANGED <<startVars, lock, pc, registered, attrsToAdd, attrsToDelete, attrsToDiscover,
                 currentOfflineMachs, prevMachs, crashes, appVars>>

Work(n) ==
  \/ Open(n) \/ Format(n) \/ Await(n)
  \/ Lock(n) \/ Load(n) \/ SaveAndUnlock(n)
  \/ Scan(n) \/ ScanEnd(n)

App(n) ==
  \/ registerLocally(n)
  \/ n \in Adders /\ (addLocally(n) \/ removeLocally(n))
  \/ n \in Watchers /\ (discoverLocally(n) \/ stopDiscoveringLocally(n))

LocalNext ==
  /\ ~emptied
  /\ (\E n \in Nodes : Work(n) \/ App(n) \/ CrashNode(n)) \/ Tick

LocalSpec == LocalInit /\ [][LocalNext]_localVars

-----------------------------------------------------------------------------
LocalTypeOK ==
  /\ initLock \in {"free", "held", "left"} /\ initialized \in BOOLEAN
  /\ overtaken \in BOOLEAN /\ emptied \in BOOLEAN
  /\ store \in Files
  /\ lock \in Nodes \cup {NULL}
  /\ pc \in [Nodes -> {"down", "open", "format", "await", "hung", "idle", "load", "save", "scan"}]
  /\ data \in [Nodes -> Entries \cup {NULL}]
  /\ nodes \in [Nodes -> Files \cup {NULL}]
  /\ registered \in [Nodes -> BOOLEAN]
  /\ attrsToAdd \in [Nodes -> 0..MaxAdded] /\ version \in [Nodes -> 0..MaxAdded]
  /\ attrsToDelete \in [Nodes -> BOOLEAN] /\ attrsToDiscover \in [Nodes -> BOOLEAN]
  /\ lastScanAt \in [Nodes -> 0..(Old - 1) \cup {Never}]
  /\ currentOfflineMachs \in [Nodes -> SUBSET Nodes] /\ prevMachs \in [Nodes -> SUBSET Nodes]
  /\ checkWait \in [Nodes -> 0..(Interval + MaxDelay)]
  /\ scanWait \in [Nodes -> 0..(Interval + MaxDelay)]
  /\ crashes \in 0..MaxCrashes
  /\ view \in [Nodes -> [Nodes -> {"unknown", "online", "offline"}]]
  /\ heard \in [Nodes -> [Nodes -> 0..MaxAdded]]
  /\ believed \in [Nodes -> SUBSET Nodes]

(* A node's entry changes by its own hand only, time aside: no rewriting   *)
(* of the whole file takes back what another node wrote meanwhile, nor     *)
(* does a node that starts empty the bins of the others: unless a node had *)
(* the initial lock for so long that another took it (localregistry.js:    *)
(* 66, 86-93).                                                             *)
OwnEntryOnly ==
  [][\A n \in Nodes : \/ store'[n] \in {store[n], Aged(store[n])}
                      \/ pc[n] = "save"
                      \/ emptied' /\ overtaken]_localVars

(* The application hears of an update once: whatever still looks new at    *)
(* the next scan has not been reported to this process.                    *)
UpdatesOnce ==
  \A n, m \in Nodes :
    pc[n] = "idle" /\ store[m] # NULL /\ LooksUpdated(n, m) => heard[n][m] < store[m].attr

(* The values the variables take, and that no update is reported twice.    *)
LocalRegistryInv == LocalTypeOK /\ UpdatesOnce

Scanned(n) == pc[n] = "idle" /\ pc'[n] = "scan"

(* A node that has registered and runs is not reported offline, however    *)
(* late within MaxDelay it gets the lock for its check-ins.                *)
NoFalseAlarm ==
  [][\A n, m \in Nodes : Scanned(n) /\ m \in Offline(n) => ~registered[m]]_localVars

(* After a scan the last word on a node that missed two check-ins is       *)
(* "offline": a mark left from an earlier absence, or from the one before  *)
(* a restart, does not keep the news back.                                 *)
LastWordIsOffline ==
  [][\A n, m \in Nodes :
       Scanned(n) /\ m \in Found(n) /\ IsOverdue(m) => view'[n][m] = "offline"]_localVars

(* After a scan the application does not believe in an attribute that is   *)
(* gone, whatever updates and restarts the scans before it missed.         *)
RemovalIsNoticed ==
  [][\A n \in Nodes : Scanned(n) => \A m \in believed'[n] : store[m].attr # 0]_localVars
=============================================================================
