# TLA+ models of the JAMScript runtime

JAMScript programs run on devices, fogs and clouds. On every device a C program
linked with `jamlib` (`src/lib/jamlib`) makes calls to JavaScript processes, the
*J nodes* of the device, the fog and the cloud, and runs the calls they make to
it. J nodes find each other with `jdiscovery` (`src/lib/jdiscovery`). These
modules model the C runtime (how a call gets a thread, is sent, answered, timed
out and retried; how calls from outside are let in and started; how the node
connects to its J nodes; what a command's memory, a run table and a timer table
go through; how the data service starts and logs) and the discovery protocols.
All paths below are relative to `src/lib/jamlib` unless they start with `src/` or
end in `.js`; the latter are in `src/lib/jdiscovery`.

## 1. The system

### Threads of control

| runs | on | code |
|---|---|---|
| the program's calls, `jam_event_loop`, 32 `run_activity` tasks | the main pthread, as cooperative libtask tasks: a task keeps the processor until it waits (`pqueue_deq`, `taskdelay`, `taskyield`, `task_wait`) | `jamsync.c`, `jamasync.c`, `jam.c`, `activity.c` |
| the worker: polls all queues that cross pthreads | its own pthread | `jamworker.c` |
| two timers | a pthread each | `timer.c` |
| MQTT callbacks: message arrived, connected, connection lost, published | pthreads of Paho | `jamworker.c`, `mqtt.c` |
| the logger and the broadcasters of the data service | a pthread each, two libevent loops | `jamdata.c` |
| a Registrar and its three registries | one JavaScript thread per node, with timers and callbacks | `*.js` |

### Components

| component | state | operations | modelled in |
|---|---|---|---|
| activity table and threads (`activity.c`) | `jindx` of each thread, `jcounter`, the list of activities, `inq`/`outq`/`resultq` of each thread | `activity_new`, `activity_free`, `athread_get`, `athread_getbyindx`, `athread_getbyid`, `run_activity` | `ThreadPool`, `RemoteCall` |
| call stubs and runners (`jamsync.c`, `jamasync.c`) | the attempt under way | `jam_rexec_sync`, `jam_sync_runner`, `jam_rexec_async`, `jam_async_runner`, `jam_lexec_async` | `RemoteCall` |
| timer service (`timer.c`) | command queue, array of events | add, delete, fire | `TimerService`, `TimerTable`; `RemoteCall` has it as a set |
| worker, replies (`jamworker.c`) | inbound queues | publish a command, route a reply to a thread | `RemoteCall` |
| worker, admission (`jamworker.c`, `simplelist.c`) | `cache` of 32 ids, `odcount` | `duplicate_detect`, `overflow_detect`, admit, refuse, relay SYNCSTART | `Admission`, `EventLoop` |
| event loop (`jam.c`, `pushqueue.c`) | `globalinq`: two queues, two semaphores | `p2queue_*`, start an activity for a request | `EventLoop` |
| connections (`core.c`, `mqtt.c`, `jamworker.c`) | `mqttenabled`, `mqttpending`, `hid`, `cf_pending`, the client of each level | connect, lose, reconnect, add and delete a fog or cloud, REGISTER, PING | `Connection` |
| commands (`command.c`, `cborutils.c`) | reference count, arguments | make, hold, publish, free; encode and decode | `Commands`, `CommandArgs` |
| run table (`jamrunner.c`) | 64 entries with status and second of last access | insert, find, delete, reuse | `RunTable` |
| data service (`jamdata.c`) | the server's address, the queue of values, the broadcasters' loop | set the address, connect, log, subscribe, receive | `DataService` |
| local discovery (`localregistry.js`) | a file of entries, lock files, the times of scans | register, check in, scan | `LocalRegistry` |
| MQTT discovery (`mqttregistry.js`) | maps of attributes to publish, published, to subscribe to, subscribed | add, remove, discover, connect, retry | `MqttPublications`, `MqttSubscriptions` |
| mDNS discovery and the Registrar (`mdnsregistry.js`, `jregistrar.js`) | advertisements, browsers, timers of browser errors; the last dedupe id of each attribute and node | advertise, browse, make a new browser, merge, eliminate duplicates | `MdnsRegistry`, `Registrar` |
| mDNS binding (`mdns/lib`, `mdns/src`) | a service reference and a socket watcher for each browser, resolutions under way | register, browse, resolve, look up addresses, process a result | `MdnsRegistry` |
| conditions, devices, other encodings, translator, tools, vendored code | | | not modelled |

How they interact: a runner puts a command on its thread's `outq`; the worker
publishes it; a J node answers on an inbound queue; the worker looks the
activity up and puts the reply on the `inq` of its thread; `run_activity`
turns it into a result on `resultq`, where the runner waits. `run_activity`
and the runners set and clear timers through `timerqueue`; a timer that fires
puts a `TIMEOUT` on `inq`. Requests go from an inbound queue through admission
to `globalinq`, from where the event loop gives them a thread and a run table
entry. Announcements of fogs and clouds make the worker connect to them; Paho's
thread reports the outcome in flags the worker reads. A `PUT-CF-INFO` also
carries the Redis address that the data service's threads wait for. The three
registries emit discoveries and removals to the Registrar of their node, which
merges them for the application.

### What is hard

* A thread is given up (`jindx = 0`) before its runner has taken the result,
  and its queues are not emptied when it is given to the next activity.
* Looking an activity up, looking its thread up and queueing for it are three
  steps of the worker, in competition with the main pthread.
* A `TIMEOUT` names no activity; its cancellation travels through a queue.
* `machine_height` changes whenever MQTT says so, also between two iterations
  of one loop of `run_activity`.
* Both semaphores of `globalinq` wake up readers that look at both queues.
* The worker's loops over the levels read `mqttenabled` twice while Paho's
  thread changes it; the core's flags have no lock at all.
* A command is freed by callbacks on Paho's thread, one for each message sent.
* The timer table, the run table and `cache` have no test at their limits.
* Nodes of one machine write one file under a lock file that goes stale.
* Registries act first and take back later, while connections drop and timers
  of earlier failures are still to come.
* One attribute is reported by several protocols in any order, early and late.

PROJECT.json lists these as hazards at their lines, with the properties
about them.

### What makes each component correct

* Pool: one thread per activity; a thread in use is not handed on; threads come
  back.
* Calls: a call returns; a waiting caller is served.
* Timers: an armed timer belongs to the activity on its thread; the table loses,
  doubles and revives none, and never reads further outside its array than the count in front of it.
* Admission: an id is let in once within the cache's size.
* Event loop: a token always stands for a command; no admitted request is lost.
* Connections: an enabled level is connected and subscribed to; a fog that stays is
  found; a DEL of one fog does not cost another.
* Commands: freed once, after the last use; an argument arrives as it was.
* Run table: no entry is taken from a running call; results are sent; calls and
  requests that ran leave no entry behind that would end the program.
* Data service: nobody connects to half an address; what is logged is stored, in
  order and once; every broadcaster is served.
* Discovery: no live node is called dead, a dead one is; removals are noticed; the
  books agree with the broker; the application is told the truth in the end, and
  nothing twice.

## 2. The modules

### ThreadPool

The abstract promise of the activity table: `Create` (a new activity finds an
idle thread), `Reserve` (it finds none, its number is used up), `Assign` (it
finds one later), `Release`. Two variables, `jindx` and `jcounter`.

### RemoteCall

The calls of the runtime, whole: callers, activity threads, worker, timer and
the J nodes' replies.

| action | code |
|---|---|
| `Call`, `Retry` | `activity_new` with its 10 ms sleeps, then what the caller does up to its first wait: `Send` (both runners), `GiveUp` (no machine), `RunHere` (`jam_lexec_async`, a remote REXEC-ASY) |
| `SyncCollect`, `AsyncCollect` | a runner wakes up on `resultq` (`Collect`, whosever the result is): return, or clear the timer and send again |
| `DropCommand` | `run_activity` woken up for nothing (activity.c:274, 288) |
| `RunCommand` | the first command of an activity: `SyncAck`, `AsyncAck`, `StartCallback` (also for a command that is not the activity's own), `IgnoreCommand` |
| `SyncResult`, `AsyncSecondAck` | the second `pqueue_deq` of the SYNC_RTE and ASYNC arms |
| `EndCallback`, `Sleep`, `Wake` | the end of a callback, and `jsleep` in one |
| `Publish` | `jwork_process_actoutq` |
| `FindActivity`, `FindThread`, `Deliver` | the reply arms of the worker; the first two are the two lock regions of `athread_getbyid`, the third is `pqueue_enq` |
| `TimerCommand`, `Expire`, `Fire` | `timer_loop`, `timer_decrement_and_fire_events`, `tcallback` |
| `Reply` | external: a J node answers a published command, any number of times, in any order, or never |

What runs between two waits of a main-pthread task is one action, because the
tasks are cooperative. The worker and the timer run at any point between two
such actions, and their steps end where they release the lock or touch a queue. A
step of theirs can in fact fall inside a main-pthread action, too; it does not
matter, since the queues are synchronised and the reads of `jindx` are made under
the lock. One thing is lost by this: `activity_new` marks the thread before it puts
the activity on the list, and a lookup from the worker cannot see the state
between, where no reply to the activity can exist yet.

`fault` says that a NULL was dereferenced, or that an activity that had been freed was used
and this did not go well (`Using`, `FindThread`: `athread_getbyid` uses what it found after it released the lock);
nothing is said of what follows. Three history variables name the activities with which
something went wrong: `misled` (their caller took another one's result), `robbed` (their result
was taken) and `hijacked` (their thread ran the function of a stale LEXEC-ASY or REXEC-ASY). What nanomsg does is taken
to succeed: `queue_deq` then never returns NULL, as a NULL result travels as one of length 0, and the pause
of jamasync.c:141 is never made. `MCRemoteCall` adds the symmetry of the callers.

`machine_height` is any element of `Heights` each time it is read. Which
reply arrives for which activity is kept in the message, because the code
routes by activity id. A `TIMEOUT` is marked with the activity that set the
timer, for the properties only: no guard looks at it.

`fault` says that a NULL pointer was dereferenced. From then on nothing happens, as
the process is gone.

### Admission, EventLoop

`Admission` holds the cache and the overflow detector: their state, the
operators that change it, and what they promise. `EventLoop` extends it and makes
the operators part of its actions.

| action | code |
|---|---|
| `Arrive` | a J node's request or SYNCSTART reaches the inbound queue of its level |
| `jwork_process_device`, `_fog`, `_cloud` | the request arms of each: overflow or duplicate; condition false; `p2queue_enq_low`; `p2queue_enq_high` |
| `Signal` | `thread_signal`, the second half of both |
| `TakeToken` | `task_wait` in `p2queue_deq` and `p2queue_deq_high` |
| `PollQueues` | `nn_poll`, the dequeue and `jam_event_loop` up to its next wait |
| `PollStart` | the same after `p2queue_deq_high` |
| `Retry` | `activity_new` after a 10 ms sleep |
| `OtherTasks` | threads taken and given back by the tasks that `RemoteCall` models |

Only the device's arm asks `overflow_detect`, only for a REXEC-ASY. The draw of
`arc4random_uniform(100)` is one of its two extremes. A SYNCSTART is recognised,
as in the code, by the letter at index 6 of its name, an A like REXEC-ASY's. The
acknowledgement and the NAK of a request go out without touching this state.

### TimerService, TimerTable

`TimerService` is the abstract promise of the timer: a queue of commands and a
set of events, each with the 100 ms it has left; `Arm`, `Disarm`, `Silence`
(100 ms without a command) and `Elapse` (those that are due wake their clients,
all lose one). `TimerTable` is the program: an array with `numevents`, holes left by
firing and deleting, the compaction and the count that follow each
command, one move at a time.

| action | code |
|---|---|
| `jam_set_timer`, `jam_clear_timer` | the same; the client waits, or takes its answer first |
| `Insert`, `Delete` | `timer_insert_event_record`, `timer_delete_records_with_tag` up to the compaction |
| `Compact`, `Count` | timer.c:271-285, 287-290 |
| `Timeout`, `Fire` | `timer_loop` when its wait ends without a command; `timer_decrement_and_fire_events` |

`TableIsAService` is the refinement: `TimerService` with `Live`, the events in the
array wherever they are, for its set.

### Connection

| action | code |
|---|---|
| `Kill`, `RegisterAck`, `Ping`, `Add`, `Del`, `Disable`, `WorkerCheck` | the control arms of `jwork_process_device`, with `core_connect`, `core_disconnect` (in two steps, the flag last) and `core_check_pending` (in two: the flags read, `cf_pending` written) |
| `Enable`, `Subscribe`, `PahoCheck` | `on_dev_connect`, `on_fog_connect`, `on_cloud_connect` on Paho's thread |
| `Lose`, `Lost`, `Reconnect` | a connection lost, `jwork_connect_lost`, `core_reconnect_i`; the loss of the device's ends the program |
| `ConnAck`, `ConnFail`, `Close` | external: Paho's connection attempts, at any level, and its disconnections. `onSuccess` belongs to one `MQTTAsync_connect`, is called when the connection is made even if a disconnection was asked for meanwhile (`src/deps/paho/src/MQTTAsync.c:1306`, 2915), and is not called again by a reconnection (2105) |
| `Change`, `Answer`, `Acknowledge`, `SendPing`, `SendKill` | external: the device's J node |

Every client made for a level is kept, since `core_createserver` makes a new one
for a new host and the old one's callbacks still come. `muddled` is a history:
levels where a connect callback met an ADD or DEL of its level, or came after one: it belonged to a client
already replaced, or to a host that is no longer in `hid`.

### Commands, CommandArgs

`Commands` is one command from its making to its last free: kind `async` and
`sync` for the two runners, `own` for a result this node sends. The worker's two loops
over the levels, first `command_hold` for each that is enabled and then `mqtt_publish`,
are steps of their own, since Paho's thread changes the flags meanwhile.
`Confirm` is `mqtt_onpublish`, which frees; `Lose` a confirmation that never
comes. Any use after the free sets `misused`.

`CommandArgs` has the conversions as pure operators: an argument as a CBOR item and
back, on this side and in the cbor library of `jamserver`. An int has 2 `Half` values; `ReadInt` wraps
around as the unsigned product of `cbor_get_integer` does. A double is whole, has a fraction, or is
special (-0, NaN, an infinity): `JItem` writes a whole one as an integer up to `MaxSafe` (2^53 - 1) and a special one in two
bytes, of which `FromItem` may make any double, as the C side reads more than there is.

### RunTable

The entries with status, id and second of last access, and what reaches them: `StartCall` and
`EndCall` of the async runner, which keeps a pointer into the table; `StartRemote`
of the event loop; `Complete`, `EndRemote` and `IgnoreRemote` of `run_activity`, the last for a request whose
function does not exist or whose command the thread skips: its entry stays started for good. `Tick` is the
clock of seconds. A deleted entry keeps its id and is found, until it is used again.

### DataService

The worker sets the Redis server, then the port, then posts `jdsem`; the
logger and the broadcasters check the server, wait, post on, and connect. The
logger writes one item at a time, the next in the callback of the last; the first broadcaster to find
`dispatched` unset runs the event loop for all. `Store`, `Opened`, `Closed`,
`Broadcast` are external.

### LocalRegistry

One file of entries that all nodes of a machine share, `lockFile` and its
`stale` time, check-ins in two steps (read, write) under the lock, scans without it. A node that starts and
gets the initial lock looks for the flag (`Open`) and, if there is none, empties all bins and sets it (`Format`), in two steps; the
others wait (`Await`). `overtaken` and `emptied` are histories: the lock was taken as stale from a node that still had it, and
a node has emptied bins in use, which is not followed further. A time is
kept as its age, and stands still where no comparison tells the difference any more;
that keeps the model finite with clocks that never end. `Crash` may
come at any point and leaves the file and the lock files as they are.

### MqttClient, MqttSubscriptions, MqttPublications

The two halves of `mqttregistry.js`, which share the connection and no other state. `MqttClient` is what both need of the
MQTT client: the connection, the calls under way and the timers of those to be made again.
The broker keeps subscriptions, or forgets them with the session, and retained messages.
`Retry` and `RetryPub` are the two seconds of a retry or the minute of `sub-error`, `pub-error` and `unpub-error`.

What becomes of a call is the business of MQTT.js, which the repository has under `node_modules/mqtt`. A PUBLISH is kept until
it is acknowledged, and sent again after a loss (`MqttPublications`). A SUBSCRIBE is sent once: when the connection goes,
it goes, and its callback never comes (`Drop`). The client notes the topics it asked for (`resubscribeTopics`) and
does not ask for them again; the callback then has an empty list of grants, and the registry puts the attributes back into
`attrsToSubTo`. The list of a SUBACK names all topics asked for, the denied ones too (`Acknowledged`), so a denial
goes unnoticed. An error comes for an invalid topic only (`Wild`, `refused`, `Fail`). All of this makes subscriptions that
are lost for good; the history `cut` names them, and the properties speak of the others.

### MdnsRegistry, Registrar

One attribute of one node on its way to the application of another, over MQTT
(a queue that loses nothing: the two modules above are its inside) and mDNS. Which
attribute it is, the status or another, and whether it is the node's own, is chosen in `Init`.

`MdnsRegistry` is `mdnsregistry.js` with the binding below it; `Registrar` extends it and makes
its operators part of its actions.

| action | code |
|---|---|
| `make`, `registerAndDiscover`, `addAttributes`, `removeAttributes` | the application's calls, with `createAdvertisement`, `stopAdvertisement` and what MQTT publishes |
| `Advertised` | the callback of `DNSServiceRegister`, after which the advertisement is in `ads` |
| `Crash` | the advertising node stops; the broker publishes its will |
| `MqttMessage` | a discovery or removal of the MQTT registry |
| `serviceDown` | `OnServiceRemoved`: a service that went is reported at once |
| `serviceUp` | `OnAddressInfo`: one that came is reported when its record and then its addresses are resolved |
| `Browsing` | `browse` (a timer makes a new browser), `OnServiceAdded`, `OnResolve`, and the errors of a browser and of each resolution |

A browser is a `DNSServiceRef`, initialized once and freed once, and a watcher of its socket,
set once; `stop` ends both, and the browser stays stopped. Resolutions are calls of their own
and go on after it. `respondToDiscoveryEvent`, `isDuplicate` and `updateDiscoveries` are those of
`jregistrar.js`. A value has a size, since a `TXTRecordRef` item holds 255 bytes; what is added
before the Registrar is started is taken to fit. Errors that are emitted to nobody end the
process, and the model does not follow them.

## 3. The runs

| run | shows | states |
|---|---|---|
| `RemoteCall_pool` | calls of all five kinds implement `ThreadPool`; timers follow their threads; no sync caller is forgotten; every thread comes back; each with the exceptions below | 3,978,000 |
| `RemoteCall_live` | sync calls return, among local and async ones on the same thread | 542,000 |
| `EventLoop` | tokens, no request swallowed, no early repeat, every admitted request is started or dropped | 227,000 |
| `TimerTable` | the array implements `TimerService`, is left by no search but at `events[-1]`, and hides no event; timers go off once commands stop | 215,000 |
| `LocalRegistry` | own entries only, no false alarm, no death or removal overlooked, no update told twice | 4,393,000 |
| `MqttSubscriptions` | nothing discovered is forgotten, and the last value of what was not lost is told in the end | 1,209,000 |
| `MqttPublications` | the books agree with the broker, a running node is online in the end | 104,000 |
| `Connection` | what is enabled is up, a DEL costs only its own fog, the program starts, the fog that stays is found | 400,000 |
| `RunTable` | results are sent, ids stay known for a second, an exit only when nothing but ignored requests leaks | 841,000 |
| `Commands` | sent once: safe and freed; arguments come back as they were | 3,300,000 |
| `DataService` | no half address, nothing mislaid, all logged and served in the end | 386,000 |
| `Registrar` | nothing told twice, no step back, browsing goes on, only what is wanted is on the air, the truth when all is quiet | 2,762,000 |

An invariant with a name in `Inv` is the type invariant together with the parts
its comment names.

### Where the code does not keep a promise

The properties state what the code does keep, and where it does not they name the
exception in their own text rather than leave it out of the model. The exceptions, all
reachable in the models:

| exception | code |
|---|---|
| the compaction of an empty timer table reads `events[-1]`, which is `numevents` and not 0 at that time | timer.c:277 |
| "Repeat for three times ... under failure.." (jamsync.c:131): the thread is given up with the first failure, and a sync call fails after one attempt | activity.c:336, 454 |
| the same for an async call: the second attempt has no timer, and without a reply the caller waits for ever | jamworker.c:942-945 |
| "We always return the first reply we get as the result of the computation" (jamsync.c:117): a late result of another call, delivered to a reused thread, may be returned | activity.c:318 |
| "jindx = 0 means there is no active activity on the thread.." (activity.c:453): two callers may wait on one `resultq`, and one takes the result of the other, which then may wait for ever (`robbed`) | activity.c:454 |
| such a caller has also cleared its own timer: if no reply comes its thread stays in use for good (`misled`) | jamsync.c:143, jamasync.c:125 |
| a local activity runs the function of any LEXEC-ASY it finds, and a remote one that of any REXEC-ASY: the thread is given up without a result and the timer of a call that was waiting is left armed (`hijacked`) | activity.c:292-297 |
| an activity freed by its caller is used by the worker, which found it before, and by the thread that still serves it | activity.c:683-688, 310 |
| "Only return non NULL if the activity has a thread" (activity.c:658): with the pool exhausted the lookup dereferences NULL | activity.c:658-660 |
| "activity is deallocated after the run has completed..." (jamasync.c:37): a stale command ends a local call that never ran | activity.c:373 |
| a call that finds no machine keeps its thread | jamasync.c:58 |
| a request for an unknown function keeps its run table entry started for good | activity.c:433 |
| "Wait for the SYNCSTART signal from the J node." (jam.c:208): a left-over token starts a REXEC-SYN without one | pushqueue.c:149 |
| "don't free the structure if some other thread could be referring to it" (command.c:727): a command sent again, or to a level that came between the worker's two loops, is freed once too often | jamworker.c:437-444 |
| a negative int reaches a J node as one less; a float result as 0 | command.c:374-376, activity.c:742-758 |
| a whole double comes back from a J node as an int: one off if negative, cut if it does not fit; -0, NaN and infinities come back as anything | encoder.js:244-267, command.c:661-668, 686 |
| a level whose connect callback meets an ADD or DEL is enabled without a connection; a fog that was lost once stays off | jamworker.c:109, core.c:199 |
| a DEL does not stop a connection that is being made: its `onSuccess` enables the level for a host that is gone, or for another one named since, and later announcements are ignored | core.c:252-272, jamworker.c:109 |
| a refused connection to the device is neither told nor tried again, and the program never starts | core.c:216, jamworker.c:172 |
| a struct without fields, or with one `jamdata_encode` has no code for, is queued as NULL, and the program ends when the logger looks into it | jamdata.c:262, 408 |
| a call without arguments gives an async command no array, and ends the program; a sync call reads its arguments a second time, from a `va_list` already used | jamasync.c:49, jamsync.c:44 |
| a thread that looks between `redserver` and `redport` connects to port 0; when the broadcasters' loop has ended it is never run again | jamworker.c:73, jamdata.c:638-645 |
| a local node that comes back without a restart is not reported online | localregistry.js:276 |
| a node overtaken while it holds the initial lock empties the bins of those that run (`overtaken`) | localregistry.js:66, 86-93 |
| "wait until the node with the lock has finished initializing local storage" (localregistry.js:68): a node that waits gets the same `LocalStorage` object each time, which does not see the flag set by another, and never starts | localregistry.js:72 |
| after the loss of the session nothing is subscribed again, as MQTT.js does not ask twice for a topic; a SUBSCRIBE lost with the connection is never repeated; a denial goes unnoticed (`cut`) | mqttregistry.js:76-97, 251-284; mqtt/lib/client.js:500-550, 817-843 |
| one attribute with a wildcard in its name fails the whole request it is in, again and again | mqttregistry.js:231, 287 |
| unsubscription never happens, as it is given the wrong map | mqttregistry.js:108, 538 |
| overlapping advertisements are never stopped; a service resolved after it went is reported | mdnsregistry.js:60, 181 |
| each resolution of one browser that fails starts a further browser, though the first error stopped it | mdnsregistry.js:194, jregistrar.js:202 |
| a value too long for a TXT record throws after MQTT has it and after the old advertisement was stopped | mdnsregistry.js:61 |
| "by default, eliminate duplicates" (jregistrar.js:105): by default they are not, and a removal of an unknown attribute then throws | jregistrar.js:106, 283 |

### Bounds

* `RemoteCall`: two callers in both runs, so that one waits on a `resultq` that another has a
  result in, and takes it. `RemoteCall_pool` has two of the 32 threads: a thread is given up, reused and
  waited on by different activities while another is in use; the code treats all threads alike. With three activities of
  any kind the third meets the stale commands of the first, in any of the arms of `run_activity`. One reply
  besides the timeouts and the commands of local activities is enough to be late. `RemoteCall_live` has one
  thread, which both callers must share, and two replies, since a success takes an acknowledgement and a result.
  `Heights` differ in the number of acknowledgements an async call waits for (0, 1, 2): 2 in the first run,
  1 and 3 in the second. One sleep per callback.
* `EventLoop`: one thread, so that requests find none; a cache of one id of two, so that
  ids are evicted and return; `OdMax`, `OdMin`, `OdDown`, `OdUp` 3, 1, 3, 1, so that
  few requests lower the detector to where it sheds and below 0. Four messages.
* `TimerTable`: three clients (one of them periodic), four slots, timers of up to two ticks, a queue of
  three: holes at the front, in the middle and at the end of the array all occur.
* `Connection`: one level beside the device, two hosts for it, two changes, one fault, and a J node that
  sends when the queue is empty, so that one change's ADD and DEL wait together. The code treats fog and cloud alike but for the disabled
  clearing of `mqttpending[2]`; a third host brings no new order of ADD and DEL.
  `MAX_PENDING_CNT` is 0, so that every second PING asks again.
* `Commands`: ints of two bits, one text, a whole double of each sort (negative, an int, larger than an
  int, unsafe), one with a fraction, one special; at most one argument, as each is converted by itself and the theorem
  is for any number; three attempts, which is the code's own number; two faults.
* `RunTable`: three slots for four ids and three seconds: full tables, reuse and returns.
* `DataService`: two broadcasters, one of them heard, one item, two messages, one fault. The second
  broadcaster is what makes `dispatched` matter.
* `LocalRegistry`: two nodes, one that adds and crashes, one that watches; two crashes, one
  version, a delay of one interval. Writers are symmetric, and a watcher judges each node by itself.
* `MqttSubscriptions`: two attributes, so that a request has one that is known and one that is not, or one that is invalid and
  one that is not; only one may be invalid, and one denial; a retry before `sub-error`; two losses of
  the connection, the session with it or not. `MqttPublications`: the status and one other, two errors, two losses, four calls.
* `Registrar`: three values of the application, two faults, and so three browsers at most: a crash
  and an error of a browser, two crashes, or two errors of one browser meet in one behaviour.

The proofs below have none of these bounds: the constants are then any that satisfy the
named assumptions.

Deadlock is checked in `TimerTable`, which never stops. In the other runs it is not: with their
bounds used up, or after `fault`, `misused`, `exited` or `dead`, a model rightly stops.

### Fairness

* `RemoteCall`: the main pthread always runs and libtask's ready queue is first in, first
  out, so weak fairness of each waiting caller and of each activity thread; weak
  fairness of the worker and of the timer, which are loops on pthreads of
  their own. Callers need not call, a callback need not sleep, and J nodes need not
  answer. Weak fairness of the timer includes that it sees 100 ms without a command now
  and then; with finitely many calls it does.
* `EventLoop`: weak fairness of the worker and the event loop; no thread
  need become idle, since a request gives up after three looks.
* `TimerTable`: the timer's own pthread, and that a client whose answer came clears its timer. No
  fairness says that commands pause: `WokenOnceQuiet` assumes it where it must.
* `Connection`: the worker and Paho's thread run; a connection attempt ends, well or
  badly; the J node answers queries and sends PINGs, as `src/lib/jamserver` does. Its answers are strongly fair,
  because the bound on the queue, which the program does not have, stands in their way again and again.
* `DataService`: threads run, connections open or close, the server replies, with success or not.
* `MqttSubscriptions`, `MqttPublications`: MQTT.js reconnects for ever, the broker answers
  what is sent over a connection that stays, timers expire. Failures are bounded, not unfair; what they undo for good is
  in `cut`.

`LocalRegistry`, `Registrar`, `RunTable` and `Commands` state no liveness; `LocalRegistry` has
time that does not run ahead of what is due, which says more.

## 4. The proofs

| module | theorem | states |
|---|---|---|
| `RemoteCall_proofs` | `TypeCorrect` | type correctness |
| | `PoolImplemented` | `RemoteCall` implements `ThreadPool` |
| | `PoolTypeCorrect`, `OneThread`, `NotStolen` | the three properties of `ThreadPool`, which `RemoteCall` inherits |
| | `TimersFollow` | `TimersFollowThreads`, for calls of all kinds |
| | `NobodyForgotten` | `NoForgottenSyncCaller`, for any number of callers on any threads |
| | `PoolComesBack` | `PoolIsWholeAgain`, likewise |
| `EventLoop_proofs` | `TypeCorrect`, `TokensCovered`, `PollIsNeverEmpty` | types, tokens and polls under all interleavings |
| | `RecentIdsCached`, `NoIdRepeatsEarly`, `DetectorBounded` | the promises of `Admission`, from lemmas about the operators of `Admission` |
| | `NoRequestSwallowed` | no admitted request is lost between the queues and its thread |
| `TimerTable_proofs` | `TableIsSeen`, `TableIsLargeEnough`, `OneEvent` | the array: no event out of sight, no access outside but one to the count, one event for each client |
| | `Refinement` | the array implements `TimerService` |
| `Worker_proofs` | `CallKeepsItsEntry`, `ResultsAreSent`, `OneEntry` | `RunTable`: entries of running calls and activities are theirs |
| | `CountsAndExits`, `RecentIdsAreFound` | `rcount`, the exit, and ids used in this second |
| | `InUseIsUp` | `ConnectionInv`: a level in use is connected and subscribed to, or about to change, unless muddled |
| | `GivenUpForItself` | `NotGivenUpForAnother`: for its own lost connection or its own DEL |
| `Commands_proofs` | `CountIsRight`, `SentOnceIsSafe`, `FreedAtLast` | the reference count counts its users |
| | `ArgumentsArrive` | conversion there and back, for every width |
| `Registries_proofs` | `NothingForgotten` | `SubscriptionsInv`: what is discovered is in one of the two maps; what counts as subscribed is or is asked for, what was lost for good aside |
| | `PublishedIsKept` | `PublicationsInv`: the books agree with the broker, the status is never forgotten |
| | `NobodyElseWrites` | `OwnEntryOnly`: a node's rewriting of the file leaves the entries of others as they are |
| | `DeathIsTold`, `RunningIsOnline` | `LastWordIsOffline`, `NoFalseAlarm`: a node found dead is reported; one that runs never is |
| | `NothingGoneIsBelieved` | `RemovalIsNoticed`: after a scan the application believes in no attribute that is gone |
| | `LocalRegistryIsSound` | `LocalRegistryInv`: no update is told twice |
| `DataService_proofs` | `ServiceIsSound` | `DataServiceInv`: no half address unless a thread came in the named window; values in order, none missing |
| | `NoItemMislaid` | every item logged is in the queue, under way, stored or refused, and not in two of these places |
| `Registrar_proofs` | `TypeCorrect`, `DiscoveryNeverEnds` | types; a browser runs or a timer will make one, in spite of any errors |
| | `RegistrarIsSound` | `RegistrarInv`, with elimination of duplicates: no event twice in a row, no handler that throws |
| | `NoValueComesBack` | `NoStepBack`, with elimination: from a value to a later one only |
| | `WantedIsOnAir` | the daemon answers for the value wanted, overlapping advertisements aside |
| | `TruthWhenQuiet` | `PresentWhenQuiet`: with nothing on its way, the application believes what is so |

They rest on the assumptions named in the modules, which say of the constants
what the code's values satisfy, and on the conditions the table names.

*Types of RemoteCall.* `TypeOK` is not inductive: a thread's command is about
the activity of that thread, a waiting caller has a thread and an activity, a number in use is
below `jcounter`. `TypeCorrect` proves these parts together (`InHand`,
`Numbered`).

*Refinement of ThreadPool.* Each action maps to a step of the pool or leaves it alone. The one
place that needs an invariant is `Retry`: the activity that asks again has a
number handed out before (`Numbered`) and still no thread. `athread_get` prefers an
activity's own thread, so `Assign`'s condition that nobody serves the activity is
what has to be shown.

*Timers of RemoteCall.* `TimersFollow` needs most. Beyond the types: a thread in one of the middle
states of `run_activity` serves a listed activity of the right kind
or was hijacked (`KindsAgree`); an activity that still looks for a
thread has one caller and no thread (`Waiting`); an activity whose timer will be
armed is on its thread and, if it is one that runs here, sleeps or waits for a second acknowledgement (`Timed`,
`TimersInv`), unless it was hijacked. An action falls under one of the summaries of what it does to
`jindx` and the timers (`StepCases`: a start, a collected result, a step of a thread, a step elsewhere), and the
invariant is proved for the summaries.

*Callers of RemoteCall.* `NobodyForgotten` says that a caller blocked on a `resultq` is on a thread that still works for
its activity, or its result is in that queue. On top of `Waiting` and `KindsAgree` it needs that an activity
whose result is queued serves no thread and is no longer looked for (`ResultsLeft`), and that an activity has no
kind before it has a thread (`Unnamed`). `PoolComesBack` needs that a thread in the service of a call has a caller that waits, or
one that was misled (`Served`), and that a thread of a local or remote activity that has not begun has a command
(`LocalStarts`). What one caller does to the result of another goes into `misled` and `robbed` at the same step
(`CollectOutcome`), and history is never forgotten (`HistoryGrows`, `UnluckyStays`).

*Tokens.* `TokensAreCovered` is inductive on top of the types: the
tokens given out, the one about to be signalled and the one being spent are at most the
commands in both queues. A poll spends a token and takes at most one command, and none
only if the high queue is empty at `PollStart`, where the token alone
goes. `PollIsNeverEmpty` follows.

*Admission.* `CacheIsRecent` makes `NoEarlyRepeat` inductive: an id not in the
cache is not among the last `CacheSize`. One lemma for each operator of
`Admission`; `AdmissionPreserved` finds which one an action of `EventLoop` uses.

*Requests.* `NothingSwallowed` counts: the times an activity was admitted are its places in both queues, the event loop's
hand, its starts and its losses. It is inductive once the hand is known to be empty while the event loop waits
(`HandEmpty`); most of the proof is what appending to a queue and taking its head do to the places of an activity in it.

*The timer table.* Two things are needed beside the table itself. `Compacting` says what the compaction keeps
while it runs: no hole before `i`, no event behind `j`, a count that is not 0 while they are apart, and once they have met the events are a prefix of
the array; so the count finds exactly what is there. `Alternate` is about the queue: the requests of a client
alternate, and between its event and its next ADDEVENT there is always a DELEVENT, even if the timer fired
meanwhile. Hence one event for each client, hence a free slot for every insertion. The refinement maps
the array to the set of its events: a move of the compaction leaves that set alone, an insertion adds to it because the
slot it writes to was empty.

*The run table.* A running call's pointer leads to its own started entry, ids in use are in one
entry, and a started entry belongs to something that runs or was ignored (`StartedIsOwned`). `Spare` takes a deleted entry only, so an insertion cannot touch a started one; the case that needs
care is an id that came again, whose entry is deleted though its activity runs (`repeated`).

*Arguments.* `WholesComeBack` and `ComesBack` follow one argument through the four conversions, case by case; the unsigned
product and the cut to an int cancel by arithmetic modulo 2 `Half`.

*Reference counts.* `CountIsRight` counts the frees still to come: the runner's, one for each message
under way, one for each level the worker has held for and not yet sent to, and the one for
the device. The invariant adds what each state of the runner and worker says of the attempt. `SafeIfSentOnce`
follows: whoever may still use the command is among those counted.

*Subscriptions.* `NeverForgotten` alone is not inductive: a request may come back with nothing granted, and then what it
was for is put with what waits although the client is connected. Beside it stands `Known`: what the client will not ask for again
is in `subscribedAttrs` or went wrong, and so did what is in a timer and what a SUBSCRIBE leaves out. `RealOrAsked` is
`SubscribedIsReal` over the calls and the refusals as sets. One lemma on `subscribeWithRetries` (`SubscribeInv`) serves the
three actions that call it.

*Data service.* `AddressInv` says that, before the port is there, `jdsem` is 0 and no thread is past it but one that came between
the two assignments (`HeldBack`), and bounds `jdsem` by the announcements and the threads that posted it on. `LogInv` makes items distinct by their
times, keeps the logger idle until it is connected, and says a reply is about the item under way; `ValuesInv`
numbers the values a broadcaster hands on consecutively and keeps those of the queue newer.

*Registrar.* Three parts beside the types. `Counted`: an error sets one timer and a timer makes one browser, so the
browsers made and the timers together are at most one more than the faults, and there is always a browser left to make;
those running and the timers are one more than the errors of stopped browsers, hence `DiscoveryGoesOn`. `Booked`: the id
that is booked tells what the application heard last, so that what would repeat it or take it back is recognised as a duplicate. It
needs `EliminateDuplicates`; with the default of `jregistrar.js` events do repeat. `Handled`: what is on
the air is in `ads`, waits for its callback, or was replaced or removed before it came, and when several advertisements
overlap all of them are of that last kind.

The truth when all is quiet (`Told`) follows each side of the story. While a value is on the air, the application has
heard of it or something is still on its way: an MQTT message, a browser's event, a resolution or a timer (`UpToCome`).
What it heard and is no longer published is taken back by a message still in the queue (`DownToCome`). For a
step to keep these, the last message of each queue must tell the present state (`MqttTells`, `FoundTells`), since a queue's last
event is the one the application is left with.

*Publications.* `PublicationsInv` is inductive, over queues of well-formed calls. The case with some
substance is a call that fails or expires: what it was about must be left in a timer or in another
call for as long as the node is connected.

*Local registry.* `NodeOK` says what a node's state implies of its variables, above all that the lock is its
own throughout the section and that an entry about to be written is either new or due. `RewriteOK`: what a node
is about to write differs from the file in its own entry only; `OwnEntryOnly` is then a matter of one step. `Punctual`
bounds the age of a registered entry by the time since the last check-in, which with `StartDelay + MaxDelay <= Interval`
keeps it younger than what a scan takes for dead. That a starting node empties nothing is `StartInv`: as long as nobody was
overtaken, one node at most has the initial lock, and who prepares the bins finds them unprepared, hence empty. `MarksAreTold` and `BeliefsAreKept` link the marks and memories of a scan
to what the application was told. For the updates, values grow on their way from one application through the file to another (`Ordered`),
and what looks updated to the next scan was not heard before (`Once`). `LocalRegistryAssumption` has the order of the
three intervals, and a NULL that is nothing else.

*Connection.* `LevelOK` speaks of one level. A connect callback that met nobody else has the present client,
connected, and has enabled or subscribed what its place in the code says, and its host is the one in `hid`. A DEL clears `hid`
with its first half, so a callback that comes between the halves or later is not for the host in `hid`, and in `muddled`. A level
in use has the host of its present client in `hid`, or, between the two halves of a DEL, in the worker's hand; so a DEL of another host, which compares with `hid`, cannot disable it. Each lemma about
a step shows this for the step's own level, and `OtherLevels` that the rest is as it was. This covers a fog together with a cloud
and any number of hosts, which the run does not.

`MqttSubscriptions`, `MqttPublications`, `LocalRegistry` and `Connection` mark the names of their initial states, actions and type
invariants (`PubInit`, `LocalNext`, `ConnSpec`), so that one module of proofs can extend several of them.

Only model-checked: liveness, which is beyond this prover (`SyncCallReturns`, `AllHandled`,
`WokenOnceQuiet` and the `InTheEnd`s). The safety properties of the runs are proved, some of them under the conditions the
table names.

## 5. What is not modelled

* What `core_setup` reads and writes (the node's configuration file and serial number), the creation and
  deletion of sockets and the names of queues: input and output.
* Encodings other than integers and their place in a command (`base64.c`, `json.c`, `jparser.c`, `socket.c`):
  sequential conversions.
* Whether a condition (`jcond`) holds: it is true or false in `EventLoop`.
* Dead code: the SYNC_NRT arm, `activity_renew`, `timer_cancel_next` (timer.c:122-137, 294-308),
  the sync timer (nothing calls `jam_set_sync_timer`), `globaloutq` (nothing is put into it), `jamdevices.c`,
  `command_rebuild`.
* The readers of a broadcaster's queue and `jamdata_decode`: conversions of what is dequeued.
* `unsubscribe` of the MQTT registry (never reached with an attribute), `stopDiscoveringAttributes` of the
  mDNS one, and `quit`.
* The bins of the local registry, which spread nodes over files: what one bin shows does not depend on the others.
* Of the mDNS binding what the registries do not use: the enumeration of domains, updates of records, the
  constants, the encoding of TXT records.
* The J nodes' program, brokers, Redis, Paho, MQTT.js and the mDNS daemon. What they do is an external action, or an
  external operator, and marked so in PROJECT.json.
* The translator, the tools, the vendored libraries.

Assumptions of single models: a local node is never in its lock section for the second after which its lock
counts as stale, and is never late for a check-in by more than an interval; a crash between the write of the file and the unlocking looks like one after
it; applications listen to the Registrar's `error` event, which a request that comes back with nothing granted emits
(jregistrar.js:168-173; without a listener it ends the process); the lock files of local nodes have relative names (localregistry.js:66, 150), so the nodes of one machine are taken to run in
one directory; Paho's sending thread takes a CONNECT up before the worker's next command; `static id` of `command.c:45` is taken to give different ids.

## 6. What the plan has left

* `Registrar` composed with `LocalRegistry`, whose discoveries come by the same handlers.
* The liveness of `Connection` with both a fog and a cloud (its safety is proved for both), which is beyond a few
  minutes of model checking as it stands; the two share `cf_pending`, where one level's update may be lost.
* `jsleep` in a task that is no activity thread, which keeps the table's lock (activity.c:503).
