# Karabiner-DriverKit-VirtualHIDDevice in TLA+

A verification development for the virtual HID device service: TLA+ modules
translated from the source, TLC configurations for small instances, and TLAPS
proofs. Paths below are relative to the repository; `PROJECT.json` maps every
definition to the lines it models and lists runs, mutants, hazards, findings and
theorems.

## 1. The system

An application that wants a virtual keyboard or pointing device links the client
library and talks over a unix domain socket to a root daemon. The daemon talks
through IOKit user clients to a DriverKit driver, which creates the HID devices.

| Part | State it keeps | Operations | Interacts with |
| --- | --- | --- | --- |
| client library, `include/pqrs/karabiner/driverkit/virtual_hid_device_service/client.hpp` | connection, last ready states, last keyboard parameters | start, stop, initialize, terminate, reset, post report; handles statuses | requests to the daemon, statuses from it, on its dispatcher thread; calls come from any thread |
| service server, `src/Daemon/include/virtual_hid_device_service_server.hpp` | socket server, retry timer | create and recreate the server; peer connected, closed, request received; deliver status | one entry per peer in the clients manager |
| clients manager and `client_entry`, `src/Daemon/include/virtual_hid_device_service_clients_manager.hpp` | per peer: enabled flags, parameters, up to three `io_service_client`s, generations, last pushed response | initialize and terminate a device, check and push the status, the five-second readiness check, the one-second ready poll | owns the `io_service_client`s, listens to their signals |
| `io_service_client`, `src/Daemon/include/io_service_client.hpp` | reported services with flags, the connection, driver version, ready values | services matched and terminated, open and close the connection, initialize, poll ready, reset, post report | fed by the service monitor, calls the driver |
| `iokit_service_monitor` (vendored pqrs library) | the ids it reported | notifications, a scan every three seconds | IOKit on the run loop thread, subscriber on the dispatcher thread |
| driver, `src/DriverKit/Karabiner-DriverKit-VirtualHIDDevice` | per user client: parameters, keyboard, pointing; per device: ready, LED state | ExternalMethod, handleStart, setReport, reset | one user client per open connection |
| HID report types, `include/pqrs/karabiner/driverkit/virtual_hid_device_driver/hid_report` | keys, modifiers, buttons of one report | insert, erase, exists, count | used by applications and by the driver's reset |
| Manager, `src/Manager/Sources` | a pending system extension request | activate, deactivate; delegate callbacks | `OneShot` delivers the result once |
| `pqrs::dispatcher` (vendored) | task queue, attached objects, the object whose function runs | attach, detach, enqueue, terminate | the thread everything above runs on |
| `pqrs::unix_domain_stream` (vendored) | connections, an io thread | connect, request, respond | signals become tasks of the dispatcher |
| daemon main, `src/Daemon/src/main.cpp` | the server object | start-up; the termination handler | destroys the server, then terminates the dispatcher |

**What is hard.** All daemon code runs on one dispatcher thread, but in small
tasks: a getter changes now and its `state_changed` is emitted later; a ready
value is asked in one task and stored in another; a destroyed object's tasks
vanish. IOKit notifications come from another thread, late or never. Checks
fire five seconds after a client that may be gone. Requests, answers and pushes
cross on the socket, and connections end between any two of them. Objects are
destroyed on other threads than the one their tasks run on, so `detach` has to wait
for the right things and for nothing else.

**What makes each part correct.**

- `io_service_client`: reports, flags, version and connection agree; no user
  client leaks; a usable service is not passed over; a connection is not
  disturbed by other services; no status change goes unreported.
- monitor: reports alternate per service; losses are made up for by the scan.
- `client_entry`: a client exists exactly for an enabled device; a client that
  never got ready is replaced; checks act on their own client only; the last
  push is the current status or another check is queued; the driver's keyboard
  has the parameters asked for.
- session: the daemon ends up doing what the application asked for last; the
  library does not keep believing an outdated status.
- driver and reports: parameters are taken once per user client; LED reports
  are not lost; a report's key set behaves like a bounded set; no key stays down
  for the system that the application released.
- dispatcher: tasks run one at a time, cleanup functions first and the others in
  order, not before their time; none of an object whose `detach` has returned; every call returns.
- Manager: the request's result reaches the waiting task once, and the exit code
  tells what became of the request: done, done after a reboot, or refused.

## 2. Modules

| Module | Models | State ↔ code |
| --- | --- | --- |
| `StatusSource` | abstract: what an `io_service_client` promises its subscriber | `status`: the getters; `pending`: a queued `state_changed`; `seen`: the getters at the last emission |
| `IoServiceClient` | `io_service_client.hpp` | one variable per member; `queue` holds the tasks the client enqueued for itself; `handles` and `device` are the driver's side; `life` and `known` are IOKit's and the monitor's |
| `ServiceMonitor` | `iokit_service_monitor.hpp` | `known` is `registry_entry_ids_`; `scan_*` are what a running scan still has to report |
| `MonitoredClient` | both together | a report and the client's handler are one step, since signals are synchronous |
| `ClientEntry` | `client_entry`, with its clients abstracted to `StatusSource`s | one variable per member, `queue` for immediate tasks, `checks` for delayed ones |
| `PeerSession` | client library, server handlers, socket, on top of `ClientEntry` | `todo` is the library's dispatcher queue; `to_server`, `to_client` are in flight |
| `ServiceServer` | `create_server` and the socket server under it, the table of entries | file system, socket server and service server, one variable per member; `tasks` is the dispatcher's queue of immediate tasks; an entry is the session it was created for |
| `HidReport` | `hid_report/keys.hpp` | operators on the array of slots |
| `ReportPath`, `MCReportPath` | a keyboard report from the application's `keys` to the system, and the LED state back | the report, the requests on the wire, the entry's client and its tasks, the driver's keyboard; `host` is what the system makes of the reports |
| `SerialExecutor` | abstract: what the dispatcher promises its callers | `pending`, `attached`, `released`: sets of tasks and objects, without queue and locks; `chosen`, `current`: the task that runs next, and the one that runs |
| `Dispatcher` | `dispatcher.hpp`, `dispatcher_client.hpp`, and the waits of `~client` and `~server` in `unix_domain_stream` | `queue`, `object_ids`, `running_id`, `exit` are its members; `worker` and `caller` say between which locks the dispatcher's thread and the others are |
| `ExtensionManager` | `App.swift`, `ExtensionManager.swift`, `OneShot.swift` | `continuation`, `pending` are OneShot's; `tasks` are the calls of `resume` still to run; `request` is macOS's view of it, `installed` the driver in place now, `registered` the one in place after the next reboot |
| `Subsequence` | what is left of a queue when some elements are removed (`std::erase_if`, destroyed objects) | an operator on a sequence and the positions that stay |
| `IoServiceClient_proofs` | theorems about `IoServiceClient` and `MonitoredClient` | |
| `ClientEntry_proofs`, `PeerSession_proofs`, `ServiceServer_proofs`, `ReportPath_proofs`, `Dispatcher_proofs`, `ExtensionManager_proofs` | theorems about the module of that name | |
| `Subsequence_proofs` | what `SubseqAt` returns; used by four of the above | |

A handler that runs on a dispatcher thread is one atomic action; `Dispatcher` shows
that the dispatcher gives what this relies on (`ImplementsExecutor`). What it
enqueues is appended to a queue variable; events of other objects may run
between any two queued tasks, as they do in the shared dispatcher. The dispatcher
sorts immediate tasks before delayed ones, so a readiness check needs an empty
queue.

In `IoServiceClient`, the loop of `open_connection` is written with predicates
over the list of services and a function `out` that says how each service would
answer: `Reached` says the loop gets to an index, `Rejected` which services it
invalidates, `Connects` where it stops.

`ClientEntry` abstracts an `io_service_client` for a device to `none`,
`starting`, `dud` (not ready when its check is due) or `ready`. Each change of
status puts a `state_changed` into the queue; `IoServiceClient` is shown to
implement exactly that promise (`ImplementsStatusSource`). Calls that do not
change state in the daemon (`reset`, `post_report`) have no action there; they
are the subject of `ReportPath`.

In `ReportPath`, a client opens, loses and reopens its connection at any time, as
`IoServiceClient` allows. A task of a client vanishes with the client. The system's
side is external: a report replaces the keys of its kind that are down, a keyboard
that goes away releases them all. `reset` posts an empty report of each kind and ends
at the first one the driver has no memory for. Only one session has an entry at a time, since entries of
different peers share nothing.

`PeerSession` gives the variable `intent` to the application: what it asked
for last since the connection was last known to be lost. It is the reference
that the entry's `enabled` and `params` are compared with. An initialize call is
three steps there: it looks at the stored status, compares and stores the
parameters, and enqueues the request, while the library's dispatcher handles
messages, closed connections and `async_stop` between them. `skipped` remembers that
a call without `force` was ignored.

`Dispatcher` has one action for each stretch of code between two locks. The mark
`running_id` is set before the worker looks whether the object is attached; `detach`
erases the object first and looks at the mark afterwards. Every other order would
let a function run after `detach` returned. Objects of the set `Peer` are the peers of
a socket, attached and detached on the io thread `Io` of a client or server that a
function of the dispatcher may destroy and join. A function may also construct an
object. The lock of `shared_dispatcher` is left out: it is needed to construct an
object without saying which dispatcher it is for, and that is done only by the
application's or the daemon's main thread.

`SerialExecutor` separates the choice of a task from its start. The worker chooses
the head of the queue, and what is enqueued afterwards, a cleanup function included,
comes after it. At the choice nothing that waits should have come first: neither a
cleanup function, nor an earlier time, nor an older task of the same time.

In `ExtensionManager` macOS is the environment: it decides, carries a request out at
once or leaves it for the next reboot, may report more than once, and owes nothing.
A reboot may come at any moment and ends the tool. `before` is what was registered
when the request was made.

## 3. Runs

| Run | Configuration | Bounds | Shows |
| --- | --- | --- | --- |
| `io_client` | `IoServiceClient.cfg` | two reliable services and one that may fail, two versions, external events while at most one own task is queued | all safety properties of the connection, and the refinement of `StatusSource` |
| `monitored` | `MonitoredClient.cfg` | two services, lost and late notifications | `ImplementsClient`: the monitor behaves as `IoServiceClient` assumes; and the four liveness properties of the connection |
| `entry` | `ClientEntry.cfg` | one device requested, two parameter sets, three generations, one failing client, queue up to three | the entry's safety properties |
| `entry_live` | `ClientEntry_live.cfg` | both devices requested, two generations, two failing clients, events on an empty queue only | a device that is asked for gets ready; `setup_virtual_hid_devices`, which handles both, keeps their clients and checks apart |
| `peer` | `PeerSession.cfg` | three calls with and without `force`, one lost connection and a second session, one driver event | the last wish is granted unless a call was ignored; no status survives a reconnection; the stored parameters are the daemon's |
| `peer_stale` | `PeerSession_stale.cfg` | three calls | finding 1 |
| `report` | `MCReportPath.cfg` | two slots for three keys (symmetric), two kinds of report, three requests, one failure, one incident | the system sees the last report and no released key; slots behave as a set; LED states are posted |
| `server` | `ServiceServer.cfg` | three connections, the directory deleted twice and blocked twice | entries are those of the exposed peers; losing the socket does not disturb a connected peer; the socket comes back |
| `server_retry` | `ServiceServer_retry.cfg` | the directory deleted and blocked once | finding 2 |
| `server_reuse` | `ServiceServer_reuse.cfg` | two connections, the directory deleted and blocked once | finding 3 |
| `dispatcher` | `Dispatcher.cfg` | two objects and a peer, a main and an io thread, three functions besides cleanup functions, two times | no function of a detached object; the refinement of `SerialExecutor`; calls return |
| `manager` | `ExtensionManager.cfg` | three versions, two results per request, three runs of the tool with or without a reboot between them | the continuation is resumed once, the exit code tells what became of the request, a reported result ends the tool |

Why the bounds suffice: three services give every relation of the connected
service to an earlier, a later and a failing one. A queue bound of one lets an
event fall between any two tasks that one handler enqueued; handlers themselves
are never cut short by the bound. Three generations are an original, its
replacement and the replacement of that one, with all their checks pending at
once. Three calls are enough for initialize, terminate, initialize. Three
connections let peers come and go before, between and after two losses of the
socket. `EntryPerPeer` is about behaviours in which the directory is never blocked,
so that the server is not destroyed; what happens otherwise is finding 3. Two kinds of
report let a reset end between them. Three functions are one that runs, one of the
object being detached behind it, and one that was enqueued meanwhile, at an equal or
another time; two objects and a peer are the one that runs, the one that is
constructed or destroyed, and the one the io thread detaches. Two results are enough
for one before and one after `wait`; three versions and two further runs for a version
that is in place, another one that waits for a reboot, and a third one that is asked for.

The sessions of `PeerSession` end (calls, losses and events are bounded), the
dispatcher may be terminated, and the tool exits, so these runs do not check for
deadlock; that no call of the dispatcher hangs is `CallsReturn`.

**Fairness.** `FairMonitoredSpec` assumes that the dispatcher runs queued tasks,
that `async_start` is executed, and that the scan and ready timers keep firing;
notifications get no fairness because IOKit may lose them. `FairEntrySpec`
assumes the same of the dispatcher, strong fairness of a check (it is due again
whenever the queue runs empty) and of a client that is able to get ready (it is
polled every second). `EnabledGetsReady` is conditional on the dispatcher not
being saturated with immediate tasks, which its sort order would need.
`FairServerSpec` assumes that the dispatcher and the io thread run, that timers
fire when the queue of immediate tasks keeps running empty (strong fairness), that
the health check, which runs every three seconds, notices a missing socket file,
and that the directory can be created again some day. Peers owe nothing.
`FairDispatcherSpec` assumes that the threads run, functions return, time passes and
an io thread that is asked to end releases its peers (`asio::post` in the
destructors); nobody has to call anything. `CallsReturn` excepts a dispatcher that is
terminated while objects are still there, when a cleanup function may stay in the
queue; `main.cpp:44` destroys them first. That every task is run some day is not
claimed: immediate tasks overtake delayed ones for as long as there are any, and a
model with a bounded number of tasks would hide that. What is claimed is the order
(`ImplementsExecutor`), by which a task waits only for those before it. `FairManagerSpec` assumes that Swift runs
its tasks; the system and the user owe nothing.

## 4. Findings

1. **An answer may leave a wrong status behind**
   (`virtual_hid_device_service_clients_manager.hpp:514`). `NEWS.md:411` promises to
   ignore an initialize call *if the device is already initialized*. The library
   decides by the status it received last. The answer to a request is the status of
   that moment, and `last_response_` does not record it. If the device becomes ready
   and is terminated with only an answer in between, the next check finds the
   response equal to the last push and sends nothing. `peer_stale` ends with the
   library believing that a device is ready which does not exist; later initialize
   calls without `force` are ignored. The same happens for a moment between
   `terminate` and the next status: an initialize call with the same parameters is
   dropped, and the device stays off. This is why `IntentHonoured` excepts sessions
   in which a call without `force` was ignored.
2. **create_server is retried without a pause**
   (`virtual_hid_device_service_server.hpp:359`). The retry timer is given an
   interval of one second, but a timer calls its function as soon as it is started
   (`timer.hpp:38`), and the function, `create_server`, stops and starts the timer
   when the directory cannot be created. `server_retry` shows three calls with no
   interval between them; they go on until the directory can be created, and the
   dispatcher runs no delayed task meanwhile.
3. **A new peer may get an old peer's entry**
   (`virtual_hid_device_service_clients_manager.hpp:39`). `NEWS.md:457`: devices are
   created *for each* client. When the directory is deleted and cannot be created
   at once, the socket server is destroyed; `stop` forgets the exposed peers, so no
   `peer_closed` is emitted and their entries remain. Peer ids start again at 1, and
   `create_client` leaves an entry that is there: `server_reuse`.

## 5. Proofs

Every invariant and every action property of the passing runs, and every refinement
between modules, is proved for every value of the constants. The assumptions are those that
the modules declare (`ConstantsAssumption`, `EntryAssumption`, `SessionAssumption`,
`DispatcherAssumption` and their like): the special values are distinct from the others
and bounds are numbers. No theorem bounds a queue, a number of calls or a number of objects,
with the exception noted for `MonitorIsAsAssumed`. Every proof has the same layout: an
inductive invariant, which TLC checked on the runs' instances first, one lemma per
action, and a last step that combines them. Each of the following says what
the invariant has to add to the property, and why.

**`IoServiceClient_proofs`**: `TypeCorrect`, `MirrorCorrect`, `ConnectionCorrect`,
`NoHandleLeak`, `HealthyConnected` (invariants), `ConnectionIsKept` (action property),
`NoStatusLost`, `RefinesStatusSource`, `MonitorIsAsAssumed`.

    IInv == TypeOK /\ ServicesMirrorMonitor /\ ConnectionConsistent
              /\ HandlesBalanced /\ HealthyServiceConnected
              /\ OnlyFaultyInvalidated /\ KnownNotAbsent

None of them is inductive alone. `HealthyServiceConnected` needs to know that
an unconnected client's loop sees every known service (the mirror), that a
healthy service has not been invalidated (`OnlyFaultyInvalidated`), and that a
service known to the monitor does not become present later (`KnownNotAbsent`);
closing the right handle needs `ConnectionConsistent`.
The central lemmas are about `open_connection`, called with any intermediate
state: `OpenConnectionType`, `OpenConnectionConsistent`, `OpenConnectionHealthy`.
The last rests on `OneConnects`: if some service of the list would connect, the
loop reaches a first one (`LeastElement`, by well-founded induction on naturals).
`StepRefines` shows that every step is a step or a stutter of `StatusSource`.

`MonitorIsAsAssumed` is the refinement of `IoServiceClient` by client and monitor
together, `MonitoredSpec /\ []Accepts => ImplementsClient`. `Accepts` is the bound
`MaxQueue` with which `IoServiceClient` keeps events out of a long queue, an artefact of the
model that `MonitoredClient` does not have; it says that this bound is never what keeps a
report out, as it never does in the run (`MaxQueue = 40`). `MonitorInv` says of
which services notifications and scans may still speak.

**`ClientEntry_proofs`**: `EntryTypeCorrect`, `PushNeverLost`, `ClientFollowsFlag`,
`CheckStaysArmed`, `EarlierChecksIdle`, `KeyboardParamsRight`. `EntryInv` is these and three
facts. `ChecksInOrder`: the generations of pending checks grow and do not exceed the
current one, which is why an earlier check never matches and the own check is not
removed with an earlier one. `ReadyIsKnown`: a ready client has been noticed, so that the
check that finds it ready may go by. `NoKeyboardAlone`: without a client there is no
keyboard whose parameters could be out of date. `SetupFacts` and `SetupKeeps` are about
`setup_virtual_hid_devices` entered with any flags and clients, since a request, a change of
parameters and a check all call it.

**`PeerSession_proofs`**: `LastWishGranted`, `NoStatusOfOldSession`,
`StoredParamsRight`. The three properties speak of settled states only; the invariant has
to say what is true on the way.

    SessionInv == DaemonTypes /\ LibraryTypes /\ EndsKnown
                    /\ WishOnItsWay /\ ParamsOnTheirWay /\ StatusFollows

A wish passes four layers: the library's queue, the socket, the daemon's queue as
a request and the daemon's queue again as a task. `Above` says that the last wish in the first layer
that has one is the application's; `Clear` that there is none. `WishOnItsWay` and
`ParamsOnTheirWay` are the same formula for two kinds of requests (those that turn a device
on or off; those that carry keyboard parameters, with one layer more, since the call stores them
before its request is queued). `Fits` is what a kind must satisfy,
and `SendCarries`, `ArriveCarries`, `ReceiveCarries`, `RunCarries`, `DropCarries` show for
any kind that a step moves a wish on without overtaking. `EndsKnown` says that a session that has ended is
cleared by a task that is still queued, and not after the next one has begun.
`StatusFollows` says that a wrong status of the session before is
followed by one of this session, or by the first check, which sends one.

**`ServiceServer_proofs`**: `OneEntryPerPeer` and the action property
`OpenSessionSurvives`. `ServerInv` says in which of four phases the socket server is
(`Down`, `Starting`, `Running`, `Ending`) and which tasks may be queued in each; that peer
ids are not reused during its life (`IdsUsed`); that a connection whose end is queued is closed
(`ClosedIsClosed`); that a peer is announced once (`ReadyOnce`); and that without a
blocked directory nothing destroys the server (`NeverEnding`).

**`ReportPath_proofs`**: `KeysStayASet` for any number of slots, `NoKeyStuck`,
`LastPostShown`, `LedAlwaysShown`. `Delivery` says, per kind of report, that the last update on
the wire is the one posted last; if there is none there, the last one queued in the daemon;
and if there is none, the system has its keys. `Layers` says what cannot be there without something
else (a queue without an entry, keys of a keyboard that is gone). `LedsRight` says that
`lastLedState` follows the system also when the report of a change fails, which is why the
failure does not outlast the next change.

**`Dispatcher_proofs`**: `DetachIsSafe` and the refinement `DispatcherIsExecutor`.

    QuietInv == Shape /\ MarkShown /\ NoReturn /\ GoneIsQuiet

`GoneIsQuiet` extends the property to objects whose `detach` waits for its cleanup
function. `MarkShown` (from the mark until the function has returned, `running_id` is
the object of the entry) makes `detach`'s look at the mark conclusive. A function that
is called afterwards would need its object attached, and `NoReturn` says that an object
which is being or has been detached is not. `DetachQuiesced` is the step that
uses all of it. The refinement also needs `ExecInv`: the queue is sorted by time and, among
equal times, by enqueueing (`QueueOK`), so its head is the one to choose; and the object of
the entry in the worker's hand is not one that may still be attached (`HandOK`): a dropped
entry does not come back. With these every step between two locks is
one step of `SerialExecutor` or none.

**`ExtensionManager_proofs`**: `NeverResumedTwice`, `ExitCodeTells`. `ManagerInv` says
that a stored continuation has not been resumed (`OneShotInv`), that every result between
the delegate and the exit code is what became of the request (`ResultsRight`), and what is
registered at each stage of the request (`RequestInv`). Exit code 0 does not say whether a
reboot is still to come, and the theorem says no more than that the driver is as asked for
after it.

**`Subsequence_proofs`**: `SubseqAtFacts`, that `SubseqAt(s, K)` has the elements of
`s` at the positions `K` in their order. The library's `SelectSeq` is defined by recursion
over the sequence, of which the proof system can show nothing, so the models remove
elements with `SubseqAt`. It is proved with cardinalities, from the facts of
`FiniteSetTheorems` and from well-foundedness.

Only model-checked: the liveness properties (`DeadConnectionClosed`, `EventuallyConnected`,
`StaleReadyCorrected`, `StatusDelivered`, `EnabledGetsReady`, `CallsReturn` and
those of `ServiceServer` and `ExtensionManager`), because liveness under fairness is out
of reach of the proof system; and the findings, which are counterexamples.

## 6. Not modelled

- Error reports and log messages; device descriptions and report descriptors.
- Modifiers and buttons (bit masks, one expression per operation), and reports of the
  pointing device, which take the way of the keyboard's with one kind of report.
- The client protocol version check and malformed requests: the server answers
  with an empty buffer, which the library ignores.
- The monitor's `stop` and failures of its registration. A driver service that appears and
  dies between two scans, with both notifications lost: `ClientEntry` lets the registry change
  again only when the change before was reported.
- Failures of the driver's `Create` and of `handleReport` (a keyboard that never gets ready
  covers the first; the code ignores the second), errors of `bind` other than a missing
  directory, and the peer ids that the health check's own connections use up.
- Calls of `detach` for an object that is not attached: no caller detaches twice.
- Initialize calls of several application threads that overlap: the library's members
  would then be written by both without a lock.
- Heartbeats, request timers and framing of `unix_domain_stream` (for `PeerSession`, a
  connection may break at any moment); `debounced_task`; file system permissions.
- Examples, packaging, the daemon's start-up, and the Manager called without an
  operation.

## 7. Plan

Done: 1. `IoServiceClient` with `StatusSource`; 2. `ServiceMonitor`,
`MonitoredClient`; 3. `ClientEntry`; 4. `PeerSession`; 5. `ServiceServer`;
6. `HidReport` and `ReportPath`, with several kinds of report; 7. `ExtensionManager`;
8. `SerialExecutor` and `Dispatcher`; 9. the steps of the library's calls in `PeerSession`;
10. proofs of all safety properties and refinements.

Next, in this order:

1. The pointing device's reports, and the monitor's `stop` and restart.
2. `MonitorIsAsAssumed` without `[]Accepts`, by letting `IoServiceClient` take the monitor's
   reports with any queue; safety facts that the liveness properties rest on (a queued task
   stays queued until it runs, a waiting call has somebody to wait for), as theorems.
