--------------------------- MODULE IoServiceClient ---------------------------
(***************************************************************************)
(* src/Daemon/include/io_service_client.hpp: the daemon's connection to    *)
(* the virtual HID device driver.                                          *)
(*                                                                         *)
(* An io_service_client keeps the driver services that its                 *)
(* iokit_service_monitor reported, holds at most one open connection to    *)
(* one of them, and caches what the driver said about itself (its version) *)
(* and about the devices behind the connection (whether they are ready).   *)
(*                                                                         *)
(* Everything runs on the dispatcher thread, so a handler is one atomic    *)
(* step; what a handler enqueues runs later, in FIFO order, and events     *)
(* from other threads (IOKit notifications, timer ticks, requests of the   *)
(* owner) may run between any two of those tasks.  `queue' holds the tasks *)
(* the client enqueued for itself; the other events are actions that may   *)
(* happen at any time.                                                     *)
(***************************************************************************)
EXTENDS Naturals, Sequences

CONSTANTS
  Service,          \* IORegistry entry ids of driver services
  Faulty,           \* the services whose opening or version query may fail
  NoService,        \* "no connection"
  Version,          \* driver versions
  EmbeddedVersion,  \* the version the daemon was built with
  NoVersion,        \* std::nullopt for driver_version_
  Polled,           \* the devices whose readiness the owner polls
  MaxQueue          \* bound: an external event is accepted while the client
                    \* has at most this many tasks of its own queued

ASSUME ConstantsAssumption ==
  /\ Faulty \subseteq Service
  /\ NoService \notin Service
  /\ EmbeddedVersion \in Version
  /\ NoVersion \notin Version
  /\ "open_failed" \notin Version /\ "no_version" \notin Version
  /\ Polled \subseteq {"keyboard", "pointing"}
  /\ MaxQueue \in Nat

Device == {"keyboard", "pointing"}
OptBool == {"nullopt", "false", "true"}

VARIABLES
  \* IOKit and the service monitor, as the client meets them
  life,            \* each service: not yet there, present, or terminated
  known,           \* the services reported as matched and not as terminated
  \* io_service_client
  services,        \* matched_services_, in the order they were reported
  opened,          \* the matched services whose opened_ flag is set
  invalidated,     \* the matched services whose invalidated_ flag is set
  connection,      \* connection_: the service it goes to
  driver_version,  \* driver_version_
  ready,           \* virtual_hid_{keyboard,pointing}_ready_
  queue,           \* tasks enqueued by the client itself, oldest first
  \* the other ends
  handles,         \* services with a user client opened and not closed by us
  device,          \* the HID devices of the user client behind connection_
  seen             \* the getters' values at the last state_changed emission

kernel == <<life, known>>
vars == <<life, known, services, opened, invalidated, connection,
          driver_version, ready, queue, handles, device, seen>>

StateChanged == [task |-> "state_changed"]
Opened       == [task |-> "opened"]
Closed       == [task |-> "closed"]
SetReady(d, v) == [task |-> "set_ready", device |-> d, value |-> v]

Task == {StateChanged, Opened, Closed}
          \cup {SetReady(d, v) : d \in Device, v \in OptBool}

Cleared  == [d \in Device |-> "nullopt"]
NoDevice == [d \in Device |-> "none"]

(***************************************************************************)
(* The getters.                                                            *)
(***************************************************************************)
driver_connected == driver_version # NoVersion
driver_version_mismatched == driver_connected /\ driver_version # EmbeddedVersion

VisibleReady(d) ==
  IF ~driver_connected \/ driver_version_mismatched THEN "nullopt" ELSE ready[d]

VisibleStatus ==
  [connected  |-> driver_connected,
   mismatched |-> driver_version_mismatched,
   ready      |-> [d \in Device |-> VisibleReady(d)]]

InitialStatus ==
  [connected |-> FALSE, mismatched |-> FALSE, ready |-> Cleared]

\* The guards of call, call_scalar_method, call_ready and post_report.
Callable ==
  /\ connection # NoService
  /\ driver_connected
  /\ ~driver_version_mismatched

(***************************************************************************)
(* An operator named X_Y after a definition X, here and in the other       *)
(* modules, is a broken variant of the definition X below it: with it in   *)
(* the place of X, a property that PROJECT.json names fails.               *)
(***************************************************************************)

(***************************************************************************)
(* The setters enqueue a state_changed emission when the value changes.    *)
(***************************************************************************)
Notice_Never(changed) == <<>>

Notice(changed) == IF changed THEN <<StateChanged>> ELSE <<>>

ClearNotices(version, rdy) ==
  Notice(version # NoVersion) \o Notice(rdy["keyboard"] # "nullopt")
                              \o Notice(rdy["pointing"] # "nullopt")

(***************************************************************************)
(* open_connection.  `out' says how each service answers: IOServiceOpen    *)
(* fails, it succeeds but the version query fails, or the query returns a  *)
(* version.  A terminated service cannot be opened.                        *)
(***************************************************************************)
Outcome == Version \cup {"open_failed", "no_version"}

Answers(out) ==
  \A s \in Service :
    /\ life[s] # "present" => out[s] = "open_failed"
    /\ life[s] = "present" /\ s \notin Faulty => out[s] \in Version

\* The loop reaches index i of svcs: no earlier service was connected to.
Reached_FirstOnly(svcs, inv, out, i) == i = 1

Reached(svcs, inv, out, i) ==
  \A j \in 1 .. i - 1 : svcs[j] \in inv \/ out[svcs[j]] \notin Version

\* The services the loop gives up, because the version query failed: each is
\* invalidated and never opened again.
Rejected(svcs, inv, out) ==
  {s \in Service : \E i \in 1 .. Len(svcs) :
      /\ svcs[i] = s /\ s \notin inv /\ out[s] = "no_version"
      /\ Reached(svcs, inv, out, i)}

\* The services IOServiceOpen succeeds for, and those IOServiceClose is called
\* for again in the loop.
OpenedBy(svcs, inv, out) ==
  {s \in Service : \E i \in 1 .. Len(svcs) :
      /\ svcs[i] = s /\ s \notin inv /\ out[s] # "open_failed"
      /\ Reached(svcs, inv, out, i)}

ClosedAgain_None(svcs, inv, out) == {}

ClosedAgain(svcs, inv, out) == Rejected(svcs, inv, out)

Connects_AnyVersion(svcs, inv, out, i) ==
  /\ svcs[i] \notin inv
  /\ out[svcs[i]] # "open_failed"
  /\ Reached(svcs, inv, out, i)

Connects(svcs, inv, out, i) ==
  /\ svcs[i] \notin inv
  /\ out[svcs[i]] \in Version
  /\ Reached(svcs, inv, out, i)

(***************************************************************************)
(* open_connection, and the state_changed that both its callers enqueue    *)
(* after it.  The arguments are the state its caller leaves.               *)
(***************************************************************************)
open_connection(svcs, inv, opn, conn, version, rdy, hnd, dev, q) ==
  /\ services' = svcs
  /\ \/ /\ conn # NoService
        /\ connection' = conn
        /\ driver_version' = version
        /\ ready' = rdy
        /\ opened' = opn
        /\ invalidated' = inv
        /\ handles' = hnd
        /\ device' = dev
        /\ queue' = q \o <<StateChanged>>
     \/ /\ conn = NoService
        /\ ready' = Cleared
        /\ device' = NoDevice
        /\ \E out \in [Service -> Outcome] :
             /\ Answers(out)
             /\ invalidated' = inv \cup Rejected(svcs, inv, out)
             /\ handles' = hnd \cup (OpenedBy(svcs, inv, out)
                                       \ ClosedAgain(svcs, inv, out))
             /\ \/ \E i \in 1 .. Len(svcs) :
                     /\ Connects(svcs, inv, out, i)
                     /\ connection' = svcs[i]
                     /\ driver_version' = out[svcs[i]]
                     /\ opened' = opn \cup {svcs[i]}
                     /\ queue' = q \o ClearNotices(version, rdy)
                                   \o <<StateChanged, Opened, StateChanged>>
                \/ /\ \A i \in 1 .. Len(svcs) : ~Connects(svcs, inv, out, i)
                   /\ connection' = NoService
                   /\ driver_version' = NoVersion
                   /\ opened' = opn
                   /\ queue' = q \o ClearNotices(version, rdy)
                                 \o <<StateChanged>>

(***************************************************************************)
(* The handlers of the monitor's signals.                                  *)
(***************************************************************************)
Inserted(s) ==
  IF \E i \in 1 .. Len(services) : services[i] = s
  THEN services ELSE Append(services, s)

service_matched(s) ==
  /\ open_connection(Inserted(s), invalidated, opened, connection,
                     driver_version, ready, handles, device, queue)
  /\ UNCHANGED seen

Erased_Not(s) == services

\* insert adds no service twice, so erase finds at most one.
Erased(s) ==
  IF \E i \in 1 .. Len(services) : services[i] = s
  THEN LET i == CHOOSE i \in 1 .. Len(services) : services[i] = s
       IN  SubSeq(services, 1, i - 1) \o SubSeq(services, i + 1, Len(services))
  ELSE services

\* close_connection does something only if s is the opened service.
Closes_AnyService(s) == connection # NoService

Closes(s) == s \in opened /\ connection # NoService

service_terminated(s) ==
  /\ \/ /\ Closes(s)
        /\ open_connection(Erased(s), invalidated \ {s}, opened \ {s},
                           NoService, NoVersion, Cleared,
                           handles \ {connection}, NoDevice,
                           queue \o <<Closed>>
                                 \o ClearNotices(driver_version, ready))
     \/ /\ ~Closes(s)
        /\ open_connection(Erased(s), invalidated \ {s}, opened \ {s},
                           connection, driver_version, ready,
                           handles, device, queue)
  /\ UNCHANGED seen

(***************************************************************************)
(* Requests of the owner.                                                  *)
(***************************************************************************)
Accepts == Len(queue) <= MaxQueue

\* async_virtual_hid_*_initialize: the driver creates the device unless the
\* user client already has one.  The call may fail.
initialize(d) ==
  /\ Callable
  /\ life[connection] = "present"
  /\ device[d] = "none"
  /\ device' = [device EXCEPT ![d] = "starting"]
  /\ UNCHANGED <<kernel, services, opened, invalidated, connection,
                 driver_version, ready, queue, handles, seen>>

\* call_ready: std::nullopt without a usable connection or if the call fails.
ReadyAnswers_Cached(d) ==
  IF ready[d] = "true" THEN {"true"}
  ELSE IF ~Callable \/ life[connection] # "present" THEN {"nullopt"}
  ELSE {"nullopt", IF device[d] = "ready" THEN "true" ELSE "false"}

ReadyAnswers(d) ==
  IF ~Callable \/ life[connection] # "present" THEN {"nullopt"}
  ELSE {"nullopt", IF device[d] = "ready" THEN "true" ELSE "false"}

\* async_virtual_hid_*_ready, its first task: the driver is asked now, and the
\* answer is stored by a second task.
query_ready(d) ==
  /\ Accepts
  /\ \E v \in ReadyAnswers(d) : queue' = Append(queue, SetReady(d, v))
  /\ UNCHANGED <<kernel, services, opened, invalidated, connection,
                 driver_version, ready, handles, device, seen>>

(***************************************************************************)
(* The client's own tasks.                                                 *)
(***************************************************************************)
set_ready ==
  /\ queue # <<>>
  /\ Head(queue).task = "set_ready"
  /\ LET d == Head(queue).device
         v == Head(queue).value
     IN  /\ ready' = [ready EXCEPT ![d] = v]
         /\ queue' = Tail(queue) \o Notice(ready[d] # v)
  /\ UNCHANGED <<kernel, services, opened, invalidated, connection,
                 driver_version, handles, device, seen>>

emit_state_changed ==
  /\ queue # <<>>
  /\ Head(queue).task = "state_changed"
  /\ seen' = VisibleStatus
  /\ queue' = Tail(queue)
  /\ UNCHANGED <<kernel, services, opened, invalidated, connection,
                 driver_version, ready, handles, device>>

emit_opened_or_closed ==
  /\ queue # <<>>
  /\ Head(queue).task \in {"opened", "closed"}
  /\ queue' = Tail(queue)
  /\ UNCHANGED <<kernel, services, opened, invalidated, connection,
                 driver_version, ready, handles, device, seen>>

RunTask == set_ready \/ emit_state_changed \/ emit_opened_or_closed

\* ~io_service_client, and the construction of the client that replaces it.
\* Detaching drops the queued tasks; close_connection then closes the handle.
destruct ==
  /\ known' = {}
  /\ services' = <<>>
  /\ opened' = {}
  /\ invalidated' = {}
  /\ handles' = IF opened # {} /\ connection # NoService
                THEN handles \ {connection} ELSE handles
  /\ connection' = NoService
  /\ driver_version' = NoVersion
  /\ ready' = Cleared
  /\ queue' = <<>>
  /\ device' = NoDevice
  /\ seen' = InitialStatus
  /\ UNCHANGED life

(***************************************************************************)
(* IOKit and the driver.                                                   *)
(***************************************************************************)
client == <<services, opened, invalidated, connection, driver_version, ready,
            queue, handles, device, seen>>

ServiceAppears(s) ==
  /\ life[s] = "absent"
  /\ life' = [life EXCEPT ![s] = "present"]
  /\ UNCHANGED <<known, client>>

ServiceDies(s) ==
  /\ life[s] = "present"
  /\ life' = [life EXCEPT ![s] = "terminated"]
  /\ UNCHANGED <<known, client>>

\* handleStart of the device sets its ready flag, which nothing clears.
DeviceStarts(d) ==
  /\ device[d] = "starting"
  /\ device' = [device EXCEPT ![d] = "ready"]
  /\ UNCHANGED <<kernel, services, opened, invalidated, connection,
                 driver_version, ready, queue, handles, seen>>

(***************************************************************************)
(* The monitor reports a service as matched or as terminated, each at most *)
(* once in a row for the same service.                                     *)
(***************************************************************************)
Matched(s) ==
  /\ Accepts
  /\ s \notin known
  /\ life[s] # "absent"
  /\ known' = known \cup {s}
  /\ UNCHANGED life
  /\ service_matched(s)

Terminated(s) ==
  /\ Accepts
  /\ s \in known
  /\ life[s] = "terminated"
  /\ known' = known \ {s}
  /\ UNCHANGED life
  /\ service_terminated(s)

Init ==
  /\ life = [s \in Service |-> "absent"]
  /\ known = {}
  /\ services = <<>>
  /\ opened = {}
  /\ invalidated = {}
  /\ connection = NoService
  /\ driver_version = NoVersion
  /\ ready = Cleared
  /\ queue = <<>>
  /\ handles = {}
  /\ device = NoDevice
  /\ seen = InitialStatus

ServiceStep(s) ==
  \/ ServiceAppears(s)
  \/ ServiceDies(s)
  \/ Matched(s)
  \/ Terminated(s)

DeviceStep(d) ==
  \/ initialize(d)
  \/ DeviceStarts(d)
  \/ query_ready(d)

Next ==
  \/ \E s \in Service : ServiceStep(s)
  \/ \E d \in Polled : DeviceStep(d)
  \/ RunTask
  \/ destruct

Spec == Init /\ [][Next]_vars

-----------------------------------------------------------------------------
(***************************************************************************)
(* Properties.                                                             *)
(***************************************************************************)
Pending(q) == \E i \in 1 .. Len(q) : q[i] = StateChanged

Status ==
  [connected : BOOLEAN, mismatched : BOOLEAN, ready : [Device -> OptBool]]

\* The types of the client's members, of the tasks it queues and of the
\* kernel's and the driver's side.
TypeOK ==
  /\ life \in [Service -> {"absent", "present", "terminated"}]
  /\ known \subseteq Service
  /\ services \in Seq(Service)
  /\ opened \subseteq Service
  /\ invalidated \subseteq Service
  /\ connection \in Service \cup {NoService}
  /\ driver_version \in Version \cup {NoVersion}
  /\ ready \in [Device -> OptBool]
  /\ queue \in Seq(Task)
  /\ handles \subseteq Service
  /\ device \in [Device -> {"none", "starting", "ready"}]
  /\ seen \in Status

\* matched_services_ holds each service once, and exactly those that the
\* monitor considers alive: insert and erase never get out of step with the
\* monitor's own bookkeeping.
ServicesMirrorMonitor ==
  /\ {services[i] : i \in 1 .. Len(services)} = known
  /\ \A i, j \in 1 .. Len(services) : services[i] = services[j] => i = j

\* connection_, the opened_ and invalidated_ flags and driver_version_ are
\* separate members changed at separate lines of open_connection and
\* close_connection; they always tell the same story.  In particular the
\* driver_connected getter, which looks at driver_version_ only, is right.
ConnectionConsistent ==
  /\ opened = IF connection = NoService THEN {} ELSE {connection}
  /\ connection # NoService => connection \in known \ invalidated
  /\ driver_connected <=> connection # NoService

\* Every user client that IOServiceOpen created is closed again unless it is
\* the one behind connection_: neither a failing version query, nor a
\* termination, nor the destruction of the client leaves one open.
HandlesBalanced ==
  handles = IF connection = NoService THEN {} ELSE {connection}

\* The client is without a connection only if no usable service is left: a
\* service that can be opened, that the monitor reported and that is still
\* present is never passed over because another one failed, was invalidated or
\* terminated (the `continue's of open_connection's loop, and the
\* open_connection after close_connection).
HealthyServiceConnected ==
  \A s \in known \ Faulty : life[s] = "present" => connection # NoService

\* Whenever the getters would return something the subscriber has not seen at
\* its last state_changed, another state_changed is queued.
StatusNotLost == Pending(queue) \/ seen = VisibleStatus

\* A connection goes away only because its own service was reported as
\* terminated or the client was destroyed: the arrival or the termination of
\* another service never disturbs it.
ConnectionKept ==
  [][connection # NoService /\ connection' # connection
       => connection \notin known']_vars

\* The client is a status source in the sense of StatusSource.
Source == INSTANCE StatusSource
            WITH status <- VisibleStatus, pending <- Pending(queue)

ImplementsStatusSource == Source!SourceSpec
=============================================================================
