----------------------------- MODULE ClientEntry -----------------------------
(***************************************************************************)
(* client_entry of virtual_hid_device_service_clients_manager.hpp, and the *)
(* part of virtual_hid_device_service_server.hpp that turns the requests   *)
(* of its peer into calls: what the daemon keeps for one connected peer.   *)
(*                                                                         *)
(* An entry owns one io_service_client that only observes the driver and,  *)
(* while the peer wants a device, one io_service_client for that device.   *)
(* The clients are abstract here: they have a status, and they promise     *)
(* what StatusSource says (see IoServiceClient, which keeps the promise).  *)
(* The entry combines their statuses into a response, pushes it to the     *)
(* peer when it differs from the last one it pushed, and also returns it   *)
(* as the answer to a request.                                             *)
(*                                                                         *)
(* Everything runs on the dispatcher thread.  `queue' holds, in FIFO       *)
(* order, what the entry and its clients enqueued for themselves; requests *)
(* and changes inside the clients happen between any two of these tasks.   *)
(***************************************************************************)
EXTENDS Subsequence

CONSTANTS
  Param,         \* keyboard parameters (vendor id, product id, country code)
  DefaultParam,  \* the value virtual_hid_keyboard_parameters_ starts with
  NoParam,       \* no device was initialised behind the current connection
  NoResponse,    \* std::nullopt for last_response_
  Wanted,        \* the devices the peer asks for
  MayLoseReady,  \* whether a client may stop being ready after it was ready
  MaxQueue,      \* bound: events are accepted with at most this many tasks
  MaxGeneration, \* bound: clients created for one device on request
  MaxFailures    \* bound: clients that never become ready, per device

ASSUME EntryAssumption ==
  /\ DefaultParam \in Param
  /\ NoParam \notin Param
  /\ Wanted \subseteq {"keyboard", "pointing"}
  /\ MayLoseReady \in BOOLEAN
  /\ MaxQueue \in Nat /\ MaxGeneration \in Nat /\ MaxFailures \in Nat

Device == {"keyboard", "pointing"}

\* driver_connected and driver_version_mismatched of the observing client
Driver == {"unconnected", "connected", "mismatched"}

\* An io_service_client for a device: none; on its way to being ready; not
\* ready when its check is due (the connection or the initialisation failed, or
\* takes too long); ready.
ClientState == {"none", "starting", "dud", "ready"}

Response ==
  [activated : BOOLEAN, connected : BOOLEAN, mismatched : BOOLEAN,
   ready : [Device -> BOOLEAN]]

ASSUME ResponseAssumption == NoResponse \notin Response

VARIABLES
  activated,      \* driver_activated(): the service is in the IORegistry
  unreported,     \* the observing client has not been told of a change of it
  driver,         \* what the observing client says about the driver
  enabled,        \* virtual_hid_{keyboard,pointing}_enabled_
  params,         \* virtual_hid_keyboard_parameters_
  client,         \* virtual_hid_{keyboard,pointing}_io_service_client_
  keyboard_param, \* what the driver created the keyboard of the client with
  generation,     \* virtual_hid_{keyboard,pointing}_client_generation_id_
  checks,         \* the generations of the readiness checks not yet due
  last_response,  \* last_response_
  queue,          \* immediate tasks, oldest first
  was_ready,      \* whether the current client has been ready
  failures        \* how many clients failed, per device

evars == <<activated, unreported, driver, enabled, params, client,
           keyboard_param, generation, checks, last_response, queue,
           was_ready, failures>>

observed == <<activated, unreported, driver>>
history  == <<was_ready, failures>>

Check == [task |-> "check"]
StateChanged(src) == [task |-> "state_changed", source |-> src]
Initialize(d, p)  == [task |-> "initialize", device |-> d, param |-> p]
Terminate(d)      == [task |-> "terminate", device |-> d]

Task == {Check} \cup {StateChanged(src) : src \in Device \cup {"observer"}}
                \cup {Initialize(d, p) : d \in Device, p \in Param}
                \cup {Terminate(d) : d \in Device}

\* A destroyed object's tasks are removed from the dispatcher's queue.
Dropping(q, gone) ==
  SubseqAt(q, {i \in 1 .. Len(q) : q[i].task = "state_changed" => q[i].source \notin gone})

make_response_KeyboardOnly(cl) ==
  [activated  |-> activated,
   connected  |-> driver # "unconnected",
   mismatched |-> driver = "mismatched",
   ready      |-> [d \in {"keyboard"} |-> cl[d] = "ready"]]

make_response(cl) ==
  [activated  |-> activated,
   connected  |-> driver # "unconnected",
   mismatched |-> driver = "mismatched",
   ready      |-> [d \in Device |-> cl[d] = "ready"]]

\* check_status_changed: the status is pushed to the peer if it is not the one
\* pushed last.
check_status_changed_IfConnected(cl) ==
  last_response' = IF driver = "unconnected" THEN last_response
                   ELSE make_response(cl)

check_status_changed(cl) == last_response' = make_response(cl)

(***************************************************************************)
(* setup_virtual_hid_devices, entered with the flags `en', the clients     *)
(* `cl' and the checks `chk': creates the clients that are missing.  Each  *)
(* creation takes a new generation and arms a check, due five seconds      *)
(* later; so the checks of a device are due in the order of their arming.  *)
(***************************************************************************)
Missing_EvenDisabled(en, cl) == {d \in Device : cl[d] = "none"}

Missing(en, cl) == {d \in Device : en[d] /\ cl[d] = "none"}

NewGeneration_Same(d) == generation[d]

NewGeneration(d) == generation[d] + 1

setup_virtual_hid_devices(en, cl, chk) ==
  /\ generation' = [d \in Device |-> IF d \in Missing(en, cl)
                                     THEN NewGeneration(d) ELSE generation[d]]
  /\ checks' = [d \in Device |-> IF d \in Missing(en, cl)
                                 THEN Append(chk[d], NewGeneration(d))
                                 ELSE chk[d]]
  /\ was_ready' = [d \in Device |-> was_ready[d] /\ cl[d] # "none"]
  /\ \E made \in [Missing(en, cl) -> {"starting", "dud"}] :
       /\ client' = [d \in Device |-> IF d \in Missing(en, cl) THEN made[d]
                                      ELSE IF en[d] THEN cl[d] ELSE "none"]
       /\ \A d \in Missing(en, cl) :
            made[d] = "dud" => failures[d] < MaxFailures
       /\ failures' = [d \in Device |->
                         IF d \in Missing(en, cl) /\ made[d] = "dud"
                         THEN failures[d] + 1 ELSE failures[d]]

(***************************************************************************)
(* The entry's tasks.                                                      *)
(***************************************************************************)
HasTask(name) == queue # <<>> /\ Head(queue).task = name

\* initialize_keyboard and initialize_pointing.  The keyboard's client is
\* replaced if the parameters change.
ReplacedBy_Never(d, p) == {}

ReplacedBy(d, p) ==
  IF d = "keyboard" /\ client[d] # "none" /\ params # p THEN {d} ELSE {}

run_initialize ==
  /\ HasTask("initialize")
  /\ LET d  == Head(queue).device
         p  == Head(queue).param
         en == [enabled EXCEPT ![d] = TRUE]
         cl == [c \in Device |-> IF c \in ReplacedBy(d, p) THEN "none"
                                                           ELSE client[c]]
     IN  /\ enabled' = en
         /\ params' = IF d = "keyboard" THEN p ELSE params
         /\ keyboard_param' = IF cl["keyboard"] = "none" THEN NoParam
                                                         ELSE keyboard_param
         /\ queue' = Dropping(Tail(queue), ReplacedBy(d, p))
         /\ setup_virtual_hid_devices(en, cl, checks)
         /\ check_status_changed(client')
  /\ UNCHANGED observed

\* terminate_keyboard and terminate_pointing
run_terminate ==
  /\ HasTask("terminate")
  /\ LET d  == Head(queue).device
         cl == [client EXCEPT ![d] = "none"]
     IN  /\ enabled' = [enabled EXCEPT ![d] = FALSE]
         /\ generation' = [generation EXCEPT ![d] = @ + 1]
         /\ client' = cl
         /\ was_ready' = [was_ready EXCEPT ![d] = FALSE]
         /\ keyboard_param' = IF d = "keyboard" THEN NoParam ELSE keyboard_param
         /\ queue' = Dropping(Tail(queue), {d})
         /\ check_status_changed(cl)
  /\ UNCHANGED <<observed, params, checks, failures>>

\* async_check_status_changed, and the handlers of the clients' state_changed
run_check ==
  /\ HasTask("check") \/ HasTask("state_changed")
  /\ queue' = Tail(queue)
  /\ check_status_changed(client)
  /\ UNCHANGED <<observed, enabled, params, client, keyboard_param,
                 generation, checks, history>>

RunTask == run_initialize \/ run_terminate \/ run_check

(***************************************************************************)
(* The check that create_virtual_hid_client arms.  It is a delayed task:   *)
(* it runs when no immediate task is queued.  A client that is not ready   *)
(* by then is a dud.  It does not call check_status_changed.               *)
(***************************************************************************)
CheckIsDue(d) ==
  /\ queue = <<>>
  /\ checks[d] # <<>>
  /\ ~(Head(checks[d]) = generation[d] /\ client[d] = "starting")

Recreates_FirstOnly(d) ==
  /\ Head(checks[d]) = generation[d]
  /\ enabled[d]
  /\ client[d] # "ready"
  /\ generation[d] = 1

Recreates(d) ==
  /\ Head(checks[d]) = generation[d]
  /\ enabled[d]
  /\ client[d] # "ready"

readiness_check(d) ==
  /\ CheckIsDue(d)
  /\ LET left == [checks EXCEPT ![d] = Tail(@)]
     IN  \/ /\ ~Recreates(d)
            /\ checks' = left
            /\ UNCHANGED <<client, keyboard_param, generation, history>>
         \/ /\ Recreates(d)
            /\ keyboard_param' = IF d = "keyboard" THEN NoParam
                                                   ELSE keyboard_param
            /\ setup_virtual_hid_devices(enabled, [client EXCEPT ![d] = "none"],
                                         left)
  /\ UNCHANGED <<observed, enabled, params, last_response, queue>>

(***************************************************************************)
(* Requests of the peer.  The server calls the entry, which only enqueues  *)
(* the work (and answers the request with the current status, which is     *)
(* PeerSession's subject).                                                 *)
(***************************************************************************)
Accepts == Len(queue) <= MaxQueue

request_initialize(d, p) ==
  /\ Accepts
  /\ generation[d] < MaxGeneration
  /\ d = "pointing" => p = DefaultParam
  /\ queue' = Append(queue, Initialize(d, p))
  /\ UNCHANGED <<observed, enabled, params, client, keyboard_param,
                 generation, checks, last_response, history>>

request_terminate(d) ==
  /\ Accepts
  /\ generation[d] < MaxGeneration
  /\ queue' = Append(queue, Terminate(d))
  /\ UNCHANGED <<observed, enabled, params, client, keyboard_param,
                 generation, checks, last_response, history>>

(***************************************************************************)
(* The clients.  A change of a client's status comes with a state_changed. *)
(***************************************************************************)
client_becomes_ready(d) ==
  /\ Accepts
  /\ client[d] = "starting"
  /\ client' = [client EXCEPT ![d] = "ready"]
  /\ was_ready' = [was_ready EXCEPT ![d] = TRUE]
  /\ queue' = Append(queue, StateChanged(d))
  /\ UNCHANGED <<observed, enabled, params, keyboard_param, generation,
                 checks, last_response, failures>>

\* The driver no longer says the device is ready, or its connection is closed,
\* and the keyboard with it.  The client opens a new connection; that may fail,
\* or its initialisation may.
client_loses_ready(d) ==
  /\ MayLoseReady
  /\ Accepts
  /\ client[d] = "ready"
  /\ \/ /\ client' = [client EXCEPT ![d] = "starting"]
        /\ UNCHANGED failures
     \/ /\ failures[d] < MaxFailures
        /\ client' = [client EXCEPT ![d] = "dud"]
        /\ failures' = [failures EXCEPT ![d] = @ + 1]
  /\ keyboard_param' \in {keyboard_param} \cup IF d = "keyboard" THEN {NoParam} ELSE {}
  /\ queue' = Append(queue, StateChanged(d))
  /\ UNCHANGED <<observed, enabled, params, generation, checks,
                 last_response, was_ready>>

\* The client's opened signal: the device is initialised, the keyboard with
\* the parameters the entry holds at that moment.  The driver keeps the
\* keyboard and its parameters if the connection has one already.
client_opened ==
  /\ client["keyboard"] # "none"
  /\ keyboard_param' = IF keyboard_param = NoParam THEN params ELSE keyboard_param
  /\ UNCHANGED <<observed, enabled, params, client, generation, checks,
                 last_response, queue, history>>

\* The driver service appears in the IORegistry or leaves it; the observing
\* client's monitor learns of it later.
registry_changes ==
  /\ ~unreported
  /\ activated' = ~activated
  /\ unreported' = TRUE
  /\ UNCHANGED <<driver, enabled, params, client, keyboard_param, generation,
                 checks, last_response, queue, history>>

\* The observing client handles a report of its monitor.
observer_changes ==
  /\ Accepts
  /\ driver' \in Driver
  /\ unreported' = FALSE
  /\ unreported \/ driver' # driver
  /\ queue' = Append(queue, StateChanged("observer"))
  /\ UNCHANGED <<activated, enabled, params, client, keyboard_param,
                 generation, checks, last_response, history>>

-----------------------------------------------------------------------------
\* peer_connected: the constructor, and the async_check_status_changed after it.
peer_connected_NoCheck == <<>>

peer_connected == <<Check>>

EntryInit ==
  /\ activated \in BOOLEAN
  /\ unreported = activated
  /\ driver = "unconnected"
  /\ enabled = [d \in Device |-> FALSE]
  /\ params = DefaultParam
  /\ client = [d \in Device |-> "none"]
  /\ keyboard_param = NoParam
  /\ generation = [d \in Device |-> 0]
  /\ checks = [d \in Device |-> <<>>]
  /\ last_response = NoResponse
  /\ queue = peer_connected
  /\ was_ready = [d \in Device |-> FALSE]
  /\ failures = [d \in Device |-> 0]

Requests ==
  \E d \in Wanted :
    request_terminate(d) \/ \E p \in Param : request_initialize(d, p)

Clients ==
  \/ \E d \in Device : client_becomes_ready(d) \/ client_loses_ready(d)
  \/ client_opened
  \/ registry_changes
  \/ observer_changes

EntryNext ==
  \/ Requests
  \/ Clients
  \/ RunTask
  \/ \E d \in Device : readiness_check(d)

EntrySpec == EntryInit /\ [][EntryNext]_evars

(***************************************************************************)
(* The dispatcher runs the immediate tasks and, between bursts of them,    *)
(* the delayed ones; a client that can become ready does; the monitor's    *)
(* scan makes the observing client notice the IORegistry.                  *)
(***************************************************************************)
FairEntrySpec ==
  /\ EntrySpec
  /\ WF_evars(RunTask)
  /\ \A d \in Device : SF_evars(readiness_check(d))
  /\ \A d \in Device : SF_evars(client_becomes_ready(d))
  /\ SF_evars(unreported /\ observer_changes)

-----------------------------------------------------------------------------
CheckPending ==
  \/ unreported
  \/ \E i \in 1 .. Len(queue) : queue[i].task \in {"check", "state_changed"}

\* The types of the entry's members and of its tasks.
EntryTypeOK ==
  /\ activated \in BOOLEAN /\ unreported \in BOOLEAN
  /\ driver \in Driver
  /\ enabled \in [Device -> BOOLEAN]
  /\ params \in Param
  /\ client \in [Device -> ClientState]
  /\ keyboard_param \in Param \cup {NoParam}
  /\ generation \in [Device -> Nat]
  /\ checks \in [Device -> Seq(Nat)]
  /\ last_response \in Response \cup {NoResponse}
  /\ queue \in Seq(Task)
  /\ was_ready \in [Device -> BOOLEAN]
  /\ failures \in [Device -> Nat]

\* The status pushed last is the current one unless a check is on its way;
\* destroying a client, with the emissions it had queued, loses no change, and
\* neither does the readiness check, which swaps clients without a check.
PushNotLost == CheckPending \/ last_response = make_response(client)

\* A device has a client exactly while the peer wants it, although the client
\* is created and destroyed by requests, by parameter changes and by checks.
ClientIffEnabled == \A d \in Device : enabled[d] <=> client[d] # "none"

\* As long as a client has not been ready, the check that would replace it is
\* armed: no order of requests and checks leaves a failed client in place.
CheckArmed ==
  \A d \in Device :
    client[d] # "none" /\ ~was_ready[d]
      => \E i \in 1 .. Len(checks[d]) : checks[d][i] = generation[d]

\* Only the newest pending check of a device can act on its client; the checks
\* of clients that are gone do not.
OnlyOwnCheckActs ==
  \A d \in Device : \A i \in 1 .. Len(checks[d]) - 1 :
    checks[d][i] # generation[d]

\* The keyboard the driver has created for the current client has the
\* parameters of the last initialize request that was carried out.
KeyboardHasParams == keyboard_param \in {NoParam, params}

\* An immediate task is sorted before every delayed one, due or not, so a
\* dispatcher that never runs out of immediate tasks never runs a check.
NotSaturated == []<>(queue = <<>>)

\* A device that is asked for gets ready, or is no longer asked for, even if
\* the first clients created for it fail: create_virtual_hid_client's check
\* replaces them, unless the dispatcher is saturated with immediate tasks.
EnabledGetsReady ==
  NotSaturated =>
    \A d \in Device : enabled[d] ~> (client[d] = "ready" \/ ~enabled[d])
=============================================================================
