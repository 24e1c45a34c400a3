----------------------------- MODULE ReportPath -----------------------------
(***************************************************************************)
(* The way of a keyboard report: the application fills a hid_report, the   *)
(* library sends it, the daemon hands it to the keyboard's                 *)
(* io_service_client, the client to the user client, and that to the       *)
(* virtual keyboard, whose reports the system sees.  Meanwhile the client  *)
(* is created, opened, replaced and destroyed, the driver dies, and the    *)
(* connection to the daemon is lost.  Requests to initialize, terminate    *)
(* and reset the keyboard travel on the same way.  In the other direction  *)
(* the system sets the keyboard's LEDs.                                    *)
(*                                                                         *)
(* ClientEntry has the details of the entry; here a client is an object    *)
(* that opens some time after it was created, as IoServiceClient does.     *)
(***************************************************************************)
EXTENDS HidReport, Subsequence

CONSTANTS
  Kinds,        \* the kinds of report of the keyboard, as reset goes through them
  Param,        \* keyboard parameters
  DefaultParam, \* those of a new entry
  MaxCall,      \* bound: requests of the application
  MaxFailure,   \* bound: memory descriptors that cannot be created
  MaxIncident   \* bound: driver deaths, lost connections, replaced clients

ASSUME PathAssumption ==
  /\ \A i, j \in 1 .. Len(Kinds) : Kinds[i] = Kinds[j] => i = j
  /\ DefaultParam \in Param /\ MaxCall \in Nat /\ MaxFailure \in Nat /\ MaxIncident \in Nat

Kind == {Kinds[i] : i \in 1 .. Len(Kinds)}
Led == 0 .. 1
NoKeys == [kind \in Kind |-> {}]

VARIABLES
  \* application and library
  keys_,         \* the report the application is filling
  held,          \* reference: the keys it put in, at most Slots of them
  posted,        \* of each kind, the keys of the last report it posted, or reset
  calls,
  linked,        \* connected to the daemon
  wire,          \* requests on their way to the daemon
  \* daemon
  entry,         \* the peer has an entry
  params,        \* virtual_hid_keyboard_parameters_
  client,        \* virtual_hid_keyboard_io_service_client_
  check,         \* its readiness check is still to come
  queue,         \* tasks of the entry and of its client
  \* driver
  keyboard,      \* the keyboard of the client's user client
  host,          \* of each kind, the keys that are down for the system, by that keyboard
  lastLedState,  \* lastLedState
  led_posted,    \* the LED state the keyboard posted last
  led_set,       \* the LED state the system set last
  \* history
  led_lost,      \* the report of the last LED change could not be created
  failures, incidents,
  lost,          \* kinds whose last report at the keyboard failed
  fresh          \* kinds for which the keyboard is in place since the last post

application == <<keys_, held, posted, calls>>
daemon == <<entry, params, client, check, queue>>
leds == <<lastLedState, led_posted, led_set, led_lost>>
driver == <<keyboard, host, leds>>
history == <<failures, incidents, lost, fresh>>
path_vars == <<application, linked, wire, daemon, driver, history>>

\* The owner of a task: tasks of a client vanish with it.
Task(type, arg) ==
  [type |-> type, arg |-> arg,
   owner |-> IF type \in {"run_initialize", "run_terminate"} THEN "entry" ELSE "client"]

HasTask(type) == queue # <<>> /\ Head(queue).type = type

EntryTasks(q) == SubseqAt(q, {i \in 1 .. Len(q) : q[i].owner = "entry"})

(***************************************************************************)
(* Application and library.                                                *)
(***************************************************************************)
press(k) ==
  /\ keys_' = insert(keys_, k)
  /\ held' = IF k = Zero \/ Cardinality(held) = Slots THEN held ELSE held \cup {k}
  /\ UNCHANGED <<posted, calls, linked, wire, daemon, driver, history>>

release(k) ==
  /\ keys_' = erase(keys_, k)
  /\ held' = held \ {k}
  /\ UNCHANGED <<posted, calls, linked, wire, daemon, driver, history>>

release_all ==
  /\ keys_' = clear
  /\ held' = {}
  /\ UNCHANGED <<posted, calls, linked, wire, daemon, driver, history>>

\* async_request: without a connection the request is dropped.
async_request(request) ==
  /\ calls < MaxCall
  /\ calls' = calls + 1
  /\ wire' = IF linked THEN Append(wire, request) ELSE wire

InPlace == linked /\ keyboard = "ready"

async_post_report(kind) ==
  /\ async_request([type |-> "report", arg |-> [kind |-> kind, keys |-> Down(keys_)]])
  /\ posted' = [posted EXCEPT ![kind] = Down(keys_)]
  /\ fresh' = IF InPlace THEN fresh \cup {kind} ELSE fresh \ {kind}
  /\ UNCHANGED <<keys_, held, linked, daemon, driver, failures, incidents, lost>>

async_reset ==
  /\ async_request([type |-> "reset", arg |-> {}])
  /\ posted' = NoKeys
  /\ fresh' = IF InPlace THEN Kind ELSE {}
  /\ UNCHANGED <<keys_, held, linked, daemon, driver, failures, incidents, lost>>

async_initialize(p) ==
  /\ async_request([type |-> "run_initialize", arg |-> p])
  /\ UNCHANGED <<keys_, held, posted, linked, daemon, driver, history>>

async_terminate ==
  /\ async_request([type |-> "run_terminate", arg |-> {}])
  /\ UNCHANGED <<keys_, held, posted, linked, daemon, driver, history>>

(***************************************************************************)
(* The connection to the daemon.                                           *)
(***************************************************************************)
connection_lost ==
  /\ linked
  /\ incidents < MaxIncident
  /\ incidents' = incidents + 1
  /\ linked' = FALSE
  /\ wire' = <<>>
  /\ fresh' = {}
  /\ UNCHANGED <<application, daemon, driver, failures, lost>>

\* The keyboard of a user client that is closed goes away, and the system
\* releases its keys.
KeyboardGone_Leaked ==
  /\ fresh' = {}
  /\ UNCHANGED <<keyboard, host, leds, lost>>

KeyboardGone ==
  /\ keyboard' = "none"
  /\ host' = NoKeys
  /\ lastLedState' = 0 /\ led_posted' = 0 /\ led_set' = 0 /\ led_lost' = FALSE
  /\ lost' = {}
  /\ fresh' = {}

\* erase_client destroys the entry with its client.
peer_closed ==
  /\ ~linked /\ entry
  /\ entry' = FALSE
  /\ client' = "none"
  /\ check' = FALSE
  /\ queue' = <<>>
  /\ KeyboardGone
  /\ UNCHANGED <<application, linked, wire, params, failures, incidents>>

\* The new peer gets an entry of its own.
connected ==
  /\ ~linked /\ ~entry
  /\ linked' = TRUE
  /\ entry' = TRUE
  /\ params' = DefaultParam
  /\ UNCHANGED <<application, wire, client, check, queue, driver, history>>

(***************************************************************************)
(* The daemon.                                                             *)
(***************************************************************************)
\* Reports and reset are for the client that is there; without one they are
\* dropped.
post_report(task) == IF client # "none" THEN Append(queue, task) ELSE queue

request_received ==
  /\ wire # <<>>
  /\ wire' = Tail(wire)
  /\ LET request == Head(wire)
         task == Task(request.type, request.arg)
     IN  queue' = IF task.owner = "entry" THEN Append(queue, task) ELSE post_report(task)
  /\ UNCHANGED <<application, linked, entry, params, client, check, driver, history>>

\* The client is destroyed and another one is created in its place.
Replaced ==
  /\ client' = "closed"
  /\ check' = TRUE
  /\ queue' = EntryTasks(Tail(queue))
  /\ KeyboardGone

run_initialize ==
  /\ HasTask("run_initialize")
  /\ LET p == Head(queue).arg
     IN  /\ params' = p
         /\ \/ /\ client = "none" \/ p # params
               /\ Replaced
            \/ /\ client # "none" /\ p = params
               /\ queue' = Tail(queue)
               /\ UNCHANGED <<client, check, driver, lost, fresh>>
  /\ UNCHANGED <<application, linked, wire, entry, failures, incidents>>

run_terminate ==
  /\ HasTask("run_terminate")
  /\ client' = "none"
  /\ check' = FALSE
  /\ queue' = EntryTasks(Tail(queue))
  /\ KeyboardGone
  /\ UNCHANGED <<application, linked, wire, entry, params, failures, incidents>>

\* The check knows the client's stored ready value, which may be behind the
\* keyboard; delayed tasks wait for an empty queue.
readiness_check ==
  /\ check /\ queue = <<>>
  /\ \/ /\ incidents < MaxIncident
        /\ incidents' = incidents + 1
        /\ client' = "closed"
        /\ KeyboardGone
        /\ UNCHANGED <<check, queue>>
     \/ /\ keyboard = "ready"
        /\ check' = FALSE
        /\ UNCHANGED <<client, queue, incidents, driver, lost, fresh>>
  /\ UNCHANGED <<application, linked, wire, entry, params, failures>>

\* open_connection, which enqueues opened.
client_opens ==
  /\ client = "closed"
  /\ client' = "open"
  /\ queue' = Append(queue, Task("opened", {}))
  /\ UNCHANGED <<application, linked, wire, entry, params, check, driver, history>>

run_opened ==
  /\ HasTask("opened")
  /\ queue' = Append(Tail(queue), Task("initialize", {}))
  /\ UNCHANGED <<application, linked, wire, entry, params, client, check, driver,
                 history>>

\* close_connection, because the driver's service terminated.
driver_dies ==
  /\ client = "open"
  /\ incidents < MaxIncident
  /\ incidents' = incidents + 1
  /\ client' = "closed"
  /\ KeyboardGone
  /\ UNCHANGED <<application, linked, wire, entry, params, check, queue, failures>>

(***************************************************************************)
(* The driver's ExternalMethod, called by the client's tasks, and the      *)
(* keyboard.                                                               *)
(***************************************************************************)
keyboard_initialize ==
  /\ HasTask("initialize")
  /\ queue' = Tail(queue)
  /\ keyboard' = IF client = "open" /\ keyboard = "none" THEN "created" ELSE keyboard
  /\ UNCHANGED <<application, linked, wire, entry, params, client, check, host,
                 leds, history>>

handleStart ==
  /\ keyboard = "created"
  /\ keyboard' = "ready"
  /\ UNCHANGED <<application, linked, wire, daemon, host, leds, history>>

\* A memory descriptor cannot be created.
createWithBytes_fails ==
  /\ failures < MaxFailure
  /\ failures' = failures + 1

Reported_NotFull(kind, keys) ==
  IF Cardinality(keys) < Slots THEN [host EXCEPT ![kind] = keys] ELSE host

Reported(kind, keys) == [host EXCEPT ![kind] = keys]

\* Whether the client's call gets to a keyboard that takes reports.
Postable == client = "open" /\ keyboard = "ready"

\* A client's task that posts to the keyboard, which drops it if it cannot.
Posting(type) ==
  /\ HasTask(type)
  /\ queue' = Tail(queue)
  /\ UNCHANGED <<application, linked, wire, entry, params, client, check,
                 keyboard, leds, incidents, fresh>>

dropped ==
  /\ Posting("report") \/ Posting("reset")
  /\ ~Postable
  /\ UNCHANGED <<host, lost, failures>>

postReport ==
  /\ Posting("report")
  /\ Postable
  /\ LET report == Head(queue).arg
     IN  \/ /\ host' = Reported(report.kind, report.keys)
            /\ lost' = lost \ {report.kind}
            /\ UNCHANGED failures
         \/ /\ createWithBytes_fails
            /\ lost' = lost \cup {report.kind}
            /\ UNCHANGED host

\* An empty report of each kind; the first descriptor that cannot be created
\* ends the loop.
EmptiedBy(n) == {Kinds[i] : i \in 1 .. n}

reset ==
  /\ Posting("reset")
  /\ Postable
  /\ \E n \in 0 .. Len(Kinds) :
       /\ host' = [kind \in Kind |-> IF kind \in EmptiedBy(n) THEN {} ELSE host[kind]]
       /\ lost' = (lost \ EmptiedBy(n)) \cup (Kind \ EmptiedBy(n))
       /\ \/ n = Len(Kinds) /\ UNCHANGED failures
          \/ n < Len(Kinds) /\ createWithBytes_fails

\* The system sets the LEDs.  The state is stored before the report that tells
\* of it is created.
StoredLed_Not(state) == lastLedState

StoredLed(state) == state

setReport(state) ==
  /\ keyboard = "ready"
  /\ led_set' = state
  /\ \/ /\ state = lastLedState
        /\ UNCHANGED <<lastLedState, led_posted, led_lost, failures>>
     \/ /\ state # lastLedState
        /\ lastLedState' = StoredLed(state)
        /\ led_posted' = state /\ led_lost' = FALSE
        /\ UNCHANGED failures
     \/ /\ state # lastLedState
        /\ lastLedState' = StoredLed(state)
        /\ createWithBytes_fails /\ led_lost' = TRUE
        /\ UNCHANGED led_posted
  /\ UNCHANGED <<application, linked, wire, daemon, keyboard, host, incidents,
                 lost, fresh>>

-----------------------------------------------------------------------------
PathInit ==
  /\ keys_ = clear /\ held = {} /\ posted = NoKeys /\ calls = 0
  /\ linked = FALSE /\ wire = <<>>
  /\ entry = FALSE /\ params = DefaultParam /\ client = "none" /\ check = FALSE
  /\ queue = <<>>
  /\ keyboard = "none" /\ host = NoKeys
  /\ lastLedState = 0 /\ led_posted = 0 /\ led_set = 0 /\ led_lost = FALSE
  /\ failures = 0 /\ incidents = 0 /\ lost = {} /\ fresh = {}

Application ==
  \/ \E k \in KeyValue : press(k) \/ release(k)
  \/ release_all
  \/ \E kind \in Kind : async_post_report(kind)
  \/ async_reset \/ async_terminate
  \/ \E p \in Param : async_initialize(p)

Daemon ==
  \/ connected \/ peer_closed \/ request_received
  \/ run_initialize \/ run_terminate \/ run_opened \/ readiness_check
  \/ client_opens

Driver ==
  \/ keyboard_initialize \/ handleStart \/ postReport \/ reset \/ dropped
  \/ \E state \in Led : setReport(state)

PathNext == Application \/ Daemon \/ Driver \/ connection_lost \/ driver_dies

PathSpec == PathInit /\ [][PathNext]_path_vars

-----------------------------------------------------------------------------
\* Everything that was sent has been dealt with.
Quiet == wire = <<>> /\ queue = <<>> /\ linked = entry

\* The array of slots behaves as a set of at most Slots keys: it holds what was
\* put in and not taken out, each key in one slot, and 0 is not a key.
KeysAreASet == Down(keys_) = held /\ count(keys_) = Cardinality(held)

\* No key stays down for the system that the application has released: neither
\* when a report was dropped on its way, nor when the keyboard was replaced, nor
\* when the connection was lost, nor when a reset ended half-way.  The exception
\* are the kinds whose last report the driver had no memory for.
NoStuckKey == Quiet => \A kind \in Kind \ lost : host[kind] \subseteq posted[kind]

\* Reports arrive, the last one last, while the keyboard stays in place: what the
\* application posted last, of any kind, is what the system sees.
LastPostArrives == Quiet => \A kind \in fresh \ lost : host[kind] = posted[kind]

\* setReport suppresses repeated states only: the LED state that the keyboard
\* posted is the one the system set last, unless the report of the last change
\* could not be created.  Such a failure does not outlast the next change.
LedShown == led_posted = led_set \/ led_lost
=============================================================================
