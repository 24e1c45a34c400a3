----------------------------- MODULE PeerSession -----------------------------
(***************************************************************************)
(* One application and its client_entry in the daemon:                     *)
(* include/pqrs/karabiner/driverkit/virtual_hid_device_service/client.hpp  *)
(* at one end, the request_received, peer_connected and peer_closed        *)
(* handlers of virtual_hid_device_service_server.hpp at the other, and the *)
(* unix_domain_stream connection between them, which delivers in order     *)
(* until it breaks.                                                        *)
(*                                                                         *)
(* The daemon sends a status in two ways: as the answer to an initialize,  *)
(* terminate or reset request, taken when the request is received; and as  *)
(* a push of the entry (see ClientEntry), when it differs from the last    *)
(* push.  The client library stores what arrives last and ignores an       *)
(* initialize call when the stored status says that the device is ready.   *)
(* It looks at what is stored, and stores the parameters, on the caller's  *)
(* thread and without a lock, while its dispatcher stores and clears: the  *)
(* call is a sequence of steps here.  The application calls from one       *)
(* thread at a time.                                                       *)
(***************************************************************************)
EXTENDS ClientEntry

CONSTANTS
  Forced,    \* the values the application passes as `force'
  MaxCalls,  \* bound: calls of the application
  MaxLosses, \* bound: connections that end, by a break or by async_stop
  MaxEvents  \* bound: changes of the driver that the entry's clients go through

ASSUME SessionAssumption ==
  /\ Forced \subseteq BOOLEAN
  /\ MaxCalls \in Nat /\ MaxLosses \in Nat /\ MaxEvents \in Nat

VARIABLES
  linked,       \* the connection is up
  to_server,    \* requests on their way to the daemon's dispatcher
  to_client,    \* statuses on their way to the application's dispatcher
  todo,         \* tasks in the application's dispatcher, oldest first
  last_ready,   \* last_virtual_hid_{keyboard,pointing}_ready_
  last_params,  \* last_virtual_hid_keyboard_parameters_
  call,         \* the initialize call that the application is in
  intent,       \* what the application asked for last, in this session
  skipped,      \* a call without force was ignored in this session
  calls, losses, events

link == <<linked, to_server, to_client>>
library == <<todo, last_ready, last_params>>
counters == <<calls, losses, events>>
session == <<intent, skipped>>
pvars == <<evars, link, library, call, session, counters>>

NoCall == [at |-> "none"]

Request(name, d, p) == [task |-> "request", name |-> name, device |-> d, param |-> p]
Message(r) == [task |-> "message", status |-> r]
Stop       == [task |-> "stop"]
Lost       == [task |-> "closed"]

(***************************************************************************)
(* The application calls the library.                                      *)
(***************************************************************************)
\* The request is sent by a task of the library's dispatcher.
async_request(r) == todo' = Append(todo, r)

Call ==
  /\ call = NoCall
  /\ calls < MaxCalls
  /\ calls' = calls + 1
  /\ UNCHANGED <<evars, link, last_ready, losses, events>>

\* The call looks at the stored status ...
async_initialize(d, p, force) ==
  /\ Call
  /\ d = "pointing" => p = DefaultParam
  /\ call' = [at |-> "looked", device |-> d, param |-> p, force |-> force,
              ready |-> last_ready[d] = "true"]
  /\ UNCHANGED <<todo, last_params, session>>

Ignored_DespiteForce ==
  call.ready /\ (call.device = "keyboard" => last_params = call.param)

Ignored ==
  ~call.force /\ call.ready /\ (call.device = "keyboard" => last_params = call.param)

Stored_FirstOnly == IF last_params = NoParam THEN call.param ELSE last_params

Stored == call.param

\* The application has asked for the device, whatever becomes of the call.
intended ==
  intent' = IF linked THEN [intent EXCEPT ![call.device] = call.param] ELSE intent

\* ... and at the stored parameters, which it replaces, ...
initialize_stores ==
  /\ call.at = "looked"
  /\ \/ /\ Ignored
        /\ call' = NoCall
        /\ skipped' = (skipped \/ ~call.force)
        /\ intended
        /\ UNCHANGED last_params
     \/ /\ ~Ignored
        /\ call' = [call EXCEPT !.at = "stored"]
        /\ last_params' = IF call.device = "keyboard" THEN Stored ELSE last_params
        /\ UNCHANGED session
  /\ UNCHANGED <<evars, link, todo, last_ready, counters>>

\* ... and enqueues the request.
initialize_requests ==
  /\ call.at = "stored"
  /\ call' = NoCall
  /\ intended
  /\ async_request(Request("initialize", call.device, call.param))
  /\ UNCHANGED <<evars, link, last_ready, last_params, skipped, counters>>

async_terminate(d) ==
  /\ Call
  /\ intent' = [intent EXCEPT ![d] = NoParam]
  /\ async_request(Request("terminate", d, DefaultParam))
  /\ UNCHANGED <<last_params, call, skipped>>

async_reset(d) ==
  /\ Call
  /\ async_request(Request("reset", d, DefaultParam))
  /\ UNCHANGED <<last_params, call, session>>

async_stop ==
  /\ Call
  /\ linked
  /\ losses < MaxLosses
  /\ todo' = Append(todo, Stop)
  /\ UNCHANGED <<last_params, call, session>>

(***************************************************************************)
(* The library's dispatcher.                                               *)
(***************************************************************************)
receive ==
  /\ linked
  /\ to_client # <<>>
  /\ todo' = Append(todo, Message(Head(to_client)))
  /\ to_client' = Tail(to_client)
  /\ UNCHANGED <<evars, linked, to_server, last_ready, last_params, call, session, counters>>

Todo(name) == todo # <<>> /\ Head(todo).task = name

\* Without a connection the request fails with an error.
send ==
  /\ Todo("request")
  /\ todo' = Tail(todo)
  /\ to_server' = IF linked THEN Append(to_server, Head(todo)) ELSE to_server
  /\ UNCHANGED <<evars, linked, to_client, last_ready, last_params, call,
                 session, counters>>

handle_message ==
  /\ Todo("message")
  /\ todo' = Tail(todo)
  /\ last_ready' = [d \in Device |->
                      IF Head(todo).status.ready[d] THEN "true" ELSE "false"]
  /\ UNCHANGED <<evars, link, last_params, call, session, counters>>

clear_state ==
  /\ last_ready' = [d \in Device |-> "nullopt"]
  /\ last_params' = NoParam
  /\ intent' = [d \in Device |-> NoParam]
  /\ skipped' = FALSE

\* Nothing that is still on its way arrives after the connection is gone; what
\* the library has already put into its dispatcher's queue does.
Unlink ==
  /\ linked' = FALSE
  /\ to_server' = <<>>
  /\ to_client' = <<>>
  /\ losses' = losses + 1

stop ==
  /\ Todo("stop")
  /\ todo' = Tail(todo)
  /\ clear_state
  /\ \/ linked /\ Unlink
     \/ ~linked /\ UNCHANGED <<link, losses>>
  /\ UNCHANGED <<evars, call, calls, events>>

\* The connection breaks; the closed handler runs when its turn comes.
break ==
  /\ linked
  /\ losses < MaxLosses
  /\ Unlink
  /\ todo' = Append(todo, Lost)
  /\ UNCHANGED <<evars, last_ready, last_params, call, session, calls, events>>

handle_closed ==
  /\ Todo("closed")
  /\ todo' = Tail(todo)
  /\ clear_state
  /\ UNCHANGED <<evars, link, call, counters>>

\* reconnect_interval, or async_stop and async_start: the daemon sees a new
\* peer and makes a new entry, whose first status check is queued at once.  By
\* then the requests and the end of the old connection have been handled; the
\* model lets the handling of an old status take longer.
connect ==
  /\ ~linked
  /\ \A i \in 1 .. Len(todo) : todo[i].task = "message"
  /\ linked' = TRUE
  /\ unreported' = activated
  /\ driver' = "unconnected"
  /\ enabled' = [d \in Device |-> FALSE]
  /\ params' = DefaultParam
  /\ client' = [d \in Device |-> "none"]
  /\ keyboard_param' = NoParam
  /\ generation' = [d \in Device |-> 0]
  /\ checks' = [d \in Device |-> <<>>]
  /\ last_response' = NoResponse
  /\ queue' = peer_connected
  /\ was_ready' = [d \in Device |-> FALSE]
  /\ failures' = [d \in Device |-> 0]
  /\ UNCHANGED <<activated, to_server, to_client, library, call, session, counters>>

(***************************************************************************)
(* The daemon.                                                             *)
(***************************************************************************)
\* A request reaches the daemon's dispatcher.
arrive ==
  /\ linked
  /\ to_server # <<>>
  /\ queue' = Append(queue, Head(to_server))
  /\ to_server' = Tail(to_server)
  /\ UNCHANGED <<observed, enabled, params, client, keyboard_param, generation,
                 checks, last_response, history, linked, to_client, library,
                 call, session, counters>>

\* request_received: the entry enqueues the work, and the answer is the status
\* of this moment.  last_response_ does not record that it was sent.
request_received ==
  /\ linked
  /\ HasTask("request")
  /\ LET r == Head(queue)
     IN  queue' = Tail(queue) \o
                  CASE r.name = "initialize" -> <<Initialize(r.device, r.param)>>
                    [] r.name = "terminate"  -> <<Terminate(r.device)>>
                    [] r.name = "reset"      -> <<>>
  /\ to_client' = Append(to_client, make_response(client))
  /\ UNCHANGED <<observed, enabled, params, client, keyboard_param, generation,
                 checks, last_response, history, linked, to_server, library,
                 call, session, counters>>

\* async_deliver_status sends the new last_response_.
deliver_status ==
  to_client' = IF last_response' = last_response THEN to_client
               ELSE Append(to_client, last_response')

\* A step of the entry.  client_opened is left to ClientEntry: it only concerns
\* the driver's keyboard.
entry_step ==
  /\ linked
  /\ \/ RunTask
     \/ \E d \in Device : readiness_check(d) \/ client_becomes_ready(d)
  /\ deliver_status
  /\ UNCHANGED <<linked, to_server, library, call, session, counters>>

driver_event ==
  /\ linked
  /\ events < MaxEvents
  /\ events' = events + 1
  /\ \/ registry_changes
     \/ observer_changes
     \/ \E d \in Device : client_loses_ready(d)
  /\ UNCHANGED <<link, library, call, session, calls, losses>>

-----------------------------------------------------------------------------
SessionInit ==
  /\ EntryInit
  /\ linked = TRUE
  /\ to_server = <<>>
  /\ to_client = <<>>
  /\ todo = <<>>
  /\ last_ready = [d \in Device |-> "nullopt"]
  /\ last_params = NoParam
  /\ call = NoCall
  /\ intent = [d \in Device |-> NoParam]
  /\ skipped = FALSE
  /\ calls = 0
  /\ losses = 0
  /\ events = 0

Calls ==
  \/ \E d \in Wanted :
       \/ \E p \in Param, force \in Forced : async_initialize(d, p, force)
       \/ async_terminate(d)
       \/ async_reset(d)
  \/ async_stop
  \/ initialize_stores \/ initialize_requests

SessionNext ==
  \/ Calls
  \/ receive \/ send \/ handle_message \/ stop \/ break \/ handle_closed \/ connect
  \/ arrive \/ request_received \/ entry_step \/ driver_event

SessionSpec == SessionInit /\ [][SessionNext]_pvars

-----------------------------------------------------------------------------
\* Nothing is on its way between the application, the daemon and the driver.
Quiescent ==
  /\ linked /\ ~unreported /\ call = NoCall
  /\ to_server = <<>> /\ to_client = <<>> /\ todo = <<>> /\ queue = <<>>

\* What the application asked for last is what the entry does once everything
\* has settled: no order of calls, answers, pushes and reconnections makes the
\* daemon keep a device the application terminated, drop one it initialised,
\* or create the keyboard with other parameters.  The exception is a session in
\* which the library has ignored a call without force: see StatusBelievedRight.
IntentHonoured ==
  Quiescent /\ ~skipped =>
    \A d \in Device :
      /\ enabled[d] <=> intent[d] # NoParam
      /\ d = "keyboard" /\ enabled[d] => params = intent[d]

\* A stored ready status is about a device of this session: a status handled
\* after async_stop cleared the state is overwritten by the first push of the
\* entry that the daemon makes for the next connection.
StatusOfThisSession ==
  Quiescent => \A d \in Device : last_ready[d] = "true" => generation[d] > 0

\* The parameters that the library has stored, and compares the next initialize
\* call with, are those of the daemon's keyboard, although they are stored on the
\* caller's thread, before the request is sent, and cleared by the dispatcher.
ParamsBelievedRight ==
  Quiescent /\ last_ready["keyboard"] = "true" /\ enabled["keyboard"]
    => last_params \in {NoParam, params}

\* The library may ignore an initialize call only for a device that is
\* initialised (NEWS.md, 1.30.0).  It looks at the stored status, which is right
\* once everything has settled.
StatusBelievedRight ==
  Quiescent => \A d \in Device : last_ready[d] = "true" => client[d] = "ready"
=============================================================================
