---------------------------- MODULE ServiceServer ----------------------------
(***************************************************************************)
(* virtual_hid_device_service_server.hpp: how the daemon creates, loses    *)
(* and recreates its socket server, and how the clients manager's table    *)
(* of entries follows the peers of that server.                            *)
(*                                                                         *)
(* The unix_domain_stream server has an io thread, which binds the socket  *)
(* and accepts peers, and reports on the dispatcher thread.  `tasks' holds *)
(* the immediate tasks of the dispatcher, oldest first; delayed tasks (the *)
(* timers) run when it is empty, as the dispatcher sorts its queue.  The   *)
(* entries themselves are ClientEntry's subject; here an entry is just the *)
(* session it was created for.                                             *)
(***************************************************************************)
EXTENDS Subsequence

CONSTANTS
  MaxSession,  \* bound: connections that applications make
  MaxRemoval,  \* bound: how often the socket directory is deleted
  MaxBlock     \* bound: how often it becomes impossible to create it

ASSUME ServerAssumption ==
  MaxSession \in Nat /\ MaxRemoval \in Nat /\ MaxBlock \in Nat

Id == 1 .. MaxSession  \* peer ids
NoSession == 0         \* no peer or no entry; sessions count from 1

VARIABLES
  \* the file system
  creatable,     \* create_directories and permissions succeed
  present,       \* the socket directory exists
  socket,        \* the socket file of the acceptor exists
  \* unix_domain_stream::server
  server,        \* server_ is not null
  stopped,       \* stopped_
  binding,       \* a bind is posted to the io thread
  acceptor,      \* acceptor_
  next_peer_id,  \* next_peer_id_
  peer,          \* peers_: the session of each open connection
  exposed,       \* exposed_peer_ids_, with the session of each
  bind_retry,    \* bind_retry_task_ is armed
  health_timer,  \* socket_path_health_check_timer_ is on
  \* the service server and its clients manager
  retry_timer,   \* create_server_retry_timer_ is on
  entry,         \* client_entries_, with the session each was created for
  tasks,         \* immediate tasks of the dispatcher
  \* history
  sessions, removals, blocks,
  attempts       \* create_server calls since time last passed (at most three)

files == <<creatable, present, removals, blocks>>
peers == <<next_peer_id, peer, sessions>>
timers == <<bind_retry, health_timer>>
rvars == <<files, socket, server, stopped, binding, acceptor, peers, exposed,
           timers, retry_timer, entry, tasks, attempts>>

NoPeers == [i \in Id |-> NoSession]

\* Tasks of the service server, and tasks of its socket server.
Own(name)     == [task |-> name, owner |-> "service", id |-> 0, session |-> NoSession]
Signal(name)  == [task |-> name, owner |-> "server", id |-> 0, session |-> NoSession]
PeerSignal(name, i, s) == [task |-> name, owner |-> "server", id |-> i, session |-> s]

HasTask(name) == tasks # <<>> /\ Head(tasks).task = name

(***************************************************************************)
(* The socket server's io thread.                                          *)
(***************************************************************************)
\* bind and handle_bind_failed
io_bind ==
  /\ binding
  /\ binding' = FALSE
  /\ \/ /\ stopped \/ acceptor
        /\ UNCHANGED <<acceptor, socket, tasks>>
     \/ /\ ~stopped /\ ~acceptor /\ present
        /\ acceptor' = TRUE
        /\ socket' = TRUE
        /\ tasks' = Append(tasks, Signal("bound"))
     \/ /\ ~stopped /\ ~acceptor /\ ~present
        /\ tasks' = Append(tasks, Signal("bind_failed"))
        /\ UNCHANGED <<acceptor, socket>>
  /\ UNCHANGED <<files, server, stopped, peers, exposed, timers, retry_timer,
                 entry, attempts>>

\* A peer connects and its handshake is done: the ready signal.
accept ==
  /\ acceptor /\ socket /\ ~stopped
  /\ sessions < MaxSession
  /\ sessions' = sessions + 1
  /\ next_peer_id' = next_peer_id + 1
  /\ peer' = [peer EXCEPT ![next_peer_id + 1] = sessions + 1]
  /\ tasks' = Append(tasks, PeerSignal("ready", next_peer_id + 1, sessions + 1))
  /\ UNCHANGED <<files, socket, server, stopped, binding, acceptor, exposed,
                 timers, retry_timer, entry, attempts>>

\* A peer's connection ends: the closed signal.
peer_ends(i) ==
  /\ peer[i] # NoSession
  /\ peer' = [peer EXCEPT ![i] = NoSession]
  /\ tasks' = Append(tasks, PeerSignal("peer_closed", i, peer[i]))
  /\ UNCHANGED <<files, socket, server, stopped, binding, acceptor,
                 next_peer_id, sessions, exposed, timers, retry_timer, entry,
                 attempts>>

\* accept fails, or the health check does: because the socket file is gone, or
\* because it timed out.
acceptor_fails ==
  /\ acceptor
  /\ acceptor' = FALSE
  /\ socket' = FALSE
  /\ tasks' = Append(tasks, Signal("closed"))
  /\ UNCHANGED <<files, server, stopped, binding, peers, exposed, timers,
                 retry_timer, entry, attempts>>

(***************************************************************************)
(* The socket server's tasks and signals on the dispatcher thread.         *)
(***************************************************************************)
start ==
  /\ HasTask("start")
  /\ tasks' = Tail(tasks)
  /\ stopped' = FALSE
  /\ binding' = TRUE
  /\ UNCHANGED <<files, socket, server, acceptor, peers, exposed, timers,
                 retry_timer, entry, attempts>>

bound ==
  /\ HasTask("bound")
  /\ tasks' = Tail(tasks)
  /\ health_timer' = ~stopped
  /\ UNCHANGED <<files, socket, server, stopped, binding, acceptor, peers,
                 exposed, bind_retry, retry_timer, entry, attempts>>

schedule_bind_retry ==
  /\ health_timer' = FALSE
  /\ bind_retry' = (bind_retry \/ ~stopped)

closed ==
  /\ HasTask("closed")
  /\ tasks' = Tail(tasks)
  /\ schedule_bind_retry
  /\ UNCHANGED <<files, socket, server, stopped, binding, acceptor, peers,
                 exposed, retry_timer, entry, attempts>>

\* async_stop's task.  The io thread closes the acceptor and the peers.  The
\* task that destroys the server is queued already, so the closed signals of
\* these peers come after it and are dropped with the server.
Closed ==
  /\ stopped' = TRUE
  /\ acceptor' = FALSE
  /\ socket' = FALSE
  /\ peer' = NoPeers
  /\ exposed' = NoPeers
  /\ bind_retry' = FALSE
  /\ health_timer' = FALSE

stop ==
  /\ HasTask("stop")
  /\ Closed
  /\ tasks' = Tail(tasks)
  /\ UNCHANGED <<files, server, binding, next_peer_id, sessions, retry_timer,
                 entry, attempts>>

(***************************************************************************)
(* The service server's handlers.                                          *)
(***************************************************************************)
\* create_client leaves an entry alone that already has this peer id.
create_client_Never(i, s) == entry

create_client(i, s) ==
  IF entry[i] # NoSession THEN entry ELSE [entry EXCEPT ![i] = s]

peer_connected ==
  /\ HasTask("ready")
  /\ LET i == Head(tasks).id
         s == Head(tasks).session
     IN  /\ exposed' = [exposed EXCEPT ![i] = s]
         /\ entry' = create_client(i, s)
  /\ tasks' = Tail(tasks)
  /\ UNCHANGED <<files, socket, server, stopped, binding, acceptor, peers,
                 timers, retry_timer, attempts>>

erase_client_Newest(i) == [entry EXCEPT ![next_peer_id] = NoSession]

erase_client(i) == [entry EXCEPT ![i] = NoSession]

peer_closed ==
  /\ HasTask("peer_closed")
  /\ LET i == Head(tasks).id
     IN  /\ exposed' = [exposed EXCEPT ![i] = NoSession]
         /\ entry' = IF exposed[i] # NoSession THEN erase_client(i) ELSE entry
  /\ tasks' = Tail(tasks)
  /\ UNCHANGED <<files, socket, server, stopped, binding, acceptor, peers,
                 timers, retry_timer, attempts>>

\* prepare_socket_directories succeeds if the directory can be created.  If it
\* does not, the server is stopped and destroyed by two further tasks; the
\* signal's emitter schedules a bind retry in either case.
prepared_Once == creatable /\ removals = 0

prepared == creatable

bind_failed ==
  /\ HasTask("bind_failed")
  /\ schedule_bind_retry
  /\ \/ /\ prepared
        /\ present' = TRUE
        /\ tasks' = Tail(tasks)
     \/ /\ ~prepared
        /\ tasks' = Tail(tasks) \o <<Signal("stop"), Own("destroy_server")>>
        /\ UNCHANGED present
  /\ UNCHANGED <<creatable, removals, blocks, socket, server, stopped, binding,
                 acceptor, peers, exposed, retry_timer, entry, attempts>>

\* server_ = nullptr drops the socket server's tasks; then the retry timer is
\* started.
destroy_server ==
  /\ HasTask("destroy_server")
  /\ Closed
  /\ server' = FALSE
  /\ binding' = FALSE
  /\ LET kept == {i \in 2 .. Len(tasks) : tasks[i].owner = "service"}
     IN  tasks' = Append(SubseqAt(tasks, kept), Own("timer_start"))
  /\ UNCHANGED <<files, next_peer_id, sessions, retry_timer, entry, attempts>>

(***************************************************************************)
(* create_server and its retry timer.  start calls the timer's function    *)
(* once at the beginning, and then at every interval until stop.           *)
(***************************************************************************)
timer_start ==
  /\ HasTask("timer_start")
  /\ retry_timer' = TRUE
  /\ tasks' = Append(Tail(tasks), Own("create_server"))
  /\ UNCHANGED <<files, socket, server, stopped, binding, acceptor, peers,
                 exposed, timers, entry, attempts>>

timer_stop ==
  /\ HasTask("timer_stop")
  /\ retry_timer' = FALSE
  /\ tasks' = Tail(tasks)
  /\ UNCHANGED <<files, socket, server, stopped, binding, acceptor, peers,
                 exposed, timers, entry, attempts>>

create_server ==
  /\ HasTask("create_server")
  /\ attempts' = IF attempts = 3 THEN 3 ELSE attempts + 1
  /\ \/ /\ ~prepared
        /\ tasks' = Tail(tasks) \o <<Own("timer_stop"), Own("timer_start")>>
        /\ UNCHANGED <<present, server, next_peer_id>>
     \/ /\ prepared
        /\ present' = TRUE
        /\ server' = TRUE
        /\ next_peer_id' = 0
        /\ tasks' = Tail(tasks) \o <<Own("timer_stop"), Signal("start")>>
  /\ UNCHANGED <<creatable, removals, blocks, socket, stopped, binding,
                 acceptor, peer, sessions, exposed, timers, retry_timer, entry>>

\* The delayed tasks: bind_retry_task_, and the calls of the retry timer after
\* its first one.
interval_passes ==
  /\ tasks = <<>>
  /\ bind_retry \/ retry_timer
  /\ binding' = (binding \/ bind_retry)
  /\ bind_retry' = FALSE
  /\ tasks' = IF retry_timer THEN <<Own("create_server")>> ELSE <<>>
  /\ attempts' = 0
  /\ UNCHANGED <<files, socket, server, stopped, acceptor, peers, exposed,
                 health_timer, retry_timer, entry>>

-----------------------------------------------------------------------------
(***************************************************************************)
(* The file system.                                                        *)
(***************************************************************************)
system == <<server, stopped, binding, acceptor, peers, exposed, timers,
            retry_timer, entry, tasks, attempts>>

directory_removed ==
  /\ present
  /\ removals < MaxRemoval
  /\ removals' = removals + 1
  /\ present' = FALSE
  /\ socket' = FALSE
  /\ UNCHANGED <<creatable, blocks, system>>

directory_blocked ==
  /\ creatable
  /\ blocks < MaxBlock
  /\ blocks' = blocks + 1
  /\ creatable' = FALSE
  /\ UNCHANGED <<present, removals, socket, system>>

directory_unblocked ==
  /\ ~creatable
  /\ creatable' = TRUE
  /\ UNCHANGED <<present, removals, blocks, socket, system>>

\* The constructor calls create_server.
ServerInit ==
  /\ creatable = TRUE /\ present = FALSE /\ socket = FALSE
  /\ server = FALSE /\ stopped = TRUE /\ binding = FALSE /\ acceptor = FALSE
  /\ next_peer_id = 0 /\ peer = NoPeers /\ exposed = NoPeers
  /\ bind_retry = FALSE /\ health_timer = FALSE /\ retry_timer = FALSE
  /\ entry = NoPeers
  /\ tasks = <<Own("create_server")>>
  /\ sessions = 0 /\ removals = 0 /\ blocks = 0 /\ attempts = 0

Dispatch ==
  \/ start \/ bound \/ closed \/ stop
  \/ peer_connected \/ peer_closed \/ bind_failed \/ destroy_server
  \/ timer_start \/ timer_stop \/ create_server

Peers == accept \/ \E i \in Id : peer_ends(i)

Files == directory_removed \/ directory_blocked \/ directory_unblocked

ServerNext ==
  \/ Dispatch
  \/ io_bind
  \/ interval_passes
  \/ acceptor_fails
  \/ Peers
  \/ Files

ServerSpec == ServerInit /\ [][ServerNext]_rvars

(***************************************************************************)
(* The dispatcher and the io thread run; timers fire when the dispatcher   *)
(* has nothing else to do; the health check notices that the socket file   *)
(* is gone; whatever blocks the directory goes away.  Peers owe nothing.   *)
(***************************************************************************)
FairServerSpec ==
  /\ ServerSpec
  /\ WF_rvars(Dispatch)
  /\ WF_rvars(io_bind)
  /\ SF_rvars(interval_passes)
  /\ WF_rvars(health_timer /\ ~socket /\ acceptor_fails)
  /\ WF_rvars(directory_unblocked)

-----------------------------------------------------------------------------
\* As long as the socket directory can always be created again, and so the server
\* is never destroyed: every peer the server exposes has the entry that was
\* created for it, and there is no other entry.  create_client, erase_client and
\* the server's own bookkeeping agree, whatever happens to the socket meanwhile.
EntryPerPeer == blocks = 0 => entry = exposed

\* Losing and recreating the socket does not disturb a connected peer: its
\* entry goes away only when its connection has ended.
SessionSurvives ==
  [][\A i \in Id : entry[i] # NoSession /\ entry[i] = peer[i]
                     => entry'[i] = entry[i]]_rvars

\* The socket comes back after its directory was deleted, even if the directory
\* cannot be created for a while.
SocketComesBack == ~socket ~> socket

\* NEWS.md, 1.24.0: virtual devices are created for each client.  The entry of
\* a peer is its own.
OwnEntry == \A i \in Id : exposed[i] # NoSession => entry[i] = exposed[i]

\* timer.hpp: the function is called once, and then every interval.  So between
\* two intervals create_server is tried at most twice: the attempt that starts
\* the timer, and the timer's first call.
RetryPaced == attempts <= 2
=============================================================================
