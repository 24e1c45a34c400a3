----------------------------- MODULE Dispatcher -----------------------------
(***************************************************************************)
(* pqrs/dispatcher/dispatcher.hpp: the thread on which the daemon and the  *)
(* client library run their tasks, step by step between its locks, and the *)
(* calls of the other threads.  dispatcher_client attaches an object when  *)
(* it is constructed and must detach it before it is destroyed; what makes *)
(* that safe is that no function of the object runs after detach returned. *)
(*                                                                         *)
(* Two callers make the waits interesting.  A thread that destroys an      *)
(* object hands a cleanup function to the dispatcher and waits for it.  A  *)
(* function may destroy a unix_domain_stream client or server, and then    *)
(* waits for the io thread of that object, on which peers are released,    *)
(* which detach themselves.  Objects that functions and io threads         *)
(* construct are given the dispatcher, so they do not need the lock of     *)
(* shared_dispatcher, which terminate_shared_dispatcher holds.             *)
(***************************************************************************)
EXTENDS Subsequence

CONSTANTS
  Object,   \* objects that are attached, each once
  Peer,     \* those that an io thread constructs and releases
  Own,      \* the dispatcher's own object_id_
  None,
  Thread,   \* threads other than the dispatcher's
  Io,       \* those that belong to an object and end with it
  MaxTask,  \* bound: functions enqueued, besides the cleanup functions
  LastTime  \* bound: the last time of the clock

ASSUME DispatcherAssumption ==
  /\ Peer \subseteq Object /\ Own \notin Object /\ None \notin Object \cup {Own}
  /\ Io \subseteq Thread
  /\ MaxTask \in Nat /\ LastTime \in Nat \ {0}

VARIABLES
  queue,       \* queue_
  object_ids,  \* object_ids_
  running_id,  \* running_function_object_id_
  exit,        \* exit_
  worker,      \* where the dispatcher's thread is, and its entry
  caller,      \* what the other threads wait for
  notified,    \* cleanup functions that have finished
  asked,       \* io threads that a function waits for
  clock,
  count,       \* entries made so far
  \* history
  made,        \* objects attached so far
  released,    \* objects whose detach has returned to a thread
  early        \* terminate was called while objects were still there

core == <<queue, object_ids, running_id, exit>>
history == <<made, released, early>>
dvars == <<core, worker, caller, notified, asked, clock, count, history>>

when_internal_detached == 0
when_immediately == 1

At(place) == worker.at = place
InFunction == At("running") \/ At("joining")
Resting == [at |-> "wait", task |-> None]
Goto(place) == worker' = [worker EXCEPT !.at = place]

Idle == [at |-> "idle"]
Ended == [at |-> "ended"]
Quiesce(o, cleanup) == [at |-> "quiesce", obj |-> o, cleanup |-> cleanup]
Cleanup(o) == [at |-> "cleanup", obj |-> o]
Notice(o, id) == [at |-> "notice", obj |-> o, id |-> id]
Join == [at |-> "join"]

(***************************************************************************)
(* enqueue, attach and detach, as any thread calls them.                   *)
(***************************************************************************)
\* Before the entries that are due at the same time.
Inserted_First(e) ==
  LET later == {i \in 1 .. Len(queue) : queue[i].when >= e.when}
  IN  SubseqAt(queue, 1 .. Len(queue) \ later) \o <<e>> \o SubseqAt(queue, later)

Inserted(e) ==
  LET later == {i \in 1 .. Len(queue) :
                  e.when = when_internal_detached \/ queue[i].when > e.when}
  IN  SubseqAt(queue, 1 .. Len(queue) \ later) \o <<e>> \o SubseqAt(queue, later)

\* Refused, and without an effect, if the object is not attached or exit_ is set.
enqueue(o, when) ==
  /\ o \in object_ids
  /\ ~exit
  /\ count' = count + 1
  /\ queue' = Inserted([id |-> count + 1, obj |-> o, when |-> when])

\* make_new_object_id
new(o) == o \notin made /\ made' = made \cup {o}

attach(o) == object_ids' = IF exit THEN object_ids ELSE object_ids \cup {o}

erase(o) ==
  /\ o \in object_ids
  /\ object_ids' = object_ids \ {o}
  /\ queue' = SubseqAt(queue, {i \in 1 .. Len(queue) : queue[i].obj # o})

(***************************************************************************)
(* The dispatcher's thread.                                                *)
(***************************************************************************)
pop ==
  /\ At("wait") /\ ~exit
  /\ queue # <<>> /\ Head(queue).when <= clock
  /\ worker' = [worker EXCEPT !.at = "popped", !.task = Head(queue)]
  /\ queue' = Tail(queue)
  /\ UNCHANGED <<object_ids, running_id, exit, caller, notified, asked, clock, count,
                 history>>

break ==
  /\ At("wait") /\ exit
  /\ Goto("exited")
  /\ UNCHANGED <<core, caller, notified, asked, clock, count, history>>

set_running_id ==
  /\ At("popped")
  /\ Goto("marked")
  /\ running_id' = worker.task.obj
  /\ UNCHANGED <<queue, object_ids, exit, caller, notified, asked, clock, count, history>>

Attached_Always(o) == TRUE

Attached(o) == o \in object_ids

\* The entry's function looks whether its object is still attached.
call_function ==
  /\ At("marked")
  /\ Goto(IF Attached(worker.task.obj) THEN "running" ELSE "returned")
  /\ UNCHANGED <<core, caller, notified, asked, clock, count, history>>

function_returns ==
  /\ At("running")
  /\ Goto("returned")
  /\ notified' = IF worker.task.when = when_internal_detached
                   THEN notified \cup {worker.task.id} ELSE notified
  /\ UNCHANGED <<core, caller, asked, clock, count, history>>

unset_running_id ==
  /\ At("returned")
  /\ worker' = Resting
  /\ running_id' = None
  /\ UNCHANGED <<queue, object_ids, exit, caller, notified, asked, clock, count, history>>

(***************************************************************************)
(* What a function does with the dispatcher it runs on.                    *)
(***************************************************************************)
\* detach does not wait on the dispatcher's thread, and a cleanup function is
\* called in place.
function_detaches(o) ==
  /\ At("running")
  /\ erase(o)
  /\ UNCHANGED <<running_id, exit, worker, caller, notified, asked, clock, count, history>>

function_enqueues(o, when) ==
  /\ At("running")
  /\ count < MaxTask
  /\ enqueue(o, when)
  /\ UNCHANGED <<object_ids, running_id, exit, worker, caller, notified, asked, clock, history>>

\* ~unix_domain_stream::client, ~server: the io thread is asked to end.
function_joins(t) ==
  /\ At("running")
  /\ worker.task.obj \notin Peer
  /\ t \notin asked
  /\ asked' = asked \cup {t}
  /\ Goto("joining")
  /\ UNCHANGED <<core, caller, notified, clock, count, history>>

function_joined ==
  /\ At("joining")
  /\ \A t \in asked : caller[t] = Ended
  /\ Goto("running")
  /\ UNCHANGED <<core, caller, notified, asked, clock, count, history>>

function_constructs(o) ==
  /\ At("running")
  /\ o \notin Peer
  /\ new(o)
  /\ attach(o)
  /\ UNCHANGED <<queue, running_id, exit, worker, caller, notified, asked, clock,
                 count, released, early>>

(***************************************************************************)
(* The other threads.                                                      *)
(***************************************************************************)
Return(t) == caller' = [caller EXCEPT ![t] = Idle]

thread_constructs(t, o) ==
  /\ caller[t] = Idle
  /\ o \in Peer <=> t \in Io
  /\ t \notin asked
  /\ new(o)
  /\ attach(o)
  /\ UNCHANGED <<queue, running_id, exit, worker, caller, notified, asked, clock,
                 count, released, early>>

thread_enqueues(t, o, when) ==
  /\ caller[t] = Idle
  /\ count < MaxTask
  /\ enqueue(o, when)
  /\ UNCHANGED <<object_ids, running_id, exit, worker, caller, notified, asked, clock,
                 history>>

\* Peers are released on their io thread, without a cleanup function.
detach(t, o, cleanup) ==
  /\ caller[t] = Idle
  /\ o \in Peer <=> t \in Io
  /\ cleanup => t \notin Io
  /\ erase(o)
  /\ caller' = [caller EXCEPT ![t] = Quiesce(o, cleanup)]
  /\ UNCHANGED <<running_id, exit, worker, notified, asked, clock, count, history>>

Quiesced_Idle(o) == running_id = None

Quiesced(o) == running_id # o

detach_quiesced(t) ==
  /\ caller[t].at = "quiesce"
  /\ LET o == caller[t].obj
     IN  /\ Quiesced(o)
         /\ \/ /\ caller[t].cleanup
               /\ caller' = [caller EXCEPT ![t] = Cleanup(o)]
               /\ UNCHANGED released
            \/ /\ ~caller[t].cleanup
               /\ released' = released \cup {o}
               /\ Return(t)
  /\ UNCHANGED <<core, worker, notified, asked, clock, count, made, early>>

\* If enqueue returns false, detach returns without the function.
detach_cleanup(t) ==
  /\ caller[t].at = "cleanup"
  /\ LET o == caller[t].obj
     IN  \/ /\ enqueue(Own, when_internal_detached)
            /\ caller' = [caller EXCEPT ![t] = Notice(o, count + 1)]
            /\ UNCHANGED released
         \/ /\ exit
            /\ released' = released \cup {o}
            /\ Return(t)
            /\ UNCHANGED <<queue, count>>
  /\ UNCHANGED <<object_ids, running_id, exit, worker, notified, asked, clock, made, early>>

detach_noticed(t) ==
  /\ caller[t].at = "notice"
  /\ caller[t].id \in notified
  /\ released' = released \cup {caller[t].obj}
  /\ Return(t)
  /\ UNCHANGED <<core, worker, notified, asked, clock, count, made, early>>

\* The order of main.cpp: the objects are destroyed, by calls that have returned,
\* before the dispatcher is terminated.
Destroyed ==
  /\ object_ids = {Own}
  /\ \A t \in Thread : caller[t] \in {Idle, Ended}
  /\ ~InFunction

terminate(t) ==
  /\ caller[t] = Idle /\ t \notin Io
  /\ ~exit
  /\ exit' = TRUE
  /\ early' = ~Destroyed
  /\ caller' = [caller EXCEPT ![t] = Join]
  /\ UNCHANGED <<queue, object_ids, running_id, worker, notified, asked, clock, count,
                 made, released>>

terminate_joined(t) ==
  /\ caller[t] = Join
  /\ At("exited")
  /\ caller' = [caller EXCEPT ![t] = Ended]
  /\ UNCHANGED <<core, worker, notified, asked, clock, count, history>>

\* The io thread has nothing left to do when its peers are released.
io_ends(t) ==
  /\ caller[t] = Idle
  /\ t \in asked
  /\ Peer \cap object_ids = {}
  /\ caller' = [caller EXCEPT ![t] = Ended]
  /\ UNCHANGED <<core, worker, notified, asked, clock, count, history>>

tick ==
  /\ clock < LastTime
  /\ clock' = clock + 1
  /\ UNCHANGED <<core, worker, caller, notified, asked, count, history>>

-----------------------------------------------------------------------------
DispatcherInit ==
  /\ queue = <<>> /\ object_ids = {Own} /\ running_id = None /\ exit = FALSE
  /\ worker = Resting
  /\ caller = [t \in Thread |-> Idle]
  /\ notified = {} /\ asked = {}
  /\ clock = when_immediately /\ count = 0
  /\ made = {} /\ released = {} /\ early = FALSE

Worker ==
  \/ pop \/ break \/ set_running_id \/ call_function \/ function_returns
  \/ unset_running_id \/ function_joined

Function ==
  \/ \E o \in Object :
       \/ function_detaches(o)
       \/ function_constructs(o)
       \/ \E when \in when_immediately .. LastTime : function_enqueues(o, when)
  \/ \E t \in Io : function_joins(t)

Call(t) ==
  \E o \in Object :
    \/ thread_constructs(t, o)
    \/ \E when \in when_immediately .. LastTime : thread_enqueues(t, o, when)
    \/ \E cleanup \in BOOLEAN : detach(t, o, cleanup)

Continue(t) ==
  \/ detach_quiesced(t) \/ detach_cleanup(t) \/ detach_noticed(t)
  \/ terminate_joined(t) \/ io_ends(t)

DispatcherNext ==
  \/ Worker \/ Function \/ tick
  \/ \E t \in Thread : Call(t) \/ Continue(t) \/ terminate(t)

DispatcherSpec == DispatcherInit /\ [][DispatcherNext]_dvars

(***************************************************************************)
(* The threads run, functions return, time passes, and an io thread that   *)
(* is asked to end releases its peers.  Nobody has to call anything else.  *)
(***************************************************************************)
FairDispatcherSpec ==
  /\ DispatcherSpec
  /\ WF_dvars(Worker)
  /\ WF_dvars(tick)
  /\ \A t \in Thread : WF_dvars(Continue(t))
  /\ \A t \in Io : WF_dvars(t \in asked /\ \E o \in Peer : detach(t, o, FALSE))

-----------------------------------------------------------------------------
\* When detach has returned to another thread, the object may be destroyed: no
\* function of it is running.  The dispatcher marks the running object before it
\* looks whether the object is attached, and detach looks at the mark after it
\* has detached the object.
DetachedIsQuiet == InFunction => worker.task.obj \notin released

\* Every call of another thread returns, and a function that waits for an io
\* thread goes on, unless the dispatcher is terminated while objects are still
\* there: then a cleanup function may be left in the queue with its caller
\* waiting for it.
CallsReturn ==
  /\ \A t \in Thread : caller[t] \notin {Idle, Ended} ~> (caller[t] \in {Idle, Ended} \/ early)
  /\ At("joining") ~> (At("running") \/ early)

(***************************************************************************)
(* The promise: the entry that has been taken from the queue and not       *)
(* called is the chosen one, unless its object has been detached since.    *)
(***************************************************************************)
Waiting == {queue[i] : i \in 1 .. Len(queue)}

Pending == IF At("exited") THEN {} ELSE Waiting

Chosen ==
  IF (At("popped") \/ At("marked")) /\ worker.task.obj \in object_ids
    THEN worker.task ELSE None

Current == IF InFunction THEN worker.task ELSE None

Executor == INSTANCE SerialExecutor WITH
  pending  <- Pending,
  chosen   <- Chosen,
  current  <- Current,
  attached <- object_ids,
  count    <- count,
  now      <- clock,
  halted   <- At("exited")

\* The dispatcher, with its queue, its locks and its calls, does what callers
\* count on: see SerialExecutor.
ImplementsExecutor == Executor!ExecutorSpec
=============================================================================
