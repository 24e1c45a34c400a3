-------------------------- MODULE Dispatcher_proofs --------------------------
(***************************************************************************)
(* Proofs about Dispatcher, for any number of objects, threads and tasks:  *)
(* once detach has returned, no function of the object is running.         *)
(***************************************************************************)
EXTENDS Dispatcher, Subsequence_proofs

\* What a thread may be waiting for.
Seat ==
  {Idle, Ended, Join}
    \cup {Quiesce(o, cleanup) : o \in Object, cleanup \in BOOLEAN}
    \cup {Cleanup(o) : o \in Object}
    \cup {Notice(o, id) : o \in Object, id \in Nat}

\* The parts of the state that the argument is about.
Shape ==
  /\ worker = [at |-> worker.at, task |-> worker.task]
  /\ caller \in [Thread -> Seat]
  /\ count \in Nat
  /\ released \subseteq Object

\* Objects that a detach is taking away, before and after it found them quiet.
Leaving(o) == \E t \in Thread : caller[t].at = "quiesce" /\ caller[t].obj = o

Gone(o) ==
  \/ o \in released
  \/ \E t \in Thread : caller[t].at \in {"cleanup", "notice"} /\ caller[t].obj = o

\* The worker says whose function it is about to call before it looks whether
\* the object is attached, and until the function has returned.
MarkShown == At("marked") \/ InFunction => running_id = worker.task.obj

\* An object is attached once: it does not come back after a detach.
NoReturn ==
  /\ \A o \in object_ids : o = Own \/ o \in made
  /\ \A o \in Object : Leaving(o) \/ Gone(o) => o \in made /\ o \notin object_ids

GoneIsQuiet == InFunction => ~Gone(worker.task.obj)

QuietInv == Shape /\ MarkShown /\ NoReturn /\ GoneIsQuiet
-----------------------------------------------------------------------------
WorkerShape(w) == w = [at |-> w.at, task |-> w.task]

LEMMA GotoFacts ==
  ASSUME Shape, NEW place, Goto(place)
  PROVE  /\ worker'.at = place /\ worker'.task = worker.task
         /\ WorkerShape(worker')
  BY DEF Shape, Goto, WorkerShape

LEMMA SeatFacts ==
  ASSUME NEW s \in Seat
  PROVE  /\ s.at \in {"quiesce", "cleanup", "notice"} => s.obj \in Object
         /\ s.at = "notice" => s.id \in Nat
         /\ s.at = "quiesce" => s.cleanup \in BOOLEAN
  BY DEF Seat, Idle, Ended, Join, Quiesce, Cleanup, Notice

LEMMA SeatKinds ==
  /\ Idle \in Seat /\ Ended \in Seat /\ Join \in Seat
  /\ \A o \in Object :
       /\ \A cleanup \in BOOLEAN : Quiesce(o, cleanup) \in Seat
       /\ Cleanup(o) \in Seat
       /\ \A id \in Nat : Notice(o, id) \in Seat
  BY DEF Seat

\* A step that leaves the objects and the callers alone preserves what concerns
\* them; what is left to show is about the worker.
LEMMA SameObjects ==
  ASSUME QuietInv, UNCHANGED <<object_ids, caller, released>>, made \subseteq made',
         count' \in Nat, WorkerShape(worker')
  PROVE  /\ Shape' /\ NoReturn'
         /\ \A o : Leaving(o)' <=> Leaving(o)
         /\ \A o : Gone(o)' <=> Gone(o)
<1>1. /\ \A o : Leaving(o)' <=> Leaving(o)
      /\ \A o : Gone(o)' <=> Gone(o)
  BY DEF Leaving, Gone
<1>2. Shape'
  BY DEF QuietInv, Shape, WorkerShape
<1>3. NoReturn'
  BY <1>1 DEF QuietInv, NoReturn
<1> QED
  BY <1>1, <1>2, <1>3

(***************************************************************************)
(* The worker.                                                             *)
(***************************************************************************)
LEMMA WorkerStep ==
  ASSUME QuietInv, Worker
  PROVE  QuietInv'
<1> USE DEF QuietInv
<1>0. Shape /\ count \in Nat /\ WorkerShape(worker)
  BY DEF Shape, WorkerShape
<1>1. CASE pop
  <2>1. WorkerShape(worker') /\ worker'.at = "popped"
    BY <1>0, <1>1 DEF pop, WorkerShape
  <2>2. Shape' /\ NoReturn'
    BY <1>0, <1>1, <2>1, SameObjects DEF pop, history
  <2> QED
    BY <2>1, <2>2 DEF MarkShown, GoneIsQuiet, InFunction, At
<1>2. CASE break
  <2>1. WorkerShape(worker') /\ worker'.at = "exited"
    BY <1>0, <1>2, GotoFacts DEF break
  <2>2. Shape' /\ NoReturn'
    BY <1>0, <1>2, <2>1, SameObjects DEF break, history, core
  <2> QED
    BY <2>1, <2>2 DEF MarkShown, GoneIsQuiet, InFunction, At
<1>3. CASE set_running_id
  <2>1. /\ WorkerShape(worker') /\ worker'.at = "marked"
        /\ worker'.task = worker.task /\ running_id' = worker.task.obj
    BY <1>0, <1>3, GotoFacts DEF set_running_id
  <2>2. Shape' /\ NoReturn'
    BY <1>0, <1>3, <2>1, SameObjects DEF set_running_id, history
  <2> QED
    BY <2>1, <2>2 DEF MarkShown, GoneIsQuiet, InFunction, At
<1>4. CASE call_function
  <2>1. /\ WorkerShape(worker') /\ worker'.task = worker.task
        /\ worker'.at = IF Attached(worker.task.obj) THEN "running" ELSE "returned"
    BY <1>0, <1>4, GotoFacts DEF call_function
  <2>2. /\ Shape' /\ NoReturn'
        /\ \A o : Gone(o)' <=> Gone(o)
    BY <1>0, <1>4, <2>1, SameObjects DEF call_function, history, core
  <2>3. MarkShown'
    BY <1>4, <2>1 DEF call_function, MarkShown, core, At, InFunction
  <2>4. GoneIsQuiet'
    <3> SUFFICES ASSUME InFunction' PROVE ~Gone(worker.task.obj)
      BY <2>1, <2>2 DEF GoneIsQuiet
    <3>1. worker.task.obj \in object_ids
      BY <2>1 DEF InFunction, At, Attached
    <3>2. ASSUME Gone(worker.task.obj) PROVE worker.task.obj \in Object
      BY <3>2, <1>0, SeatFacts DEF Gone, Shape
    <3> QED
      BY <3>1, <3>2 DEF NoReturn
  <2> QED
    BY <2>1, <2>2, <2>3, <2>4
<1>5. CASE function_returns
  <2>1. WorkerShape(worker') /\ worker'.at = "returned"
    BY <1>0, <1>5, GotoFacts DEF function_returns
  <2>2. Shape' /\ NoReturn'
    BY <1>0, <1>5, <2>1, SameObjects DEF function_returns, history, core
  <2> QED
    BY <2>1, <2>2 DEF MarkShown, GoneIsQuiet, InFunction, At
<1>6. CASE unset_running_id
  <2>1. WorkerShape(worker') /\ worker'.at = "wait"
    BY <1>0, <1>6 DEF unset_running_id, Resting, WorkerShape
  <2>2. Shape' /\ NoReturn'
    BY <1>0, <1>6, <2>1, SameObjects DEF unset_running_id, history
  <2> QED
    BY <2>1, <2>2 DEF MarkShown, GoneIsQuiet, InFunction, At
<1>7. CASE function_joined
  <2>1. /\ WorkerShape(worker') /\ worker'.at = "running"
        /\ worker'.task = worker.task
    BY <1>0, <1>7, GotoFacts DEF function_joined
  <2>2. /\ Shape' /\ NoReturn'
        /\ \A o : Gone(o)' <=> Gone(o)
    BY <1>0, <1>7, <2>1, SameObjects DEF function_joined, history, core
  <2>3. InFunction /\ running_id' = running_id
    BY <1>7 DEF function_joined, InFunction, core
  <2> QED
    BY <2>1, <2>2, <2>3 DEF MarkShown, GoneIsQuiet, At
<1> QED
  BY <1>1, <1>2, <1>3, <1>4, <1>5, <1>6, <1>7 DEF Worker

(***************************************************************************)
(* Functions.                                                              *)
(***************************************************************************)
\* An object that is detached by a function is attached no more; the others
\* are as they were.
LEMMA FunctionDetaches ==
  ASSUME QuietInv, NEW o \in Object, function_detaches(o)
  PROVE  QuietInv'
<1> USE DEF QuietInv
<1>1. /\ UNCHANGED <<worker, caller, released, made, count, running_id>>
      /\ object_ids' \subseteq object_ids
  BY DEF function_detaches, erase, history
<1>2. /\ \A p : Leaving(p)' <=> Leaving(p)
      /\ \A p : Gone(p)' <=> Gone(p)
  BY <1>1 DEF Leaving, Gone
<1>3. Shape' /\ MarkShown'
  BY <1>1 DEF Shape, MarkShown, At, InFunction
<1>4. NoReturn' /\ GoneIsQuiet'
  BY <1>1, <1>2 DEF NoReturn, GoneIsQuiet, At, InFunction
<1> QED
  BY <1>3, <1>4

LEMMA FunctionJoins ==
  ASSUME QuietInv, NEW t \in Io, function_joins(t)
  PROVE  QuietInv'
<1> USE DEF QuietInv
<1>1. /\ WorkerShape(worker') /\ worker'.at = "joining" /\ worker'.task = worker.task
  BY GotoFacts DEF function_joins
<1>2. UNCHANGED <<caller, released, made, object_ids, count, running_id>>
  BY DEF function_joins, core, history
<1>3. /\ Shape' /\ NoReturn'
      /\ \A p : Gone(p)' <=> Gone(p)
  BY <1>1, <1>2, SameObjects DEF Shape
<1>4. InFunction
  BY DEF function_joins, InFunction
<1> QED
  BY <1>1, <1>2, <1>3, <1>4 DEF MarkShown, GoneIsQuiet, At

\* Steps that change neither the worker nor any object.
LEMMA Elsewhere ==
  ASSUME QuietInv, count' \in Nat,
         UNCHANGED <<worker, running_id, object_ids, caller, made, released>>
  PROVE  QuietInv'
<1>1. WorkerShape(worker')
  BY DEF QuietInv, Shape, WorkerShape
<1>2. /\ Shape' /\ NoReturn'
      /\ \A o : Leaving(o)' <=> Leaving(o)
      /\ \A o : Gone(o)' <=> Gone(o)
  BY <1>1, SameObjects
<1> QED
  BY <1>2 DEF QuietInv, MarkShown, GoneIsQuiet, At, InFunction

(***************************************************************************)
(* The other threads.                                                      *)
(***************************************************************************)
\* An object that is constructed is one that nobody has seen.
LEMMA Constructs ==
  ASSUME QuietInv, NEW o \in Object, new(o), attach(o),
         UNCHANGED <<worker, caller, released, count, running_id>>
  PROVE  QuietInv'
<1> USE DEF QuietInv
<1>1. /\ o \notin made /\ made' = made \cup {o}
      /\ object_ids' \subseteq object_ids \cup {o}
  BY DEF new, attach
<1>2. /\ \A p : Leaving(p)' <=> Leaving(p)
      /\ \A p : Gone(p)' <=> Gone(p)
  BY DEF Leaving, Gone
<1>3. Shape' /\ MarkShown' /\ GoneIsQuiet'
  BY <1>2 DEF Shape, MarkShown, GoneIsQuiet, At, InFunction
<1>4. ~Leaving(o) /\ ~Gone(o)
  BY <1>1 DEF NoReturn
<1>5. NoReturn'
  BY <1>1, <1>2, <1>4 DEF NoReturn
<1> QED
  BY <1>3, <1>5

LEMMA ThreadDetaches ==
  ASSUME QuietInv, NEW t \in Thread, NEW o \in Object, NEW cleanup \in BOOLEAN,
         detach(t, o, cleanup)
  PROVE  QuietInv'
<1> USE DEF QuietInv
<1>1. /\ UNCHANGED <<worker, released, made, count, running_id>>
      /\ o \in object_ids /\ object_ids' = object_ids \ {o}
      /\ caller' = [caller EXCEPT ![t] = Quiesce(o, cleanup)]
      /\ caller[t].at = "idle"
  BY DEF detach, erase, history, Idle
<1>2. Quiesce(o, cleanup).at = "quiesce" /\ Quiesce(o, cleanup).obj = o
  BY DEF Quiesce
<1>3. Shape'
  BY <1>1, SeatKinds DEF Shape
<1>4. \A p : Leaving(p)' => Leaving(p) \/ p = o
  BY <1>1, <1>2 DEF Leaving, Shape
<1>5. \A p : Gone(p)' => Gone(p)
  BY <1>1, <1>2 DEF Gone, Shape
<1>6. o \in made
  BY <1>1, DispatcherAssumption DEF NoReturn
<1>7. NoReturn'
  BY <1>1, <1>4, <1>5, <1>6 DEF NoReturn
<1>8. MarkShown' /\ GoneIsQuiet'
  BY <1>1, <1>4, <1>5 DEF MarkShown, GoneIsQuiet, At, InFunction
<1> QED
  BY <1>3, <1>7, <1>8

\* The heart of the argument: detach goes on only if the worker shows another
\* object, and then no function of this one is running.
LEMMA DetachQuiesced ==
  ASSUME QuietInv, NEW t \in Thread, detach_quiesced(t)
  PROVE  QuietInv'
<1> USE DEF QuietInv
<1> DEFINE o == caller[t].obj
<1>1. /\ UNCHANGED <<worker, object_ids, made, count, running_id>>
      /\ caller[t].at = "quiesce" /\ running_id # o
      /\ \/ caller' = [caller EXCEPT ![t] = Cleanup(o)] /\ released' = released
         \/ caller' = [caller EXCEPT ![t] = Idle] /\ released' = released \cup {o}
  BY DEF detach_quiesced, core, Quiesced, Return
<1>2. o \in Object /\ Leaving(o)
  BY <1>1, SeatFacts DEF Shape, Leaving
<1>3. /\ Cleanup(o).at = "cleanup" /\ Cleanup(o).obj = o /\ Idle.at = "idle"
  BY DEF Cleanup, Idle
<1>4. Shape'
  BY <1>1, <1>2, SeatKinds DEF Shape
<1>5. \A p : Leaving(p)' => Leaving(p)
  BY <1>1, <1>3 DEF Leaving, Shape
<1>6. \A p : Gone(p)' => Gone(p) \/ p = o
  BY <1>1, <1>3 DEF Gone, Shape
<1>7. NoReturn'
  BY <1>1, <1>2, <1>5, <1>6 DEF NoReturn
<1>8. MarkShown' /\ GoneIsQuiet'
  BY <1>1, <1>6 DEF MarkShown, GoneIsQuiet, At, InFunction
<1> QED
  BY <1>4, <1>7, <1>8

\* What happens to an object that is gone: it stays gone.
LEMMA StaysGone ==
  ASSUME QuietInv, NEW t \in Thread, NEW o \in Object,
         Gone(o),
         caller' \in [Thread -> Seat],
         \A u \in Thread : u # t => caller'[u] = caller[u],
         caller'[t].at \in {"idle", "ended", "join"}
           \/ (caller'[t].at = "notice" /\ caller'[t].obj = o),
         released' \in {released, released \cup {o}},
         count' \in Nat,
         UNCHANGED <<worker, object_ids, made, running_id>>
  PROVE  QuietInv'
<1> USE DEF QuietInv
<1>1. Shape'
  BY DEF Shape
<1>2. \A p : Leaving(p)' => Leaving(p)
  BY DEF Leaving
<1>3. \A p : Gone(p)' => Gone(p)
  BY DEF Gone
<1>4. NoReturn' /\ GoneIsQuiet' /\ MarkShown'
  BY <1>2, <1>3 DEF NoReturn, GoneIsQuiet, MarkShown, At, InFunction
<1> QED
  BY <1>1, <1>4

LEMMA DetachCleanup ==
  ASSUME QuietInv, NEW t \in Thread, detach_cleanup(t)
  PROVE  QuietInv'
<1> DEFINE o == caller[t].obj
<1>0. /\ caller \in [Thread -> Seat] /\ count \in Nat
  BY DEF QuietInv, Shape
<1>1. /\ UNCHANGED <<worker, object_ids, made, running_id>>
      /\ caller[t].at = "cleanup"
      /\ \/ /\ caller' = [caller EXCEPT ![t] = Notice(o, count + 1)]
            /\ released' = released /\ count' = count + 1
         \/ /\ caller' = [caller EXCEPT ![t] = Idle]
            /\ released' = released \cup {o} /\ count' = count
  BY DEF detach_cleanup, enqueue, Return
<1>2. o \in Object /\ Gone(o)
  BY <1>0, <1>1, SeatFacts DEF Gone
<1>3. /\ Notice(o, count + 1).at = "notice" /\ Notice(o, count + 1).obj = o
      /\ Idle.at = "idle"
  BY DEF Notice, Idle
<1>4. caller' \in [Thread -> Seat] /\ count' \in Nat
  BY <1>0, <1>1, <1>2, SeatKinds
<1>5. /\ \A u \in Thread : u # t => caller'[u] = caller[u]
      /\ caller'[t].at \in {"idle", "ended", "join"}
           \/ (caller'[t].at = "notice" /\ caller'[t].obj = o)
  BY <1>0, <1>1, <1>3
<1> HIDE DEF o
<1> QED
  BY <1>1, <1>2, <1>4, <1>5, StaysGone

LEMMA DetachNoticed ==
  ASSUME QuietInv, NEW t \in Thread, detach_noticed(t)
  PROVE  QuietInv'
<1> DEFINE o == caller[t].obj
<1>0. /\ caller \in [Thread -> Seat] /\ count \in Nat
  BY DEF QuietInv, Shape
<1>1. /\ UNCHANGED <<worker, object_ids, made, running_id, count>>
      /\ caller[t].at = "notice"
      /\ caller' = [caller EXCEPT ![t] = Idle]
      /\ released' = released \cup {o}
  BY DEF detach_noticed, Return, core
<1>2. o \in Object /\ Gone(o)
  BY <1>0, <1>1, SeatFacts DEF Gone
<1>3. /\ caller' \in [Thread -> Seat] /\ count' \in Nat
      /\ \A u \in Thread : u # t => caller'[u] = caller[u]
      /\ caller'[t].at = "idle"
  BY <1>0, <1>1, SeatKinds DEF Idle
<1> HIDE DEF o
<1> QED
  BY <1>1, <1>2, <1>3, StaysGone

\* terminate and the end of an io thread change what a thread waits for that
\* is not detaching.
LEMMA OtherCalls ==
  ASSUME QuietInv, NEW t \in Thread, NEW seat \in {Idle, Ended, Join},
         caller[t].at \in {"idle", "join"},
         caller' = [caller EXCEPT ![t] = seat], count' = count,
         UNCHANGED <<worker, object_ids, made, released, running_id>>
  PROVE  QuietInv'
<1> USE DEF QuietInv
<1>1. seat \in Seat /\ seat.at \in {"idle", "ended", "join"}
  BY DEF Seat, Idle, Ended, Join
<1>2. Shape'
  BY <1>1 DEF Shape
<1>3. \A p : Leaving(p)' => Leaving(p)
  BY <1>1 DEF Leaving, Shape
<1>4. \A p : Gone(p)' => Gone(p)
  BY <1>1 DEF Gone, Shape
<1>5. NoReturn' /\ GoneIsQuiet' /\ MarkShown'
  BY <1>3, <1>4 DEF NoReturn, GoneIsQuiet, MarkShown, At, InFunction
<1> QED
  BY <1>2, <1>5

-----------------------------------------------------------------------------
LEMMA QuietInit == DispatcherInit => QuietInv
<1> SUFFICES ASSUME DispatcherInit PROVE QuietInv
  OBVIOUS
<1>1. /\ worker.at = "wait" /\ Shape
      /\ \A t \in Thread : caller[t].at = "idle"
  BY SeatKinds DEF DispatcherInit, Shape, Resting, Idle
<1>2. released = {} /\ object_ids = {Own}
  BY DEF DispatcherInit
<1>3. \A o : ~Leaving(o) /\ ~Gone(o)
  BY <1>1, <1>2 DEF Leaving, Gone
<1> QED
  BY <1>1, <1>2, <1>3
     DEF QuietInv, MarkShown, NoReturn, GoneIsQuiet, At, InFunction

LEMMA QuietStep == QuietInv /\ [DispatcherNext]_dvars => QuietInv'
<1> SUFFICES ASSUME QuietInv, [DispatcherNext]_dvars PROVE QuietInv'
  OBVIOUS
<1>0. count \in Nat
  BY DEF QuietInv, Shape
<1>1. CASE Worker
  BY <1>1, WorkerStep
<1>2. ASSUME NEW o \in Object, function_detaches(o) PROVE QuietInv'
  BY <1>2, FunctionDetaches
<1>3. ASSUME NEW o \in Object, function_constructs(o) PROVE QuietInv'
  BY <1>3, Constructs DEF function_constructs
<1>4. ASSUME NEW o \in Object, NEW when, function_enqueues(o, when) PROVE QuietInv'
  <2>1. /\ count' \in Nat
        /\ UNCHANGED <<worker, running_id, object_ids, caller, made, released>>
    BY <1>0, <1>4 DEF function_enqueues, enqueue, history
  <2> QED
    BY <2>1, Elsewhere
<1>5. ASSUME NEW t \in Io, function_joins(t) PROVE QuietInv'
  BY <1>5, FunctionJoins
<1>6. CASE tick
  <2>1. /\ count' \in Nat
        /\ UNCHANGED <<worker, running_id, object_ids, caller, made, released>>
    BY <1>0, <1>6 DEF tick, core, history
  <2> QED
    BY <2>1, Elsewhere
<1>7. ASSUME NEW t \in Thread, NEW o \in Object, thread_constructs(t, o) PROVE QuietInv'
  BY <1>7, Constructs DEF thread_constructs
<1>8. ASSUME NEW t \in Thread, NEW o \in Object, NEW when, thread_enqueues(t, o, when)
      PROVE  QuietInv'
  <2>1. /\ count' \in Nat
        /\ UNCHANGED <<worker, running_id, object_ids, caller, made, released>>
    BY <1>0, <1>8 DEF thread_enqueues, enqueue, history
  <2> QED
    BY <2>1, Elsewhere
<1>9. ASSUME NEW t \in Thread, NEW o \in Object, NEW cleanup \in BOOLEAN,
             detach(t, o, cleanup)
      PROVE  QuietInv'
  BY <1>9, ThreadDetaches
<1>10. ASSUME NEW t \in Thread, Continue(t) PROVE QuietInv'
  <2>1. CASE detach_quiesced(t)
    BY <2>1, DetachQuiesced
  <2>2. CASE detach_cleanup(t)
    BY <2>2, DetachCleanup
  <2>3. CASE detach_noticed(t)
    BY <2>3, DetachNoticed
  <2>4. CASE terminate_joined(t)
    <3>1. /\ caller[t].at = "join" /\ caller' = [caller EXCEPT ![t] = Ended]
          /\ UNCHANGED <<worker, object_ids, made, released, running_id, count>>
      BY <2>4 DEF terminate_joined, Join, core, history
    <3> QED
      BY <3>1, OtherCalls
  <2>5. CASE io_ends(t)
    <3>1. /\ caller[t].at = "idle" /\ caller' = [caller EXCEPT ![t] = Ended]
          /\ UNCHANGED <<worker, object_ids, made, released, running_id, count>>
      BY <2>5 DEF io_ends, Idle, core, history
    <3> QED
      BY <3>1, OtherCalls
  <2> QED
    BY <1>10, <2>1, <2>2, <2>3, <2>4, <2>5 DEF Continue
<1>11. ASSUME NEW t \in Thread, terminate(t) PROVE QuietInv'
  <2>1. /\ caller[t].at = "idle" /\ caller' = [caller EXCEPT ![t] = Join]
        /\ UNCHANGED <<worker, object_ids, made, released, running_id, count>>
    BY <1>11 DEF terminate, Idle
  <2> QED
    BY <2>1, OtherCalls
<1>12. CASE UNCHANGED dvars
  <2>1. /\ count' \in Nat
        /\ UNCHANGED <<worker, running_id, object_ids, caller, made, released>>
    BY <1>0, <1>12 DEF dvars, core, history
  <2> QED
    BY <2>1, Elsewhere
<1>13. CASE Function
  BY <1>13, <1>2, <1>3, <1>4, <1>5 DEF Function
<1>14. ASSUME NEW t \in Thread, Call(t) PROVE QuietInv'
  BY <1>14, <1>7, <1>8, <1>9 DEF Call
<1> QED
  BY <1>1, <1>6, <1>10, <1>11, <1>12, <1>13, <1>14 DEF DispatcherNext

\* When detach has returned to another thread, no function of the object is
\* running, and none will be, whatever the worker and other threads do: the
\* object may be destroyed (detach and the worker's loop in dispatcher.hpp).
THEOREM DetachIsSafe == DispatcherSpec => []DetachedIsQuiet
<1>1. QuietInv => DetachedIsQuiet
  BY DEF QuietInv, GoneIsQuiet, DetachedIsQuiet, Gone
<1> QED
  BY <1>1, QuietInit, QuietStep, PTL DEF DispatcherSpec
-----------------------------------------------------------------------------
(***************************************************************************)
(* The refinement.  The queue is sorted by the times of its entries and,   *)
(* among equal times, in the order in which they were enqueued.  The       *)
(* object of the entry in the worker's hand may have been detached, but it *)
(* is not one that may still be attached: the entry would be chosen again. *)
(***************************************************************************)
Entry == [id : Nat, obj : Object \cup {Own}, when : 0 .. LastTime]

Before(e, f) ==
  /\ e.when <= f.when
  /\ e.when = f.when /\ e.when # when_internal_detached => e.id < f.id

Sorted(q) ==
  /\ \A i, j \in 1 .. Len(q) : i < j => Before(q[i], q[j])
  /\ \A i, j \in 1 .. Len(q) : i # j => q[i].id # q[j].id

QueueOK ==
  /\ queue \in Seq(Entry)
  /\ Sorted(queue)
  /\ \A e \in Waiting : e.id <= count /\ e.obj \in object_ids

InHand == At("popped") \/ At("marked")

HandOK == InHand => worker.task.obj = Own \/ worker.task.obj \in made

ExecInv ==
  /\ count \in Nat /\ clock \in Nat
  /\ QueueOK
  /\ HandOK
  /\ At("exited") => exit
-----------------------------------------------------------------------------
EntriesOf(q) == {q[i] : i \in 1 .. Len(q)}

\* Removing entries leaves the others in their order.
LEMMA SubqueueFacts ==
  ASSUME NEW q \in Seq(Entry), Sorted(q), NEW K, \A k \in K : k \in 1 .. Len(q)
  PROVE  LET r == SubseqAt(q, K)
         IN  r \in Seq(Entry) /\ Sorted(r) /\ EntriesOf(r) = {q[k] : k \in K}
<1> DEFINE c == Cardinality(K)
           r == SubseqAt(q, K)
<1>1. /\ c \in Nat /\ r \in Seq(Entry) /\ Len(r) = c
      /\ \E f \in [1 .. c -> K] :
           /\ \A i \in 1 .. c : r[i] = q[f[i]]
           /\ \A i, j \in 1 .. c : i < j => f[i] < f[j]
           /\ \A k \in K : \E i \in 1 .. c : f[i] = k
  BY SubseqAtFacts
<1>2. PICK f \in [1 .. c -> K] :
        /\ \A i \in 1 .. c : r[i] = q[f[i]]
        /\ \A i, j \in 1 .. c : i < j => f[i] < f[j]
        /\ \A k \in K : \E i \in 1 .. c : f[i] = k
  BY <1>1
<1> HIDE DEF r, c
<1>3. \A i \in 1 .. c : f[i] \in K /\ f[i] \in 1 .. Len(q) /\ f[i] \in Nat
  BY Z3
<1>4. \A i, j \in 1 .. c : i < j => Before(r[i], r[j])
  BY <1>2, <1>3 DEF Sorted
<1>5. ASSUME NEW i \in 1 .. c, NEW j \in 1 .. c, i # j PROVE r[i].id # r[j].id
  <2>1. f[i] # f[j]
    <3>1. i < j \/ j < i
      BY <1>1, <1>5
    <3>2. f[i] \in Nat /\ f[j] \in Nat
      BY <1>3
    <3> QED
      BY <1>2, <3>1, <3>2
  <2> QED
    BY <1>2, <1>3, <2>1 DEF Sorted
<1>6. Sorted(r)
  BY <1>1, <1>4, <1>5 DEF Sorted
<1>7. EntriesOf(r) = {q[k] : k \in K}
  <2>1. ASSUME NEW k \in K PROVE q[k] \in EntriesOf(r)
    <3>1. PICK i \in 1 .. c : f[i] = k
      BY <1>2
    <3> QED
      BY <1>1, <1>2, <3>1 DEF EntriesOf
  <2>2. ASSUME NEW x \in EntriesOf(r) PROVE x \in {q[k] : k \in K}
    <3>1. PICK i \in 1 .. c : x = r[i]
      BY <1>1 DEF EntriesOf
    <3> QED
      BY <1>2, <1>3, <3>1
  <2> QED
    BY <2>1, <2>2
<1> QED
  BY <1>1, <1>6, <1>7 DEF r

\* upper_bound and push_front keep the queue sorted.
LEMMA InsertedFacts ==
  ASSUME queue \in Seq(Entry), Sorted(queue), NEW e \in Entry,
         \A f \in Waiting : f.id < e.id
  PROVE  LET r == Inserted(e)
         IN  r \in Seq(Entry) /\ Sorted(r) /\ EntriesOf(r) = Waiting \cup {e}
<1> DEFINE later == {i \in 1 .. Len(queue) :
                       e.when = when_internal_detached \/ queue[i].when > e.when}
           sooner == 1 .. Len(queue) \ later
           A == SubseqAt(queue, sooner)
           B == SubseqAt(queue, later)
           a == Len(A)
           b == Len(B)
           r == A \o <<e>> \o B
<1>1. /\ \A k \in sooner : k \in 1 .. Len(queue)
      /\ \A k \in later : k \in 1 .. Len(queue)
  OBVIOUS
<1>2. \A k \in 1 .. Len(queue) :
        /\ queue[k] \in Entry /\ queue[k] \in Waiting
        /\ queue[k].when \in Nat /\ queue[k].id \in Nat
  <2>1. \A k \in 1 .. Len(queue) : queue[k] \in Entry /\ queue[k] \in Waiting
    BY DEF Waiting
  <2> QED
    BY <2>1 DEF Entry
<1>3. e.when \in Nat /\ e.id \in Nat
  BY DEF Entry
<1>4. \A k \in sooner : /\ queue[k].when <= e.when /\ e.when # when_internal_detached
                        /\ queue[k].id < e.id
  BY <1>2, <1>3
<1>5. \A k \in later : /\ queue[k].when > e.when \/ e.when = when_internal_detached
                       /\ queue[k].id < e.id
  BY <1>2
<1>6. \A k \in sooner, l \in later : k # l
  OBVIOUS
<1>7. \A k \in 1 .. Len(queue) : k \in sooner \/ k \in later
  OBVIOUS
<1> HIDE DEF sooner, later
<1>8. A \in Seq(Entry) /\ Sorted(A) /\ EntriesOf(A) = {queue[k] : k \in sooner}
  BY <1>1, SubqueueFacts
<1>9. B \in Seq(Entry) /\ Sorted(B) /\ EntriesOf(B) = {queue[k] : k \in later}
  BY <1>1, SubqueueFacts
<1>10. \A i \in 1 .. a : \E k \in sooner : A[i] = queue[k]
  BY <1>8 DEF EntriesOf
<1>11. \A i \in 1 .. b : \E k \in later : B[i] = queue[k]
  BY <1>9 DEF EntriesOf
<1> HIDE DEF A, B
<1>12. a \in Nat /\ b \in Nat
  BY <1>8, <1>9
<1>13. /\ r \in Seq(Entry) /\ Len(r) = a + 1 + b
       /\ \A i \in 1 .. a : r[i] = A[i]
       /\ r[a + 1] = e
       /\ \A i \in 1 .. b : r[a + 1 + i] = B[i]
  BY <1>8, <1>9
<1> HIDE DEF r
<1>14. \A i \in 1 .. Len(r) :
         \/ i \in 1 .. a
         \/ i = a + 1
         \/ i - (a + 1) \in 1 .. b /\ i = a + 1 + (i - (a + 1))
  BY <1>12, <1>13
<1>15. /\ \A i \in 1 .. a : i \in 1 .. Len(r)
       /\ a + 1 \in 1 .. Len(r)
       /\ \A i \in 1 .. b : a + 1 + i \in 1 .. Len(r)
  BY <1>12, <1>13
<1> HIDE DEF a, b
<1>16. \A i \in 1 .. a : /\ A[i].when <= e.when /\ e.when # when_internal_detached
                         /\ A[i].id < e.id
                         /\ A[i].when \in Nat /\ A[i].id \in Nat
  BY <1>1, <1>2, <1>4, <1>10
<1>17. \A i \in 1 .. b : /\ B[i].when > e.when \/ e.when = when_internal_detached
                         /\ B[i].id < e.id
                         /\ B[i].when \in Nat /\ B[i].id \in Nat
  BY <1>1, <1>2, <1>5, <1>11
<1>18. \A i \in 1 .. a, j \in 1 .. b : A[i].id # B[j].id
  <2> SUFFICES ASSUME NEW i \in 1 .. a, NEW j \in 1 .. b PROVE A[i].id # B[j].id
    OBVIOUS
  <2>1. PICK k \in sooner : A[i] = queue[k]
    BY <1>10
  <2>2. PICK l \in later : B[j] = queue[l]
    BY <1>11
  <2>3. k \in 1 .. Len(queue) /\ l \in 1 .. Len(queue) /\ k # l
    BY <1>1, <1>6
  <2> QED
    BY <2>1, <2>2, <2>3 DEF Sorted
<1>19. ASSUME NEW i \in 1 .. Len(r), NEW j \in 1 .. Len(r), i < j
       PROVE  Before(r[i], r[j]) /\ r[i].id # r[j].id
  <2>1. CASE i \in 1 .. a /\ j \in 1 .. a
    <3>1. Before(A[i], A[j]) /\ A[i].id # A[j].id
      BY <1>8, <1>19, <2>1 DEF Sorted, a
    <3> QED
      BY <1>13, <2>1, <3>1
  <2>2. CASE i \in 1 .. a /\ j = a + 1
    <3>1. Before(A[i], e) /\ A[i].id # e.id
      BY <1>3, <1>16, <2>2 DEF Before
    <3> QED
      BY <1>13, <2>2, <3>1
  <2>3. CASE i \in 1 .. a /\ j - (a + 1) \in 1 .. b
    <3> DEFINE m == j - (a + 1)
    <3>1. r[j] = B[m] /\ r[i] = A[i]
      BY <1>12, <1>13, <1>14, <2>3
    <3>2. m \in 1 .. b
      BY <2>3
    <3> HIDE DEF m
    <3>3. Before(A[i], B[m]) /\ A[i].id # B[m].id
      BY <1>3, <1>16, <1>17, <1>18, <2>3, <3>2 DEF Before
    <3> QED
      BY <3>1, <3>3
  <2>4. CASE i = a + 1 /\ j - (a + 1) \in 1 .. b
    <3> DEFINE m == j - (a + 1)
    <3>1. r[j] = B[m] /\ r[i] = e
      BY <1>12, <1>13, <1>14, <2>4
    <3>2. m \in 1 .. b
      BY <2>4
    <3> HIDE DEF m
    <3>3. Before(e, B[m]) /\ e.id # B[m].id
      BY <1>3, <1>17, <3>2 DEF Before, when_internal_detached
    <3> QED
      BY <3>1, <3>3
  <2>5. CASE i - (a + 1) \in 1 .. b /\ j - (a + 1) \in 1 .. b
    <3> DEFINE l == i - (a + 1)
               m == j - (a + 1)
    <3>1. r[j] = B[m] /\ r[i] = B[l]
      BY <1>12, <1>13, <1>14, <2>5
    <3>2. m \in 1 .. b /\ l \in 1 .. b /\ l < m
      BY <1>12, <1>19, <2>5
    <3> HIDE DEF l, m
    <3>3. Before(B[l], B[m]) /\ B[l].id # B[m].id
      BY <1>9, <3>2 DEF Sorted, b
    <3> QED
      BY <3>1, <3>3
  <2>6. \/ i \in 1 .. a /\ j \in 1 .. a
        \/ i \in 1 .. a /\ j = a + 1
        \/ i \in 1 .. a /\ j - (a + 1) \in 1 .. b
        \/ i = a + 1 /\ j - (a + 1) \in 1 .. b
        \/ i - (a + 1) \in 1 .. b /\ j - (a + 1) \in 1 .. b
    BY <1>12, <1>14, <1>19
  <2> QED
    BY <2>1, <2>2, <2>3, <2>4, <2>5, <2>6
<1>20. Sorted(r)
  <2>1. ASSUME NEW i \in 1 .. Len(r), NEW j \in 1 .. Len(r), i # j PROVE r[i].id # r[j].id
    <3>1. i < j \/ j < i
      BY <2>1
    <3> QED
      BY <1>19, <3>1
  <2> QED
    BY <1>19, <2>1 DEF Sorted
<1>21. EntriesOf(r) = Waiting \cup {e}
  <2>1. ASSUME NEW x \in EntriesOf(r) PROVE x \in Waiting \cup {e}
    <3>1. PICK i \in 1 .. Len(r) : x = r[i]
      BY DEF EntriesOf
    <3>2. CASE i \in 1 .. a
      BY <1>1, <1>2, <1>10, <1>13, <3>1, <3>2
    <3>3. CASE i = a + 1
      BY <1>13, <3>1, <3>3
    <3>4. CASE i - (a + 1) \in 1 .. b /\ i = a + 1 + (i - (a + 1))
      <4>1. x = B[i - (a + 1)]
        BY <1>13, <3>1, <3>4
      <4> QED
        BY <1>1, <1>2, <1>11, <3>4, <4>1
    <3> QED
      BY <1>14, <3>2, <3>3, <3>4
  <2>2. e \in EntriesOf(r)
    BY <1>13, <1>15 DEF EntriesOf
  <2>3. ASSUME NEW k \in 1 .. Len(queue) PROVE queue[k] \in EntriesOf(r)
    <3>1. CASE k \in sooner
      <4>1. PICK i \in 1 .. a : A[i] = queue[k]
        BY <1>8, <3>1 DEF EntriesOf, a
      <4> QED
        BY <1>13, <1>15, <4>1 DEF EntriesOf
    <3>2. CASE k \in later
      <4>1. PICK i \in 1 .. b : B[i] = queue[k]
        BY <1>9, <3>2 DEF EntriesOf, b
      <4> QED
        BY <1>13, <1>15, <4>1 DEF EntriesOf
    <3> QED
      BY <1>7, <3>1, <3>2
  <2> QED
    BY <2>1, <2>2, <2>3 DEF Waiting
<1> QED
  BY <1>13, <1>20, <1>21 DEF Inserted, r, A, B, sooner, later

\* The first entry, which the worker takes.
LEMMA PoppedFacts ==
  ASSUME queue \in Seq(Entry), Sorted(queue), queue # <<>>
  PROVE  LET r == Tail(queue)
             h == Head(queue)
         IN  /\ r \in Seq(Entry) /\ Sorted(r) /\ h \in Entry
             /\ Waiting = EntriesOf(r) \cup {h}
             /\ \A f \in EntriesOf(r) : f.id # h.id /\ Before(h, f) /\ f \in Entry
<1> DEFINE r == Tail(queue)
           h == Head(queue)
<1>1. /\ r \in Seq(Entry) /\ h \in Entry /\ h = queue[1]
      /\ Len(queue) \in Nat /\ Len(queue) > 0 /\ Len(r) = Len(queue) - 1
      /\ \A i \in 1 .. Len(r) : r[i] = queue[i + 1]
  OBVIOUS
<1> HIDE DEF r, h
<1>2. /\ 1 \in 1 .. Len(queue)
      /\ \A i \in 1 .. Len(r) : i + 1 \in 1 .. Len(queue) /\ 1 < i + 1 /\ i \in Nat
      /\ \A i \in 1 .. Len(queue) : i = 1 \/ (i - 1 \in 1 .. Len(r) /\ (i - 1) + 1 = i)
  BY <1>1
<1>3. Sorted(r)
  <2>1. ASSUME NEW i \in 1 .. Len(r), NEW j \in 1 .. Len(r), i < j PROVE Before(r[i], r[j])
    <3>1. i + 1 < j + 1
      BY <1>2, <2>1
    <3> QED
      BY <1>1, <1>2, <3>1 DEF Sorted
  <2>2. ASSUME NEW i \in 1 .. Len(r), NEW j \in 1 .. Len(r), i # j PROVE r[i].id # r[j].id
    <3>1. i + 1 # j + 1
      BY <1>2, <2>2
    <3> QED
      BY <1>1, <1>2, <3>1 DEF Sorted
  <2> QED
    BY <2>1, <2>2 DEF Sorted
<1>4. \A f \in EntriesOf(r) : \E i \in 1 .. Len(r) : f = queue[i + 1] /\ f = r[i]
  BY <1>1 DEF EntriesOf
<1>5. Waiting = EntriesOf(r) \cup {h}
  <2>1. ASSUME NEW i \in 1 .. Len(queue) PROVE queue[i] \in EntriesOf(r) \cup {h}
    <3>1. CASE i = 1
      BY <1>1, <3>1
    <3>2. CASE i # 1
      <4>1. i - 1 \in 1 .. Len(r) /\ r[i - 1] = queue[i]
        BY <1>1, <1>2, <3>2
      <4> QED
        BY <4>1 DEF EntriesOf
    <3> QED
      BY <3>1, <3>2
  <2>2. ASSUME NEW f \in EntriesOf(r) PROVE f \in Waiting
    BY <1>2, <1>4 DEF Waiting
  <2>3. h \in Waiting
    BY <1>1, <1>2 DEF Waiting
  <2> QED
    BY <2>1, <2>2, <2>3 DEF Waiting
<1>6. ASSUME NEW f \in EntriesOf(r) PROVE f.id # h.id /\ Before(h, f) /\ f \in Entry
  <2>1. PICK i \in 1 .. Len(r) : f = queue[i + 1] /\ f = r[i]
    BY <1>4
  <2>2. i + 1 \in 1 .. Len(queue) /\ 1 < i + 1 /\ 1 # i + 1
    BY <1>2
  <2> QED
    BY <1>1, <1>2, <2>1, <2>2 DEF Sorted
<1> QED
  BY <1>1, <1>3, <1>5, <1>6 DEF r, h

(***************************************************************************)
(* The invariant.  The worker's steps first.                               *)
(***************************************************************************)
LEMMA PopKeeps ==
  ASSUME ExecInv, QuietInv, pop
  PROVE  /\ ExecInv'
         /\ worker'.at = "popped" /\ worker'.task \in Waiting
         /\ worker'.task.when <= clock /\ worker'.task.obj \in object_ids
         /\ Waiting' = Waiting \ {worker'.task}
         /\ \A f \in Waiting' : Before(worker'.task, f)
<1>1. /\ worker.at = "wait" /\ queue # <<>> /\ Head(queue).when <= clock
      /\ queue' = Tail(queue)
      /\ UNCHANGED <<object_ids, exit, clock, count, made>>
  BY DEF pop, At, history
<1>2. worker'.at = "popped" /\ worker'.task = Head(queue)
  BY DEF pop, QuietInv, Shape
<1>3. queue \in Seq(Entry) /\ Sorted(queue) /\ count \in Nat /\ clock \in Nat
  BY DEF ExecInv, QueueOK
<1>4. /\ queue' \in Seq(Entry) /\ Sorted(queue')
      /\ Waiting = Waiting' \cup {Head(queue)}
      /\ \A f \in Waiting' : f.id # Head(queue).id /\ Before(Head(queue), f)
  BY <1>1, <1>3, PoppedFacts DEF EntriesOf, Waiting
<1>5. QueueOK'
  BY <1>1, <1>4 DEF ExecInv, QueueOK
<1>6. /\ Head(queue).obj \in object_ids
      /\ Head(queue).obj = Own \/ Head(queue).obj \in made
  BY <1>4 DEF ExecInv, QueueOK, QuietInv, NoReturn
<1>7. HandOK'
  BY <1>1, <1>2, <1>6 DEF HandOK
<1> QED
  BY <1>1, <1>2, <1>3, <1>4, <1>5, <1>6, <1>7 DEF ExecInv, At

\* Steps that leave the queue alone.
LEMMA SameQueue ==
  ASSUME ExecInv, UNCHANGED <<queue, count>>, object_ids \subseteq object_ids',
         clock' \in Nat, made \subseteq made',
         InHand' => InHand /\ worker'.task = worker.task,
         At("exited")' => exit'
  PROVE  ExecInv' /\ Waiting' = Waiting
<1>1. Waiting' = Waiting
  BY DEF Waiting
<1>2. QueueOK'
  BY <1>1 DEF ExecInv, QueueOK
<1>3. HandOK'
  BY DEF ExecInv, HandOK
<1> QED
  BY <1>1, <1>2, <1>3 DEF ExecInv

LEMMA EnqueueKeeps ==
  ASSUME ExecInv, NEW o \in Object \cup {Own}, NEW when \in 0 .. LastTime, enqueue(o, when),
         UNCHANGED <<object_ids, exit, worker, clock, made>>
  PROVE  /\ ExecInv'
         /\ Waiting' = Waiting \cup {[id |-> count + 1, obj |-> o, when |-> when]}
         /\ ~At("exited") /\ o \in object_ids /\ count' = count + 1
<1> DEFINE e == [id |-> count + 1, obj |-> o, when |-> when]
<1>1. /\ o \in object_ids /\ ~exit /\ count' = count + 1 /\ queue' = Inserted(e)
  BY DEF enqueue
<1>2. count \in Nat /\ clock \in Nat /\ queue \in Seq(Entry) /\ Sorted(queue)
  BY DEF ExecInv, QueueOK
<1>3. e \in Entry /\ e.id = count + 1 /\ e.obj = o /\ e.when = when
  BY <1>2 DEF Entry
<1>4. \A f \in Waiting : f \in Entry /\ f.id \in Nat /\ f.id < e.id /\ f.id <= count
  <2>1. \A f \in Waiting : f \in Entry
    BY <1>2 DEF Waiting
  <2> QED
    BY <1>2, <1>3, <2>1 DEF Entry, ExecInv, QueueOK
<1> HIDE DEF e
<1>5. queue' \in Seq(Entry) /\ Sorted(queue') /\ Waiting' = Waiting \cup {e}
  BY <1>1, <1>2, <1>3, <1>4, InsertedFacts DEF EntriesOf, Waiting
<1>6. QueueOK'
  <2>1. ASSUME NEW f \in Waiting' PROVE f.id <= count' /\ f.obj \in object_ids'
    <3>1. CASE f = e
      BY <1>1, <1>2, <1>3, <3>1
    <3>2. CASE f \in Waiting
      BY <1>1, <1>2, <1>4, <3>2 DEF ExecInv, QueueOK
    <3> QED
      BY <1>5, <3>1, <3>2
  <2> QED
    BY <1>5, <2>1 DEF QueueOK
<1>7. HandOK'
  BY DEF ExecInv, HandOK, InHand, At
<1>8. ~At("exited") /\ ~At("exited")'
  BY <1>1 DEF ExecInv, At
<1> QED
  BY <1>1, <1>2, <1>5, <1>6, <1>7, <1>8 DEF ExecInv, e

LEMMA EraseKeeps ==
  ASSUME ExecInv, NEW o \in Object, erase(o),
         UNCHANGED <<exit, worker, clock, count, made>>
  PROVE  /\ ExecInv' /\ Waiting' = {e \in Waiting : e.obj # o}
         /\ o \in object_ids /\ object_ids' = object_ids \ {o}
<1> DEFINE K == {i \in 1 .. Len(queue) : queue[i].obj # o}
<1>1. o \in object_ids /\ object_ids' = object_ids \ {o} /\ queue' = SubseqAt(queue, K)
  BY DEF erase
<1>2. count \in Nat /\ clock \in Nat /\ queue \in Seq(Entry) /\ Sorted(queue)
  BY DEF ExecInv, QueueOK
<1>3. \A k \in K : k \in 1 .. Len(queue)
  OBVIOUS
<1>4. {queue[k] : k \in K} = {e \in Waiting : e.obj # o}
  BY DEF Waiting
<1> HIDE DEF K
<1>5. queue' \in Seq(Entry) /\ Sorted(queue') /\ EntriesOf(queue') = {queue[k] : k \in K}
  BY <1>1, <1>2, <1>3, SubqueueFacts
<1>6. Waiting' = {e \in Waiting : e.obj # o}
  BY <1>4, <1>5 DEF Waiting, EntriesOf
<1>7. QueueOK'
  BY <1>1, <1>5, <1>6 DEF ExecInv, QueueOK
<1>8. HandOK'
  BY <1>6 DEF ExecInv, HandOK, InHand, At
<1>9. At("exited")' => exit'
  BY DEF ExecInv, At
<1> QED
  BY <1>1, <1>2, <1>6, <1>7, <1>8, <1>9 DEF ExecInv

(***************************************************************************)
(* Every step is a step of the executor, or none.                          *)
(***************************************************************************)
ExecStep == [Executor!ExecutorNext]_(Executor!xvars)

LEMMA NoExecutorStep ==
  ASSUME Pending' = Pending, Chosen' = Chosen, Current' = Current,
         At("exited")' <=> At("exited"),
         UNCHANGED <<object_ids, released, count, clock>>
  PROVE  ExecStep
<1>1. At("exited")' = At("exited")
  BY DEF At
<1> QED
  BY <1>1 DEF ExecStep, Executor!xvars

\* What is pending, chosen and running, where the worker is.
LEMMA WhereFacts ==
  /\ worker.at \in {"wait", "returned"}
       => Pending = Waiting /\ Chosen = None /\ Current = None
  /\ InHand => /\ Pending = Waiting /\ Current = None
               /\ worker.task.obj \in object_ids => Chosen = worker.task
               /\ worker.task.obj \notin object_ids => Chosen = None
  /\ InFunction => Pending = Waiting /\ Chosen = None /\ Current = worker.task
  /\ At("exited") => Pending = {} /\ Chosen = None /\ Current = None
  BY DEF Pending, Chosen, Current, InHand, InFunction, At

LEMMA WhereFactsPrime ==
  /\ worker'.at \in {"wait", "returned"}
       => Pending' = Waiting' /\ Chosen' = None /\ Current' = None
  /\ InHand' => /\ Pending' = Waiting' /\ Current' = None
                /\ worker'.task.obj \in object_ids' => Chosen' = worker'.task
                /\ worker'.task.obj \notin object_ids' => Chosen' = None
  /\ InFunction' => Pending' = Waiting' /\ Chosen' = None /\ Current' = worker'.task
  /\ At("exited")' => Pending' = {} /\ Chosen' = None /\ Current' = None
  BY DEF Pending, Chosen, Current, InHand, InFunction, At

LEMMA WorkerImplements ==
  ASSUME ExecInv, QuietInv, Worker
  PROVE  ExecInv' /\ ExecStep
<1>0. Shape /\ clock \in Nat /\ object_ids \subseteq object_ids /\ made \subseteq made
  BY DEF QuietInv, ExecInv
<1>1. CASE pop
  <2> DEFINE e == worker'.task
  <2>1. /\ ExecInv' /\ worker'.at = "popped" /\ e \in Waiting
        /\ e.when <= clock /\ e.obj \in object_ids
        /\ Waiting' = Waiting \ {e} /\ \A f \in Waiting' : Before(e, f)
    BY <1>1, PopKeeps
  <2>2. worker.at = "wait" /\ UNCHANGED <<object_ids, released, count, clock>>
    BY <1>1 DEF pop, At, history
  <2>3. Pending = Waiting /\ Chosen = None /\ Current = None /\ At("exited") = FALSE
    BY <2>2, WhereFacts DEF At
  <2>4. /\ Pending' = Waiting' /\ Chosen' = e /\ Current' = None
        /\ At("exited")' = FALSE
    BY <2>1, <2>2, WhereFactsPrime DEF At, InHand
  <2>5. \A f \in Pending \ {e} : /\ e.when <= f.when
                                 /\ e.when = f.when => e.when = 0 \/ e.id < f.id
    BY <2>1, <2>3 DEF Before, when_internal_detached
  <2> HIDE DEF e
  <2>6. Executor!Choose(e)
    BY <2>1, <2>2, <2>3, <2>4, <2>5 DEF Executor!Choose, Executor!InOrder
  <2> QED
    BY <2>1, <2>3, <2>6 DEF ExecStep, Executor!ExecutorNext
<1>2. CASE break
  <2>1. /\ worker.at = "wait" /\ worker'.at = "exited" /\ exit /\ exit' = exit
        /\ UNCHANGED <<queue, object_ids, released, count, clock, made>>
    BY <1>0, <1>2, GotoFacts DEF break, At, core, history
  <2>2. ExecInv'
    BY <1>0, <2>1, SameQueue DEF InHand, At
  <2>3. /\ Chosen = None /\ Current = None
        /\ Pending' = {} /\ Chosen' = None /\ Current' = None /\ At("exited")' = TRUE
    BY <2>1, WhereFacts, WhereFactsPrime DEF At
  <2>4. Executor!Halt
    BY <2>1, <2>3 DEF Executor!Halt
  <2> QED
    BY <2>2, <2>4 DEF ExecStep, Executor!ExecutorNext
<1>3. CASE set_running_id
  <2>1. /\ worker.at = "popped" /\ worker'.at = "marked" /\ worker'.task = worker.task
        /\ UNCHANGED <<queue, object_ids, exit, released, count, clock, made>>
    BY <1>0, <1>3, GotoFacts DEF set_running_id, At, history
  <2>2. ExecInv' /\ Waiting' = Waiting
    BY <1>0, <2>1, SameQueue DEF InHand, At
  <2>3. Pending' = Pending /\ Chosen' = Chosen /\ Current' = Current
    BY <2>1, <2>2, WhereFacts, WhereFactsPrime DEF InHand, At
  <2>4. ExecStep
    BY <2>1, <2>3, NoExecutorStep DEF At
  <2> QED
    BY <2>2, <2>4
<1>4. CASE call_function
  <2>1. /\ worker.at = "marked" /\ worker'.task = worker.task
        /\ worker'.at = IF worker.task.obj \in object_ids THEN "running" ELSE "returned"
        /\ UNCHANGED <<queue, object_ids, exit, released, count, clock, made>>
    BY <1>0, <1>4, GotoFacts DEF call_function, At, Attached, core, history
  <2>2. ExecInv' /\ Waiting' = Waiting
    BY <1>0, <2>1, SameQueue DEF InHand, At
  <2>3. CASE worker.task.obj \notin object_ids
    <3>1. Pending' = Pending /\ Chosen' = Chosen /\ Current' = Current
      BY <2>1, <2>2, <2>3, WhereFacts, WhereFactsPrime DEF InHand, At
    <3>2. ExecStep
      BY <2>1, <2>3, <3>1, NoExecutorStep DEF At
    <3> QED
      BY <2>2, <3>2
  <2>4. CASE worker.task.obj \in object_ids
    <3> DEFINE e == worker.task
    <3>1. /\ Pending = Waiting /\ Chosen = e /\ Current = None
          /\ Pending' = Waiting /\ Chosen' = None /\ Current' = e
      BY <2>1, <2>2, <2>4, WhereFacts, WhereFactsPrime DEF InHand, InFunction, At
    <3>2. At("exited")' = At("exited")
      BY <2>1, <2>4 DEF At
    <3>3. CASE e = None
      BY <2>1, <2>2, <3>1, <3>2, <3>3, NoExecutorStep
    <3>4. CASE e # None
      <4>1. Executor!Start
        BY <2>1, <3>1, <3>2, <3>4 DEF Executor!Start
      <4> QED
        BY <2>2, <4>1 DEF ExecStep, Executor!ExecutorNext
    <3> QED
      BY <3>3, <3>4
  <2> QED
    BY <2>3, <2>4
<1>5. CASE function_returns
  <2>1. /\ worker.at = "running" /\ worker'.at = "returned"
        /\ UNCHANGED <<queue, object_ids, exit, released, count, clock, made>>
    BY <1>0, <1>5, GotoFacts DEF function_returns, At, core, history
  <2>2. ExecInv' /\ Waiting' = Waiting
    BY <1>0, <2>1, SameQueue DEF InHand, At
  <2>3. Pending' = Pending /\ Chosen' = Chosen /\ Current' = None /\ At("exited")' = At("exited")
    BY <2>1, <2>2, WhereFacts, WhereFactsPrime DEF InFunction, At
  <2>4. CASE Current = None
    BY <2>1, <2>2, <2>3, <2>4, NoExecutorStep
  <2>5. CASE Current # None
    <3>1. Executor!Finish
      BY <2>1, <2>3, <2>5 DEF Executor!Finish
    <3> QED
      BY <2>2, <3>1 DEF ExecStep, Executor!ExecutorNext
  <2> QED
    BY <2>4, <2>5
<1>6. CASE unset_running_id
  <2>1. /\ worker.at = "returned" /\ worker'.at = "wait"
        /\ UNCHANGED <<queue, object_ids, exit, released, count, clock, made>>
    BY <1>6 DEF unset_running_id, Resting, At, history
  <2>2. ExecInv' /\ Waiting' = Waiting
    BY <1>0, <2>1, SameQueue DEF InHand, At
  <2>3. Pending' = Pending /\ Chosen' = Chosen /\ Current' = Current
    BY <2>1, <2>2, WhereFacts, WhereFactsPrime
  <2>4. ExecStep
    BY <2>1, <2>3, NoExecutorStep DEF At
  <2> QED
    BY <2>2, <2>4
<1>7. CASE function_joined
  <2>1. /\ worker.at = "joining" /\ worker'.at = "running" /\ worker'.task = worker.task
        /\ UNCHANGED <<queue, object_ids, exit, released, count, clock, made>>
    BY <1>0, <1>7, GotoFacts DEF function_joined, At, core, history
  <2>2. ExecInv' /\ Waiting' = Waiting
    BY <1>0, <2>1, SameQueue DEF InHand, At
  <2>3. Pending' = Pending /\ Chosen' = Chosen /\ Current' = Current
    BY <2>1, <2>2, WhereFacts, WhereFactsPrime DEF InFunction, At
  <2>4. ExecStep
    BY <2>1, <2>3, NoExecutorStep DEF At
  <2> QED
    BY <2>2, <2>4
<1> QED
  BY <1>1, <1>2, <1>3, <1>4, <1>5, <1>6, <1>7 DEF Worker

\* An entry is submitted.
LEMMA EnqueueImplements ==
  ASSUME ExecInv, NEW o \in Object \cup {Own}, NEW when \in 0 .. LastTime, enqueue(o, when),
         when = 0 => o = Own,
         UNCHANGED <<object_ids, exit, worker, clock, made, released>>
  PROVE  ExecInv' /\ ExecStep
<1> DEFINE e == [id |-> count + 1, obj |-> o, when |-> when]
<1>1. /\ ExecInv' /\ Waiting' = Waiting \cup {e}
      /\ ~At("exited") /\ o \in object_ids /\ count' = count + 1
  BY EnqueueKeeps
<1> HIDE DEF e
<1>2. Chosen' = Chosen /\ Current' = Current /\ At("exited")' = At("exited")
  BY DEF Chosen, Current, InFunction, At
<1>3. Pending' = Pending \cup {e}
  BY <1>1, <1>2 DEF Pending
<1>4. Executor!Submit(o, when)
  BY <1>1, <1>2, <1>3 DEF Executor!Submit, e
<1> QED
  BY <1>1, <1>4 DEF ExecStep, Executor!ExecutorNext

\* An object is attached, unless exit_ is set.
LEMMA ConstructImplements ==
  ASSUME ExecInv, QuietInv, NEW o \in Object, new(o), attach(o),
         UNCHANGED <<queue, exit, worker, released, count, clock>>
  PROVE  ExecInv' /\ ExecStep
<1>1. /\ o \notin made /\ made \subseteq made' /\ clock \in Nat
      /\ object_ids' = IF exit THEN object_ids ELSE object_ids \cup {o}
  BY DEF new, attach, ExecInv
<1>2. o \notin object_ids \cup released
  BY <1>1, DispatcherAssumption DEF QuietInv, NoReturn, Gone
<1>3. ExecInv' /\ Waiting' = Waiting
  BY <1>1, SameQueue DEF InHand, At, ExecInv
<1>4. Pending' = Pending /\ Current' = Current /\ At("exited")' = At("exited")
  BY <1>3 DEF Pending, Current, InFunction, At
<1>5. InHand => worker.task.obj # o
  BY <1>1, DispatcherAssumption DEF ExecInv, HandOK
<1>6. Chosen' = Chosen
  BY <1>1, <1>5 DEF Chosen, At, InHand
<1>7. CASE exit
  BY <1>1, <1>3, <1>4, <1>6, <1>7, NoExecutorStep
<1>8. CASE ~exit
  <2>1. Executor!Attach(o)
    BY <1>1, <1>2, <1>4, <1>6, <1>8 DEF Executor!Attach
  <2> QED
    BY <1>3, <2>1 DEF ExecStep, Executor!ExecutorNext
<1> QED
  BY <1>7, <1>8

\* An object is detached.
LEMMA EraseImplements ==
  ASSUME ExecInv, NEW o \in Object, erase(o),
         UNCHANGED <<exit, worker, clock, count, made, released>>
  PROVE  ExecInv' /\ ExecStep
<1>1. /\ ExecInv' /\ Waiting' = {e \in Waiting : e.obj # o}
      /\ o \in object_ids /\ object_ids' = object_ids \ {o}
  BY EraseKeeps
<1>2. Current' = Current /\ At("exited")' = At("exited")
  BY DEF Current, InFunction, At
<1>3. Chosen' = IF Chosen # None /\ Chosen.obj = o THEN None ELSE Chosen
  BY <1>1 DEF Chosen, At
<1>4. Pending' = {e \in Pending : e.obj # o}
  BY <1>1, <1>2 DEF Pending
<1>5. Executor!Detach(o)
  BY <1>1, <1>2, <1>3, <1>4, DispatcherAssumption DEF Executor!Detach
<1> QED
  BY <1>1, <1>5 DEF ExecStep, Executor!ExecutorNext

\* The worker, the queue and the objects stay as they are: detach may return.
LEMMA ReturnImplements ==
  ASSUME ExecInv, QuietInv, QuietInv', NEW o \in Object, released' \in {released, released \cup {o}},
         UNCHANGED <<queue, object_ids, worker, count, clock, made>>, exit => exit'
  PROVE  ExecInv' /\ ExecStep
<1>1. clock \in Nat /\ made \subseteq made
  BY DEF ExecInv
<1>2. ExecInv' /\ Waiting' = Waiting
  BY <1>1, SameQueue DEF InHand, At, ExecInv
<1>3. Pending' = Pending /\ Chosen' = Chosen /\ Current' = Current /\ At("exited")' = At("exited")
  BY <1>2 DEF Pending, Chosen, Current, InFunction, At
<1>4. CASE released' = released
  BY <1>2, <1>3, <1>4, NoExecutorStep
<1>5. CASE released' = released \cup {o}
  <2>1. o \notin object_ids'
    BY <1>5 DEF QuietInv, NoReturn, Gone
  <2>2. InFunction' => worker'.task.obj # o
    BY <1>5 DEF QuietInv, GoneIsQuiet, Gone
  <2>3. Current # None => Current.obj # o
    BY <2>2 DEF Current, InFunction, At
  <2>4. Executor!Release(o)
    BY <1>3, <1>5, <2>1, <2>3 DEF Executor!Release
  <2> QED
    BY <1>2, <2>4 DEF ExecStep, Executor!ExecutorNext
<1> QED
  BY <1>4, <1>5

\* Nothing changes but what threads wait for, or exit_.
LEMMA IdleImplements ==
  ASSUME ExecInv, exit => exit',
         UNCHANGED <<queue, object_ids, worker, count, clock, made, released>>
  PROVE  ExecInv' /\ ExecStep
<1>1. clock \in Nat /\ made \subseteq made
  BY DEF ExecInv
<1>2. ExecInv' /\ Waiting' = Waiting
  BY <1>1, SameQueue DEF InHand, At, ExecInv
<1>3. Pending' = Pending /\ Chosen' = Chosen /\ Current' = Current /\ At("exited")' = At("exited")
  BY <1>2 DEF Pending, Chosen, Current, InFunction, At
<1> QED
  BY <1>2, <1>3, NoExecutorStep

LEMMA FunctionImplements ==
  ASSUME ExecInv, QuietInv, Function
  PROVE  ExecInv' /\ ExecStep
<1>0. Shape /\ clock \in Nat /\ object_ids \subseteq object_ids /\ made \subseteq made
  BY DEF QuietInv, ExecInv
<1>1. ASSUME NEW o \in Object, function_detaches(o) PROVE ExecInv' /\ ExecStep
  BY <1>1, EraseImplements DEF function_detaches, history
<1>2. ASSUME NEW o \in Object, NEW when \in when_immediately .. LastTime,
             function_enqueues(o, when)
      PROVE  ExecInv' /\ ExecStep
  <2>1. when \in 0 .. LastTime /\ when # 0
    BY DispatcherAssumption DEF when_immediately
  <2> QED
    BY <1>2, <2>1, EnqueueImplements DEF function_enqueues, history
<1>3. ASSUME NEW o \in Object, function_constructs(o) PROVE ExecInv' /\ ExecStep
  BY <1>3, ConstructImplements DEF function_constructs
<1>4. ASSUME NEW t \in Io, function_joins(t) PROVE ExecInv' /\ ExecStep
  <2>1. /\ worker.at = "running" /\ worker'.at = "joining" /\ worker'.task = worker.task
        /\ UNCHANGED <<queue, object_ids, exit, released, count, clock, made>>
    BY <1>0, <1>4, GotoFacts DEF function_joins, At, core, history
  <2>2. ExecInv' /\ Waiting' = Waiting
    BY <1>0, <2>1, SameQueue DEF InHand, At
  <2>3. Pending' = Pending /\ Chosen' = Chosen /\ Current' = Current
    BY <2>1, <2>2, WhereFacts, WhereFactsPrime DEF InFunction, At
  <2>4. ExecStep
    BY <2>1, <2>3, NoExecutorStep DEF At
  <2> QED
    BY <2>2, <2>4
<1> QED
  BY <1>1, <1>2, <1>3, <1>4 DEF Function

LEMMA CallImplements ==
  ASSUME ExecInv, QuietInv, NEW t \in Thread, Call(t)
  PROVE  ExecInv' /\ ExecStep
<1>1. ASSUME NEW o \in Object, thread_constructs(t, o) PROVE ExecInv' /\ ExecStep
  BY <1>1, ConstructImplements DEF thread_constructs
<1>2. ASSUME NEW o \in Object, NEW when \in when_immediately .. LastTime,
             thread_enqueues(t, o, when)
      PROVE  ExecInv' /\ ExecStep
  <2>1. when \in 0 .. LastTime /\ when # 0
    BY DispatcherAssumption DEF when_immediately
  <2> QED
    BY <1>2, <2>1, EnqueueImplements DEF thread_enqueues, history
<1>3. ASSUME NEW o \in Object, NEW cleanup \in BOOLEAN, detach(t, o, cleanup)
      PROVE  ExecInv' /\ ExecStep
  BY <1>3, EraseImplements DEF detach, history
<1> QED
  BY <1>1, <1>2, <1>3 DEF Call

LEMMA ContinueImplements ==
  ASSUME ExecInv, QuietInv, QuietInv', NEW t \in Thread, Continue(t)
  PROVE  ExecInv' /\ ExecStep
<1>0. caller \in [Thread -> Seat]
  BY DEF QuietInv, Shape
<1>1. CASE detach_quiesced(t)
  <2> DEFINE o == caller[t].obj
  <2>1. /\ UNCHANGED <<queue, object_ids, exit, worker, count, clock, made>>
        /\ released' \in {released, released \cup {o}}
        /\ caller[t].at = "quiesce"
    BY <1>1 DEF detach_quiesced, core
  <2>2. o \in Object
    BY <1>0, <2>1, SeatFacts
  <2> HIDE DEF o
  <2> QED
    BY <2>1, <2>2, ReturnImplements
<1>2. CASE detach_cleanup(t)
  <2> DEFINE o == caller[t].obj
  <2>1. caller[t].at = "cleanup" /\ UNCHANGED <<object_ids, exit, worker, clock, made>>
    BY <1>2 DEF detach_cleanup
  <2>2. o \in Object
    BY <1>0, <2>1, SeatFacts
  <2>3. CASE enqueue(Own, when_internal_detached) /\ UNCHANGED released
    <3>1. Own \in Object \cup {Own} /\ 0 \in 0 .. LastTime /\ when_internal_detached = 0
      BY DispatcherAssumption DEF when_internal_detached
    <3> QED
      BY <2>1, <2>3, <3>1, EnqueueImplements
  <2>4. CASE released' = released \cup {o} /\ UNCHANGED <<queue, count>>
    <3> HIDE DEF o
    <3> QED
      BY <2>1, <2>2, <2>4, ReturnImplements
  <2> QED
    BY <1>2, <2>3, <2>4 DEF detach_cleanup
<1>3. CASE detach_noticed(t)
  <2> DEFINE o == caller[t].obj
  <2>1. /\ UNCHANGED <<queue, object_ids, exit, worker, count, clock, made>>
        /\ released' = released \cup {o}
        /\ caller[t].at = "notice"
    BY <1>3 DEF detach_noticed, core
  <2>2. o \in Object
    BY <1>0, <2>1, SeatFacts
  <2> HIDE DEF o
  <2> QED
    BY <2>1, <2>2, ReturnImplements
<1>4. CASE terminate_joined(t) \/ io_ends(t)
  <2>1. UNCHANGED <<queue, object_ids, exit, worker, count, clock, made, released>>
    BY <1>4 DEF terminate_joined, io_ends, core, history
  <2> QED
    BY <2>1, IdleImplements
<1> QED
  BY <1>1, <1>2, <1>3, <1>4 DEF Continue

LEMMA ExecInit ==
  DispatcherInit => ExecInv /\ Executor!ExecutorInit
<1> SUFFICES ASSUME DispatcherInit PROVE ExecInv /\ Executor!ExecutorInit
  OBVIOUS
<1>1. /\ queue = <<>> /\ object_ids = {Own} /\ worker.at = "wait" /\ released = {}
      /\ clock = 1 /\ count = 0
  BY DEF DispatcherInit, Resting, when_immediately
<1>2. queue \in Seq(Entry) /\ 1 .. Len(queue) = {}
  BY <1>1
<1>3. Waiting = {} /\ QueueOK
  BY <1>2 DEF QueueOK, Sorted, Waiting
<1>4. ~InHand /\ ~InFunction /\ ~At("exited")
  BY <1>1 DEF InHand, InFunction, At
<1>5. ExecInv
  BY <1>1, <1>3, <1>4 DEF ExecInv, HandOK
<1>6. Pending = {} /\ Chosen = None /\ Current = None /\ At("exited") = FALSE
  BY <1>1, <1>3, <1>4, WhereFacts DEF At
<1>7. Executor!ExecutorInit
  BY <1>1, <1>6 DEF Executor!ExecutorInit
<1> QED
  BY <1>5, <1>7

LEMMA ExecNext ==
  ExecInv /\ QuietInv /\ QuietInv' /\ [DispatcherNext]_dvars => ExecInv' /\ ExecStep
<1> SUFFICES ASSUME ExecInv, QuietInv, QuietInv', [DispatcherNext]_dvars
             PROVE  ExecInv' /\ ExecStep
  OBVIOUS
<1>1. CASE Worker
  BY <1>1, WorkerImplements
<1>2. CASE Function
  BY <1>2, FunctionImplements
<1>3. CASE tick
  <2>1. /\ clock < LastTime /\ clock' = clock + 1
        /\ UNCHANGED <<queue, object_ids, exit, worker, count, made, released>>
    BY <1>3 DEF tick, core, history
  <2>2. clock' \in Nat /\ made \subseteq made'
    BY <2>1 DEF ExecInv
  <2>3. ExecInv' /\ Waiting' = Waiting
    BY <2>1, <2>2, SameQueue DEF InHand, At, ExecInv
  <2>4. Pending' = Pending /\ Chosen' = Chosen /\ Current' = Current /\ At("exited")' = At("exited")
    BY <2>1, <2>3 DEF Pending, Chosen, Current, InFunction, At
  <2>5. Executor!Pass
    BY <2>1, <2>4 DEF Executor!Pass
  <2> QED
    BY <2>3, <2>5 DEF ExecStep, Executor!ExecutorNext
<1>4. ASSUME NEW t \in Thread, Call(t) PROVE ExecInv' /\ ExecStep
  BY <1>4, CallImplements
<1>5. ASSUME NEW t \in Thread, Continue(t) PROVE ExecInv' /\ ExecStep
  BY <1>5, ContinueImplements
<1>6. ASSUME NEW t \in Thread, terminate(t) PROVE ExecInv' /\ ExecStep
  <2>1. /\ exit' = TRUE
        /\ UNCHANGED <<queue, object_ids, worker, count, clock, made, released>>
    BY <1>6 DEF terminate
  <2> QED
    BY <2>1, IdleImplements
<1>7. CASE UNCHANGED dvars
  <2>1. UNCHANGED <<queue, object_ids, exit, worker, count, clock, made, released>>
    BY <1>7 DEF dvars, core, history
  <2> QED
    BY <2>1, IdleImplements
<1> QED
  BY <1>1, <1>2, <1>3, <1>4, <1>5, <1>6, <1>7 DEF DispatcherNext

\* The dispatcher implements SerialExecutor.  Functions run one at a time, not
\* before their time, cleanup functions before all others and the others in the
\* order of their times and of their enqueueing; none of a
\* detached object starts, none of an object whose detach has returned is
\* running, and none starts after the worker has ended: whatever threads call,
\* and wherever the worker is between its locks.
THEOREM DispatcherIsExecutor == DispatcherSpec => ImplementsExecutor
<1>1. DispatcherSpec => []QuietInv
  BY QuietInit, QuietStep, PTL DEF DispatcherSpec
<1>2. ExecInv /\ QuietInv /\ QuietInv' /\ [DispatcherNext]_dvars
        => ExecInv' /\ [Executor!ExecutorNext]_(Executor!xvars)
  BY ExecNext DEF ExecStep
<1>3. DispatcherInit => ExecInv /\ Executor!ExecutorInit
  BY ExecInit
<1>4. DispatcherSpec => Executor!ExecutorInit /\ [][Executor!ExecutorNext]_(Executor!xvars)
  BY <1>1, <1>2, <1>3, PTL DEF DispatcherSpec
<1> QED
  BY <1>4 DEF ImplementsExecutor, Executor!ExecutorSpec
=============================================================================
