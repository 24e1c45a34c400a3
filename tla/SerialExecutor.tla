--------------------------- MODULE SerialExecutor ---------------------------
(***************************************************************************)
(* What pqrs::dispatcher promises to its callers, without the worker's     *)
(* steps, the mutexes and the queue's layout.  Functions run one at a      *)
(* time, and not before their time; the next one is a cleanup function if  *)
(* there is one, otherwise the one with the earliest time and, among those *)
(* of the same time, the one that was enqueued first.  None starts for an  *)
(* object that is not attached.  When detach has returned to another       *)
(* thread, no function of the object is running, and none will.            *)
(***************************************************************************)
EXTENDS Naturals

CONSTANTS Object, Own, None, LastTime

VARIABLES
  pending,   \* tasks that are to run
  chosen,    \* the task that runs next, or None
  current,   \* the task whose function runs, or None
  attached,  \* objects that may enqueue
  released,  \* objects whose detach has returned to a thread
  count,     \* tasks enqueued so far
  now,
  halted     \* the worker has ended

xvars == <<pending, chosen, current, attached, released, count, now, halted>>

\* Nothing that waits should run before t.
InOrder(t) ==
  \A u \in pending \ {t} :
    /\ t.when <= u.when
    /\ t.when = u.when => t.when = 0 \/ t.id < u.id

Attach(o) ==
  /\ o \notin attached \cup released
  /\ attached' = attached \cup {o}
  /\ UNCHANGED <<pending, chosen, current, released, count, now, halted>>

Submit(o, when) ==
  /\ o \in attached
  /\ ~halted
  /\ when = 0 => o = Own
  /\ count' = count + 1
  /\ pending' = pending \cup {[id |-> count + 1, obj |-> o, when |-> when]}
  /\ UNCHANGED <<chosen, current, attached, released, now, halted>>

Choose(t) ==
  /\ t \in pending
  /\ chosen = None /\ current = None
  /\ t.when <= now
  /\ InOrder(t)
  /\ chosen' = t
  /\ pending' = pending \ {t}
  /\ UNCHANGED <<current, attached, released, count, now, halted>>

Start ==
  /\ chosen # None
  /\ current' = chosen
  /\ chosen' = None
  /\ UNCHANGED <<pending, attached, released, count, now, halted>>

Finish ==
  /\ current # None
  /\ current' = None
  /\ UNCHANGED <<pending, chosen, attached, released, count, now, halted>>

\* What the object has enqueued is dropped, except a function that is running.
Detach(o) ==
  /\ o \in attached \ {Own}
  /\ attached' = attached \ {o}
  /\ pending' = {t \in pending : t.obj # o}
  /\ chosen' = IF chosen # None /\ chosen.obj = o THEN None ELSE chosen
  /\ UNCHANGED <<current, released, count, now, halted>>

Release(o) ==
  /\ o \notin attached
  /\ current # None => current.obj # o
  /\ released' = released \cup {o}
  /\ UNCHANGED <<pending, chosen, current, attached, count, now, halted>>

Pass ==
  /\ now < LastTime
  /\ now' = now + 1
  /\ UNCHANGED <<pending, chosen, current, attached, released, count, halted>>

Halt ==
  /\ chosen = None /\ current = None
  /\ halted' = TRUE
  /\ pending' = {}
  /\ UNCHANGED <<chosen, current, attached, released, count, now>>

ExecutorInit ==
  /\ pending = {} /\ chosen = None /\ current = None
  /\ attached = {Own} /\ released = {}
  /\ count = 0 /\ now = 1 /\ halted = FALSE

ExecutorNext ==
  \/ \E o \in Object : Attach(o) \/ Detach(o) \/ Release(o)
  \/ \E o \in Object \cup {Own}, when \in 0 .. LastTime : Submit(o, when)
  \/ \E t \in pending : Choose(t)
  \/ Start \/ Finish \/ Pass \/ Halt

ExecutorSpec == ExecutorInit /\ [][ExecutorNext]_xvars
=============================================================================
