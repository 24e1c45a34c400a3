---------------------------- MODULE StatusSource ----------------------------
(***************************************************************************)
(* What an io_service_client promises to the client_entry that subscribes  *)
(* to its state_changed signal.  The subscriber reads the client's getters *)
(* when the signal is emitted, and never ends up with an outdated reading: *)
(* whenever the getters would return something else than what it read      *)
(* last, another emission is already queued.  ClientEntry is built on this *)
(* promise.                                                                *)
(***************************************************************************)
CONSTANTS Status,        \* the combinations of values the getters can return
          InitialStatus  \* what they return for a freshly constructed client

VARIABLES status,   \* what the getters return now
          pending,  \* a state_changed emission is queued
          seen      \* what the getters returned at the last emission

svars == <<status, pending, seen>>

SourceInit ==
  /\ status = InitialStatus
  /\ pending = FALSE
  /\ seen = InitialStatus

\* The client takes a step: its status may move only to a state in which an
\* emission is queued.  An emission may be queued without a change.
Change ==
  /\ status' \in Status
  /\ pending' = TRUE
  /\ UNCHANGED seen

\* A queued emission is delivered; further emissions may still be queued.
Emit ==
  /\ pending
  /\ seen' = status
  /\ pending' \in BOOLEAN
  /\ UNCHANGED status

\* The client is destroyed, its queued emissions with it, and a new one takes
\* its place.
Renew ==
  /\ status' = InitialStatus
  /\ pending' = FALSE
  /\ seen' = InitialStatus

SourceNext == Change \/ Emit \/ Renew

SourceSpec == SourceInit /\ [][SourceNext]_svars
=============================================================================
