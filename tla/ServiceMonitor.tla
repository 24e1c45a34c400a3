--------------------------- MODULE ServiceMonitor ---------------------------
(***************************************************************************)
(* vendor/vendor/include/pqrs/osx/iokit_service_monitor.hpp: tells its     *)
(* subscriber which driver services exist.                                 *)
(*                                                                         *)
(* The monitor subscribes to IOKit's matched and terminated notifications. *)
(* They arrive on the run loop thread, which forwards each of them to the  *)
(* dispatcher thread, so a notification may be acted upon long after the   *)
(* event; and IOKit may drop one.  Every three seconds a scan compares     *)
(* what is in the IORegistry with what the monitor reported, and reports   *)
(* the difference.                                                         *)
(***************************************************************************)
EXTENDS Naturals

CONSTANT Service

VARIABLES
  life,              \* IOKit: each service is absent, present or terminated
  matched_notes,     \* matched notifications on their way to the dispatcher
  terminated_notes,  \* terminated notifications on their way
  started,           \* start() has registered for notifications
  known,             \* registry_entry_ids_
  scan_matched,      \* the running scan still has to report these as matched
  scan_terminated    \* and, after that, these as terminated

mvars == <<life, matched_notes, terminated_notes, started, known,
           scan_matched, scan_terminated>>

Present == {s \in Service : life[s] = "present"}

\* A scan is one task of the dispatcher thread.  Its snapshot is taken at the
\* start, services may die while it reports, and no other task runs before it
\* is done.
Scanning == scan_matched # {} \/ scan_terminated # {}

MonitorInit ==
  /\ life = [s \in Service |-> "absent"]
  /\ matched_notes = {}
  /\ terminated_notes = {}
  /\ started = FALSE
  /\ known = {}
  /\ scan_matched = {}
  /\ scan_terminated = {}

\* start: the services already there are forwarded like notified ones.
Start ==
  /\ ~started
  /\ started' = TRUE
  /\ matched_notes' = Present
  /\ UNCHANGED <<life, terminated_notes, known, scan_matched, scan_terminated>>

\* IOKit: a service appears, or terminates for good.  The notification is sent
\* if the monitor has subscribed, and may be lost even then.
Appears(s) ==
  /\ life[s] = "absent"
  /\ life' = [life EXCEPT ![s] = "present"]
  /\ \/ started /\ matched_notes' = matched_notes \cup {s}
     \/ UNCHANGED matched_notes
  /\ UNCHANGED <<terminated_notes, started, known, scan_matched, scan_terminated>>

Dies(s) ==
  /\ life[s] = "present"
  /\ life' = [life EXCEPT ![s] = "terminated"]
  /\ \/ started /\ terminated_notes' = terminated_notes \cup {s}
     \/ UNCHANGED terminated_notes
  /\ UNCHANGED <<matched_notes, started, known, scan_matched, scan_terminated>>

\* invoke_service_matched and invoke_service_terminated, from a notification.
\* Both kinds pass through the same run loop and dispatcher queue, so the
\* matched notification of a service is acted upon before the terminated one.
MatchedNotification(s) ==
  /\ ~Scanning
  /\ s \in matched_notes
  /\ matched_notes' = matched_notes \ {s}
  /\ known' = known \cup {s}
  /\ UNCHANGED <<life, terminated_notes, started, scan_matched, scan_terminated>>

TerminatedNotification(s) ==
  /\ ~Scanning
  /\ s \in terminated_notes
  /\ s \notin matched_notes
  /\ terminated_notes' = terminated_notes \ {s}
  /\ known' = known \ {s}
  /\ UNCHANGED <<life, matched_notes, started, scan_matched, scan_terminated>>

\* The scan timer's function: a snapshot, then the reports, matched ones first.
Scan_MatchedOnly ==
  /\ started
  /\ ~Scanning
  /\ scan_matched' = Present \ known
  /\ UNCHANGED <<life, matched_notes, terminated_notes, started, known,
                 scan_terminated>>

Scan_TerminatedOnly ==
  /\ started
  /\ ~Scanning
  /\ scan_terminated' = known \ Present
  /\ UNCHANGED <<life, matched_notes, terminated_notes, started, known,
                 scan_matched>>

Scan ==
  /\ started
  /\ ~Scanning
  /\ scan_matched' = Present \ known
  /\ scan_terminated' = known \ Present
  /\ UNCHANGED <<life, matched_notes, terminated_notes, started, known>>

ScanMatched(s) ==
  /\ s \in scan_matched
  /\ scan_matched' = scan_matched \ {s}
  /\ known' = known \cup {s}
  /\ UNCHANGED <<life, matched_notes, terminated_notes, started, scan_terminated>>

ScanTerminated(s) ==
  /\ scan_matched = {}
  /\ s \in scan_terminated
  /\ scan_terminated' = scan_terminated \ {s}
  /\ known' = known \ {s}
  /\ UNCHANGED <<life, matched_notes, terminated_notes, started, scan_matched>>
=============================================================================
