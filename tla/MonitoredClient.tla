--------------------------- MODULE MonitoredClient ---------------------------
(***************************************************************************)
(* An io_service_client together with its iokit_service_monitor: the       *)
(* monitor emits its signals synchronously, so a report and the client's   *)
(* handler are one step.  The module covers the life of one client object, *)
(* from async_start on.                                                    *)
(***************************************************************************)
EXTENDS IoServiceClient

CONSTANT MaxBacklog  \* bound: tasks queued by the client when a poll comes in

ASSUME BacklogAssumption == MaxBacklog \in Nat

VARIABLES matched_notes, terminated_notes, started,
          scan_matched, scan_terminated

Monitor == INSTANCE ServiceMonitor

notes == <<matched_notes, terminated_notes, started, scan_matched, scan_terminated>>
allvars == <<vars, notes>>

Backlog == Len(queue) <= MaxBacklog

Report(s, isnew) == IF isnew THEN service_matched(s) ELSE UNCHANGED client
ReportEnd_Again(s) == service_terminated(s)

ReportEnd(s) == IF s \in known THEN service_terminated(s) ELSE UNCHANGED client

MonitorStart == Monitor!Start /\ UNCHANGED client

IOKit(s) == (Monitor!Appears(s) \/ Monitor!Dies(s)) /\ UNCHANGED client

NotifyMatched(s) ==
  /\ Monitor!MatchedNotification(s)
  /\ Report(s, s \notin known)

NotifyTerminated(s) ==
  /\ Monitor!TerminatedNotification(s)
  /\ ReportEnd(s)

ScanTimer ==
  /\ Monitor!Scan
  /\ UNCHANGED client

ScanReport(s) ==
  \/ Monitor!ScanMatched(s) /\ Report(s, s \notin known)
  \/ Monitor!ScanTerminated(s) /\ ReportEnd(s)

\* The dispatcher is busy during a scan; the driver is not.
Dispatch == ~Monitor!Scanning /\ RunTask /\ UNCHANGED notes
Poll(d) == ~Monitor!Scanning /\ Backlog /\ query_ready(d) /\ UNCHANGED notes
Request(d) == ~Monitor!Scanning /\ initialize(d) /\ UNCHANGED notes
Driver(d) == DeviceStarts(d) /\ UNCHANGED notes

MonitoredInit == Init /\ Monitor!MonitorInit

MonitoredNext ==
  \/ MonitorStart
  \/ \E s \in Service :
       IOKit(s) \/ NotifyMatched(s) \/ NotifyTerminated(s) \/ ScanReport(s)
  \/ ScanTimer
  \/ Dispatch
  \/ \E d \in Polled : Poll(d) \/ Request(d) \/ Driver(d)

MonitoredSpec == MonitoredInit /\ [][MonitoredNext]_allvars

(***************************************************************************)
(* async_start is called once; the dispatcher runs what is queued; the     *)
(* scan timer and the ready timer keep firing.  Notifications get no       *)
(* fairness: IOKit may lose them.                                          *)
(***************************************************************************)
FairMonitoredSpec ==
  /\ MonitoredSpec
  /\ WF_allvars(MonitorStart)
  /\ WF_allvars(Dispatch)
  /\ WF_allvars(ScanTimer)
  /\ WF_allvars(\E s \in Service : ScanReport(s))
  /\ \A d \in Polled : WF_allvars(Poll(d))

-----------------------------------------------------------------------------
\* What the monitor reports is what IoServiceClient assumes of it: matched and
\* terminated reports of a service alternate, although notifications and scans
\* report independently, and a service is reported terminated only when it is.
ImplementsClient == Spec

\* A connection to a service that has terminated is given up, even if the
\* notification was lost.
DeadConnectionClosed ==
  \A s \in Service :
    (connection = s /\ life[s] = "terminated") ~> connection # s

\* A driver service that can be opened gets the client connected as long as it
\* is there, even if notifications are lost and other services fail.
EventuallyConnected ==
  \A s \in Service \ Faulty :
    life[s] = "present" ~> (connection # NoService \/ life[s] = "terminated")

\* A ready value asked of one connection may be stored after that connection
\* was replaced by another one, whose device is not ready.  The daemon does not
\* keep believing it: the next poll corrects it.
StaleReadyCorrected ==
  \A d \in Polled :
    (VisibleReady(d) = "true" /\ device[d] # "ready")
      ~> ~(VisibleReady(d) = "true" /\ device[d] # "ready")

\* The subscriber's view catches up with the getters.
StatusDelivered == (seen # VisibleStatus) ~> (seen = VisibleStatus)
=============================================================================
