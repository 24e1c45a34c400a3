----------------------- MODULE ExtensionManager_proofs -----------------------
(***************************************************************************)
(* Proofs about ExtensionManager, for any number of versions, of results   *)
(* that the system reports for one request, and of runs of the tool.       *)
(***************************************************************************)
EXTENDS ExtensionManager, TLAPS

\* The OneShot: nothing has been resumed before perform waits, and the
\* continuation is given away with the first result.
OneShotInv ==
  /\ resumed \in {0, 1}
  /\ main \in {"start", "submitted"} => resumed = 0 /\ continuation = FALSE
  /\ continuation => resumed = 0

\* A result that tells what became of the request.
Right(result) ==
  \/ result = "success" /\ request \in {"done", "staged", "missing"}
  \/ result = "failure" /\ request \in {"cancelled", "failed"}

\* Every result on its way from the delegate to the exit code is right.
ResultsRight ==
  /\ \A task \in tasks : Right(task.result)
  /\ pending # Nothing => Right(pending)
  /\ got # Nothing => Right(got)

\* The request and what is registered: nothing changes until the system has
\* decided, and what it has decided stays as it is.
RequestInv ==
  /\ main = "start" => request = "none"
  /\ request \in {"submitted", "unapproved", "cancelled", "failed"} => registered = before
  /\ request \in {"done", "staged", "missing"} => registered = Target
  /\ request = "done" => installed = Target
  /\ request = "missing" => operation = "deactivate"

ExitInv ==
  main = "exited" => (got = "success" /\ exit_code = 0) \/ (got = "failure" /\ exit_code = 1)

ManagerInv == OneShotInv /\ ResultsRight /\ RequestInv /\ ExitInv
-----------------------------------------------------------------------------
LEMMA ManagerInvInit ==
  ASSUME ManagerInit
  PROVE  ManagerInv
  BY DEF ManagerInit, ManagerInv, OneShotInv, ResultsRight, RequestInv, ExitInv

LEMMA Submit ==
  ASSUME ManagerInv, NEW op \in Operation, NEW v \in Version, submitRequest(op, v)
  PROVE  ManagerInv'
<1>1. /\ request = "none" /\ request' = "submitted" /\ main = "start" /\ main' = "submitted"
      /\ registered' = before'
      /\ UNCHANGED <<continuation, pending, resumed, tasks, got, exit_code>>
  BY DEF ManagerInv, RequestInv, submitRequest, shot, driver
<1>2. tasks = {} /\ pending = Nothing /\ got = Nothing
  BY <1>1 DEF ManagerInv, ResultsRight, Right
<1> QED
  BY <1>1, <1>2 DEF ManagerInv, OneShotInv, ResultsRight, RequestInv, ExitInv

LEMMA Wait ==
  ASSUME ManagerInv, wait
  PROVE  ManagerInv'
<1>1. /\ main = "submitted" /\ main' = "waiting"
      /\ UNCHANGED <<installed, registered, before, operation, version, request, tasks, exit_code>>
      /\ \/ /\ pending # Nothing /\ pending' = Nothing /\ got' = pending
            /\ resumed' = resumed + 1 /\ continuation' = continuation
         \/ continuation' = TRUE /\ UNCHANGED <<pending, got, resumed>>
  BY DEF wait, Resume, driver, asked
<1>2. resumed = 0 /\ continuation = FALSE
  BY <1>1 DEF ManagerInv, OneShotInv
<1>3. OneShotInv'
  BY <1>1, <1>2 DEF OneShotInv
<1>4. ResultsRight'
  BY <1>1 DEF ManagerInv, ResultsRight, Right
<1> QED
  BY <1>1, <1>3, <1>4 DEF ManagerInv, RequestInv, ExitInv, Target

LEMMA Exit ==
  ASSUME ManagerInv, returns \/ throws
  PROVE  ManagerInv'
  BY DEF returns, throws, exit, driver, asked, shot, ManagerInv, OneShotInv, ResultsRight, Right,
         RequestInv, Target, ExitInv

LEMMA ResumeStep ==
  ASSUME ManagerInv, NEW task \in tasks, resume(task)
  PROVE  ManagerInv'
<1>1. /\ main # "exited" /\ tasks' = tasks \ {task}
      /\ UNCHANGED <<installed, registered, before, operation, version, request, main, exit_code>>
      /\ \/ /\ continuation /\ continuation' = FALSE /\ got' = task.result
            /\ resumed' = resumed + 1 /\ pending' = pending
         \/ /\ ~continuation /\ pending' = task.result
            /\ UNCHANGED <<continuation, got, resumed>>
  BY DEF resume, Resume, Kept, Buffered, driver, asked
<1>2. Right(task.result)
  BY DEF ManagerInv, ResultsRight
<1>3. OneShotInv'
  BY <1>1 DEF ManagerInv, OneShotInv
<1>4. ResultsRight'
  BY <1>1, <1>2 DEF ManagerInv, ResultsRight, Right
<1> QED
  BY <1>1, <1>3, <1>4 DEF ManagerInv, RequestInv, ExitInv, Target

LEMMA NeedsApproval ==
  ASSUME ManagerInv, needsUserApproval
  PROVE  ManagerInv'
<1>1. /\ request = "submitted" /\ request' = "unapproved"
      /\ UNCHANGED <<registered, before, main, continuation, pending, resumed, tasks, got,
                     exit_code>>
  BY DEF needsUserApproval, shot, driver, asked
<1>2. tasks = {} /\ pending = Nothing /\ got = Nothing /\ main # "start"
  BY <1>1 DEF ManagerInv, ResultsRight, Right, RequestInv
<1> QED
  BY <1>1, <1>2 DEF ManagerInv, OneShotInv, ResultsRight, RequestInv, ExitInv

\* The system decides before there is any result.
LEMMA Decides ==
  ASSUME ManagerInv, decides
  PROVE  ManagerInv'
<1>1. /\ request \in {"submitted", "unapproved"}
      /\ UNCHANGED <<operation, version, before, main, continuation, pending, resumed, tasks,
                     got, exit_code>>
  BY DEF decides, shot, asked
<1>2. tasks = {} /\ pending = Nothing /\ got = Nothing /\ main # "start"
  BY <1>1 DEF ManagerInv, ResultsRight, Right, RequestInv
<1>3. registered = before /\ Target' = Target
  BY <1>1 DEF ManagerInv, RequestInv, Target
<1>4. /\ request' \in {"cancelled", "failed"} => registered' = before'
      /\ request' \in {"done", "staged", "missing"} => registered' = Target
      /\ request' = "done" => installed' = Target
      /\ request' = "missing" => operation = "deactivate"
      /\ request' \in {"done", "staged", "missing", "cancelled", "failed"}
  <2>1. CASE Granted /\ registered' = Target /\ request' = "done" /\ installed' = Target
    BY <2>1
  <2>2. CASE Granted /\ registered' = Target /\ request' = "staged"
    BY <2>2
  <2>3. CASE ~Granted /\ UNCHANGED driver
             /\ request' = IF operation = "deactivate" THEN "missing" ELSE "cancelled"
    BY <1>1, <1>3, <2>3 DEF Granted, Target, driver
  <2>4. CASE request' = "failed" /\ UNCHANGED driver
    BY <1>1, <1>3, <2>4 DEF driver
  <2> QED
    BY <2>1, <2>2, <2>3, <2>4 DEF decides
<1> QED
  BY <1>1, <1>2, <1>3, <1>4 DEF ManagerInv, OneShotInv, ResultsRight, RequestInv, ExitInv

\* The delegate turns a report into a result that is right: the report that the
\* extension was not found is a success only of a deactivation.
LEMMA Reports ==
  ASSUME ManagerInv, NEW report \in Report, reportsResult(report)
  PROVE  ManagerInv'
<1>1. /\ report \in Reportable
      /\ tasks' = tasks \cup {[id |-> results + 1, result |-> ResultOf(report)]}
      /\ UNCHANGED <<installed, registered, before, operation, version, request, main, continuation, pending,
                     resumed, got, exit_code>>
  BY DEF reportsResult, callback, shot, driver, asked
<1>2. Right(ResultOf(report))
  <2>1. CASE request \in {"done", "staged"}
    BY <1>1, <2>1 DEF Reportable, ResultOf, Right
  <2>2. CASE request = "missing"
    BY <1>1, <2>2 DEF Reportable, ResultOf, Ignorable, Right, ManagerInv, RequestInv
  <2>3. CASE request = "cancelled"
    BY <1>1, <2>3 DEF Reportable, ResultOf, Ignorable, Right
  <2>4. CASE request = "failed"
    <3>1. report = "otherError" \/ (operation # "deactivate" /\ report = "extensionNotFound")
      BY <1>1, <2>4 DEF Reportable
    <3> QED
      BY <2>4, <3>1 DEF ResultOf, Ignorable, Right
  <2>5. CASE request \notin {"done", "staged", "missing", "cancelled", "failed"}
    BY <1>1, <2>5 DEF Reportable
  <2> QED
    BY <2>1, <2>2, <2>3, <2>4, <2>5
<1>3. ResultsRight'
  <2>1. \A result : Right(result)' <=> Right(result)
    BY <1>1 DEF Right
  <2>2. \A task \in tasks' : task \in tasks \/ task.result = ResultOf(report)
    BY <1>1
  <2>3. \A task \in tasks' : Right(task.result)
    BY <1>2, <2>2 DEF ManagerInv, ResultsRight
  <2> QED
    BY <1>1, <2>1, <2>3 DEF ManagerInv, ResultsRight
<1> QED
  BY <1>1, <1>3 DEF ManagerInv, OneShotInv, RequestInv, ExitInv, Target

LEMMA RunAgain ==
  ASSUME ManagerInv, run_again \/ reboot
  PROVE  ManagerInv'
  BY DEF run_again, reboot, new_process, ManagerInv, OneShotInv, ResultsRight, RequestInv, ExitInv

LEMMA ManagerInvStep ==
  ASSUME ManagerInv, [ManagerNext]_mvars
  PROVE  ManagerInv'
<1>1. CASE UNCHANGED mvars
  BY <1>1 DEF mvars, shot, driver, asked, ManagerInv, OneShotInv, ResultsRight, Right, RequestInv, Target,
              ExitInv
<1> QED
  BY <1>1, Submit, Wait, Exit, ResumeStep, NeedsApproval, Decides, Reports, RunAgain
     DEF ManagerNext, Process, System

LEMMA ManagerInvHolds == ManagerSpec => []ManagerInv
<1>1. ManagerInit => ManagerInv
  BY ManagerInvInit
<1>2. ManagerInv /\ [ManagerNext]_mvars => ManagerInv'
  BY ManagerInvStep
<1> QED
  BY <1>1, <1>2, PTL DEF ManagerSpec

\* The continuation on which perform waits is resumed at most once, however many
\* results the system reports and in whatever order their tasks run.
THEOREM NeverResumedTwice == ManagerSpec => []ResumedOnce
<1>1. ManagerInv => ResumedOnce
  BY DEF ManagerInv, OneShotInv, ResumedOnce
<1> QED
  BY <1>1, ManagerInvHolds, PTL

\* The exit code tells what became of the request: with 0 the driver is as asked
\* for, at once or after the next reboot, and with 1 the system has refused and
\* nothing has changed.  It rests on which errors the delegate takes for a
\* success, on the OneShot's handing over a result of this request, and on what
\* App.swift makes of a result and of an error.
THEOREM ExitCodeTells == ManagerSpec => []ExitCodeRight
<1>1. ManagerInv => ExitCodeRight
  BY DEF ManagerInv, ExitInv, ResultsRight, Right, RequestInv, ExitCodeRight, Nothing
<1> QED
  BY <1>1, ManagerInvHolds, PTL
=============================================================================
