-------------------------- MODULE ExtensionManager --------------------------
(***************************************************************************)
(* src/Manager: the command line tool that asks macOS to activate or       *)
(* deactivate the driver.  App.swift calls perform, which submits a        *)
(* request and waits; the system calls the delegate back on the main       *)
(* queue, and the delegate starts a task that hands the result to the      *)
(* OneShot on which perform waits.  Tasks run in any order, and the        *)
(* OneShot, an actor, takes one call at a time.                            *)
(*                                                                         *)
(* The tool is run again and again, on a system that has some version of   *)
(* the driver, or none.  The system may carry a request out at once, or    *)
(* only with the next reboot.                                              *)
(***************************************************************************)
EXTENDS Naturals

CONSTANTS
  MaxVersion,   \* bound: versions are 1 .. MaxVersion
  MaxCallback,  \* bound: results the system reports for one request
  MaxRun        \* bound: runs of the tool, after the first

ASSUME ManagerAssumption ==
  MaxVersion \in Nat \ {0} /\ MaxCallback \in Nat \ {0} /\ MaxRun \in Nat

Operation == {"activate", "forceActivate", "deactivate"}
Version == 1 .. MaxVersion
NotInstalled == 0

\* What the system reports, and what the OneShot carries.
Report == {"completed", "willCompleteAfterReboot", "extensionNotFound", "otherError"}
Result == {"success", "failure"}
Nothing == "nothing"

VARIABLES
  installed,     \* the version of the driver that is in place
  registered,    \* the version that is in place after the next reboot
  operation,     \* operation of the request, Nothing before one is made
  version,       \* the version of the driver that comes with this tool
  request,       \* the request as the system sees it
  main,          \* where perform is
  continuation,  \* OneShot.continuation is set
  pending,       \* OneShot.pending
  tasks,         \* calls of resume that are still to run
  got,           \* what wait has returned
  exit_code,
  \* history
  results,       \* how many results the system has reported in this run
  resumed,       \* how often the continuation has been resumed
  before,        \* what was registered when the request was made
  runs

shot == <<continuation, pending, resumed>>
driver == <<installed, registered>>
asked == <<operation, version, before>>
mvars == <<driver, asked, request, main, shot, tasks, got, exit_code, results, runs>>

(***************************************************************************)
(* App.swift and perform.                                                  *)
(***************************************************************************)
\* The operation of the first argument that matches; the request is submitted.
submitRequest(op, v) ==
  /\ main = "start"
  /\ operation' = op /\ version' = v /\ before' = registered
  /\ request' = "submitted"
  /\ main' = "submitted"
  /\ UNCHANGED <<driver, shot, tasks, got, exit_code, results, runs>>

Resume(result) ==
  /\ got' = result
  /\ resumed' = resumed + 1

\* OneShot.wait
wait ==
  /\ main = "submitted"
  /\ main' = "waiting"
  /\ \/ /\ pending # Nothing
        /\ pending' = Nothing
        /\ Resume(pending)
        /\ UNCHANGED continuation
     \/ /\ pending = Nothing
        /\ continuation' = TRUE
        /\ UNCHANGED <<pending, got, resumed>>
  /\ UNCHANGED <<driver, asked, request, tasks, exit_code, results, runs>>

exit(code) ==
  /\ main = "waiting"
  /\ main' = "exited"
  /\ exit_code' = code
  /\ UNCHANGED <<driver, asked, request, shot, tasks, got, results, runs>>

\* perform returns a result, or throws.
returns == got = "success" /\ exit(0)

throws == got = "failure" /\ exit(1)

(***************************************************************************)
(* OneShot.resume                                                          *)
(***************************************************************************)
Buffered_Not(result) == pending

Buffered(result) == result

Kept_Always == continuation

Kept == FALSE

resume(task) ==
  /\ main # "exited"
  /\ task \in tasks
  /\ tasks' = tasks \ {task}
  /\ \/ /\ continuation
        /\ continuation' = Kept
        /\ Resume(task.result)
        /\ UNCHANGED pending
     \/ /\ ~continuation
        /\ pending' = Buffered(task.result)
        /\ UNCHANGED <<continuation, got, resumed>>
  /\ UNCHANGED <<driver, asked, request, main, exit_code, results, runs>>

(***************************************************************************)
(* The delegate.                                                           *)
(***************************************************************************)
Ignorable_Any(report) == report = "extensionNotFound"

Ignorable(report) == operation = "deactivate" /\ report = "extensionNotFound"

\* didFinishWithResult and didFailWithError
ResultOf(report) ==
  IF report \in {"completed", "willCompleteAfterReboot"} \/ Ignorable(report)
    THEN "success" ELSE "failure"

callback(report) ==
  /\ results' = results + 1
  /\ tasks' = tasks \cup {[id |-> results + 1, result |-> ResultOf(report)]}

\* actionForReplacingExtension
Replaces ==
  /\ version # registered
  /\ operation = "forceActivate" \/ version > registered

(***************************************************************************)
(* The system: it may ask for the user's approval, which may never come;   *)
(* it asks what to do with another version; in the end it reports, perhaps *)
(* more than once.                                                         *)
(***************************************************************************)
needsUserApproval ==
  /\ request = "submitted"
  /\ request' = "unapproved"
  /\ UNCHANGED <<driver, asked, main, shot, tasks, got, exit_code, results, runs>>

\* What the request asks for.
Target == IF operation = "deactivate" THEN NotInstalled ELSE version

Granted ==
  IF operation = "deactivate" THEN registered # NotInstalled
                              ELSE registered = NotInstalled \/ Replaces

\* "done" at once, "staged" for the next reboot.
decides ==
  /\ main # "exited"
  /\ request \in {"submitted", "unapproved"}
  /\ \/ /\ Granted
        /\ registered' = Target
        /\ \/ request' = "done" /\ installed' = Target
           \/ request' = "staged" /\ UNCHANGED installed
     \/ /\ ~Granted
        /\ request' = IF operation = "deactivate" THEN "missing" ELSE "cancelled"
        /\ UNCHANGED driver
     \/ /\ request' = "failed"
        /\ UNCHANGED driver
  /\ UNCHANGED <<asked, main, shot, tasks, got, exit_code, results, runs>>

Reportable ==
  CASE request = "done"      -> {"completed"}
    [] request = "staged"    -> {"willCompleteAfterReboot"}
    [] request = "missing"   -> {"extensionNotFound"}
    [] request = "cancelled" -> {"otherError"}
    [] request = "failed"    -> {"otherError"} \cup
                                IF operation = "deactivate" THEN {} ELSE {"extensionNotFound"}
    [] OTHER                 -> {}

reportsResult(report) ==
  /\ main # "exited"
  /\ results < MaxCallback
  /\ report \in Reportable
  /\ callback(report)
  /\ UNCHANGED <<driver, asked, request, main, shot, got, exit_code, runs>>

-----------------------------------------------------------------------------
ManagerInit ==
  /\ installed \in Version \cup {NotInstalled} /\ registered = installed /\ runs = 0
  /\ operation = Nothing /\ version = NotInstalled /\ before = registered
  /\ request = "none" /\ main = "start"
  /\ continuation = FALSE /\ pending = Nothing /\ resumed = 0
  /\ tasks = {} /\ got = Nothing /\ exit_code = Nothing /\ results = 0

\* A process of its own.
new_process ==
  /\ runs < MaxRun
  /\ runs' = runs + 1
  /\ operation' = Nothing /\ version' = NotInstalled /\ before' = registered
  /\ request' = "none" /\ main' = "start"
  /\ continuation' = FALSE /\ pending' = Nothing /\ resumed' = 0
  /\ tasks' = {} /\ got' = Nothing /\ exit_code' = Nothing /\ results' = 0

run_again ==
  /\ main = "exited"
  /\ new_process
  /\ UNCHANGED driver

\* At any moment.
reboot ==
  /\ new_process
  /\ installed' = registered
  /\ UNCHANGED registered

Process ==
  \/ wait \/ returns \/ throws
  \/ \E task \in tasks : resume(task)

System ==
  \/ decides
  \/ \E report \in Report : reportsResult(report)

ManagerNext ==
  \/ \E op \in Operation, v \in Version : submitRequest(op, v)
  \/ Process \/ System \/ needsUserApproval \/ run_again \/ reboot

ManagerSpec == ManagerInit /\ [][ManagerNext]_mvars

(***************************************************************************)
(* Tasks run.  The system owes nothing: the user may never approve.        *)
(***************************************************************************)
FairManagerSpec ==
  /\ ManagerSpec
  /\ WF_mvars(wait) /\ WF_mvars(returns) /\ WF_mvars(throws)
  /\ WF_mvars(\E task \in tasks : resume(task))

-----------------------------------------------------------------------------
\* A continuation is resumed at most once, whatever the order of wait and of the
\* calls of resume; Swift aborts the process if it is resumed twice.
ResumedOnce == resumed <= 1

\* The tool's exit code tells what became of the request.  With 0 the driver is
\* as it was asked for, at the latest after the next reboot: the code does not
\* tell the two apart, both results are successes for the delegate.  With 1
\* nothing has changed, and nothing will with a reboot.
ExitCodeRight ==
  main = "exited" =>
    \/ exit_code = 0 /\ registered = Target /\ (installed = Target \/ request # "done")
    \/ exit_code = 1 /\ registered = before /\ request \in {"cancelled", "failed"}

\* As soon as the system has reported a result, the tool ends, unless a reboot
\* ends it first: a result that comes before perform waits is not lost.
ReportEnds == results > 0 ~> main \in {"exited", "start"}
=============================================================================
