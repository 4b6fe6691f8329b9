------------------------------ MODULE LivePilot ------------------------------
(***************************************************************************)
(* The guarded live pilot (scripts/run_guarded_live_pilot_once.py) over    *)
(* HTTP: it arms the live window, launches one workflow run, waits for it, *)
(* reconciles, and disarms in its finally block.  The script may give up   *)
(* on an answer while the server still handles the request, or never does. *)
(* The window and the gates behind it are those of LiveControl.            *)
(***************************************************************************)
EXTENDS Naturals, FiniteSets

CONSTANTS
    Options,     \* the command lines: sets of "attest", "arm", "launch", "keep_armed"
    MaxOrders,   \* LIVE_ARMING_MAX_ORDERS
    MaxWindows   \* bound on the windows armed

ASSUME PilotAssumption ==
    /\ Options \subseteq SUBSET {"attest", "arm", "launch", "keep_armed"}
    /\ MaxOrders \in Nat /\ MaxWindows \in Nat

VARIABLES
    script,    \* where it is, its options, armed_by_script, the run it last saw, its verdict
    calls,     \* requests the server has yet to handle
    answer,    \* of the request the script is waiting for
    window,    \* who armed the live window, and the orders it still has
    gates,     \* do the gates other than the arming pass?
    pilotRun,  \* the run the script launched
    launched,  \* the runs its requests have launched
    otherRun,  \* is another run active?
    windows    \* the windows armed

pilotVars == <<script, calls, answer, window, gates, pilotRun, launched, otherRun, windows>>

Posts == {"attest", "arm", "launch", "reconcile", "disarm"}
Reads == {"status", "ready", "wait", "report"}
Shut == [by |-> "nobody", orders |-> 0]

PilotTypeOK ==
    /\ script.at \in Posts \cup Reads \cup {"failed", "finally", "done", "killed"}
    /\ script.options \in Options /\ script.armed \in BOOLEAN
    /\ script.saw \in {"unknown", "running", "completed", "failed"}
    /\ script.ok \in BOOLEAN /\ script.disarm \in {"untried", "answered", "failed"}
    /\ calls \subseteq Posts /\ answer \in {"none", "awaited", "accepted", "refused"}
    /\ window \in [by : {"nobody", "script", "other"}, orders : 0..MaxOrders]
    /\ pilotRun \in {"none", "running", "entered", "completed", "failed"}

PilotInit ==
    /\ \E o \in Options :
          script = [at |-> "status", options |-> o, armed |-> FALSE, saw |-> "unknown",
                    ok |-> FALSE, disarm |-> "untried"]
    /\ calls = {} /\ answer = "none"
    /\ window = Shut /\ gates \in BOOLEAN
    /\ pilotRun = "none" /\ launched = 0 /\ otherRun = FALSE
    /\ windows = 0

Opted(o) == o \in script.options
Server == <<window, gates, pilotRun, launched, otherRun, windows>>

-----------------------------------------------------------------------------
(* The script: main. *)

\* A step of the command line that is not asked for is passed over.
After ==
    [status |-> "attest", attest |-> "arm", arm |-> "ready", ready |-> "launch",
     launch |-> "wait", wait |-> "reconcile", reconcile |-> "report", report |-> "finally"]

GoTo(place) == script' = [script EXCEPT !.at = place]

Skip ==
    /\ script.at \in {"attest", "arm", "launch"} /\ ~Opted(script.at) /\ answer = "none"
    /\ GoTo(IF script.at = "launch" THEN "report" ELSE After[script.at])
    /\ UNCHANGED <<calls, answer, Server>>

\* request_json.
Post ==
    /\ script.at \in Posts /\ answer = "none"
    /\ Opted(script.at) \/ script.at \in {"reconcile", "disarm"}
    /\ calls' = calls \cup {script.at} /\ answer' = "awaited"
    /\ UNCHANGED <<script, Server>>

PostAnswered ==
    /\ answer = "accepted" /\ answer' = "none"
    /\ script' = CASE script.at = "arm" -> [script EXCEPT !.at = "ready", !.armed = TRUE]
                   [] script.at = "disarm" -> [script EXCEPT !.at = "done", !.disarm = "answered"]
                   [] OTHER -> [script EXCEPT !.at = After[script.at]]
    /\ UNCHANGED <<calls, Server>>

\* Reports that change nothing at the server; with the last one the verdict.
Read ==
    /\ script.at \in {"status", "ready", "report"}
    /\ script' = [script EXCEPT !.at = After[@],
                     !.ok = @ \/ (script.at = "report" /\ (Opted("launch") => script.saw = "completed"))]
    /\ UNCHANGED <<calls, answer, Server>>

RunStatus == IF pilotRun = "entered" THEN "running" ELSE pilotRun

\* wait_for_run: poll until the run has ended ...
Poll ==
    /\ script.at = "wait"
    /\ script' = [script EXCEPT !.saw = RunStatus,
                     !.at = IF RunStatus \in {"completed", "failed"} THEN "reconcile" ELSE @]
    /\ UNCHANGED <<calls, answer, Server>>

\* ... or the deadline has passed.
Deadline ==
    /\ script.at = "wait" /\ GoTo("reconcile")
    /\ UNCHANGED <<calls, answer, Server>>

\* Mutant: a launch without an answer is tried again.
FailsRetry ==
    /\ \/ script.at \in Reads
       \/ script.at \in Posts \ {"disarm"} /\ answer \in {"awaited", "refused"}
    /\ answer' = "none"
    /\ GoTo(IF script.at = "launch" THEN "launch" ELSE "finally")
    /\ UNCHANGED <<calls, Server>>

\* A timeout, a broken connection, an error status: fail, then the finally block.
Fails ==
    /\ \/ script.at \in Reads
       \/ script.at \in Posts \ {"disarm"} /\ answer \in {"awaited", "refused"}
    /\ answer' = "none" /\ GoTo("finally")
    /\ UNCHANGED <<calls, Server>>

FinallyDisarm ==
    /\ script.at = "finally"
    /\ GoTo(IF script.armed /\ ~Opted("keep_armed") THEN "disarm" ELSE "done")
    /\ UNCHANGED <<calls, answer, Server>>

\* The finally block only records that its disarm has failed.
DisarmFails ==
    /\ script.at = "disarm" /\ answer \in {"awaited", "refused"}
    /\ answer' = "none" /\ script' = [script EXCEPT !.at = "done", !.disarm = "failed"]
    /\ UNCHANGED <<calls, Server>>

\* SIGTERM, SIGKILL, power: no finally block.
Killed ==
    /\ script.at # "done" /\ GoTo("killed") /\ answer' = "none"
    /\ UNCHANGED <<calls, Server>>

-----------------------------------------------------------------------------
(* The server. *)

Armed == gates /\ window.by # "nobody" /\ window.orders > 0

\* Whether the server carries out a request; a reconcile may fail at the exchange.
Accepts(k) ==
    CASE k = "arm" -> gates /\ windows < MaxWindows
      [] k = "launch" -> Armed /\ pilotRun \notin {"running", "entered"} /\ ~otherRun
      [] OTHER -> TRUE

Effect(k, ok) ==
    /\ window' = CASE ok /\ k = "arm" -> [by |-> "script", orders |-> MaxOrders]
                   [] k = "disarm" -> Shut
                   [] OTHER -> window
    /\ windows' = IF ok /\ k = "arm" THEN windows + 1 ELSE windows
    /\ pilotRun' = IF ok /\ k = "launch" THEN "running" ELSE pilotRun
    /\ launched' = IF ok /\ k = "launch" THEN launched + 1 ELSE launched
    /\ UNCHANGED <<gates, otherRun, script>>

\* The request is handled, whether or not the script still waits for it.
Handle(k) ==
    /\ k \in calls /\ calls' = calls \ {k}
    /\ \E ok \in IF k = "reconcile" THEN BOOLEAN ELSE {Accepts(k)} :
          /\ Effect(k, ok)
          /\ answer' = IF script.at = k /\ answer = "awaited"
                       THEN IF ok THEN "accepted" ELSE "refused"
                       ELSE answer

Lost(k) == k \in calls /\ calls' = calls \ {k} /\ UNCHANGED <<script, answer, Server>>

\* The run's entry takes an order of the window, whoever armed it.
RunEnters ==
    /\ pilotRun = "running" /\ Armed
    /\ pilotRun' = "entered"
    /\ window' = [window EXCEPT !.orders = @ - 1]
    /\ UNCHANGED <<script, calls, answer, gates, launched, otherRun, windows>>

RunEndsAs(status) ==
    /\ pilotRun \in {"running", "entered"} /\ pilotRun' = status
    /\ UNCHANGED <<script, calls, answer, window, gates, launched, otherRun, windows>>

\* The window's time passes, another operator disarms it, a panic stop.
WindowShuts ==
    /\ window # Shut /\ window' = Shut
    /\ UNCHANGED <<script, calls, answer, gates, pilotRun, launched, otherRun, windows>>

OtherArms ==
    /\ gates /\ windows < MaxWindows
    /\ windows' = windows + 1
    /\ window' = [by |-> "other", orders |-> MaxOrders]
    /\ UNCHANGED <<script, calls, answer, gates, pilotRun, launched, otherRun>>

GatesChange ==
    /\ gates' = ~gates
    /\ UNCHANGED <<script, calls, answer, window, pilotRun, launched, otherRun, windows>>

\* Another run starts or ends (Runs: one at a time).
OtherRun ==
    /\ pilotRun \notin {"running", "entered"} /\ otherRun' = ~otherRun
    /\ UNCHANGED <<script, calls, answer, window, gates, pilotRun, launched, windows>>

-----------------------------------------------------------------------------
ScriptStep ==
    \/ Skip \/ Post \/ PostAnswered \/ Read \/ Poll \/ Deadline \/ Fails
    \/ FinallyDisarm \/ DisarmFails

PilotNext ==
    \/ ScriptStep \/ Killed
    \/ \E k \in Posts : Handle(k) \/ Lost(k)
    \/ RunEnters \/ RunEndsAs("completed") \/ RunEndsAs("failed")
    \/ WindowShuts \/ OtherArms \/ GatesChange \/ OtherRun

PilotSpec == PilotInit /\ [][PilotNext]_pilotVars

\* The script runs on, its timeouts and its deadline come; the server may never
\* answer, and the run may never end.
PilotFairness ==
    /\ WF_pilotVars(Skip \/ Post \/ PostAnswered \/ Read \/ FinallyDisarm)
    /\ WF_pilotVars(answer # "none" /\ Fails) /\ WF_pilotVars(DisarmFails) /\ WF_pilotVars(Deadline)

PilotLiveSpec == PilotSpec /\ PilotFairness

-----------------------------------------------------------------------------
\* "Launch exactly one live_guarded pilot workflow": however its requests time
\* out and are handled late, the script launches one run at most.
LaunchedOnce == launched <= 1

\* Wherever the script fails after its arm request was answered, without
\* --keep-armed it does not end before it has tried to disarm, and once that is
\* answered its window is shut for good.
ShutAtEnd ==
    script.at = "done" /\ script.armed /\ ~Opted("keep_armed") =>
        /\ script.disarm # "untried"
        /\ script.disarm = "answered" => window.by # "script"

\* A report that says ok after a launch is about a run of its own that completed.
OkMeansCompleted == script.ok /\ Opted("launch") => pilotRun = "completed" /\ launched = 1

\* Once it has begun its requests the script comes to its end, whatever the
\* server does.
PilotEnds == (script.at # "status") ~> (script.at \in {"done", "killed"})

\* The pilot whose requests fail, time out or are handled late: one launch, a
\* window shut behind it, a true report.
PilotSound == PilotTypeOK /\ LaunchedOnce /\ ShutAtEnd /\ OkMeansCompleted

-----------------------------------------------------------------------------
\* What the script does not give: a window it armed is shut when it has ended.
WindowShutAtEnd ==
    script.at = "done" /\ ~Opted("keep_armed") => window.by # "script"
=============================================================================
