--------------------------- MODULE ReadinessRunner ---------------------------
(***************************************************************************)
(* The server live-readiness runner (src/app/server.py): a thread runs     *)
(* scripts/run_server_live_readiness.py as a child process, polls it, and  *)
(* writes its outcome into the settings; requests start it, cancel it and  *)
(* ask for its status.  The child runs its steps one after the other, each *)
(* a process in a session of its own, and prints a summary into a pipe     *)
(* nobody reads before it has exited (external: a full pipe blocks its     *)
(* writer).                                                                *)
(***************************************************************************)
EXTENDS Naturals, Sequences

CONSTANTS
    Dashboards,        \* status requests
    Plan,          \* the child's steps, each "prerequisite" or "evidence"
    Output,        \* the length of the summary a child prints
    PipeCapacity,  \* what a pipe holds
    MaxLaunches, MaxKills  \* bounds on starts of a run and on kills of the server

ASSUME RunnerAssumption ==
    /\ Plan \in Seq({"prerequisite", "evidence"})
    /\ Output \in Nat /\ PipeCapacity \in Nat /\ MaxLaunches \in Nat /\ MaxKills \in Nat

VARIABLES
    runner,    \* the steps of the runner threads that are alive
    handle,    \* is SERVER_LIVE_READINESS_THREAD set?
    child,     \* the child: state, steps behind it, those it ran and that passed,
               \* is one running?, output still to write, output in the pipe
    orphans,   \* steps that run on without the child that started them
    cancel,    \* SERVER_LIVE_READINESS_CANCEL
    setting,   \* server_live_readiness_status
    asker,     \* each status request: its step, what it saw
    launches, kills

runnerVars == <<runner, handle, child, orphans, cancel, setting, asker, launches, kills>>

RunnerSteps == {"begin", "spawn", "poll", "canceled", "failed", "completed", "finally"}
Outcomes == {"canceled", "failed", "completed"}
NoChild == [state |-> "none", behind |-> 0, ran |-> {}, passed |-> {}, step |-> FALSE,
            left |-> 0, pipe |-> 0]

RunnerTypeOK ==
    /\ \A s \in RunnerSteps : runner[s] \in Nat
    /\ handle \in BOOLEAN /\ cancel \in BOOLEAN
    /\ child.state \in {"none", "running", "exited"}
    /\ child.behind \in 0..Len(Plan) /\ child.passed \subseteq child.ran
    /\ orphans \in Nat
    /\ setting \in {"idle", "running"} \cup Outcomes
    /\ \A a \in Dashboards : asker[a] \in {"idle", "alive", "dead", "repair"}

RunnerInit ==
    /\ runner = [s \in RunnerSteps |-> 0]
    /\ handle = FALSE /\ cancel = FALSE
    /\ child = NoChild /\ orphans = 0
    /\ setting = "idle"
    /\ asker = [a \in Dashboards |-> "idle"]
    /\ launches = 0 /\ kills = 0

ThreadAlive == \E s \in RunnerSteps : runner[s] > 0
Running == handle /\ ThreadAlive

Move(from, to) ==
    /\ runner[from] > 0
    /\ runner' = [runner EXCEPT ![from] = @ - 1, ![to] = @ + 1]

Aside == UNCHANGED <<orphans, launches, kills, asker>>

-----------------------------------------------------------------------------
(* Requests. *)

\* start_server_live_readiness, under SERVER_LIVE_READINESS_LOCK.
StartRun ==
    /\ launches < MaxLaunches /\ ~Running
    /\ runner' = [runner EXCEPT !["begin"] = @ + 1]
    /\ handle' = TRUE /\ cancel' = FALSE /\ launches' = launches + 1
    /\ UNCHANGED <<child, orphans, setting, asker, kills>>

\* cancel_server_live_readiness.
CancelRun ==
    /\ Running /\ cancel' = TRUE
    /\ UNCHANGED <<runner, handle, child, orphans, setting, asker, launches, kills>>

\* server_live_readiness_status looks for the thread, then reads the settings.
AskThread(a) ==
    /\ asker[a] = "idle"
    /\ asker' = [asker EXCEPT ![a] = IF Running THEN "alive" ELSE "dead"]
    /\ UNCHANGED <<runner, handle, child, orphans, cancel, setting, launches, kills>>

\* It reads the status, and goes on to repair a "running" without the thread it
\* has looked for.
AskStatus(a) ==
    /\ asker[a] \in {"alive", "dead"}
    /\ asker' = [asker EXCEPT ![a] =
         IF asker[a] = "dead" /\ setting = "running" THEN "repair" ELSE "idle"]
    /\ UNCHANGED <<runner, handle, child, orphans, cancel, setting, launches, kills>>

\* The last summary, perhaps of an earlier run, says what it becomes.
Repair(a) ==
    /\ asker[a] = "repair"
    /\ setting' \in {"failed", "canceled"}
    /\ asker' = [asker EXCEPT ![a] = "idle"]
    /\ UNCHANGED <<runner, handle, child, orphans, cancel, launches, kills>>

-----------------------------------------------------------------------------
(* run_server_live_readiness_background *)

BeginRun == Move("begin", "spawn") /\ setting' = "running" /\ UNCHANGED <<handle, child, cancel>> /\ Aside

\* A setting or the event cannot be written: no finally block holds these yet, so
\* the thread dies and the handle stays.
BeginRaises ==
    /\ runner["begin"] > 0
    /\ runner' = [runner EXCEPT !["begin"] = @ - 1]
    /\ setting' \in {setting, "running"}
    /\ UNCHANGED <<handle, child, cancel>> /\ Aside

SpawnChild ==
    /\ \E n \in 0..Output : child' = [NoChild EXCEPT !.state = "running", !.left = n]
    /\ Move("spawn", "poll")
    /\ UNCHANGED <<handle, cancel, setting>> /\ Aside

\* Popen raises, or an event cannot be written.
SpawnRaises == Move("spawn", "failed") /\ UNCHANGED <<handle, child, cancel, setting>> /\ Aside

\* The child is terminated if it still runs, and its output is read; the step it
\* was running is not of its process group.
Ends(outcome) ==
    /\ Move("poll", outcome)
    /\ child' = NoChild
    /\ orphans' = IF child.step THEN orphans + 1 ELSE orphans
    /\ UNCHANGED <<handle, cancel, setting, launches, kills, asker>>

PollCancel == cancel /\ Ends("canceled")

AllPassed == child.passed = DOMAIN Plan

\* With --strict a child whose steps have all passed may still return 1.
PollExit ==
    /\ ~cancel /\ child.state = "exited"
    /\ Ends("failed") \/ (AllPassed /\ Ends("completed"))

\* Mutant: the runner waits for the child without a limit.
NoTimeout == FALSE /\ Ends("failed")

PollTimeout == ~cancel /\ child.state = "running" /\ Ends("failed")

WriteOutcome(outcome) ==
    /\ Move(outcome, "finally")
    /\ setting' = outcome
    /\ UNCHANGED <<handle, child, cancel>> /\ Aside

\* The finally block, under the lock; the thread ends.
Finally ==
    /\ runner["finally"] > 0
    /\ runner' = [runner EXCEPT !["finally"] = @ - 1]
    /\ handle' = FALSE /\ cancel' = FALSE /\ child' = NoChild
    /\ UNCHANGED setting /\ Aside

RunnerStep ==
    \/ BeginRun \/ BeginRaises \/ SpawnChild \/ SpawnRaises
    \/ PollCancel \/ PollExit \/ PollTimeout \/ Finally
    \/ \E o \in Outcomes : WriteOutcome(o)

-----------------------------------------------------------------------------
(* The child: run_server_live_readiness.py. *)

OnlyTheChild == UNCHANGED <<runner, handle, cancel, setting>> /\ Aside
NextStep == child.behind + 1
OkSoFar == child.passed = 1..child.behind

\* Mutant: after a failure the evidence is skipped too.
MayRunOk == OkSoFar

\* A prerequisite needs all the steps before it; evidence is always taken.
MayRun == OkSoFar \/ Plan[NextStep] = "evidence"

ChildStep ==
    /\ child.state = "running" /\ ~child.step /\ child.behind < Len(Plan)
    /\ child' = IF MayRun THEN [child EXCEPT !.step = TRUE, !.ran = @ \cup {NextStep}]
                          ELSE [child EXCEPT !.behind = NextStep]
    /\ OnlyTheChild

\* The step passes, fails or is killed at its timeout.
StepEnds ==
    /\ child.step
    /\ \E ok \in {{}, {NextStep}} :
          child' = [child EXCEPT !.step = FALSE, !.behind = NextStep, !.passed = @ \cup ok]
    /\ OnlyTheChild

OrphanEnds ==
    /\ orphans > 0 /\ orphans' = orphans - 1
    /\ UNCHANGED <<runner, handle, child, cancel, setting, launches, kills, asker>>

ChildWrites ==
    /\ child.state = "running" /\ child.behind = Len(Plan)
    /\ child.left > 0 /\ child.pipe < PipeCapacity
    /\ child' = [child EXCEPT !.left = @ - 1, !.pipe = @ + 1]
    /\ OnlyTheChild

ChildExits ==
    /\ child.state = "running" /\ child.behind = Len(Plan) /\ child.left = 0
    /\ child' = [child EXCEPT !.state = "exited"]
    /\ OnlyTheChild

-----------------------------------------------------------------------------
\* The server is killed with its children and started again; the settings stay.
RestartServer ==
    /\ kills < MaxKills
    /\ kills' = kills + 1
    /\ runner' = [s \in RunnerSteps |-> 0]
    /\ handle' = FALSE /\ cancel' = FALSE /\ child' = NoChild /\ orphans' = 0
    /\ asker' = [a \in Dashboards |-> "idle"]
    /\ UNCHANGED <<setting, launches>>

RunnerNext ==
    \/ StartRun \/ CancelRun \/ RunnerStep \/ RestartServer
    \/ ChildStep \/ StepEnds \/ OrphanEnds \/ ChildWrites \/ ChildExits
    \/ \E a \in Dashboards : AskThread(a) \/ AskStatus(a) \/ Repair(a)

RunnerSpec == RunnerInit /\ [][RunnerNext]_runnerVars

\* The thread is scheduled, time passes, and the dashboard asks for the status.
RunnerFairness ==
    /\ WF_runnerVars(RunnerStep)
    /\ \A a \in Dashboards : WF_runnerVars(AskThread(a) \/ AskStatus(a) \/ Repair(a))

RunnerLiveSpec == RunnerSpec /\ RunnerFairness

-----------------------------------------------------------------------------
\* Starts, cancels and the end of a run overlap; never do two runner threads
\* have work left, so that one child at most is being polled.
OneRunner ==
    \A s \in RunnerSteps : runner[s] <= 1 /\ \A r \in RunnerSteps \ {s} : runner[s] = 0 \/ runner[r] = 0

\* Every run ends, also one whose child is blocked on its own output: the pipe
\* is not read before the child has exited, so only the timeout frees it.
RunEnds == ThreadAlive ~> ~ThreadAlive

\* A "running" that a kill of the server, or a start that raised, has left behind
\* is repaired by a status request.
StaleRunningRepaired == (setting = "running" /\ ~ThreadAlive) ~> (setting # "running" \/ ThreadAlive)

\* Whatever fails on the way, a child that comes to its end has taken all the
\* evidence (audit, reports, backup), and ran no prerequisite, such as Testnet
\* drill cycles, after a step that had not passed.
SequenceKept ==
    child.state = "exited" =>
        \A i \in DOMAIN Plan :
            IF Plan[i] = "evidence" THEN i \in child.ran
            ELSE i \in child.ran => 1..(i - 1) \subseteq child.passed


\* Starts, cancels, timeouts and restarts: one runner, and a child whose steps
\* keep their order.
RunnerSound == RunnerTypeOK /\ OneRunner /\ SequenceKept

\* Runs end, and what a killed one leaves behind is repaired.
RunnerEnds == RunEnds /\ StaleRunningRepaired

-----------------------------------------------------------------------------
\* terminate_process_tree, as its name says: a run that has been canceled leaves
\* no process of the run behind.
CancelEndsTree == setting = "canceled" /\ ~ThreadAlive => orphans = 0

\* The status a run has written stays until the next run starts.
OutcomeKept == [][ThreadAlive \/ setting \notin Outcomes \/ setting' = setting]_runnerVars
=============================================================================
