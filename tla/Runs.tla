-------------------------------- MODULE Runs --------------------------------
(***************************************************************************)
(* Workflow runs (src/app/server.py): the runs table, which survives a     *)
(* crash, the in-memory set ACTIVE_RUNS under RUN_LOCK, and the workflow   *)
(* thread of each run.  Runs are numbered in the order they are launched,  *)
(* where the code draws a uuid.                                            *)
(***************************************************************************)
EXTENDS Naturals, FiniteSets

CONSTANTS
    MaxRuns,    \* bound: launches beyond it are refused
    MaxCrashes  \* bound on the crashes of a behaviour
ASSUME RunsAssumption == MaxRuns \in Nat /\ MaxCrashes \in Nat

VARIABLES
    up,      \* is the server process running?
    crashes, \* how often it has died
    active,  \* ACTIVE_RUNS
    status,  \* status[r]: the runs table
    wf       \* wf[r]: where the workflow thread of r stands

runVars == <<up, crashes, active, status, wf>>

RunIds == 1..MaxRuns
\* A queued run is not told from a running one: its thread has been started.
Statuses == {"none", "running", "completed", "failed"}
Ended == {"completed", "failed"}
Threads == {"none", "working", "leaving", "gone"}
Alive == {"working", "leaving"}

RunsTypeOK ==
    /\ up \in BOOLEAN
    /\ crashes \in 0..MaxCrashes
    /\ active \subseteq RunIds
    /\ status \in [RunIds -> Statuses]
    /\ wf \in [RunIds -> Threads]

RunsInit ==
    /\ up = TRUE
    /\ crashes = 0
    /\ active = {}
    /\ status = [r \in RunIds |-> "none"]
    /\ wf = [r \in RunIds |-> "none"]

\* The run that the next launch creates.
Fresh(r) == status[r] = "none" /\ \A q \in 1..(r - 1) : status[q] # "none"

\* launch_run, whole under RUN_LOCK: the row, ACTIVE_RUNS and the thread.
Launch(r) ==
    /\ active = {} /\ Fresh(r)
    /\ status' = [status EXCEPT ![r] = "running"]
    /\ wf' = [wf EXCEPT ![r] = "working"]
    /\ active' = active \cup {r}
    /\ UNCHANGED <<up, crashes>>

\* "A run is already active."
LaunchRaises ==
    /\ active # {} \/ \A r \in RunIds : status[r] # "none"
    /\ UNCHANGED runVars

\* The last update_run of the try block or of its except clause.
WorkflowEnds(r, result) ==
    /\ wf[r] = "working"
    /\ status' = [status EXCEPT ![r] = result]
    /\ wf' = [wf EXCEPT ![r] = "leaving"]
    /\ UNCHANGED <<up, crashes, active>>

\* Mutant: only the try block discards the run, not a finally clause.
DiscardIfCompleted(r) ==
    /\ wf[r] = "leaving"
    /\ active' = IF status[r] = "completed" THEN active \ {r} ELSE active
    /\ wf' = [wf EXCEPT ![r] = "gone"]
    /\ UNCHANGED <<up, crashes, status>>

\* The finally clause: the run is over for its pollers before it is for
\* ACTIVE_RUNS.
WorkflowDiscards(r) ==
    /\ wf[r] = "leaving"
    /\ active' = active \ {r}
    /\ wf' = [wf EXCEPT ![r] = "gone"]
    /\ UNCHANGED <<up, crashes, status>>

WorkflowStep(r) ==
    \/ \E result \in Ended : WorkflowEnds(r, result)
    \/ WorkflowDiscards(r)

\* ACTIVE_RUNS and the threads are gone, the rows stay as they were.
RunsCrash ==
    /\ up /\ crashes < MaxCrashes
    /\ up' = FALSE
    /\ crashes' = crashes + 1
    /\ active' = {}
    /\ wf' = [r \in RunIds |-> IF wf[r] = "none" THEN "none" ELSE "gone"]
    /\ UNCHANGED status

RunsRestart ==
    /\ ~up
    /\ up' = TRUE
    /\ UNCHANGED <<crashes, active, status, wf>>

-----------------------------------------------------------------------------
\* Whatever starts runs, the scheduler thread, the drill thread or any number
\* of HTTP handlers, two workflows are never under way at once (two would size
\* their orders from the same account and pass the same gates), and the run
\* that is under way is the one that ACTIVE_RUNS names.
OneWorkflow ==
    /\ \A r \in RunIds : wf[r] \in Alive => active = {r}
    /\ \A r \in active : wf[r] \in Alive
=============================================================================
