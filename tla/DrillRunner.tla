----------------------------- MODULE DrillRunner -----------------------------
(***************************************************************************)
(* scripts/run_testnet_drill_until_ready.py: it configures the Testnet     *)
(* drill, with its schedule off, and asks for one cycle after the other    *)
(* until the counter it watches has reached its target.  A cycle runs on   *)
(* the server's request thread and goes on when the script has given up.   *)
(* The script tells the server's answers apart by their HTTP status, and   *)
(* 409 answers every RuntimeError, of a cycle that could not begin and of  *)
(* one that has run.  The cycle itself is TestnetDrill's.                  *)
(***************************************************************************)
EXTENDS Naturals

CONSTANTS
    Target,      \* target_cycles
    MaxCycles,   \* max_cycles
    MaxOthers    \* bound on the runs others start

ASSUME DrillRunnerAssumption ==
    Target \in Nat \ {0} /\ MaxCycles \in Nat /\ MaxOthers \in Nat

VARIABLES
    drill,     \* the script: step, attempts, counter last seen, does it go on after a
               \* failure?  does it ask for dry runs?
    cycle,     \* its request at the server: how far the cycle is, or its answer
    counter,   \* the cycles the server has counted
    scheduled, \* is the drill's own schedule on?
    busy,      \* is a run of somebody else active?
    began,     \* cycles begun for the script, told apart up to MaxCycles + 1
    counted,   \* cycles begun for the script, less those answered 409
    others     \* runs others have started

drillVars == <<drill, cycle, counter, scheduled, busy, began, counted, others>>

DrillTypeOK ==
    /\ drill.at \in {"configure", "loop", "answer", "verdict", "passed", "failed"}
    /\ drill.attempts \in 0..MaxCycles /\ drill.seen \in 0..counter
    /\ drill.goesOn \in BOOLEAN /\ drill.dryRun \in BOOLEAN /\ scheduled \in BOOLEAN
    /\ cycle \in {"none", "sent", "running", "checking", "completed", "failed", "conflict", "error"}
    /\ began \in 0..(MaxCycles + 1) /\ others \in 0..MaxOthers

DrillInit ==
    /\ \E goesOn, dryRun \in BOOLEAN :
          drill = [at |-> "configure", attempts |-> 0, seen |-> 0, goesOn |-> goesOn,
                   dryRun |-> dryRun]
    /\ cycle = "none" /\ counter \in 0..Target
    /\ scheduled \in BOOLEAN /\ busy \in BOOLEAN
    /\ began = 0 /\ counted = 0 /\ others = 0

Unserved == UNCHANGED <<cycle, counter, scheduled, busy, began, counted, others>>

-----------------------------------------------------------------------------
(* The script: main. *)

Configure ==
    /\ drill.at = "configure"
    /\ drill' = [drill EXCEPT !.at = "loop", !.seen = counter]
    /\ scheduled' = FALSE
    /\ UNCHANGED <<cycle, counter, busy, began, counted, others>>

Wanted == drill.seen < Target /\ drill.attempts < MaxCycles

AskCycle ==
    /\ drill.at = "loop" /\ Wanted /\ cycle = "none"
    /\ drill' = [drill EXCEPT !.at = "answer", !.attempts = @ + 1]
    /\ cycle' = "sent"
    /\ UNCHANGED <<counter, scheduled, busy, began, counted, others>>

LeaveLoop ==
    /\ drill.at = "loop" /\ ~Wanted
    /\ drill' = [drill EXCEPT !.at = "verdict"] /\ Unserved

\* Mutant: a cycle that has failed is no attempt either.
FailureIsNoAttempt ==
    /\ drill.at = "answer" /\ cycle \in {"completed", "failed"}
    /\ drill' = [drill EXCEPT !.seen = counter,
                    !.at = IF cycle = "failed" /\ ~drill.goesOn THEN "failed" ELSE "loop",
                    !.attempts = IF cycle = "failed" THEN @ - 1 ELSE @]
    /\ cycle' = "none"
    /\ UNCHANGED <<counter, scheduled, busy, began, counted, others>>

CycleAnswered ==
    /\ drill.at = "answer" /\ cycle \in {"completed", "failed"}
    /\ drill' = [drill EXCEPT !.seen = counter,
                    !.at = IF cycle = "failed" /\ ~drill.goesOn THEN "failed" ELSE "loop"]
    /\ cycle' = "none"
    /\ UNCHANGED <<counter, scheduled, busy, began, counted, others>>

\* 409: the script takes it that a run is active and that this was no attempt.  It
\* answers a cycle that has run and lacks its evidence as well.
Conflict ==
    /\ drill.at = "answer" /\ cycle = "conflict"
    /\ drill' = [drill EXCEPT !.at = "loop", !.attempts = @ - 1]
    /\ cycle' = "none"
    /\ UNCHANGED <<counter, scheduled, busy, began, counted, others>>

Verdict ==
    /\ drill.at = "verdict"
    /\ drill' = [drill EXCEPT !.seen = counter,
                    !.at = IF counter >= Target THEN "passed" ELSE "failed"]
    /\ Unserved

\* TRADER_HTTP_TIMEOUT_SECONDS, a broken connection, another error status.
GiveUp ==
    /\ drill.at \in {"configure", "answer", "verdict"}
    /\ drill' = [drill EXCEPT !.at = "failed"]
    /\ Unserved

-----------------------------------------------------------------------------
(* The server. *)

\* launch_run raises a RuntimeError when a run is active; a dry run launches none.
RefuseCycle ==
    /\ cycle = "sent" /\ busy /\ ~drill.dryRun
    /\ cycle' = "conflict"
    /\ UNCHANGED <<drill, counter, scheduled, busy, began, counted, others>>

Serve ==
    /\ cycle = "sent" /\ (drill.dryRun \/ ~busy)
    /\ cycle' = IF drill.dryRun THEN "checking" ELSE "running"
    /\ began' = IF began <= MaxCycles THEN began + 1 ELSE began
    /\ counted' = counted + 1
    /\ UNCHANGED <<drill, counter, scheduled, busy, others>>

\* wait_for_run_completion: the run has completed or failed.
DrillRunEnds ==
    /\ cycle = "running"
    /\ cycle' = "checking"
    /\ UNCHANGED <<drill, counter, scheduled, busy, began, counted, others>>

\* The run has failed, left no order, or one that is not as the drill demands: the
\* RuntimeError is raised again once the cycle is recorded as failed.
EvidenceLacking ==
    /\ cycle = "checking" /\ ~drill.dryRun
    /\ cycle' = "conflict"
    /\ counted' = counted - 1
    /\ UNCHANGED <<drill, counter, scheduled, busy, began, others>>

\* 201: "failed" beside a critical alert.
CycleEnds ==
    /\ cycle = "checking"
    /\ cycle' \in {"completed", "failed"} /\ counter' \in {counter, counter + 1}
    /\ UNCHANGED <<drill, scheduled, busy, began, counted, others>>

\* 400: the mode is not enabled, the run has not ended in time, anything else.
CycleRaises ==
    /\ cycle \in {"sent", "running", "checking"}
    /\ cycle' = "error"
    /\ UNCHANGED <<drill, counter, scheduled, busy, began, counted, others>>

\* A workflow, or a cycle of somebody else's.
OtherBegins ==
    /\ ~busy /\ cycle # "running" /\ others < MaxOthers
    /\ busy' = TRUE /\ others' = others + 1
    /\ UNCHANGED <<drill, cycle, counter, scheduled, began, counted>>

OtherEnds ==
    /\ busy /\ busy' = FALSE
    /\ counter' \in {counter, counter + 1}
    /\ UNCHANGED <<drill, cycle, scheduled, began, counted, others>>

ServerStep ==
    \/ RefuseCycle \/ Serve \/ DrillRunEnds \/ EvidenceLacking \/ CycleEnds \/ CycleRaises
    \/ OtherBegins \/ OtherEnds

-----------------------------------------------------------------------------
RunnerGoesOn ==
    Configure \/ AskCycle \/ LeaveLoop \/ CycleAnswered \/ Conflict \/ Verdict

DrillNext == RunnerGoesOn \/ GiveUp \/ ServerStep

\* The script runs on and its requests time out; runs of others end.  A cycle
\* may hang.
DrillFairness ==
    /\ WF_drillVars(RunnerGoesOn) /\ WF_drillVars(drill.at = "answer" /\ GiveUp)
    /\ WF_drillVars(OtherEnds)

DrillRunnerSpec == DrillInit /\ [][DrillNext]_drillVars
DrillRunnerLiveSpec == DrillRunnerSpec /\ DrillFairness

-----------------------------------------------------------------------------
\* --max-cycles bounds the cycles the script makes the server run, whatever fails,
\* hangs, is refused or is counted for somebody else: all but those that come back
\* as a 409.
AttemptsBounded == counted <= MaxCycles

\* Once it has configured the drill the script ends, also when its cycle hangs and
\* others' runs are in its way, unless it is answered 409 again and again: then it
\* asks for ever, also with nobody else running.
DrillRunnerEnds ==
    \/ (drill.at # "configure") ~> (drill.at \in {"passed", "failed"})
    \/ []<>(cycle = "conflict")

\* The drill script among other runs, hanging and failing cycles: the attempts it
\* counts are bounded.
DrillRunnerSound == DrillTypeOK /\ AttemptsBounded

-----------------------------------------------------------------------------
\* --max-cycles, as its help says ("Maximum cycles to attempt in this invocation"),
\* bounds the cycles begun for the script.
CyclesBounded == began <= MaxCycles
=============================================================================
