---------------------------- MODULE TestnetDrill ----------------------------
(***************************************************************************)
(* The Testnet drill (src/app/server.py): cycles run by the drill thread   *)
(* and by run-now requests, each of which launches a workflow run, waits   *)
(* for it, judges its order evidence and moves the counters that the       *)
(* go-live gate reads.  The counters are settings, read and written one by *)
(* one; a cycle's verdict is a row of testnet_drill_cycles.                *)
(*                                                                         *)
(* Time is abstract: the loop may look at its settings whenever it waits,  *)
(* so the next-cycle time and the put-offs that only move it are left out. *)
(***************************************************************************)
EXTENDS Runs

CONSTANTS
    MaxCycles,  \* bound on the cycles begun
    MaxTarget   \* the largest target a request gets (10 000 in the code)
ASSUME DrillAssumption == MaxCycles \in Nat /\ MaxTarget \in Nat \ {0}

VARIABLES
    drilling,   \* testnet_drill_enabled
    target,     \* testnet_drill_target_cycles
    completed,  \* testnet_drill_completed_cycles
    real,       \* testnet_drill_real_completed_cycles
    inCycle,    \* is the drill thread in a cycle?
    cyc         \* cyc[c]: the thread of cycle c and its row

drillVars == <<drilling, target, completed, real, inCycle, cyc>>
vars == <<runVars, drillVars>>

Cycles == 1..MaxCycles   \* in the order they begin; the code draws a uuid

Steps == {"none", "launch", "wait", "recover", "real", "total", "row", "stop",
          "except", "end"}
Rows == {"none", "running", "completed", "failed"}

CycleType == [step : Steps, inLoop : BOOLEAN, dry : BOOLEAN, run : 0..MaxRuns,
              target : Nat, evidence : BOOLEAN, oldTotal : Nat, oldReal : Nat,
              clean : BOOLEAN, row : Rows, counted : BOOLEAN]

TypeOK ==
    /\ RunsTypeOK
    /\ drilling \in BOOLEAN
    /\ target \in 1..MaxTarget
    /\ completed \in Nat /\ real \in Nat
    /\ inCycle \in BOOLEAN
    /\ cyc \in [Cycles -> CycleType]

NoCycle == [step |-> "none", inLoop |-> FALSE, dry |-> FALSE, run |-> 0,
            target |-> 0, evidence |-> FALSE, oldTotal |-> 0, oldReal |-> 0,
            clean |-> FALSE, row |-> "none", counted |-> FALSE]

Init ==
    /\ RunsInit
    /\ drilling = FALSE
    /\ target = MaxTarget
    /\ completed = 0 /\ real = 0
    /\ inCycle = FALSE
    /\ cyc = [c \in Cycles |-> NoCycle]

-----------------------------------------------------------------------------
(* A cycle: execute_testnet_drill_cycle. *)

Becomes(c, rec) == cyc' = [cyc EXCEPT ![c] = rec]
Goto(c, step) == Becomes(c, [cyc[c] EXCEPT !.step = step])

Idle(c) == cyc[c].step = "none"
At(c, step) == up /\ cyc[c].step = step

\* The status snapshot and the row; a dry run goes straight to recovery.
Begin(c, inLoop, dry) ==
    /\ up /\ Idle(c) /\ \A d \in 1..(c - 1) : ~Idle(d)
    /\ Becomes(c, [cyc[c] EXCEPT !.step = IF dry THEN "recover" ELSE "launch",
                                 !.inLoop = inLoop, !.dry = dry,
                                 !.target = target, !.row = "running"])
    /\ UNCHANGED <<runVars, drilling, target, completed, real>>

BeginByRequest(c, dry) == Begin(c, FALSE, dry) /\ UNCHANGED inCycle

CycleLaunches(c, r) ==
    /\ At(c, "launch")
    /\ Launch(r)
    /\ Becomes(c, [cyc[c] EXCEPT !.step = "wait", !.run = r])
    /\ UNCHANGED <<drilling, target, completed, real, inCycle>>

\* Another launcher was faster since the loop saw ACTIVE_RUNS empty, or the
\* request did not look.
CycleCannotLaunch(c) ==
    /\ At(c, "launch")
    /\ LaunchRaises
    /\ Goto(c, "except")
    /\ UNCHANGED <<drilling, target, completed, real, inCycle>>

\* Mutant: the poll has no deadline.
WaitForever(c) ==
    /\ At(c, "wait") /\ ~up
    /\ Goto(c, "except")
    /\ UNCHANGED <<runVars, drilling, target, completed, real, inCycle>>

\* Its deadline passes first; the run goes on.
WaitTimesOut(c) ==
    /\ At(c, "wait") /\ status[cyc[c].run] \notin Ended
    /\ Goto(c, "except")
    /\ UNCHANGED <<runVars, drilling, target, completed, real, inCycle>>

\* Mutant: the run's status is not part of the evidence.
EvidenceOfAnyRun(c) ==
    /\ At(c, "wait") /\ status[cyc[c].run] \in Ended
    /\ Becomes(c, [cyc[c] EXCEPT !.step = "recover", !.evidence = TRUE])
    /\ UNCHANGED <<runVars, drilling, target, completed, real, inCycle>>

\* The poll sees that the run completed, and its order was accepted by
\* /order/test or, placed, was cancelled and reconciled.
EvidencePasses(c) ==
    /\ At(c, "wait") /\ status[cyc[c].run] = "completed"
    /\ Becomes(c, [cyc[c] EXCEPT !.step = "recover", !.evidence = TRUE])
    /\ UNCHANGED <<runVars, drilling, target, completed, real, inCycle>>

\* The run failed, left no order, an unexpected one or an open one; or an
\* exception in the recovery and watchdog checks.
CycleRaises(c) ==
    /\ \/ At(c, "wait") /\ status[cyc[c].run] \in Ended
       \/ At(c, "recover")
    /\ Goto(c, "except")
    /\ UNCHANGED <<runVars, drilling, target, completed, real, inCycle>>

\* Mutant: dry runs count as real ones.
CountsDryRuns(c, clean) == clean

\* real_cycle_counted; clean: the watchdog left no critical alert open.
Counts(c, clean) == clean /\ ~cyc[c].dry

\* Recovery and watchdog, then the counters are read.
ReadCounters(c, clean) ==
    /\ At(c, "recover")
    /\ Becomes(c, [cyc[c] EXCEPT !.step = IF Counts(c, clean) THEN "real" ELSE "total",
                                 !.clean = clean, !.oldTotal = completed,
                                 !.oldReal = real])
    /\ UNCHANGED <<runVars, drilling, target, completed, real, inCycle>>

WriteReal(c) ==
    /\ At(c, "real")
    /\ real' = cyc[c].oldReal + 1
    /\ Goto(c, "total")
    /\ UNCHANGED <<runVars, drilling, target, completed, inCycle>>

WriteTotal(c) ==
    /\ At(c, "total")
    /\ completed' = cyc[c].oldTotal + 1
    /\ Goto(c, "row")
    /\ UNCHANGED <<runVars, drilling, target, real, inCycle>>

WriteRow(c) ==
    /\ At(c, "row")
    /\ Becomes(c, [cyc[c] EXCEPT !.step = "stop",
                                 !.counted = Counts(c, cyc[c].clean),
                                 !.row = IF cyc[c].clean THEN "completed" ELSE "failed"])
    /\ UNCHANGED <<runVars, drilling, target, completed, real, inCycle>>

\* What is left of a cycle whose thread has returned, or died, is its row (and
\* what its run and its evidence were).
Remains(c, row, counted) ==
    [NoCycle EXCEPT !.step = "end", !.dry = cyc[c].dry, !.run = cyc[c].run,
                    !.evidence = cyc[c].evidence, !.row = row, !.counted = counted]

Return(c, row, counted) ==
    /\ Becomes(c, Remains(c, row, counted))
    /\ inCycle' = (inCycle /\ ~cyc[c].inLoop)

\* The target is the one of the snapshot, not the one a request set since.
StopAtTarget(c) ==
    /\ At(c, "stop")
    /\ drilling' = (drilling /\ cyc[c].oldTotal + 1 < cyc[c].target)
    /\ Return(c, cyc[c].row, cyc[c].counted)
    /\ UNCHANGED <<runVars, target, completed, real>>

CycleFails(c) ==
    /\ At(c, "except")
    /\ Return(c, "failed", FALSE)
    /\ UNCHANGED <<runVars, drilling, target, completed, real>>

CycleStep(c) ==
    \/ \E r \in RunIds : CycleLaunches(c, r)
    \/ CycleCannotLaunch(c) \/ WaitTimesOut(c) \/ EvidencePasses(c) \/ CycleRaises(c)
    \/ \E clean \in BOOLEAN : ReadCounters(c, clean)
    \/ WriteReal(c) \/ WriteTotal(c) \/ WriteRow(c)
    \/ StopAtTarget(c) \/ CycleFails(c)

-----------------------------------------------------------------------------
(* The drill thread. *)

\* Mutant: == for >=.
LoopDisablesAtTarget ==
    /\ up /\ ~inCycle /\ drilling
    /\ completed = target
    /\ drilling' = FALSE
    /\ UNCHANGED <<runVars, target, completed, real, inCycle, cyc>>

\* An enabled drill that has reached its target is disabled.
LoopDisables ==
    /\ up /\ ~inCycle /\ drilling
    /\ completed >= target
    /\ drilling' = FALSE
    /\ UNCHANGED <<runVars, target, completed, real, inCycle, cyc>>

\* One that has not begins a cycle, unless a run is active.
LoopBegins(c) ==
    /\ ~inCycle /\ drilling
    /\ completed < target /\ active = {}
    /\ Begin(c, TRUE, FALSE)
    /\ inCycle' = TRUE

-----------------------------------------------------------------------------
(* Requests, the other launchers, the crash. *)

\* max(1, min(10_000, target_cycles)); 0 stands for any number that truncates
\* below 1 (a literal 0 in the body is read as the default, 24).
Clamp(wanted) ==
    IF wanted < 1 THEN 1 ELSE IF wanted > MaxTarget THEN MaxTarget ELSE wanted

\* configure_testnet_drill, its writes of enabled and target taken as one.
Configure(on, wanted) ==
    /\ up
    /\ drilling' = on
    /\ target' = Clamp(wanted)
    /\ UNCHANGED <<runVars, completed, real, inCycle, cyc>>

\* emergency_panic_stop's write; a cycle under way goes on.
PanicStop ==
    /\ up /\ drilling
    /\ drilling' = FALSE
    /\ UNCHANGED <<runVars, target, completed, real, inCycle, cyc>>

\* The scheduler, POST /api/runs, the live pilot.
OtherLaunch(r) ==
    /\ up
    /\ Launch(r)
    /\ UNCHANGED drillVars

\* Threads die where they stand; rows and settings stay.
Crash ==
    /\ RunsCrash
    /\ inCycle' = FALSE
    /\ cyc' = [c \in Cycles |->
                 IF Idle(c) THEN cyc[c] ELSE Remains(c, cyc[c].row, cyc[c].counted)]
    /\ UNCHANGED <<drilling, target, completed, real>>

Restart == RunsRestart /\ UNCHANGED drillVars

Workflow(r) == WorkflowStep(r) /\ UNCHANGED drillVars

Next ==
    \/ \E c \in Cycles, dry \in BOOLEAN : BeginByRequest(c, dry)
    \/ \E c \in Cycles : CycleStep(c) \/ LoopBegins(c)
    \/ LoopDisables
    \/ \E on \in BOOLEAN, wanted \in 0..(MaxTarget + 1) : Configure(on, wanted)
    \/ PanicStop
    \/ \E r \in RunIds : OtherLaunch(r) \/ Workflow(r)
    \/ Crash \/ Restart

Spec == Init /\ [][Next]_vars

\* The cycle's waits have deadlines and its requests timeouts; the loop looks
\* every five seconds; compose restarts the server.
LiveSpec ==
    /\ Spec
    /\ WF_vars(LoopDisables) /\ WF_vars(Restart)
    /\ \A c \in Cycles : WF_vars(CycleStep(c))

-----------------------------------------------------------------------------
\* A cycle whose workflow run completed with accepted or cleaned-up orders.
Proven(c) == cyc[c].evidence /\ ~cyc[c].dry

\* "Real Testnet drill cycles now require order evidence before incrementing
\* the go-live counter" (README.md:34): overlapping cycles, whose reads and
\* writes of the counter interleave, never push it above the number of cycles
\* that have evidence, and no row is marked as counted without it.
RealHasEvidence ==
    /\ real <= Cardinality({c \in Cycles : Proven(c)})
    /\ \A c \in Cycles : cyc[c].counted => Proven(c)

\* Evidence is only taken from the cycle's own run, and that run completed: two
\* cycles never share a run.
EvidenceIsOwn ==
    \A c \in Cycles : cyc[c].evidence =>
        /\ status[cyc[c].run] = "completed"
        /\ \A d \in Cycles \ {c} : cyc[d].run # cyc[c].run

\* A cycle ends, with its thread, however its run, its rivals for ACTIVE_RUNS
\* and its checks behave: no request and no loop waits for a run for ever.
CyclesEnd == \A c \in Cycles : cyc[c].step = "wait" ~> cyc[c].step = "end"

\* An enabled drill that has reached its target is disabled (or given a new
\* target), though the cycle that reached it was a request's, or died, or had
\* its count overwritten.
DrillStops == drilling /\ completed >= target ~> ~drilling \/ completed < target

\* "real_cycle_counted so a server handoff can prove exactly which Binance
\* Testnet cycle counted" (README.md:35): the counter is backed by marked rows,
\* or by a cycle that is about to mark its row.
CountIsProved ==
    real <= Cardinality({c \in Cycles : cyc[c].counted \/ cyc[c].step \in {"total", "row"}})
=============================================================================
