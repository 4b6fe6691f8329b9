------------------------------ MODULE Scheduler ------------------------------
(***************************************************************************)
(* The scheduler (src/app/server.py): its settings, its loop, a run-now    *)
(* request, a configure request and the panic stop's write, over the runs  *)
(* of module Runs.  Settings are read and written one at a time under      *)
(* DB_LOCK, so a handler and the loop interleave between any two accesses. *)
(***************************************************************************)
EXTENDS Runs

VARIABLES
    enabled,  \* scheduler_enabled
    nextRun,  \* scheduler_next_run_at: unset, later, or due
    loop,     \* where the loop stands
    now,      \* where a run-now request stands
    conf,     \* the configure request: step, whether its body asks for on,
              \* the value of enabled it will write, whether it renews nextRun
    late,     \* runs launched by the loop since the scheduler was disabled
    halted    \* has a panic stop disabled it, and no request enabled it since?

schedVars == <<enabled, nextRun, loop, now, conf, late, halted>>
vars == <<runVars, schedVars>>

LoopSteps == {"wait", "repair", "check", "trigger", "book", "except"}
Confs == [step : {"idle", "enable", "renew"}, asked : BOOLEAN,
          enabled : BOOLEAN, renew : BOOLEAN]
NoConf == [step |-> "idle", asked |-> FALSE, enabled |-> FALSE, renew |-> FALSE]

TypeOK ==
    /\ RunsTypeOK
    /\ enabled \in BOOLEAN
    /\ nextRun \in {"unset", "later", "due"}
    /\ loop \in LoopSteps
    /\ now \in {"idle", "book"}
    /\ conf \in Confs
    /\ late \in Nat
    /\ halted \in BOOLEAN

Init ==
    /\ RunsInit
    /\ enabled = FALSE
    /\ nextRun = "unset"
    /\ loop = "wait"
    /\ now = "idle"
    /\ conf = NoConf
    /\ late = 0
    /\ halted = FALSE

-----------------------------------------------------------------------------
(* The loop. *)

\* The interval of the schedule elapses.
TimePasses ==
    /\ nextRun = "later"
    /\ nextRun' = "due"
    /\ UNCHANGED <<runVars, enabled, loop, now, conf, late, halted>>

\* Mutant: an enabled scheduler without a next run time is left alone.
WakeUnrepaired ==
    /\ up /\ loop = "wait" /\ enabled /\ nextRun = "due"
    /\ loop' = "check"
    /\ UNCHANGED <<runVars, enabled, nextRun, now, conf, late, halted>>

\* scheduler_status, and the branch on what it read.
Wake ==
    /\ up /\ loop = "wait" /\ enabled /\ nextRun # "later"
    /\ loop' = IF nextRun = "unset" THEN "repair" ELSE "check"
    /\ UNCHANGED <<runVars, enabled, nextRun, now, conf, late, halted>>

\* The next run is put off: unset before, a run is active, or an exception.
PutOff ==
    /\ up
    /\ \/ loop \in {"repair", "except"}
       \/ loop = "check" /\ active # {}
    /\ nextRun' = "later"
    /\ loop' = "wait"
    /\ UNCHANGED <<runVars, enabled, now, conf, late, halted>>

FindIdle ==
    /\ up /\ loop = "check" /\ active = {}
    /\ loop' = "trigger"
    /\ UNCHANGED <<runVars, enabled, nextRun, now, conf, late, halted>>

\* Mutant: the loop does not go back to read its settings after a launch.
TriggerAgain(r) ==
    /\ up /\ loop \in {"trigger", "book"}
    /\ Launch(r)
    /\ loop' = "book"
    /\ late' = IF enabled THEN late ELSE late + 1
    /\ UNCHANGED <<enabled, nextRun, now, conf, halted>>

\* trigger_scheduler_run: a launch, then its settings.
Trigger(r) ==
    /\ up /\ loop = "trigger"
    /\ Launch(r)
    /\ loop' = "book"
    /\ late' = IF enabled THEN late ELSE late + 1
    /\ UNCHANGED <<enabled, nextRun, now, conf, halted>>

TriggerRaises ==
    /\ up /\ loop = "trigger"
    /\ LaunchRaises
    /\ loop' = "except"
    /\ UNCHANGED <<enabled, nextRun, now, conf, late, halted>>

Book ==
    /\ up /\ loop = "book"
    /\ nextRun' = "later"
    /\ loop' = "wait"
    /\ UNCHANGED <<runVars, enabled, now, conf, late, halted>>

-----------------------------------------------------------------------------
(* The requests. *)

RunNow(r) ==
    /\ up /\ now = "idle"
    /\ Launch(r)
    /\ now' = "book"
    /\ UNCHANGED <<enabled, nextRun, loop, conf, late, halted>>

RunNowBooks ==
    /\ up /\ now = "book"
    /\ nextRun' = "later"
    /\ now' = "idle"
    /\ UNCHANGED <<runVars, enabled, loop, conf, late, halted>>

\* configure_scheduler reads the settings; a body without "enabled" keeps the
\* value read here.  change: symbol, mode or interval differ.
Configure(body, change) ==
    /\ up /\ conf.step = "idle"
    /\ LET wanted == body = "on" \/ (body = "keep" /\ enabled)
       IN  conf' = [step |-> "enable", asked |-> body = "on", enabled |-> wanted,
                    renew |-> wanted /\ (~enabled \/ change)]
    /\ UNCHANGED <<runVars, enabled, nextRun, loop, now, late, halted>>

ConfigureEnables ==
    /\ up /\ conf.step = "enable"
    /\ enabled' = conf.enabled
    /\ late' = 0
    /\ halted' = (halted /\ ~conf.asked)
    /\ conf' = [conf EXCEPT !.step = "renew"]
    /\ UNCHANGED <<runVars, nextRun, loop, now>>

ConfigureRenews ==
    /\ up /\ conf.step = "renew"
    /\ nextRun' = IF ~conf.enabled THEN "unset"
                  ELSE IF conf.renew THEN "later" ELSE nextRun
    /\ conf' = NoConf
    /\ UNCHANGED <<runVars, enabled, loop, now, late, halted>>

\* emergency_panic_stop's write, among its others.
PanicStop ==
    /\ up
    /\ enabled' = FALSE
    /\ late' = IF enabled THEN 0 ELSE late
    /\ halted' = TRUE
    /\ UNCHANGED <<runVars, nextRun, loop, now, conf>>

Crash ==
    /\ RunsCrash
    /\ loop' = "wait"
    /\ now' = "idle"
    /\ conf' = NoConf
    /\ UNCHANGED <<enabled, nextRun, late, halted>>

Restart == RunsRestart /\ UNCHANGED schedVars

Workflow(r) == WorkflowStep(r) /\ UNCHANGED schedVars

LoopStep ==
    \/ Wake \/ PutOff \/ FindIdle \/ TriggerRaises \/ Book
    \/ \E r \in RunIds : Trigger(r)

Next ==
    \/ LoopStep \/ TimePasses
    \/ RunNowBooks \/ ConfigureEnables \/ ConfigureRenews \/ PanicStop
    \/ \E r \in RunIds : RunNow(r) \/ Workflow(r)
    \/ \E body \in {"on", "off", "keep"}, change \in BOOLEAN : Configure(body, change)
    \/ Crash \/ Restart

Spec == Init /\ [][Next]_vars

\* Every request to the model and the venue has a timeout, so a workflow ends;
\* the loop sleeps five seconds between two looks; compose restarts the server.
Fairness ==
    /\ WF_vars(LoopStep)
    /\ WF_vars(ConfigureEnables) /\ WF_vars(ConfigureRenews) /\ WF_vars(Restart)
    /\ \A r \in RunIds : WF_vars(Workflow(r))

LiveSpec == Spec /\ Fairness

-----------------------------------------------------------------------------
\* A scheduler that was disabled, by a request or by a panic stop, launches at
\* most one more run: the one its loop was about to launch.
LateOnce == late <= 1

\* Settings are written one by one by the loop, by requests and by the panic
\* stop, and a disable racing an enable can leave the scheduler enabled with no
\* next run time.  The loop repairs that: an enabled scheduler gets its time.
Rearmed == enabled /\ nextRun = "unset" ~> nextRun # "unset" \/ ~enabled

\* A run that has been launched leaves ACTIVE_RUNS, whatever becomes of it;
\* otherwise no other run would ever be launched.
RunsGiveWay == \A r \in RunIds : r \in active ~> r \notin active

\* A panic stop "disables scheduler" (README.md:28): it stays disabled until a
\* request asks for it.
PanicDisables == halted => ~enabled
=============================================================================
