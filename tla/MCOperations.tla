----------------------------- MODULE MCOperations -----------------------------
(***************************************************************************)
(* The components whose properties include liveness and that share no      *)
(* state with one another, in one run: focus names the one that moves, the *)
(* others rest in their initial states.  The fairness is theirs, for the   *)
(* component in focus; a component at rest owes nothing.                   *)
(***************************************************************************)
EXTENDS ReadinessRunner, AiOperator, LivePilot, DrillRunner, Alerts

MCPlan == <<"prerequisite", "prerequisite", "evidence">>
MCWatchOrder == <<"stop", "recovery">>
MCOptions == {{}, {"arm"}, {"launch"}, {"attest", "arm", "launch"}, {"arm", "launch", "keep_armed"}}
MCMessages ==
    {<<a>> : a \in Edits}
    \cup {<<[kind |-> "patch_delete", file |-> f], [kind |-> "patch_add", file |-> f, text |-> p]>> :
            f \in Files, p \in Passages}
    \cup {<<[kind |-> "replace", file |-> f, text |-> p], [kind |-> "patch_delete", file |-> f]>> :
            f \in Files, p \in Passages}

VARIABLE focus

operationVars == <<focus, runnerVars, operatorVars, pilotVars, drillVars, alertVars>>

OperationsInit ==
    /\ focus \in {"runner", "operator", "pilot", "drill", "alerts"}
    /\ RunnerInit /\ OperatorInit /\ PilotInit /\ DrillInit /\ AlertsInit
    /\ focus # "operator" => \A f \in Files : file[f] = Absent
    /\ focus # "pilot" => script.options = {} /\ ~gates
    /\ focus # "drill" => ~drill.goesOn /\ ~drill.dryRun /\ counter = 0 /\ ~scheduled /\ ~busy

InRunner(step) ==
    /\ focus = "runner" /\ step
    /\ UNCHANGED <<focus, operatorVars, pilotVars, drillVars, alertVars>>

InOperator(step) ==
    /\ focus = "operator" /\ step
    /\ UNCHANGED <<focus, runnerVars, pilotVars, drillVars, alertVars>>

InPilot(step) ==
    /\ focus = "pilot" /\ step
    /\ UNCHANGED <<focus, runnerVars, operatorVars, drillVars, alertVars>>

InDrill(step) ==
    /\ focus = "drill" /\ step
    /\ UNCHANGED <<focus, runnerVars, operatorVars, pilotVars, alertVars>>

InAlerts(step) ==
    /\ focus = "alerts" /\ step
    /\ UNCHANGED <<focus, runnerVars, operatorVars, pilotVars, drillVars>>

OperationsNext ==
    \/ InRunner(RunnerNext) \/ InOperator(OperatorNext) \/ InPilot(PilotNext)
    \/ InDrill(DrillNext) \/ InAlerts(AlertsNext)

OperationsFairness ==
    /\ WF_runnerVars(focus = "runner" /\ RunnerStep)
    /\ \A a \in Dashboards :
         WF_runnerVars(focus = "runner" /\ (AskThread(a) \/ AskStatus(a) \/ Repair(a)))
    /\ \A c \in Chats : WF_operatorVars(focus = "operator" /\ Work(c))
    /\ WF_pilotVars(focus = "pilot" /\ (Skip \/ Post \/ PostAnswered \/ Read \/ FinallyDisarm))
    /\ WF_pilotVars(focus = "pilot" /\ answer # "none" /\ Fails)
    /\ WF_pilotVars(focus = "pilot" /\ DisarmFails)
    /\ WF_pilotVars(focus = "pilot" /\ Deadline)
    /\ WF_drillVars(focus = "drill" /\ RunnerGoesOn)
    /\ WF_drillVars(focus = "drill" /\ drill.at = "answer" /\ GiveUp)
    /\ WF_drillVars(focus = "drill" /\ OtherEnds)
    /\ \A t \in Threads : WF_alertVars(focus = "alerts" /\ ThreadStep(t))

OperationsSpec ==
    OperationsInit /\ [][OperationsNext]_operationVars /\ OperationsFairness

-----------------------------------------------------------------------------
\* Whatever hangs, fails, is refused or is killed: the runner's thread ends and a
\* status that claims a run nobody carries out is repaired, every chat message
\* that was taken up is answered, and both scripts come to their end, the drill
\* script unless the server answers it 409 for ever.
EveryTaskEnds == RunnerEnds /\ EveryAskAnswered /\ PilotEnds /\ DrillRunnerEnds
===============================================================================
