----------------------------- MODULE Runs_proofs -----------------------------
(***************************************************************************)
(* What every module that composes Runs needs: the steps of Runs keep      *)
(* exclusion, whatever else happens in the step.                           *)
(***************************************************************************)
EXTENDS Runs, TLAPS

\* Exclusion is inductive by itself: ACTIVE_RUNS is empty at a launch, so no
\* thread is alive then.
RunsInv == RunsTypeOK /\ OneWorkflow

RunsStep ==
    \/ \E r \in RunIds : Launch(r) \/ WorkflowStep(r)
    \/ RunsCrash \/ RunsRestart
    \/ UNCHANGED runVars

\* The empty table satisfies the invariant.
LEMMA RunsInitInv == RunsInit => RunsInv
BY RunsAssumption DEF RunsInit, RunsInv, RunsTypeOK, OneWorkflow, RunIds,
   Statuses, Threads, Alive

\* No step of the runs breaks the exclusion of ACTIVE_RUNS.
LEMMA RunsStepInv == RunsInv /\ RunsStep => RunsInv'
<1> SUFFICES ASSUME RunsInv, RunsStep PROVE RunsInv'
    OBVIOUS
<1> USE RunsAssumption DEF RunsInv, RunsTypeOK, OneWorkflow, Statuses, Threads,
        Alive, Ended, RunIds
<1>1. CASE \E r \in RunIds : Launch(r)
    BY <1>1 DEF Launch
<1>2. CASE \E r \in RunIds, result \in Ended : WorkflowEnds(r, result)
    BY <1>2 DEF WorkflowEnds
<1>3. CASE \E r \in RunIds : WorkflowDiscards(r)
    BY <1>3 DEF WorkflowDiscards
<1>4. CASE RunsCrash
  <2>1. \A r \in RunIds : wf'[r] \in {"none", "gone"}
      BY <1>4 DEF RunsCrash
  <2>2. wf' \in [RunIds -> Threads]
      BY <1>4, <2>1 DEF RunsCrash
  <2>3. crashes' \in 0..MaxCrashes
      BY <1>4 DEF RunsCrash
  <2>4. up' \in BOOLEAN /\ active' \subseteq RunIds /\ status' \in [RunIds -> Statuses]
      BY <1>4 DEF RunsCrash
  <2>5. OneWorkflow'
      BY <1>4, <2>1 DEF RunsCrash
  <2> QED BY <2>2, <2>3, <2>4, <2>5
<1>5. CASE RunsRestart \/ UNCHANGED runVars
    BY <1>5 DEF RunsRestart, runVars
<1> QED BY <1>1, <1>2, <1>3, <1>4, <1>5 DEF RunsStep, WorkflowStep
=============================================================================
