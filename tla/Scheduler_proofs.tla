-------------------------- MODULE Scheduler_proofs --------------------------
(***************************************************************************)
(* Proofs about Scheduler, for any number of runs and crashes.             *)
(***************************************************************************)
EXTENDS Scheduler, Runs_proofs

\* Every step of the scheduler's module is a step of Runs.
LEMMA RunsInside == [Next]_vars => RunsStep
<1> SUFFICES ASSUME [Next]_vars PROVE RunsStep
    OBVIOUS
<1> USE DEF RunsStep, runVars
<1>1. CASE \E r \in RunIds : RunNow(r) \/ Workflow(r) \/ Trigger(r)
    BY <1>1 DEF RunNow, Workflow, Trigger
<1>2. CASE Wake \/ PutOff \/ FindIdle \/ TriggerRaises \/ Book \/ TimePasses
    BY <1>2 DEF Wake, PutOff, FindIdle, TriggerRaises, LaunchRaises, Book, TimePasses
<1>3. CASE RunNowBooks \/ ConfigureEnables \/ ConfigureRenews \/ PanicStop
    BY <1>3 DEF RunNowBooks, ConfigureEnables, ConfigureRenews, PanicStop
<1>4. CASE \E body \in {"on", "off", "keep"}, change \in BOOLEAN : Configure(body, change)
    BY <1>4 DEF Configure
<1>5. CASE Crash \/ Restart \/ UNCHANGED vars
    BY <1>5 DEF Crash, Restart, vars
<1> QED BY <1>1, <1>2, <1>3, <1>4, <1>5 DEF Next, LoopStep

LEMMA NoConfType == NoConf \in Confs
BY DEF NoConf, Confs

\* The settings and the steps of the threads stay of their types.
LEMMA TypeNext == TypeOK /\ RunsTypeOK' /\ [Next]_vars => TypeOK'
<1> SUFFICES ASSUME TypeOK, RunsTypeOK', [Next]_vars PROVE TypeOK'
    OBVIOUS
<1> USE DEF TypeOK, LoopSteps, runVars
<1>1. CASE \E r \in RunIds : RunNow(r) \/ Workflow(r) \/ Trigger(r)
    BY <1>1 DEF RunNow, Workflow, Trigger, schedVars
<1>2. CASE Wake \/ PutOff \/ FindIdle \/ Book \/ TimePasses
    BY <1>2 DEF Wake, PutOff, FindIdle, Book, TimePasses
<1>6. CASE TriggerRaises
    BY <1>6 DEF TriggerRaises, LaunchRaises
<1>3. CASE RunNowBooks
    BY <1>3 DEF RunNowBooks
<1>9. CASE PanicStop
  <2>1. enabled' \in BOOLEAN /\ halted' \in BOOLEAN
      BY <1>9 DEF PanicStop
  <2>2. late' \in Nat
      BY <1>9 DEF PanicStop
  <2> QED BY <1>9, <2>1, <2>2 DEF PanicStop
<1>7. CASE ConfigureEnables
  <2>1. conf' \in Confs /\ enabled' \in BOOLEAN
      BY <1>7 DEF ConfigureEnables, Confs
  <2>2. halted' \in BOOLEAN /\ late' \in Nat
      BY <1>7 DEF ConfigureEnables
  <2> QED BY <1>7, <2>1, <2>2 DEF ConfigureEnables
<1>8. CASE ConfigureRenews
    BY <1>8, NoConfType DEF ConfigureRenews
<1>4. CASE \E body \in {"on", "off", "keep"}, change \in BOOLEAN : Configure(body, change)
    BY <1>4 DEF Configure, Confs
<1>5. CASE Crash \/ Restart \/ UNCHANGED vars
    BY <1>5, NoConfType DEF Crash, Restart, vars, schedVars
<1> QED BY <1>1, <1>2, <1>3, <1>4, <1>5, <1>6, <1>7, <1>8, <1>9 DEF Next, LoopStep

\* Once the loop has launched its late run it cannot get past its own look at
\* the settings, and a request or a panic stop starts the count afresh.
LateInv ==
    \/ late = 0
    \/ late = 1 /\ ~enabled /\ loop \notin {"check", "trigger"}

LEMMA LateNext == TypeOK /\ LateInv /\ [Next]_vars => LateInv'
<1> SUFFICES ASSUME TypeOK, LateInv, [Next]_vars PROVE LateInv'
    OBVIOUS
<1> USE DEF TypeOK, LoopSteps, LateInv, runVars
<1>1. CASE \E r \in RunIds : RunNow(r) \/ Workflow(r) \/ Trigger(r)
    BY <1>1 DEF RunNow, Workflow, Trigger, schedVars
<1>2. CASE Wake \/ PutOff \/ FindIdle \/ Book \/ TimePasses
    BY <1>2 DEF Wake, PutOff, FindIdle, Book, TimePasses
<1>6. CASE TriggerRaises
    BY <1>6 DEF TriggerRaises, LaunchRaises
<1>3. CASE RunNowBooks \/ PanicStop
    BY <1>3 DEF RunNowBooks, PanicStop
<1>7. CASE ConfigureEnables
    BY <1>7 DEF ConfigureEnables
<1>8. CASE ConfigureRenews
    BY <1>8 DEF ConfigureRenews
<1>4. CASE \E body \in {"on", "off", "keep"}, change \in BOOLEAN : Configure(body, change)
    BY <1>4 DEF Configure
<1>5. CASE Crash \/ Restart \/ UNCHANGED vars
    BY <1>5 DEF Crash, Restart, vars, schedVars
<1> QED BY <1>1, <1>2, <1>3, <1>4, <1>5, <1>6, <1>7, <1>8 DEF Next, LoopStep

-----------------------------------------------------------------------------
IInv == RunsInv /\ TypeOK /\ LateInv

LEMMA InitInv == Init => IInv
<1>1. Init => RunsInv
    BY RunsInitInv DEF Init
<1>2. Init => LateInv
    BY DEF Init, LateInv
<1>3. Init => TypeOK
  <2> SUFFICES ASSUME Init PROVE TypeOK
      OBVIOUS
  <2>1. enabled \in BOOLEAN /\ halted \in BOOLEAN
      BY DEF Init
  <2>2. late \in Nat /\ conf \in Confs
      BY NoConfType DEF Init
  <2>3. nextRun \in {"unset", "later", "due"} /\ loop \in LoopSteps /\ now \in {"idle", "book"}
      BY DEF Init, LoopSteps
  <2> QED BY <1>1, <2>1, <2>2, <2>3 DEF RunsInv, TypeOK
<1> QED BY <1>1, <1>2, <1>3 DEF IInv

LEMMA NextInv == IInv /\ [Next]_vars => IInv'
<1> SUFFICES ASSUME IInv, [Next]_vars PROVE IInv'
    OBVIOUS
<1>1. RunsInv'
    BY RunsInside, RunsStepInv DEF IInv
<1>2. TypeOK' /\ LateInv'
    BY <1>1, TypeNext, LateNext DEF IInv, RunsInv
<1> QED BY <1>1, <1>2 DEF IInv

LEMMA Always == Spec => []IInv
BY InitInv, NextInv, PTL DEF Spec

\* Every reachable state of the scheduler has the declared types.
THEOREM TypeCorrect == Spec => []TypeOK
BY Always, PTL DEF IInv

\* Loop, run-now requests and any number of crashes: one workflow at a time.
THEOREM Exclusion == Spec => []OneWorkflow
BY Always, PTL DEF IInv, RunsInv

\* A disabled scheduler launches at most the run its loop was about to launch.
THEOREM LateTheorem == Spec => []LateOnce
<1>1. IInv => LateOnce
    BY DEF IInv, LateInv, LateOnce
<1> QED BY <1>1, Always, PTL
=============================================================================
