------------------------ MODULE LiveControl_proofs ------------------------
(* The invariants of LiveControl, for any budget and any number of arm     *)
(* requests and panic stops.                                               *)
EXTENDS LiveControl, TLAPS

USE DEF Modes, Consuming, WfSteps

LEMMA InitIInv == Init => IInv
<1> SUFFICES ASSUME Init PROVE IInv
  OBVIOUS
<1> USE LiveControlAssumption DEF Init
<1>1. TypeOK
  <2>1. /\ stop \in BOOLEAN /\ window \in BOOLEAN /\ up \in BOOLEAN
        /\ authorized \in BOOLEAN /\ shut \in BOOLEAN
    OBVIOUS
  <2>2. /\ count \in 0..Max /\ seen \in 0..Max
        /\ released \in Nat /\ late \in Nat /\ leaked \in Nat
    OBVIOUS
  <2>3. wf \in WfSteps /\ mode \in Modes
    OBVIOUS
  <2>4. /\ arm \in [Armers -> {"idle", "checked", "opened"}]
        /\ panic \in [Panics -> {"idle", "stopped", "disarmed"}]
    OBVIOUS
  <2> QED BY <2>1, <2>2, <2>3, <2>4 DEF TypeOK
<1>2. BudgetInv /\ LateInv
  BY DEF BudgetInv, LateInv
<1>3. PanicInv /\ WindowInv
  BY DEF PanicInv, WindowInv, NoInheritedWindow
<1> QED BY <1>1, <1>2, <1>3 DEF IInv

LEMMA TypeStep == TypeOK /\ BudgetInv /\ [Next]_vars => TypeOK'
<1> SUFFICES ASSUME TypeOK, BudgetInv, [Next]_vars PROVE TypeOK'
  OBVIOUS
<1> USE LiveControlAssumption DEF TypeOK, settings, ghosts
<1>1. ASSUME WorkflowStep PROVE TypeOK'
  <2>1. CASE \E m \in Modes : LaunchRun(m)
    BY <2>1 DEF LaunchRun
  <2>2. CASE RiskCheck \/ ExecuteOrder \/ WorkflowRaises \/ GateStop \/ GateArming \/ ConsumeWindow
    BY <2>2 DEF RiskCheck, ExecuteOrder, WorkflowRaises, GateStop, GateArming, ConsumeWindow
  <2>3. CASE ConsumeCount
    BY <2>3 DEF ConsumeCount
  <2>4. CASE ConsumeWrite
    BY <2>4 DEF ConsumeWrite, BudgetInv
  <2>5. CASE Post
    BY <2>5 DEF Post
  <2> QED BY <1>1, <2>1, <2>2, <2>3, <2>4, <2>5 DEF WorkflowStep
<1>2. ASSUME NEW a \in Armers, ArmStep(a) PROVE TypeOK'
  <2>1. CASE ArmCheck(a)
    BY <2>1 DEF ArmCheck
  <2>2. CASE ArmOpen(a)
    BY <2>2 DEF ArmOpen
  <2>3. CASE ArmReset(a)
    BY <2>3 DEF ArmReset
  <2> QED BY <1>2, <2>1, <2>2, <2>3 DEF ArmStep
<1>3. ASSUME NEW q \in Panics, PanicStep(q) PROVE TypeOK'
  <2>1. CASE PanicStop(q)
    BY <2>1 DEF PanicStop
  <2>2. CASE PanicDisarm(q)
    BY <2>2 DEF PanicDisarm
  <2>3. CASE PanicReturn(q)
    BY <2>3 DEF PanicReturn
  <2> QED BY <1>3, <2>1, <2>2, <2>3 DEF PanicStep
<1>4. CASE EmergencyStop
  BY <1>4 DEF EmergencyStop
<1>5. CASE ResetStop
  BY <1>5 DEF ResetStop
<1>6. CASE Disarm
  BY <1>6 DEF Disarm
<1>7. CASE Expire
  BY <1>7 DEF Expire
<1>8. CASE Crash
  BY <1>8 DEF Crash
<1>9. CASE Restart
  BY <1>9 DEF Restart
<1>10. CASE UNCHANGED vars
  BY <1>10 DEF vars
<1> QED
  BY <1>1, <1>2, <1>3, <1>4, <1>5, <1>6, <1>7, <1>8, <1>9, <1>10 DEF Next

\* The budget: what a run will write is one more than what it read, and what it
\* read was no less than what had been released; a reset meanwhile lowers only
\* what had been released.
LEMMA BudgetStep == TypeOK /\ BudgetInv /\ [Next]_vars => BudgetInv'
<1> SUFFICES ASSUME TypeOK, BudgetInv, [Next]_vars PROVE BudgetInv'
  OBVIOUS
<1> USE LiveControlAssumption DEF TypeOK, BudgetInv, settings, ghosts
<1>1. ASSUME WorkflowStep PROVE BudgetInv'
  BY <1>1 DEF WorkflowStep, LaunchRun, RiskCheck, ExecuteOrder, WorkflowRaises, GateStop,
     GateArming, ConsumeWindow, ConsumeCount, ConsumeWrite, Post, HasBudget
<1>2. ASSUME NEW a \in Armers, ArmStep(a) PROVE BudgetInv'
  BY <1>2 DEF ArmStep, ArmCheck, ArmOpen, ArmReset
<1>3. ASSUME NEW q \in Panics, PanicStep(q) PROVE BudgetInv'
  BY <1>3 DEF PanicStep, PanicStop, PanicDisarm, PanicReturn
<1>4. CASE EmergencyStop \/ ResetStop \/ Disarm \/ Expire
  BY <1>4 DEF EmergencyStop, ResetStop, Disarm, Expire
<1>5. CASE Crash \/ Restart
  BY <1>5 DEF Crash, Restart
<1>6. CASE UNCHANGED vars
  BY <1>6 DEF vars
<1> QED BY <1>1, <1>2, <1>3, <1>4, <1>5, <1>6 DEF Next

\* Lateness: once a late entry is out, the window is shut and no run is past
\* the read that only an open window lets through.
LEMMA LateStep == TypeOK /\ LateInv /\ [Next]_vars => LateInv'
<1> SUFFICES ASSUME TypeOK, LateInv, [Next]_vars PROVE LateInv'
  OBVIOUS
<1> USE DEF TypeOK, LateInv, settings, ghosts
<1>1. ASSUME WorkflowStep PROVE LateInv'
  BY <1>1 DEF WorkflowStep, LaunchRun, RiskCheck, ExecuteOrder, WorkflowRaises, GateStop,
     GateArming, ConsumeWindow, ConsumeCount, ConsumeWrite, Post, TimeActive
<1>2. ASSUME NEW a \in Armers, ArmStep(a) PROVE LateInv'
  BY <1>2 DEF ArmStep, ArmCheck, ArmOpen, ArmReset
<1>3. ASSUME NEW q \in Panics, PanicStep(q) PROVE LateInv'
  BY <1>3 DEF PanicStep, PanicStop, PanicDisarm, PanicReturn
<1>4. CASE EmergencyStop \/ ResetStop \/ Disarm \/ Expire
  BY <1>4 DEF EmergencyStop, ResetStop, Disarm, Expire
<1>5. CASE Crash \/ Restart
  BY <1>5 DEF Crash, Restart
<1>6. CASE UNCHANGED vars
  BY <1>6 DEF vars
<1> QED BY <1>1, <1>2, <1>3, <1>4, <1>5, <1>6 DEF Next

\* The panic stop: the one run that leaks was past its risk check; the next one
\* meets the flag there.
LEMMA PanicInvStep == TypeOK /\ PanicInv /\ [Next]_vars => PanicInv'
<1> SUFFICES ASSUME TypeOK, PanicInv, [Next]_vars PROVE PanicInv'
  OBVIOUS
<1> USE DEF TypeOK, PanicInv, settings, ghosts
<1>1. ASSUME WorkflowStep PROVE PanicInv'
  BY <1>1 DEF WorkflowStep, LaunchRun, RiskCheck, ExecuteOrder, WorkflowRaises, GateStop,
     GateArming, ConsumeWindow, ConsumeCount, ConsumeWrite, Post
<1>2. ASSUME NEW a \in Armers, ArmStep(a) PROVE PanicInv'
  BY <1>2 DEF ArmStep, ArmCheck, ArmOpen, ArmReset
<1>3. ASSUME NEW q \in Panics, PanicStep(q) PROVE PanicInv'
  BY <1>3 DEF PanicStep, PanicStop, PanicDisarm, PanicReturn
<1>4. CASE EmergencyStop \/ ResetStop \/ Disarm \/ Expire
  BY <1>4 DEF EmergencyStop, ResetStop, Disarm, Expire
<1>5. CASE Crash \/ Restart
  BY <1>5 DEF Crash, Restart
<1>6. CASE UNCHANGED vars
  BY <1>6 DEF vars
<1> QED BY <1>1, <1>2, <1>3, <1>4, <1>5, <1>6 DEF Next

\* The window: the process that has it open was asked to open it.
LEMMA WindowStep == TypeOK /\ WindowInv /\ [Next]_vars => WindowInv'
<1> SUFFICES ASSUME TypeOK, WindowInv, [Next]_vars PROVE WindowInv'
  OBVIOUS
<1> USE DEF TypeOK, WindowInv, NoInheritedWindow, settings, ghosts
<1>1. ASSUME WorkflowStep PROVE WindowInv'
  BY <1>1 DEF WorkflowStep, LaunchRun, RiskCheck, ExecuteOrder, WorkflowRaises, GateStop,
     GateArming, ConsumeWindow, ConsumeCount, ConsumeWrite, Post, TimeActive
<1>2. ASSUME NEW a \in Armers, ArmStep(a) PROVE WindowInv'
  BY <1>2 DEF ArmStep, ArmCheck, ArmOpen, ArmReset
<1>3. ASSUME NEW q \in Panics, PanicStep(q) PROVE WindowInv'
  BY <1>3 DEF PanicStep, PanicStop, PanicDisarm, PanicReturn
<1>4. CASE EmergencyStop \/ ResetStop \/ Disarm \/ Expire
  BY <1>4 DEF EmergencyStop, ResetStop, Disarm, Expire
<1>5. CASE Crash \/ Restart
  BY <1>5 DEF Crash, Restart
<1>6. CASE UNCHANGED vars
  BY <1>6 DEF vars
<1> QED BY <1>1, <1>2, <1>3, <1>4, <1>5, <1>6 DEF Next

THEOREM Invariance == Spec => []IInv
<1>1. IInv /\ [Next]_vars => IInv'
  BY TypeStep, BudgetStep, LateStep, PanicInvStep, WindowStep DEF IInv
<1> QED BY InitIInv, <1>1, PTL DEF Spec

\* Every variable keeps its range; the count never exceeds the budget.
THEOREM TypeCorrect == Spec => []TypeOK
<1>1. IInv => TypeOK BY DEF IInv
<1> QED BY Invariance, <1>1, PTL

\* No more than the budget is released between two resets of the count.
THEOREM BudgetTheorem == Spec => []BudgetKept
<1>1. IInv => BudgetKept
  BY LiveControlAssumption DEF IInv, TypeOK, BudgetInv, BudgetKept
<1> QED BY Invariance, <1>1, PTL

\* Once the window is shut, at most one more live entry is POSTed.
THEOREM LateTheorem == Spec => []AtMostOneLate
<1>1. IInv => AtMostOneLate BY DEF IInv, LateInv, AtMostOneLate
<1> QED BY Invariance, <1>1, PTL

\* After a panic stop has returned, at most one more entry is POSTed.
THEOREM PanicTheorem == Spec => []PanicLeaksAtMostOne
<1>1. IInv => PanicLeaksAtMostOne BY DEF IInv, PanicInv, PanicLeaksAtMostOne
<1> QED BY Invariance, <1>1, PTL

\* A restarted process releases no live entry before it has been armed.
THEOREM WindowTheorem == Spec => []NoInheritedWindow
<1>1. IInv => NoInheritedWindow BY DEF IInv, WindowInv
<1> QED BY Invariance, <1>1, PTL

\* Shut or stopped, at most one more entry is POSTed.
THEOREM LeaksTheorem == Spec => []LeaksAtMostOne
<1>1. AtMostOneLate /\ PanicLeaksAtMostOne => LeaksAtMostOne BY DEF LeaksAtMostOne
<1> QED BY LateTheorem, PanicTheorem, <1>1, PTL
=============================================================================
