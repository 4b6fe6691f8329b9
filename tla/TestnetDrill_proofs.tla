------------------------- MODULE TestnetDrill_proofs -------------------------
(***************************************************************************)
(* Proofs about TestnetDrill, for any number of cycles, runs and crashes.  *)
(***************************************************************************)
EXTENDS TestnetDrill, Runs_proofs, FiniteSetTheorems

\* Every step of the drill's module is a step of Runs.
LEMMA RunsInside == [Next]_vars => RunsStep
<1> SUFFICES ASSUME [Next]_vars PROVE RunsStep
    OBVIOUS
<1> USE DEF RunsStep, runVars
<1>1. CASE \E r \in RunIds : OtherLaunch(r) \/ Workflow(r)
    BY <1>1 DEF OtherLaunch, Workflow
<1>2. CASE \E c \in Cycles, dry \in BOOLEAN : BeginByRequest(c, dry)
    BY <1>2 DEF BeginByRequest, Begin
<1>3. CASE \E c \in Cycles : CycleStep(c)
  <2> PICK c \in Cycles : CycleStep(c)
      BY <1>3
  <2>1. CASE \E r \in RunIds : CycleLaunches(c, r)
      BY <2>1 DEF CycleLaunches
  <2>2. CASE CycleCannotLaunch(c)
      BY <2>2 DEF CycleCannotLaunch, LaunchRaises
  <2>3. CASE WaitTimesOut(c) \/ EvidencePasses(c) \/ CycleRaises(c)
      BY <2>3 DEF WaitTimesOut, EvidencePasses, CycleRaises
  <2>4. CASE \E clean \in BOOLEAN : ReadCounters(c, clean)
      BY <2>4 DEF ReadCounters
  <2>5. CASE WriteReal(c) \/ WriteTotal(c) \/ WriteRow(c)
      BY <2>5 DEF WriteReal, WriteTotal, WriteRow
  <2>6. CASE StopAtTarget(c) \/ CycleFails(c)
      BY <2>6 DEF StopAtTarget, CycleFails
  <2> QED BY <2>1, <2>2, <2>3, <2>4, <2>5, <2>6 DEF CycleStep
<1>4. CASE LoopDisables \/ \E c \in Cycles : LoopBegins(c)
    BY <1>4 DEF LoopDisables, LoopBegins, Begin
<1>5. CASE PanicStop \/ \E on \in BOOLEAN, wanted \in 0..(MaxTarget + 1) : Configure(on, wanted)
    BY <1>5 DEF PanicStop, Configure
<1>6. CASE Crash \/ Restart \/ UNCHANGED vars
    BY <1>6 DEF Crash, Restart, vars
<1> QED BY <1>1, <1>2, <1>3, <1>4, <1>5, <1>6 DEF Next

-----------------------------------------------------------------------------
(* Types. *)

LEMMA NoCycleType == NoCycle \in CycleType
BY RunsAssumption DEF NoCycle, CycleType, Steps, Rows

LEMMA RemainsType ==
    ASSUME TypeOK, NEW c \in Cycles, NEW row \in Rows, NEW counted \in BOOLEAN
    PROVE  Remains(c, row, counted) \in CycleType
BY NoCycleType DEF TypeOK, Remains, CycleType, Steps

LEMMA BecomesType ==
    ASSUME TypeOK, NEW c \in Cycles, NEW rec \in CycleType, Becomes(c, rec)
    PROVE  cyc' \in [Cycles -> CycleType]
BY DEF TypeOK, Becomes

\* A step of a cycle keeps its record of its type.
LEMMA CycleStepType ==
    ASSUME TypeOK, NEW c \in Cycles, CycleStep(c)
    PROVE  cyc' \in [Cycles -> CycleType]
<1>0. cyc[c] \in CycleType
    BY DEF TypeOK
<1>a. ASSUME NEW step \in Steps, Goto(c, step)
      PROVE  cyc' \in [Cycles -> CycleType]
  <2>1. [cyc[c] EXCEPT !.step = step] \in CycleType
      BY <1>0, <1>a DEF CycleType
  <2> QED BY <1>a, <2>1, BecomesType DEF Goto
<1>1. CASE \E r \in RunIds : CycleLaunches(c, r)
  <2> PICK r \in RunIds : CycleLaunches(c, r)
      BY <1>1
  <2>1. r \in 0..MaxRuns
      BY RunsAssumption DEF RunIds
  <2>2. [cyc[c] EXCEPT !.step = "wait", !.run = r] \in CycleType
      BY <1>0, <2>1 DEF CycleType, Steps
  <2> QED BY <2>2, BecomesType DEF CycleLaunches
<1>2. CASE CycleCannotLaunch(c) \/ WaitTimesOut(c) \/ CycleRaises(c)
    BY <1>2, <1>a DEF CycleCannotLaunch, WaitTimesOut, CycleRaises, Steps
<1>3. CASE EvidencePasses(c)
  <2>1. [cyc[c] EXCEPT !.step = "recover", !.evidence = TRUE] \in CycleType
      BY <1>0 DEF CycleType, Steps
  <2> QED BY <1>3, <2>1, BecomesType DEF EvidencePasses
<1>4. CASE \E clean \in BOOLEAN : ReadCounters(c, clean)
  <2> PICK clean \in BOOLEAN : ReadCounters(c, clean)
      BY <1>4
  <2> DEFINE rec == [cyc[c] EXCEPT !.step = IF Counts(c, clean) THEN "real" ELSE "total",
                                   !.clean = clean, !.oldTotal = completed,
                                   !.oldReal = real]
  <2>1. rec \in CycleType
      BY <1>0 DEF CycleType, Steps, TypeOK
  <2> QED BY <2>1, BecomesType DEF ReadCounters
<1>5. CASE WriteReal(c) \/ WriteTotal(c)
    BY <1>5, <1>a DEF WriteReal, WriteTotal, Steps
<1>6. CASE WriteRow(c)
  <2> DEFINE rec == [cyc[c] EXCEPT !.step = "stop",
                                   !.counted = Counts(c, cyc[c].clean),
                                   !.row = IF cyc[c].clean THEN "completed" ELSE "failed"]
  <2>1. Counts(c, cyc[c].clean) \in BOOLEAN
      BY <1>0 DEF Counts, CycleType
  <2>2. rec \in CycleType
      BY <1>0, <2>1 DEF CycleType, Steps, Rows
  <2> QED BY <1>6, <2>2, BecomesType DEF WriteRow
<1>7. CASE StopAtTarget(c)
    BY <1>0, <1>7, RemainsType, BecomesType DEF StopAtTarget, Return, CycleType
<1>8. CASE CycleFails(c)
  <2>1. Remains(c, "failed", FALSE) \in CycleType
      BY RemainsType DEF Rows
  <2> QED BY <1>8, <2>1, BecomesType DEF CycleFails, Return
<1> QED BY <1>1, <1>2, <1>3, <1>4, <1>5, <1>6, <1>7, <1>8 DEF CycleStep

\* It keeps the settings and the loop of theirs.
LEMMA CycleStepSettings ==
    ASSUME TypeOK, NEW c \in Cycles, CycleStep(c)
    PROVE  /\ drilling' \in BOOLEAN /\ target' \in 1..MaxTarget
           /\ completed' \in Nat /\ real' \in Nat /\ inCycle' \in BOOLEAN
<1> USE DEF TypeOK
<1>1. CASE \E r \in RunIds : CycleLaunches(c, r)
    BY <1>1 DEF CycleLaunches
<1>2. CASE CycleCannotLaunch(c) \/ WaitTimesOut(c) \/ CycleRaises(c) \/ EvidencePasses(c)
    BY <1>2 DEF CycleCannotLaunch, WaitTimesOut, CycleRaises, EvidencePasses
<1>3. CASE (\E clean \in BOOLEAN : ReadCounters(c, clean)) \/ WriteRow(c)
    BY <1>3 DEF ReadCounters, WriteRow
<1>4. CASE WriteReal(c) \/ WriteTotal(c)
    BY <1>4 DEF WriteReal, WriteTotal, CycleType
<1>5. CASE StopAtTarget(c)
    BY <1>5 DEF StopAtTarget, Return, CycleType
<1>6. CASE CycleFails(c)
    BY <1>6 DEF CycleFails, Return, CycleType
<1> QED BY <1>1, <1>2, <1>3, <1>4, <1>5, <1>6 DEF CycleStep

LEMMA BeginType ==
    ASSUME TypeOK, NEW c \in Cycles, NEW inLoop \in BOOLEAN, NEW dry \in BOOLEAN,
           Begin(c, inLoop, dry)
    PROVE  cyc' \in [Cycles -> CycleType]
<1> DEFINE rec == [cyc[c] EXCEPT !.step = IF dry THEN "recover" ELSE "launch",
                                 !.inLoop = inLoop, !.dry = dry,
                                 !.target = target, !.row = "running"]
<1>1. target \in Nat
    BY DrillAssumption DEF TypeOK
<1>2. cyc[c] \in CycleType
    BY DEF TypeOK
<1>3. rec \in CycleType
    BY <1>1, <1>2 DEF CycleType, Steps, Rows
<1> QED BY <1>3, BecomesType DEF Begin

LEMMA TypeInit == Init => TypeOK
<1> SUFFICES ASSUME Init PROVE TypeOK
    OBVIOUS
<1>1. RunsTypeOK
    BY RunsInitInv DEF Init, RunsInv
<1>2. target \in 1..MaxTarget
    BY DrillAssumption DEF Init
<1>3. cyc \in [Cycles -> CycleType]
    BY NoCycleType DEF Init
<1>4. drilling \in BOOLEAN /\ inCycle \in BOOLEAN
    BY DEF Init
<1>5. completed \in Nat /\ real \in Nat
    BY DEF Init
<1> QED BY <1>1, <1>2, <1>3, <1>4, <1>5 DEF TypeOK

LEMMA TypeNext == TypeOK /\ RunsTypeOK' /\ [Next]_vars => TypeOK'
<1> SUFFICES ASSUME TypeOK, RunsTypeOK', [Next]_vars PROVE TypeOK'
    OBVIOUS
<1>1. CASE \E r \in RunIds : OtherLaunch(r) \/ Workflow(r)
    BY <1>1 DEF OtherLaunch, Workflow, drillVars, TypeOK
<1>2. CASE \E c \in Cycles, dry \in BOOLEAN : BeginByRequest(c, dry)
    BY <1>2, BeginType DEF BeginByRequest, Begin, TypeOK
<1>3. CASE \E c \in Cycles : CycleStep(c)
    BY <1>3, CycleStepType, CycleStepSettings DEF TypeOK
<1>4. CASE \E c \in Cycles : LoopBegins(c)
  <2> PICK c \in Cycles : LoopBegins(c)
      BY <1>4
  <2>1. cyc' \in [Cycles -> CycleType]
      BY BeginType DEF LoopBegins
  <2>2. inCycle' \in BOOLEAN
      BY DEF LoopBegins
  <2> QED BY <2>1, <2>2 DEF LoopBegins, Begin, TypeOK
<1>5. CASE LoopDisables \/ PanicStop
    BY <1>5 DEF LoopDisables, PanicStop, TypeOK
<1>6. CASE \E on \in BOOLEAN, wanted \in 0..(MaxTarget + 1) : Configure(on, wanted)
    BY <1>6, DrillAssumption DEF Configure, Clamp, TypeOK
<1>7. CASE Crash
  <2>1. ASSUME NEW c \in Cycles PROVE Remains(c, cyc[c].row, cyc[c].counted) \in CycleType
      BY RemainsType DEF TypeOK, CycleType
  <2>2. cyc' \in [Cycles -> CycleType]
      BY <1>7, <2>1 DEF Crash, TypeOK
  <2>3. inCycle' \in BOOLEAN
      BY <1>7 DEF Crash
  <2> QED BY <1>7, <2>2, <2>3 DEF Crash, TypeOK
<1>8. CASE Restart \/ UNCHANGED vars
    BY <1>8 DEF Restart, vars, drillVars, TypeOK
<1> QED BY <1>1, <1>2, <1>3, <1>4, <1>5, <1>6, <1>7, <1>8 DEF Next

-----------------------------------------------------------------------------
(* The counter of real cycles. *)

Real(y) == y.evidence /\ ~y.dry

\* A cycle that can count has taken its evidence, and only one that can count
\* is marked.
Fit(y) ==
    /\ y.counted => Real(y) /\ y.step \in {"stop", "end"}
    /\ y.step \in {"launch", "wait"} => ~y.dry
    /\ y.step \in {"recover", "total", "row", "stop"} => y.dry \/ y.evidence
    /\ y.step = "real" => Real(y)

\* A real cycle that will not write the counter any more.
Past(y) == Real(y) /\ y.step \in {"total", "row", "stop", "except", "end"}
PastCycles == {c \in Cycles : Past(cyc[c])}

\* What a step may do to the record of a cycle.
Move(y, z) ==
    /\ Fit(z)
    /\ Past(y) => Past(z)
    /\ z.step = "real" =>
         \/ y.step = "real" /\ z.oldReal = y.oldReal
         \/ z.oldReal = real

\* The counter, and every value of it that a cycle is about to increment, is
\* backed by cycles that have left the counter behind them.
CountInv ==
    /\ \A c \in Cycles : Fit(cyc[c])
    /\ real <= Cardinality(PastCycles)
    /\ \A c \in Cycles : cyc[c].step = "real" => cyc[c].oldReal <= Cardinality(PastCycles)

LEMMA StayMoves ==
    ASSUME NEW y, Fit(y) PROVE Move(y, y)
BY DEF Move

LEMMA BecomesMoves ==
    ASSUME TypeOK, CountInv, NEW c \in Cycles, NEW rec, Becomes(c, rec), Move(cyc[c], rec)
    PROVE  \A d \in Cycles : Move(cyc[d], cyc'[d])
<1> SUFFICES ASSUME NEW d \in Cycles PROVE Move(cyc[d], cyc'[d])
    OBVIOUS
<1>1. cyc'[d] = IF d = c THEN rec ELSE cyc[d]
    BY DEF TypeOK, Becomes
<1> QED BY <1>1, StayMoves DEF CountInv

\* Every step of a cycle is such a move of its record.
LEMMA CycleStepMoves ==
    ASSUME TypeOK, CountInv, NEW c \in Cycles, CycleStep(c)
    PROVE  \A d \in Cycles : Move(cyc[d], cyc'[d])
<1>0. cyc[c] \in CycleType /\ Fit(cyc[c])
    BY DEF TypeOK, CountInv
<1> USE DEF Move, Fit, Past, Real, CycleType
<1>1. CASE \E r \in RunIds : CycleLaunches(c, r)
  <2> PICK r \in RunIds : CycleLaunches(c, r)
      BY <1>1
  <2>1. Move(cyc[c], [cyc[c] EXCEPT !.step = "wait", !.run = r])
      BY <1>0 DEF CycleLaunches, At
  <2> QED BY <2>1, BecomesMoves DEF CycleLaunches
<1>2. CASE CycleCannotLaunch(c) \/ WaitTimesOut(c) \/ CycleRaises(c)
  <2>1. Move(cyc[c], [cyc[c] EXCEPT !.step = "except"])
      BY <1>0, <1>2 DEF CycleCannotLaunch, WaitTimesOut, CycleRaises, At
  <2> QED BY <1>2, <2>1, BecomesMoves
          DEF CycleCannotLaunch, WaitTimesOut, CycleRaises, Goto
<1>3. CASE EvidencePasses(c)
  <2>1. Move(cyc[c], [cyc[c] EXCEPT !.step = "recover", !.evidence = TRUE])
      BY <1>0, <1>3 DEF EvidencePasses, At
  <2> QED BY <1>3, <2>1, BecomesMoves DEF EvidencePasses
<1>4. CASE \E clean \in BOOLEAN : ReadCounters(c, clean)
  <2> PICK clean \in BOOLEAN : ReadCounters(c, clean)
      BY <1>4
  <2> DEFINE rec == [cyc[c] EXCEPT !.step = IF Counts(c, clean) THEN "real" ELSE "total",
                                   !.clean = clean, !.oldTotal = completed,
                                   !.oldReal = real]
  <2>1. Move(cyc[c], rec)
      BY <1>0 DEF ReadCounters, At, Counts
  <2> QED BY <2>1, BecomesMoves DEF ReadCounters
<1>5. CASE WriteReal(c)
  <2>1. Move(cyc[c], [cyc[c] EXCEPT !.step = "total"])
      BY <1>0, <1>5 DEF WriteReal, At
  <2> QED BY <1>5, <2>1, BecomesMoves DEF WriteReal, Goto
<1>6. CASE WriteTotal(c)
  <2>1. Move(cyc[c], [cyc[c] EXCEPT !.step = "row"])
      BY <1>0, <1>6 DEF WriteTotal, At
  <2> QED BY <1>6, <2>1, BecomesMoves DEF WriteTotal, Goto
<1>7. CASE WriteRow(c)
  <2> DEFINE rec == [cyc[c] EXCEPT !.step = "stop",
                                   !.counted = Counts(c, cyc[c].clean),
                                   !.row = IF cyc[c].clean THEN "completed" ELSE "failed"]
  <2>1. Move(cyc[c], rec)
      BY <1>0, <1>7 DEF WriteRow, At, Counts
  <2> QED BY <1>7, <2>1, BecomesMoves DEF WriteRow
<1>8. CASE StopAtTarget(c)
  <2>1. Move(cyc[c], Remains(c, cyc[c].row, cyc[c].counted))
      BY <1>0, <1>8 DEF StopAtTarget, At, Remains, NoCycle
  <2> QED BY <1>8, <2>1, BecomesMoves DEF StopAtTarget, Return
<1>9. CASE CycleFails(c)
  <2>1. Move(cyc[c], Remains(c, "failed", FALSE))
      BY <1>0, <1>9 DEF CycleFails, At, Remains, NoCycle
  <2> QED BY <1>9, <2>1, BecomesMoves DEF CycleFails, Return
<1> QED BY <1>1, <1>2, <1>3, <1>4, <1>5, <1>6, <1>7, <1>8, <1>9 DEF CycleStep

\* So is every other step.
LEMMA NextMoves ==
    ASSUME TypeOK, CountInv, [Next]_vars
    PROVE  \A d \in Cycles : Move(cyc[d], cyc'[d])
<1>1. CASE cyc' = cyc
    BY <1>1, StayMoves DEF CountInv
<1>2. CASE \E c \in Cycles : CycleStep(c)
    BY <1>2, CycleStepMoves
<1>3. CASE \E c \in Cycles, inLoop, dry \in BOOLEAN : Begin(c, inLoop, dry)
  <2> PICK c \in Cycles, inLoop \in BOOLEAN, dry \in BOOLEAN : Begin(c, inLoop, dry)
      BY <1>3
  <2> DEFINE rec == [cyc[c] EXCEPT !.step = IF dry THEN "recover" ELSE "launch",
                                   !.inLoop = inLoop, !.dry = dry,
                                   !.target = target, !.row = "running"]
  <2>1. cyc[c] \in CycleType /\ Fit(cyc[c])
      BY DEF TypeOK, CountInv
  <2>2. Move(cyc[c], rec)
      BY <2>1 DEF Begin, Idle, Move, Fit, Past, Real, CycleType
  <2> QED BY <2>2, BecomesMoves DEF Begin
<1>4. CASE Crash
  <2> SUFFICES ASSUME NEW d \in Cycles PROVE Move(cyc[d], cyc'[d])
      OBVIOUS
  <2>1. cyc[d] \in CycleType /\ Fit(cyc[d])
      BY DEF TypeOK, CountInv
  <2>2. CASE Idle(d)
      BY <1>4, <2>1, <2>2, StayMoves DEF Crash
  <2>3. CASE ~Idle(d)
    <3>1. cyc'[d] = Remains(d, cyc[d].row, cyc[d].counted)
        BY <1>4, <2>3 DEF Crash
    <3>2. Move(cyc[d], Remains(d, cyc[d].row, cyc[d].counted))
        BY <2>1 DEF Remains, NoCycle, Move, Fit, Past, Real, CycleType
    <3> QED BY <3>1, <3>2
  <2> QED BY <2>2, <2>3
<1> QED
  <2>1. CASE \E r \in RunIds : OtherLaunch(r) \/ Workflow(r)
      BY <1>1, <2>1 DEF OtherLaunch, Workflow, drillVars
  <2>2. CASE LoopDisables \/ PanicStop \/ Restart \/ UNCHANGED vars
      BY <1>1, <2>2 DEF LoopDisables, PanicStop, Restart, vars, drillVars
  <2>3. CASE \E on \in BOOLEAN, wanted \in 0..(MaxTarget + 1) : Configure(on, wanted)
      BY <1>1, <2>3 DEF Configure
  <2>4. CASE \/ \E c \in Cycles, dry \in BOOLEAN : BeginByRequest(c, dry)
             \/ \E c \in Cycles : LoopBegins(c)
      BY <1>3, <2>4 DEF BeginByRequest, LoopBegins
  <2> QED BY <1>2, <1>4, <2>1, <2>2, <2>3, <2>4 DEF Next

\* The counter moves only when a cycle leaves it behind.
LEMMA RealMoves ==
    ASSUME TypeOK, CountInv, [Next]_vars, real' # real
    PROVE  \E c \in Cycles : /\ cyc[c].step = "real"
                             /\ Past(cyc'[c])
                             /\ real' = cyc[c].oldReal + 1
<1>1. PICK c \in Cycles : WriteReal(c)
  <2>1. CASE \E c \in Cycles : CycleStep(c)
    <3> PICK c \in Cycles : CycleStep(c)
        BY <2>1
    <3>1. ~\E r \in RunIds : CycleLaunches(c, r)
        BY DEF CycleLaunches
    <3>2. ~(CycleCannotLaunch(c) \/ WaitTimesOut(c) \/ CycleRaises(c) \/ EvidencePasses(c))
        BY DEF CycleCannotLaunch, WaitTimesOut, CycleRaises, EvidencePasses
    <3>3. ~\E clean \in BOOLEAN : ReadCounters(c, clean)
        BY DEF ReadCounters
    <3>4. ~(WriteTotal(c) \/ WriteRow(c) \/ StopAtTarget(c) \/ CycleFails(c))
        BY DEF WriteTotal, WriteRow, StopAtTarget, CycleFails
    <3> QED BY <3>1, <3>2, <3>3, <3>4 DEF CycleStep
  <2>2. ~\E r \in RunIds : OtherLaunch(r) \/ Workflow(r)
      BY DEF OtherLaunch, Workflow, drillVars
  <2>3. ~(LoopDisables \/ PanicStop \/ Crash \/ Restart \/ UNCHANGED vars)
      BY DEF LoopDisables, PanicStop, Crash, Restart, vars, drillVars
  <2>4. ~\E on \in BOOLEAN, wanted \in 0..(MaxTarget + 1) : Configure(on, wanted)
      BY DEF Configure
  <2>5. ~\E c \in Cycles, dry \in BOOLEAN : BeginByRequest(c, dry)
      BY DEF BeginByRequest, Begin
  <2>6. ~\E c \in Cycles : LoopBegins(c)
      BY DEF LoopBegins, Begin
  <2> QED BY <2>1, <2>2, <2>3, <2>4, <2>5, <2>6 DEF Next
<1>2. cyc[c] \in CycleType /\ Fit(cyc[c])
    BY DEF TypeOK, CountInv
<1>3. cyc'[c] = [cyc[c] EXCEPT !.step = "total"]
    BY <1>1 DEF WriteReal, Goto, Becomes, TypeOK
<1>4. Past(cyc'[c])
    BY <1>1, <1>2, <1>3 DEF WriteReal, At, Past, Real, Fit, CycleType
<1> QED BY <1>1, <1>4 DEF WriteReal, At

-----------------------------------------------------------------------------
\* Cycles are finitely many, so more of them past the counter is no fewer.
LEMMA PastFinite ==
    /\ IsFiniteSet(Cycles)
    /\ IsFiniteSet(PastCycles) /\ Cardinality(PastCycles) \in Nat
<1>1. IsFiniteSet(Cycles)
    BY DrillAssumption, FS_Interval DEF Cycles
<1>2. PastCycles \subseteq Cycles
    BY DEF PastCycles
<1> QED BY <1>1, <1>2, FS_Subset, FS_CardinalityType

LEMMA CountNext ==
    ASSUME TypeOK, TypeOK', CountInv, [Next]_vars
    PROVE  CountInv'
<1>1. \A d \in Cycles : Move(cyc[d], cyc'[d])
    BY NextMoves
<1>2. PastCycles \subseteq PastCycles'
    BY <1>1 DEF Move, PastCycles
<1>3. PastCycles' \subseteq Cycles
    BY DEF PastCycles
<1>4. IsFiniteSet(PastCycles')
    BY <1>3, PastFinite, FS_Subset
<1>5. Cardinality(PastCycles) <= Cardinality(PastCycles')
    BY <1>2, <1>4, FS_Subset
<1>6. Cardinality(PastCycles) \in Nat /\ Cardinality(PastCycles') \in Nat
    BY <1>4, PastFinite, FS_CardinalityType
<1>7. real' <= Cardinality(PastCycles')
  <2>1. CASE real' = real
      BY <1>5, <1>6, <2>1 DEF CountInv, TypeOK
  <2>2. CASE real' # real
    <3> PICK c \in Cycles : /\ cyc[c].step = "real"
                            /\ Past(cyc'[c])
                            /\ real' = cyc[c].oldReal + 1
        BY <2>2, RealMoves
    <3>1. c \notin PastCycles
        BY DEF PastCycles, Past
    <3>2. Cardinality(PastCycles \cup {c}) = Cardinality(PastCycles) + 1
        BY <3>1, PastFinite, FS_AddElement
    <3>3. PastCycles \cup {c} \subseteq PastCycles'
        BY <1>2 DEF PastCycles
    <3>4. Cardinality(PastCycles \cup {c}) <= Cardinality(PastCycles')
        BY <1>4, <3>3, FS_Subset
    <3>5. cyc[c].oldReal <= Cardinality(PastCycles) /\ cyc[c].oldReal \in Nat
        BY DEF CountInv, TypeOK, CycleType
    <3> QED BY <1>6, <3>2, <3>4, <3>5
  <2> QED BY <2>1, <2>2
<1>8. ASSUME NEW c \in Cycles, cyc'[c].step = "real"
      PROVE  cyc'[c].oldReal <= Cardinality(PastCycles')
  <2>1. cyc'[c].oldReal <= Cardinality(PastCycles)
      BY <1>1, <1>8 DEF Move, CountInv
  <2>2. cyc'[c].oldReal \in Nat
      BY DEF TypeOK, CycleType
  <2> QED BY <1>5, <1>6, <2>1, <2>2
<1>9. \A c \in Cycles : Fit(cyc'[c])
    BY <1>1 DEF Move
<1> QED BY <1>7, <1>8, <1>9 DEF CountInv

-----------------------------------------------------------------------------
(* The evidence of a cycle is its own run's. *)

\* A run that has ended is never written again.
StatusInv == \A r \in RunIds : wf[r] = "working" => status[r] = "running"

\* What a step may do to the table of runs.
StatusGrows ==
    \A r \in RunIds : /\ status[r] # "none" => status'[r] # "none"
                      /\ status[r] = "completed" => status'[r] = "completed"

\* A launch creates a row, and the end of a workflow fills in its own.
LEMMA RunsGrow ==
    ASSUME RunsTypeOK, StatusInv, RunsStep
    PROVE  StatusInv' /\ StatusGrows
<1> USE DEF RunsTypeOK, StatusInv, StatusGrows
<1>1. CASE \E r \in RunIds : Launch(r)
    BY <1>1 DEF Launch, Fresh
<1>2. CASE \E r \in RunIds, result \in Ended : WorkflowEnds(r, result)
    BY <1>2 DEF WorkflowEnds, Ended
<1>3. CASE \E r \in RunIds : WorkflowDiscards(r)
    BY <1>3 DEF WorkflowDiscards
<1>4. CASE RunsCrash
    BY <1>4 DEF RunsCrash
<1>5. CASE RunsRestart \/ UNCHANGED runVars
    BY <1>5 DEF RunsRestart, runVars
<1> QED BY <1>1, <1>2, <1>3, <1>4, <1>5 DEF RunsStep, WorkflowStep

\* A cycle has no run before it launches one, and no evidence without one.
Own(y) ==
    /\ y.step \in {"none", "launch"} => y.run = 0
    /\ y.step = "wait" => y.run # 0
    /\ y.evidence => y.run # 0

\* What any step but a cycle's launch may do to a cycle's record.
OwnMove(y, z) ==
    /\ Own(z) /\ z.run = y.run
    /\ z.evidence => y.evidence \/ (y.run # 0 /\ status[y.run] = "completed")

OwnInv ==
    /\ \A c \in Cycles :
         /\ Own(cyc[c])
         /\ cyc[c].run # 0 => status[cyc[c].run] # "none"
         /\ cyc[c].evidence => status[cyc[c].run] = "completed"
    /\ \A c, d \in Cycles : cyc[c].run # 0 /\ cyc[d].run = cyc[c].run => c = d

\* A step that replaces one record.
LEMMA BecomesOwn ==
    ASSUME TypeOK, OwnInv, NEW c \in Cycles, NEW rec, Becomes(c, rec), OwnMove(cyc[c], rec)
    PROVE  \A d \in Cycles : OwnMove(cyc[d], cyc'[d])
<1> SUFFICES ASSUME NEW d \in Cycles PROVE OwnMove(cyc[d], cyc'[d])
    OBVIOUS
<1>1. cyc'[d] = IF d = c THEN rec ELSE cyc[d]
    BY DEF TypeOK, Becomes
<1> QED BY <1>1 DEF OwnInv, OwnMove

\* No step of a cycle but the launch gives it a run, and only the poll that
\* sees its own run completed gives it evidence.
LEMMA CycleStepOwn ==
    ASSUME TypeOK, OwnInv, NEW c \in Cycles, CycleStep(c),
           ~\E r \in RunIds : CycleLaunches(c, r)
    PROVE  \A d \in Cycles : OwnMove(cyc[d], cyc'[d])
<1>0. cyc[c] \in CycleType /\ Own(cyc[c])
    BY DEF TypeOK, OwnInv
<1> USE DEF OwnMove, Own, CycleType
<1>1. CASE CycleCannotLaunch(c) \/ WaitTimesOut(c) \/ CycleRaises(c)
  <2>1. OwnMove(cyc[c], [cyc[c] EXCEPT !.step = "except"])
      BY <1>0
  <2> QED BY <1>1, <2>1, BecomesOwn
          DEF CycleCannotLaunch, WaitTimesOut, CycleRaises, Goto
<1>2. CASE EvidencePasses(c)
  <2>1. OwnMove(cyc[c], [cyc[c] EXCEPT !.step = "recover", !.evidence = TRUE])
      BY <1>0, <1>2 DEF EvidencePasses, At
  <2> QED BY <1>2, <2>1, BecomesOwn DEF EvidencePasses
<1>3. CASE \E clean \in BOOLEAN : ReadCounters(c, clean)
  <2> PICK clean \in BOOLEAN : ReadCounters(c, clean)
      BY <1>3
  <2> DEFINE rec == [cyc[c] EXCEPT !.step = IF Counts(c, clean) THEN "real" ELSE "total",
                                   !.clean = clean, !.oldTotal = completed,
                                   !.oldReal = real]
  <2>1. OwnMove(cyc[c], rec)
      BY <1>0
  <2> QED BY <2>1, BecomesOwn DEF ReadCounters
<1>4. CASE WriteReal(c)
  <2>1. OwnMove(cyc[c], [cyc[c] EXCEPT !.step = "total"])
      BY <1>0
  <2> QED BY <1>4, <2>1, BecomesOwn DEF WriteReal, Goto
<1>5. CASE WriteTotal(c)
  <2>1. OwnMove(cyc[c], [cyc[c] EXCEPT !.step = "row"])
      BY <1>0
  <2> QED BY <1>5, <2>1, BecomesOwn DEF WriteTotal, Goto
<1>6. CASE WriteRow(c)
  <2> DEFINE rec == [cyc[c] EXCEPT !.step = "stop",
                                   !.counted = Counts(c, cyc[c].clean),
                                   !.row = IF cyc[c].clean THEN "completed" ELSE "failed"]
  <2>1. OwnMove(cyc[c], rec)
      BY <1>0
  <2> QED BY <1>6, <2>1, BecomesOwn DEF WriteRow
<1>7. \A row, counted : OwnMove(cyc[c], Remains(c, row, counted))
    BY <1>0 DEF Remains, NoCycle
<1>8. CASE StopAtTarget(c) \/ CycleFails(c)
    BY <1>7, <1>8, BecomesOwn DEF StopAtTarget, CycleFails, Return
<1> QED BY <1>1, <1>2, <1>3, <1>4, <1>5, <1>6, <1>8 DEF CycleStep

\* Nor does any other step.
LEMMA NextOwn ==
    ASSUME TypeOK, OwnInv, [Next]_vars,
           ~\E c \in Cycles, r \in RunIds : CycleLaunches(c, r)
    PROVE  \A d \in Cycles : OwnMove(cyc[d], cyc'[d])
<1>1. CASE cyc' = cyc
    BY <1>1 DEF OwnInv, OwnMove
<1>2. CASE \E c \in Cycles : CycleStep(c)
    BY <1>2, CycleStepOwn
<1>3. CASE \E c \in Cycles, inLoop, dry \in BOOLEAN : Begin(c, inLoop, dry)
  <2> PICK c \in Cycles, inLoop \in BOOLEAN, dry \in BOOLEAN : Begin(c, inLoop, dry)
      BY <1>3
  <2> DEFINE rec == [cyc[c] EXCEPT !.step = IF dry THEN "recover" ELSE "launch",
                                   !.inLoop = inLoop, !.dry = dry,
                                   !.target = target, !.row = "running"]
  <2>1. cyc[c] \in CycleType /\ Own(cyc[c])
      BY DEF TypeOK, OwnInv
  <2>2. OwnMove(cyc[c], rec)
      BY <2>1 DEF Begin, Idle, OwnMove, Own, CycleType
  <2> QED BY <2>2, BecomesOwn DEF Begin
<1>4. CASE Crash
  <2> SUFFICES ASSUME NEW d \in Cycles PROVE OwnMove(cyc[d], cyc'[d])
      OBVIOUS
  <2>1. cyc[d] \in CycleType /\ Own(cyc[d])
      BY DEF TypeOK, OwnInv
  <2>2. CASE Idle(d)
      BY <1>4, <2>1, <2>2 DEF Crash, OwnMove
  <2>3. CASE ~Idle(d)
    <3>1. cyc'[d] = Remains(d, cyc[d].row, cyc[d].counted)
        BY <1>4, <2>3 DEF Crash
    <3>2. OwnMove(cyc[d], Remains(d, cyc[d].row, cyc[d].counted))
        BY <2>1 DEF Remains, NoCycle, OwnMove, Own, CycleType
    <3> QED BY <3>1, <3>2
  <2> QED BY <2>2, <2>3
<1> QED
  <2>1. CASE \E r \in RunIds : OtherLaunch(r) \/ Workflow(r)
      BY <1>1, <2>1 DEF OtherLaunch, Workflow, drillVars
  <2>2. CASE LoopDisables \/ PanicStop \/ Restart \/ UNCHANGED vars
      BY <1>1, <2>2 DEF LoopDisables, PanicStop, Restart, vars, drillVars
  <2>3. CASE \E on \in BOOLEAN, wanted \in 0..(MaxTarget + 1) : Configure(on, wanted)
      BY <1>1, <2>3 DEF Configure
  <2>4. CASE \/ \E c \in Cycles, dry \in BOOLEAN : BeginByRequest(c, dry)
             \/ \E c \in Cycles : LoopBegins(c)
      BY <1>3, <2>4 DEF BeginByRequest, LoopBegins
  <2> QED BY <1>2, <1>4, <2>1, <2>2, <2>3, <2>4 DEF Next

\* A launched run has no row before, so no other cycle has it.
LEMMA OwnNext ==
    ASSUME TypeOK, OwnInv, StatusGrows, [Next]_vars
    PROVE  OwnInv'
<1>0. \A c \in Cycles : cyc[c] \in CycleType /\ cyc[c].run \in 0..MaxRuns
    BY DEF TypeOK, CycleType
<1>1. CASE \E c \in Cycles, r \in RunIds : CycleLaunches(c, r)
  <2> PICK c \in Cycles, r \in RunIds : CycleLaunches(c, r)
      BY <1>1
  <2>1. /\ cyc' = [cyc EXCEPT ![c] = [cyc[c] EXCEPT !.step = "wait", !.run = r]]
        /\ status[r] = "none" /\ status'[r] = "running"
        /\ cyc[c].step = "launch"
      BY DEF CycleLaunches, Launch, Fresh, Becomes, At, TypeOK, RunsTypeOK
  <2>2. r # 0
      BY DEF RunIds
  <2>3. \A d \in Cycles \ {c} : cyc'[d] = cyc[d] /\ cyc[d].run # r
      BY <2>1, <2>2 DEF OwnInv, TypeOK
  <2>4. cyc'[c].step = "wait" /\ cyc'[c].run = r /\ ~cyc'[c].evidence
    <3>1. cyc'[c] = [cyc[c] EXCEPT !.step = "wait", !.run = r]
        BY <2>1 DEF TypeOK
    <3>2. ~cyc[c].evidence
        BY <1>0, <2>1 DEF OwnInv, Own, CycleType
    <3> QED BY <1>0, <3>1, <3>2 DEF CycleType
  <2>5. \A d \in Cycles \ {c} : cyc[d].run # 0 => cyc[d].run \in RunIds
      BY <1>0, RunsAssumption DEF RunIds
  <2>6. \A d \in Cycles :
          /\ Own(cyc'[d])
          /\ cyc'[d].run # 0 => status'[cyc'[d].run] # "none"
          /\ cyc'[d].evidence => status'[cyc'[d].run] = "completed"
    <3> SUFFICES ASSUME NEW d \in Cycles
                 PROVE  /\ Own(cyc'[d])
                        /\ cyc'[d].run # 0 => status'[cyc'[d].run] # "none"
                        /\ cyc'[d].evidence => status'[cyc'[d].run] = "completed"
        OBVIOUS
    <3>1. CASE d = c
        BY <2>1, <2>2, <2>4, <3>1 DEF Own
    <3>2. CASE d # c
        BY <2>3, <2>5, <3>2 DEF OwnInv, Own, StatusGrows
    <3> QED BY <3>1, <3>2
  <2>7. \A b, d \in Cycles : cyc'[b].run # 0 /\ cyc'[d].run = cyc'[b].run => b = d
      BY <2>3, <2>4 DEF OwnInv
  <2> QED BY <2>6, <2>7 DEF OwnInv
<1>2. CASE ~\E c \in Cycles, r \in RunIds : CycleLaunches(c, r)
  <2>1. \A d \in Cycles : OwnMove(cyc[d], cyc'[d])
      BY <1>2, NextOwn
  <2>2. \A d \in Cycles : cyc[d].run # 0 => cyc[d].run \in RunIds
      BY <1>0, RunsAssumption DEF RunIds
  <2> QED BY <2>1, <2>2 DEF OwnInv, OwnMove, Own, StatusGrows
<1> QED BY <1>1, <1>2

-----------------------------------------------------------------------------
IInv == RunsInv /\ TypeOK /\ CountInv /\ StatusInv /\ OwnInv

LEMMA InitInv == Init => IInv
<1> SUFFICES ASSUME Init PROVE IInv
    OBVIOUS
<1>1. RunsInv /\ TypeOK
    BY RunsInitInv, TypeInit DEF Init
<1>2. \A c \in Cycles : cyc[c] = NoCycle
    BY DEF Init
<1>3. \A c \in Cycles : Fit(cyc[c]) /\ cyc[c].step # "real"
    BY <1>2 DEF Fit, NoCycle
<1>4. real = 0 /\ Cardinality(PastCycles) \in Nat
    BY PastFinite DEF Init
<1>5. StatusInv
    BY DEF Init, RunsInit, StatusInv
<1>6. OwnInv
  <2>1. \A c \in Cycles : cyc[c].run = 0 /\ ~cyc[c].evidence /\ Own(cyc[c])
      BY <1>2 DEF NoCycle, Own
  <2> QED BY <2>1 DEF OwnInv
<1> QED BY <1>1, <1>3, <1>4, <1>5, <1>6 DEF IInv, CountInv

LEMMA NextInv == IInv /\ [Next]_vars => IInv'
<1> SUFFICES ASSUME IInv, [Next]_vars PROVE IInv'
    OBVIOUS
<1>1. RunsInv'
    BY RunsInside, RunsStepInv DEF IInv
<1>2. TypeOK'
    BY <1>1, TypeNext DEF IInv, RunsInv
<1>3. CountInv'
    BY <1>2, CountNext DEF IInv
<1>4. StatusInv' /\ StatusGrows
    BY RunsInside, RunsGrow DEF IInv, RunsInv
<1>5. OwnInv'
    BY <1>4, OwnNext DEF IInv
<1> QED BY <1>1, <1>2, <1>3, <1>4, <1>5 DEF IInv

LEMMA Always == Spec => []IInv
BY InitInv, NextInv, PTL DEF Spec

\* Every reachable state of the drill has the declared types.
THEOREM TypeCorrect == Spec => []TypeOK
BY Always, PTL DEF IInv

\* ACTIVE_RUNS admits one workflow, with the drill among its users.
THEOREM Exclusion == Spec => []OneWorkflow
BY Always, PTL DEF IInv, RunsInv

\* However many cycles overlap, the counter the go-live gate reads is backed by
\* cycles with evidence, and so is every marked row.
THEOREM EvidenceTheorem == Spec => []RealHasEvidence
<1>1. ASSUME IInv PROVE RealHasEvidence
  <2> DEFINE P == {c \in Cycles : Proven(c)}
  <2>1. PastCycles \subseteq P /\ P \subseteq Cycles
      BY DEF PastCycles, Past, Real, Proven
  <2>2. IsFiniteSet(P)
      BY <2>1, PastFinite, FS_Subset
  <2>3. Cardinality(PastCycles) <= Cardinality(P) /\ Cardinality(P) \in Nat
      BY <2>1, <2>2, FS_Subset, FS_CardinalityType
  <2>4. real <= Cardinality(PastCycles) /\ real \in Nat
      BY <1>1 DEF IInv, CountInv, TypeOK
  <2>5. real <= Cardinality(P)
      BY <2>3, <2>4, PastFinite
  <2>6. \A c \in Cycles : cyc[c].counted => Proven(c)
      BY <1>1 DEF IInv, CountInv, Fit, Real, Proven
  <2> QED BY <2>5, <2>6 DEF RealHasEvidence
<1> QED BY <1>1, Always, PTL

\* Evidence is only ever taken from the cycle's own run, which completed: a run
\* that other launchers start, or that a cycle before it waited for, proves
\* nothing for it.
THEOREM OwnTheorem == Spec => []EvidenceIsOwn
<1>1. ASSUME IInv PROVE EvidenceIsOwn
    BY <1>1 DEF IInv, OwnInv, Own, EvidenceIsOwn
<1> QED BY <1>1, Always, PTL
=============================================================================
