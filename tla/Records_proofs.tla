---------------------------- MODULE Records_proofs ----------------------------
(***************************************************************************)
(* Proofs about components that share no state with one another, each for  *)
(* any values of its constants: the walk-forward folds, the go-live gate   *)
(* and the local checks, the account view, the paper ledger, the audit     *)
(* chain, database backups and their restore, the backtest, the deployment *)
(* settings, the emergency close-out, the login limiter, the terms of an   *)
(* order.  Each part states the component's inductive invariant, shows     *)
(* that the initial states have it and that every action keeps it, and     *)
(* ends in the theorem.                                                    *)
(***************************************************************************)
EXTENDS WalkForward, GoLive, AccountView, PaperLedger, StateStore, Backtest, EnvProfile, Flatten,
        AuthLimiter, OrderTerms, SequenceTheorems, TLAPS

-----------------------------------------------------------------------------
(***************************************************************************)
(* WalkForward: the place of a fold is a linear function of its number,    *)
(* and the count of folds leaves at least MinTrain candles before the      *)
(* first, for every number of candles from 160 up and warmup up to 60.     *)
(***************************************************************************)
\* Where the fold that was run last lies.
Placed ==
    /\ trained = InitialTrain + (folds - 1) * TestBars
    /\ tested.first = trained
    /\ tested.last = trained + TestBars
    /\ tested.warmup \in Warmups

WalkInv ==
    /\ candles \in Lengths
    /\ folds \in 0..FoldCount
    /\ folds > 0 => Placed

-----------------------------------------------------------------------------
\* The count of folds is 1 to 4, and leaves at least MinTrain, at least 100,
\* candles before the first test.
LEMMA FoldsFit ==
    ASSUME candles \in Lengths
    PROVE  /\ candles \in Nat /\ candles >= 160
           /\ TestBars \in {60, 80} /\ (candles >= 360 => TestBars = 80)
           /\ FoldCount \in 1..4
           /\ InitialTrain \in Nat /\ InitialTrain >= 100
           /\ InitialTrain + FoldCount * TestBars = candles
<1>1. candles \in Nat /\ candles >= 160
  BY WalkAssumption
<1>2. CASE candles < 360
  <2>1. TestBars = 60
    BY <1>1, <1>2 DEF TestBars
  <2>2. /\ MinTrain \in Nat /\ MinTrain >= 100 /\ MinTrain + 60 <= candles
    BY <1>1, <1>2, <2>1 DEF MinTrain, MinTrainTarget, AtLeast, AtMost
  <2> DEFINE K == (candles - MinTrain) \div 60
  <2>3. K \in Nat /\ K >= 1 /\ 60 * K <= candles - MinTrain
    BY <1>1, <2>2
  <2>4. FoldCount \in 1..4 /\ FoldCount <= K
    <3>1. FoldCount = AtLeast(1, AtMost(4, K))
      BY <2>1 DEF FoldCount
    <3> HIDE DEF K
    <3> QED BY <3>1, <2>3 DEF AtLeast, AtMost
  <2>5. InitialTrain = candles - FoldCount * 60
    BY <2>1 DEF InitialTrain
  <2> HIDE DEF K
  <2> QED BY <1>1, <1>2, <2>1, <2>2, <2>3, <2>4, <2>5
<1>3. CASE candles >= 360
  <2>1. TestBars = 80
    BY <1>1, <1>3 DEF TestBars
  <2>2. /\ MinTrain \in Nat /\ MinTrain >= 100 /\ MinTrain + 80 <= candles
    BY <1>1, <1>3, <2>1 DEF MinTrain, MinTrainTarget, AtLeast, AtMost
  <2> DEFINE K == (candles - MinTrain) \div 80
  <2>3. K \in Nat /\ K >= 1 /\ 80 * K <= candles - MinTrain
    BY <1>1, <2>2
  <2>4. FoldCount \in 1..4 /\ FoldCount <= K
    <3>1. FoldCount = AtLeast(1, AtMost(4, K))
      BY <2>1 DEF FoldCount
    <3> HIDE DEF K
    <3> QED BY <3>1, <2>3 DEF AtLeast, AtMost
  <2>5. InitialTrain = candles - FoldCount * 80
    BY <2>1 DEF InitialTrain
  <2> HIDE DEF K
  <2> QED BY <1>1, <1>3, <2>1, <2>2, <2>3, <2>4, <2>5
<1> QED BY <1>1, <1>2, <1>3

\* A fold leaves the candles, and with them the plan of the folds, as they are.
LEMMA PlanKept ==
    ASSUME candles' = candles
    PROVE  TestBars' = TestBars /\ FoldCount' = FoldCount /\ InitialTrain' = InitialTrain
BY DEF TestBars, FoldCount, InitialTrain, MinTrain, MinTrainTarget

-----------------------------------------------------------------------------
LEMMA WalkInvInit == WalkInit => WalkInv
<1> SUFFICES ASSUME WalkInit PROVE WalkInv
  OBVIOUS
<1>1. FoldCount \in 1..4
  BY FoldsFit DEF WalkInit
<1> QED BY <1>1 DEF WalkInit, WalkInv

LEMMA WalkInvStep == WalkInv /\ [WalkNext]_walkVars => WalkInv'
<1> SUFFICES ASSUME WalkInv, [WalkNext]_walkVars PROVE WalkInv'
  OBVIOUS
<1>1. /\ FoldCount \in 1..4 /\ TestBars \in {60, 80} /\ InitialTrain \in Nat
  BY FoldsFit DEF WalkInv
<1>2. ASSUME NEW w \in Warmups, Fold(w) PROVE WalkInv'
  <2>1. TestBars' = TestBars /\ FoldCount' = FoldCount /\ InitialTrain' = InitialTrain
    BY <1>2, PlanKept DEF Fold
  <2>2. folds' = folds + 1 /\ folds' \in 0..FoldCount /\ folds \in Nat
    BY <1>1, <1>2 DEF Fold, WalkInv
  <2>3. (folds' - 1) = folds
    BY <2>2
  <2>4. Placed'
    BY <1>1, <1>2, <2>1, <2>2, <2>3 DEF Fold, Placed
  <2> QED BY <1>2, <2>1, <2>2, <2>4 DEF WalkInv, Fold
<1>3. CASE UNCHANGED walkVars
  <2>1. TestBars' = TestBars /\ FoldCount' = FoldCount /\ InitialTrain' = InitialTrain
    BY <1>3, PlanKept DEF walkVars
  <2> QED BY <1>3, <2>1 DEF walkVars, WalkInv, Placed
<1> QED BY <1>2, <1>3 DEF WalkNext

LEMMA WalkInvariant == WalkSpec => []WalkInv
BY WalkInvInit, WalkInvStep, PTL DEF WalkSpec

-----------------------------------------------------------------------------
\* Whatever the venue returns (execute_walkforward asks for 160 candles at
\* least), a fold's parameters come from at least 100 candles, all before those
\* it is tested on.
THEOREM NoLookAheadTheorem == WalkSpec => []NoLookAhead
<1>1. ASSUME WalkInv, folds > 0 PROVE NoLookAhead
  <2>1. /\ candles \in Nat /\ FoldCount \in 1..4 /\ TestBars \in {60, 80}
        /\ InitialTrain \in Nat /\ InitialTrain >= 100
        /\ InitialTrain + FoldCount * TestBars = candles
    BY <1>1, FoldsFit DEF WalkInv
  <2>2. folds \in 1..FoldCount
    BY <1>1, <2>1 DEF WalkInv
  <2>3. /\ 0 <= (folds - 1) * TestBars
        /\ (folds - 1) * TestBars + TestBars <= FoldCount * TestBars
    <3>1. CASE TestBars = 60 BY <2>1, <2>2, <3>1
    <3>2. CASE TestBars = 80 BY <2>1, <2>2, <3>2
    <3> QED BY <2>1, <3>1, <3>2
  <2>4. (folds - 1) * TestBars \in Int /\ FoldCount * TestBars \in Int
    BY <2>1, <2>2
  <2> QED BY <1>1, <2>1, <2>3, <2>4 DEF WalkInv, Placed, NoLookAhead
<1>2. WalkInv => NoLookAhead
  BY <1>1 DEF NoLookAhead
<1> QED BY <1>2, WalkInvariant, PTL

\* The last fold ends with the newest candle, for every number of candles.
THEOREM ReachTheorem == WalkSpec => []TestsReachNow
<1>1. ASSUME WalkInv, folds = FoldCount PROVE TestsReachNow
  <2>1. /\ candles \in Nat /\ FoldCount \in 1..4 /\ TestBars \in {60, 80}
        /\ InitialTrain \in Nat
        /\ InitialTrain + FoldCount * TestBars = candles
    BY <1>1, FoldsFit DEF WalkInv
  <2>2. tested.last = InitialTrain + (FoldCount - 1) * TestBars + TestBars
    BY <1>1, <2>1 DEF WalkInv, Placed
  <2>3. (FoldCount - 1) * TestBars + TestBars = FoldCount * TestBars
    <3>1. CASE TestBars = 60 BY <2>1, <3>1
    <3>2. CASE TestBars = 80 BY <2>1, <3>2
    <3> QED BY <2>1, <3>1, <3>2
  <2>4. (FoldCount - 1) * TestBars \in Int /\ FoldCount * TestBars \in Int
    BY <2>1
  <2> QED BY <2>1, <2>2, <2>3, <2>4 DEF TestsReachNow
<1>2. WalkInv => TestsReachNow
  BY <1>1 DEF TestsReachNow
<1> QED BY <1>2, WalkInvariant, PTL

\* From 360 candles up, no set of parameters of the grid is tested on nothing.
THEOREM LongTheorem == WalkSpec => []LongSamplesTest
<1>1. ASSUME WalkInv, folds > 0, candles >= 360 PROVE BarsToTrade > 0
  <2>1. TestBars = 80 /\ InitialTrain \in Nat /\ folds \in Nat /\ FoldCount \in 1..4
    BY <1>1, FoldsFit DEF WalkInv
  <2>2. Placed
    BY <1>1 DEF WalkInv
  <2>3. tested.first \in Int /\ tested.last = tested.first + 80
    BY <2>1, <2>2 DEF Placed
  <2>4. tested.warmup \in 1..60
    BY <2>2, WalkAssumption DEF Placed
  <2> QED BY <2>3, <2>4 DEF BarsToTrade
<1>2. WalkInv => LongSamplesTest
  BY <1>1 DEF LongSamplesTest
<1> QED BY <1>2, WalkInvariant, PTL

\* Every fold trains on the past alone, the last reaches the newest candle, and
\* long samples are really tested.
THEOREM FoldsTheorem == WalkSpec => []FoldsSound
<1>1. NoLookAhead /\ TestsReachNow /\ LongSamplesTest => FoldsSound BY DEF FoldsSound
<1> QED BY NoLookAheadTheorem, ReachTheorem, LongTheorem, <1>1, PTL

-----------------------------------------------------------------------------
(***************************************************************************)
(* GoLive: any .env files, any gates whose evidence comes and goes, any    *)
(* number of checks and restarts.                                          *)
(***************************************************************************)
(* A reading is a record of its fields. *)
ReadingInv ==
    /\ halted \in BOOLEAN
    /\ reading \in [by : Askers \cup {"nobody"}, part : 1..4, failing : SUBSET Gates,
                    items : BOOLEAN, halted : BOOLEAN, fair : BOOLEAN]

(* A returned panic stop leaves the window shut until it is opened again, and a
   reading that saw the last gate after it has found that gate shut. *)
HaltInv ==
    /\ halted => ~armed
    /\ reading.part = 4 /\ reading.halted => "live_arming" \in reading.failing

(* The active report follows the checks that write it. *)
ReportInv ==
    /\ checks # "idle" => active = "running"
    /\ active = "none" => final = "none"
    /\ active = "ok" => last = "ok"

(* The checks' own reading found their report running. *)
AskInv ==
    reading.by = "readiness" =>
        /\ checks = "asking"
        /\ reading.part > 1 => "local_readiness" \in reading.failing

GoLiveInv == ReadingInv /\ HaltInv /\ ReportInv /\ AskInv

-----------------------------------------------------------------------------
(* The gates whose evidence is not loose have conditions of their own. *)
LEMMA OwnConditions ==
    /\ Passes("local_readiness") <=> Reported = "ok"
    /\ Passes("live_arming") <=> armed
BY LooseAssumption DEF Passes

(* Real trading is never asked for without the gates it requires. *)
LEMMA WantedRequires ==
    /\ LiveModeEnabled => Required("live_arming")
    /\ Required("local_readiness")
BY DEF Required, Wanted, RequiredOnceRequested, AccountGates

LEMMA PartsAreGates == \A i \in 1..3 : Part[i] \subseteq Gates
BY DEF Gates

LEMMA ReadingNext ==
    ASSUME ReadingInv, NEW part \in SUBSET Gates, reading.part <= 3
    PROVE  /\ NextReading(part) \in
                [by : Askers \cup {"nobody"}, part : 1..4, failing : SUBSET Gates,
                 items : BOOLEAN, halted : BOOLEAN, fair : BOOLEAN]
           /\ NextReading(part).by = reading.by
           /\ NextReading(part).part = reading.part + 1
           /\ NextReading(part).failing = reading.failing \cup {g \in part : ~Passes(g)}
           /\ NextReading(part).halted = halted
<1> DEFINE failing == {g \in part : ~Passes(g)}
           fair == reading.fair /\ Blocking(failing) \subseteq {"local_readiness"}
<1>1. fair \in BOOLEAN
  OBVIOUS
<1>2. NextReading(part) = [reading EXCEPT !.part = @ + 1, !.failing = @ \cup failing,
                                          !.halted = halted, !.fair = fair]
  BY DEF NextReading
<1>3. failing \in SUBSET Gates
  OBVIOUS
<1>4. failing = {g \in part : ~Passes(g)}
  OBVIOUS
<1> HIDE DEF fair, failing
<1>5. reading.failing \cup failing \in SUBSET Gates /\ reading.part + 1 \in 1..4
  BY <1>3 DEF ReadingInv
<1> QED BY <1>1, <1>2, <1>4, <1>5 DEF ReadingInv

LEMMA IdleIsReading ==
    Idle \in [by : Askers \cup {"nobody"}, part : 1..4, failing : SUBSET Gates,
              items : BOOLEAN, halted : BOOLEAN, fair : BOOLEAN]
BY DEF Idle

-----------------------------------------------------------------------------
LEMMA GateInvInit == GoLiveInit => GoLiveInv
<1> SUFFICES ASSUME GoLiveInit PROVE GoLiveInv
  OBVIOUS
<1>1. ReadingInv
  BY IdleIsReading DEF GoLiveInit, ReadingInv
<1>2. HaltInv /\ AskInv
  BY DEF GoLiveInit, HaltInv, AskInv, Idle
<1>3. ReportInv
  BY DEF GoLiveInit, ReportInv
<1> QED BY <1>1, <1>2, <1>3 DEF GoLiveInv

(* What the asking and the reading of a gate do to the invariant. *)
LEMMA GateStepBegin ==
    ASSUME GoLiveInv, NEW by \in Askers, BeginReading(by)
    PROVE  GoLiveInv'
<1> DEFINE items == by = "readiness" /\ ItemsFail
<1>1. items \in BOOLEAN
  OBVIOUS
<1>2. reading' = [Idle EXCEPT !.by = by, !.items = items, !.fair = ~items]
  BY DEF BeginReading
<1> HIDE DEF items
<1>3. /\ reading' \in [by : Askers \cup {"nobody"}, part : 1..4, failing : SUBSET Gates,
                       items : BOOLEAN, halted : BOOLEAN, fair : BOOLEAN]
      /\ reading'.by = by /\ reading'.part = 1
  BY <1>1, <1>2, IdleIsReading DEF Idle
<1>4. /\ UNCHANGED <<armed, checks, active, final, last>>
      /\ halted' \in BOOLEAN /\ (halted' => halted)
      /\ by = "readiness" => checks = "asking"
  BY DEF BeginReading, live, report
<1> QED BY <1>3, <1>4 DEF GoLiveInv, ReadingInv, HaltInv, ReportInv, AskInv

LEMMA GateStepRead ==
    ASSUME GoLiveInv, ReadPart
    PROVE  GoLiveInv'
<1>1. /\ reading.part \in 1..3 /\ reading' = NextReading(Part[reading.part])
      /\ UNCHANGED <<armed, checks, active, final, last, halted>>
  BY DEF GoLiveInv, ReadingInv, ReadPart, live, report
<1>2. Part[reading.part] \in SUBSET Gates
  BY <1>1, PartsAreGates
<1>3. /\ reading' \in [by : Askers \cup {"nobody"}, part : 1..4, failing : SUBSET Gates,
                       items : BOOLEAN, halted : BOOLEAN, fair : BOOLEAN]
      /\ reading'.by = reading.by
      /\ reading'.part = reading.part + 1
      /\ reading'.failing = reading.failing \cup {g \in Part[reading.part] : ~Passes(g)}
      /\ reading'.halted = halted
  BY <1>1, <1>2, ReadingNext DEF GoLiveInv
<1>4. ReportInv'
  BY <1>1 DEF GoLiveInv, ReportInv
<1>5. reading'.part = 4 /\ reading'.halted => "live_arming" \in reading'.failing
  <2>1. SUFFICES ASSUME reading'.part = 4, reading'.halted
                 PROVE  "live_arming" \in reading'.failing
    OBVIOUS
  <2>2. reading.part = 3
    BY <1>1, <1>3, <2>1
  <2>3. Part[3] = {"live_arming"}
    BY DEF Part
  <2>4. ~Passes("live_arming")
    BY <1>3, <2>1, OwnConditions DEF GoLiveInv, HaltInv
  <2> QED BY <1>3, <2>2, <2>3, <2>4
<1>6. reading'.by = "readiness" =>
        checks' = "asking" /\ "local_readiness" \in reading'.failing
  <2>1. SUFFICES ASSUME reading.by = "readiness"
                 PROVE  checks = "asking" /\ "local_readiness" \in reading'.failing
    BY <1>1, <1>3
  <2>2. checks = "asking" /\ active = "running"
    BY <2>1 DEF GoLiveInv, AskInv, ReportInv
  <2>3. ~Passes("local_readiness")
    BY <2>2, OwnConditions DEF Reported
  <2>4. CASE reading.part = 1
    <3>1. "local_readiness" \in Part[1]
      BY DEF Part
    <3> QED BY <1>3, <2>2, <2>3, <2>4, <3>1
  <2>5. CASE reading.part # 1
    BY <1>1, <1>3, <2>1, <2>2, <2>5 DEF GoLiveInv, AskInv
  <2> QED BY <2>4, <2>5
<1>7. halted' => ~armed'
  BY <1>1 DEF GoLiveInv, HaltInv
<1> QED BY <1>1, <1>3, <1>4, <1>5, <1>6, <1>7 DEF GoLiveInv, ReadingInv, HaltInv, AskInv

(* A reading that ends leaves nothing behind. *)
LEMMA EndOfReading ==
    ASSUME ReadingInv, reading' \in {Idle, reading}, halted' \in BOOLEAN,
           halted' => ~armed',
           HaltInv, AskInv,
           reading' = Idle \/ reading.by # "readiness" \/ checks' = checks
    PROVE  ReadingInv' /\ HaltInv' /\ AskInv'
<1>1. ReadingInv'
  BY IdleIsReading DEF ReadingInv
<1>2. HaltInv'
  BY DEF HaltInv, Idle
<1>3. AskInv'
  BY DEF AskInv, Idle
<1> QED BY <1>1, <1>2, <1>3

(* The service's steps. *)
LEMMA GateStepService ==
    ASSUME GoLiveInv,
           \/ Answer \/ Arm \/ Close \/ PanicStops \/ PanicDisarms \/ Reset
           \/ \E g \in Loose : Evidence(g)
           \/ \E p \in Profiles : Restart(p)
    PROVE  GoLiveInv'
<1>1. UNCHANGED <<active, final, last>>
  BY DEF Answer, Arm, Close, PanicStops, PanicDisarms, Reset, Evidence, Restart, report, live
<1>2. checks' = checks \/ (checks = "asking" /\ checks' = "fetched" /\ reading' = Idle)
  BY DEF Answer, Arm, Close, PanicStops, PanicDisarms, Reset, Evidence, Restart, report, live
<1>3. ReportInv'
  BY <1>1, <1>2 DEF GoLiveInv, ReportInv
<1>4. reading' \in {Idle, reading}
  BY DEF Answer, Arm, Close, PanicStops, PanicDisarms, Reset, Evidence, Restart, report, live
<1>5. halted' \in BOOLEAN /\ (halted' => ~armed')
  <2> USE DEF GoLiveInv, ReadingInv, HaltInv, live
  <2>1. CASE Answer \/ PanicStops \/ Reset \/ \E g \in Loose : Evidence(g)
    <3>1. halted' = halted /\ armed' = armed
      BY <2>1 DEF Answer, PanicStops, Reset, Evidence
    <3> QED BY <3>1
  <2>2. CASE Arm
    BY <2>2 DEF Arm
  <2>3. CASE Close
    BY <2>3 DEF Close
  <2>4. CASE PanicDisarms
    BY <2>4 DEF PanicDisarms
  <2>5. CASE \E p \in Profiles : Restart(p)
    BY <2>5 DEF Restart
  <2> QED BY <2>1, <2>2, <2>3, <2>4, <2>5
<1>6. ReadingInv' /\ HaltInv' /\ AskInv'
  BY <1>2, <1>4, <1>5, EndOfReading DEF GoLiveInv
<1> QED BY <1>3, <1>6 DEF GoLiveInv

(* The steps of the checks. *)
LEMMA GateStepChecks ==
    ASSUME GoLiveInv,
           \/ StartChecks \/ CheckStep \/ CheckAborts \/ FetchReadiness
           \/ WriteFinal \/ WriteActive \/ CheckDies \/ ReportAges
    PROVE  GoLiveInv'
<1> USE DEF StartChecks, CheckStep, CheckAborts, FetchReadiness, WriteFinal, WriteActive,
            CheckDies, ReportAges, live
<1>1. armed' = armed /\ halted' = halted
  OBVIOUS
<1>2. reading' \in {Idle, reading}
  <2>1. reading' = Idle \/ reading' = reading
    OBVIOUS
  <2> QED BY <2>1
<1>3. reading' = Idle \/ reading.by # "readiness" \/ checks' = checks
  BY DEF GoLiveInv, AskInv, Read
<1>4. ReadingInv' /\ HaltInv' /\ AskInv'
  BY <1>1, <1>2, <1>3, EndOfReading DEF GoLiveInv, ReadingInv, HaltInv
<1>5. ReportInv'
  BY DEF GoLiveInv, ReportInv, Outcome
<1> QED BY <1>4, <1>5 DEF GoLiveInv

LEMMA GateInvStep == GoLiveInv /\ [GoLiveNext]_goLiveVars => GoLiveInv'
<1> SUFFICES ASSUME GoLiveInv, [GoLiveNext]_goLiveVars PROVE GoLiveInv'
  OBVIOUS
<1>1. CASE \E by \in Askers : BeginReading(by)
  BY <1>1, GateStepBegin
<1>2. CASE ReadPart
  BY <1>2, GateStepRead
<1>3. CASE \/ Answer \/ Arm \/ Close \/ PanicStops \/ PanicDisarms \/ Reset
           \/ \E g \in Loose : Evidence(g)
           \/ \E p \in Profiles : Restart(p)
  BY <1>3, GateStepService
<1>4. CASE \/ StartChecks \/ CheckStep \/ CheckAborts \/ FetchReadiness
           \/ WriteFinal \/ WriteActive \/ CheckDies \/ ReportAges
  BY <1>4, GateStepChecks
<1>5. CASE UNCHANGED goLiveVars
  BY <1>5 DEF goLiveVars, live, report, GoLiveInv, ReadingInv, HaltInv, ReportInv, AskInv
<1> QED BY <1>1, <1>2, <1>3, <1>4, <1>5 DEF GoLiveNext

LEMMA GateInvariant == GoLiveSpec => []GoLiveInv
BY GateInvInit, GateInvStep, PTL DEF GoLiveSpec

-----------------------------------------------------------------------------
(* What GoLiveTypeOK says of everything but the reading. *)
FlagTypes ==
    /\ emergency \in BOOLEAN /\ armed \in BOOLEAN /\ panic \in BOOLEAN
    /\ stepsOk \in BOOLEAN /\ fetched \in BOOLEAN

PlainTypes ==
    /\ profile \in Profiles /\ evidence \in [Loose -> BOOLEAN]
    /\ active \in {"none", "running", "ok", "bad", "aged"}
    /\ final \in {"none", "ok", "bad", "aged"}
    /\ checks \in {"idle", "steps", "asking", "fetched", "written"}
    /\ last \in {"none", "going", "ok", "bad", "cut"}
    /\ starts \in 0..MaxStarts /\ restarts \in 0..MaxRestarts

LEMMA FlagStep == FlagTypes /\ [GoLiveNext]_goLiveVars => FlagTypes'
<1> SUFFICES ASSUME FlagTypes, [GoLiveNext]_goLiveVars PROVE FlagTypes'
  OBVIOUS
<1> USE DEF FlagTypes, live, report
<1>1. CASE \/ \E by \in Askers : BeginReading(by)
           \/ ReadPart \/ Answer \/ Arm
  BY <1>1 DEF BeginReading, ReadPart, Answer, Arm
<1>2. CASE \/ \E g \in Loose : Evidence(g)
           \/ Close \/ PanicStops \/ PanicDisarms \/ Reset
           \/ \E p \in Profiles : Restart(p)
  BY <1>2 DEF Evidence, Close, PanicStops, PanicDisarms, Reset, Restart
<1>3. CASE StartChecks \/ CheckStep \/ CheckAborts \/ FetchReadiness
  BY <1>3 DEF StartChecks, CheckStep, CheckAborts, FetchReadiness
<1>4. CASE WriteFinal \/ WriteActive \/ CheckDies \/ ReportAges
  BY <1>4 DEF WriteFinal, WriteActive, CheckDies, ReportAges
<1>5. CASE UNCHANGED goLiveVars
  BY <1>5 DEF goLiveVars
<1> QED BY <1>1, <1>2, <1>3, <1>4, <1>5 DEF GoLiveNext

LEMMA PlainStep == PlainTypes /\ [GoLiveNext]_goLiveVars => PlainTypes'
<1> SUFFICES ASSUME PlainTypes, [GoLiveNext]_goLiveVars PROVE PlainTypes'
  OBVIOUS
<1> USE BoundsAssumption DEF BoundsAssumption, PlainTypes, live, report
<1>1. ASSUME NEW by \in Askers, BeginReading(by) PROVE PlainTypes'
  BY <1>1 DEF BeginReading
<1>2. CASE ReadPart \/ Answer
  BY <1>2 DEF ReadPart, Answer
<1>3. CASE Arm
  BY <1>3 DEF Arm
<1>4. ASSUME NEW g \in Loose, Evidence(g) PROVE PlainTypes'
  <2>1. evidence' = [evidence EXCEPT ![g] = ~evidence[g]]
    BY <1>4 DEF Evidence
  <2>2. evidence' \in [Loose -> BOOLEAN]
    BY <2>1
  <2> QED BY <1>4, <2>2 DEF Evidence
<1>5. CASE Close \/ PanicStops \/ Reset
  BY <1>5 DEF Close, PanicStops, Reset
<1>6. CASE PanicDisarms
  <2>1. evidence' = [g \in Loose |-> evidence[g] \/ g = "panic_stop_drill"]
    BY <1>6 DEF PanicDisarms
  <2>2. evidence' \in [Loose -> BOOLEAN]
    BY <2>1
  <2> QED BY <1>6, <2>2 DEF PanicDisarms
<1>7. ASSUME NEW p \in Profiles, Restart(p) PROVE PlainTypes'
  BY <1>7 DEF Restart
<1>8. CASE StartChecks
  BY <1>8 DEF StartChecks
<1>9. CASE CheckStep \/ CheckAborts \/ CheckDies \/ ReportAges
  BY <1>9 DEF CheckStep, CheckAborts, CheckDies, ReportAges
<1>10. CASE FetchReadiness
  BY <1>10 DEF FetchReadiness
<1>11. CASE WriteFinal \/ WriteActive
  BY <1>11 DEF WriteFinal, WriteActive, Outcome
<1>12. CASE UNCHANGED goLiveVars
  BY <1>12 DEF goLiveVars
<1> QED BY <1>1, <1>2, <1>3, <1>4, <1>5, <1>6, <1>7, <1>8, <1>9, <1>10, <1>11, <1>12
        DEF GoLiveNext

(* Every variable keeps its range. *)
THEOREM GateTypes == GoLiveSpec => []GoLiveTypeOK
<1>1. GoLiveInit => FlagTypes
  BY DEF GoLiveInit, FlagTypes
<1>2. GoLiveInit => PlainTypes
  BY BoundsAssumption DEF BoundsAssumption, GoLiveInit, PlainTypes
<1>3. FlagTypes /\ PlainTypes /\ GoLiveInv => GoLiveTypeOK
  <2>1. ReadingInv => /\ reading.by \in Askers \cup {"nobody"} /\ reading.part \in 1..4
                      /\ reading.failing \subseteq Gates /\ halted \in BOOLEAN
    BY DEF ReadingInv
  <2> QED BY <2>1 DEF FlagTypes, PlainTypes, GoLiveInv, GoLiveTypeOK
<1> QED BY <1>1, <1>2, <1>3, FlagStep, PlainStep, GateInvariant, PTL DEF GoLiveSpec

-----------------------------------------------------------------------------
(* A panic stop that has returned is seen by every order and final check whose
   gates were still being read. *)
THEOREM PanicTheorem == GoLiveSpec => []PanicSeen
<1>1. ASSUME GoLiveInv, reading.part = 4, reading.halted, Blocking(reading.failing) = {},
             LiveModeEnabled
      PROVE  FALSE
  <2>1. "live_arming" \in reading.failing
    BY <1>1 DEF GoLiveInv, HaltInv
  <2> QED BY <1>1, <2>1, WantedRequires DEF Blocking
<1>2. GoLiveInv => PanicSeen
  BY <1>1 DEF PanicSeen, Read, ReadyForOrder, FinalReady, ReadyToArm
<1> QED BY <1>2, GateInvariant, PTL

(* An order that the gate lets go has no gate against it but the private
   stream's, where the settings do not ask for one. *)
THEOREM NothingWaivedTheorem == GoLiveSpec => []NothingWaived
<1>1. ASSUME LiveModeEnabled, NEW g, ~Required(g)
      PROVE  g = "private_user_stream" /\ ~RequireStream
  BY <1>1 DEF Required, Wanted, RequiredOnceRequested, AccountGates
<1>2. NothingWaived
  BY <1>1 DEF NothingWaived, ReadyForOrder, Blocking
<1> QED BY <1>2, PTL

(* The gate on the local checks holds only by the outcome of the run of the
   checks that was started last. *)
THEOREM LatestTheorem == GoLiveSpec => []PassMeansLatest
<1>1. GoLiveInv => PassMeansLatest
  BY OwnConditions DEF GoLiveInv, ReportInv, PassMeansLatest, Reported
<1> QED BY <1>1, GateInvariant, PTL

(* The checks never end well on a service that asks for live trading. *)
THEOREM LockedTheorem == GoLiveSpec => EndsWellOnlyLocked
<1>1. ASSUME GoLiveInv, [GoLiveNext]_goLiveVars, checks = "asking", checks' = "fetched", fetched'
      PROVE  ~LiveRequested
  <2>1. FetchReadiness
    BY <1>1 DEF GoLiveNext, BeginReading, ReadPart, Answer, Arm, Evidence, Close, PanicStops,
                PanicDisarms, Reset, Restart, StartChecks, CheckStep, CheckAborts, WriteFinal,
                WriteActive, CheckDies, ReportAges, goLiveVars, report, live
  <2>2. "local_readiness" \in reading.failing
    BY <1>1, <2>1 DEF FetchReadiness, Read, GoLiveInv, AskInv
  <2>3. Blocking(reading.failing) # {}
    BY <2>2, WantedRequires DEF Blocking
  <2>4. ~NotReady(reading.items, reading.failing)
    BY <1>1, <2>1 DEF FetchReadiness
  <2> QED BY <2>3, <2>4 DEF NotReady, ReadyForOrder
<1>2. GoLiveInv /\ [GoLiveNext]_goLiveVars
        => [checks = "asking" /\ checks' = "fetched" /\ fetched' => ~LiveRequested]_goLiveVars
  BY <1>1
<1> QED BY <1>2, GateInvariant, PTL DEF GoLiveSpec, EndsWellOnlyLocked

(* What the gate promises of an order and of its reports, together. *)
THEOREM GateTheorem == GoLiveSpec => []GateSound
<1>1. GoLiveTypeOK /\ PanicSeen /\ NothingWaived /\ PassMeansLatest => GateSound
  BY DEF GateSound
<1> QED BY GateTypes, PanicTheorem, NothingWaivedTheorem, LatestTheorem, <1>1, PTL

-----------------------------------------------------------------------------
(***************************************************************************)
(* AccountView: any wallets, any number of overlapping recoveries.         *)
(***************************************************************************)

Places == {"rest", "account", "save", "orders", "write"}
Answers == {"missing", "open", "none"}
Syncs == [at : Places, errors : BOOLEAN, positions : Answers, orders : Answers,
          wallet : Wallets \cup {0}, was : SUBSET {"flat", "clear"}]

AccountTyped ==
    /\ sync \in [Recoveries -> Syncs]
    /\ holdings \in [wallet : Wallets, held : BOOLEAN, orders : BOOLEAN]

(* What was found empty has been so since the recovery began. *)
Witnessed(s) ==
    /\ s.positions = "none" => "flat" \in s.was
    /\ s.orders = "none" => "clear" \in s.was

(* A recovery under way has noted the account as it is; a report is as well
   founded as the recovery that wrote it. *)
AccountInv ==
    /\ AccountTyped
    /\ \A r \in Recoveries :
          /\ Witnessed(sync[r])
          /\ sync[r].at # "rest" => Facts(holdings) \subseteq sync[r].was
    /\ Witnessed(syncReport)

(* The facts of an account are what its fields say. *)
LEMMA FactsAre ==
    \A a : /\ Facts(a) \subseteq {"flat", "clear"}
           /\ "flat" \in Facts(a) <=> ~a.held
           /\ "clear" \in Facts(a) <=> ~a.orders
BY DEF Facts

(* What an answer adds to a recovery's record keeps its shape. *)
LEMMA SyncsKept ==
    ASSUME NEW o \in Syncs, NEW a \in Answers, NEW w \in Wallets
    PROVE  /\ [o EXCEPT !.at = "save", !.wallet = w, !.positions = a] \in Syncs
           /\ [o EXCEPT !.at = "write", !.orders = a] \in Syncs
           /\ \A place \in Places : [o EXCEPT !.at = place] \in Syncs
<1>1. "save" \in Places /\ "write" \in Places
  BY DEF Places
<1> QED BY <1>1 DEF Syncs

(* A step of one recovery is a change of its own record. *)
LEMMA AccountBecomes ==
    ASSUME AccountInv, NEW r \in Recoveries,
           NEW s \in Syncs,
           Becomes(r, s), Witnessed(s), s.at # "rest" => Facts(holdings) \subseteq s.was,
           Witnessed(syncReport'), UNCHANGED holdings
    PROVE  AccountInv'
<1>1. sync' = [sync EXCEPT ![r] = s]
  BY DEF Becomes
<1>2. \A q \in Recoveries : sync'[q] = IF q = r THEN s ELSE sync[q]
  BY <1>1 DEF AccountInv, AccountTyped
<1>3. AccountTyped'
  BY <1>1, <1>2 DEF AccountInv, AccountTyped
<1>4. \A q \in Recoveries : Witnessed(sync'[q])
  BY <1>2 DEF AccountInv
<1>5. \A q \in Recoveries : sync'[q].at # "rest" => Facts(holdings) \subseteq sync'[q].was
  BY <1>2 DEF AccountInv
<1> QED BY <1>3, <1>4, <1>5 DEF AccountInv, Witnessed

(* Nothing is found before the first recovery. *)
LEMMA AccountInvInit == AccountInit => AccountInv
<1> SUFFICES ASSUME AccountInit PROVE AccountInv
  OBVIOUS
<1>1. sync = [r \in Recoveries |-> NoSync] /\ syncReport = NothingReported
  BY DEF AccountInit
<1>2. AccountTyped
  BY <1>1 DEF AccountInit, AccountTyped, NoSync, Syncs, Places, Answers
<1> QED BY <1>1, <1>2 DEF AccountInv, Witnessed, NoSync, NothingReported

(* Each step of a recovery, and each change of the account, keeps it. *)
LEMMA AccountInvStep == AccountInv /\ [AccountNext]_accountVars => AccountInv'
<1> SUFFICES ASSUME AccountInv, [AccountNext]_accountVars PROVE AccountInv'
  OBVIOUS
<1>0. /\ \A r \in Recoveries : sync[r] \in Syncs /\ Witnessed(sync[r])
      /\ holdings \in [wallet : Wallets, held : BOOLEAN, orders : BOOLEAN]
      /\ Witnessed(syncReport)
      /\ \A r \in Recoveries : sync[r].at # "rest" => Facts(holdings) \subseteq sync[r].was
  BY DEF AccountInv, AccountTyped
<1>1. CASE AccountMoves
  <2>1. /\ holdings' \in [wallet : Wallets, held : BOOLEAN, orders : BOOLEAN]
        /\ syncReport' = syncReport
        /\ sync' = [r \in Recoveries |->
                      IF sync[r].at = "rest" THEN sync[r]
                      ELSE [sync[r] EXCEPT !.was = @ \cup Facts(holdings')]]
    BY <1>1 DEF AccountMoves, Local
  <2>2. ASSUME NEW r \in Recoveries
        PROVE  /\ sync'[r] \in Syncs /\ Witnessed(sync'[r])
               /\ sync'[r].at # "rest" => Facts(holdings') \subseteq sync'[r].was
    <3>1. CASE sync[r].at = "rest"
      BY <1>0, <2>1, <3>1
    <3>2. CASE sync[r].at # "rest"
      <4>1. sync'[r] = [sync[r] EXCEPT !.was = @ \cup Facts(holdings')]
        BY <2>1, <3>2
      <4>2. Facts(holdings') \subseteq {"flat", "clear"}
        BY FactsAre
      <4> QED BY <1>0, <4>1, <4>2 DEF Witnessed, Syncs
    <3> QED BY <3>1, <3>2
  <2>3. sync' \in [Recoveries -> Syncs]
    BY <2>1, <2>2
  <2>4. AccountTyped'
    BY <2>1, <2>2, <2>3 DEF AccountTyped
  <2> QED BY <1>0, <2>1, <2>2, <2>4 DEF AccountInv, Witnessed
<1>2. CASE UpdateLost \/ SaveUpdate \/ UNCHANGED accountVars
  <2>1. UNCHANGED <<sync, syncReport, holdings>>
    BY <1>2 DEF UpdateLost, SaveUpdate, accountVars, Local
  <2> QED BY <1>0, <2>1 DEF AccountInv, AccountTyped, Witnessed
<1>3. ASSUME NEW r \in Recoveries, BeginRecovery(r) PROVE AccountInv'
  <2>1. \E failed \in BOOLEAN :
          Becomes(r, [NoSync EXCEPT !.at = "account", !.errors = failed, !.was = Facts(holdings)])
    BY <1>3, Zenon DEF BeginRecovery
  <2>2. PICK failed \in BOOLEAN :
          Becomes(r, [NoSync EXCEPT !.at = "account", !.errors = failed, !.was = Facts(holdings)])
    BY <2>1, Zenon
  <2> DEFINE s == [NoSync EXCEPT !.at = "account", !.errors = failed, !.was = Facts(holdings)]
  <2>3. s \in Syncs /\ Witnessed(s) /\ Facts(holdings) \subseteq s.was
    BY FactsAre DEF NoSync, Syncs, Places, Answers, Witnessed
  <2>4. UNCHANGED <<holdings, syncReport>>
    BY <1>3 DEF BeginRecovery, Exchange
  <2>5. Becomes(r, s)
    BY <2>2
  <2>6. Witnessed(syncReport')
    BY <1>0, <2>4
  <2> HIDE DEF s
  <2> QED BY <2>3, <2>4, <2>5, <2>6, AccountBecomes
<1>4. ASSUME NEW r \in Recoveries, FetchAccount(r) PROVE AccountInv'
  <2>0. PICK o \in Syncs, w \in Wallets : o = sync[r] /\ w = holdings.wallet
    BY <1>0
  <2>1. UNCHANGED <<holdings, syncReport>> /\ sync[r].at = "account"
    BY <1>4 DEF FetchAccount, Exchange, Local, At
  <2>2. Witnessed(syncReport') /\ Facts(holdings) \subseteq sync[r].was
    BY <1>0, <2>1
  <2>3. CASE Becomes(r, [sync[r] EXCEPT !.at = "save", !.wallet = holdings.wallet,
                           !.positions = IF holdings.held THEN "open" ELSE "none"])
    <3>1. PICK a \in Answers : /\ a = IF holdings.held THEN "open" ELSE "none"
                               /\ a = "none" => "flat" \in Facts(holdings)
      BY FactsAre DEF Answers
    <3> DEFINE s == [o EXCEPT !.at = "save", !.wallet = w, !.positions = a]
    <3>2. Becomes(r, s)
      BY <2>0, <2>3, <3>1
    <3>3. s \in Syncs
      BY SyncsKept, Zenon
    <3>4. s.positions = a /\ s.orders = sync[r].orders /\ s.was = sync[r].was
      BY <2>0 DEF Syncs
    <3> HIDE DEF s
    <3>5. Witnessed(s)
      BY <1>0, <2>2, <3>1, <3>4 DEF Witnessed
    <3> QED BY <2>1, <2>2, <3>2, <3>3, <3>4, <3>5, AccountBecomes
  <2>4. CASE Becomes(r, [sync[r] EXCEPT !.at = "orders"])
    <3> DEFINE s == [sync[r] EXCEPT !.at = "orders"]
    <3>1. s \in Syncs /\ s.was = sync[r].was /\ Witnessed(s)
      BY <1>0 DEF Syncs, Places, Witnessed
    <3>2. Becomes(r, s)
      BY <2>4
    <3> HIDE DEF s
    <3> QED BY <2>1, <2>2, <3>1, <3>2, AccountBecomes
  <2> QED BY <1>4, <2>3, <2>4 DEF FetchAccount
<1>5. ASSUME NEW r \in Recoveries, SaveSnapshot(r) PROVE AccountInv'
  <2> DEFINE s == [sync[r] EXCEPT !.at = "orders"]
  <2>1. UNCHANGED <<holdings, syncReport>> /\ Becomes(r, s) /\ sync[r].at = "save"
    BY <1>5 DEF SaveSnapshot, Exchange, At
  <2>2. s \in Syncs /\ s.was = sync[r].was /\ Witnessed(s)
    BY <1>0 DEF Syncs, Places, Witnessed
  <2> HIDE DEF s
  <2> QED BY <1>0, <2>1, <2>2, AccountBecomes
<1>6. ASSUME NEW r \in Recoveries, FetchOrders(r) PROVE AccountInv'
  <2>0. PICK o \in Syncs, w \in Wallets : o = sync[r] /\ w = holdings.wallet
    BY <1>0
  <2>1. UNCHANGED <<holdings, syncReport>> /\ sync[r].at = "orders"
    BY <1>6 DEF FetchOrders, Exchange, Local, At
  <2>2. Witnessed(syncReport') /\ Facts(holdings) \subseteq sync[r].was
    BY <1>0, <2>1
  <2>3. CASE Becomes(r, [sync[r] EXCEPT !.at = "write",
                           !.orders = IF holdings.orders THEN "open" ELSE "none"])
    <3>1. PICK a \in Answers : /\ a = IF holdings.orders THEN "open" ELSE "none"
                               /\ a = "none" => "clear" \in Facts(holdings)
      BY FactsAre DEF Answers
    <3> DEFINE s == [o EXCEPT !.at = "write", !.orders = a]
    <3>2. Becomes(r, s)
      BY <2>0, <2>3, <3>1
    <3>3. s \in Syncs
      BY SyncsKept, Zenon
    <3>4. s.positions = sync[r].positions /\ s.orders = a /\ s.was = sync[r].was
      BY <2>0 DEF Syncs
    <3> HIDE DEF s
    <3>5. Witnessed(s)
      BY <1>0, <2>2, <3>1, <3>4 DEF Witnessed
    <3> QED BY <2>1, <2>2, <3>2, <3>3, <3>4, <3>5, AccountBecomes
  <2>4. CASE Becomes(r, [sync[r] EXCEPT !.at = "write"])
    <3> DEFINE s == [sync[r] EXCEPT !.at = "write"]
    <3>1. s \in Syncs /\ s.was = sync[r].was /\ Witnessed(s)
      BY <1>0 DEF Syncs, Places, Witnessed
    <3>2. Becomes(r, s)
      BY <2>4
    <3> HIDE DEF s
    <3> QED BY <2>1, <2>2, <3>1, <3>2, AccountBecomes
  <2> QED BY <1>6, <2>3, <2>4 DEF FetchOrders
<1>7. ASSUME NEW r \in Recoveries, WriteReport(r) PROVE AccountInv'
  <2>1. Becomes(r, NoSync) /\ UNCHANGED holdings /\ Witnessed(syncReport')
    BY <1>0, <1>7 DEF WriteReport, Exchange, Witnessed
  <2>2. NoSync \in Syncs /\ Witnessed(NoSync) /\ NoSync.at = "rest"
    BY DEF NoSync, Syncs, Places, Answers, Witnessed
  <2> QED BY <2>1, <2>2, AccountBecomes
<1> QED BY <1>1, <1>2, <1>3, <1>4, <1>5, <1>6, <1>7 DEF AccountNext, RecoveryStep

(* However many recoveries overlap, whatever fails in them and whatever the
   stream saves meanwhile: gates that pass on open orders and positions have seen
   an account without them, after the recovery that reported it began. *)
THEOREM AccountTheorem == AccountSpec => []GatesSawTheAccount
<1>1. AccountInv => GatesSawTheAccount
  BY DEF AccountInv, Witnessed, GatesSawTheAccount, RecoveryGates
<1> QED BY <1>1, AccountInvInit, AccountInvStep, PTL DEF AccountSpec

-----------------------------------------------------------------------------
(***************************************************************************)
(* PaperLedger: any positions, marks and number of closing requests.       *)
(***************************************************************************)

Rows ==
    {NoRow} \cup [status : {"open", "closed"}, side : {"BUY", "SELL"}, entry : Marks,
                  realized : Int]

PaperTyped ==
    /\ paper \in [Positions -> Rows]
    /\ mark \in Marks
    /\ closer \in [Closers -> [position : Positions \cup {NoOne}, result : Int]]
    /\ before \subseteq Positions
    /\ DOMAIN paperReport = {"step", "open", "unrealized", "closed", "equity"}
    /\ paperReport.step \in {"idle", "marks", "realized", "done"}

(* A request closes a position that has been opened; what existed when the
   report began is among the open positions it read, or is closed by now. *)
PaperInv ==
    /\ PaperTyped
    /\ \A p \in Positions : paper[p].status = "open" => paper[p].realized = 0
    /\ \A c \in Closers :
          closer[c].position # NoOne => paper[closer[c].position].status # "none"
    /\ paperReport.step \in {"marks", "realized"}
          => before \subseteq paperReport.open \cup InStatus("closed")
    /\ NothingMissed

(* The result of a close is a difference of prices. *)
LEMMA ResultIsInt ==
    ASSUME PaperTyped, NEW p \in Positions, paper[p].status # "none"
    PROVE  Result(p, mark) \in Int
<1>1. paper[p].entry \in Marks /\ mark \in Marks
  BY DEF PaperTyped, Rows, NoRow
<1>2. \A price \in Marks : price \in Int
  BY PaperAssumption
<1>3. paper[p].entry \in Int /\ mark \in Int
  BY <1>1, <1>2
<1> QED BY <1>3 DEF Result

(* A step that leaves the report alone closes positions, and reopens none. *)
LEMMA ReportKept ==
    ASSUME PaperInv, UNCHANGED <<paperReport, before>>,
           InStatus("closed") \subseteq InStatus("closed")'
    PROVE  /\ paperReport'.step \in {"marks", "realized"}
                => before' \subseteq paperReport'.open \cup InStatus("closed")'
           /\ NothingMissed'
<1>1. NothingMissed'
  BY DEF PaperInv, NothingMissed
<1>2. paperReport'.step \in {"marks", "realized"}
        => before' \subseteq paperReport'.open \cup InStatus("closed")'
  <2> SUFFICES ASSUME paperReport.step \in {"marks", "realized"}
               PROVE  before \subseteq paperReport.open \cup InStatus("closed")'
    OBVIOUS
  <2> QED BY DEF PaperInv
<1> QED BY <1>1, <1>2

(* Nothing has been opened, closed or reported. *)
LEMMA PaperInvInit == PaperInit => PaperInv
<1> SUFFICES ASSUME PaperInit PROVE PaperInv
  OBVIOUS
<1>1. PaperTyped
  BY DEF PaperInit, PaperTyped, Rows, IdleCloser, NoReport
<1> QED BY <1>1 DEF PaperInit, PaperInv, NoRow, IdleCloser, NoReport, NothingMissed

(* Opening, closing, moving marks and each step of a report keep it. *)
LEMMA PaperInvStep == PaperInv /\ [PaperNext]_paperVars => PaperInv'
<1> SUFFICES ASSUME PaperInv, [PaperNext]_paperVars PROVE PaperInv'
  OBVIOUS
<1>1. ASSUME NEW p \in Positions, NEW side \in {"BUY", "SELL"}, OpenPosition(p, side)
      PROVE  PaperInv'
  <2>1. /\ paper[p].status = "none"
        /\ paper' = [paper EXCEPT ![p] =
                       [status |-> "open", side |-> side, entry |-> mark, realized |-> 0]]
        /\ UNCHANGED <<mark, closer, paperReport, before>>
    BY <1>1 DEF OpenPosition
  <2>2. [status |-> "open", side |-> side, entry |-> mark, realized |-> 0] \in Rows
    BY DEF PaperInv, PaperTyped, Rows
  <2>3. PaperTyped'
    BY <2>1, <2>2 DEF PaperInv, PaperTyped
  <2>4. \A q \in Positions : q # p => paper'[q] = paper[q]
    BY <2>1 DEF PaperInv, PaperTyped
  <2>5. paper'[p].status = "open" /\ paper'[p].realized = 0
    BY <2>1 DEF PaperInv, PaperTyped
  <2>6. InStatus("closed") \subseteq InStatus("closed")'
    BY <2>1, <2>4 DEF InStatus
  <2>7. ASSUME NEW c \in Closers, closer'[c].position # NoOne
        PROVE  paper'[closer'[c].position].status # "none"
    <3>1. closer[c].position \in Positions /\ paper[closer[c].position].status # "none"
      BY <2>1, <2>7 DEF PaperInv, PaperTyped
    <3> QED BY <2>1, <2>4, <3>1
  <2> QED BY <2>3, <2>4, <2>5, <2>6, <2>7, <2>1, ReportKept DEF PaperInv
<1>2. ASSUME NEW price \in Marks, MarkMoves(price) PROVE PaperInv'
  BY <1>2 DEF MarkMoves, PaperInv, PaperTyped, InStatus, NothingMissed
<1>3. ASSUME NEW c \in Closers, BookClose(c) PROVE PaperInv'
  <2>1. PICK q \in Positions, gain \in Int :
          q = closer[c].position /\ gain = closer[c].result
    BY <1>3 DEF BookClose, PaperInv, PaperTyped
  <2>2. /\ paper' = [paper EXCEPT ![q].status = "closed", ![q].realized = gain]
        /\ closer' = [closer EXCEPT ![c] = IdleCloser]
        /\ UNCHANGED <<mark, paperReport, before>>
        /\ paper[q].status # "none"
    BY <1>3, <2>1 DEF BookClose, PaperInv
  <2>3. PICK row \in Rows : row = paper[q]
    BY DEF PaperInv, PaperTyped
  <2>4. row \in [status : {"open", "closed"}, side : {"BUY", "SELL"}, entry : Marks,
                 realized : Int]
    BY <2>2, <2>3 DEF Rows, NoRow
  <2> DEFINE closed == [row EXCEPT !.status = "closed", !.realized = gain]
  <2>5. closed \in Rows /\ closed.status = "closed"
    BY <2>4 DEF Rows
  <2>6. paper' = [paper EXCEPT ![q] = closed]
    BY <2>2, <2>3 DEF PaperInv, PaperTyped
  <2> HIDE DEF closed
  <2>7. paper'[q] = closed /\ \A p \in Positions : p # q => paper'[p] = paper[p]
    BY <2>6 DEF PaperInv, PaperTyped
  <2>8. paper' \in [Positions -> Rows]
    BY <2>5, <2>6 DEF PaperInv, PaperTyped
  <2>9. closer' \in [Closers -> [position : Positions \cup {NoOne}, result : Int]]
    BY <2>2 DEF PaperInv, PaperTyped, IdleCloser
  <2>10. PaperTyped'
    BY <2>2, <2>8, <2>9 DEF PaperInv, PaperTyped
  <2>11. InStatus("closed") \subseteq InStatus("closed")'
    BY <2>5, <2>7 DEF InStatus
  <2>12. ASSUME NEW d \in Closers, closer'[d].position # NoOne
         PROVE  paper'[closer'[d].position].status # "none"
    <3>1. closer'[d] = closer[d]
      BY <2>2, <2>12 DEF PaperInv, PaperTyped, IdleCloser
    <3>2. closer[d].position \in Positions /\ paper[closer[d].position].status # "none"
      BY <2>12, <3>1 DEF PaperInv, PaperTyped
    <3> QED BY <2>5, <2>7, <3>1, <3>2
  <2>13. \A p \in Positions : paper'[p].status = "open" => paper'[p].realized = 0
    BY <2>5, <2>7 DEF PaperInv
  <2> QED BY <2>2, <2>10, <2>11, <2>12, <2>13, ReportKept DEF PaperInv
<1>4. ASSUME NEW c \in Closers, NEW p \in Positions, StartClose(c, p) PROVE PaperInv'
  <2>1. /\ paper[p].status = "open"
        /\ closer' = [closer EXCEPT ![c] = [position |-> p, result |-> Result(p, mark)]]
        /\ UNCHANGED <<paper, mark, paperReport, before>>
    BY <1>4 DEF StartClose
  <2>2. PICK gain \in Int : gain = Result(p, mark)
    BY <2>1, ResultIsInt DEF PaperInv
  <2>3. closer' = [closer EXCEPT ![c] = [position |-> p, result |-> gain]]
    BY <2>1, <2>2
  <2>4. PaperTyped'
    BY <2>1, <2>3 DEF PaperInv, PaperTyped
  <2>5. \A d \in Closers : closer'[d].position = IF d = c THEN p ELSE closer[d].position
    BY <2>3 DEF PaperInv, PaperTyped
  <2>6. InStatus("closed") \subseteq InStatus("closed")'
    BY <2>1 DEF InStatus
  <2> QED BY <2>1, <2>4, <2>5, <2>6, ReportKept DEF PaperInv
<1>5. CASE ReadOpen
  <2>1. /\ paperReport'.step = "marks" /\ paperReport'.open = InStatus("open")
        /\ DOMAIN paperReport' = {"step", "open", "unrealized", "closed", "equity"}
        /\ before' = InStatus("open") \cup InStatus("closed")
        /\ UNCHANGED <<paper, mark, closer>>
    BY <1>5 DEF ReadOpen, NoReport
  <2>2. PaperTyped'
    BY <2>1 DEF PaperInv, PaperTyped, InStatus
  <2>3. InStatus("closed")' = InStatus("closed")
    BY <2>1 DEF InStatus
  <2> QED BY <2>1, <2>2, <2>3 DEF PaperInv, NothingMissed
<1>6. CASE ReadMarks
  <2>1. /\ paperReport.step = "marks" /\ paperReport'.step = "realized"
        /\ paperReport'.open = paperReport.open
        /\ DOMAIN paperReport' = {"step", "open", "unrealized", "closed", "equity"}
        /\ UNCHANGED <<paper, mark, closer, before>>
    BY <1>6 DEF ReadMarks, PaperInv, PaperTyped
  <2>2. PaperTyped'
    BY <2>1 DEF PaperInv, PaperTyped
  <2>3. InStatus("closed")' = InStatus("closed")
    BY <2>1 DEF InStatus
  <2> QED BY <2>1, <2>2, <2>3 DEF PaperInv, NothingMissed
<1>7. CASE ReadRealized
  <2>1. /\ paperReport.step = "realized" /\ paperReport'.step = "done"
        /\ paperReport'.open = paperReport.open /\ paperReport'.closed = InStatus("closed")
        /\ DOMAIN paperReport' = {"step", "open", "unrealized", "closed", "equity"}
        /\ UNCHANGED <<paper, mark, closer, before>>
    BY <1>7 DEF ReadRealized, PaperInv, PaperTyped
  <2>2. PaperTyped'
    BY <2>1 DEF PaperInv, PaperTyped
  <2> QED BY <2>1, <2>2 DEF PaperInv, NothingMissed
<1>8. CASE UNCHANGED paperVars
  BY <1>8 DEF paperVars, PaperInv, PaperTyped, InStatus, NothingMissed
<1> QED BY <1>1, <1>2, <1>3, <1>4, <1>5, <1>6, <1>7, <1>8 DEF PaperNext

(* A settled result stays settled and as it is. *)
LEMMA SettledStep ==
    PaperInv /\ [PaperNext]_paperVars
        => [\A p \in Positions : Settled(p) => Settled(p)' /\ paper'[p] = paper[p]]_paperVars
<1> SUFFICES ASSUME PaperInv, PaperNext, NEW p \in Positions, Settled(p)
             PROVE  Settled(p)' /\ paper'[p] = paper[p]
  OBVIOUS
<1>0. /\ paper[p].status = "closed" /\ p # NoOne
      /\ \A c \in Closers : closer[c].position # p
  BY PaperAssumption DEF Settled
<1>1. ASSUME NEW q \in Positions, NEW side \in {"BUY", "SELL"}, OpenPosition(q, side)
      PROVE  Settled(p)' /\ paper'[p] = paper[p]
  <2>1. q # p
    BY <1>0, <1>1 DEF OpenPosition
  <2>2. paper'[p] = paper[p] /\ closer' = closer
    BY <1>1, <2>1 DEF OpenPosition, PaperInv, PaperTyped
  <2> QED BY <1>0, <2>2 DEF Settled
<1>2. ASSUME NEW c \in Closers, BookClose(c) PROVE Settled(p)' /\ paper'[p] = paper[p]
  <2>1. paper'[p] = paper[p]
    BY <1>0, <1>2 DEF BookClose, PaperInv, PaperTyped
  <2>2. \A d \in Closers : closer'[d] = IF d = c THEN IdleCloser ELSE closer[d]
    BY <1>2 DEF BookClose, PaperInv, PaperTyped
  <2> QED BY <1>0, <2>1, <2>2 DEF Settled, IdleCloser
<1>3. ASSUME NEW c \in Closers, NEW q \in Positions, StartClose(c, q)
      PROVE  Settled(p)' /\ paper'[p] = paper[p]
  <2>1. q # p /\ paper' = paper
    BY <1>0, <1>3 DEF StartClose
  <2>2. closer' = [closer EXCEPT ![c] = [position |-> q, result |-> Result(q, mark)]]
    BY <1>3 DEF StartClose
  <2>3. \A d \in Closers : closer'[d].position = IF d = c THEN q ELSE closer[d].position
    BY <2>2 DEF PaperInv, PaperTyped
  <2> QED BY <1>0, <2>1, <2>3 DEF Settled
<1>4. CASE \/ \E price \in Marks : MarkMoves(price)
           \/ ReadOpen \/ ReadMarks \/ ReadRealized
  BY <1>0, <1>4 DEF MarkMoves, ReadOpen, ReadMarks, ReadRealized, Settled
<1> QED BY <1>1, <1>2, <1>3, <1>4 DEF PaperNext

(* The invariant holds throughout. *)
LEMMA PaperInvariant == PaperSpec => []PaperInv
BY PaperInvInit, PaperInvStep, PTL DEF PaperSpec

(* Whatever closes race closes, reports and openings: a report misses no position
   that existed when it began, and a settled result is final. *)
THEOREM PaperTheorem == PaperSpec => PaperSound
<1>1. PaperInv => PaperTypeOK /\ NothingMissed
  <2> SUFFICES ASSUME PaperInv PROVE PaperTypeOK
    BY DEF PaperInv
  <2>1. \A p \in Positions : paper[p].status \in {"none", "open", "closed"}
    BY DEF PaperInv, PaperTyped, Rows, NoRow
  <2> QED BY <2>1 DEF PaperInv, PaperTyped, PaperTypeOK
<1> QED BY <1>1, SettledStep, PaperInvariant, PTL DEF PaperSpec, PaperSound, SettledForGood

-----------------------------------------------------------------------------
(***************************************************************************)
(* AuditLog: any writers, messages and statuses, any length of the chain   *)
(* and number of stops.                                                    *)
(***************************************************************************)

ChainRecords == [what : Contents, previous : Seq(Contents), hash : Seq(Contents)]

AtCommit(w) == writer[w].step = "commit"

(* The lock is held by the writer inside a transaction, and by no other: what it
   has read as the last hash is the last hash until it commits. *)
LockInv ==
    /\ \A w \in Writers : AtCommit(w) => holder = {w} /\ writer[w].previous = LastHash
    /\ \A w \in Writers : w \in holder => AtCommit(w)

\* A chain nobody has altered is linked throughout, and is what was committed.
Untouched ==
    /\ Len(chain) = Len(records)
    /\ \A i \in DOMAIN chain : Linked(chain, i) /\ chain[i].what = records[i]

\* An altered chain has a record that does not fit.
Broken == \E i \in DOMAIN chain : ~Linked(chain, i)

AuditInv ==
    /\ AuditTypeOK
    /\ LockInv
    /\ ~altered => Untouched
    /\ altered => Broken
    /\ StatusExplained

(* A hash tells apart the content it ends with, and is longer than the hash it
   was computed from. *)
LEMMA HashTellsApart ==
    ASSUME NEW s \in Seq(Contents), NEW a \in Contents, NEW b \in Contents
    PROVE  /\ Hash(s, a) = Hash(s, b) => a = b
           /\ Hash(s, a) # s /\ Hash(s, a) # Genesis
           /\ Hash(s, a) \in Seq(Contents)
<1>1. Len(Append(s, a)) = Len(s) + 1 /\ Append(s, a)[Len(s) + 1] = a
  BY AppendProperties
<1>2. Append(s, b)[Len(s) + 1] = b
  BY AppendProperties
<1>3. Append(s, a) \in Seq(Contents) /\ Len(s) \in Nat /\ Len(<<>>) = 0
  BY AppendProperties, LenProperties
<1>4. Append(s, a) # s /\ Append(s, a) # <<>>
  BY <1>1, <1>3
<1> QED BY <1>1, <1>2, <1>3, <1>4 DEF Hash, Genesis

(* The last hash is a hash. *)
LEMMA LastHashTyped == AuditTypeOK => LastHash \in Seq(Contents)
<1> SUFFICES ASSUME AuditTypeOK, chain # <<>> PROVE chain[Len(chain)].hash \in Seq(Contents)
  BY EmptySeq DEF LastHash, Genesis
<1>1. chain \in Seq(ChainRecords)
  BY DEF AuditTypeOK, ChainRecords
<1>2. Len(chain) \in 1..Len(chain)
  BY <1>1, EmptySeq
<1>3. chain[Len(chain)] \in ChainRecords
  BY <1>1, <1>2, ElementOfSeq
<1> QED BY <1>3 DEF ChainRecords

(* An order's status stays explained when no writer loses what it owes, no record
   is lost, and the status is the same. *)
LEMMA ExplainedKept ==
    ASSUME StatusExplained, order' = order, lost' = lost, Range(records) \subseteq Range(records'),
           \A w \in Writers :
              writer[w].step \in {"record", "commit"}
                => \/ /\ writer'[w].step \in {"record", "commit"}
                      /\ writer'[w].what = writer[w].what
                   \/ writer[w].what \in Range(records')
    PROVE  StatusExplained'
<1>1. ASSUME NEW w \in Writers, Owes(w, order) PROVE StatusExplained'
  <2>1. PICK from \in Statuses : writer[w].what = Transition(from, order)
    BY <1>1 DEF Owes
  <2>2. CASE writer'[w].step \in {"record", "commit"} /\ writer'[w].what = writer[w].what
    <3>1. Owes(w, order)'
      BY <2>1, <2>2 DEF Owes, Transition
    <3> QED BY <3>1 DEF StatusExplained
  <2>3. CASE writer[w].what \in Range(records')
    BY <2>1, <2>3 DEF StatusExplained, Transition
  <2> QED BY <1>1, <2>2, <2>3 DEF Owes
<1>2. CASE \/ order = NewOrder \/ order \in lost
           \/ \E from \in Statuses : Transition(from, order) \in Range(records)
  BY <1>2 DEF StatusExplained, Transition
<1> QED BY <1>1, <1>2 DEF StatusExplained

(* Nothing is recorded, altered or lost. *)
LEMMA AuditInvInit == AuditInit => AuditInv
<1> SUFFICES ASSUME AuditInit PROVE AuditInv
  OBVIOUS
<1>1. AuditTypeOK
  BY AuditAssumption, EmptySeq DEF AuditInit, AuditTypeOK, WriterStates
<1> QED BY <1>1 DEF AuditInit, AuditInv, LockInv, AtCommit, IdleWriter, Untouched, StatusExplained

(* What a writer holds, by its step. *)
LEMMA WriterHas ==
    ASSUME AuditTypeOK, NEW w \in Writers
    PROVE  /\ writer[w].step = "write" => writer[w].from \in Statuses /\ writer[w].to \in Statuses
           /\ writer[w].step \in {"record", "commit"} => writer[w].what \in Contents
           /\ writer[w].step = "commit" => writer[w].previous \in Seq(Contents)
BY DEF AuditTypeOK, WriterStates, IdleWriter

(* A writer that takes a step becomes s; the others stay as they are. *)
LEMMA WriterBecomes ==
    ASSUME AuditTypeOK, NEW w \in Writers, NEW s \in WriterStates,
           writer' = [writer EXCEPT ![w] = s]
    PROVE  /\ writer' \in [Writers -> WriterStates]
           /\ writer'[w] = s
           /\ \A v \in Writers : v # w => writer'[v] = writer[v]
BY DEF AuditTypeOK

(* A message is picked up. *)
LEMMA HasMessageStep ==
    ASSUME AuditInv, NEW w \in Writers, NEW m \in Messages, HasMessage(w, m)
    PROVE  AuditInv'
<1> DEFINE s == [step |-> "record", what |-> m]
<1>1. s \in WriterStates /\ s.step = "record"
  BY DEF WriterStates, Contents
<1>2. /\ writer[w].step = "idle" /\ writer' = [writer EXCEPT ![w] = s]
      /\ UNCHANGED <<serving, stops, holder, records, chain, order, altered, lost>>
  BY DEF HasMessage, dbVars
<1> HIDE DEF s
<1>3. /\ writer' \in [Writers -> WriterStates] /\ writer'[w] = s
      /\ \A v \in Writers : v # w => writer'[v] = writer[v]
  BY <1>1, <1>2, WriterBecomes DEF AuditInv
<1>4. AuditTypeOK'
  BY <1>2, <1>3 DEF AuditInv, AuditTypeOK
<1>5. \A v \in Writers : AtCommit(v)' <=> AtCommit(v)
  BY <1>1, <1>2, <1>3 DEF AtCommit
<1>6. LockInv'
  <2>1. \A v \in Writers : AtCommit(v) => writer'[v] = writer[v]
    BY <1>2, <1>3 DEF AtCommit
  <2>2. LastHash' = LastHash
    BY <1>2 DEF LastHash
  <2> QED BY <1>2, <1>5, <2>1, <2>2 DEF AuditInv, LockInv
<1>7. StatusExplained'
  <2>1. \A v \in Writers : writer[v].step \in {"record", "commit"} => writer'[v] = writer[v]
    BY <1>2, <1>3
  <2> QED BY <1>2, <2>1, ExplainedKept DEF AuditInv
<1> QED BY <1>2, <1>4, <1>6, <1>7 DEF AuditInv, Untouched, Broken, Linked

(* The lock is taken and the last hash read. *)
LEMMA BeginStep ==
    ASSUME AuditInv, NEW w \in Writers, Begin(w)
    PROVE  AuditInv'
<1>0. PICK c \in Contents, prev \in Seq(Contents) : c = writer[w].what /\ prev = LastHash
  BY WriterHas, LastHashTyped DEF AuditInv, Begin
<1> DEFINE s == [step |-> "commit", what |-> c, previous |-> prev]
<1>1. s \in WriterStates /\ s.step = "commit" /\ s.what = c /\ s.previous = prev
  BY DEF WriterStates
<1>2. /\ writer[w].step = "record" /\ writer' = [writer EXCEPT ![w] = s]
      /\ holder = {} /\ holder' = {w}
      /\ UNCHANGED <<serving, stops, records, chain, order, altered, lost>>
  BY <1>0 DEF Begin, dbVars
<1> HIDE DEF s
<1>3. /\ writer' \in [Writers -> WriterStates] /\ writer'[w] = s
      /\ \A v \in Writers : v # w => writer'[v] = writer[v]
  BY <1>1, <1>2, WriterBecomes DEF AuditInv
<1>4. AuditTypeOK'
  BY <1>2, <1>3 DEF AuditInv, AuditTypeOK
<1>5. LastHash' = LastHash
  BY <1>2 DEF LastHash
<1>6. LockInv'
  <2>1. \A v \in Writers : ~AtCommit(v)
    BY <1>2 DEF AuditInv, LockInv
  <2>2. \A v \in Writers : AtCommit(v)' => v = w
    BY <1>3, <2>1 DEF AtCommit
  <2> QED BY <1>0, <1>1, <1>2, <1>3, <1>5, <2>2 DEF LockInv, AtCommit
<1>7. StatusExplained'
  <2>1. \A v \in Writers :
          writer[v].step \in {"record", "commit"}
            => writer'[v].step \in {"record", "commit"} /\ writer'[v].what = writer[v].what
    BY <1>0, <1>1, <1>3
  <2> QED BY <1>2, <2>1, ExplainedKept DEF AuditInv
<1> QED BY <1>2, <1>4, <1>6, <1>7 DEF AuditInv, Untouched, Broken, Linked

(* The order is read before the lock is taken to write it. *)
LEMMA ReadOrderStep ==
    ASSUME AuditInv, NEW w \in Writers, NEW to \in Statuses, ReadOrder(w, to)
    PROVE  AuditInv'
<1> DEFINE s == [step |-> "write", from |-> order, to |-> to]
<1>1. s \in WriterStates /\ s.step = "write"
  BY DEF AuditInv, AuditTypeOK, WriterStates
<1>2. /\ writer[w].step = "idle" /\ writer' = [writer EXCEPT ![w] = s]
      /\ UNCHANGED <<serving, stops, holder, records, chain, order, altered, lost>>
  BY DEF ReadOrder, dbVars
<1> HIDE DEF s
<1>3. /\ writer' \in [Writers -> WriterStates] /\ writer'[w] = s
      /\ \A v \in Writers : v # w => writer'[v] = writer[v]
  BY <1>1, <1>2, WriterBecomes DEF AuditInv
<1>4. AuditTypeOK'
  BY <1>2, <1>3 DEF AuditInv, AuditTypeOK
<1>5. \A v \in Writers : AtCommit(v)' <=> AtCommit(v)
  BY <1>1, <1>2, <1>3 DEF AtCommit
<1>6. LockInv'
  <2>1. \A v \in Writers : AtCommit(v) => writer'[v] = writer[v]
    BY <1>2, <1>3 DEF AtCommit
  <2>2. LastHash' = LastHash
    BY <1>2 DEF LastHash
  <2> QED BY <1>2, <1>5, <2>1, <2>2 DEF AuditInv, LockInv
<1>7. StatusExplained'
  <2>1. \A v \in Writers : writer[v].step \in {"record", "commit"} => writer'[v] = writer[v]
    BY <1>2, <1>3
  <2> QED BY <1>2, <2>1, ExplainedKept DEF AuditInv
<1> QED BY <1>2, <1>4, <1>6, <1>7 DEF AuditInv, Untouched, Broken, Linked

(* The new status is written, and its writer owes the transition. *)
LEMMA WriteOrderStep ==
    ASSUME AuditInv, NEW w \in Writers, WriteOrder(w)
    PROVE  AuditInv'
<1>0. PICK from \in Statuses, to \in Statuses : from = writer[w].from /\ to = writer[w].to
  BY WriterHas DEF AuditInv, WriteOrder
<1> DEFINE s == [step |-> "record", what |-> Transition(from, to)]
<1>1. s \in WriterStates /\ s.step = "record" /\ s.what = Transition(from, to)
  BY DEF WriterStates, Contents, Transition
<1>2. /\ writer[w].step = "write" /\ writer' = [writer EXCEPT ![w] = s]
      /\ order' = to
      /\ UNCHANGED <<serving, stops, holder, records, chain, altered, lost>>
  BY <1>0 DEF WriteOrder
<1> HIDE DEF s
<1>3. /\ writer' \in [Writers -> WriterStates] /\ writer'[w] = s
      /\ \A v \in Writers : v # w => writer'[v] = writer[v]
  BY <1>1, <1>2, WriterBecomes DEF AuditInv
<1>4. AuditTypeOK'
  BY <1>2, <1>3 DEF AuditInv, AuditTypeOK
<1>5. \A v \in Writers : AtCommit(v)' <=> AtCommit(v)
  BY <1>1, <1>2, <1>3 DEF AtCommit
<1>6. LockInv'
  <2>1. \A v \in Writers : AtCommit(v) => writer'[v] = writer[v]
    BY <1>2, <1>3 DEF AtCommit
  <2>2. LastHash' = LastHash
    BY <1>2 DEF LastHash
  <2> QED BY <1>2, <1>5, <2>1, <2>2 DEF AuditInv, LockInv
<1>7. Owes(w, order)'
  BY <1>1, <1>2, <1>3 DEF Owes, Transition
<1>8. StatusExplained'
  BY <1>7 DEF StatusExplained
<1> QED BY <1>2, <1>4, <1>6, <1>8 DEF AuditInv, Untouched, Broken, Linked

(* The row and its chain record are committed. *)
LEMMA CommitStep ==
    ASSUME AuditInv, NEW w \in Writers, Commit(w)
    PROVE  AuditInv'
<1>0. PICK c \in Contents, prev \in Seq(Contents) : c = writer[w].what /\ prev = writer[w].previous
  BY WriterHas DEF AuditInv, Commit
<1>1. prev = LastHash /\ holder = {w}
  BY <1>0 DEF AuditInv, LockInv, AtCommit, Commit
<1> DEFINE rec == [what |-> c, previous |-> prev, hash |-> Hash(prev, c)]
<1>2. rec \in ChainRecords /\ rec.what = c /\ rec.previous = prev /\ rec.hash = Hash(prev, c)
  BY HashTellsApart DEF ChainRecords
<1>3. /\ writer[w].step = "commit" /\ writer' = [writer EXCEPT ![w] = IdleWriter]
      /\ records' = Append(records, c) /\ chain' = Append(chain, rec)
      /\ holder' = {}
      /\ UNCHANGED <<serving, stops, order, altered, lost>>
  BY <1>0, <1>1 DEF Commit
<1> HIDE DEF rec
<1>4. IdleWriter \in WriterStates /\ IdleWriter.step = "idle"
  BY DEF WriterStates, IdleWriter
<1>5. /\ writer' \in [Writers -> WriterStates] /\ writer'[w] = IdleWriter
      /\ \A v \in Writers : v # w => writer'[v] = writer[v]
  BY <1>3, <1>4, WriterBecomes DEF AuditInv
<1>6. chain \in Seq(ChainRecords) /\ records \in Seq(Contents)
  BY DEF AuditInv, AuditTypeOK, ChainRecords
<1>7. /\ chain' \in Seq(ChainRecords) /\ Len(chain') = Len(chain) + 1
      /\ \A i \in 1..Len(chain) : chain'[i] = chain[i]
      /\ chain'[Len(chain) + 1] = rec
      /\ Len(chain) \in Nat /\ DOMAIN chain = 1..Len(chain) /\ DOMAIN chain' = 1..Len(chain')
  BY <1>2, <1>3, <1>6, AppendProperties, LenProperties
<1>8. /\ records' \in Seq(Contents) /\ Len(records') = Len(records) + 1
      /\ \A i \in 1..Len(records) : records'[i] = records[i]
      /\ records'[Len(records) + 1] = c
      /\ Len(records) \in Nat /\ DOMAIN records = 1..Len(records) /\ DOMAIN records' = 1..Len(records')
  BY <1>3, <1>6, AppendProperties, LenProperties
<1>9. AuditTypeOK'
  BY <1>3, <1>5, <1>7, <1>8 DEF AuditInv, AuditTypeOK, ChainRecords
<1>10. \A v \in Writers : ~AtCommit(v)'
  <2>1. \A v \in Writers : v # w => ~AtCommit(v)
    BY <1>1 DEF AuditInv, LockInv
  <2> QED BY <1>4, <1>5, <2>1 DEF AtCommit
<1>11. LockInv'
  BY <1>3, <1>10 DEF LockInv
<1>12. \A i \in 1..Len(chain) : Linked(chain', i) <=> Linked(chain, i)
  <2> SUFFICES ASSUME NEW i \in 1..Len(chain) PROVE Linked(chain', i) <=> Linked(chain, i)
    OBVIOUS
  <2>1. chain'[i] = chain[i]
    BY <1>7
  <2>2. i # 1 => i - 1 \in 1..Len(chain)
    BY <1>7
  <2>3. i # 1 => chain'[i - 1] = chain[i - 1]
    BY <1>7, <2>2
  <2> QED BY <2>1, <2>3 DEF Linked
<1>13. Linked(chain', Len(chain) + 1)
  <2>1. CASE chain = <<>>
    <3>1. prev = Genesis /\ Len(chain) = 0
      BY <1>1, <2>1 DEF LastHash
    <3> QED BY <1>2, <1>7, <3>1 DEF Linked
  <2>2. CASE chain # <<>>
    <3>1. prev = chain[Len(chain)].hash /\ Len(chain) \in 1..Len(chain)
      BY <1>1, <1>6, <2>2, EmptySeq DEF LastHash
    <3>2. chain'[Len(chain)] = chain[Len(chain)] /\ Len(chain) + 1 # 1
      BY <1>7, <3>1
    <3>3. (Len(chain) + 1) - 1 = Len(chain)
      BY <1>7
    <3> QED BY <1>2, <1>7, <3>1, <3>2, <3>3 DEF Linked
  <2> QED BY <2>1, <2>2
<1>14. ~altered' => Untouched'
  <2> SUFFICES ASSUME ~altered PROVE Untouched'
    BY <1>3
  <2>1. Untouched
    BY DEF AuditInv
  <2>2. Len(chain) = Len(records)
    BY <2>1 DEF Untouched
  <2>3. ASSUME NEW i \in 1..Len(chain')
        PROVE  Linked(chain', i) /\ chain'[i].what = records'[i]
    <3>1. CASE i \in 1..Len(chain)
      <4>1. Linked(chain, i) /\ chain[i].what = records[i]
        BY <1>7, <2>1, <3>1 DEF Untouched
      <4>2. chain'[i] = chain[i] /\ records'[i] = records[i]
        BY <1>7, <1>8, <2>2, <3>1
      <4> QED BY <1>12, <3>1, <4>1, <4>2
    <3>2. CASE i = Len(chain) + 1
      BY <1>2, <1>7, <1>8, <1>13, <2>2, <3>2
    <3> QED BY <1>7, <3>1, <3>2
  <2> QED BY <1>7, <1>8, <2>2, <2>3 DEF Untouched
<1>15. altered' => Broken'
  <2> SUFFICES ASSUME altered PROVE Broken'
    BY <1>3
  <2>1. PICK i \in 1..Len(chain) : ~Linked(chain, i)
    BY <1>7 DEF AuditInv, Broken
  <2>2. i \in 1..Len(chain')
    BY <1>7
  <2> QED BY <1>7, <1>12, <2>1, <2>2 DEF Broken
<1>16. Range(records) \subseteq Range(records') /\ c \in Range(records')
  <2>1. Len(records) + 1 \in DOMAIN records'
    BY <1>8
  <2>2. \A i \in DOMAIN records : i \in DOMAIN records' /\ records'[i] = records[i]
    BY <1>8
  <2> QED BY <1>8, <2>1, <2>2 DEF Range
<1>17. StatusExplained'
  <2>1. \A v \in Writers :
          writer[v].step \in {"record", "commit"}
            => \/ writer'[v] = writer[v]
               \/ writer[v].what \in Range(records')
    BY <1>0, <1>5, <1>16
  <2> QED BY <1>3, <1>16, <2>1, ExplainedKept DEF AuditInv
<1> QED BY <1>9, <1>11, <1>14, <1>15, <1>17 DEF AuditInv

(* The process stops: what a writer still owed is lost. *)
LEMMA StopStep ==
    ASSUME AuditInv, Stop
    PROVE  AuditInv'
<1>1. /\ serving' = FALSE /\ stops \in Nat /\ stops' = stops + 1 /\ holder' = {}
      /\ lost' = lost \cup {s \in Statuses : \E w \in Writers : Owes(w, s)}
      /\ writer' = [w \in Writers |-> IdleWriter]
      /\ UNCHANGED <<records, chain, order, altered>>
  BY DEF Stop, dbVars, AuditInv, AuditTypeOK
<1>2. IdleWriter \in WriterStates /\ IdleWriter.step = "idle"
  BY DEF WriterStates, IdleWriter
<1>3. AuditTypeOK'
  <2>1. writer' \in [Writers -> WriterStates]
    BY <1>1, <1>2
  <2>2. lost' \in SUBSET Statuses
    BY <1>1 DEF AuditInv, AuditTypeOK
  <2>3. stops' \in Nat /\ holder' \in SUBSET Writers
    BY <1>1
  <2>4. serving' \in BOOLEAN
    BY <1>1, Zenon
  <2> QED BY <1>1, <2>1, <2>2, <2>3, <2>4 DEF AuditInv, AuditTypeOK
<1>4. LockInv'
  BY <1>1, <1>2 DEF LockInv, AtCommit
<1>5. StatusExplained'
  <2>1. ASSUME NEW w \in Writers, Owes(w, order) PROVE order' \in lost'
    BY <1>1, <2>1 DEF AuditInv, AuditTypeOK
  <2>2. CASE \E w \in Writers : Owes(w, order)
    BY <2>1, <2>2 DEF StatusExplained
  <2>3. CASE \/ order = NewOrder \/ order \in lost
             \/ \E from \in Statuses : Transition(from, order) \in Range(records)
    BY <1>1, <2>3 DEF StatusExplained, Transition
  <2> QED BY <2>2, <2>3 DEF AuditInv, StatusExplained
<1> QED BY <1>1, <1>3, <1>4, <1>5 DEF AuditInv, Untouched, Broken, Linked

(* The process starts again, or nothing happens. *)
LEMMA RestStep ==
    ASSUME AuditInv, Serve \/ UNCHANGED auditVars
    PROVE  AuditInv'
<1>1. /\ serving' \in BOOLEAN
      /\ UNCHANGED <<stops, holder, writer, records, chain, order, altered, lost>>
  BY DEF Serve, dbVars, auditVars, AuditInv, AuditTypeOK
<1>2. AuditTypeOK'
  BY <1>1 DEF AuditInv, AuditTypeOK
<1>3. LockInv'
  BY <1>1 DEF AuditInv, LockInv, AtCommit, LastHash
<1>4. StatusExplained'
  BY <1>1, ExplainedKept DEF AuditInv
<1> QED BY <1>1, <1>2, <1>3, <1>4 DEF AuditInv, Untouched, Broken, Linked

(* What an alteration leaves alone: it needs an idle database and an unaltered chain. *)
LEMMA AlteredChain ==
    ASSUME AuditInv, ~altered, altered' = TRUE, holder = {}, chain' \in Seq(ChainRecords), Broken',
           UNCHANGED <<serving, stops, holder, writer, records, order, lost>>
    PROVE  AuditInv'
<1>1. AuditTypeOK'
  BY DEF AuditInv, AuditTypeOK, ChainRecords
<1>2. LockInv'
  BY DEF AuditInv, LockInv, AtCommit
<1>3. StatusExplained'
  BY ExplainedKept DEF AuditInv
<1> QED BY <1>1, <1>2, <1>3 DEF AuditInv

(* A record edited with its hash left as it was does not match its hash; one
   whose hash is computed anew does not match its successor. *)
LEMMA EditStep ==
    ASSUME AuditInv, NEW i \in DOMAIN chain, NEW what \in Messages, NEW rehash \in BOOLEAN,
           EditRecord(i, what, rehash)
    PROVE  AuditInv'
<1>1. chain \in Seq(ChainRecords)
  BY DEF AuditInv, AuditTypeOK, ChainRecords
<1>2. i \in 1..Len(chain) /\ DOMAIN chain = 1..Len(chain) /\ Len(chain) \in Nat
  BY <1>1, LenProperties
<1>3. PICK old \in ChainRecords : old = chain[i]
  BY <1>1, <1>2, ElementOfSeq
<1>4. PICK new \in Contents : new = what
  BY DEF Contents
<1>5. PICK digest \in Seq(Contents) :
        digest = IF rehash THEN Hash(old.previous, new) ELSE old.hash
  BY HashTellsApart DEF ChainRecords
<1> DEFINE rec == [old EXCEPT !.what = new, !.hash = digest]
<1>6. rec \in ChainRecords /\ rec.what = new /\ rec.hash = digest /\ rec.previous = old.previous
  BY DEF ChainRecords
<1>7. chain' = [chain EXCEPT ![i] = rec]
  BY <1>1, <1>2, <1>3, <1>4, <1>5, LenProperties DEF EditRecord
<1> HIDE DEF rec
<1>8. /\ chain' \in Seq(ChainRecords) /\ Len(chain') = Len(chain)
      /\ \A j \in 1..Len(chain) : chain'[j] = IF j = i THEN rec ELSE chain[j]
      /\ DOMAIN chain' = 1..Len(chain')
  BY <1>1, <1>2, <1>6, <1>7, ExceptSeq, LenProperties
<1>9. Linked(chain, i) /\ ~altered /\ new # old.what /\ (rehash => i < Len(chain))
  BY <1>3, <1>4 DEF AuditInv, Untouched, EditRecord
<1>10. old.hash = Hash(old.previous, old.what) /\ old.previous \in Seq(Contents)
       /\ old.what \in Contents
  BY <1>3, <1>9 DEF Linked, ChainRecords
<1>11. Hash(old.previous, new) # old.hash
  BY <1>9, <1>10, HashTellsApart
<1>12. CASE ~rehash
  <2>1. rec.hash # Hash(rec.previous, rec.what)
    BY <1>5, <1>6, <1>11, <1>12
  <2>2. chain'[i] = rec
    BY <1>2, <1>8
  <2>3. ~Linked(chain', i) /\ i \in DOMAIN chain'
    BY <1>2, <1>8, <2>1, <2>2 DEF Linked
  <2>4. Broken'
    BY <2>3 DEF Broken
  <2> QED BY <1>8, <1>9, <2>4, AlteredChain DEF EditRecord
<1>13. CASE rehash
  <2>1. i + 1 \in 1..Len(chain) /\ i + 1 # 1 /\ (i + 1) - 1 = i
    BY <1>2, <1>9, <1>13
  <2>2. Linked(chain, i + 1)
    BY <1>2, <1>9, <2>1 DEF AuditInv, Untouched
  <2>3. chain[i + 1].previous = old.hash
    BY <1>3, <2>1, <2>2 DEF Linked
  <2>4. chain'[i] = rec /\ chain'[i + 1] = chain[i + 1]
    BY <1>2, <1>8, <2>1
  <2>5. rec.hash # old.hash
    BY <1>5, <1>6, <1>11, <1>13
  <2>6. ~Linked(chain', i + 1) /\ i + 1 \in DOMAIN chain'
    BY <1>8, <2>1, <2>3, <2>4, <2>5 DEF Linked
  <2>7. Broken'
    BY <2>6 DEF Broken
  <2> QED BY <1>8, <1>9, <2>7, AlteredChain DEF EditRecord
<1> QED BY <1>12, <1>13

(* The successor of a deleted record does not match the predecessor. *)
LEMMA DeleteStep ==
    ASSUME AuditInv, NEW i \in DOMAIN chain, DeleteRecord(i)
    PROVE  AuditInv'
<1>1. chain \in Seq(ChainRecords)
  BY DEF AuditInv, AuditTypeOK, ChainRecords
<1>2. i \in 1..Len(chain) /\ DOMAIN chain = 1..Len(chain) /\ Len(chain) \in Nat
  BY <1>1, LenProperties
<1>3. i < Len(chain) /\ ~altered
  BY DEF DeleteRecord
<1>4. \A j \in 1..Len(chain) : chain[j] \in ChainRecords
  BY <1>1, ElementOfSeq
<1> DEFINE head == SubSeq(chain, 1, i - 1)
           tail == SubSeq(chain, i + 1, Len(chain))
<1>5. /\ head \in Seq(ChainRecords) /\ Len(head) = i - 1
      /\ \A j \in 1..i - 1 : head[j] = chain[j]
  <2>1. \A j \in 1..i - 1 : chain[j] \in ChainRecords
    BY <1>2, <1>4
  <2>2. /\ head \in Seq(ChainRecords)
        /\ Len(head) = IF 1 <= i - 1 THEN (i - 1) - 1 + 1 ELSE 0
        /\ \A j \in 1..(i - 1) - 1 + 1 : head[j] = chain[1 + j - 1]
    BY <1>2, <2>1, SubSeqProperties
  <2> QED BY <1>2, <2>2
<1>6. /\ tail \in Seq(ChainRecords) /\ Len(tail) = Len(chain) - i
      /\ tail[1] = chain[i + 1]
  <2>1. \A j \in i + 1..Len(chain) : chain[j] \in ChainRecords
    BY <1>2, <1>4
  <2>2. /\ tail \in Seq(ChainRecords)
        /\ Len(tail) = IF i + 1 <= Len(chain) THEN Len(chain) - (i + 1) + 1 ELSE 0
        /\ \A j \in 1..Len(chain) - (i + 1) + 1 : tail[j] = chain[(i + 1) + j - 1]
    BY <1>2, <2>1, SubSeqProperties
  <2> QED BY <1>2, <1>3, <2>2
<1>7. chain' = head \o tail
  BY DEF DeleteRecord, RemoveAt
<1> HIDE DEF head, tail
<1>8. /\ chain' \in Seq(ChainRecords) /\ Len(chain') = Len(chain) - 1
      /\ \A j \in 1..i - 1 : chain'[j] = chain[j]
      /\ chain'[i] = chain[i + 1]
      /\ DOMAIN chain' = 1..Len(chain')
  <2>1. /\ head \o tail \in Seq(ChainRecords)
        /\ Len(head \o tail) = Len(head) + Len(tail)
        /\ \A j \in 1..Len(head) + Len(tail) :
              (head \o tail)[j] = IF j <= Len(head) THEN head[j] ELSE tail[j - Len(head)]
    BY <1>5, <1>6, ConcatProperties
  <2>2. DOMAIN chain' = 1..Len(chain')
    BY <1>7, <2>1, LenProperties
  <2>3. \A j \in 1..i - 1 : chain'[j] = chain[j]
    BY <1>2, <1>3, <1>5, <1>6, <1>7, <2>1
  <2>4. i \in 1..Len(head) + Len(tail) /\ ~(i <= Len(head)) /\ i - Len(head) = 1
    BY <1>2, <1>3, <1>5, <1>6
  <2>5. chain'[i] = chain[i + 1]
    BY <1>6, <1>7, <2>1, <2>4
  <2>6. Len(chain') = Len(chain) - 1
    BY <1>2, <1>5, <1>6, <1>7, <2>1
  <2> QED BY <1>7, <2>1, <2>2, <2>3, <2>5, <2>6
<1>9. \A j \in 1..Len(chain) : Linked(chain, j)
  BY <1>2, <1>3 DEF AuditInv, Untouched
<1>10. PICK old \in ChainRecords : old = chain[i]
  BY <1>2, <1>4
<1>11. chain[i + 1].previous = Hash(old.previous, old.what)
  <2>1. i + 1 \in 1..Len(chain) /\ i + 1 # 1 /\ (i + 1) - 1 = i
    BY <1>2, <1>3
  <2>2. Linked(chain, i) /\ Linked(chain, i + 1)
    BY <1>2, <1>9, <2>1
  <2> QED BY <1>10, <2>1, <2>2 DEF Linked
<1>12. ~Linked(chain', i)
  <2>1. old.previous \in Seq(Contents) /\ old.what \in Contents
    BY DEF ChainRecords
  <2>2. chain'[i].previous # old.previous /\ chain'[i].previous # Genesis
    BY <1>8, <1>11, <2>1, HashTellsApart
  <2>3. CASE i = 1
    BY <2>2, <2>3 DEF Linked
  <2>4. CASE i # 1
    <3>1. i - 1 \in 1..i - 1
      BY <1>2, <2>4
    <3>2. chain'[i - 1] = chain[i - 1]
      BY <1>8, <3>1
    <3>3. old.previous = chain[i - 1].hash
      BY <1>2, <1>9, <1>10, <2>4 DEF Linked
    <3> QED BY <2>2, <2>4, <3>2, <3>3 DEF Linked
  <2> QED BY <2>3, <2>4
<1>13. Broken'
  <2>1. i \in DOMAIN chain'
    BY <1>2, <1>3, <1>8
  <2> QED BY <1>12, <2>1 DEF Broken
<1> QED BY <1>3, <1>8, <1>13, AlteredChain DEF DeleteRecord

(* Every step of a writer, of the process and of an intruder keeps it. *)
LEMMA AuditInvStep == AuditInv /\ [AuditNext]_auditVars => AuditInv'
<1> SUFFICES ASSUME AuditInv, [AuditNext]_auditVars PROVE AuditInv'
  OBVIOUS
<1>1. ASSUME NEW w \in Writers, Record(w) PROVE AuditInv'
  BY <1>1, HasMessageStep, BeginStep, CommitStep, ReadOrderStep, WriteOrderStep DEF Record
<1>2. CASE Alter
  BY <1>2, EditStep, DeleteStep DEF Alter
<1>3. CASE Stop
  BY <1>3, StopStep
<1>4. CASE Serve \/ UNCHANGED auditVars
  BY <1>4, RestStep
<1> QED BY <1>1, <1>2, <1>3, <1>4 DEF AuditNext

(* However many threads write and wherever the process is killed: a chain nobody
   has altered is exactly what was committed and passes audit_chain_status, one
   that was altered never passes it again, and an order's status is explained. *)
THEOREM AuditTheorem == AuditSpec => []AuditSound
<1>1. AuditInv => AuditSound
  <2> SUFFICES ASSUME AuditInv PROVE AuditSound
    OBVIOUS
  <2>1. ChainIsTheRecord
    <3> SUFFICES ASSUME ~altered
                 PROVE  /\ [i \in DOMAIN chain |-> chain[i].what] = records
                        /\ AuditStatus(chain) = "pass"
      BY DEF ChainIsTheRecord
    <3>1. Untouched /\ chain \in Seq(ChainRecords) /\ records \in Seq(Contents)
      BY DEF AuditInv, AuditTypeOK, ChainRecords
    <3>2. /\ DOMAIN chain = 1..Len(chain)
          /\ records \in [1..Len(records) -> Contents]
      BY <3>1, LenProperties
    <3>3. records = [i \in 1..Len(records) |-> records[i]]
      BY <3>2
    <3>4. [i \in DOMAIN chain |-> chain[i].what] = records
      BY <3>1, <3>2, <3>3 DEF Untouched
    <3> QED BY <3>1, <3>4 DEF Untouched, AuditStatus
  <2>2. AlterationShows
    BY DEF AuditInv, Broken, AlterationShows, AuditStatus
  <2> QED BY <2>1, <2>2 DEF AuditInv, AuditSound
<1> QED BY <1>1, AuditInvInit, AuditInvStep, PTL DEF AuditSpec

-----------------------------------------------------------------------------
(***************************************************************************)
(* Backtest: any prices, thresholds, stops, takes and bounds on the age of *)
(* a position, any number of candles.                                      *)
(***************************************************************************)

\* A price, in hundredths, is not worse than the stop and not better than the take.
Inside(side, entry, price) ==
    IF side = "BUY"
    THEN entry * (100 - StopPct) <= price /\ price <= entry * (100 + TakePct)
    ELSE entry * (100 - TakePct) <= price /\ price <= entry * (100 + StopPct)

HeldRows == [side : {"BUY", "SELL"}, entry : CandlePrices, age : Nat]

(* The open position has survived the last candle or was opened on it: its close
   lies between its stop and its take. *)
BacktestInv ==
    /\ BacktestTypeOK
    /\ Len(window) <= Warmup
    /\ Held => /\ Len(window) = Warmup /\ position \in HeldRows /\ position.age < MaxHold
               /\ Inside(position.side, position.entry, 100 * window[Len(window)].close)
    /\ trade # NoTrade => /\ trade \in [side : {"BUY", "SELL"}, entry : CandlePrices, exit : Int]
                          /\ Inside(trade.side, trade.entry, trade.exit)
    /\ BreakoutIsSilent
    /\ CompletedHasTrades
    /\ test.step = "update" => test.stored

(* The entry price, the stop and the take lie between stop and take. *)
LEMMA InsideAtStops ==
    ASSUME NEW side \in {"BUY", "SELL"}, NEW entry \in CandlePrices
    PROVE  /\ Inside(side, entry, 100 * entry)
           /\ side = "BUY" => /\ Inside(side, entry, entry * (100 - StopPct))
                              /\ Inside(side, entry, entry * (100 + TakePct))
           /\ side = "SELL" => /\ Inside(side, entry, entry * (100 + StopPct))
                               /\ Inside(side, entry, entry * (100 - TakePct))
<1>1. entry \in Nat /\ StopPct \in Nat /\ TakePct \in Nat
  BY BacktestAssumption
<1>2. entry * StopPct \in Nat /\ entry * TakePct \in Nat
  BY <1>1
<1>3. /\ entry * (100 - StopPct) = 100 * entry - entry * StopPct
      /\ entry * (100 + StopPct) = 100 * entry + entry * StopPct
      /\ entry * (100 - TakePct) = 100 * entry - entry * TakePct
      /\ entry * (100 + TakePct) = 100 * entry + entry * TakePct
  BY <1>1
<1> QED BY <1>1, <1>2, <1>3 DEF Inside

(* The window after candle c. *)
LEMMA SlideKeeps ==
    ASSUME BacktestInv, NEW c \in Candles, Slide(c)
    PROVE  /\ window' \in Seq(Candles)
           /\ Len(window') <= Warmup
           /\ Len(window) = Warmup => Len(window') = Warmup
           /\ window'[Len(window')] = c
<1>1. window \in Seq(Candles) /\ Len(window) \in Nat /\ Warmup \in Nat \ {0}
  BY BacktestAssumption, LenProperties DEF BacktestInv, BacktestTypeOK, Warmup
<1>2. CASE Len(window) < Warmup
  <2>1. window' = Append(window, c)
    BY <1>2 DEF Slide
  <2>2. /\ window' \in Seq(Candles) /\ Len(window') = Len(window) + 1
        /\ window'[Len(window) + 1] = c
    BY <1>1, <2>1, AppendProperties
  <2> QED BY <1>1, <1>2, <2>2
<1>3. CASE Len(window) = Warmup
  <2>1. window' = Append(Tail(window), c)
    BY <1>1, <1>3 DEF Slide
  <2>2. window # <<>>
    BY <1>1, <1>3, EmptySeq
  <2>3. Tail(window) \in Seq(Candles) /\ Len(Tail(window)) = Len(window) - 1
    BY <1>1, <2>2, HeadTailProperties
  <2>4. /\ window' \in Seq(Candles) /\ Len(window') = Len(Tail(window)) + 1
        /\ window'[Len(Tail(window)) + 1] = c
    BY <2>1, <2>3, AppendProperties
  <2> QED BY <1>1, <1>3, <2>3, <2>4
<1> QED BY <1>1, <1>2, <1>3 DEF BacktestInv

(* The signal is one of three, and the breakout signals, whose bars include the
   bar of the close, give none. *)
LEMMA SignalIs ==
    /\ Signal \in {"BUY", "SELL", "HOLD"}
    /\ BacktestInv /\ Len(window) = Warmup
         /\ signalType \in {"breakout", "breakout_reversion"} => Signal = "HOLD"
<1>1. Signal \in {"BUY", "SELL", "HOLD"}
  BY Zenon DEF Signal
<1>2. ASSUME BacktestInv, Len(window) = Warmup, signalType \in {"breakout", "breakout_reversion"}
      PROVE  Signal = "HOLD"
  <2>1. window \in Seq(Candles) /\ Lookback \in Nat \ {0} /\ Len(window) \in Nat /\ Len(window) >= Lookback
    BY <1>2, BacktestAssumption, LenProperties DEF BacktestInv, BacktestTypeOK, Warmup
  <2>2. \A i \in 1..Len(window) : window[i] \in Candles
    BY <2>1, ElementOfSeq
  <2>3. Len(window) \in 1..Len(window) /\ Lookback \in 1..Lookback
    BY <2>1
  <2>4. LastBars(Lookback)[Lookback] = window[Len(window)]
    <3>0. \A n \in Nat, k \in Nat : n - k + 1 \in Int
      OBVIOUS
    <3>1. PICK first \in Int : first = Len(window) - Lookback + 1
      BY <2>1, <3>0
    <3>2. \A i \in first..Len(window) : window[i] \in Candles
      BY <2>1, <2>2, <3>1
    <3>3. \A i \in 1..Len(window) - first + 1 :
             SubSeq(window, first, Len(window))[i] = window[first + i - 1]
      BY <2>1, <3>2, SubSeqProperties
    <3>4. Lookback \in 1..Len(window) - first + 1 /\ first + Lookback - 1 = Len(window)
      BY <2>1, <3>1
    <3>5. LastBars(Lookback) = SubSeq(window, first, Len(window))
      BY <3>1 DEF LastBars
    <3> QED BY <3>3, <3>4, <3>5
  <2>5. PICK bar \in Candles : bar = window[Len(window)]
    BY <2>2, <2>3
  <2>6. /\ bar.low \in Nat /\ bar.close \in Nat /\ bar.high \in Nat
        /\ bar.low <= bar.close /\ bar.close <= bar.high
        /\ ThresholdPct \in Nat
    <3>1. bar.low \in CandlePrices /\ bar.close \in CandlePrices /\ bar.high \in CandlePrices
      BY DEF Candles
    <3>2. bar.low <= bar.close /\ bar.close <= bar.high
      BY DEF Candles
    <3> QED BY <3>1, <3>2, BacktestAssumption
  <2>7. ~Above(bar.close, bar.high)
    <3>1. 100 * (bar.close - bar.high) <= 0 /\ ThresholdPct * bar.high >= 0
      BY <2>6
    <3> QED BY <2>6, <3>1 DEF Above
  <2>8. ~Below(bar.close, bar.low)
    <3>1. 100 * (bar.low - bar.close) <= 0 /\ ThresholdPct * bar.low >= 0
      BY <2>6
    <3> QED BY <2>6, <3>1 DEF Below
  <2>9. ~BreakoutUp /\ ~BreakoutDown
    BY <2>3, <2>4, <2>5, <2>7, <2>8 DEF BreakoutUp, BreakoutDown
  <2>10. ~Up /\ ~Down
    BY <1>2, <2>9 DEF Up, Down
  <2> QED BY <2>10, Zenon DEF Signal
<1> QED BY <1>1, <1>2

(* What a candle does to an open position. *)
LEMMA ExitIs ==
    ASSUME BacktestInv, Held, NEW c \in Candles
    PROVE  /\ \A exit \in Exit(c) : exit \in Int /\ Inside(position.side, position.entry, exit)
           /\ Exit(c) = {} => /\ Inside(position.side, position.entry, 100 * c.close)
                              /\ position.age + 1 < MaxHold
<1>1. PICK side \in {"BUY", "SELL"}, entry \in CandlePrices, age \in Nat :
        side = position.side /\ entry = position.entry /\ age = position.age
  BY DEF BacktestInv, HeldRows
<1>2. entry \in Nat /\ StopPct \in Nat /\ TakePct \in Nat /\ StopPct <= 99 /\ TakePct <= 99
      /\ MaxHold \in Nat
  BY BacktestAssumption
<1>3. PICK low \in Nat, close \in Nat, high \in Nat :
        /\ low = c.low /\ close = c.close /\ high = c.high /\ low <= close /\ close <= high
  <2>1. c.low \in CandlePrices /\ c.close \in CandlePrices /\ c.high \in CandlePrices
        /\ c.low <= c.close /\ c.close <= c.high
    BY DEF Candles
  <2> QED BY <2>1, BacktestAssumption
<1>4. /\ StopPrice = IF side = "BUY" THEN entry * (100 - StopPct) ELSE entry * (100 + StopPct)
      /\ TakePrice = IF side = "BUY" THEN entry * (100 + TakePct) ELSE entry * (100 - TakePct)
  BY <1>1 DEF StopPrice, TakePrice
<1>5. PICK stop \in Int, take \in Int : stop = StopPrice /\ take = TakePrice
  BY <1>2, <1>4
<1>6. /\ Inside(side, entry, stop) /\ Inside(side, entry, take)
      /\ \A price \in Int : Inside(side, entry, price)
           <=> IF side = "BUY" THEN stop <= price /\ price <= take
                               ELSE take <= price /\ price <= stop
  BY <1>4, <1>5, InsideAtStops DEF Inside
<1>7. ASSUME ~StopHit(c), ~TakeHit(c) PROVE Inside(side, entry, 100 * close)
  <2>1. CASE side = "BUY"
    <3>1. ~(100 * low <= stop) /\ ~(100 * high >= take)
      BY <1>1, <1>3, <1>5, <1>7, <2>1 DEF StopHit, TakeHit
    <3>2. stop <= 100 * close /\ 100 * close <= take
      BY <1>3, <1>5, <3>1
    <3> QED BY <1>3, <1>6, <2>1, <3>2
  <2>2. CASE side = "SELL"
    <3>1. ~(100 * high >= stop) /\ ~(100 * low <= take)
      BY <1>1, <1>3, <1>5, <1>7, <2>2 DEF StopHit, TakeHit
    <3>2. take <= 100 * close /\ 100 * close <= stop
      BY <1>3, <1>5, <3>1
    <3> QED BY <1>3, <1>6, <2>2, <3>2
  <2> QED BY <2>1, <2>2
<1>8. CASE StopHit(c)
  <2>1. Exit(c) = {stop}
    BY <1>5, <1>8 DEF Exit
  <2> QED BY <1>1, <1>6, <2>1
<1>9. CASE ~StopHit(c) /\ TakeHit(c)
  <2>1. Exit(c) = {take}
    BY <1>5, <1>9 DEF Exit
  <2> QED BY <1>1, <1>6, <2>1
<1>10. CASE ~StopHit(c) /\ ~TakeHit(c)
  <2>1. Exit(c) = IF age + 1 >= MaxHold \/ Opposite THEN {100 * close} ELSE {}
    BY <1>1, <1>3, <1>10 DEF Exit
  <2>2. 100 * close \in Int /\ Inside(side, entry, 100 * close)
    BY <1>3, <1>7, <1>10
  <2>3. CASE age + 1 >= MaxHold \/ Opposite
    <3>1. Exit(c) = {100 * close} /\ Exit(c) # {}
      BY <2>1, <2>3
    <3> QED BY <1>1, <2>2, <3>1
  <2>4. CASE ~(age + 1 >= MaxHold \/ Opposite)
    <3>1. Exit(c) = {} /\ age + 1 < MaxHold
      BY <1>2, <2>1, <2>4
    <3> QED BY <1>1, <1>3, <2>2, <3>1
  <2> QED BY <2>3, <2>4
<1> QED BY <1>8, <1>9, <1>10

(* A backtest that has seen no candle. *)
LEMMA BacktestInvInit == BacktestInit => BacktestInv
<1> SUFFICES ASSUME BacktestInit PROVE BacktestInv
  OBVIOUS
<1>1. window = <<>> /\ Len(window) = 0 /\ window \in Seq(Candles) /\ Warmup \in Nat
  BY EmptySeq, BacktestAssumption DEF BacktestInit, Warmup
<1>2. BacktestTypeOK
  BY <1>1 DEF BacktestInit, BacktestTypeOK
<1> QED BY <1>1, <1>2 DEF BacktestInit, BacktestInv, Held, BreakoutIsSilent, CompletedHasTrades

(* What a bar leaves alone: the row is kept. *)
LEMMA BarKeeps ==
    ASSUME BacktestInv, NEW c \in Candles, Slide(c), UNCHANGED <<signalType, test>>,
           (position' # NoPosition) => /\ position' \in HeldRows /\ position'.age < MaxHold
                                       /\ Inside(position'.side, position'.entry, 100 * c.close)
                                       /\ Len(window) = Warmup,
           trade' # NoTrade => /\ trade' \in [side : {"BUY", "SELL"}, entry : CandlePrices, exit : Int]
                               /\ Inside(trade'.side, trade'.entry, trade'.exit),
           signalType \in {"breakout", "breakout_reversion"}
             => position' = NoPosition /\ trade' = NoTrade
    PROVE  BacktestInv'
<1>1. /\ window' \in Seq(Candles) /\ Len(window') <= Warmup
      /\ Len(window) = Warmup => Len(window') = Warmup
      /\ window'[Len(window')] = c
  BY SlideKeeps
<1>2. BacktestTypeOK'
  BY <1>1 DEF BacktestInv, BacktestTypeOK, HeldRows
<1>3. BreakoutIsSilent' /\ CompletedHasTrades' /\ (test'.step = "update" => test'.stored)
  BY DEF BacktestInv, BreakoutIsSilent, CompletedHasTrades, Held
<1> QED BY <1>1, <1>2, <1>3 DEF BacktestInv, Held, Warmup, Inside

(* A closed position leaves a trade at the price it was closed at. *)
LEMMA BookKeeps ==
    ASSUME BacktestInv, Held, NEW exit \in Int, Inside(position.side, position.entry, exit),
           Book(exit)
    PROVE  /\ position' = NoPosition
           /\ trade' \in [side : {"BUY", "SELL"}, entry : CandlePrices, exit : Int]
           /\ Inside(trade'.side, trade'.entry, trade'.exit)
<1>1. position.side \in {"BUY", "SELL"} /\ position.entry \in CandlePrices
  BY DEF BacktestInv, HeldRows
<1> QED BY <1>1 DEF Book

(* Every bar, the end of the sample and the writing of the row keep it. *)
LEMMA BacktestInvStep == BacktestInv /\ [BacktestNext]_backtestVars => BacktestInv'
<1> SUFFICES ASSUME BacktestInv, [BacktestNext]_backtestVars PROVE BacktestInv'
  OBVIOUS
<1>0. signalType \in {"breakout", "breakout_reversion"} => position = NoPosition /\ trade = NoTrade
  BY DEF BacktestInv, BreakoutIsSilent, Held
<1>1. ASSUME NEW c \in Candles, WarmUpBar(c) PROVE BacktestInv'
  <2>1. /\ Slide(c) /\ UNCHANGED <<signalType, test, position, trade>>
        /\ position = NoPosition
    BY <1>1, BacktestAssumption DEF WarmUpBar, Walking, BacktestInv, Held, Warmup
  <2>2. trade' # NoTrade => /\ trade' \in [side : {"BUY", "SELL"}, entry : CandlePrices, exit : Int]
                            /\ Inside(trade'.side, trade'.entry, trade'.exit)
    BY <2>1 DEF BacktestInv
  <2> QED BY <1>0, <2>1, <2>2, BarKeeps
<1>2. ASSUME NEW c \in Candles, CloseBar(c) PROVE BacktestInv'
  <2>1. PICK exit \in Exit(c) : Book(exit)
    BY <1>2 DEF CloseBar
  <2>2. Slide(c) /\ UNCHANGED <<signalType, test>> /\ Held
    BY <1>2 DEF CloseBar, Walking
  <2>3. exit \in Int /\ Inside(position.side, position.entry, exit)
    BY <2>2, ExitIs
  <2>4. /\ position' = NoPosition
        /\ trade' \in [side : {"BUY", "SELL"}, entry : CandlePrices, exit : Int]
        /\ Inside(trade'.side, trade'.entry, trade'.exit)
    BY <2>1, <2>2, <2>3, BookKeeps
  <2>5. signalType \notin {"breakout", "breakout_reversion"}
    BY <1>0, <2>2 DEF Held
  <2> QED BY <2>2, <2>4, <2>5, BarKeeps
<1>3. ASSUME NEW c \in Candles, HoldBar(c) PROVE BacktestInv'
  <2>1. /\ Slide(c) /\ UNCHANGED <<signalType, test>> /\ Held /\ Exit(c) = {}
        /\ position' = [position EXCEPT !.age = @ + 1] /\ trade' = NoTrade
        /\ Len(window) = Warmup
    BY <1>3 DEF HoldBar, Walking
  <2>2. Inside(position.side, position.entry, 100 * c.close) /\ position.age + 1 < MaxHold
    BY <2>1, ExitIs
  <2>3. /\ position' \in HeldRows /\ position'.age = position.age + 1
        /\ position'.side = position.side /\ position'.entry = position.entry
    BY <2>1 DEF BacktestInv, HeldRows
  <2>4. signalType \notin {"breakout", "breakout_reversion"}
    BY <1>0, <2>1 DEF Held
  <2> QED BY <2>1, <2>2, <2>3, <2>4, BarKeeps
<1>4. ASSUME NEW c \in Candles, OpenBar(c) PROVE BacktestInv'
  <2>1. /\ Slide(c) /\ UNCHANGED <<signalType, test>> /\ trade' = NoTrade
        /\ Len(window) = Warmup
        /\ position' = IF Signal = "HOLD" THEN NoPosition
                       ELSE [side |-> Signal, entry |-> c.close, age |-> 0]
    BY <1>4 DEF OpenBar, Walking
  <2>2. CASE Signal = "HOLD"
    BY <2>1, <2>2, BarKeeps
  <2>3. CASE Signal # "HOLD"
    <3>1. PICK side \in {"BUY", "SELL"} : side = Signal
      BY <2>3, SignalIs
    <3>2. c.close \in CandlePrices
      BY DEF Candles
    <3>3. position' = [side |-> side, entry |-> c.close, age |-> 0]
      BY <2>1, <2>3, <3>1
    <3>4. Inside(side, c.close, 100 * c.close)
      BY <3>2, InsideAtStops
    <3>5. position' \in HeldRows /\ position'.age < MaxHold
          /\ Inside(position'.side, position'.entry, 100 * c.close)
      BY <3>2, <3>3, <3>4, BacktestAssumption DEF HeldRows
    <3>6. signalType \notin {"breakout", "breakout_reversion"}
      BY <2>1, <2>3, SignalIs
    <3> QED BY <2>1, <3>5, <3>6, BarKeeps
  <2> QED BY <2>2, <2>3
<1>5. CASE EndOfSample
  <2>1. /\ Len(window) = Warmup /\ UNCHANGED <<signalType, window>>
        /\ test' = [test EXCEPT !.step = "insert"]
    BY <1>5 DEF EndOfSample
  <2>2. /\ test'.step \in {"walk", "insert", "update", "done", "dead"} /\ test'.step # "update"
        /\ test'.status \in {"running", "completed", "failed"} /\ test'.stored \in BOOLEAN
        /\ CompletedHasTrades'
    BY <2>1 DEF BacktestInv, BacktestTypeOK, CompletedHasTrades
  <2>3. CASE Held
    <3>1. Book(100 * window[Len(window)].close)
      BY <1>5, <2>3 DEF EndOfSample
    <3>2. PICK exit \in Int : exit = 100 * window[Len(window)].close
      <4>1. window \in Seq(Candles) /\ Len(window) \in 1..Len(window)
        BY <2>1, LenProperties, BacktestAssumption DEF BacktestInv, BacktestTypeOK, Warmup
      <4>2. window[Len(window)] \in Candles
        BY <4>1, ElementOfSeq
      <4>3. window[Len(window)].close \in CandlePrices
        BY <4>2 DEF Candles
      <4>4. window[Len(window)].close \in Nat
        BY <4>3, BacktestAssumption
      <4> QED BY <4>4
    <3>3. Inside(position.side, position.entry, exit)
      BY <2>3, <3>2 DEF BacktestInv
    <3>4. /\ position' = NoPosition
          /\ trade' \in [side : {"BUY", "SELL"}, entry : CandlePrices, exit : Int]
          /\ Inside(trade'.side, trade'.entry, trade'.exit)
      BY <2>3, <3>1, <3>2, <3>3, BookKeeps
    <3>5. signalType \notin {"breakout", "breakout_reversion"}
      BY <1>0, <2>3 DEF Held
    <3>6. BacktestTypeOK' /\ BreakoutIsSilent'
      BY <2>1, <2>2, <3>4, <3>5 DEF BacktestInv, BacktestTypeOK, BreakoutIsSilent
    <3> QED BY <2>1, <2>2, <3>4, <3>6 DEF BacktestInv, Held, Warmup, Inside
  <2>4. CASE ~Held
    <3>1. position' = NoPosition /\ trade' = NoTrade
      BY <1>5, <2>4 DEF EndOfSample, Held
    <3>2. BacktestTypeOK' /\ BreakoutIsSilent'
      BY <2>1, <2>2, <3>1 DEF BacktestInv, BacktestTypeOK, BreakoutIsSilent, Held
    <3> QED BY <2>1, <2>2, <3>1, <3>2 DEF BacktestInv, Held, Warmup
  <2> QED BY <2>3, <2>4
<1>6. CASE InsertTrades \/ CompleteRow \/ FailRow \/ KillTest \/ UNCHANGED backtestVars
  <2>1. /\ UNCHANGED <<signalType, window, position, trade>>
        /\ test'.step \in {"walk", "insert", "update", "done", "dead"}
        /\ test'.status \in {"running", "completed", "failed"} /\ test'.stored \in BOOLEAN
        /\ test'.status = "completed" => test'.stored
        /\ test'.step = "update" => test'.stored
    <3>1. PICK status \in {"running", "completed", "failed"}, stored \in BOOLEAN :
            status = test.status /\ stored = test.stored
      BY DEF BacktestInv, BacktestTypeOK
    <3>2. (status = "completed" => stored) /\ (test.step = "update" => stored)
      BY <3>1 DEF BacktestInv, CompletedHasTrades
    <3>3. CASE InsertTrades
      BY <3>1, <3>2, <3>3 DEF InsertTrades, TestBecomes
    <3>4. CASE CompleteRow
      BY <3>1, <3>2, <3>4 DEF CompleteRow, TestBecomes
    <3>5. CASE FailRow
      BY <3>1, <3>2, <3>5 DEF FailRow, TestBecomes
    <3>6. CASE KillTest
      BY <3>1, <3>2, <3>6 DEF KillTest, TestBecomes
    <3>7. CASE UNCHANGED backtestVars
      BY <3>1, <3>2, <3>7 DEF backtestVars, BacktestInv, BacktestTypeOK, CompletedHasTrades
    <3> QED BY <1>6, <3>3, <3>4, <3>5, <3>6, <3>7
  <2>2. BacktestTypeOK' /\ BreakoutIsSilent' /\ CompletedHasTrades'
    BY <2>1 DEF BacktestInv, BacktestTypeOK, BreakoutIsSilent, CompletedHasTrades, Held
  <2> QED BY <2>1, <2>2 DEF BacktestInv, Held, Warmup, Inside
<1> QED BY <1>1, <1>2, <1>3, <1>4, <1>5, <1>6 DEF BacktestNext

(* For every sequence of candles, whatever ends a trade and wherever the process
   dies: exits between stop and take, positions of bounded age, no trade on a
   breakout signal, no completed row without its trades. *)
THEOREM BacktestTheorem == BacktestSpec => []BacktestSound
<1>1. BacktestInv => BacktestSound
  BY DEF BacktestInv, BacktestSound, ExitWithinStops, HoldBounded, Inside
<1> QED BY <1>1, BacktestInvInit, BacktestInvStep, PTL DEF BacktestSpec

-----------------------------------------------------------------------------
(***************************************************************************)
(* EnvProfile: any templates, any number of edits.                         *)
(***************************************************************************)

\* What a deployment lets through, with the leave it was run with.
LetThrough(e, allow) == ServerEnvValid(e, allow) /\ ProfileOk(e, Target(e))

(* Between its check and the start of the container nobody edits the file: what
   is started is what was let through. *)
EnvInv ==
    /\ EnvTypeOK
    /\ deployStep = "checked" => LetThrough(envFile, leave)
    /\ container.up => LetThrough(container.env, granted)

(* What the script and the profile let through is fit for the service: the
   readers' spellings of a flag differ, and their gap is closed. *)
LEMMA LetThroughIsFit ==
    ASSUME NEW e, IsSettings(e), NEW allow \in BOOLEAN, LetThrough(e, allow)
    PROVE  /\ LiveCapable(e) => allow /\ ConfigGatesPass(e)
           /\ ServerAuth(e) /\ ServerBindIsPrivate(e)
<1>1. e.appEnv = "server" /\ e.password = "strong" /\ e.bind = "private"
  BY DEF LetThrough, ServerEnvValid
<1>2. ASSUME LiveCapable(e) PROVE LiteralLive(e)
  <2>1. EnvBool(e.live) /\ EnvBool(e.place)
    BY <1>2 DEF LiveCapable
  <2>2. ProfileBool(e.live)
    BY <2>1 DEF EnvBool, ProfileBool
  <2>3. Target(e) = "live_guarded"
    BY <2>2 DEF LetThrough, ProfileOk, MvpChecks
  <2> QED BY <2>3 DEF Target
<1>3. ASSUME LiveCapable(e) PROVE allow /\ ConfigGatesPass(e)
  <2>1. LiteralLive(e) /\ allow
    BY <1>2, <1>3 DEF LetThrough, ServerEnvValid
  <2>2. LiveChecks(e)
    BY <2>1 DEF LetThrough, ProfileOk, Target
  <2>3. e.caps /\ ProfileBool(e.safety) /\ e.alert = "set"
    BY <2>2 DEF LiveChecks, Present
  <2> QED BY <1>1, <2>1, <2>3 DEF ConfigGatesPass, ServerMode, ServerAuth, ServerBindIsPrivate,
                                  EnvBool, ProfileBool, ServerAlerts
<1> QED BY <1>1, <1>3 DEF ServerAuth, ServerBindIsPrivate

(* A changed setting is a setting. *)
LEMMA EditedSettings ==
    ASSUME NEW e, IsSettings(e), NEW field \in DOMAIN Values, NEW value \in Values[field]
    PROVE  IsSettings([e EXCEPT ![field] = value])
BY DEF IsSettings

(* Nothing runs yet. *)
LEMMA EnvInvInit == EnvInit => EnvInv
<1> SUFFICES ASSUME EnvInit PROVE EnvInv
  OBVIOUS
<1>1. IsSettings(envFile) /\ container = Nowhere /\ ~container.up /\ edits \in 0..MaxEdits
  BY EnvAssumption DEF EnvInit, Nowhere
<1> QED BY <1>1 DEF EnvInit, EnvInv, EnvTypeOK

(* Edits, checks, starts and verifications keep it. *)
LEMMA EnvInvStep == EnvInv /\ [EnvNext]_envVars => EnvInv'
<1> SUFFICES ASSUME EnvInv, [EnvNext]_envVars PROVE EnvInv'
  OBVIOUS
<1>1. ASSUME NEW field \in DOMAIN Values, NEW value \in Values[field], Edit(field, value)
      PROVE  EnvInv'
  <2>1. /\ deployStep = "idle" /\ edits' = edits + 1 /\ edits < MaxEdits
        /\ envFile' = [envFile EXCEPT ![field] = value]
        /\ UNCHANGED <<container, deployStep, leave, granted>>
    BY <1>1 DEF Edit
  <2>2. IsSettings(envFile)'
    <3>1. IsSettings(envFile)
      BY DEF EnvInv, EnvTypeOK
    <3>2. IsSettings([envFile EXCEPT ![field] = value])
      BY <3>1, EditedSettings
    <3> QED BY <2>1, <3>2 DEF IsSettings, Values
  <2>3. edits' \in 0..MaxEdits
    BY <2>1, EnvAssumption DEF EnvInv, EnvTypeOK
  <2> QED BY <2>1, <2>2, <2>3 DEF EnvInv, EnvTypeOK
<1>2. ASSUME NEW allow \in BOOLEAN, CheckEnv(allow) PROVE EnvInv'
  <2>1. /\ deployStep = "idle" /\ leave' = allow
        /\ deployStep' = IF LetThrough(envFile, allow) THEN "checked" ELSE "idle"
        /\ UNCHANGED <<envFile, container, granted, edits>>
    BY <1>2 DEF CheckEnv, LetThrough
  <2>2. EnvTypeOK'
    BY <2>1 DEF EnvInv, EnvTypeOK
  <2>3. deployStep' = "checked" => LetThrough(envFile', leave')
    BY <2>1
  <2> QED BY <2>1, <2>2, <2>3 DEF EnvInv
<1>3. CASE StartContainer
  <2>1. /\ deployStep = "checked" /\ deployStep' = "up"
        /\ container' = [up |-> TRUE, env |-> envFile] /\ granted' = leave
        /\ UNCHANGED <<envFile, leave, edits>>
    BY <1>3 DEF StartContainer
  <2>2. container'.up /\ container'.env = envFile
    BY <2>1
  <2>3. EnvTypeOK'
    BY <2>1, <2>2 DEF EnvInv, EnvTypeOK
  <2>4. LetThrough(container'.env, granted')
    BY <2>1, <2>2 DEF EnvInv
  <2> QED BY <2>1, <2>3, <2>4 DEF EnvInv
<1>4. CASE Verify \/ EndDeploy
  <2>1. /\ deployStep \in {"up", "verified", "refused"}
        /\ deployStep' \in {"verified", "refused", "idle"}
        /\ UNCHANGED <<envFile, container, leave, granted, edits>>
    BY <1>4 DEF Verify, EndDeploy
  <2>2. EnvTypeOK'
    BY <2>1 DEF EnvInv, EnvTypeOK
  <2> QED BY <2>1, <2>2 DEF EnvInv
<1>5. CASE UNCHANGED envVars
  BY <1>5 DEF envVars, EnvInv, EnvTypeOK
<1> QED BY <1>1, <1>2, <1>3, <1>4, <1>5 DEF EnvNext

(* Whatever .env says, in whichever spelling, and wherever a deployment stops: a
   service that can trade live was deployed with leave and passes the gates its
   settings decide, and no deployed service is exposed. *)
THEOREM DeploymentTheorem == EnvSpec => []DeploymentSound
<1>1. EnvInv => DeploymentSound
  <2> SUFFICES ASSUME EnvInv PROVE DeploymentSound
    OBVIOUS
  <2>1. ASSUME container.up
        PROVE  /\ LiveCapable(container.env) => granted /\ ConfigGatesPass(container.env)
               /\ ServerAuth(container.env) /\ ServerBindIsPrivate(container.env)
    <3>1. IsSettings(container.env) /\ granted \in BOOLEAN
      BY <2>1 DEF EnvInv, EnvTypeOK, Nowhere
    <3> QED BY <2>1, <3>1, LetThroughIsFit DEF EnvInv
  <2> QED BY <2>1 DEF EnvInv, DeploymentSound, LiveDeployNeedsLeave, LiveDeployPassesConfigGates,
                      DeployedNeverExposed
<1> QED BY <1>1, EnvInvInit, EnvInvStep, PTL DEF EnvSpec

-----------------------------------------------------------------------------
(***************************************************************************)
(* StateStore: any writers, any number of stops and backups.               *)
(***************************************************************************)

(* While a restore runs the service does not, so that nothing changes the
   database it has copied; what it has opened has no journal left. *)
StoreInv ==
    /\ StoreTypeOK
    /\ whole
    /\ journal # "foreign"
    /\ restore.step # "idle" => ~serving /\ restore.archive.sound
    /\ restore.step = "replace" => journal = "none" /\ restore.copy = {Database}

(* The database is what the variables of the log make it. *)
LEMMA DatabaseKept == UNCHANGED auditVars => Database' = Database
BY DEF auditVars, dbVars, Database, Owes

(* The service runs, nothing is saved or restored. *)
LEMMA StoreInvInit == StoreInit => StoreInv
BY DEF StoreInit, StoreInv, StoreTypeOK, NoRestore

(* What the service does, it does outside a restore. *)
LEMMA OutsideRestore ==
    ASSUME StoreInv, serving,
           journal' \in {journal, "own", "none"}, UNCHANGED <<whole, restore>>
    PROVE  StoreInv' /\ restore.step = "idle"
BY DEF StoreInv, StoreTypeOK

(* Every step of the service, of the backup and of the restore keeps it, and a
   database that a restore replaces is one it has copied. *)
LEMMA StoreInvStep ==
    ASSUME StoreInv, [StoreNext]_<<auditVars, storeVars>>
    PROVE  /\ StoreInv'
           /\ restore.step # "idle" /\ Database' # Database => Database \in restore.copy
<1>1. CASE \E w \in Writers : Log(w)
  <2>1. PICK w \in Writers : Record(w) /\ UNCHANGED storeVars
    BY <1>1 DEF Log
  <2>2. serving
    BY <2>1 DEF Record, Begin, Commit, WriteOrder, HasMessage, ReadOrder
  <2> QED BY <2>1, <2>2, OutsideRestore DEF storeVars
<1>2. CASE AlterChain
  BY <1>2, OutsideRestore DEF AlterChain, storeVars
<1>3. CASE Kill
  <2>1. serving /\ journal' \in {"own", "none"} /\ UNCHANGED <<whole, restore>>
    BY <1>3 DEF Kill, Stop
  <2> QED BY <2>1, OutsideRestore
<1>4. CASE Start
  <2>1. restore.step = "idle" /\ journal' = "none" /\ whole' /\ restore' = restore
    BY <1>4 DEF Start, PlayBack, StoreInv
  <2> QED BY <2>1 DEF StoreInv, StoreTypeOK
<1>5. CASE Backup
  <2>1. /\ journal' \in {journal, "none"} /\ whole' /\ whole' \in BOOLEAN
        /\ restore' = restore /\ UNCHANGED auditVars
    BY <1>5 DEF Backup, PlayBack, StoreInv, StoreTypeOK
  <2>2. Database' = Database /\ serving' = serving
    BY <2>1, DatabaseKept DEF auditVars
  <2> QED BY <2>1, <2>2 DEF StoreInv, StoreTypeOK
<1>6. ASSUME NEW a \in archives, Damage(a)
      PROVE  /\ StoreInv'
             /\ restore.step # "idle" /\ Database' # Database => Database \in restore.copy
  <2>1. UNCHANGED <<auditVars, journal, whole, restore>>
    BY <1>6 DEF Damage
  <2>2. Database' = Database /\ serving' = serving
    BY <2>1, DatabaseKept DEF auditVars
  <2> QED BY <2>1, <2>2 DEF StoreInv, StoreTypeOK
<1>7. ASSUME NEW a \in archives, RestoreReads(a)
      PROVE  /\ StoreInv'
             /\ restore.step # "idle" /\ Database' # Database => Database \in restore.copy
  <2>1. /\ restore.step = "idle" /\ ~serving /\ a.sound
        /\ restore' = [step |-> "copy", archive |-> a, copy |-> {}]
        /\ UNCHANGED <<serving, journal, whole>>
    BY <1>7 DEF RestoreReads, auditVars
  <2>2. restore'.step = "copy" /\ restore'.archive = a
    BY <2>1
  <2> QED BY <2>1, <2>2 DEF StoreInv, StoreTypeOK
<1>8. CASE RestoreCopies
  <2>1. /\ restore.step = "copy" /\ journal' = "none" /\ whole' /\ whole' \in BOOLEAN
        /\ restore' = [step |-> "replace", archive |-> restore.archive, copy |-> {Database}]
        /\ UNCHANGED auditVars
    BY <1>8 DEF RestoreCopies, PlayBack, StoreInv
  <2>2. Database' = Database /\ serving' = serving
    BY <2>1, DatabaseKept DEF auditVars
  <2>3. /\ restore'.step = "replace" /\ restore'.archive = restore.archive
        /\ restore'.copy = {Database}
    BY <2>1
  <2> QED BY <2>1, <2>2, <2>3 DEF StoreInv, StoreTypeOK
<1>9. CASE RestoreReplaces
  <2>1. /\ restore.step = "replace" /\ whole' = restore.archive.sound
        /\ journal' = IF journal = "none" THEN "none" ELSE "foreign"
        /\ restore' = NoRestore
    BY <1>9 DEF RestoreReplaces
  <2>2. whole' /\ journal' = "none" /\ Database \in restore.copy /\ restore'.step = "idle"
    BY <2>1 DEF StoreInv, NoRestore
  <2>3. whole' \in BOOLEAN
    BY <2>1, <2>2 DEF StoreInv
  <2> QED BY <2>2, <2>3 DEF StoreInv, StoreTypeOK
<1>10. CASE RestoreDies
  <2>1. restore'.step = "idle" /\ UNCHANGED <<journal, whole>> /\ UNCHANGED auditVars
    BY <1>10 DEF RestoreDies, NoRestore
  <2>2. Database' = Database
    BY <2>1, DatabaseKept
  <2> QED BY <2>1, <2>2 DEF StoreInv, StoreTypeOK
<1>11. CASE UNCHANGED <<auditVars, storeVars>>
  <2>1. Database' = Database /\ UNCHANGED <<serving, journal, whole, restore>>
    BY <1>11, DatabaseKept DEF auditVars, storeVars
  <2> QED BY <2>1 DEF StoreInv, StoreTypeOK
<1> QED BY <1>1, <1>2, <1>3, <1>4, <1>5, <1>6, <1>7, <1>8, <1>9, <1>10, <1>11 DEF StoreNext

(* Whatever is killed, damaged, backed up or restored, and in whatever order: the
   database is one committed state, and one that is replaced has been copied. *)
THEOREM RestoreTheorem == StoreSpec => RestoreSound
<1>1. StoreInv /\ [StoreNext]_<<auditVars, storeVars>> => StoreInv'
  BY StoreInvStep
<1>2. StoreInv /\ [StoreNext]_<<auditVars, storeVars>>
        => [restore.step # "idle" /\ Database' # Database
              => Database \in restore.copy]_<<auditVars, storeVars>>
  BY StoreInvStep
<1>3. StoreInv => StoreTypeOK /\ DatabaseWhole
  BY DEF StoreInv, DatabaseWhole
<1> QED BY <1>1, <1>2, <1>3, StoreInvInit, PTL DEF StoreSpec, RestoreSound, ReplacedIsKept

-----------------------------------------------------------------------------
(***************************************************************************)
(* Flatten: any number of close-outs at the same time, any sizes, steps    *)
(* and minimum quantities, one-way and hedge mode.                         *)
(***************************************************************************)

LegMaps == [{"BOTH"} -> Int] \cup [{"LONG", "SHORT"} -> Int]
CloserPlaces == {"away", "cancel", "confirm", "sync", "orders", "answered"}

Requests == [at : CloserPlaces, dry : BOOLEAN, amounts : LegMaps \cup {NoLegs},
             left : SUBSET {"BOTH", "LONG", "SHORT"}, failed : BOOLEAN, cut : BOOLEAN,
             grown : BOOLEAN]

\* A position is still a part of what it was read as.
PartOf(part, was) == Amount(part) <= Amount(was) /\ part * was >= 0

\* The flags under which "done" is said, and nothing came in between.
Clean(f) == ~f.dry /\ ~f.failed /\ ~f.cut /\ ~f.grown

(* What a close-out has still before it is a part of what it read, or nothing;
   what it has behind it is less than a step. *)
Progress(f, l) ==
    /\ f.at = "orders" => DOMAIN f.amounts = DOMAIN l /\ f.left \subseteq DOMAIN l
    /\ f.at \in {"orders", "answered"} /\ Clean(f) =>
         \A s \in DOMAIN l : IF s \in f.left THEN f.at = "orders" /\ PartOf(l[s], f.amounts[s])
                                             ELSE Amount(l[s]) < StepSize

FlattenInv ==
    /\ legs \in LegMaps
    /\ flatten \in [Flatteners -> Requests]
    /\ \A c \in Flatteners : Progress(flatten[c], legs)

(* The quantity of a close-out falls short of the amount by less than a step. *)
LEMMA QuantityIs ==
    ASSUME NEW n \in Int
    PROVE  /\ CloseQuantity(n) \in Nat /\ Amount(n) \in Nat
           /\ CloseQuantity(n) <= Amount(n) /\ Amount(n) < CloseQuantity(n) + StepSize
<1>1. PICK a \in Nat : a = Amount(n)
  BY DEF Amount
<1>2. PICK d \in Nat \ {0} : d = StepSize
  BY FlattenAssumption
<1>3. a \div d \in Nat /\ a % d \in 0..d - 1 /\ a = d * (a \div d) + (a % d)
  BY <1>2
<1>4. PICK q \in Nat : q = a \div d
  BY <1>3
<1>5. q * d \in Nat /\ d * q = q * d
  OBVIOUS
<1>6. q * d <= a /\ a < q * d + d
  BY <1>3, <1>4, <1>5
<1> QED BY <1>1, <1>2, <1>4, <1>5, <1>6 DEF CloseQuantity

(* A part of a part is a part, and a part of dust is dust. *)
LEMMA PartsOfParts ==
    ASSUME NEW a \in Int, NEW b \in Int, NEW c \in Int, PartOf(a, b)
    PROVE  /\ PartOf(b, c) => PartOf(a, c)
           /\ Amount(b) < StepSize => Amount(a) < StepSize
<1>1. (a = 0 \/ (a > 0 /\ b > 0) \/ (a < 0 /\ b < 0)) /\ Amount(a) <= Amount(b)
  <2>1. a > 0 /\ b < 0 => a * b < 0
    OBVIOUS
  <2>2. a < 0 /\ b > 0 => a * b < 0
    OBVIOUS
  <2>3. b = 0 => a = 0
    BY DEF PartOf, Amount
  <2> QED BY <2>1, <2>2, <2>3 DEF PartOf
<1>2. ASSUME PartOf(b, c) PROVE PartOf(a, c)
  <2>1. Amount(a) <= Amount(c)
    BY <1>1, <1>2 DEF PartOf, Amount
  <2>2. b * c >= 0
    BY <1>2 DEF PartOf
  <2>3. b > 0 /\ c < 0 => b * c < 0
    OBVIOUS
  <2>4. b < 0 /\ c > 0 => b * c < 0
    OBVIOUS
  <2>5. (a >= 0 /\ c >= 0) \/ (a <= 0 /\ c <= 0)
    BY <1>1, <2>2, <2>3, <2>4
  <2>6. a * c >= 0
    BY <2>5
  <2> QED BY <2>1, <2>6 DEF PartOf
<1>3. Amount(b) < StepSize => Amount(a) < StepSize
  BY <1>1, FlattenAssumption DEF Amount
<1> QED BY <1>2, <1>3

(* A close-out order, filled in full or cut short, leaves a part of the position;
   filled in full, of a position that is a part of what was read, only dust. *)
LEMMA OrderCloses ==
    ASSUME NEW n \in Int, NEW amount \in Int, NEW q \in Nat, NEW full \in Int,
           full = IF amount > 0
                  THEN IF n - q >= 0 THEN n - q ELSE IF n > 0 THEN 0 ELSE n
                  ELSE IF n + q <= 0 THEN n + q ELSE IF n < 0 THEN 0 ELSE n
    PROVE  /\ PartOf(full, n)
           /\ n + (full - n) \div 2 \in Int /\ PartOf(n + (full - n) \div 2, n)
           /\ PartOf(n, amount) /\ Amount(amount) < q + StepSize => Amount(full) < StepSize
<1>1. \/ (full >= 0 /\ full <= n) \/ (full <= 0 /\ n <= full)
  OBVIOUS
<1>2. PICK half \in Int : half = n + (full - n) \div 2
  OBVIOUS
<1>3. \/ (full >= 0 /\ full <= half /\ half <= n) \/ (full <= 0 /\ n <= half /\ half <= full)
  BY <1>1, <1>2
<1>4. PartOf(full, n)
  <2>1. full * n >= 0
    BY <1>1
  <2> QED BY <1>1, <2>1 DEF PartOf, Amount
<1>5. PartOf(half, n)
  <2>1. half * n >= 0
    BY <1>3
  <2> QED BY <1>3, <2>1 DEF PartOf, Amount
<1>6. ASSUME PartOf(n, amount), Amount(amount) < q + StepSize PROVE Amount(full) < StepSize
  <2>0. StepSize \in Nat \ {0}
    BY FlattenAssumption
  <2>1. amount > 0 /\ n < 0 => n * amount < 0
    OBVIOUS
  <2>2. amount < 0 /\ n > 0 => n * amount < 0
    OBVIOUS
  <2>3. amount > 0 => n >= 0 /\ n <= amount
    BY <1>6, <2>1 DEF PartOf, Amount
  <2>4. ~(amount > 0) => n <= 0 /\ amount <= n
    BY <1>6, <2>2 DEF PartOf, Amount
  <2>5. amount > 0 => amount < q + StepSize
    BY <1>6 DEF Amount
  <2>6. ~(amount > 0) => -amount < q + StepSize
    BY <1>6 DEF Amount
  <2>7. CASE amount > 0
    <3>1. full >= 0 /\ full < StepSize
      BY <2>0, <2>3, <2>5, <2>7
    <3> QED BY <3>1 DEF Amount
  <2>8. CASE ~(amount > 0)
    <3>1. full <= 0 /\ -full < StepSize
      BY <2>0, <2>4, <2>6, <2>8
    <3> QED BY <2>0, <3>1 DEF Amount
  <2> QED BY <2>7, <2>8
<1> QED BY <1>2, <1>4, <1>5, <1>6

(* A request that goes on leaves the others where they are. *)
LEMMA GoesOn ==
    ASSUME FlattenInv, NEW c \in Flatteners, NEW f \in Requests, Goes(c, f), legs' = legs,
           Progress(f, legs)
    PROVE  FlattenInv'
<1>1. flatten' \in [Flatteners -> Requests]
  BY DEF Goes, FlattenInv
<1>2. \A d \in Flatteners : flatten'[d] = IF d = c THEN f ELSE flatten[d]
  BY DEF Goes, FlattenInv
<1>3. \A d \in Flatteners : Progress(flatten'[d], legs)
  BY <1>2 DEF FlattenInv
<1> QED BY <1>1, <1>3 DEF FlattenInv

(* When positions only become parts of what they were, a close-out's progress is kept. *)
LEMMA ProgressKept ==
    ASSUME NEW f \in Requests, NEW l \in LegMaps, NEW m \in LegMaps, DOMAIN m = DOMAIN l,
           \A s \in DOMAIN l : PartOf(m[s], l[s]), Progress(f, l)
    PROVE  Progress(f, m)
<1>1. \A s \in DOMAIN l : l[s] \in Int /\ m[s] \in Int
  BY DEF LegMaps
<1>2. f.at = "orders" => DOMAIN f.amounts = DOMAIN l /\ f.left \subseteq DOMAIN l
  BY DEF Progress
<1>3. ASSUME f.at \in {"orders", "answered"}, Clean(f), NEW s \in DOMAIN l
      PROVE  IF s \in f.left THEN f.at = "orders" /\ PartOf(m[s], f.amounts[s])
                             ELSE Amount(m[s]) < StepSize
  <2>1. IF s \in f.left THEN f.at = "orders" /\ PartOf(l[s], f.amounts[s])
                        ELSE Amount(l[s]) < StepSize
    BY <1>3 DEF Progress
  <2>2. CASE s \in f.left
    <3>1. f.at = "orders" /\ PartOf(l[s], f.amounts[s]) /\ s \in DOMAIN f.amounts
      BY <1>2, <2>1, <2>2
    <3>2. f.amounts[s] \in Int
      BY <3>1 DEF Requests, LegMaps, NoLegs
    <3> QED BY <1>1, <2>2, <3>1, <3>2, PartsOfParts
  <2>3. CASE s \notin f.left
    BY <1>1, <2>1, <2>3, PartsOfParts
  <2> QED BY <2>2, <2>3
<1> QED BY <1>2, <1>3 DEF Progress

(* A position that is reduced leaves every close-out's progress. *)
LEMMA Reduces ==
    ASSUME FlattenInv, NEW s \in Legs, NEW rest \in Int, PartOf(rest, legs[s])
    PROVE  LET l == [legs EXCEPT ![s] = rest]
           IN  /\ l \in LegMaps /\ DOMAIN l = DOMAIN legs
               /\ \A r \in Legs : PartOf(l[r], legs[r])
               /\ \A c \in Flatteners : Progress(flatten[c], l)
<1> DEFINE l == [legs EXCEPT ![s] = rest]
<1>1. l \in LegMaps /\ DOMAIN l = DOMAIN legs
  BY DEF FlattenInv, LegMaps, Legs
<1>2. \A r \in Legs : l[r] = IF r = s THEN rest ELSE legs[r]
  BY DEF Legs
<1>3. \A r \in Legs : legs[r] \in Int
  BY DEF FlattenInv, LegMaps, Legs
<1>4. \A n \in Int : PartOf(n, n)
  <2>1. \A n \in Int : n * n >= 0
    OBVIOUS
  <2> QED BY <2>1 DEF PartOf, Amount
<1>5. \A r \in Legs : PartOf(l[r], legs[r])
  BY <1>2, <1>3, <1>4
<1> HIDE DEF l
<1>6. \A c \in Flatteners : Progress(flatten[c], l)
  BY <1>1, <1>5, ProgressKept DEF FlattenInv, Legs
<1> QED BY <1>1, <1>5, <1>6 DEF l

(* Nobody closes anything yet. *)
LEMMA FlattenInvInit == FlattenInit => FlattenInv
<1> SUFFICES ASSUME FlattenInit PROVE FlattenInv
  OBVIOUS
<1>0. \A n \in HeldAtFirst : n \in Int
  BY FlattenAssumption
<1>1. legs \in LegMaps
  BY <1>0 DEF FlattenInit, LegMaps
<1>2. Away \in Requests /\ Away.at = "away"
  BY DEF Away, Requests, CloserPlaces
<1>3. flatten = [c \in Flatteners |-> Away]
  BY DEF FlattenInit
<1> QED BY <1>1, <1>2, <1>3 DEF FlattenInv, Progress

(* What a close-out does before it sends an order, and after the last one. *)
LEMMA FlattenAsks ==
    ASSUME FlattenInv, NEW c \in Flatteners,
           AskClose(c) \/ CancelAllOrders(c) \/ AskConfirmation(c) \/ ReadPositions(c) \/ WritePlan(c)
    PROVE  FlattenInv'
<1>1. PICK old \in Requests : old = flatten[c]
  BY DEF FlattenInv
<1>2. Progress(old, legs)
  BY <1>1 DEF FlattenInv
<1>3. CASE AskClose(c)
  <2>1. PICK place \in {"cancel", "confirm"}, dry \in BOOLEAN :
          Goes(c, [Away EXCEPT !.at = place, !.dry = dry])
    BY <1>3, Zenon DEF AskClose
  <2> DEFINE f == [Away EXCEPT !.at = place, !.dry = dry]
  <2>2. f \in Requests /\ f.at \in {"cancel", "confirm"}
    BY DEF Away, Requests, CloserPlaces
  <2>3. Goes(c, f)
    BY <2>1
  <2>4. UNCHANGED <<legs, stopsOpen, late, plan>>
    BY <1>3, Zenon DEF AskClose
  <2> HIDE DEF f
  <2>5. Progress(f, legs)
    BY <2>2 DEF Progress
  <2> QED BY <2>2, <2>3, <2>4, <2>5, GoesOn
<1>4. CASE CancelAllOrders(c)
  <2> DEFINE f == [old EXCEPT !.at = "confirm"]
  <2>1. Goes(c, f) /\ legs' = legs
    BY <1>1, <1>4 DEF CancelAllOrders
  <2>2. f \in Requests /\ f.at = "confirm"
    BY DEF Requests, CloserPlaces
  <2> HIDE DEF f
  <2>3. Progress(f, legs)
    BY <2>2 DEF Progress
  <2> QED BY <2>1, <2>2, <2>3, GoesOn
<1>5. ASSUME Goes(c, [flatten[c] EXCEPT !.at = "answered", !.failed = TRUE]), legs' = legs
      PROVE  FlattenInv'
  <2> DEFINE f == [old EXCEPT !.at = "answered", !.failed = TRUE]
  <2>1. Goes(c, f)
    BY <1>1, <1>5
  <2>2. f \in Requests /\ f.at = "answered" /\ f.failed
    BY DEF Requests, CloserPlaces
  <2> HIDE DEF f
  <2>3. Progress(f, legs)
    BY <2>2 DEF Progress, Clean
  <2> QED BY <1>5, <2>1, <2>2, <2>3, GoesOn
<1>6. CASE AskConfirmation(c)
  <2>1. CASE Goes(c, [flatten[c] EXCEPT !.at = "sync"])
    <3> DEFINE f == [old EXCEPT !.at = "sync"]
    <3>1. Goes(c, f) /\ legs' = legs
      BY <1>1, <1>6, <2>1 DEF AskConfirmation
    <3>2. f \in Requests /\ f.at = "sync"
      BY DEF Requests, CloserPlaces
    <3> HIDE DEF f
    <3>3. Progress(f, legs)
      BY <3>2 DEF Progress
    <3> QED BY <3>1, <3>2, <3>3, GoesOn
  <2> QED BY <1>5, <1>6, <2>1 DEF AskConfirmation
<1>7. CASE ReadPositions(c)
  <2>1. PICK open \in SUBSET {"BOTH", "LONG", "SHORT"} : open = {s \in Legs : legs[s] # 0}
    BY DEF FlattenInv, LegMaps, Legs
  <2>2. CASE Goes(c, [flatten[c] EXCEPT !.at = "orders", !.amounts = legs, !.left = open])
    <3> DEFINE f == [old EXCEPT !.at = "orders", !.amounts = legs, !.left = open]
    <3>1. Goes(c, f) /\ legs' = legs
      BY <1>1, <1>7, <2>2 DEF ReadPositions
    <3>2. f \in Requests /\ f.at = "orders" /\ f.amounts = legs /\ f.left = open
      BY DEF FlattenInv, Requests, CloserPlaces
    <3> HIDE DEF f
    <3>3. ASSUME NEW s \in DOMAIN legs
          PROVE  IF s \in open THEN PartOf(legs[s], legs[s]) ELSE Amount(legs[s]) < StepSize
      <4>1. PICK n \in Int : n = legs[s]
        BY DEF FlattenInv, LegMaps
      <4>2. n * n >= 0 /\ 0 < StepSize
        BY FlattenAssumption
      <4>3. s \notin open => n = 0
        BY <2>1, <4>1 DEF Legs
      <4> QED BY <4>1, <4>2, <4>3 DEF PartOf, Amount
    <3>4. Progress(f, legs)
      BY <2>1, <3>2, <3>3 DEF Progress, Legs
    <3> QED BY <3>1, <3>2, <3>4, GoesOn
  <2> QED BY <1>5, <1>7, <2>1, <2>2 DEF ReadPositions
<1>8. CASE WritePlan(c)
  <2> DEFINE f == [old EXCEPT !.at = "answered", !.amounts = NoLegs]
  <2>1. Goes(c, f) /\ legs' = legs /\ old.at = "orders" /\ old.left = {}
    BY <1>1, <1>8 DEF WritePlan
  <2>2. /\ f \in Requests /\ f.at = "answered" /\ f.left = old.left
        /\ f.dry = old.dry /\ f.failed = old.failed /\ f.cut = old.cut /\ f.grown = old.grown
    BY DEF Requests, CloserPlaces
  <2> HIDE DEF f
  <2>3. Progress(f, legs)
    BY <1>2, <2>1, <2>2 DEF Progress, Clean
  <2> QED BY <2>1, <2>2, <2>3, GoesOn
<1> QED BY <1>3, <1>4, <1>6, <1>7, <1>8

(* A position for which an order cannot be sent, or need not be. *)
LEMMA FlattenPlans ==
    ASSUME FlattenInv, NEW c \in Flatteners, CannotClose(c) \/ PlanOrder(c)
    PROVE  FlattenInv'
<1>1. PICK old \in Requests : old = flatten[c]
  BY DEF FlattenInv
<1>2. Progress(old, legs)
  BY <1>1 DEF FlattenInv
<1>3. CASE CannotClose(c)
  <2>1. PICK s \in old.left : PlanFails(c, s)
    BY <1>1, <1>3 DEF CannotClose
  <2> DEFINE f == [old EXCEPT !.left = old.left \ {s}, !.failed = TRUE]
  <2>2. Goes(c, f)
    BY <1>1, <2>1 DEF PlanFails
  <2>3. /\ f \in Requests /\ f.failed /\ f.at = old.at /\ f.amounts = old.amounts
        /\ f.left \subseteq old.left
    BY DEF Requests
  <2> HIDE DEF f
  <2>4. legs' = legs /\ old.at = "orders"
    BY <1>1, <1>3 DEF CannotClose
  <2>5. Progress(f, legs)
    BY <1>2, <2>3, <2>4 DEF Progress, Clean
  <2> QED BY <2>2, <2>3, <2>4, <2>5, GoesOn
<1>4. CASE PlanOrder(c)
  <2>1. PICK s \in old.left : PlanSucceeds(c, s, FALSE)
    BY <1>1, <1>4 DEF PlanOrder
  <2> DEFINE f == [old EXCEPT !.left = old.left \ {s}, !.cut = old.cut \/ FALSE]
  <2>2. Goes(c, f)
    BY <1>1, <2>1 DEF PlanSucceeds
  <2>3. /\ f \in Requests /\ f.dry = old.dry /\ f.at = old.at /\ f.amounts = old.amounts
        /\ f.left \subseteq old.left
    BY DEF Requests
  <2> HIDE DEF f
  <2>4. legs' = legs /\ old.at = "orders" /\ old.dry
    BY <1>1, <1>4 DEF PlanOrder
  <2>5. Progress(f, legs)
    BY <1>2, <2>3, <2>4 DEF Progress, Clean
  <2> QED BY <2>2, <2>3, <2>4, <2>5, GoesOn
<1> QED BY <1>3, <1>4

(* A close-out order: the position becomes a part of itself, for everybody. *)
LEMMA FlattenOrders ==
    ASSUME FlattenInv, NEW c \in Flatteners, CloseOrder(c)
    PROVE  FlattenInv' /\ DOMAIN legs' = DOMAIN legs /\ \A s \in Legs : PartOf(legs'[s], legs[s])
<1>1. PICK old \in Requests : old = flatten[c]
  BY DEF FlattenInv
<1>2. Progress(old, legs) /\ old.at = "orders" /\ old.left \subseteq Legs
      /\ DOMAIN old.amounts = DOMAIN legs
  BY <1>1 DEF FlattenInv, CloseOrder, Progress, Legs
<1>3. PICK s \in old.left :
        LET amount == old.amounts[s]
            full == Closed(s, amount, CloseQuantity(amount))
        IN  \E reached \in {full, legs[s] + (full - legs[s]) \div 2} :
               /\ legs' = [legs EXCEPT ![s] = reached]
               /\ PlanFails(c, s) \/ PlanSucceeds(c, s, reached # full)
  BY <1>1, Zenon DEF CloseOrder
<1>4. PICK n \in Int : n = legs[s]
  BY <1>2 DEF FlattenInv, LegMaps, Legs
<1>5. PICK amount \in Int : amount = old.amounts[s]
  BY <1>2 DEF Requests, LegMaps, NoLegs, Legs
<1>6. PICK q \in Nat : q = CloseQuantity(amount) /\ Amount(amount) < q + StepSize
  BY QuantityIs
<1>7. PICK full \in Int :
        /\ full = Closed(s, amount, q)
        /\ full = IF amount > 0
                  THEN IF n - q >= 0 THEN n - q ELSE IF n > 0 THEN 0 ELSE n
                  ELSE IF n + q <= 0 THEN n + q ELSE IF n < 0 THEN 0 ELSE n
  BY <1>4 DEF Closed
<1>8. /\ PartOf(full, n)
      /\ n + (full - n) \div 2 \in Int /\ PartOf(n + (full - n) \div 2, n)
      /\ PartOf(n, amount) => Amount(full) < StepSize
  BY <1>6, <1>7, OrderCloses
<1>9. PICK reached \in {full, n + (full - n) \div 2} :
        /\ legs' = [legs EXCEPT ![s] = reached]
        /\ PlanFails(c, s) \/ PlanSucceeds(c, s, reached # full)
  BY <1>3, <1>4, <1>5, <1>6, <1>7
<1>10. reached \in Int /\ PartOf(reached, legs[s]) /\ s \in Legs
  BY <1>2, <1>4, <1>8
<1>11. /\ legs' \in LegMaps /\ DOMAIN legs' = DOMAIN legs
       /\ \A r \in Legs : PartOf(legs'[r], legs[r])
       /\ \A d \in Flatteners : Progress(flatten[d], legs')
  BY <1>9, <1>10, Reduces
<1>12. ASSUME NEW f \in Requests, Goes(c, f), Progress(f, legs') PROVE FlattenInv'
  <2>1. flatten' \in [Flatteners -> Requests]
    BY <1>12 DEF Goes, FlattenInv
  <2>2. \A d \in Flatteners : flatten'[d] = IF d = c THEN f ELSE flatten[d]
    BY <1>12 DEF Goes, FlattenInv
  <2> QED BY <1>11, <1>12, <2>1, <2>2 DEF FlattenInv
<1>13. Progress(old, legs')
  BY <1>1, <1>11
<1>14. CASE PlanFails(c, s)
  <2> DEFINE f == [old EXCEPT !.left = old.left \ {s}, !.failed = TRUE]
  <2>1. Goes(c, f)
    BY <1>1, <1>14 DEF PlanFails
  <2>2. /\ f \in Requests /\ f.failed /\ f.at = old.at /\ f.amounts = old.amounts
        /\ f.left \subseteq old.left
    BY DEF Requests
  <2> HIDE DEF f
  <2>3. Progress(f, legs')
    BY <1>13, <2>2 DEF Progress, Clean
  <2> QED BY <1>11, <1>12, <2>1, <2>2, <2>3
<1>15. CASE PlanSucceeds(c, s, reached # full)
  <2>2. PICK cut \in BOOLEAN : cut = (old.cut \/ reached # full)
    OBVIOUS
  <2> DEFINE f == [old EXCEPT !.left = old.left \ {s}, !.cut = cut]
  <2>3. Goes(c, f)
    BY <1>1, <1>15, <2>2 DEF PlanSucceeds
  <2>4. /\ f \in Requests /\ f.at = old.at /\ f.amounts = old.amounts /\ f.left = old.left \ {s}
        /\ f.dry = old.dry /\ f.failed = old.failed /\ f.cut = cut /\ f.grown = old.grown
    BY DEF Requests
  <2> HIDE DEF f
  <2>5. ASSUME Clean(f), NEW r \in DOMAIN legs'
        PROVE  IF r \in f.left THEN f.at = "orders" /\ PartOf(legs'[r], f.amounts[r])
                               ELSE Amount(legs'[r]) < StepSize
    <3>1. Clean(old) /\ reached = full
      BY <2>2, <2>4, <2>5 DEF Clean
    <3>2. CASE r = s
      <4>1. PartOf(n, amount)
        BY <1>2, <1>4, <1>5, <1>10, <3>1 DEF Progress, Legs
      <4>2. legs'[s] = full
        BY <1>9, <1>10, <3>1 DEF Legs
      <4> QED BY <1>8, <2>4, <3>2, <4>1, <4>2
    <3>3. CASE r # s
      BY <1>2, <1>13, <2>4, <2>5, <3>1, <3>3 DEF Progress
    <3> QED BY <3>2, <3>3
  <2>6. Progress(f, legs')
    BY <1>13, <2>4, <2>5 DEF Progress
  <2> QED BY <1>11, <1>12, <2>3, <2>4, <2>6
<1> QED BY <1>9, <1>11, <1>14, <1>15

(* An entry fills: what was read before is out of date, and marked so. *)
LEMMA FlattenGrows ==
    ASSUME FlattenInv, LateFill
    PROVE  FlattenInv' /\ late' # late
<1>1. PICK s \in Legs, n \in {-2, 2} : legs' = [legs EXCEPT ![s] = legs[s] + n]
  BY DEF LateFill
<1>2. legs[s] \in Int /\ n \in Int
  BY DEF FlattenInv, LegMaps, Legs
<1>3. PICK m \in Int : m = legs[s] + n
  BY <1>2
<1>4. legs' \in LegMaps /\ DOMAIN legs' = DOMAIN legs
  BY <1>1, <1>3 DEF FlattenInv, LegMaps, Legs
<1>5. flatten' = [c \in Flatteners |->
                    [flatten[c] EXCEPT !.grown = flatten[c].grown \/ flatten[c].at \in {"orders", "answered"}]]
  BY DEF LateFill
<1>6. ASSUME NEW c \in Flatteners
      PROVE  flatten'[c] \in Requests /\ Progress(flatten'[c], legs')
  <2>1. PICK old \in Requests : old = flatten[c]
    BY DEF FlattenInv
  <2>2. PICK grown \in BOOLEAN : grown = (old.grown \/ old.at \in {"orders", "answered"})
    OBVIOUS
  <2> DEFINE f == [old EXCEPT !.grown = grown]
  <2>3. flatten'[c] = f
    BY <1>5, <2>1, <2>2
  <2>4. /\ f \in Requests /\ f.at = old.at /\ f.amounts = old.amounts /\ f.left = old.left
        /\ f.grown = grown
    BY DEF Requests
  <2> HIDE DEF f
  <2>5. Progress(old, legs)
    BY <2>1 DEF FlattenInv
  <2>6. Progress(f, legs')
    BY <1>4, <2>2, <2>4, <2>5 DEF Progress, Clean
  <2> QED BY <2>3, <2>4, <2>6
<1>7. flatten' \in [Flatteners -> Requests]
  BY <1>5, <1>6
<1>8. late' # late
  BY DEF LateFill
<1> QED BY <1>4, <1>6, <1>7, <1>8 DEF FlattenInv

(* A stop closes a position. *)
LEMMA FlattenStops ==
    ASSUME FlattenInv, StopTriggers
    PROVE  FlattenInv' /\ DOMAIN legs' = DOMAIN legs /\ \A s \in Legs : PartOf(legs'[s], legs[s])
<1>1. PICK s \in Legs : legs' = [legs EXCEPT ![s] = 0]
  BY DEF StopTriggers
<1>2. legs[s] \in Int
  BY DEF FlattenInv, LegMaps, Legs
<1>3. PICK z \in Int : z = 0 /\ PartOf(z, legs[s])
  BY <1>2 DEF PartOf, Amount
<1>4. flatten' = flatten
  BY DEF StopTriggers
<1>6. legs' = [legs EXCEPT ![s] = z]
  BY <1>1, <1>3
<1>5. /\ legs' \in LegMaps /\ DOMAIN legs' = DOMAIN legs
      /\ \A r \in Legs : PartOf(legs'[r], legs[r])
      /\ \A c \in Flatteners : Progress(flatten[c], legs')
  BY <1>3, <1>6, Reduces
<1> QED BY <1>4, <1>5 DEF FlattenInv

(* Each step keeps the invariant, and one that is no late entry leaves a part of
   every position. *)
LEMMA FlattenInvStep ==
    ASSUME FlattenInv, [FlattenNext]_flattenVars
    PROVE  /\ FlattenInv'
           /\ late' = late => \A s \in Legs : /\ Amount(legs'[s]) <= Amount(legs[s])
                                               /\ legs'[s] * legs[s] >= 0
<1>1. ASSUME legs' = legs, NEW s \in Legs
      PROVE  Amount(legs'[s]) <= Amount(legs[s]) /\ legs'[s] * legs[s] >= 0
  <2>1. PICK n \in Int : n = legs[s]
    BY DEF FlattenInv, LegMaps, Legs
  <2>2. n * n >= 0
    OBVIOUS
  <2> QED BY <1>1, <2>1, <2>2 DEF Amount
<1>2. ASSUME NEW c \in Flatteners,
             \/ AskClose(c) \/ CancelAllOrders(c) \/ AskConfirmation(c) \/ ReadPositions(c)
             \/ WritePlan(c) \/ CannotClose(c) \/ PlanOrder(c)
      PROVE  FlattenInv' /\ legs' = legs
  <2>1. FlattenInv'
    BY <1>2, FlattenAsks, FlattenPlans
  <2>2. AskClose(c) => UNCHANGED <<legs, stopsOpen, late, plan>>
    BY Zenon DEF AskClose
  <2>3. CancelAllOrders(c) => legs' = legs
    BY DEF CancelAllOrders
  <2>4. AskConfirmation(c) => legs' = legs
    BY DEF AskConfirmation
  <2>5. ReadPositions(c) => legs' = legs
    BY DEF ReadPositions
  <2>6. WritePlan(c) => legs' = legs
    BY DEF WritePlan
  <2>7. CannotClose(c) => UNCHANGED <<legs, stopsOpen, late, plan>>
    BY Zenon DEF CannotClose
  <2>8. PlanOrder(c) => UNCHANGED <<legs, stopsOpen, late, plan>>
    BY Zenon DEF PlanOrder
  <2> QED BY <1>2, <2>1, <2>2, <2>3, <2>4, <2>5, <2>6, <2>7, <2>8
<1>3. ASSUME NEW c \in Flatteners, CloseOrder(c)
      PROVE  FlattenInv' /\ \A s \in Legs : PartOf(legs'[s], legs[s])
  BY <1>3, FlattenOrders
<1>4. CASE UNCHANGED flattenVars
  BY <1>1, <1>4 DEF flattenVars, FlattenInv
<1>5. CASE StopTriggers
  BY <1>5, FlattenStops DEF PartOf
<1>6. CASE LateFill
  BY <1>6, FlattenGrows
<1>7. CASE \E c \in Flatteners : CloserStep(c)
  BY <1>1, <1>2, <1>3, <1>7 DEF CloserStep, PartOf
<1> QED BY <1>4, <1>5, <1>6, <1>7 DEF FlattenNext

(* Whatever triggers, fills or closes meanwhile: a close-out only closes, and one
   that answers without a reservation has left less than a step of everything. *)
THEOREM CloseOutTheorem == FlattenSpec => CloseOutSound
<1>1. FlattenInv => AnsweredIsDust
  <2> SUFFICES ASSUME FlattenInv, NEW c \in Flatteners, flatten[c].at = "answered",
                      Clean(flatten[c]), NEW s \in Legs
               PROVE  Amount(legs[s]) < StepSize
    BY DEF AnsweredIsDust, Clean
  <2> QED BY DEF FlattenInv, Progress, Legs
<1>2. FlattenInv /\ [FlattenNext]_flattenVars => FlattenInv'
  BY FlattenInvStep
<1>3. FlattenInv /\ [FlattenNext]_flattenVars
        => [late' = late => \A s \in Legs : /\ Amount(legs'[s]) <= Amount(legs[s])
                                             /\ legs'[s] * legs[s] >= 0]_flattenVars
  BY FlattenInvStep
<1> QED BY <1>1, <1>2, <1>3, FlattenInvInit, PTL DEF FlattenSpec, CloseOutSound, OnlyCloses

-----------------------------------------------------------------------------
(***************************************************************************)
(* The login limiter.                                                      *)
(***************************************************************************)

\* Try i of the record s was one too many in its window.
Heavy(s, i) == Cardinality({j \in 1..i : s[i] - s[j] <= Window}) >= Limit

\* What the limiter keeps of the record s at time t: every try that a later one
\* can still be counted with; a lockout that ends where the last heavy try wants
\* it to, before which no try was made.
Limited(s, kept, to, t) ==
    /\ s \in Seq(0..t) /\ kept \subseteq DOMAIN s /\ to \in Nat
    /\ \A i \in DOMAIN s : t - s[i] <= Window => i \in kept
    /\ \A i \in DOMAIN s : Heavy(s, i) => s[i] + Lockout <= to
    /\ to > 0 => \E i \in DOMAIN s : Heavy(s, i) /\ to = s[i] + Lockout
    /\ \A i, j \in DOMAIN s : i < j /\ Heavy(s, i) => s[j] >= s[i] + Lockout

AuthInv ==
    /\ now \in 0..Horizon
    /\ failures \in [Clients -> SUBSET Nat] /\ lockedTo \in [Clients -> Nat]
    /\ tries \in [Clients -> Seq(Nat)]
    /\ \A c \in Clients : Limited(tries[c], failures[c], lockedTo[c], now)

(* Whether a try was one too many does not depend on the tries after it. *)
LEMMA HeavyStays ==
    ASSUME NEW s, NEW r, NEW i \in Nat, \A j \in 1..i : r[j] = s[j]
    PROVE  Heavy(r, i) <=> Heavy(s, i)
<1>1. {j \in 1..i : r[i] - r[j] <= Window} = {j \in 1..i : s[i] - s[j] <= Window}
  <2>1. CASE i = 0
    BY <2>1
  <2>2. CASE i # 0
    <3>1. r[i] = s[i]
      BY <2>2
    <3> QED BY <3>1
  <2> QED BY <2>1, <2>2
<1> QED BY <1>1 DEF Heavy

(* Pruning the window forgets nothing that is still needed, at any later time. *)
LEMMA LimitedPruned ==
    ASSUME NEW t \in Nat, NEW u \in Nat, t <= u, NEW s, NEW kept, NEW to, NEW fewer,
           Limited(s, kept, to, t), fewer \subseteq kept,
           \A i \in kept : u - s[i] <= Window => i \in fewer
    PROVE  Limited(s, fewer, to, u)
<1>1. s \in Seq(0..u)
  BY SeqMonotonic DEF Limited
<1>2. \A i \in DOMAIN s : s[i] \in 0..t
  BY ElementOfSeq, LenProperties DEF Limited
<1>3. \A i \in DOMAIN s : u - s[i] <= Window => i \in fewer
  BY <1>2, AuthAssumption DEF Limited
<1> QED BY <1>1, <1>3 DEF Limited

(* A wrong password is counted with exactly the tries of its window. *)
LEMMA LimitedTried ==
    ASSUME NEW t \in Nat, NEW s, NEW kept, NEW to, Limited(s, kept, to, t), to <= t,
           NEW all, all = {i \in kept : t - s[i] <= Window} \cup {Len(s) + 1}
    PROVE  Limited(Append(s, t), all, IF Cardinality(all) >= Limit THEN t + Lockout ELSE to, t)
<1> DEFINE r == Append(s, t)
<1>0. PICK until \in Nat :
        /\ until = IF Cardinality(all) >= Limit THEN t + Lockout ELSE to
        /\ to <= until
        /\ Cardinality(all) >= Limit => until = t + Lockout
  <2>1. to \in Nat
    BY DEF Limited
  <2>2. t + Lockout \in Nat /\ to <= t + Lockout
    BY <2>1, AuthAssumption
  <2>3. CASE Cardinality(all) >= Limit
    BY <2>2, <2>3
  <2>4. CASE ~(Cardinality(all) >= Limit)
    <3>1. to = IF Cardinality(all) >= Limit THEN t + Lockout ELSE to
      BY <2>4, Zenon
    <3>2. to <= to
      BY <2>1
    <3> QED BY <2>1, <2>4, <3>1, <3>2, Zenon
  <2> QED BY <2>3, <2>4
<1>1. s \in Seq(0..t) /\ t \in 0..t
  BY DEF Limited
<1>2. PICK n \in Nat : n = Len(s)
  BY <1>1, LenProperties
<1>3. /\ r \in Seq(0..t) /\ Len(r) = n + 1 /\ r[n + 1] = t
      /\ \A i \in 1..n : r[i] = s[i]
  BY <1>1, <1>2, AppendProperties
<1>4. DOMAIN s = 1..n /\ DOMAIN r = 1..(n + 1)
  BY <1>1, <1>2, <1>3, LenProperties
<1> HIDE DEF r
<1>5. \A i \in 1..n : s[i] \in 0..t
  BY <1>1, <1>2, ElementOfSeq
<1>8. \A i \in 1..n :
          /\ t - s[i] <= Window => i \in kept
          /\ Heavy(s, i) => s[i] + Lockout <= to
          /\ s[i] \in Nat
          /\ s[i] <= t
  <2> TAKE i \in 1..n
  <2>1. t - s[i] <= Window => i \in kept
    BY <1>4, Zenon DEF Limited
  <2>2. Heavy(s, i) => s[i] + Lockout <= to
    BY <1>4, Zenon DEF Limited
  <2>3. s[i] \in Nat /\ s[i] <= t
    BY <1>5
  <2> QED BY <2>1, <2>2, <2>3, Zenon
<1>6. \A i \in 1..n : Heavy(r, i) <=> Heavy(s, i)
  <2> TAKE i \in 1..n
  <2>1. i \in Nat /\ \A j \in 1..i : r[j] = s[j]
    BY <1>3
  <2> QED BY <2>1, HeavyStays
<1>7. Heavy(r, n + 1) <=> Cardinality(all) >= Limit
  <2>1. {j \in 1..(n + 1) : r[n + 1] - r[j] <= Window} = all
    <3>1. \A j \in 1..n : r[n + 1] - r[j] <= Window <=> j \in all
      <4>1. \A j \in 1..n : j \in all <=> j \in kept /\ t - s[j] <= Window
        BY <1>2
      <4> QED BY <1>3, <1>8, <4>1
    <3>2. n + 1 \in all /\ r[n + 1] - r[n + 1] <= Window
      BY <1>2, <1>3, AuthAssumption
    <3>3. all \subseteq 1..(n + 1)
      BY <1>2, <1>4 DEF Limited
    <3> QED BY <3>1, <3>2, <3>3
  <2> QED BY <2>1 DEF Heavy
<1>9. all \subseteq DOMAIN r /\ \A i \in DOMAIN r : t - r[i] <= Window => i \in all
  <2>1. \A i \in 1..n : t - r[i] <= Window => i \in all
    BY <1>3, <1>4, <1>5 DEF Limited
  <2> QED BY <1>2, <1>4, <2>1 DEF Limited
<1>10. \A i \in DOMAIN r : Heavy(r, i) => r[i] + Lockout <= until
  <2>1. \A i \in 1..n : Heavy(r, i) => r[i] + Lockout <= until
    <3> SUFFICES ASSUME NEW i \in 1..n, Heavy(r, i) PROVE r[i] + Lockout <= until
      OBVIOUS
    <3>1. s[i] + Lockout <= to /\ s[i] \in Nat
      BY <1>6, <1>8, Zenon
    <3>2. to \in Nat
      BY DEF Limited
    <3>3. until \in Nat /\ to <= until /\ r[i] = s[i]
      BY <1>0, <1>3
    <3> QED BY ONLY <3>1, <3>2, <3>3, AuthAssumption
  <2>2. Heavy(r, n + 1) => r[n + 1] + Lockout <= until
    <3>1. Heavy(r, n + 1) => until = t + Lockout
      BY <1>0, <1>7, Zenon
    <3>2. r[n + 1] + Lockout = t + Lockout
      BY <1>3
    <3>3. t + Lockout <= t + Lockout
      BY AuthAssumption
    <3> QED BY <3>1, <3>2, <3>3, Zenon
  <2> QED BY <1>4, <2>1, <2>2
<1>11. until > 0 => \E i \in DOMAIN r : Heavy(r, i) /\ until = r[i] + Lockout
  <2>1. CASE Cardinality(all) >= Limit
    BY <1>0, <1>3, <1>4, <1>7, <2>1
  <2>2. CASE ~(Cardinality(all) >= Limit)
    BY <1>0, <1>3, <1>4, <1>6, <2>2 DEF Limited
  <2> QED BY <2>1, <2>2
<1>12. \A i, j \in DOMAIN r : i < j /\ Heavy(r, i) => r[j] >= r[i] + Lockout
  <2>1. \A i, j \in 1..n : i < j /\ Heavy(r, i) => r[j] >= r[i] + Lockout
    BY <1>3, <1>4, <1>6 DEF Limited
  <2>2. \A i \in 1..n : Heavy(r, i) => t >= r[i] + Lockout
    <3> SUFFICES ASSUME NEW i \in 1..n, Heavy(r, i) PROVE t >= r[i] + Lockout
      OBVIOUS
    <3>1. s[i] + Lockout <= to /\ s[i] \in Nat
      BY <1>6, <1>8, Zenon
    <3>2. to \in Nat /\ to <= t /\ t \in Nat
      BY DEF Limited
    <3> QED BY ONLY <1>3, <3>1, <3>2, AuthAssumption
  <2> QED BY <1>3, <1>4, <2>1, <2>2
<1>13. Limited(r, all, until, t)
  BY <1>3, <1>9, <1>10, <1>11, <1>12 DEF Limited
<1> QED BY <1>0, <1>13 DEF r

(* Nobody has tried anything yet. *)
LEMMA AuthInit0 == AuthInit => AuthInv
<1> SUFFICES ASSUME AuthInit PROVE AuthInv
  OBVIOUS
<1>1. << >> \in Seq(0..0) /\ << >> \in Seq(Nat) /\ DOMAIN << >> = {}
  BY EmptySeq, LenProperties
<1>2. now \in 0..Horizon /\ now = 0
  BY AuthAssumption DEF AuthInit
<1>3. \A c \in Clients : Limited(tries[c], failures[c], lockedTo[c], now)
  BY <1>1, <1>2 DEF AuthInit, Limited
<1> QED BY <1>1, <1>2, <1>3 DEF AuthInit, AuthInv

(* One client's request leaves the other clients alone. *)
LEMMA AuthOne ==
    ASSUME AuthInv, NEW c \in Clients, NEW s \in Seq(Nat), NEW kept \in SUBSET Nat, NEW to \in Nat,
           tries' = [tries EXCEPT ![c] = s], failures' = [failures EXCEPT ![c] = kept],
           lockedTo' = [lockedTo EXCEPT ![c] = to], now' = now, Limited(s, kept, to, now)
    PROVE  AuthInv'
<1>1. /\ tries' \in [Clients -> Seq(Nat)] /\ failures' \in [Clients -> SUBSET Nat]
      /\ lockedTo' \in [Clients -> Nat]
  BY DEF AuthInv
<1>2. \A d \in Clients : Limited(tries'[d], failures'[d], lockedTo'[d], now')
  <2> TAKE d \in Clients
  <2>1. CASE d = c
    <3>1. tries'[d] = s /\ failures'[d] = kept /\ lockedTo'[d] = to
      BY <2>1 DEF AuthInv
    <3> QED BY <3>1
  <2>2. CASE d # c
    <3>1. tries'[d] = tries[d] /\ failures'[d] = failures[d] /\ lockedTo'[d] = lockedTo[d]
      BY <2>2 DEF AuthInv
    <3> QED BY <3>1 DEF AuthInv
  <2> QED BY <2>1, <2>2
<1> QED BY <1>1, <1>2 DEF AuthInv

(* No request and no passing of time disturbs what the limiter knows. *)
LEMMA AuthInvStep == AuthInv /\ [AuthNext]_authVars => AuthInv'
<1> SUFFICES ASSUME AuthInv, [AuthNext]_authVars PROVE AuthInv'
  OBVIOUS
<1>0. now \in Nat /\ \A c \in Clients : Limited(tries[c], failures[c], lockedTo[c], now)
  BY AuthAssumption DEF AuthInv
<1>1. CASE UNCHANGED authVars
  BY <1>1 DEF authVars, AuthInv
<1>2. CASE AuthTick
  <2>1. now' \in 0..Horizon /\ now' = now + 1 /\ now' \in Nat
    BY <1>0, <1>2, AuthAssumption DEF AuthTick
  <2>2. \A c \in Clients : Limited(tries[c], failures[c], lockedTo[c], now')
    BY <1>0, <2>1, LimitedPruned
  <2> QED BY <1>2, <2>1, <2>2 DEF AuthTick, AuthInv
<1>3. ASSUME NEW c \in Clients, Refuse(c)
      PROVE  AuthInv'
  <2>1. Kept(c) \subseteq failures[c]
        /\ \A i \in failures[c] : now - tries[c][i] <= Window => i \in Kept(c)
    BY DEF Kept
  <2>2. Limited(tries[c], Kept(c), lockedTo[c], now)
    BY <1>0, <2>1, LimitedPruned
  <2>3. tries[c] \in Seq(Nat) /\ Kept(c) \in SUBSET Nat /\ lockedTo[c] \in Nat
    BY <2>1 DEF AuthInv
  <2>4. /\ tries' = [tries EXCEPT ![c] = tries[c]]
        /\ lockedTo' = [lockedTo EXCEPT ![c] = lockedTo[c]]
        /\ failures' = [failures EXCEPT ![c] = Kept(c)] /\ now' = now
    BY <1>3 DEF Refuse, AuthInv
  <2> QED BY <2>2, <2>3, <2>4, AuthOne
<1>4. ASSUME NEW c \in Clients, RightPassword(c)
      PROVE  AuthInv'
  <2>1. << >> \in Seq(0..now) /\ << >> \in Seq(Nat) /\ DOMAIN << >> = {}
    BY EmptySeq, LenProperties
  <2>2. PICK kept \in SUBSET Nat, to \in Nat : kept = {} /\ to = 0
    OBVIOUS
  <2>3. Limited(<< >>, kept, to, now)
    BY <2>1, <2>2 DEF Limited
  <2>4. /\ tries' = [tries EXCEPT ![c] = << >>] /\ failures' = [failures EXCEPT ![c] = kept]
        /\ lockedTo' = [lockedTo EXCEPT ![c] = to] /\ now' = now
    BY <1>4, <2>2 DEF RightPassword
  <2> QED BY <2>1, <2>3, <2>4, AuthOne
<1>5. ASSUME NEW c \in Clients, WrongPassword(c)
      PROVE  AuthInv'
  <2> DEFINE all == Kept(c) \cup {Len(tries[c]) + 1}
             to == IF Cardinality(all) >= Limit THEN now + Lockout ELSE lockedTo[c]
             s == Append(tries[c], now)
  <2>1. tries[c] \in Seq(Nat) /\ failures[c] \in SUBSET Nat /\ lockedTo[c] \in Nat
    BY DEF AuthInv
  <2>2. lockedTo[c] <= now
    BY <1>0, <1>5, <2>1 DEF WrongPassword, Locked
  <2>3. all = {i \in failures[c] : now - tries[c][i] <= Window} \cup {Len(tries[c]) + 1}
    BY DEF Kept
  <2>4. s \in Seq(Nat) /\ all \in SUBSET Nat /\ to \in Nat
    <3>1. Len(tries[c]) \in Nat /\ Append(tries[c], now) \in Seq(Nat)
      BY <1>0, <2>1, LenProperties, AppendProperties
    <3> QED BY <1>0, <2>1, <2>3, <3>1, AuthAssumption
  <2>5. /\ tries' = [tries EXCEPT ![c] = s] /\ failures' = [failures EXCEPT ![c] = all]
        /\ lockedTo' = [lockedTo EXCEPT ![c] = to] /\ now' = now
    BY <1>5 DEF WrongPassword
  <2> HIDE DEF all
  <2>6. Limited(s, all, to, now)
    BY <1>0, <2>2, <2>3, LimitedTried
  <2> HIDE DEF s, to
  <2> QED BY <2>4, <2>5, <2>6, AuthOne
<1> QED BY <1>1, <1>2, <1>3, <1>4, <1>5 DEF AuthNext

(* For any limit, window and lockout, a client is locked out exactly when, and for
   as long as, the record of its tries demands, and makes no try meanwhile. *)
THEOREM LockoutTheorem == AuthSpec => []LockoutSound
<1>1. AuthInv => LockoutSound
  <2> SUFFICES ASSUME AuthInv PROVE LockoutSound
    OBVIOUS
  <2>1. \A c \in Clients : \A i : TooMany(c, i) <=> Heavy(tries[c], i)
    BY DEF TooMany, Heavy
  <2>2. AuthTypeOK
    BY DEF AuthTypeOK, AuthInv, Limited
  <2>3. LockedExactly
    <3> SUFFICES ASSUME NEW c \in Clients
                 PROVE  Locked(c) <=> \E i \in DOMAIN tries[c] :
                          TooMany(c, i) /\ now < tries[c][i] + Lockout
      BY DEF LockedExactly
    <3>1. Limited(tries[c], failures[c], lockedTo[c], now) /\ now \in Nat /\ lockedTo[c] \in Nat
      BY AuthAssumption DEF AuthInv
    <3>2. \A i \in DOMAIN tries[c] : tries[c][i] \in Nat
      BY ElementOfSeq, LenProperties DEF AuthInv
    <3>3. ASSUME lockedTo[c] > now
          PROVE  \E i \in DOMAIN tries[c] : TooMany(c, i) /\ now < tries[c][i] + Lockout
      <4>1. lockedTo[c] > 0
        BY <3>1, <3>3
      <4>2. PICK i \in DOMAIN tries[c] : Heavy(tries[c], i) /\ lockedTo[c] = tries[c][i] + Lockout
        BY <3>1, <4>1, Zenon DEF Limited
      <4> QED BY <2>1, <3>3, <4>2
    <3>4. ASSUME NEW i \in DOMAIN tries[c], TooMany(c, i), now < tries[c][i] + Lockout
          PROVE  lockedTo[c] > now
      <4>1. tries[c][i] + Lockout <= lockedTo[c]
        BY <2>1, <3>1, <3>4, Zenon DEF Limited
      <4> QED BY <3>1, <3>2, <3>4, <4>1, AuthAssumption
    <3> QED BY <3>3, <3>4 DEF Locked
  <2>4. NoTryWhileLocked
    BY <2>1 DEF NoTryWhileLocked, AuthInv, Limited
  <2> QED BY <2>2, <2>3, <2>4 DEF LockoutSound
<1> QED BY <1>1, AuthInit0, AuthInvStep, PTL DEF AuthSpec

-----------------------------------------------------------------------------
(* The terms of an order: arithmetic. *)

\* Integer division by a positive number, as a remainder below the divisor.
LEMMA DivIs ==
    ASSUME NEW n \in Int, NEW d \in Nat \ {0}
    PROVE  /\ n \div d \in Int /\ (n \div d) * d \in Int
           /\ (n \div d) * d <= n /\ n < (n \div d) * d + d
           /\ n >= 0 => n \div d >= 0
<1>1. n \div d \in Int /\ (n % d) \in 0..d - 1 /\ n = d * (n \div d) + (n % d)
  OBVIOUS
<1>2. PICK q \in Int : q = n \div d
  BY <1>1
<1>3. q * d \in Int /\ d * q = q * d
  OBVIOUS
<1>4. q * d <= n /\ n < q * d + d
  BY <1>1, <1>2, <1>3
<1>5. n >= 0 => q >= 0
  <2> SUFFICES ASSUME n >= 0, q < 0 PROVE FALSE
    OBVIOUS
  <2>1. q + 1 <= 0
    BY <1>2
  <2>2. (q + 1) * d <= 0
    BY <2>1
  <2>3. (q + 1) * d = q * d + d
    OBVIOUS
  <2> QED BY <1>4, <2>2, <2>3
<1> QED BY <1>1, <1>2, <1>3, <1>4, <1>5

\* A whole divisor more in the dividend is at least one more in the quotient.
LEMMA DivGrows ==
    ASSUME NEW a \in Int, NEW b \in Int, NEW d \in Nat \ {0}
    PROVE  /\ a <= b => a \div d <= b \div d
           /\ a + d <= b => a \div d < b \div d
<1>1. PICK p \in Int : p = a \div d
  BY DivIs
<1>2. PICK q \in Int : q = b \div d
  BY DivIs
<1>3. p * d <= a /\ a < p * d + d /\ q * d <= b /\ b < q * d + d
  BY <1>1, <1>2, DivIs
<1>4. ASSUME a <= b, q < p PROVE FALSE
  <2>1. q + 1 <= p
    BY <1>4
  <2>2. (q + 1) * d <= p * d
    BY <2>1
  <2>3. (q + 1) * d = q * d + d
    OBVIOUS
  <2> QED BY <1>3, <1>4, <2>2, <2>3
<1>5. ASSUME a + d <= b, q <= p PROVE FALSE
  <2>1. q * d <= p * d
    BY <1>5
  <2> QED BY <1>3, <1>5, <2>1
<1> QED BY <1>1, <1>2, <1>4, <1>5

\* What is floored stays below, and keeps its order.
LEMMA FloorIs ==
    ASSUME NEW n \in Int, NEW m \in Int, NEW step \in Nat \ {0}
    PROVE  /\ FloorTo(n, step) \in Int /\ FloorTo(n, step) <= n
           /\ n >= 0 => FloorTo(n, step) >= 0
           /\ n <= m => FloorTo(n, step) <= FloorTo(m, step)
<1>1. PICK p \in Int : p = n \div step
  BY DivIs
<1>2. PICK q \in Int : q = m \div step
  BY DivIs
<1>3. p * step \in Int /\ p * step <= n
  BY <1>1, DivIs
<1>4. n >= 0 => p >= 0
  BY <1>1, DivIs
<1>5. p >= 0 => p * step >= 0
  OBVIOUS
<1>6. n <= m => p <= q
  BY <1>1, <1>2, DivGrows
<1>7. p <= q => p * step <= q * step
  OBVIOUS
<1> QED BY <1>1, <1>2, <1>3, <1>4, <1>5, <1>6, <1>7 DEF FloorTo

\* A rounded quotient is off by half at most, and a whole more remains more.
LEMMA RoundIs ==
    ASSUME NEW n \in Int, NEW m \in Int, NEW d \in Nat \ {0}
    PROVE  /\ Round(n, d) \in Int
           /\ 2 * d * Round(n, d) <= 2 * n + d
           /\ n >= 0 => Round(n, d) >= 0
           /\ n + d <= m => Round(n, d) < Round(m, d)
<1>1. 2 * n + d \in Int /\ 2 * m + d \in Int /\ 2 * d \in Nat \ {0}
  OBVIOUS
<1>2. PICK r \in Int : r = (2 * n + d) \div (2 * d)
  BY <1>1, DivIs
<1>3. r * (2 * d) <= 2 * n + d /\ (2 * n + d >= 0 => r >= 0)
  BY <1>1, <1>2, DivIs
<1>4. n + d <= m => r < (2 * m + d) \div (2 * d)
  BY <1>1, <1>2, DivGrows
<1>5. r * (2 * d) = 2 * d * r
  OBVIOUS
<1> QED BY <1>2, <1>3, <1>4, <1>5 DEF Round

LEMMA MaxOfTwo ==
    ASSUME NEW a \in Int, NEW b \in Int
    PROVE  Max({a, b}) \in {a, b} /\ Max({a, b}) >= a /\ Max({a, b}) >= b
<1>1. \E x \in {a, b} : \A y \in {a, b} : x >= y
  OBVIOUS
<1> QED BY <1>1 DEF Max

LEMMA MinOfTwo ==
    ASSUME NEW a \in Int, NEW b \in Int
    PROVE  Min({a, b}) \in {a, b} /\ Min({a, b}) <= a /\ Min({a, b}) <= b
<1>1. \E x \in {a, b} : \A y \in {a, b} : x =< y
  OBVIOUS
<1> QED BY <1>1 DEF Min

-----------------------------------------------------------------------------
(* The terms of an order: what each stage has established. *)

KeptInv ==
    /\ stage \in Stages /\ mode \in Modes
    /\ market \in [price : Prices, volatility : Volatilities, score : Sides,
                   high : BOOLEAN, fresh : BOOLEAN]
    /\ account \in [equity : Equities, free : Frees, fresh : BOOLEAN]
    /\ cap \in Caps
    /\ rules \in [tick : Ticks, step : Steps]
    /\ recorded \in Records

IntentType ==
    [side : Sides, entry : Int, stop : Int, take : Int,
     pct : 0..MaxPosition, leverage : 10..MaxLeverage]

\* There is an intent once it is decided on, unless the rules had to refuse.
IntentInv ==
    /\ intent \in IntentType
    /\ stage = "snapshot" => intent = NoIntent
    /\ stage # "snapshot" /\ intent = NoIntent =>
         market.price < 84 * Fine \/ MaxLeverage < 20 \/ MaxPosition < 3

\* What the risk check has passed, for the account it has passed it for.
CheckedInv ==
    /\ checked \in [equity : Nat, free : Nat, cap : Nat]
    /\ stage \in {"risk", "execute", "placed"} =>
         /\ intent.side # "HOLD" /\ Geometry(intent)
         /\ checked.cap = 0 \/ Notional(intent, checked.equity) <= 1000 * checked.cap
         /\ Margin(intent, checked.equity) <= 100 * checked.free

\* What is sent is the checked intent, rounded.
PlacedInv ==
    /\ placed \in [price : Nat, quantity : Nat, leverage : Nat, stop : Nat, take : Nat]
    /\ Sent =>
         /\ placed.price = OnTick(intent.entry) /\ placed.quantity = OnStep(Quantity)
         /\ placed.leverage = Synced /\ ~Conflict
    /\ stage = "placed" =>
         placed.stop = StopOnTick(intent.stop) /\ placed.take = StopOnTick(intent.take)

TermsInv == KeptInv /\ IntentInv /\ CheckedInv /\ PlacedInv

-----------------------------------------------------------------------------
(* The terms of an order: the rules' intent. *)

\* What the market, the account and the grid are made of.
LEMMA KeptTypes ==
    ASSUME KeptInv
    PROVE  /\ market.price \in Nat \ {0} /\ market.volatility \in Nat
           /\ account.equity \in Nat /\ account.free \in Nat /\ cap \in Nat
           /\ rules.tick \in Nat \ {0} /\ rules.step \in Nat \ {0}
<1>1. /\ Prices \subseteq Nat \ {0} /\ Volatilities \subseteq Nat
      /\ Equities \subseteq Nat /\ Frees \subseteq Nat /\ Caps \subseteq Nat
      /\ Ticks \subseteq Nat \ {0} /\ Steps \subseteq Nat \ {0}
  BY TermsAssumption
<1>2. market.price \in Prices /\ market.volatility \in Volatilities
  BY DEF KeptInv
<1>3. account.equity \in Equities /\ account.free \in Frees /\ cap \in Caps
  BY DEF KeptInv
<1>4. rules.tick \in Ticks /\ rules.step \in Steps
  BY DEF KeptInv
<1> QED BY <1>1, <1>2, <1>3, <1>4

\* The stop distance of the rules is a number from 24 to 70.
LEMMA DistanceIs ==
    ASSUME KeptInv
    PROVE  StopDistance \in 24..70
<1>1. market.volatility \in Nat
  BY KeptTypes
<1>2. (market.volatility * 144) \div 100 \in Int
  BY <1>1
<1>3. PICK v \in Int : v = (market.volatility * 144) \div 100
  BY <1>2
<1>4. Min({70, v}) \in Int /\ Min({70, v}) <= 70
  BY MinOfTwo
<1>5. PICK w \in Int : w = Min({70, v}) /\ w <= 70
  BY <1>4
<1>6. Max({24, w}) \in {24, w} /\ Max({24, w}) >= 24
  BY MaxOfTwo
<1> QED BY <1>3, <1>5, <1>6 DEF StopDistance

\* The rules' prices are whole cents, and for a price of 84 cents or more they
\* differ when they should.
LEMMA RulePrices ==
    ASSUME KeptInv, NEW a \in Int, NEW b \in Int
    PROVE  /\ OfPrice(a) \in Int
           /\ market.price >= 84 * Fine /\ a + 480 <= b => OfPrice(a) < OfPrice(b)
           /\ market.price >= 84 * Fine => OfPrice(0) > 0
<1>1. PICK p \in Nat \ {0} : p = market.price
  BY KeptTypes
<1>2. PICK f \in Nat \ {0} : f = Fine
  BY TermsAssumption
<1>3. 40000 * f \in Nat \ {0}
  BY <1>2
<1>4. p * (40000 + a) \in Int /\ p * (40000 + b) \in Int /\ p * (40000 + 0) \in Int
  BY <1>1
<1>5. Round(p * (40000 + a), 40000 * f) \in Int
  BY <1>3, <1>4, RoundIs
<1>6. ASSUME p >= 84 * f, a + 480 <= b
      PROVE  Round(p * (40000 + a), 40000 * f) < Round(p * (40000 + b), 40000 * f)
  <2>1. PICK c \in Nat : b = a + 480 + c
    BY <1>6
  <2>2. p * (40000 + b) = p * (40000 + a) + 480 * p + p * c
    BY <2>1
  <2>3. p * c >= 0
    BY <2>1
  <2>4. p * (40000 + a) + 40000 * f <= p * (40000 + b)
    BY <1>4, <1>6, <2>2, <2>3
  <2> QED BY <1>3, <1>4, <2>4, RoundIs
<1>7. ASSUME p >= 84 * f PROVE Round(p * (40000 + 0), 40000 * f) > 0
  <2>1. 0 + 40000 * f <= p * (40000 + 0)
    BY <1>7
  <2>2. Round(0, 40000 * f) \in Int /\ Round(0, 40000 * f) >= 0
    BY <1>3, RoundIs
  <2>3. Round(0, 40000 * f) < Round(p * (40000 + 0), 40000 * f)
    BY <1>3, <1>4, <2>1, RoundIs
  <2>4. Round(p * (40000 + 0), 40000 * f) \in Int
    BY <1>3, <1>4, RoundIs
  <2> QED BY <2>2, <2>3, <2>4
<1> QED BY <1>1, <1>2, <1>5, <1>6, <1>7 DEF OfPrice, Rounded

\* A valid intent of the rules has its type, and is one.
LEMMA RulesAnswer ==
    ASSUME KeptInv
    PROVE  /\ Valid(RuleIntent) => RuleIntent \in IntentType
           /\ market.price >= 84 * Fine => RuleIntent # NoIntent
           /\ market.price >= 84 * Fine /\ MaxLeverage >= 20 /\ MaxPosition >= 3 => Valid(RuleIntent)
<1>1. PICK d \in 24..70 : d = StopDistance
  BY DistanceIs
<1>2. market.score \in Sides /\ market.high \in BOOLEAN
  BY DEF KeptInv
<1>3. \A k \in {20, 33}, t \in {1, -1} : t * k * d \in Int /\ -t * k * d \in Int
  BY <1>1
<1>4. market.price \in Int /\ Fine \in Int
  BY KeptTypes, TermsAssumption
<1>5. \A a \in Int : OfPrice(a) \in Int
  BY RulePrices
<1>6. RuleIntent.side = market.score /\ RuleIntent.entry = OfPrice(0)
  BY DEF RuleIntent
<1>7. RuleIntent.pct \in {0, 3} /\ RuleIntent.leverage \in {10, 20}
  BY DEF RuleIntent
<1>8. ASSUME Valid(RuleIntent) PROVE RuleIntent \in IntentType
  <2>1. RuleIntent.pct \in 0..MaxPosition /\ RuleIntent.leverage \in 10..MaxLeverage
    BY <1>8 DEF Valid
  <2>2. RuleIntent.stop \in Int /\ RuleIntent.take \in Int
    BY <1>1, <1>2, <1>5 DEF RuleIntent, Sides
  <2>3. RuleIntent = [side |-> RuleIntent.side, entry |-> RuleIntent.entry,
                      stop |-> RuleIntent.stop, take |-> RuleIntent.take,
                      pct |-> RuleIntent.pct, leverage |-> RuleIntent.leverage]
    BY DEF RuleIntent
  <2> QED BY <1>2, <1>5, <1>6, <2>1, <2>2, <2>3 DEF IntentType
<1>9. ASSUME market.price >= 84 * Fine PROVE RuleIntent # NoIntent
  <2>1. OfPrice(0) > 0
    BY <1>9, RulePrices
  <2>2. NoIntent.entry = 0
    BY DEF NoIntent
  <2> QED BY <1>6, <2>1, <2>2
<1>10. ASSUME market.price >= 84 * Fine, MaxLeverage >= 20, MaxPosition >= 3
       PROVE  Valid(RuleIntent)
  <2>1. RuleIntent.pct \in 0..MaxPosition /\ RuleIntent.leverage \in 10..MaxLeverage
    BY <1>7, <1>10, TermsAssumption
  <2>2. CASE market.score = "BUY"
    <3>1. RuleIntent.stop = OfPrice(-20 * d) /\ RuleIntent.take = OfPrice(33 * d)
      BY <1>1, <2>2 DEF RuleIntent
    <3>2. OfPrice(-20 * d) < OfPrice(0) /\ OfPrice(0) < OfPrice(33 * d)
      <4>1. -20 * d \in Int /\ 33 * d \in Int /\ -20 * d + 480 <= 0 /\ 0 + 480 <= 33 * d
        BY <1>1
      <4> QED BY <1>10, <4>1, RulePrices
    <3> QED BY <1>6, <2>1, <2>2, <3>1, <3>2 DEF Valid, Ordered
  <2>3. CASE market.score = "SELL"
    <3>1. RuleIntent.stop = OfPrice(20 * d) /\ RuleIntent.take = OfPrice(-33 * d)
      BY <1>1, <2>3 DEF RuleIntent
    <3>2. OfPrice(-33 * d) < OfPrice(0) /\ OfPrice(0) < OfPrice(20 * d)
      <4>1. -33 * d \in Int /\ 20 * d \in Int /\ -33 * d + 480 <= 0 /\ 0 + 480 <= 20 * d
        BY <1>1
      <4> QED BY <1>10, <4>1, RulePrices
    <3> QED BY <1>6, <2>1, <2>3, <3>1, <3>2 DEF Valid, Ordered
  <2>4. CASE market.score = "HOLD"
    BY <1>6, <2>1, <2>4 DEF Valid
  <2> QED BY <1>2, <2>2, <2>3, <2>4 DEF Sides
<1> QED BY <1>8, <1>9, <1>10

-----------------------------------------------------------------------------
(* The terms of an order: the steps. *)

LEMMA TermsStart == TermsInit => TermsInv
<1> SUFFICES ASSUME TermsInit PROVE TermsInv
  OBVIOUS
<1>1. KeptInv
  BY DEF TermsInit, KeptInv, Stages
<1>2. NoIntent \in IntentType
  BY TermsAssumption DEF NoIntent, IntentType, Sides
<1>3. IntentInv
  BY <1>2 DEF TermsInit, IntentInv
<1>4. CheckedInv
  BY DEF TermsInit, CheckedInv
<1>5. PlacedInv
  BY DEF TermsInit, PlacedInv, NotPlaced, Sent
<1> QED BY <1>1, <1>3, <1>4, <1>5 DEF TermsInv

LEMMA DecideKeeps == ASSUME TermsInv, Decide PROVE TermsInv'
<1>1. KeptInv /\ KeptInv'
  BY DEF TermsInv, KeptInv, Decide, Stages
<1>2. stage = "snapshot" /\ intent = NoIntent /\ UNCHANGED market
  BY DEF TermsInv, IntentInv, Decide
<1>3. IntentInv'
  <2>1. CASE \E i \in AiIntents : Valid(i) /\ intent' = InCents(i) /\ stage' = "intent"
    <3>1. PICK i \in AiIntents : Valid(i) /\ intent' = InCents(i) /\ stage' = "intent"
      BY <2>1
    <3>2. i \in [side : Sides, entry : Int \ {0}, stop : Int, take : Int, pct : Int, leverage : Int]
      BY TermsAssumption DEF Sides
    <3>3. i.pct \in 0..MaxPosition /\ i.leverage \in 10..MaxLeverage
      BY <3>1 DEF Valid
    <3>4. CASE i.side = "HOLD"
      <4>1. InCents(i) = [side |-> "HOLD", entry |-> i.entry, stop |-> i.entry, take |-> i.entry,
                          pct |-> 0, leverage |-> 10]
        BY <3>2, <3>4 DEF InCents
      <4>2. InCents(i) \in IntentType
        BY <3>2, <4>1, TermsAssumption DEF IntentType, Sides
      <4>3. InCents(i) # NoIntent
        BY <3>2, <4>1 DEF NoIntent
      <4> QED BY <3>1, <4>2, <4>3 DEF IntentInv
    <3>5. CASE i.side # "HOLD"
      <4>1. InCents(i) = [side |-> i.side, entry |-> Round(i.entry, Fine),
                          stop |-> Round(i.stop, Fine), take |-> Round(i.take, Fine),
                          pct |-> i.pct, leverage |-> i.leverage]
        BY <3>2, <3>5 DEF InCents
      <4>2. /\ Round(i.entry, Fine) \in Int /\ Round(i.stop, Fine) \in Int
            /\ Round(i.take, Fine) \in Int
        <5>1. i.entry \in Int /\ i.stop \in Int /\ i.take \in Int /\ Fine \in Nat \ {0}
          BY <3>2, TermsAssumption
        <5> QED BY <5>1, RoundIs
      <4>3. InCents(i) \in IntentType
        BY <3>2, <3>3, <4>1, <4>2 DEF IntentType
      <4>4. InCents(i) # NoIntent
        BY <3>5, <4>1 DEF NoIntent
      <4> QED BY <3>1, <4>3, <4>4 DEF IntentInv
    <3> QED BY <3>4, <3>5
  <2>2. CASE Valid(RuleIntent) /\ intent' = RuleIntent /\ stage' = "intent"
    <3>1. market.price \in Int /\ Fine \in Int
      BY <1>1, KeptTypes, TermsAssumption
    <3>2. RuleIntent = NoIntent => market.price < 84 * Fine
      BY <1>1, <3>1, RulesAnswer
    <3>3. RuleIntent \in IntentType
      BY <1>1, <2>2, RulesAnswer
    <3> QED BY <1>2, <2>2, <3>2, <3>3 DEF IntentInv
  <2>3. CASE ~Valid(RuleIntent) /\ UNCHANGED intent /\ stage' = "refused"
    <3>1. market.price \in Int /\ Fine \in Int /\ MaxLeverage \in Int /\ MaxPosition \in Int
      BY <1>1, KeptTypes, TermsAssumption
    <3>2. market.price < 84 * Fine \/ MaxLeverage < 20 \/ MaxPosition < 3
      BY <1>1, <2>3, <3>1, RulesAnswer
    <3>3. intent \in IntentType
      BY DEF TermsInv, IntentInv
    <3> QED BY <1>2, <2>3, <3>2, <3>3 DEF IntentInv
  <2> QED BY <2>1, <2>2, <2>3 DEF Decide
<1>4. stage' \in {"intent", "refused"} /\ UNCHANGED <<checked, placed>>
  BY DEF Decide
<1>5. CheckedInv'
  BY <1>4 DEF TermsInv, CheckedInv
<1>6. PlacedInv'
  BY <1>4 DEF TermsInv, PlacedInv, Sent
<1> QED BY <1>1, <1>3, <1>5, <1>6 DEF TermsInv

LEMMA CheckKeeps == ASSUME TermsInv, RiskCheck PROVE TermsInv'
<1>1. KeptInv /\ KeptInv'
  BY DEF TermsInv, KeptInv, RiskCheck, Stages
<1>2. UNCHANGED <<intent, market, placed>> /\ stage = "intent" /\ stage' \in {"risk", "refused"}
  BY DEF RiskCheck
<1>3. IntentInv'
  BY <1>2 DEF TermsInv, IntentInv
<1>4. PlacedInv'
  BY <1>2 DEF TermsInv, PlacedInv, Sent
<1>5. CheckedInv'
  <2>1. CASE intent.side # "HOLD" /\ RiskPasses(intent)
    <3>1. stage' = "risk" /\ checked' = [equity |-> Equity, free |-> account.free, cap |-> cap]
      BY <2>1 DEF RiskCheck
    <3>2. Equity \in Nat /\ account.free \in Nat /\ cap \in Nat
      BY <1>1, KeptTypes, TermsAssumption DEF Equity
    <3>3. /\ cap = 0 \/ Notional(intent, Equity) <= 1000 * cap
          /\ Margin(intent, Equity) <= 100 * account.free
          /\ Geometry(intent)
      BY <2>1 DEF RiskPasses
    <3>4. checked'.equity = Equity /\ checked'.free = account.free /\ checked'.cap = cap
      BY <3>1
    <3>5. checked' \in [equity : Nat, free : Nat, cap : Nat]
      BY <3>1, <3>2
    <3> HIDE DEF Geometry
    <3> QED BY <1>2, <2>1, <3>3, <3>4, <3>5 DEF CheckedInv, Notional, Margin, Geometry, Ordered, Reward, Risk
  <2>2. CASE ~(intent.side # "HOLD" /\ RiskPasses(intent))
    BY <2>2 DEF RiskCheck, TermsInv, CheckedInv
  <2> QED BY <2>1, <2>2
<1> QED BY <1>1, <1>3, <1>4, <1>5 DEF TermsInv

LEMMA MeanwhileKeeps == ASSUME TermsInv, Meanwhile PROVE TermsInv'
<1>1. stage \in {"intent", "risk"} /\ UNCHANGED <<stage, intent, checked, rules, recorded, placed, mode>>
  BY DEF Meanwhile
<1>2. KeptInv' /\ market'.price = market.price
  <2>1. CASE market' = [market EXCEPT !.fresh = FALSE] /\ UNCHANGED <<account, cap>>
    BY <1>1, <2>1 DEF TermsInv, KeptInv
  <2>2. CASE account' = [account EXCEPT !.fresh = FALSE] /\ UNCHANGED <<market, cap>>
    BY <1>1, <2>2 DEF TermsInv, KeptInv
  <2>3. CASE cap' \in Caps /\ UNCHANGED <<market, account>>
    BY <1>1, <2>3 DEF TermsInv, KeptInv
  <2> QED BY <2>1, <2>2, <2>3 DEF Meanwhile
<1>3. IntentInv'
  BY <1>1, <1>2 DEF TermsInv, IntentInv
<1>4. CheckedInv'
  BY <1>1 DEF TermsInv, CheckedInv, Notional, Margin, Geometry, Ordered, Reward, Risk
<1>5. PlacedInv'
  BY <1>1 DEF TermsInv, PlacedInv, Sent
<1> QED BY <1>2, <1>3, <1>4, <1>5 DEF TermsInv

\* What is computed from a checked intent is a number.
LEMMA TermsAreNumbers ==
    ASSUME TermsInv, stage \in {"risk", "execute", "placed"}
    PROVE  /\ intent.entry \in Nat \ {0} /\ intent.stop \in Nat \ {0} /\ intent.take \in Nat \ {0}
           /\ Notional(intent, checked.equity) \in Nat
           /\ Quantity \in Nat /\ OnStep(Quantity) \in Nat /\ OnTick(intent.entry) \in Nat
           /\ Synced \in Nat
           /\ StopOnTick(intent.stop) \in Nat /\ StopOnTick(intent.take) \in Nat
<1>1. intent \in IntentType
  BY DEF TermsInv, IntentInv
<1>2. /\ intent.entry \in Int /\ intent.stop \in Int /\ intent.take \in Int
      /\ intent.pct \in Nat /\ intent.leverage \in Nat /\ intent.leverage >= 10
  BY <1>1, TermsAssumption DEF IntentType
<1>3. intent.entry \in Nat \ {0} /\ intent.stop \in Nat \ {0} /\ intent.take \in Nat \ {0}
  BY <1>2 DEF TermsInv, CheckedInv, Geometry, Ordered
<1>4. PICK e \in Nat, p \in Nat, l \in Nat :
         e = checked.equity /\ p = intent.pct /\ l = intent.leverage
  BY <1>2 DEF TermsInv, CheckedInv
<1>5. e * p \in Nat /\ e * p * l \in Nat
  BY <1>4
<1>6. PICK n \in Nat : n = Notional(intent, checked.equity)
  BY <1>4, <1>5 DEF Notional
<1>7. PICK h \in Nat : h = 100 * n
  OBVIOUS
<1>8. Quantity \in Nat
  <2>1. h \in Int /\ h >= 0
    OBVIOUS
  <2>2. Round(h, intent.entry) \in Int /\ Round(h, intent.entry) >= 0
    BY <1>3, <2>1, RoundIs
  <2> QED BY <1>6, <1>7, <2>2 DEF Quantity
<1>9. rules.tick \in Nat \ {0} /\ rules.step \in Nat \ {0}
  BY KeptTypes DEF TermsInv
<1>10. OnStep(Quantity) \in Nat
  BY <1>8, <1>9, FloorIs DEF OnStep
<1>11. \A q \in Nat : FloorTo(q, rules.tick) \in Nat
  BY <1>9, FloorIs
<1>12. Synced \in Nat
  <2>1. PICK t \in Int : t = intent.leverage \div 10
    BY <1>2
  <2>2. \A a, b \in Int : Min({a, b}) \in Int /\ Max({a, b}) \in Int /\ Max({a, b}) >= a
    BY MinOfTwo, MaxOfTwo
  <2>3. 1 \in Int /\ 125 \in Int
    OBVIOUS
  <2>4. Synced = Max({1, Min({125, t})})
    BY <2>1 DEF Synced
  <2>5. Min({125, t}) \in Int
    BY <2>1, <2>2, <2>3, Zenon
  <2>6. Synced \in Int /\ Synced >= 1
    BY <2>2, <2>3, <2>4, <2>5, Zenon
  <2> QED BY <2>6
<1> QED BY <1>3, <1>6, <1>8, <1>10, <1>11, <1>12 DEF OnTick, StopOnTick

LEMMA ExecuteKeeps == ASSUME TermsInv, Execute PROVE TermsInv'
<1>1. /\ UNCHANGED <<market, intent, account, cap, checked, rules, recorded, mode>>
      /\ stage = "risk" /\ stage' \in {"execute", "refused"}
  BY DEF Execute
<1>2. KeptInv'
  BY <1>1 DEF TermsInv, KeptInv, Stages
<1>3. IntentInv'
  BY <1>1 DEF TermsInv, IntentInv
<1>4. CheckedInv'
  BY <1>1 DEF TermsInv, CheckedInv, Notional, Margin, Geometry, Ordered, Reward, Risk
<1>5. PlacedInv'
  <2>1. CASE ~Conflict /\ stage' = "execute"
             /\ placed' = [NotPlaced EXCEPT !.price = OnTick(intent.entry),
                                            !.quantity = OnStep(Quantity), !.leverage = Synced]
    <3>1. placed' = [price |-> OnTick(intent.entry), quantity |-> OnStep(Quantity),
                     leverage |-> Synced, stop |-> 0, take |-> 0]
      BY <2>1 DEF NotPlaced
    <3>2. OnTick(intent.entry) \in Nat /\ OnStep(Quantity) \in Nat /\ Synced \in Nat
      BY <1>1, TermsAreNumbers
    <3>3. /\ OnTick(intent.entry)' = OnTick(intent.entry) /\ OnStep(Quantity)' = OnStep(Quantity)
          /\ Synced' = Synced /\ Conflict' = Conflict
      BY <1>1 DEF OnTick, OnStep, Quantity, Notional, Synced, Conflict, Stateful
    <3>4. placed' \in [price : Nat, quantity : Nat, leverage : Nat, stop : Nat, take : Nat]
      BY <3>1, <3>2
    <3> QED BY <1>1, <2>1, <3>1, <3>3, <3>4 DEF PlacedInv, Sent, OnTick, OnStep, Quantity, Synced, Conflict
  <2>2. CASE stage' = "refused" /\ UNCHANGED placed
    BY <2>2 DEF TermsInv, PlacedInv, Sent
  <2> QED BY <2>1, <2>2 DEF Execute
<1> QED BY <1>2, <1>3, <1>4, <1>5 DEF TermsInv

LEMMA ProtectKeeps == ASSUME TermsInv, Protect PROVE TermsInv'
<1>1. /\ UNCHANGED <<market, intent, account, cap, checked, rules, recorded, mode>>
      /\ stage = "execute" /\ stage' \in {"placed", "refused"}
      /\ placed' = [placed EXCEPT !.stop = StopOnTick(intent.stop), !.take = StopOnTick(intent.take)]
  BY DEF Protect
<1>2. KeptInv'
  BY <1>1 DEF TermsInv, KeptInv, Stages
<1>3. IntentInv'
  BY <1>1 DEF TermsInv, IntentInv
<1>4. CheckedInv'
  BY <1>1 DEF TermsInv, CheckedInv, Notional, Margin, Geometry, Ordered, Reward, Risk
<1>5. PlacedInv'
  <2>1. StopOnTick(intent.stop) \in Nat /\ StopOnTick(intent.take) \in Nat
    BY <1>1, TermsAreNumbers
  <2>2. placed \in [price : Nat, quantity : Nat, leverage : Nat, stop : Nat, take : Nat]
    BY DEF TermsInv, PlacedInv
  <2>3. placed' \in [price : Nat, quantity : Nat, leverage : Nat, stop : Nat, take : Nat]
    BY <1>1, <2>1, <2>2
  <2>4. /\ placed'.price = placed.price /\ placed'.quantity = placed.quantity
        /\ placed'.leverage = placed.leverage
        /\ placed'.stop = StopOnTick(intent.stop) /\ placed'.take = StopOnTick(intent.take)
    BY <1>1, <2>2
  <2>5. /\ placed.price = OnTick(intent.entry) /\ placed.quantity = OnStep(Quantity)
        /\ placed.leverage = Synced /\ ~Conflict
    BY <1>1 DEF TermsInv, PlacedInv, Sent
  <2>6. /\ OnTick(intent.entry)' = OnTick(intent.entry) /\ OnStep(Quantity)' = OnStep(Quantity)
        /\ Synced' = Synced /\ Conflict' = Conflict
        /\ StopOnTick(intent.stop)' = StopOnTick(intent.stop)
        /\ StopOnTick(intent.take)' = StopOnTick(intent.take)
    BY <1>1 DEF OnTick, OnStep, Quantity, Notional, Synced, Conflict, Stateful, StopOnTick
  <2> QED BY <2>3, <2>4, <2>5, <2>6 DEF PlacedInv, OnTick, OnStep, Quantity, Synced, Conflict, StopOnTick
<1> QED BY <1>2, <1>3, <1>4, <1>5 DEF TermsInv

LEMMA TermsStep == TermsInv /\ [TermsNext]_termVars => TermsInv'
<1> SUFFICES ASSUME TermsInv, [TermsNext]_termVars PROVE TermsInv'
  OBVIOUS
<1>1. CASE UNCHANGED termVars
  <2>1. UNCHANGED <<stage, market, intent, account, cap, checked, rules, recorded, placed, mode>>
    BY <1>1 DEF termVars
  <2>2. KeptInv' /\ IntentInv'
    BY <2>1 DEF TermsInv, KeptInv, IntentInv
  <2>3. CheckedInv'
    BY <2>1 DEF TermsInv, CheckedInv, Notional, Margin, Geometry, Ordered, Reward, Risk
  <2>4. PlacedInv'
    BY <2>1 DEF TermsInv, PlacedInv, Sent, OnTick, OnStep, Quantity, Notional, Synced, Conflict,
       Stateful, StopOnTick
  <2> QED BY <2>2, <2>3, <2>4 DEF TermsInv
<1> QED BY <1>1, DecideKeeps, CheckKeeps, MeanwhileKeeps, ExecuteKeeps, ProtectKeeps DEF TermsNext

-----------------------------------------------------------------------------
(* The terms of an order: what follows. *)

\* The types of the declared invariant are those of the parts above.
LEMMA TermsTypes == TermsInv => TermsTypeOK
BY DEF TermsInv, KeptInv, IntentInv, PlacedInv, IntentType, TermsTypeOK

\* Flooring to one and the same tick keeps the order of three prices.
LEMMA TermsInOrder == TermsInv => PlacedInOrder
<1> SUFFICES ASSUME TermsInv, stage = "placed" PROVE PlacedInOrder
  BY DEF PlacedInOrder
<1>1. /\ placed.price = OnTick(intent.entry)
      /\ placed.stop = StopOnTick(intent.stop) /\ placed.take = StopOnTick(intent.take)
  BY DEF TermsInv, PlacedInv, Sent
<1>2. intent.side # "HOLD" /\ Ordered(intent.side, intent.stop, intent.entry, intent.take)
  BY DEF TermsInv, CheckedInv, Geometry
<1>3. intent.entry \in Int /\ intent.stop \in Int /\ intent.take \in Int
  BY TermsAreNumbers
<1>4. \A n, m \in Int : n < m => OnTick(n) <= OnTick(m) /\ OnTick(n) \in Int
  <2>1. rules.tick \in Nat \ {0}
    BY KeptTypes DEF TermsInv
  <2> SUFFICES ASSUME NEW n \in Int, NEW m \in Int, n < m
               PROVE  OnTick(n) <= OnTick(m) /\ OnTick(n) \in Int
    OBVIOUS
  <2>2. FloorTo(n, rules.tick) <= FloorTo(m, rules.tick) /\ FloorTo(n, rules.tick) \in Int
    BY <2>1, FloorIs
  <2> QED BY <2>2 DEF OnTick
<1>5. \A p : StopOnTick(p) = OnTick(p)
  BY DEF StopOnTick, OnTick
<1> QED BY <1>1, <1>2, <1>3, <1>4, <1>5 DEF PlacedInOrder, Ordered

\* What is placed is worth at most the notional that was checked, and half a
\* unit of quantity more.
LEMMA WorthIs ==
    ASSUME TermsInv, Sent
    PROVE  2 * placed.price * placed.quantity
             <= 200 * Notional(intent, checked.equity) + intent.entry
<1>1. placed.price = OnTick(intent.entry) /\ placed.quantity = OnStep(Quantity)
  BY DEF TermsInv, PlacedInv
<1>2. PICK e \in Nat \ {0} : e = intent.entry
  BY TermsAreNumbers DEF Sent
<1>3. PICK n \in Nat : n = Notional(intent, checked.equity)
  BY TermsAreNumbers DEF Sent
<1>4. PICK p \in Nat : p = OnTick(intent.entry)
  BY TermsAreNumbers DEF Sent
<1>5. PICK q \in Nat : q = OnStep(Quantity)
  BY TermsAreNumbers DEF Sent
<1>6. PICK r \in Nat : r = Quantity
  BY TermsAreNumbers DEF Sent
<1>7. p <= e
  <2>1. rules.tick \in Nat \ {0}
    BY KeptTypes DEF TermsInv
  <2>2. FloorTo(e, rules.tick) <= e
    BY <2>1, FloorIs
  <2> QED BY <1>2, <1>4, <2>2 DEF OnTick
<1>8. q <= r
  <2>1. rules.step \in Nat \ {0}
    BY KeptTypes DEF TermsInv
  <2>2. FloorTo(r, rules.step) <= r
    BY <2>1, FloorIs
  <2> QED BY <1>5, <1>6, <2>2 DEF OnStep
<1>9. 2 * e * r <= 200 * n + e
  <2>1. PICK h \in Int : h = 100 * n
    OBVIOUS
  <2>2. 2 * e * Round(h, e) <= 2 * h + e
    BY RoundIs
  <2>3. r = Round(h, e)
    BY <1>2, <1>3, <1>6, <2>1 DEF Quantity
  <2> QED BY <2>1, <2>2, <2>3
<1>10. 2 * p * q <= 2 * e * r
  <2>1. p * q <= e * q
    BY <1>7
  <2>2. e * q <= e * r
    BY <1>8
  <2>3. p * q \in Nat /\ e * q \in Nat /\ e * r \in Nat
    OBVIOUS
  <2>4. 2 * p * q = 2 * (p * q) /\ 2 * e * r = 2 * (e * r)
    OBVIOUS
  <2> QED BY <2>1, <2>2, <2>3, <2>4
<1>11. 2 * p * q \in Nat /\ 2 * e * r \in Nat
  OBVIOUS
<1>12. 2 * p * q <= 200 * n + e
  BY <1>9, <1>10, <1>11
<1> QED BY <1>1, <1>2, <1>3, <1>4, <1>5, <1>12

LEMMA TermsWithinCap == TermsInv => PlacedWithinCap
<1> SUFFICES ASSUME TermsInv, Sent, checked.cap > 0 PROVE PlacedWithinCap
  BY DEF PlacedWithinCap
<1>1. Notional(intent, checked.equity) <= 1000 * checked.cap
  BY DEF TermsInv, CheckedInv, Sent
<1>2. Notional(intent, checked.equity) \in Nat /\ intent.entry \in Nat
  BY TermsAreNumbers DEF Sent
<1>3. checked.cap \in Nat
  BY DEF TermsInv, CheckedInv
<1>4. placed.price \in Nat /\ placed.quantity \in Nat
  BY DEF TermsInv, PlacedInv
<1>5. PICK w \in Nat : w = 2 * placed.price * placed.quantity
  BY <1>4
<1>6. w <= 200 * Notional(intent, checked.equity) + intent.entry
  BY <1>5, WorthIs
<1>7. w <= 200000 * checked.cap + intent.entry
  BY <1>1, <1>2, <1>3, <1>6
<1> QED BY <1>5, <1>7 DEF PlacedWithinCap

\* Half of the leverage that was checked is less than what the exchange is set to.
LEMMA SyncedIs ==
    ASSUME TermsInv
    PROVE  Synced \in Nat /\ intent.leverage \in Nat /\ intent.leverage < 20 * Synced
<1>1. intent.leverage \in 10..1250
  BY TermsAssumption DEF TermsInv, IntentInv, IntentType
<1>2. PICK l \in 10..1250 : l = intent.leverage
  BY <1>1
<1>3. PICK t \in Int : t = l \div 10
  OBVIOUS
<1>4. 1 <= t /\ t <= 125 /\ l < 10 * t + 10
  BY <1>3
<1>5. Min({125, t}) = t
  BY <1>4, MinOfTwo
<1>6. Max({1, t}) = t
  BY <1>4, MaxOfTwo
<1>7. Synced = t
  BY <1>2, <1>3, <1>5, <1>6, Zenon DEF Synced
<1> QED BY <1>2, <1>4, <1>7

LEMMA TermsMargin == TermsInv => MarginBounded
<1> SUFFICES ASSUME TermsInv, Sent PROVE MarginBounded
  BY DEF MarginBounded
<1>1. Margin(intent, checked.equity) <= 100 * checked.free
  BY DEF TermsInv, CheckedInv, Sent
<1>2. PICK e \in Nat, f \in Nat : e = checked.equity /\ f = checked.free
  BY DEF TermsInv, CheckedInv
<1>3. PICK p \in Nat : p = intent.pct
  BY TermsAssumption DEF TermsInv, IntentInv, IntentType
<1>4. PICK l \in Nat, s \in Nat : l = intent.leverage /\ s = Synced
  BY SyncedIs
<1>5. placed.leverage = s
  BY <1>4 DEF TermsInv, PlacedInv
<1>6. PICK g \in Nat : g = e * p
  OBVIOUS
<1>7. g <= 100 * f
  BY <1>1, <1>2, <1>3, <1>6 DEF Margin
<1>8. PICK n \in Nat : n = g * l
  OBVIOUS
<1>9. n = Notional(intent, checked.equity)
  BY <1>2, <1>3, <1>4, <1>6, <1>8 DEF Notional
<1>10. l <= 20 * s
  BY <1>4, SyncedIs
<1>11. PICK x \in Nat : x = f * s
  OBVIOUS
<1>12. n <= 2000 * x
  <2>1. g * l <= (100 * f) * l
    BY <1>7
  <2>2. (100 * f) * l <= (100 * f) * (20 * s)
    BY <1>10
  <2>3. (100 * f) * (20 * s) = 2000 * (f * s)
    OBVIOUS
  <2>4. g * l \in Nat /\ (100 * f) * l \in Nat /\ (100 * f) * (20 * s) \in Nat
    OBVIOUS
  <2> QED BY <1>8, <1>11, <2>1, <2>2, <2>3, <2>4
<1>13. intent.entry \in Nat
  BY TermsAreNumbers DEF Sent
<1>14. placed.price \in Nat /\ placed.quantity \in Nat
  BY DEF TermsInv, PlacedInv
<1>15. PICK w \in Nat : w = 2 * placed.price * placed.quantity
  BY <1>14
<1>16. w <= 200 * n + intent.entry
  BY <1>9, <1>15, WorthIs
<1>17. w < 400000 * x + intent.entry + 1
  BY <1>12, <1>13, <1>16
<1>18. 400000 * f * s = 400000 * (f * s)
  OBVIOUS
<1> QED BY <1>2, <1>5, <1>11, <1>15, <1>17, <1>18 DEF MarginBounded

\* An order that may be open is recorded as submitted or unknown, both of which
\* the conflict check refuses.
LEMMA TermsAlone == TermsInv => OnlyOpenOrder
<1> SUFFICES ASSUME TermsInv, Stateful, Sent PROVE OnlyOpenOrder
  BY DEF OnlyOpenOrder
<1>1. recorded.status \notin {"pending_reconcile", "submitted"} /\ recorded.venue # "UNKNOWN"
  BY DEF TermsInv, PlacedInv, Conflict
<1>2. PICK v \in VenueStatuses : recorded = [status |-> LocalStatus(v), venue |-> v]
  BY <1>1 DEF TermsInv, KeptInv, Records
<1>3. LocalStatus(v) # "submitted"
  BY <1>1, <1>2
<1>4. v \notin {"NEW", "PARTIALLY_FILLED"}
  BY <1>3 DEF LocalStatus
<1> QED BY <1>1, <1>2, <1>4 DEF OnlyOpenOrder

LEMMA TermsFollow == TermsInv => TermsSound
<1>1. TermsInv => RulesDecide
  BY DEF TermsInv, IntentInv, RulesDecide
<1> QED BY <1>1, TermsTypes, TermsInOrder, TermsWithinCap, TermsMargin, TermsAlone DEF TermsSound

\* What an order is made of (OrderTerms.TermsSound), for every price, account,
\* grid, cap and answer of the model, whatever moves between the risk check and
\* the execution: three roundings leave stop, entry and take in order, the order
\* exceeds the checked cap by at most half a unit of quantity and takes less than
\* twice the checked margin, no second entry is sent, and the rules' own intent
\* passes its validation from a price of 0.84 on.
THEOREM TermsTheorem == TermsSpec => []TermsSound
<1>1. TermsInit => TermsInv
  BY TermsStart
<1>2. TermsInv /\ [TermsNext]_termVars => TermsInv'
  BY TermsStep
<1>3. TermsInv => TermsSound
  BY TermsFollow
<1> QED BY <1>1, <1>2, <1>3, PTL DEF TermsSpec
==============================================================================
