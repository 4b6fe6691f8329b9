----------------------------- MODULE WalkForward -----------------------------
(***************************************************************************)
(* The walk-forward validation of the strategy (execute_walkforward in     *)
(* src/app/server.py): how the candles are cut into folds, each with the   *)
(* parameters its training window has chosen.  Candles are their indices.  *)
(***************************************************************************)
EXTENDS Integers

CONSTANTS
    Lengths,  \* how many candles the venue may return
    Warmups   \* max(slow_ma, lookback) of the sets of comparison_param_grid

ASSUME WalkAssumption ==
    /\ Lengths \subseteq {n \in Nat : n >= 160}
    /\ Warmups \subseteq 1..60

VARIABLES
    candles,  \* how many there are
    folds,    \* folds that have been run
    trained,  \* the last fold trained on the candles before this one ...
    tested    \* ... and tested on those from first to before last, warmup excluded

walkVars == <<candles, folds, trained, tested>>

WalkInit ==
    /\ candles \in Lengths
    /\ folds = 0 /\ trained = 0
    /\ tested = [first |-> 0, last |-> 0, warmup |-> 0]

-----------------------------------------------------------------------------
AtMost(a, b) == IF a <= b THEN a ELSE b
AtLeast(a, b) == IF a >= b THEN a ELSE b

TestBars == IF candles < 360 THEN 60 ELSE 80
MinTrainTarget == IF candles < 220 THEN 100 ELSE IF candles < 360 THEN 120 ELSE 180
MinTrain == AtLeast(100, AtMost(MinTrainTarget, candles - TestBars))

FoldCount == AtLeast(1, AtMost(4, (candles - MinTrain) \div TestBars))

InitialTrain == candles - FoldCount * TestBars

\* Mutant: the training window reaches to the end of the test.
FoldPeeks(w) ==
    /\ folds < FoldCount /\ folds' = folds + 1
    /\ trained' = InitialTrain + folds * TestBars + TestBars
    /\ tested' = [first |-> InitialTrain + folds * TestBars,
                  last |-> InitialTrain + folds * TestBars + TestBars, warmup |-> w]
    /\ UNCHANGED candles

\* best_params_for_candles picks a set whose warmup is w; the test begins anew
\* with its first candle.
Fold(w) ==
    /\ folds < FoldCount /\ folds' = folds + 1
    /\ trained' = InitialTrain + folds * TestBars
    /\ tested' = [first |-> trained', last |-> trained' + TestBars, warmup |-> w]
    /\ UNCHANGED candles

WalkNext == \E w \in Warmups : Fold(w)

WalkSpec == WalkInit /\ [][WalkNext]_walkVars

-----------------------------------------------------------------------------
(* What is promised of the folds. *)

\* The parameters of a fold are chosen from at least 100 candles, all of them
\* before those it is tested on, which are all there.
NoLookAhead ==
    folds > 0 => /\ 100 <= trained /\ trained <= tested.first
                 /\ tested.first < tested.last /\ tested.last <= candles

\* However the folds are counted, the last test ends with the newest candle.
TestsReachNow == folds = FoldCount => tested.last = candles

\* With 360 candles or more every fold has bars on which a trade can open.
BarsToTrade == tested.last - tested.first - tested.warmup
LongSamplesTest == folds > 0 /\ candles >= 360 => BarsToTrade > 0


\* The folds of execute_walkforward, for every length of the sample: trained on
\* the past only, up to the newest candle, and with bars to trade on.
FoldsSound == NoLookAhead /\ TestsReachNow /\ LongSamplesTest

-----------------------------------------------------------------------------
\* What does not hold: below 360 candles a fold whose training has chosen a
\* lookback of 60 is tested on no bar at all, and still counts as a fold.
EveryFoldTests == folds > 0 => BarsToTrade > 0
=============================================================================
