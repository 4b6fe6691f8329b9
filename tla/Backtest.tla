------------------------------ MODULE Backtest ------------------------------
(***************************************************************************)
(* One strategy backtest (src/app/server.py): its row, its walk over the   *)
(* candles, its trades.  A candle has a low, a close and a high; equity,   *)
(* fees and quantities are left out.  Prices are integers and percentages        *)
(* are exact: an exit price is kept in hundredths.                         *)
(***************************************************************************)
EXTENDS Integers, Sequences, FiniteSets

CONSTANTS
    CandlePrices,      \* prices of candles
    FastMa, SlowMa, Lookback,
    ThresholdPct, StopPct, TakePct,
    MaxHold      \* max_hold_bars

ASSUME BacktestAssumption ==
    /\ CandlePrices \subseteq Nat \ {0}
    /\ FastMa \in Nat \ {0} /\ SlowMa \in Nat /\ Lookback \in Nat \ {0} /\ FastMa < SlowMa
    /\ ThresholdPct \in Nat /\ StopPct \in 1..99 /\ TakePct \in 1..99
    /\ MaxHold \in Nat \ {0}

SignalTypes == {"sma_trend", "sma_reversion", "momentum", "momentum_reversion",
                "breakout", "breakout_reversion"}
Candles == {c \in [low : CandlePrices, close : CandlePrices, high : CandlePrices] :
                c.low <= c.close /\ c.close <= c.high}
Warmup == IF SlowMa > Lookback THEN SlowMa ELSE Lookback

VARIABLES
    signalType,  \* params["signal_type"]
    window,      \* the last candles before the current one
    position,    \* the open position: side, entry, age in bars
    trade,       \* the trade closed on the last bar
    test         \* the row, how far its handler is, are the trades stored?

backtestVars == <<signalType, window, position, trade, test>>

NoPosition == [side |-> "none"]
NoTrade == [side |-> "none"]
Held == position # NoPosition

BacktestTypeOK ==
    /\ signalType \in SignalTypes
    /\ window \in Seq(Candles)
    /\ position \in {NoPosition} \cup [side : {"BUY", "SELL"}, entry : CandlePrices, age : Nat]
    /\ trade \in {NoTrade} \cup [side : {"BUY", "SELL"}, entry : CandlePrices, exit : Int]
    /\ test.status \in {"running", "completed", "failed"}
    /\ test.step \in {"walk", "insert", "update", "done", "dead"}
    /\ test.stored \in BOOLEAN

BacktestInit ==
    /\ signalType \in SignalTypes
    /\ window = <<>>
    /\ position = NoPosition
    /\ trade = NoTrade
    /\ test = [status |-> "running", step |-> "walk", stored |-> FALSE]

-----------------------------------------------------------------------------
(* backtest_signal *)

LastBars(n) == SubSeq(window, Len(window) - n + 1, Len(window))

CloseSum(n) ==
    LET c == LastBars(n)
        sum[i \in 0..n] == IF i = 0 THEN 0 ELSE sum[i - 1] + c[i].close
    IN  sum[n]

\* a / b - 1 > ThresholdPct %, for positive a and b.
Above(a, b) == 100 * (a - b) > ThresholdPct * b
Below(a, b) == 100 * (b - a) > ThresholdPct * b

SmaUp == Above(CloseSum(FastMa) * SlowMa, CloseSum(SlowMa) * FastMa)
SmaDown == Below(CloseSum(FastMa) * SlowMa, CloseSum(SlowMa) * FastMa)

MomentumUp == Above(window[Len(window)].close, LastBars(Lookback)[1].close)
MomentumDown == Below(window[Len(window)].close, LastBars(Lookback)[1].close)

\* The close of the last bar is above the highest high of the last bars.
BreakoutUp ==
    \A i \in 1..Lookback : Above(window[Len(window)].close, LastBars(Lookback)[i].high)
BreakoutDown ==
    \A i \in 1..Lookback : Below(window[Len(window)].close, LastBars(Lookback)[i].low)

Up == CASE signalType \in {"sma_trend", "sma_reversion"} -> SmaUp
        [] signalType \in {"momentum", "momentum_reversion"} -> MomentumUp
        [] OTHER -> BreakoutUp
Down == CASE signalType \in {"sma_trend", "sma_reversion"} -> SmaDown
          [] signalType \in {"momentum", "momentum_reversion"} -> MomentumDown
          [] OTHER -> BreakoutDown
Reversed == signalType \in {"sma_reversion", "momentum_reversion", "breakout_reversion"}

Signal == IF Up THEN IF Reversed THEN "SELL" ELSE "BUY"
          ELSE IF Down THEN IF Reversed THEN "BUY" ELSE "SELL"
          ELSE "HOLD"

-----------------------------------------------------------------------------
(* run_strategy_backtest *)

StopPrice == IF position.side = "BUY" THEN position.entry * (100 - StopPct)
                                 ELSE position.entry * (100 + StopPct)
TakePrice == IF position.side = "BUY" THEN position.entry * (100 + TakePct)
                                 ELSE position.entry * (100 - TakePct)

StopHit(c) == IF position.side = "BUY" THEN 100 * c.low <= StopPrice ELSE 100 * c.high >= StopPrice
TakeHit(c) == IF position.side = "BUY" THEN 100 * c.high >= TakePrice ELSE 100 * c.low <= TakePrice
Opposite == {position.side, Signal} = {"BUY", "SELL"}

\* Mutant: a stop is judged by the close of the bar, and filled there.
ExitAtClose(c) ==
    IF StopHit([c EXCEPT !.low = c.close, !.high = c.close]) THEN {100 * c.close}
    ELSE IF TakeHit(c) THEN {TakePrice}
    ELSE IF position.age + 1 >= MaxHold \/ Opposite THEN {100 * c.close}
    ELSE {}

\* The price at which candle c ends the position, if it does.
Exit(c) ==
    IF StopHit(c) THEN {StopPrice}
    ELSE IF TakeHit(c) THEN {TakePrice}
    ELSE IF position.age + 1 >= MaxHold \/ Opposite THEN {100 * c.close}
    ELSE {}

Book(exit) ==
    /\ trade' = [side |-> position.side, entry |-> position.entry, exit |-> exit]
    /\ position' = NoPosition

Slide(c) ==
    window' = IF Len(window) < Warmup THEN Append(window, c) ELSE Append(Tail(window), c)

Walking == test.step = "walk" /\ test.status = "running" /\ UNCHANGED <<signalType, test>>

WarmUpBar(c) ==
    /\ Walking /\ Len(window) < Warmup
    /\ Slide(c)
    /\ UNCHANGED <<position, trade>>

\* A bar that closes the position opens none.
CloseBar(c) ==
    /\ Walking /\ Len(window) = Warmup /\ Held
    /\ \E exit \in Exit(c) : Book(exit)
    /\ Slide(c)

HoldBar(c) ==
    /\ Walking /\ Len(window) = Warmup /\ Held
    /\ Exit(c) = {}
    /\ position' = [position EXCEPT !.age = @ + 1]
    /\ trade' = NoTrade
    /\ Slide(c)

OpenBar(c) ==
    /\ Walking /\ Len(window) = Warmup /\ ~Held
    /\ position' = IF Signal = "HOLD" THEN NoPosition
                   ELSE [side |-> Signal, entry |-> c.close, age |-> 0]
    /\ trade' = NoTrade
    /\ Slide(c)

\* After the last candle an open position is closed at its close.
EndOfSample ==
    /\ test.step = "walk" /\ Len(window) = Warmup
    /\ test' = [test EXCEPT !.step = "insert"]
    /\ IF Held THEN Book(100 * window[Len(window)].close)
               ELSE trade' = NoTrade /\ UNCHANGED position
    /\ UNCHANGED <<signalType, window>>

-----------------------------------------------------------------------------
(* execute_backtest: trades, then the row; an exception fails the row. *)

TestBecomes(step, status, stored) ==
    /\ test' = [status |-> status, step |-> step, stored |-> stored]
    /\ UNCHANGED <<signalType, window, position, trade>>

InsertTrades == test.step = "insert" /\ TestBecomes("update", test.status, TRUE)

CompleteRow == test.step = "update" /\ TestBecomes("done", "completed", test.stored)

FailRow ==
    /\ test.step \in {"walk", "insert", "update"}
    /\ TestBecomes("done", "failed", test.stored)

\* The process is killed; nothing picks the row up again.
KillTest ==
    /\ test.step \in {"walk", "insert", "update"}
    /\ TestBecomes("dead", test.status, test.stored)

BacktestNext ==
    \/ \E c \in Candles : WarmUpBar(c) \/ CloseBar(c) \/ HoldBar(c) \/ OpenBar(c)
    \/ EndOfSample \/ InsertTrades \/ CompleteRow \/ FailRow \/ KillTest

BacktestSpec == BacktestInit /\ [][BacktestNext]_backtestVars

-----------------------------------------------------------------------------
\* Whatever ends a trade (stop, take, age, opposite signal, end of the sample),
\* its exit is not worse than its stop and not better than its take: bars are
\* tested by their low and high before they are used by their close.
ExitWithinStops ==
    trade # NoTrade =>
        LET stop == IF trade.side = "BUY" THEN trade.entry * (100 - StopPct)
                                          ELSE trade.entry * (100 + StopPct)
            take == IF trade.side = "BUY" THEN trade.entry * (100 + TakePct)
                                          ELSE trade.entry * (100 - TakePct)
        IN  IF trade.side = "BUY" THEN stop <= trade.exit /\ trade.exit <= take
                                  ELSE take <= trade.exit /\ trade.exit <= stop

\* No position is carried through max_hold_bars bars.
HoldBounded == Held => position.age < MaxHold

\* The bars whose high a close has to exceed contain the bar of that close, so
\* the two breakout signals never trade: a third of comparison_param_grid tests
\* strategies that cannot open a position.
BreakoutIsSilent == signalType \in {"breakout", "breakout_reversion"} => ~Held /\ trade = NoTrade

\* A completed row has its trades; a failed or an abandoned one may have them.
CompletedHasTrades == test.status = "completed" => test.stored

\* The bookkeeping of run_strategy_backtest and execute_backtest over every
\* sequence of candles: exits within the stops, positions of bounded age, breakout
\* signals that never trade, no completed row without its trades.
BacktestSound ==
    BacktestTypeOK /\ ExitWithinStops /\ HoldBounded /\ BreakoutIsSilent /\ CompletedHasTrades
=============================================================================
