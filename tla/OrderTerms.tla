------------------------------ MODULE OrderTerms ------------------------------
(***************************************************************************)
(* The terms of one entry on their way through src/app/server.py: from the *)
(* market snapshot to an intent, through the risk check, to the quantity,  *)
(* the prices on the exchange's grid and the protection orders.            *)
(*                                                                         *)
(* Units.  A market price counts Fine parts of a cent, an intent whole     *)
(* cents, position_pct per cent, leverage tenths.  A quantity counts       *)
(* thousandths of a coin, so that a notional, in thousandths of a USDT, is *)
(* price * quantity / 100.  Floats are taken as exact.                     *)
(***************************************************************************)
EXTENDS Integers, FiniteSets, FiniteSetsExt

CONSTANTS
    Prices, Volatilities,    \* of the market; a volatility counts tenths of a per cent
    AiIntents,               \* what the model may answer (prices in Fine parts)
    Equities, Frees,         \* of the account, in USDT
    Caps,                    \* max_order_notional_usdt; 0 is no cap
    Ticks, Steps,            \* tickSize and stepSize of the symbol
    MinNotional,
    VenueStatuses,           \* of the account's recorded order at the exchange
    Fine, MaxLeverage, MaxPosition, ConfiguredEquity

ASSUME TermsAssumption ==
    /\ Fine \in Nat \ {0} /\ MaxPosition \in Nat
    /\ MaxLeverage \in 10..1250          \* risk_config keeps it between 1 and 125
    /\ ConfiguredEquity \in Nat \ {0} /\ MinNotional \in Nat
    /\ Ticks \subseteq Nat \ {0} /\ Steps \subseteq Nat \ {0}
    /\ Prices \subseteq Nat \ {0} /\ Volatilities \subseteq Nat
    /\ Equities \subseteq Nat /\ Frees \subseteq Nat /\ Caps \subseteq Nat
    /\ AiIntents \subseteq                 \* an entry of 0 is replaced by the mark price
         [side : {"BUY", "SELL", "HOLD"}, entry : Int \ {0}, stop : Int, take : Int,
          pct : Int, leverage : Int]

VARIABLES
    stage,    \* how far the run has come
    market,   \* price, volatility, score, pressure, and is it fresh and from Binance?
    intent,
    account,  \* equity and free margin, and is the snapshot fresh?
    cap,      \* the notional cap of the configuration ...
    checked,  \* ... and the account and the cap the risk check has used
    rules,    \* the symbol's grid
    recorded, \* the account's other recorded order: its status here and at the exchange
    placed,   \* what has been sent to the exchange
    mode

termVars == <<stage, market, intent, account, cap, checked, rules, recorded, placed, mode>>

Stages == {"snapshot", "intent", "risk", "execute", "placed", "refused"}
Sides == {"BUY", "SELL", "HOLD"}
Modes == {"paper", "binance_testnet_place_order", "live_guarded"}
\* binance_local_status_for_venue_status; a submit without an answer is recorded
\* as pending_reconcile.
LocalStatus(venue) ==
    CASE venue = "FILLED" -> "filled"
      [] venue \in {"CANCELED", "EXPIRED", "EXPIRED_IN_MATCH", "REJECTED"} -> "canceled"
      [] OTHER -> "submitted"
Records == [status : {"pending_reconcile"}, venue : {"UNKNOWN"}]
           \cup {[status |-> LocalStatus(v), venue |-> v] : v \in VenueStatuses}

NoIntent == [side |-> "HOLD", entry |-> 0, stop |-> 0, take |-> 0, pct |-> 0, leverage |-> 10]
NotPlaced == [price |-> 0, quantity |-> 0, leverage |-> 0, stop |-> 0, take |-> 0]

TermsTypeOK ==
    /\ stage \in Stages /\ mode \in Modes
    /\ intent.side \in Sides /\ intent.pct \in 0..MaxPosition
    /\ intent.leverage \in 10..MaxLeverage
    /\ \A t \in {"price", "quantity", "leverage", "stop", "take"} : placed[t] \in Nat

TermsInit ==
    /\ stage = "snapshot" /\ mode \in Modes
    /\ market \in [price : Prices, volatility : Volatilities, score : Sides,
                   high : BOOLEAN, fresh : {TRUE}]
    /\ account \in [equity : Equities, free : Frees, fresh : {TRUE}]
    /\ cap \in Caps /\ checked = [equity |-> 0, free |-> 0, cap |-> 0]
    /\ rules \in [tick : Ticks, step : Steps]
    /\ recorded \in Records
    /\ intent = NoIntent /\ placed = NotPlaced

-----------------------------------------------------------------------------
(* Rounding. *)

\* round(n / d): half away from zero, as for values that are no exact ties.
Round(n, d) == (2 * n + d) \div (2 * d)

\* decimal_floor_to_step.
FloorTo(n, step) == (n \div step) * step

CeilTo(n, step) == ((n + step - 1) \div step) * step

-----------------------------------------------------------------------------
(* The intent. *)

\* In 2000ths of the price: 0.72 of the volatility, at least 1.2% and at most 3.5%.
StopDistance == Max({24, Min({70, (market.volatility * 144) \div 100})})

\* Prices of the rules, rounded to a cent; the take profit is 1.65 stops away.
Rounded(n, d) == Round(n, d)

OfPrice(parts) == Rounded(market.price * (40000 + parts), 40000 * Fine)

RuleIntent ==
    LET toward == IF market.score = "BUY" THEN 1 ELSE -1 IN
    [side |-> market.score,
     entry |-> OfPrice(0),
     stop |-> IF market.score = "HOLD" THEN OfPrice(0) ELSE OfPrice(-toward * 20 * StopDistance),
     take |-> IF market.score = "HOLD" THEN OfPrice(0) ELSE OfPrice(toward * 33 * StopDistance),
     pct |-> IF market.score = "HOLD" THEN 0 ELSE 3,
     leverage |-> IF market.high THEN 10 ELSE 20]

Ordered(side, low, entry, high) ==
    IF side = "BUY" THEN low < entry /\ entry < high ELSE high < entry /\ entry < low

Valid(i) ==
    /\ i.leverage \in 10..MaxLeverage /\ i.pct \in 0..MaxPosition
    /\ i.side # "HOLD" => Ordered(i.side, i.stop, i.entry, i.take)

\* validate_trade_intent ends with rounding; a HOLD is stripped.
InCents(i) ==
    IF i.side = "HOLD"
    THEN [i EXCEPT !.stop = i.entry, !.take = i.entry, !.pct = 0, !.leverage = 10]
    ELSE [i EXCEPT !.entry = Round(@, Fine), !.stop = Round(@, Fine), !.take = Round(@, Fine)]

\* build_trade_intent: the model's answer, or the rules when it is missing or
\* invalid; rules that are invalid themselves end the run.
Decide ==
    /\ stage = "snapshot"
    /\ \/ \E i \in AiIntents :
             Valid(i) /\ intent' = InCents(i) /\ stage' = "intent"
       \/ Valid(RuleIntent) /\ intent' = RuleIntent /\ stage' = "intent"
       \/ ~Valid(RuleIntent) /\ UNCHANGED intent /\ stage' = "refused"
    /\ UNCHANGED <<market, account, cap, checked, rules, recorded, placed, mode>>

-----------------------------------------------------------------------------
(* The risk check. *)

Stateful == mode # "paper"
Equity == IF account.equity = 0 THEN ConfiguredEquity ELSE account.equity
Notional(i, equity) == equity * i.pct * i.leverage      \* in thousandths of a USDT
Margin(i, equity) == equity * i.pct                     \* in hundredths

Reward(i) == IF i.side = "BUY" THEN i.take - i.entry ELSE i.entry - i.take
Risk(i) == IF i.side = "BUY" THEN i.entry - i.stop ELSE i.stop - i.entry

\* protection_geometry, with MIN_PROTECTION_REWARD_RISK_RATIO = 1.
Geometry(i) ==
    /\ i.stop > 0 /\ i.take > 0
    /\ Ordered(i.side, i.stop, i.entry, i.take)
    /\ Reward(i) >= Risk(i)

AccountFresh == Stateful => account.fresh /\ account.equity > 0
MarketFresh == Stateful => market.fresh

\* stateful_order_conflict_reason, for an order of the same mode: its state is
\* unknown, it may be open, or a reconcile has still to look at it.
Conflict ==
    /\ Stateful
    /\ \/ recorded.status = "pending_reconcile" \/ recorded.venue = "UNKNOWN"
       \/ recorded.status = "submitted"

RiskPasses(i) ==
    /\ i.leverage <= MaxLeverage /\ i.pct <= MaxPosition
    /\ AccountFresh /\ MarketFresh
    /\ i.side # "HOLD" =>
          /\ ~Conflict
          /\ cap = 0 \/ Notional(i, Equity) <= 1000 * cap
          /\ Margin(i, Equity) <= 100 * account.free
          /\ Geometry(i)
    /\ Stateful => ~market.high        \* only "approved", a warning is not enough

RiskCheck ==
    /\ stage = "intent"
    /\ IF intent.side # "HOLD" /\ RiskPasses(intent)
       THEN stage' = "risk" /\ checked' = [equity |-> Equity, free |-> account.free, cap |-> cap]
       ELSE stage' = "refused" /\ UNCHANGED checked
    /\ UNCHANGED <<market, intent, account, cap, rules, recorded, placed, mode>>

\* Before the execution: the snapshots age, the account moves, the cap is configured.
Meanwhile ==
    /\ stage \in {"intent", "risk"}
    /\ \/ market' = [market EXCEPT !.fresh = FALSE] /\ UNCHANGED <<account, cap>>
       \/ account' = [account EXCEPT !.fresh = FALSE] /\ UNCHANGED <<market, cap>>
       \/ cap' \in Caps /\ UNCHANGED <<market, account>>
    /\ UNCHANGED <<stage, intent, checked, rules, recorded, placed, mode>>

-----------------------------------------------------------------------------
(* Execution. *)

\* prepare_order_payload: from the account of the risk check.
Quantity == Round(100 * Notional(intent, checked.equity), intent.entry)

OnStep(q) == IF Stateful THEN FloorTo(q, rules.step) ELSE q
OnTick(p) == IF Stateful THEN FloorTo(p, rules.tick) ELSE p

\* binance_leverage_for_order: floored, between 1 and 125.
Synced == Max({1, Min({125, intent.leverage \div 10})})

FiltersPass ==
    LET q == OnStep(Quantity) p == OnTick(intent.entry) IN
    /\ q > 0 /\ p > 0 /\ p * q >= 100000 * MinNotional

\* execute_order: the recorded orders and the snapshots are looked at again.
Execute ==
    /\ stage = "risk"
    /\ IF ~Conflict /\ AccountFresh /\ MarketFresh /\ (Stateful => FiltersPass)
       THEN /\ stage' = "execute"
            /\ placed' = [NotPlaced EXCEPT !.price = OnTick(intent.entry),
                                           !.quantity = OnStep(Quantity), !.leverage = Synced]
       ELSE stage' = "refused" /\ UNCHANGED placed
    /\ UNCHANGED <<market, intent, account, cap, checked, rules, recorded, mode>>

\* Mutant: a stop price is raised to the next tick.
StopOnTickUp(p) == IF Stateful THEN CeilTo(p, rules.tick) ELSE p

\* normalize_binance_stop_price: always on the grid.
StopOnTick(p) == IF Stateful THEN FloorTo(p, rules.tick) ELSE p

Protect ==
    /\ stage = "execute"
    /\ placed' = [placed EXCEPT !.stop = StopOnTick(intent.stop), !.take = StopOnTick(intent.take)]
    /\ stage' = IF placed'.stop > 0 /\ placed'.take > 0 THEN "placed" ELSE "refused"
    /\ UNCHANGED <<market, intent, account, cap, checked, rules, recorded, mode>>

TermsNext == Decide \/ RiskCheck \/ Meanwhile \/ Execute \/ Protect

TermsSpec == TermsInit /\ [][TermsNext]_termVars

-----------------------------------------------------------------------------
Sent == stage \in {"execute", "placed"}

\* Rounding to cents, to the tick of the entry and to that of each stop never
\* turns the order of the three prices around.
PlacedInOrder ==
    stage = "placed" =>
        IF intent.side = "BUY" THEN placed.stop <= placed.price /\ placed.price <= placed.take
                               ELSE placed.take <= placed.price /\ placed.price <= placed.stop

\* What is sent is worth no more than the cap the risk check has used, but for
\* half a unit of quantity: the check is on the amount asked for, the order on a
\* rounded quantity at a rounded price.
PlacedWithinCap ==
    Sent /\ checked.cap > 0 =>
        2 * placed.price * placed.quantity <= 200000 * checked.cap + intent.entry

\* With the leverage that is set at the exchange, a whole number, the order takes
\* less than twice the free margin the check has seen.
MarginBounded ==
    Sent => 2 * placed.price * placed.quantity
              < 400000 * checked.free * placed.leverage + intent.entry + 1

\* Rules for a price of 0.84 USDT or more are never refused by their own validation,
\* unless the limits forbid the rules' own leverage of 2 or their 3 per cent.
RulesDecide ==
    stage = "refused" /\ intent = NoIntent =>
        market.price < 84 * Fine \/ MaxLeverage < 20 \/ MaxPosition < 3

\* No entry is sent beside an order of the account that may be open, whatever
\* the reconciler has made of its status.
OnlyOpenOrder ==
    Stateful /\ Sent => recorded.venue \notin {"NEW", "PARTIALLY_FILLED", "UNKNOWN"}


\* What reaches the exchange after three roundings, and after settings and rows
\* have changed since the risk check: prices in order, size and margin within what
\* was checked, no second entry, no intent of the rules lost to its validation.
TermsSound ==
    TermsTypeOK /\ PlacedInOrder /\ PlacedWithinCap /\ MarginBounded /\ RulesDecide /\ OnlyOpenOrder

-----------------------------------------------------------------------------
\* README: the geometry of what is sent offers no less reward than risk.
PlacedRewardCoversRisk ==
    stage = "placed" => Reward([intent EXCEPT !.entry = placed.price, !.take = placed.take])
                          >= Risk([intent EXCEPT !.entry = placed.price, !.stop = placed.stop])

\* The margin the order takes is what the check has seen to be free.
MarginCovered ==
    Sent => placed.price * placed.quantity <= 100000 * checked.free * placed.leverage
=============================================================================
