-------------------------------- MODULE Flatten --------------------------------
(***************************************************************************)
(* The emergency close-out of src/app/server.py: emergency_panic_stop and  *)
(* POST /api/exchange/flatten-positions cancel what is open and then close *)
(* the positions of a snapshot by market orders, while stops trigger, a    *)
(* late entry fills and another request does the same.  One symbol,        *)
(* one-way (side BOTH) or hedge mode (LONG and SHORT).                     *)
(***************************************************************************)
EXTENDS Integers

CONSTANTS
    Flatteners,  \* threads of requests that close positions
    Size,        \* the largest position
    HeldAtFirst, \* amounts held at first
    StepSize,    \* LOT_SIZE stepSize of the symbol ...
    MinQty       \* ... and its minQty

ASSUME FlattenAssumption ==
    Size \in Nat /\ HeldAtFirst \subseteq -Size..Size /\ StepSize \in Nat \ {0} /\ MinQty \in Nat

VARIABLES
    legs,      \* legs[s]: the signed amount of each position side
    stopsOpen, \* are the close-position stops open at the exchange?
    late,      \* has an entry that was on its way filled?
    flatten,   \* flatten[c]: where request c is and what it knows
    plan       \* exchange_emergency_plan_last_report, or "none"

flattenVars == <<legs, stopsOpen, late, flatten, plan>>

Legs == DOMAIN legs
Amount(n) == IF n < 0 THEN -n ELSE n
NoLegs == [s \in {} |-> 0]
Away == [at |-> "away", dry |-> FALSE, amounts |-> NoLegs, left |-> {}, failed |-> FALSE,
         cut |-> FALSE, grown |-> FALSE]

FlattenInit ==
    /\ legs \in [{"BOTH"} -> HeldAtFirst] \cup
                {p \in [{"LONG", "SHORT"} -> HeldAtFirst] : p["LONG"] >= 0 /\ p["SHORT"] <= 0}
    /\ stopsOpen = TRUE /\ late = FALSE
    /\ flatten = [c \in Flatteners |-> Away]
    /\ plan = "none"

Goes(c, record) == flatten' = [flatten EXCEPT ![c] = record]

-----------------------------------------------------------------------------
(* The requests. *)

\* emergency_panic_stop, or the route: dry_run unless asked otherwise.
AskClose(c) ==
    /\ flatten[c].at = "away"
    /\ \E place \in {"cancel", "confirm"}, dry \in BOOLEAN :
          /\ place = "cancel" => ~dry
          /\ Goes(c, [Away EXCEPT !.at = place, !.dry = dry])
    /\ UNCHANGED <<legs, stopsOpen, late, plan>>

\* cancel_all_open_exchange_orders: DELETE allOpenOrders, failures recorded; the
\* panic stop may also have been told not to.  The stops go with the rest.
CancelAllOrders(c) ==
    /\ flatten[c].at = "cancel"
    /\ stopsOpen' \in {stopsOpen, FALSE}
    /\ Goes(c, [flatten[c] EXCEPT !.at = "confirm"])
    /\ UNCHANGED <<legs, late, plan>>

\* FLATTEN_POSITIONS is asked for after the cancels; the exception of a panic
\* stop's flatten is recorded as failed.
AskConfirmation(c) ==
    /\ flatten[c].at = "confirm"
    /\ \/ Goes(c, [flatten[c] EXCEPT !.at = "sync"])
       \/ ~flatten[c].dry /\ Goes(c, [flatten[c] EXCEPT !.at = "answered", !.failed = TRUE])
    /\ UNCHANGED <<legs, stopsOpen, late, plan>>

\* sync_exchange_account_snapshot, or its failure; the nonzero positions.
ReadPositions(c) ==
    /\ flatten[c].at = "sync"
    /\ \/ Goes(c, [flatten[c] EXCEPT !.at = "orders", !.amounts = legs,
                          !.left = {s \in Legs : legs[s] # 0}])
       \/ Goes(c, [flatten[c] EXCEPT !.at = "answered", !.failed = TRUE])
    /\ UNCHANGED <<legs, stopsOpen, late, plan>>

\* decimal_floor_to_step.
CloseQuantity(n) == (Amount(n) \div StepSize) * StepSize

\* binance_flatten_position_params raises below minQty.
BigEnough(n) == CloseQuantity(n) > 0 /\ CloseQuantity(n) >= MinQty

\* Mutant: neither reduceOnly nor a position side on the order.
ClosedUnbounded(s, amount, quantity) ==
    IF amount > 0 THEN legs[s] - quantity ELSE legs[s] + quantity

\* What a close-out order of that quantity for a position read as amount leaves
\* of the position as it is now: reduceOnly, or the position side of hedge mode,
\* bounds it; an order that has nothing to reduce is refused.
Closed(s, amount, quantity) ==
    IF amount > 0
    THEN IF legs[s] - quantity >= 0 THEN legs[s] - quantity
         ELSE IF legs[s] > 0 THEN 0 ELSE legs[s]
    ELSE IF legs[s] + quantity <= 0 THEN legs[s] + quantity
         ELSE IF legs[s] < 0 THEN 0 ELSE legs[s]

\* The next position is planned and, unless this is a dry run, closed; whatever
\* is raised for it is recorded and the next one follows.
PlanFails(c, s) ==
    Goes(c, [flatten[c] EXCEPT !.left = @ \ {s}, !.failed = TRUE])

PlanSucceeds(c, s, cutShort) ==
    Goes(c, [flatten[c] EXCEPT !.left = @ \ {s}, !.cut = @ \/ cutShort])

\* The symbol's rules cannot be fetched, the quantity is too small, the order is
\* refused or never arrives.
CannotClose(c) ==
    /\ flatten[c].at = "orders"
    /\ \E s \in flatten[c].left : PlanFails(c, s)
    /\ UNCHANGED <<legs, stopsOpen, late, plan>>

\* The order is planned only.
PlanOrder(c) ==
    /\ flatten[c].at = "orders" /\ flatten[c].dry
    /\ \E s \in flatten[c].left : BigEnough(flatten[c].amounts[s]) /\ PlanSucceeds(c, s, FALSE)
    /\ UNCHANGED <<legs, stopsOpen, late, plan>>

\* The order is POSTed: it fills as far as there is a market, and the answer
\* comes or is lost.
CloseOrder(c) ==
    /\ flatten[c].at = "orders" /\ ~flatten[c].dry
    /\ \E s \in flatten[c].left :
         LET amount == flatten[c].amounts[s]
             full == Closed(s, amount, CloseQuantity(amount))
         IN  /\ BigEnough(amount) /\ full # legs[s]
             /\ \E reached \in {full, legs[s] + (full - legs[s]) \div 2} :
                  /\ legs' = [legs EXCEPT ![s] = reached]
                  /\ PlanFails(c, s) \/ PlanSucceeds(c, s, reached # full)
    /\ UNCHANGED <<stopsOpen, late, plan>>

\* exchange_emergency_plan_last_report, and the answer.
WritePlan(c) ==
    /\ flatten[c].at = "orders" /\ flatten[c].left = {}
    /\ plan' = IF flatten[c].failed THEN "failed" ELSE "planned"
    /\ Goes(c, [flatten[c] EXCEPT !.at = "answered", !.amounts = NoLegs])
    /\ UNCHANGED <<legs, stopsOpen, late>>

-----------------------------------------------------------------------------
(* The exchange meanwhile (external). *)

StopTriggers ==
    /\ stopsOpen /\ \E s \in Legs : legs[s] # 0 /\ legs' = [legs EXCEPT ![s] = 0]
    /\ UNCHANGED <<stopsOpen, late, flatten, plan>>

\* An entry whose run was past its last check fills, once; in one-way mode it
\* may turn the position around.
LateFill ==
    /\ ~late /\ late' = TRUE
    /\ \E s \in Legs, n \in {-2, 2} :
          /\ legs[s] + n \in -Size..Size
          /\ s = "LONG" => n > 0
          /\ s = "SHORT" => n < 0
          /\ legs' = [legs EXCEPT ![s] = @ + n]
    /\ flatten' = [c \in Flatteners |->
                     [flatten[c] EXCEPT !.grown = @ \/ flatten[c].at \in {"orders", "answered"}]]
    /\ UNCHANGED <<stopsOpen, plan>>

CloserStep(c) ==
    \/ AskClose(c) \/ CancelAllOrders(c) \/ AskConfirmation(c) \/ ReadPositions(c)
    \/ CannotClose(c) \/ PlanOrder(c) \/ CloseOrder(c) \/ WritePlan(c)

FlattenNext == (\E c \in Flatteners : CloserStep(c)) \/ StopTriggers \/ LateFill

FlattenSpec == FlattenInit /\ [][FlattenNext]_flattenVars

-----------------------------------------------------------------------------
\* However old the snapshot is and whoever else closes the same position, the
\* close-out only ever brings a position nearer to nothing, never through it.
OnlyCloses ==
    [][late' = late => \A s \in Legs : /\ Amount(legs'[s]) <= Amount(legs[s])
                                        /\ legs'[s] * legs[s] >= 0]_flattenVars

\* A close-out that answers without a failure has left less than a step of every
\* position, unless an entry has filled meanwhile or the market cut an order
\* short (which the answer does not tell apart).
AnsweredIsDust ==
    \A c \in Flatteners :
        flatten[c].at = "answered" /\ ~flatten[c].dry
          /\ ~flatten[c].failed /\ ~flatten[c].cut /\ ~flatten[c].grown
        => \A s \in Legs : Amount(legs[s]) < StepSize

\* The close-out of emergency_panic_stop under stops that trigger, entries that
\* fill and a second close-out: it only closes, and "done" means dust at most.
CloseOutSound == []AnsweredIsDust /\ OnlyCloses

-----------------------------------------------------------------------------
(* What the code does not give. *)

\* README.md:661, "flatten-plan checks must pass before live mode": the gate
\* exchange_emergency_controls looks at the time of the last plan only.
EmergencyGate == plan # "none"
GateMeansPlanned == EmergencyGate => plan = "planned"
================================================================================
