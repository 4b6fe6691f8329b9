---------------------------- MODULE LiveControl ----------------------------
(***************************************************************************)
(* Who may let an entry order out: the emergency stop, the short live      *)
(* arming with its order budget, and the workflow that asks them before it *)
(* POSTs (src/app/server.py).  They live in the settings table, and every  *)
(* get_setting and set_setting is a DB_LOCK scope of its own, so threads   *)
(* interleave between any two.                                             *)
(***************************************************************************)
EXTENDS Naturals

CONSTANTS
    Max,        \* LIVE_ARMING_MAX_ORDERS
    Armers,     \* threads that handle an arm request
    Panics      \* threads that handle a panic stop

ASSUME LiveControlAssumption == Max \in Nat \ {0}

VARIABLES
    stop,       \* emergency_stop
    window,     \* is live_armed_until in the future?
    count,      \* live_armed_order_count
    up,         \* is the process running?
    wf, mode,   \* where the one active workflow stands, and its mode
    seen,       \* the count that consume_live_arming_order has read
    arm,        \* arm[a]: where an arm request stands
    panic,      \* panic[q]: where a panic stop stands
    authorized, \* ghost: has an arm request opened the window since startup?
    released,   \* ghost: entries released since the count was last reset
    late,       \* ghost: live entries POSTed since the window was last open
    shut,       \* ghost: a panic stop has returned and was not reset
    leaked      \* ghost: entries POSTed while shut

settings == <<stop, window, count>>
ghosts == <<authorized, released, late, shut, leaked>>
vars == <<settings, up, wf, mode, seen, arm, panic, ghosts>>

Modes == {"testnet", "live"}
Consuming == {"count", "write"}
WfSteps == {"idle", "launched", "approved", "gateStop", "gateArming", "consume",
            "post"} \cup Consuming

TypeOK ==
    /\ stop \in BOOLEAN /\ window \in BOOLEAN /\ up \in BOOLEAN
    /\ count \in 0..Max /\ seen \in 0..Max
    /\ wf \in WfSteps /\ mode \in Modes
    /\ arm \in [Armers -> {"idle", "checked", "opened"}]
    /\ panic \in [Panics -> {"idle", "stopped", "disarmed"}]
    /\ authorized \in BOOLEAN /\ shut \in BOOLEAN
    /\ released \in Nat /\ late \in Nat /\ leaked \in Nat

Init ==
    /\ stop = FALSE /\ window = FALSE /\ count = 0 /\ up = TRUE
    /\ wf = "idle" /\ mode = "testnet" /\ seen = 0
    /\ arm = [a \in Armers |-> "idle"]
    /\ panic = [q \in Panics |-> "idle"]
    /\ authorized = FALSE /\ released = 0 /\ late = 0
    /\ shut = FALSE /\ leaked = 0

-----------------------------------------------------------------------------
(* live_arming_status and disarm_live_trading. *)

TimeActive == window

\* Mutant: the budget is off by one.
OverBudget(n) == n <= Max

HasBudget(n) == n < Max

Armed == TimeActive /\ HasBudget(count)

\* live_armed_until passes.
Expire ==
    /\ window
    /\ window' = FALSE
    /\ UNCHANGED <<stop, count, up, wf, mode, seen, arm, panic, ghosts>>

\* A disarm request, or the protection-failure guard.
Disarm ==
    /\ up
    /\ window' = FALSE
    /\ UNCHANGED <<stop, count, up, wf, mode, seen, arm, panic, ghosts>>

-----------------------------------------------------------------------------
(* run_workflow: the risk check, then execute_order's gate, budget and POST. *)

\* launch_run asks the go-live gate for a live run; ACTIVE_RUNS admits one run.
LaunchRun(m) ==
    /\ up /\ wf = "idle"
    /\ m = "live" => ~stop /\ Armed
    /\ wf' = "launched" /\ mode' = m
    /\ UNCHANGED <<settings, up, seen, arm, panic, ghosts>>

\* Mutant: the emergency stop is not among the risk checks.
RiskCheckBlind ==
    /\ up /\ wf = "launched"
    /\ wf' = "approved"
    /\ UNCHANGED <<settings, up, mode, seen, arm, panic, ghosts>>

\* risk_check rejects while there is an emergency stop.
RiskCheck ==
    /\ up /\ wf = "launched"
    /\ wf' = IF stop THEN "idle" ELSE "approved"
    /\ UNCHANGED <<settings, up, mode, seen, arm, panic, ghosts>>

\* Testnet placement reads neither the stop nor the arming again; live asks
\* the go-live gate once more, which reads the risk controls first and the
\* arming last.
ExecuteOrder ==
    /\ up /\ wf = "approved"
    /\ wf' = IF mode = "testnet" THEN "post" ELSE "gateStop"
    /\ UNCHANGED <<settings, up, mode, seen, arm, panic, ghosts>>

GateStop ==
    /\ up /\ wf = "gateStop"
    /\ wf' = IF stop THEN "idle" ELSE "gateArming"
    /\ UNCHANGED <<settings, up, mode, seen, arm, panic, ghosts>>

GateArming ==
    /\ up /\ wf = "gateArming"
    /\ wf' = IF Armed THEN "consume" ELSE "idle"
    /\ UNCHANGED <<settings, up, mode, seen, arm, panic, ghosts>>

\* Any other check, up to the /order/test requests, may raise and end the run.
WorkflowRaises ==
    /\ up /\ wf \in {"launched", "approved", "gateStop", "gateArming", "consume"}
    /\ wf' = "idle"
    /\ UNCHANGED <<settings, up, mode, seen, arm, panic, ghosts>>

\* consume_live_arming_order reads live_armed_until, then the count, and
\* writes the count plus one.
ConsumeWindow ==
    /\ up /\ wf = "consume"
    /\ wf' = IF TimeActive THEN "count" ELSE "idle"
    /\ UNCHANGED <<settings, up, mode, seen, arm, panic, ghosts>>

ConsumeCount ==
    /\ up /\ wf = "count"
    /\ wf' = IF HasBudget(count) THEN "write" ELSE "idle"
    /\ seen' = count
    /\ UNCHANGED <<settings, up, mode, arm, panic, ghosts>>

ConsumeWrite ==
    /\ up /\ wf = "write"
    /\ count' = seen + 1
    /\ released' = released + 1
    /\ wf' = "post"
    /\ UNCHANGED <<stop, window, up, mode, seen, arm, panic,
                   authorized, late, shut, leaked>>

\* POST /fapi/v1/order.
Post ==
    /\ up /\ wf = "post"
    /\ wf' = "idle"
    /\ late' = IF mode = "live" /\ ~window THEN late + 1 ELSE late
    /\ leaked' = IF shut THEN leaked + 1 ELSE leaked
    /\ UNCHANGED <<settings, up, mode, seen, arm, panic,
                   authorized, released, shut>>

-----------------------------------------------------------------------------
(* arm_live_trading: the gate, live_armed_until, and later the count. *)

ArmCheck(a) ==
    /\ up /\ arm[a] = "idle"
    /\ ~stop
    /\ arm' = [arm EXCEPT ![a] = "checked"]
    /\ UNCHANGED <<settings, up, wf, mode, seen, panic, ghosts>>

ArmOpen(a) ==
    /\ up /\ arm[a] = "checked"
    /\ window' = TRUE /\ authorized' = TRUE /\ late' = 0
    /\ arm' = [arm EXCEPT ![a] = "opened"]
    /\ UNCHANGED <<stop, count, up, wf, mode, seen, panic, released, shut, leaked>>

ArmReset(a) ==
    /\ up /\ arm[a] = "opened"
    /\ count' = 0 /\ released' = 0
    /\ arm' = [arm EXCEPT ![a] = "idle"]
    /\ UNCHANGED <<stop, window, up, wf, mode, seen, panic,
                   authorized, late, shut, leaked>>

-----------------------------------------------------------------------------
(* The emergency stop. *)

\* POST /api/emergency-stop sets the flag and nothing else.
EmergencyStop ==
    /\ up
    /\ stop' = TRUE
    /\ UNCHANGED <<window, count, up, wf, mode, seen, arm, panic, ghosts>>

\* emergency_panic_stop: the flag, the disarm, then the cancels and the
\* reconcile of module Oms, and the answer.
PanicStop(q) ==
    /\ up /\ panic[q] = "idle"
    /\ stop' = TRUE
    /\ panic' = [panic EXCEPT ![q] = "stopped"]
    /\ UNCHANGED <<window, count, up, wf, mode, seen, arm, ghosts>>

PanicDisarm(q) ==
    /\ up /\ panic[q] = "stopped"
    /\ window' = FALSE
    /\ panic' = [panic EXCEPT ![q] = "disarmed"]
    /\ UNCHANGED <<stop, count, up, wf, mode, seen, arm, ghosts>>

PanicReturn(q) ==
    /\ up /\ panic[q] = "disarmed"
    /\ shut' = stop
    /\ panic' = [panic EXCEPT ![q] = "idle"]
    /\ UNCHANGED <<settings, up, wf, mode, seen, arm,
                   authorized, released, late, leaked>>

\* reset_emergency_stop.
ResetStop ==
    /\ up
    /\ stop' = FALSE /\ shut' = FALSE /\ leaked' = 0
    /\ UNCHANGED <<window, count, up, wf, mode, seen, arm, panic,
                   authorized, released, late>>

-----------------------------------------------------------------------------
(* The process: threads die, settings stay. *)

Crash ==
    /\ up
    /\ up' = FALSE
    /\ wf' = "idle"
    /\ arm' = [a \in Armers |-> "idle"]
    /\ panic' = [q \in Panics |-> "idle"]
    /\ UNCHANGED <<settings, mode, seen, ghosts>>

\* Mutant: a restart leaves the arming as it finds it.
RestartArmed ==
    /\ ~up
    /\ up' = TRUE
    /\ authorized' = FALSE
    /\ UNCHANGED <<settings, wf, mode, seen, arm, panic,
                   released, late, shut, leaked>>

\* main: disarm_live_arming_on_startup comes before any thread is started.
Restart ==
    /\ ~up
    /\ up' = TRUE
    /\ window' = FALSE
    /\ authorized' = FALSE
    /\ UNCHANGED <<stop, count, wf, mode, seen, arm, panic,
                   released, late, shut, leaked>>

WorkflowStep ==
    \/ \E m \in Modes : LaunchRun(m)
    \/ RiskCheck \/ ExecuteOrder \/ GateStop \/ GateArming \/ WorkflowRaises
    \/ ConsumeWindow \/ ConsumeCount \/ ConsumeWrite \/ Post

ArmStep(a) == ArmCheck(a) \/ ArmOpen(a) \/ ArmReset(a)

PanicStep(q) == PanicStop(q) \/ PanicDisarm(q) \/ PanicReturn(q)

Next ==
    \/ WorkflowStep
    \/ \E a \in Armers : ArmStep(a)
    \/ \E q \in Panics : PanicStep(q)
    \/ EmergencyStop \/ ResetStop \/ Disarm \/ Expire
    \/ Crash \/ Restart

Spec == Init /\ [][Next]_vars

-----------------------------------------------------------------------------
(* Properties the code keeps. *)

\* However arm requests interleave with a run that is consuming the budget
\* (each rewrites what the other has read), no more than the budget is released
\* between two resets of the count (README "a per-arming entry-order budget").
BudgetKept == released <= Max

\* Shutting the window, by disarm, guard, panic, expiry or restart, lets out
\* at most the one entry whose run had read the window already; every later
\* one waits for an arm request.
AtMostOneLate == late <= 1

\* Once a panic stop has returned, at most the one run that was past its risk
\* check or its gate still POSTs an entry, whatever arm requests are under way.
PanicLeaksAtMostOne == leaked <= 1

\* What is still let out once the service has been told to stop: at most one
\* entry, by a shut window and by a panic stop alike.
LeaksAtMostOne == AtMostOneLate /\ PanicLeaksAtMostOne

\* A live entry is released only in a window that this process was asked to
\* open: a restart inherits none, even one that a crash left half written
\* (README "a restart cannot inherit an unspent live order authorization").
NoInheritedWindow ==
    (mode = "live" /\ wf \in Consuming \cup {"post"}) => authorized

-----------------------------------------------------------------------------
(* Properties the repository states and the code does not keep. *)

\* README "Emergency stop must block all new orders": when a panic stop has
\* returned, no run is about to POST an entry.
PanicBlocksEntries == shut => wf # "post"

\* README "disarms live trading": when a panic stop has returned, and until it
\* is reset, the live window is shut.  No arm request can begin meanwhile.
PanicLeavesDisarmed == shut => ~window

-----------------------------------------------------------------------------
(* The inductive invariant behind the four invariants. *)

BudgetInv ==
    /\ released <= count
    /\ wf = "write" => seen < Max /\ released <= seen

LateInv ==
    /\ late <= 1
    /\ late = 1 => ~window /\ (mode = "live" => wf \notin Consuming \cup {"post"})

PanicInv ==
    /\ shut => stop
    /\ ~shut => leaked = 0
    /\ leaked <= 1
    /\ leaked = 1 => wf \in {"idle", "launched"}

WindowInv ==
    /\ up /\ window => authorized
    /\ ~up => wf = "idle"
    /\ NoInheritedWindow

IInv == TypeOK /\ BudgetInv /\ LateInv /\ PanicInv /\ WindowInv

=============================================================================
