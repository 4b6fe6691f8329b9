------------------------------- MODULE GoLive -------------------------------
(***************************************************************************)
(* The go-live gate of src/app/server.py with what feeds it and what asks  *)
(* it.  go_live_gate_status reads some twenty-five gates one after         *)
(* another, each from settings, files or rows that other threads and       *)
(* processes go on changing, and takes no lock over the whole reading; the *)
(* arming comes last.  The gate on the local checks reads the report that  *)
(* scripts/run_all_checks.py writes, and those checks end by asking the    *)
(* server for its readiness, which asks the gate.                          *)
(***************************************************************************)
EXTENDS Naturals

CONSTANTS
    Profiles,       \* the .env files the service may be started with
    Loose,          \* the gates whose evidence comes and goes
    MaxStarts,      \* bound: runs of the checks
    MaxRestarts,    \* bound: restarts of the service
    RequireWebhook, \* GO_LIVE_REQUIRE_ALERT_WEBHOOK
    RequireStream   \* GO_LIVE_REQUIRE_PRIVATE_STREAM

VARIABLES
    profile,    \* the settings the process runs with
    evidence,   \* evidence[g]: does the condition of the loose gate g hold?
    emergency,  \* risk_config()["emergency_stop"]
    armed,      \* live_arming_status()["armed"]
    panic,      \* a panic stop between its first setting and its disarming
    active,     \* reports/local-readiness-active.json
    final,      \* the latest reports/local-readiness-<time>.json
    checks,     \* where scripts/run_all_checks.py stands
    stepsOk,    \* have all its steps succeeded so far?
    fetched,    \* the readiness it has fetched is not "fail"
    reading,    \* the reading of the gate under way
    starts, restarts,
    last,       \* ghost: the outcome of the run of the checks started last
    halted      \* ghost: a panic stop has returned; since then no window was
                \*   opened, and it was not reset before the reading began

live == <<profile, evidence, emergency, armed, panic>>
report == <<active, final, checks, stepsOk, fetched, starts, last>>
goLiveVars == <<live, report, reading, restarts, halted>>

FlagGates == {"live_flags", "deployment_profile", "server_auth", "private_network"}
SyncGates == {"exchange_margin_type_sync", "exchange_leverage_sync"}
DrillGates == {"panic_stop_drill", "exchange_emergency_controls", "backup_restore_drill"}
RecordGates == {"oms_reconciled", "audit_chain", "alert_watchdog"}
AccountGates == {"exchange_open_orders", "exchange_open_positions", "live_pilot_capital"}
ProofGates == {"testnet_drill_cycles", "backtest_walkforward"}

(* The gates in the order go_live_gate_status reads them, in three parts. *)
Part == << FlagGates \cup {"local_readiness", "live_attestation",
                           "binance_time_drift", "risk_controls"},
           SyncGates \cup DrillGates \cup RecordGates \cup AccountGates \cup ProofGates
             \cup {"exchange_position_mode", "alert_delivery", "exchange_recovery",
                   "private_user_stream"},
           {"live_arming"} >>
Gates == UNION {Part[i] : i \in 1..3}

LooseAssumption == Loose \subseteq Gates
    \ {"live_flags", "deployment_profile", "local_readiness", "risk_controls", "live_arming"}
ASSUME LooseAssumption

BoundsAssumption == MaxStarts \in Nat /\ MaxRestarts \in Nat
ASSUME BoundsAssumption

-----------------------------------------------------------------------------
LiveModeEnabled ==
    profile.enable /\ profile.keys /\ profile.place /\ profile.phrase

LiveRequested ==
    profile.enable \/ profile.keys \/ profile.place \/ profile.mode = "live_guarded"

(* required_for_live. *)
RequiredOnceRequested ==
    AccountGates \cup {"live_attestation", "binance_time_drift",
                       "exchange_position_mode", "live_arming"}

Wanted == LiveRequested \/ LiveModeEnabled

Required(g) ==
    CASE g \in RequiredOnceRequested -> Wanted
      [] g = "alert_delivery" -> RequireWebhook \/ Wanted
      [] g = "private_user_stream" -> RequireStream /\ Wanted
      [] OTHER -> TRUE

(* local_readiness_report_status: the active report hides the final ones. *)
ReportedFinalFirst == IF final # "none" THEN final ELSE active

Reported == IF active # "none" THEN active ELSE final

Passes(g) ==
    CASE g \in Loose -> evidence[g]
      [] g = "live_flags" -> LiveModeEnabled
      [] g = "deployment_profile" -> profile.server
      [] g = "local_readiness" -> Reported = "ok"
      [] g = "risk_controls" -> ~emergency
      [] g = "live_arming" -> armed
      [] OTHER -> TRUE

(* The decisions, from the gates that a reading found not to pass. *)
Blocking(failing) == {g \in failing : Required(g)}

ReadyToArm(failing) == LiveModeEnabled /\ Blocking(failing) \subseteq {"live_arming"}

ReadyForOrder(failing) == LiveModeEnabled /\ Blocking(failing) = {}

(* final_live_readiness with and without an armed window; it reads the
   attestation once more after the gate. *)
FinalReady(failing, withWindow) ==
    /\ profile.server /\ profile.mode = "live_guarded"
    /\ ReadyToArm(failing)
    /\ withWindow => Blocking(failing) = {}
    /\ Passes("live_attestation")

(* The items of deployment_readiness before its gate that can be "fail". *)
ItemsFail ==
    \/ profile.mode = "live_guarded" /\ ~LiveModeEnabled
    \/ \E g \in {"audit_chain", "server_auth", "private_network", "alert_watchdog"} : ~Passes(g)
    \/ LiveRequested /\ \E g \in {"live_attestation", "live_pilot_capital"} : ~Passes(g)

NotReady(items, failing) == items \/ (LiveRequested /\ ~ReadyForOrder(failing))

-----------------------------------------------------------------------------
(* halted and fair are ghosts: what stood when the last gate was read, and
   whether nothing but the local checks themselves was found missing. *)
Idle == [by |-> "nobody", part |-> 1, failing |-> {}, items |-> FALSE,
         halted |-> FALSE, fair |-> FALSE]

Askers == {"order", "arm", "final", "finalUnarmed", "readiness"}

(* deployment_readiness reads its other items before the gate. *)
BeginReading(by) ==
    /\ reading.by = "nobody"
    /\ by = "readiness" => checks = "asking"
    /\ LET items == by = "readiness" /\ ItemsFail IN
        reading' = [Idle EXCEPT !.by = by, !.items = items, !.fair = ~items]
    /\ halted' = (halted /\ emergency)
    /\ UNCHANGED <<live, report, restarts>>

NextReading(part) ==
    LET failing == {g \in part : ~Passes(g)} IN
    [reading EXCEPT !.part = @ + 1, !.failing = @ \cup failing, !.halted = halted,
                    !.fair = @ /\ Blocking(failing) \subseteq {"local_readiness"}]

ReadArmingFirst ==
    /\ reading.by # "nobody" /\ reading.part <= 3
    /\ reading' = NextReading(Part[IF reading.part = 1 THEN 3 ELSE reading.part - 1])
    /\ UNCHANGED <<live, report, restarts, halted>>

ReadPart ==
    /\ reading.by # "nobody" /\ reading.part <= 3
    /\ reading' = NextReading(Part[reading.part])
    /\ UNCHANGED <<live, report, restarts, halted>>

(* The last gate has been read: the asker decides. *)
Read(by) == reading.by = by /\ reading.part = 4

(* An order goes on to its POST or is refused; a final check answers. *)
Answer ==
    /\ \E by \in {"order", "final", "finalUnarmed"} : Read(by)
    /\ reading' = Idle
    /\ UNCHANGED <<live, report, restarts, halted>>

(* arm_live_trading. *)
Arm ==
    /\ Read("arm")
    /\ IF Blocking(reading.failing) \subseteq {"live_arming"}
       THEN armed' = TRUE /\ halted' = FALSE
       ELSE UNCHANGED <<armed, halted>>
    /\ reading' = Idle
    /\ UNCHANGED <<profile, evidence, emergency, panic, report, restarts>>

-----------------------------------------------------------------------------
(* What happens meanwhile. *)
Evidence(g) ==
    /\ g # "panic_stop_drill" \/ evidence[g]
    /\ evidence' = [evidence EXCEPT ![g] = ~@]
    /\ UNCHANGED <<profile, emergency, armed, panic, report, reading,
                   restarts, halted>>

(* The window closes: its time, its order budget, or a disarm request. *)
Close ==
    /\ armed' = FALSE /\ armed
    /\ UNCHANGED <<profile, evidence, emergency, panic, report, reading,
                   restarts, halted>>

(* execute_panic_stop: the emergency stop first, the window later. *)
PanicStops ==
    /\ ~panic
    /\ emergency' = TRUE /\ panic' = TRUE
    /\ UNCHANGED <<profile, evidence, armed, report, reading, restarts,
                   halted>>

PanicDisarms ==
    /\ panic
    /\ armed' = FALSE /\ panic' = FALSE /\ halted' = TRUE
    /\ evidence' = [g \in Loose |-> evidence[g] \/ g = "panic_stop_drill"]
    /\ UNCHANGED <<profile, emergency, report, reading, restarts>>

Reset ==
    /\ emergency
    /\ emergency' = FALSE
    /\ UNCHANGED <<profile, evidence, armed, panic, report, reading,
                   restarts, halted>>

(* The process is started again, perhaps with another .env: the window is
   shut (disarm_live_arming_on_startup), requests under way are gone, and the
   checks that were asking get no readiness. *)
Restart(p) ==
    /\ restarts < MaxRestarts
    /\ profile' = p /\ armed' = FALSE /\ panic' = FALSE
    /\ reading' = Idle /\ restarts' = restarts + 1
    /\ IF checks = "asking"
       THEN checks' = "fetched" /\ fetched' = FALSE
       ELSE UNCHANGED <<checks, fetched>>
    /\ UNCHANGED <<evidence, emergency, active, final, stepsOk, starts, last,
                   halted>>

-----------------------------------------------------------------------------
(* scripts/run_all_checks.py. *)
StartChecks ==
    /\ checks = "idle" /\ starts < MaxStarts
    /\ checks' = "steps" /\ stepsOk' = TRUE /\ active' = "running"
    /\ starts' = starts + 1 /\ last' = "going"
    /\ UNCHANGED <<live, final, fetched, reading, restarts, halted>>

(* A step ends; one that fails, times out or finds the server busy leaves
   the report not ok.  The active report is written over and stays running. *)
CheckStep ==
    /\ checks = "steps"
    /\ stepsOk' \in {stepsOk, FALSE}
    /\ checks' \in {"steps", "asking"}
    /\ <<checks', stepsOk'>> # <<checks, stepsOk>>
    /\ UNCHANGED <<live, active, final, fetched, starts, last, reading,
                   restarts, halted>>

(* The running build is not the workspace's, the server does not answer or
   answers late. *)
CheckAborts ==
    /\ checks \in {"steps", "asking"}
    /\ checks' = "fetched" /\ fetched' = FALSE
    /\ reading' = IF reading.by = "readiness" THEN Idle ELSE reading
    /\ UNCHANGED <<live, active, final, stepsOk, starts, last, restarts,
                   halted>>

(* GET /api/readiness answers. *)
FetchReadiness ==
    /\ Read("readiness") /\ checks = "asking"
    /\ checks' = "fetched"
    /\ fetched' = ~NotReady(reading.items, reading.failing)
    /\ reading' = Idle
    /\ UNCHANGED <<live, active, final, stepsOk, starts, last, restarts,
                   halted>>

Outcome == IF stepsOk /\ fetched THEN "ok" ELSE "bad"

(* finish writes the timestamped report, then the active one. *)
WriteFinal ==
    /\ checks = "fetched"
    /\ checks' = "written" /\ final' = Outcome
    /\ UNCHANGED <<live, active, stepsOk, fetched, starts, last, reading,
                   restarts, halted>>

WriteActive ==
    /\ checks = "written"
    /\ checks' = "idle" /\ active' = Outcome /\ last' = Outcome
    /\ stepsOk' = FALSE /\ fetched' = FALSE
    /\ UNCHANGED <<live, final, starts, reading, restarts,
                   halted>>

(* The session is interrupted. *)
CheckDies ==
    /\ checks # "idle"
    /\ checks' = "idle" /\ last' = "cut" /\ stepsOk' = FALSE /\ fetched' = FALSE
    /\ reading' = IF reading.by = "readiness" THEN Idle ELSE reading
    /\ UNCHANGED <<live, active, final, starts, restarts, halted>>

(* GO_LIVE_LOCAL_READINESS_MAX_AGE_HOURS have passed. *)
ReportAges ==
    /\ checks = "idle" /\ active = "ok"
    /\ active' = "aged" /\ final' = "aged"
    /\ UNCHANGED <<live, checks, stepsOk, fetched, starts, last, reading,
                   restarts, halted>>

-----------------------------------------------------------------------------
GoLiveInit ==
    /\ profile \in Profiles
    /\ evidence = [g \in Loose |-> FALSE]
    /\ emergency = FALSE /\ armed = FALSE /\ panic = FALSE
    /\ active = "none" /\ final = "none" /\ checks = "idle"
    /\ stepsOk = FALSE /\ fetched = FALSE
    /\ reading = Idle
    /\ starts = 0 /\ restarts = 0 /\ last = "none"
    /\ halted = FALSE

GoLiveNext ==
    \/ \E by \in Askers : BeginReading(by)
    \/ ReadPart \/ Answer \/ Arm
    \/ \E g \in Loose : Evidence(g)
    \/ Close \/ PanicStops \/ PanicDisarms \/ Reset
    \/ \E p \in Profiles : Restart(p)
    \/ StartChecks \/ CheckStep \/ CheckAborts \/ FetchReadiness
    \/ WriteFinal \/ WriteActive \/ CheckDies \/ ReportAges

GoLiveSpec == GoLiveInit /\ [][GoLiveNext]_goLiveVars

-----------------------------------------------------------------------------
GoLiveTypeOK ==
    /\ profile \in Profiles /\ evidence \in [Loose -> BOOLEAN]
    /\ emergency \in BOOLEAN /\ armed \in BOOLEAN /\ panic \in BOOLEAN
    /\ active \in {"none", "running", "ok", "bad", "aged"}
    /\ final \in {"none", "ok", "bad", "aged"}
    /\ checks \in {"idle", "steps", "asking", "fetched", "written"}
    /\ last \in {"none", "going", "ok", "bad", "cut"}
    /\ stepsOk \in BOOLEAN /\ fetched \in BOOLEAN
    /\ reading.by \in Askers \cup {"nobody"} /\ reading.part \in 1..4
    /\ reading.failing \subseteq Gates
    /\ starts \in 0..MaxStarts /\ restarts \in 0..MaxRestarts
    /\ halted \in BOOLEAN

(* A panic stop that has returned is seen by every order and every final
   check whose gates were still being read, although they are read at
   different moments, until it is reset or a window is opened again. *)
PanicSeen ==
    /\ Read("order") /\ ReadyForOrder(reading.failing) => ~reading.halted
    /\ Read("final") /\ FinalReady(reading.failing, TRUE) => ~reading.halted

(* No gate is waived for a real order but the private stream where the
   settings do not ask for one. *)
NothingWaived ==
    Read("order") /\ ReadyForOrder(reading.failing) =>
        reading.failing \subseteq IF RequireStream THEN {} ELSE {"private_user_stream"}

(* The gate on the local checks holds only by the outcome of the run of the
   checks that was started last: neither a run under way nor one that was cut
   short leaves an older outcome in force. *)
PassMeansLatest == Passes("local_readiness") => last = "ok"

(* What a passing gate means although it is read piece by piece while stops,
   restarts and local checks go on. *)
GateSound == GoLiveTypeOK /\ PanicSeen /\ NothingWaived /\ PassMeansLatest

(* The checks never end well on a service that asks for live trading: their
   own report is "running" while they ask, which keeps the gate shut, which
   makes the readiness they ask for "fail". *)
EndsWellOnlyLocked ==
    [][checks = "asking" /\ checks' = "fetched" /\ fetched' => ~LiveRequested]_goLiveVars

(* Known to be false.  server.py:6691 and 13148 and the last lines of
   deploy/verify-server.sh: on a service whose gate wants nothing else, the
   checks can be run again and end well. *)
ChecksRenew == [][FetchReadiness /\ reading.fair => fetched']_goLiveVars
=============================================================================
