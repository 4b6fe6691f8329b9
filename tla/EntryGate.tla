----------------------------- MODULE EntryGate -----------------------------
(***************************************************************************)
(* Submission of stateful entry orders by execute_order                    *)
(* (src/app/server.py), for one exchange account: the three gates that     *)
(* precede a POST, the POST itself, what is persisted about it, a process  *)
(* crash at any point, and the observers (REST reconcile, private stream)  *)
(* that later bring the local row up to date, possibly with stale news, or *)
(* write back a status they have read before.                              *)
(*                                                                         *)
(* Protection orders are left to module Oms; here the open-order gate sees *)
(* entries only, which lets it pass more often than the code's gate does.  *)
(* So does a row without its reconcile_status, which only adds conflicts.  *)
(***************************************************************************)
EXTENDS Naturals, FiniteSets

CONSTANTS
    Orders,     \* client order ids; every workflow run uses a fresh one
    Handlers    \* threads that may update a row without giving it a status

VARIABLES
    ord,     \* ord[o]:  the entry's state at the venue
    pos,     \* pos[o]:  is a position opened by o still held at the venue?
    seen,    \* seen[o]: the statuses the venue has reported for o so far
    row,     \* row[o]:  status and venue_status of o in the local orders table
    settled, \* settled[o]: has the row ever been told how o ended?
    call,    \* call[h]: the status-less update under way in h, what it has read
    up,      \* is the server process running?
    pc, cur, \* the one active workflow: where it stands, and its order
    used     \* the client order ids drawn so far

vars == <<ord, pos, seen, row, settled, call, up, pc, cur, used>>
venueVars == <<ord, pos, seen>>
rowVars == <<row, settled>>

OrdStates == {"none", "inflight", "open", "done"}
Reports == {"NEW", "FILLED", "CANCELED", "EXIT"}
Statuses == {"none", "submitted", "pending_reconcile", "filled", "canceled",
             "protected_exit"}
VenueStatuses == {"none", "UNKNOWN", "NEW", "FILLED", "CANCELED"}
Rows == [st : Statuses, vs : VenueStatuses]
Row(st, vs) == [st |-> st, vs |-> vs]
NoRow == Row("none", "none")
Recorded(o) == row[o].st # "none"

Calls == [step : {"idle", "read", "loaded"}, o : Orders \cup {"none"},
          st : Statuses, vs : VenueStatuses]
NoCall == [step |-> "idle", o |-> "none", st |-> "none", vs |-> "none"]
Steps == {"idle", "conflicts", "openOrders", "positions", "submit", "await",
          "accepted", "unknown"}

TypeOK ==
    /\ ord \in [Orders -> OrdStates]
    /\ pos \in [Orders -> BOOLEAN]
    /\ seen \in [Orders -> SUBSET Reports]
    /\ row \in [Orders -> Rows]
    /\ settled \in [Orders -> BOOLEAN]
    /\ call \in [Handlers -> Calls]
    /\ \A h \in Handlers : call[h].step # "idle" => call[h].o \in Orders
    /\ up \in BOOLEAN
    /\ pc \in Steps
    /\ cur \in Orders
    /\ used \subseteq Orders

Init ==
    /\ ord = [o \in Orders |-> "none"]
    /\ pos = [o \in Orders |-> FALSE]
    /\ seen = [o \in Orders |-> {}]
    /\ row = [o \in Orders |-> NoRow]
    /\ settled = [o \in Orders |-> FALSE]
    /\ call = [h \in Handlers |-> NoCall]
    /\ up = TRUE
    /\ pc = "idle"
    /\ cur \in Orders
    /\ used = {}

-----------------------------------------------------------------------------
(* The gates. *)

\* May the order still be open, by what the row says of the venue?
MaybeOpen(o) == row[o].st = "submitted" /\ row[o].vs \notin {"FILLED", "CANCELED"}

\* Mutant: the gate forgets rows whose submit had an unknown outcome.
ConflictIgnoresUnknown(o) == MaybeOpen(o)

\* stateful_order_conflict_reason: a row that is unknown, or possibly open.
Conflict(o) ==
    row[o].st = "pending_reconcile" \/ row[o].vs = "UNKNOWN" \/ MaybeOpen(o)

\* Each gate reads one thing: the local rows, the venue's open orders, the
\* venue's positions.
GatePasses(gate) ==
    CASE gate = "conflicts"  -> \A o \in Orders : ~Conflict(o)
      [] gate = "openOrders" -> \A o \in Orders : ord[o] # "open"
      [] gate = "positions"  -> \A o \in Orders : ~pos[o]

\* Mutant: positions are asked before open orders.
AfterGateSwapped(gate) ==
    CASE gate = "conflicts"  -> "positions"
      [] gate = "positions"  -> "openOrders"
      [] gate = "openOrders" -> "submit"

\* The order in which execute_order asks them.
AfterGate(gate) ==
    CASE gate = "conflicts"  -> "openOrders"
      [] gate = "openOrders" -> "positions"
      [] gate = "positions"  -> "submit"

\* A POST carries recvWindow 5000, so the venue accepts it within five seconds
\* or never.  A run sleeps eight seconds before it reaches the gates, so a POST
\* of a process that has crashed since is settled by then.
RecvWindowElapsed == \A o \in Orders : ord[o] # "inflight"

\* Mutant: a run may draw the client order id of an earlier one.
LaunchRunAgain(o) ==
    /\ up /\ pc = "idle"
    /\ pc' = "conflicts"
    /\ cur' = o
    /\ used' = used \cup {o}
    /\ UNCHANGED <<venueVars, rowVars, call, up>>

\* launch_run: ACTIVE_RUNS admits one workflow at a time.
LaunchRun(o) ==
    /\ up /\ pc = "idle" /\ o \notin used
    /\ pc' = "conflicts"
    /\ cur' = o
    /\ used' = used \cup {o}
    /\ UNCHANGED <<venueVars, rowVars, call, up>>

PassGate(gate) ==
    /\ up /\ pc = gate
    /\ gate = "conflicts" => RecvWindowElapsed
    /\ GatePasses(gate)
    /\ pc' = AfterGate(gate)
    /\ UNCHANGED <<venueVars, rowVars, call, up, cur, used>>

\* A gate that fails, or whose request to the venue fails, raises.
GateRaises(gate) ==
    /\ up /\ pc = gate
    /\ gate = "conflicts" => ~GatePasses(gate)
    /\ pc' = "idle"
    /\ UNCHANGED <<venueVars, rowVars, call, up, cur, used>>

-----------------------------------------------------------------------------
(* The submission. *)

\* Does the report say that the entry is no longer working, or was exited?
Ends(report) == report # "NEW"

Post ==
    /\ up /\ pc = "submit"
    /\ ord' = [ord EXCEPT ![cur] = "inflight"]
    /\ pc' = "await"
    /\ UNCHANGED <<pos, seen, rowVars, call, up, cur, used>>

\* The arming budget is consumed inside the try block of the POST, so a lapsed
\* arming is recorded exactly like a POST with an unknown outcome.
ArmingRaises ==
    /\ up /\ pc = "submit"
    /\ pc' = "unknown"
    /\ UNCHANGED <<venueVars, rowVars, call, up, cur, used>>

Response ==
    /\ up /\ pc = "await" /\ seen[cur] # {}
    /\ pc' = "accepted"
    /\ UNCHANGED <<venueVars, rowVars, call, up, cur, used>>

\* Timeout, connection error or any HTTP error, whatever the venue did.
PostRaises ==
    /\ up /\ pc = "await"
    /\ pc' = "unknown"
    /\ UNCHANGED <<venueVars, rowVars, call, up, cur, used>>

\* The answer to the POST is the order as the venue had it then: a market order
\* may come back filled.
PersistAccepted ==
    /\ up /\ pc = "accepted"
    /\ \E report \in seen[cur] \ {"EXIT"} :
          /\ row' = [row EXCEPT ![cur] = Row("submitted", report)]
          /\ settled' = [settled EXCEPT ![cur] = @ \/ Ends(report)]
    /\ pc' = "idle"
    /\ UNCHANGED <<venueVars, call, up, cur, used>>

PersistUnknown ==
    /\ up /\ pc = "unknown"
    /\ row' = [row EXCEPT ![cur] = Row("pending_reconcile", "UNKNOWN")]
    /\ pc' = "idle"
    /\ UNCHANGED <<venueVars, settled, call, up, cur, used>>

\* ACTIVE_RUNS, the workflow and the handlers live in memory; rows survive.
Crash ==
    /\ up
    /\ up' = FALSE
    /\ pc' = "idle"
    /\ call' = [h \in Handlers |-> NoCall]
    /\ UNCHANGED <<venueVars, rowVars, cur, used>>

Restart ==
    /\ ~up
    /\ up' = TRUE
    /\ UNCHANGED <<venueVars, rowVars, call, pc, cur, used>>

-----------------------------------------------------------------------------
(* The venue (external). *)

Accept(o) ==
    /\ ord[o] = "inflight"
    /\ ord' = [ord EXCEPT ![o] = "open"]
    /\ seen' = [seen EXCEPT ![o] = @ \cup {"NEW"}]
    /\ UNCHANGED <<pos, rowVars, call, up, pc, cur, used>>

Refuse(o) ==
    /\ ord[o] = "inflight"
    /\ ord' = [ord EXCEPT ![o] = "none"]
    /\ UNCHANGED <<pos, seen, rowVars, call, up, pc, cur, used>>

PartialFill(o) ==
    /\ ord[o] = "open"
    /\ pos' = [pos EXCEPT ![o] = TRUE]
    /\ UNCHANGED <<ord, seen, rowVars, call, up, pc, cur, used>>

Fill(o) ==
    /\ ord[o] = "open"
    /\ ord' = [ord EXCEPT ![o] = "done"]
    /\ pos' = [pos EXCEPT ![o] = TRUE]
    /\ seen' = [seen EXCEPT ![o] = @ \cup {"FILLED"}]
    /\ UNCHANGED <<rowVars, call, up, pc, cur, used>>

\* Canceled by the operator, by a panic stop or by the venue.
Cancel(o) ==
    /\ ord[o] = "open"
    /\ ord' = [ord EXCEPT ![o] = "done"]
    /\ seen' = [seen EXCEPT ![o] = @ \cup {"CANCELED"}]
    /\ UNCHANGED <<pos, rowVars, call, up, pc, cur, used>>

\* A close-position protection order fills; the entry may still be working.
Exit(o) ==
    /\ pos[o]
    /\ pos' = [pos EXCEPT ![o] = FALSE]
    /\ seen' = [seen EXCEPT ![o] = @ \cup {"EXIT"}]
    /\ UNCHANGED <<ord, rowVars, call, up, pc, cur, used>>

-----------------------------------------------------------------------------
(* The observers. *)

\* binance_local_status_for_venue_status, and the status that
\* mark_parent_exited_by_protection gives the parent of a filled child.
LocalStatus(report) ==
    CASE report = "NEW"      -> "submitted"
      [] report = "FILLED"   -> "filled"
      [] report = "CANCELED" -> "canceled"
      [] report = "EXIT"     -> "protected_exit"

\* A REST answer or a stream event reaches update_order_state, however late:
\* any status the venue ever reported may be written over a newer one.
Observe(o, report) ==
    /\ up /\ Recorded(o)
    /\ report \in seen[o]
    /\ row' = [row EXCEPT ![o] = Row(LocalStatus(report),
                                   IF report = "EXIT" THEN @.vs ELSE report)]
    /\ settled' = [settled EXCEPT ![o] = @ \/ Ends(report)]
    /\ UNCHANGED <<venueVars, call, up, pc, cur, used>>

\* A reconcile or an emergency cancel that fails, a reconcile of a finished row,
\* the protection guard: they have read the row, perhaps asked the venue in
\* vain, and now call update_order_state without a status, with the venue status
\* they have read or without one.
ReadRow(h, o) ==
    /\ up /\ call[h].step = "idle" /\ Recorded(o)
    /\ \E vs \in {row[o].vs, "none"} :
          call' = [call EXCEPT ![h] = [step |-> "read", o |-> o, st |-> "none", vs |-> vs]]
    /\ UNCHANGED <<venueVars, rowVars, up, pc, cur, used>>

\* update_order_state reads the status of the row.
ReadStatus(h) ==
    /\ up /\ call[h].step = "read"
    /\ call' = [call EXCEPT ![h] = [step |-> "loaded", o |-> @.o, st |-> row[@.o].st,
                                    vs |-> @.vs]]
    /\ UNCHANGED <<venueVars, rowVars, up, pc, cur, used>>

\* In a later lock scope it writes that status back, whatever the row says now.
WriteBack(h) ==
    /\ up /\ call[h].step = "loaded"
    /\ row' = [row EXCEPT ![call[h].o] =
                 Row(call[h].st, IF call[h].vs = "none" THEN @.vs ELSE call[h].vs)]
    /\ call' = [call EXCEPT ![h] = NoCall]
    /\ UNCHANGED <<venueVars, settled, up, pc, cur, used>>

Gates == {"conflicts", "openOrders", "positions"}

Next ==
    \/ \E o \in Orders : LaunchRun(o)
    \/ \E gate \in Gates : PassGate(gate) \/ GateRaises(gate)
    \/ Post \/ ArmingRaises \/ Response \/ PostRaises
    \/ PersistAccepted \/ PersistUnknown
    \/ Crash \/ Restart
    \/ \E o \in Orders : \/ Accept(o) \/ Refuse(o) \/ PartialFill(o)
                         \/ Fill(o) \/ Cancel(o) \/ Exit(o)
    \/ \E o \in Orders, report \in Reports : Observe(o, report)
    \/ \E h \in Handlers, o \in Orders : ReadRow(h, o)
    \/ \E h \in Handlers : ReadStatus(h) \/ WriteBack(h)

Spec == Init /\ [][Next]_vars

-----------------------------------------------------------------------------
(* Properties. *)

\* The account carries risk from an entry that the venue may still accept, is
\* working, or has turned into a position.
Exposed(o) == ord[o] \in {"inflight", "open"} \/ pos[o]

\* However workflows, crashes, lost responses, fills and late news interleave,
\* the three gates of execute_order never let a second entry out while an
\* earlier one may still be accepted, is open, or has left a position.  It
\* depends on the open-order gate being asked before the position gate: an
\* entry that fills between the two is seen by the second.
AtMostOneEntry ==
    \A o, p \in Orders : Exposed(o) /\ Exposed(p) => o = p

\* What the gates have established for a run that is past each of them.
Established ==
    /\ pc = "openOrders" =>
         \A o \in Orders : ord[o] # "inflight"
    /\ pc = "positions" =>
         \A o \in Orders : ord[o] \notin {"inflight", "open"}
    /\ pc = "submit" => \A o \in Orders : ~Exposed(o)

\* Once a run is past the conflict gate, the end of every recorded entry is known.
AllSettled ==
    pc \in {"openOrders", "positions", "submit"} =>
        \A o \in Orders : Recorded(o) => settled[o]

\* An order submit with an unknown outcome is recorded pending_reconcile, and no
\* other entry is POSTed until the table has been told how it ended (README:
\* "blocks any retry before another POST can be sent").  Of the row itself this
\* cannot be said: a handler that has read pending_reconcile may write it back
\* behind the conflict gate, so the POST may leave beside a row that says
\* unknown again, but never beside an outcome that still is.
NoPostWhileUnknown ==
    [][pc = "submit" /\ pc' = "await" =>
         \A o \in Orders : Recorded(o) => settled[o]]_vars

\* Not so: the row itself, written back behind the gate, may say unknown again.
NoPostBesideUnknownRow ==
    [][pc = "submit" /\ pc' = "await" =>
         \A o \in Orders : row[o].st # "pending_reconcile"]_vars

-----------------------------------------------------------------------------
(* EntryGate implements SingleEntry. *)

\* A run that has not yet POSTed.
Trying(o) == o = cur /\ pc \in {"conflicts", "openOrders", "positions", "submit"}

\* Refinement mapping: an order holds the account as long as it is exposed.
Phase(o) ==
    IF Exposed(o) THEN "held"
    ELSE IF o \notin used \/ Trying(o) THEN "fresh" ELSE "spent"

Account == INSTANCE SingleEntry WITH phase <- [o \in Orders |-> Phase(o)]

\* Every behaviour of workflows, crashes, venue and observers is one of an
\* account that a single client order id holds at a time, and none twice: the
\* fresh id of every run (prepare_order_payload) is what lets a query by
\* clientOrderId tell a lost answer from a retry.
HeldByOne == Account!Spec

=============================================================================
