-------------------------------- MODULE Oms --------------------------------
(***************************************************************************)
(* One entry order, its two close-position protection orders, and the      *)
(* threads that write their rows in the orders table: the workflow that    *)
(* submits them (execute_order and the protection-failure guard), the      *)
(* private-stream consumer, and HTTP handlers that reconcile, cancel or    *)
(* panic-stop (src/app/server.py).                                         *)
(*                                                                         *)
(* A thread is a list of jobs.  One job is the code between two points at  *)
(* which another thread can get in: a request to the venue, or the release *)
(* of DB_LOCK.  A job replaces itself by the jobs the code does next.      *)
(***************************************************************************)
EXTENDS Naturals, Sequences

CONSTANTS
    Qty,        \* number of fills that complete the entry
    Http,       \* HTTP handler threads
    Requests,   \* what they may be asked: subset of {"reconcile","cancel","panic"}
    Expiry,     \* statuses with which the venue may end an entry by itself
    Faults,     \* what may go wrong: subset of FaultKinds
    Budgets     \* bound on HTTP requests and faults: a behaviour stays within one

FaultKinds == {"post", "protect", "cancel", "query", "event", "expiry"}

ASSUME OmsAssumption ==
    /\ Qty \in Nat \ {0}
    /\ Budgets # {} /\ Budgets \subseteq [calls : Nat, faults : Nat]
    /\ Requests \subseteq {"reconcile", "cancel", "panic"}
    /\ Http \cap {"workflow", "stream"} = {}
    /\ Expiry \subseteq {"EXPIRED", "EXPIRED_IN_MATCH"}
    /\ Faults \subseteq FaultKinds

Orders == {"entry", "SL", "TP"}
Sibling(c) == IF c = "SL" THEN "TP" ELSE "SL"

\* The rows of some orders as the queries return them: the children in the
\* order of their creation, all orders newest first.
Only(o, some) == IF o \in some THEN <<o>> ELSE <<>>
OldestFirst(some) == Only("SL", some) \o Only("TP", some)
NewestFirst(some) == Only("TP", some) \o Only("SL", some) \o Only("entry", some)

Procs == {"workflow", "stream"} \cup Http

VARIABLES
    venue,    \* venue[o]: status and executed quantity at the exchange
    pos,      \* position held at the exchange
    events,   \* ORDER_TRADE_UPDATE events on their way to the consumer
    row,      \* row[o]: status, venue_status and reconcile_status in the table
    job,      \* job[p]: what thread p has left to do
    outcome,  \* how the workflow ended
    guardOk,  \* entry_canceled /\ protection_cancels_ok, in the guard
    alerts,   \* critical alerts raised
    calls, faults

vars == <<venue, pos, events, row, job, outcome, guardOk, alerts, calls, faults>>
ghosts == <<outcome, guardOk, alerts, calls>>

-----------------------------------------------------------------------------
(* Statuses. *)

\* PARTIALLY_FILLED is NEW with an executed quantity: no code treats it otherwise.
Open == {"NEW"}
Dead == {"CANCELED", "EXPIRED", "EXPIRED_IN_MATCH"}
Terminal == Dead \cup {"FILLED"}
VenueStatuses == Open \cup Terminal \cup {"none"}

\* RECONCILE: the statuses reconcile_order treats as terminal; STREAM: those
\* the private-stream handler does.
RestTerminal == {"FILLED", "CANCELED", "EXPIRED"}
StreamTerminal == RestTerminal \cup {"EXPIRED_IN_MATCH"}

\* Mutant: an expired order is taken for a filled one.
ExpiredIsFilled(st) ==
    CASE st \in {"FILLED", "EXPIRED"} -> "filled"
      [] st \in Dead \ {"EXPIRED"} -> "canceled"
      [] OTHER -> "submitted"

\* binance_local_status_for_venue_status, without the testnet_/live_ prefix and
\* the protection_ infix, which the order's identity already says here.
LocalStatus(st) ==
    CASE st = "FILLED" -> "filled"
      [] st \in Dead -> "canceled"
      [] OTHER -> "submitted"

LocalStatuses == {"none", "submitted", "pending_reconcile", "filled",
                  "canceled", "protected_exit"}
ReconcileStatuses == {"none", "needs_reconcile", "reconciled"}
Cancelable == {"submitted", "pending_reconcile"}

Row(st, vs, rec) == [st |-> st, vs |-> vs, rec |-> rec]
NoRow == Row("none", "none", "none")
Exists(o) == row[o].st # "none"

-----------------------------------------------------------------------------
(* Jobs. *)

\* by says on whose behalf: it decides what a failed cancel does.
Job(op, o) == [op |-> op, o |-> o, st |-> "none", ex |-> 0, vs |-> "none",
               rec |-> "none", by |-> "none"]
Told(op, o, st, ex) == [Job(op, o) EXCEPT !.st = st, !.ex = ex]
CascadeJob(ex) == [Job("cascade", "entry") EXCEPT !.ex = ex]
Keep(o, vs, rec) == [Job("keep", o) EXCEPT !.vs = vs, !.rec = rec]
Persist(o, st, vs) == [Job("persist", o) EXCEPT !.st = st, !.vs = vs]
CancelJob(o, by, vs) == [Job("cancel", o) EXCEPT !.by = by, !.vs = vs]

Turn(p, op) == job[p] # <<>> /\ Head(job[p]).op = op
Then(p, jobs) == job' = [job EXCEPT ![p] = jobs \o Tail(@)]
Instead(p, jobs) == job' = [job EXCEPT ![p] = jobs]

\* The follow-ups that reconcile_order and handle_private_order_update run,
\* in this order, after writing what the venue said of o.
FollowUps(o, st, ex) ==
    IF o = "entry"
    THEN IF st \in Dead THEN <<CascadeJob(ex)>> ELSE <<>>
    ELSE (IF st = "FILLED" \/ ex > 0 THEN <<Job("sibling", o)>> ELSE <<>>)
         \o (IF st = "FILLED" THEN <<Job("exit", o)>> ELSE <<>>)

\* get_child_protection_orders: cancel jobs for some of the children.
CancelChildren(some, by) ==
    LET chosen == OldestFirst(some)
    IN  [i \in 1..Len(chosen) |-> CancelJob(chosen[i], by, "none")]

CancelableChildren == {c \in {"SL", "TP"} : row[c].st \in Cancelable}

Within(n, m) == \E b \in Budgets : n <= b.calls /\ m <= b.faults

Fault(kind) == kind \in Faults /\ Within(calls, faults + 1) /\ faults' = faults + 1
NoFault == UNCHANGED faults

\* The venue answers and emits an event for what it did to o.
VenueSets(o, st, ex) ==
    /\ venue' = [venue EXCEPT ![o] = [st |-> st, ex |-> ex]]
    /\ events' = Append(events, [o |-> o, st |-> st, ex |-> ex])

VenueQuiet == UNCHANGED <<venue, pos, events>>

Init ==
    /\ venue = [o \in Orders |-> [st |-> "none", ex |-> 0]]
    /\ pos = 0
    /\ events = <<>>
    /\ row = [o \in Orders |-> NoRow]
    /\ job = [p \in Procs |-> IF p = "workflow" THEN <<Job("post", "entry")>>
                                                ELSE <<>>]
    /\ outcome = "running"
    /\ guardOk = FALSE
    /\ alerts = {}
    /\ calls = 0
    /\ faults = 0

-----------------------------------------------------------------------------
(* update_order_state. *)

\* A call that passes no status writes back the status it has read in an
\* earlier lock scope.
Load(p) ==
    /\ Turn(p, "keep")
    /\ LET j == Head(job[p])
       IN  Then(p, IF Exists(j.o)
                   THEN <<[j EXCEPT !.op = "restore", !.st = row[j.o].st]>>
                   ELSE <<>>)
    /\ VenueQuiet /\ NoFault /\ UNCHANGED <<row, ghosts>>

Restore(p) ==
    /\ Turn(p, "restore")
    /\ LET j == Head(job[p])
       IN  row' = [row EXCEPT ![j.o] =
                     Row(j.st, IF j.vs = "none" THEN @.vs ELSE j.vs, j.rec)]
    /\ Then(p, <<>>)
    /\ VenueQuiet /\ NoFault /\ UNCHANGED ghosts

-----------------------------------------------------------------------------
(* reconcile_order: the row is read and GET /order answered, then written. *)

ReconcileAnswered(p) ==
    /\ Turn(p, "reconcile")
    /\ LET o == Head(job[p]).o
       IN  /\ row[o].st \in Cancelable
           /\ venue[o].st # "none"
           /\ Then(p, <<Told("store", o, venue[o].st, venue[o].ex)>>)
    /\ VenueQuiet /\ NoFault /\ UNCHANGED <<row, ghosts>>

\* The order does not exist at the venue, or the request fails; what is written
\* then is the venue status read before the request.
ReconcileFails(p) ==
    /\ Turn(p, "reconcile")
    /\ LET o == Head(job[p]).o
       IN  /\ row[o].st \in Cancelable
           /\ IF venue[o].st = "none" THEN NoFault ELSE Fault("query")
           /\ Then(p, <<Keep(o, row[o].vs, "needs_reconcile")>>)
    /\ VenueQuiet /\ UNCHANGED <<row, ghosts>>

\* Any other status is kept, and so is what its reconcile_status was.
ReconcileGeneric(p) ==
    /\ Turn(p, "reconcile")
    /\ LET o == Head(job[p]).o
       IN  /\ row[o].st \notin Cancelable
           /\ Then(p, IF Exists(o) THEN <<Keep(o, row[o].vs, row[o].rec)>>
                                   ELSE <<>>)
    /\ VenueQuiet /\ NoFault /\ UNCHANGED <<row, ghosts>>

Store(p) ==
    /\ Turn(p, "store")
    /\ LET j == Head(job[p])
       IN  /\ row' = [row EXCEPT ![j.o] =
                        Row(LocalStatus(j.st), j.st,
                            IF j.st \in RestTerminal THEN "reconciled"
                                                     ELSE "needs_reconcile")]
           /\ Then(p, FollowUps(j.o, j.st, j.ex))
    /\ VenueQuiet /\ NoFault /\ UNCHANGED ghosts

-----------------------------------------------------------------------------
(* The cascades. *)

\* Mutant: a partially filled entry loses its protections when it is canceled.
CascadeIgnoresFill(p) ==
    /\ Turn(p, "cascade")
    /\ Then(p, CancelChildren(CancelableChildren, "cascade"))
    /\ VenueQuiet /\ NoFault /\ UNCHANGED <<row, ghosts>>

\* cancel_child_protections_for_terminal_parent.
Cascade(p) ==
    /\ Turn(p, "cascade")
    /\ Then(p, IF Head(job[p]).ex > 0 THEN <<>>
               ELSE CancelChildren(CancelableChildren, "cascade"))
    /\ VenueQuiet /\ NoFault /\ UNCHANGED <<row, ghosts>>

\* cancel_sibling_protections_for_filled_child.
CancelSibling(p) ==
    /\ Turn(p, "sibling")
    /\ LET c == Sibling(Head(job[p]).o)
       IN  Then(p, IF row[c].st \in Cancelable
                   THEN <<CancelJob(c, "sibling", "none")>> ELSE <<>>)
    /\ VenueQuiet /\ NoFault /\ UNCHANGED <<row, ghosts>>

\* mark_parent_exited_by_protection: whatever the entry's own state is.
MarkExit(p) ==
    /\ Turn(p, "exit")
    /\ row' = [row EXCEPT !["entry"] =
                 IF @ = NoRow THEN @
                 ELSE [@ EXCEPT !.st = "protected_exit", !.rec = "reconciled"]]
    /\ Then(p, <<>>)
    /\ VenueQuiet /\ NoFault /\ UNCHANGED ghosts

-----------------------------------------------------------------------------
(* cancel_testnet_order: the row is read and DELETE /order answered, then  *)
(* written.                                                                *)

\* What its caller does when the call raises.
AfterFailedCancel(p) ==
    LET j == Head(job[p])
    IN  CASE j.by = "panic" ->
               /\ Then(p, <<Keep(j.o, j.vs, "needs_reconcile")>>)
               /\ UNCHANGED <<guardOk, alerts>>
          [] j.by \in {"cascade", "sibling"} ->
               /\ Then(p, <<>>)
               /\ alerts' = alerts \cup {j.by}
               /\ UNCHANGED guardOk
          [] j.by = "guardChild" ->
               /\ Then(p, <<>>)
               /\ guardOk' = FALSE
               /\ UNCHANGED alerts
          [] OTHER ->
               /\ Then(p, <<>>)
               /\ UNCHANGED <<guardOk, alerts>>

CancelAnswered(p) ==
    /\ Turn(p, "cancel")
    /\ LET j == Head(job[p])
           v == venue[j.o]
       IN  /\ row[j.o].st \in Cancelable
           /\ v.st \in Open
           /\ VenueSets(j.o, "CANCELED", v.ex)
           /\ Then(p, <<[j EXCEPT !.op = "canceled", !.ex = v.ex]>>)
    /\ NoFault /\ UNCHANGED <<pos, row, ghosts>>

\* The row is not cancelable, the venue has no such open order, or the request
\* fails before the venue sees it.
CancelRefused(p) ==
    /\ Turn(p, "cancel")
    /\ LET o == Head(job[p]).o
       IN  IF row[o].st \in Cancelable /\ venue[o].st \in Open
           THEN Fault("cancel") ELSE NoFault
    /\ AfterFailedCancel(p)
    /\ VenueQuiet /\ UNCHANGED <<row, outcome, calls>>

\* The order is canceled but the answer is lost.
CancelAnswerLost(p) ==
    /\ Turn(p, "cancel")
    /\ LET o == Head(job[p]).o
       IN  /\ row[o].st \in Cancelable /\ venue[o].st \in Open
           /\ VenueSets(o, "CANCELED", venue[o].ex)
    /\ Fault("cancel")
    /\ AfterFailedCancel(p)
    /\ UNCHANGED <<pos, row, outcome, calls>>

Canceled(p) ==
    /\ Turn(p, "canceled")
    /\ LET j == Head(job[p])
       IN  /\ row' = [row EXCEPT ![j.o] =
                        Row("canceled", "CANCELED", "reconciled")]
           /\ Then(p, IF j.by = "guard"
                      THEN <<[Job("guardRead", j.o) EXCEPT !.ex = j.ex]>>
                      ELSE IF j.o = "entry"
                      THEN <<CascadeJob(j.ex)>>
                      ELSE <<>>)
    /\ VenueQuiet /\ NoFault /\ UNCHANGED ghosts

-----------------------------------------------------------------------------
(* The workflow thread: execute_order from the POST on. *)

Workflow == "workflow"

\* The statuses follow the try block: accepted and answered, accepted but the
\* answer lost, or raised before the venue saw it.
PostEntry ==
    /\ Turn(Workflow, "post")
    /\ \/ /\ VenueSets("entry", "NEW", 0)
          /\ NoFault
          /\ Then(Workflow, <<Persist("entry", "submitted", "NEW"),
                              Job("protect", "SL"), Job("protect", "TP"),
                              Job("reconcile", "entry")>>)
       \/ /\ VenueSets("entry", "NEW", 0)
          /\ Fault("post")
          /\ Then(Workflow, <<Persist("entry", "pending_reconcile", "UNKNOWN"),
                              Job("reconcile", "entry")>>)
       \/ /\ UNCHANGED <<venue, events>>
          /\ Fault("post")
          /\ Then(Workflow, <<Persist("entry", "pending_reconcile", "UNKNOWN"),
                              Job("reconcile", "entry")>>)
    /\ UNCHANGED <<pos, row, ghosts>>

PersistOrder ==
    /\ Turn(Workflow, "persist")
    /\ LET j == Head(job[Workflow])
       IN  row' = [row EXCEPT ![j.o] = Row(j.st, j.vs, "needs_reconcile")]
    /\ Then(Workflow, <<>>)
    /\ VenueQuiet /\ NoFault /\ UNCHANGED ghosts

\* Mutant: a lost answer to a protection submit leaves no row behind.
NoTrack(o) == <<>>

\* should_track_unknown_binance_submit and persist_unknown_protection_order.
TrackUnknown(o) == <<Persist(o, "submitted", "UNKNOWN")>>

\* submit_binance_protection_orders, one child: accepted and answered; accepted
\* or not, with no answer; rejected by the venue (HTTP 4xx).
PostProtection ==
    /\ Turn(Workflow, "protect")
    /\ LET c == Head(job[Workflow]).o
       IN  \/ /\ VenueSets(c, "NEW", 0)
              /\ NoFault
              /\ Then(Workflow, <<Persist(c, "submitted", "NEW")>>)
           \/ /\ VenueSets(c, "NEW", 0) \/ UNCHANGED <<venue, events>>
              /\ Fault("protect")
              /\ Instead(Workflow, TrackUnknown(c) \o <<Job("guard", "entry")>>)
           \/ /\ UNCHANGED <<venue, events>>
              /\ Fault("protect")
              /\ Instead(Workflow, <<Job("guard", "entry")>>)
    /\ UNCHANGED <<pos, row, ghosts>>

\* Mutant: the children are canceled although the entry's cancel was not
\* confirmed, because the guard forgets to look at the answer.
GuardStartBlind ==
    /\ Turn(Workflow, "guard")
    /\ alerts' = alerts \cup {"protection.submit_failed"}
    /\ Then(Workflow, <<Keep("entry", "none", "needs_reconcile"),
                        CancelJob("entry", "api", "none"),
                        Job("guardChildren", "entry"),
                        Job("guardEnd", "entry")>>)
    /\ VenueQuiet /\ NoFault /\ UNCHANGED <<row, outcome, guardOk, calls>>

\* handle_binance_protection_submit_failure.
GuardStart ==
    /\ Turn(Workflow, "guard")
    /\ alerts' = alerts \cup {"protection.submit_failed"}
    /\ Then(Workflow, <<Keep("entry", "none", "needs_reconcile"),
                        CancelJob("entry", "guard", "none"),
                        Job("guardEnd", "entry")>>)
    /\ VenueQuiet /\ NoFault /\ UNCHANGED <<row, outcome, guardOk, calls>>

\* update_order_state has read the row again, which may be another thread's by
\* now; the guard takes from it whether the entry is canceled.
GuardRead ==
    /\ Turn(Workflow, "guardRead")
    /\ LET j == Head(job[Workflow])
           r == row["entry"]
       IN  Then(Workflow, <<CascadeJob(j.ex)>>
                          \o (IF r.st = "canceled" \/ r.vs \in {"CANCELED", "EXPIRED"}
                              THEN <<Job("guardChildren", "entry")>> ELSE <<>>))
    /\ VenueQuiet /\ NoFault /\ UNCHANGED <<row, ghosts>>

AlreadyTerminal(c) ==
    /\ row[c].st \notin Cancelable
    /\ row[c].st = "canceled" \/ row[c].vs \in {"CANCELED", "EXPIRED"}

\* The entry is canceled: so is every child row that is not terminal already.
GuardChildren ==
    /\ Turn(Workflow, "guardChildren")
    /\ guardOk' = TRUE
    /\ Then(Workflow,
            CancelChildren({c \in {"SL", "TP"} : Exists(c) /\ ~AlreadyTerminal(c)},
                           "guardChild"))
    /\ VenueQuiet /\ NoFault /\ UNCHANGED <<row, outcome, alerts, calls>>

GuardEnd ==
    /\ Turn(Workflow, "guardEnd")
    /\ outcome' = "guarded"
    /\ Then(Workflow, <<Keep("entry", "none",
                             IF guardOk THEN "reconciled" ELSE "needs_reconcile")>>)
    /\ VenueQuiet /\ NoFault /\ UNCHANGED <<row, guardOk, alerts, calls>>

WorkflowReturns ==
    /\ job[Workflow] = <<>> /\ outcome = "running"
    /\ outcome' = "completed"
    /\ VenueQuiet /\ NoFault /\ UNCHANGED <<row, job, guardOk, alerts, calls>>

-----------------------------------------------------------------------------
(* The private-stream consumer: handle_private_order_update. *)

\* An order without a row is none of ours (yet), and the event is dropped.
StreamEvent ==
    /\ job["stream"] = <<>> /\ events # <<>>
    /\ LET e == Head(events)
       IN  IF Exists(e.o)
           THEN /\ row' = [row EXCEPT ![e.o] =
                             Row(LocalStatus(e.st), e.st,
                                 IF e.st \in StreamTerminal THEN "reconciled"
                                                            ELSE "needs_reconcile")]
                /\ Instead("stream", FollowUps(e.o, e.st, e.ex))
           ELSE UNCHANGED <<row, job>>
    /\ events' = Tail(events)
    /\ NoFault /\ UNCHANGED <<venue, pos, ghosts>>

\* The socket was down.
EventLost ==
    /\ events # <<>>
    /\ events' = Tail(events)
    /\ Fault("event")
    /\ UNCHANGED <<venue, pos, row, job, ghosts>>

-----------------------------------------------------------------------------
(* HTTP handlers. *)

Idle(h) == job[h] = <<>> /\ Within(calls + 1, faults) /\ calls' = calls + 1

RequestReconcile(h) ==
    /\ Idle(h) /\ "reconcile" \in Requests
    /\ \E o \in Orders : Exists(o) /\ Instead(h, <<Job("reconcile", o)>>)
    /\ VenueQuiet /\ NoFault /\ UNCHANGED <<row, outcome, guardOk, alerts>>

RequestCancel(h) ==
    /\ Idle(h) /\ "cancel" \in Requests
    /\ \E o \in Orders :
         row[o].st \in Cancelable /\ Instead(h, <<CancelJob(o, "api", "none")>>)
    /\ VenueQuiet /\ NoFault /\ UNCHANGED <<row, outcome, guardOk, alerts>>

\* emergency_panic_stop: cancel_open_binance_orders over a snapshot of the rows,
\* cancel_all_open_exchange_orders, reconcile_recent_orders.
RequestPanic(h) ==
    /\ Idle(h) /\ "panic" \in Requests
    /\ LET chosen == NewestFirst({o \in Orders : row[o].st \in Cancelable})
       IN  Instead(h, [i \in 1..Len(chosen) |->
                          CancelJob(chosen[i], "panic", row[chosen[i]].vs)]
                      \o <<Job("cancelAll", "entry"), Job("reconcileAll", "entry")>>)
    /\ VenueQuiet /\ NoFault /\ UNCHANGED <<row, outcome, guardOk, alerts>>

CancelAll(h) ==
    /\ Turn(h, "cancelAll")
    /\ LET isOpen(o) == venue[o].st \in Open
           hit == NewestFirst({o \in Orders : isOpen(o)})
       IN  \/ /\ venue' = [o \in Orders |->
                            IF isOpen(o) THEN [venue[o] EXCEPT !.st = "CANCELED"]
                                         ELSE venue[o]]
              /\ events' = events \o [i \in 1..Len(hit) |->
                            [o |-> hit[i], st |-> "CANCELED", ex |-> venue[hit[i]].ex]]
              /\ NoFault
           \/ /\ hit # <<>> /\ UNCHANGED <<venue, events>>
              /\ Fault("cancel")
    /\ Then(h, <<>>)
    /\ UNCHANGED <<pos, row, ghosts>>

ReconcileAll(h) ==
    /\ Turn(h, "reconcileAll")
    /\ LET chosen == NewestFirst({o \in Orders : Exists(o)})
       IN  Then(h, [i \in 1..Len(chosen) |-> Job("reconcile", chosen[i])])
    /\ VenueQuiet /\ NoFault /\ UNCHANGED <<row, ghosts>>

-----------------------------------------------------------------------------
(* The venue (external). *)

FillEntry ==
    /\ venue["entry"].st \in Open
    /\ LET ex == venue["entry"].ex + 1
       IN  VenueSets("entry", IF ex = Qty THEN "FILLED" ELSE "NEW", ex)
    /\ pos' = pos + 1
    /\ NoFault /\ UNCHANGED <<row, job, ghosts>>

ExpireEntry ==
    /\ venue["entry"].st \in Open
    /\ \E st \in Expiry : VenueSets("entry", st, venue["entry"].ex)
    /\ Fault("expiry") /\ UNCHANGED <<pos, row, job, ghosts>>

\* The stop price trades: a close-position order sells the whole position, or
\* expires when there is none.
TriggerChild ==
    \E c \in {"SL", "TP"} :
        /\ venue[c].st = "NEW"
        /\ IF pos > 0 THEN VenueSets(c, "FILLED", pos)
                      ELSE VenueSets(c, "EXPIRED", 0)
        /\ pos' = 0
        /\ NoFault /\ UNCHANGED <<row, job, ghosts>>

-----------------------------------------------------------------------------

ThreadStep(p) ==
    \/ Load(p) \/ Restore(p)
    \/ ReconcileAnswered(p) \/ ReconcileFails(p) \/ ReconcileGeneric(p) \/ Store(p)
    \/ Cascade(p) \/ CancelSibling(p) \/ MarkExit(p)
    \/ CancelAnswered(p) \/ CancelRefused(p) \/ CancelAnswerLost(p) \/ Canceled(p)

WorkflowStep ==
    \/ PostEntry \/ PersistOrder \/ PostProtection
    \/ GuardStart \/ GuardRead \/ GuardChildren \/ GuardEnd \/ WorkflowReturns

HttpStep(h) ==
    \/ RequestReconcile(h) \/ RequestCancel(h) \/ RequestPanic(h)
    \/ CancelAll(h) \/ ReconcileAll(h)

Next ==
    \/ \E p \in Procs : ThreadStep(p)
    \/ WorkflowStep
    \/ StreamEvent \/ EventLost
    \/ \E h \in Http : HttpStep(h)
    \/ FillEntry \/ ExpireEntry \/ TriggerChild

Spec == Init /\ [][Next]_vars

-----------------------------------------------------------------------------
(* Properties the code keeps. *)

JobOps == {"post", "persist", "protect", "reconcile", "store", "keep", "restore",
           "cancel", "canceled", "cascade", "sibling", "exit", "guard",
           "guardRead", "guardChildren", "guardEnd", "cancelAll", "reconcileAll"}

Behalves == {"none", "api", "panic", "cascade", "sibling", "guard", "guardChild"}

JobType ==
    [op : JobOps, o : Orders, st : VenueStatuses \cup LocalStatuses, ex : 0..Qty,
     vs : VenueStatuses \cup {"UNKNOWN"}, rec : ReconcileStatuses, by : Behalves]

EventType == [o : Orders, st : VenueStatuses \ {"none"}, ex : 0..Qty]

TypeOK ==
    /\ venue \in [Orders -> [st : VenueStatuses, ex : 0..Qty]]
    /\ pos \in 0..Qty
    /\ events \in Seq(EventType)
    /\ row \in [Orders -> [st : LocalStatuses,
                           vs : VenueStatuses \cup {"UNKNOWN"},
                           rec : ReconcileStatuses]]
    /\ job \in [Procs -> Seq(JobType)]
    /\ outcome \in {"running", "completed", "guarded"}
    /\ guardOk \in BOOLEAN
    /\ alerts \subseteq {"cascade", "sibling", "protection.submit_failed"}
    /\ Within(calls, faults)

\* Whatever answers and events arrive late or overwrite newer news, a terminal
\* local status and a reconciled mark are never ahead of the exchange: the
\* order really is filled, really is dead, really is terminal.  (The mark that
\* mark_parent_exited_by_protection sets is the subject of ExitMeansClosed.)
LocalTerminalIsTrue ==
    \A o \in Orders :
        /\ row[o].st = "filled" => venue[o].st = "FILLED"
        /\ row[o].st = "canceled" => venue[o].st \in Dead
        /\ row[o].rec = "reconciled" =>
             \/ venue[o].st \in Terminal
             \/ o = "entry" /\ \E c \in {"SL", "TP"} : venue[c].st = "FILLED"

\* A cascade cancels protections only for an entry that is dead with nothing
\* filled: news of the entry may be old when it is acted upon, but a position
\* never loses its stop to the cleanup of its entry (the
\* parent_terminal_with_partial_fill_keep_protection branch).
CascadeOnlyUnfilled ==
    \A p \in Procs : \A i \in 1..Len(job[p]) :
        (job[p][i].op = "cancel" /\ job[p][i].by = "cascade") =>
            venue["entry"].st \in Dead /\ venue["entry"].ex = 0

\* When the workflow has ended, however it ended, every order that is open at
\* the exchange has a row that reconcile and panic stop can find, although the
\* answer to its POST may have been lost.
NothingForgotten ==
    job[Workflow] = <<>> =>
        \A o \in Orders : venue[o].st \in Open => Exists(o)

\* When the protection-failure guard reports entry_canceled, nothing of the
\* bundle is left open at the exchange.
GuardLeavesNothingOpen ==
    (outcome = "guarded" /\ guardOk) =>
        \A o \in Orders : venue[o].st \notin Open

\* What the rows tell at every moment: they are of their types, they know every
\* open order, and a guard that reports success has left none open.
RowsSound == TypeOK /\ NothingForgotten /\ GuardLeavesNothingOpen

\* The guard cancels a protection on its own account only after the exchange
\* has confirmed that the entry is canceled (README "cancels any already-
\* submitted child protection orders only after the entry cancellation is
\* confirmed").
GuardKeepsUntilConfirmed ==
    [][\A c \in {"SL", "TP"} :
         (/\ Turn(Workflow, "cancel") /\ Head(job[Workflow]).by = "guardChild"
          /\ venue[c].st \in Open /\ venue'[c].st = "CANCELED")
           => venue["entry"].st \in Dead]_vars

-----------------------------------------------------------------------------
(* Properties the repository states and the code does not keep. *)

Quiet == events = <<>> /\ \A p \in Procs : job[p] = <<>>

Protected == \E c \in {"SL", "TP"} : venue[c].st \in Open

\* An entry placed by a workflow that completed has its protection orders
\* (README "live/testnet placement submits audited ... close-position
\* protection orders"), or something asks for attention: an alert, or the
\* needs_reconcile mark that the watchdog reports.
CompletedIsProtected ==
    (outcome = "completed" /\ Quiet /\ pos > 0) =>
        Protected \/ alerts # {} \/ row["entry"].rec = "needs_reconcile"

\* The guard, too, keeps the protections of an entry that has fills: a test
\* requires that of every canceled parent ("partial-fill reconcile should keep
\* child protection active").
GuardKeepsFilledProtection ==
    \A i \in 1..Len(job[Workflow]) :
        (job[Workflow][i].op = "cancel" /\ job[Workflow][i].by = "guardChild") =>
            venue["entry"].ex = 0

\* No protection order survives an entry that was canceled unfilled, or a
\* sibling that filled, once every message has been handled.
NoOrphanProtection ==
    (outcome # "running" /\ Quiet /\ pos = 0 /\ venue["entry"].st \in Terminal)
        => ~Protected \/ alerts # {}

\* A parent marked as exited by a protection is finished at the exchange.
ExitMeansClosed ==
    row["entry"].st = "protected_exit" => venue["entry"].st \notin Open

\* A row whose local status is terminal does not ask for a reconcile that
\* nothing will ever perform: reconcile_order queries the venue only for the
\* cancelable statuses and otherwise keeps the mark.
NoStuckRow ==
    (outcome # "running" /\ Quiet) =>
        \A o \in Orders : row[o].st \in {"filled", "canceled"}
                            => row[o].rec # "needs_reconcile"

=============================================================================
