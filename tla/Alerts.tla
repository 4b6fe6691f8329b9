------------------------------- MODULE Alerts -------------------------------
(***************************************************************************)
(* Alerts and their delivery (src/app/server.py).  raise_alert and         *)
(* resolve_alert change the row of a key in one transaction under DB_LOCK  *)
(* and send the notice of the change after it, channel by channel.  The    *)
(* watchdog reads one condition after the other and raises or resolves     *)
(* its alert; it runs in every thread that reports the state: several      *)
(* dashboards, the drill, reports, and a panic stop.                       *)
(***************************************************************************)
EXTENDS Naturals, Sequences, Functions

CONSTANTS
    Threads,         \* threads that run the watchdog or a request
    WatchOrder,      \* the watched keys, in the order they are looked at
    StopKey,         \* risk.emergency_stop, one of them
    PanicKey,        \* panic_stop.active, raised and resolved by requests only
    Channels,        \* where notices are sent to
    Ready,           \* channels that are enabled and configured
    Loud,            \* keys whose severity reaches ALERT_WEBHOOK_MIN_SEVERITY
    NotifyResolved,  \* ALERT_WEBHOOK_NOTIFY_RESOLVED
    MaxChanges,      \* bound on changes of the watched conditions
    MaxRequests,     \* bound on manual resolves, panic stops and resets
    MaxDeaths        \* bound on kills of the process

Watched == Range(WatchOrder)
Keys == Watched \cup {PanicKey}

ASSUME AlertsAssumption ==
    /\ WatchOrder \in Seq(Watched) /\ StopKey \in Watched /\ PanicKey \notin Watched
    /\ Ready \subseteq Channels /\ Loud \subseteq Keys
    /\ NotifyResolved \in BOOLEAN
    /\ MaxChanges \in Nat /\ MaxRequests \in Nat /\ MaxDeaths \in Nat

VARIABLES
    holds,     \* the watched conditions, as the watchdog would read them
    alert,     \* the row of each key: status, how often it was opened or resolved
    thread,    \* each thread: what it has still to do, the notices it has to send first
    told,      \* notices recorded in alert_deliveries
    unsent,    \* notices a kill has thrown away
    changes, requests, deaths

alertVars == <<holds, alert, thread, told, unsent, changes, requests, deaths>>

Alert == [status : {"none", "open", "acknowledged", "resolved"}, n : Nat]
Step == [key : Keys, do : {"look", "raise", "resolve"}]
Notice == [key : Keys, n : Nat, channel : Channels]

Active(k) == alert[k].status \in {"open", "acknowledged"}

\* An alert that is active has been opened once more than resolved.
AlertsTypeOK ==
    /\ holds \in [Watched -> BOOLEAN]
    /\ alert \in [Keys -> Alert]
    /\ \A k \in Keys : Active(k) <=> alert[k].n % 2 = 1
    /\ thread \in [Threads -> [todo : Seq(Step), sending : SUBSET Notice]]
    /\ told \subseteq Notice /\ unsent \subseteq Notice

AlertsInit ==
    /\ holds = [k \in Watched |-> FALSE]
    /\ alert = [k \in Keys |-> [status |-> "none", n |-> 0]]
    /\ thread = [t \in Threads |-> [todo |-> <<>>, sending |-> {}]]
    /\ told = {} /\ unsent = {}
    /\ changes = 0 /\ requests = 0 /\ deaths = 0

\* alert_delivery_channels, should_send_alert_delivery.
Sends(k, transition, c) ==
    /\ c \in Ready /\ k \in Loud
    /\ transition = "resolved" => NotifyResolved

\* deliver_alert: the notices of the n-th change of alert k, one for each channel
\* it is due on.  The code's order of the channels is fixed; here it is any.
Notices(k, n, transition) ==
    {[key |-> k, n |-> n, channel |-> c] : c \in {d \in Ready : Sends(k, transition, d)}}

-----------------------------------------------------------------------------
(* Threads. *)

Watch == [i \in DOMAIN WatchOrder |-> [key |-> WatchOrder[i], do |-> "look"]]

Rests(t) == thread[t].todo = <<>> /\ thread[t].sending = {}

Does(t, todo) == thread' = [thread EXCEPT ![t] = [todo |-> todo, sending |-> {}]]

StartWatch(t) ==
    /\ Rests(t)
    /\ Does(t, Watch)
    /\ UNCHANGED <<holds, alert, told, unsent, changes, requests, deaths>>

RequestArrives ==
    /\ requests < MaxRequests
    /\ requests' = requests + 1
    /\ UNCHANGED <<alert, told, unsent, changes, deaths>>

\* emergency_panic_stop: the flag, then a watchdog run, then its own alert.
PanicRequest(t) ==
    /\ Rests(t) /\ RequestArrives
    /\ holds' = [holds EXCEPT ![StopKey] = TRUE]
    /\ Does(t, Append(Watch, [key |-> PanicKey, do |-> "raise"]))

\* reset_emergency_stop: the flag, then both alerts.
ResetRequest(t) ==
    /\ Rests(t) /\ RequestArrives
    /\ holds' = [holds EXCEPT ![StopKey] = FALSE]
    /\ Does(t, <<[key |-> StopKey, do |-> "resolve"], [key |-> PanicKey, do |-> "resolve"]>>)

\* resolve_alert_by_id: the key is read, then resolved.
ResolveRequest(t, k) ==
    /\ Rests(t) /\ RequestArrives
    /\ alert[k].status # "none"
    /\ Does(t, <<[key |-> k, do |-> "resolve"]>>)
    /\ UNCHANGED holds

Next1(t) == Head(thread[t].todo)

Turn(t, do) ==
    /\ thread[t].todo # <<>> /\ thread[t].sending = {} /\ Next1(t).do = do

\* The watchdog reads a condition; the alert is written afterwards.
Look(t) ==
    /\ Turn(t, "look")
    /\ LET k == Next1(t).key IN
       thread' = [thread EXCEPT ![t].todo[1].do = IF holds[k] THEN "raise" ELSE "resolve"]
    /\ UNCHANGED <<holds, alert, told, unsent, changes, requests, deaths>>

\* The row is updated with no change anyone is told of.
Keep(t) ==
    /\ thread' = [thread EXCEPT ![t].todo = Tail(@)]
    /\ UNCHANGED <<holds, alert, told, unsent, changes, requests, deaths>>

\* The row is opened or resolved, and the notices are to be sent.
ChangeAlert(t, k, status, transition) ==
    /\ alert' = [alert EXCEPT ![k] = [status |-> status, n |-> @.n + 1]]
    /\ thread' = [thread EXCEPT ![t] =
         [todo |-> Tail(@.todo), sending |-> Notices(k, alert[k].n + 1, transition)]]
    /\ UNCHANGED <<holds, told, unsent, changes, requests, deaths>>

\* Mutant: raising an alert that is open sends its notice again.
RaiseAgain(t) ==
    /\ Turn(t, "raise")
    /\ LET k == Next1(t).key IN
       IF Active(k)
       THEN /\ thread' = [thread EXCEPT ![t] =
                 [todo |-> Tail(@.todo), sending |-> Notices(k, alert[k].n, "opened")]]
            /\ UNCHANGED <<holds, alert, told, unsent, changes, requests, deaths>>
       ELSE ChangeAlert(t, k, "open", "opened")

\* raise_alert.
Raise(t) ==
    /\ Turn(t, "raise")
    /\ LET k == Next1(t).key IN
       IF Active(k) THEN Keep(t) ELSE ChangeAlert(t, k, "open", "opened")

\* Mutant: an acknowledged alert is not resolved.
ResolveOpen(t) ==
    /\ Turn(t, "resolve")
    /\ LET k == Next1(t).key IN
       IF alert[k].status = "open" THEN ChangeAlert(t, k, "resolved", "resolved") ELSE Keep(t)

\* resolve_alert.
Resolve(t) ==
    /\ Turn(t, "resolve")
    /\ LET k == Next1(t).key IN
       IF Active(k) THEN ChangeAlert(t, k, "resolved", "resolved") ELSE Keep(t)

\* deliver_alert_channel: sent or failed, the attempt is recorded once.
Send(t) ==
    /\ \E notice \in thread[t].sending :
          /\ told' = told \cup {notice}
          /\ thread' = [thread EXCEPT ![t].sending = @ \ {notice}]
    /\ UNCHANGED <<holds, alert, unsent, changes, requests, deaths>>

\* acknowledge_alert.
Acknowledge(k) ==
    /\ alert[k].status = "open"
    /\ alert' = [alert EXCEPT ![k].status = "acknowledged"]
    /\ UNCHANGED <<holds, thread, told, unsent, changes, requests, deaths>>

\* A watched condition begins or ends.
ConditionChanges(k) ==
    /\ k # StopKey /\ changes < MaxChanges
    /\ changes' = changes + 1
    /\ holds' = [holds EXCEPT ![k] = ~@]
    /\ UNCHANGED <<alert, thread, told, unsent, requests, deaths>>

\* The process is killed and started again: nothing sends its notices.
Die ==
    /\ deaths < MaxDeaths
    /\ deaths' = deaths + 1
    /\ unsent' = unsent \cup UNION {thread[t].sending : t \in Threads}
    /\ thread' = [t \in Threads |-> [todo |-> <<>>, sending |-> {}]]
    /\ UNCHANGED <<holds, alert, told, changes, requests>>

ThreadStep(t) == StartWatch(t) \/ Look(t) \/ Raise(t) \/ Resolve(t) \/ Send(t)

AlertsNext ==
    \/ \E t \in Threads :
        \/ ThreadStep(t) \/ PanicRequest(t) \/ ResetRequest(t)
        \/ \E k \in Keys : ResolveRequest(t, k)
    \/ \E k \in Keys : Acknowledge(k)
    \/ \E k \in Watched : ConditionChanges(k)
    \/ Die

AlertsSpec == AlertsInit /\ [][AlertsNext]_alertVars

\* An open dashboard asks about once a minute for readiness and for the go-live
\* gate, which both run the watchdog, and every delivery has a timeout.
AlertsFairness == \A t \in Threads : WF_alertVars(ThreadStep(t))

AlertsLiveSpec == AlertsSpec /\ AlertsFairness

-----------------------------------------------------------------------------
Due(k, n) == IF n % 2 = 1 THEN "opened" ELSE "resolved"

\* However many watchdogs and requests write one alert at the same time, each of
\* its openings and resolutions is told once: no two threads send the same
\* notice, and none is sent that was recorded before.
ToldOnce ==
    \A t \in Threads : \A notice \in thread[t].sending :
        /\ notice \notin told
        /\ \A u \in Threads \ {t} : notice \notin thread[u].sending

\* Every opening and resolution is told on every channel that is due, unless a
\* kill threw the notice away.
EveryChangeTold ==
    \A k \in Keys : \A n \in 1..alert[k].n : \A c \in Ready :
        Sends(k, Due(k, n), c) =>
            \/ [key |-> k, n |-> n, channel |-> c] \in told \cup unsent
            \/ \E t \in Threads : [key |-> k, n |-> n, channel |-> c] \in thread[t].sending

\* Notices under concurrent watchdogs, requests and kills: each change told, once.
NoticesSound == AlertsTypeOK /\ ToldOnce /\ EveryChangeTold

\* Watchdogs act on what they have read before, beside requests that resolve
\* alerts by hand; once the conditions stay as they are, the alerts agree with
\* them for good.
AlertsSettle == \A k \in Watched : <>[](Active(k) <=> holds[k])
=============================================================================
