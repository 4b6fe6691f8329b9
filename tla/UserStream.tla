----------------------------- MODULE UserStream -----------------------------
(***************************************************************************)
(* The private user-data stream (src/app/server.py): HTTP handlers (and    *)
(* the recovery) that start, keep alive, close and inspect it, and the one *)
(* consumer thread they share through USER_STREAM_THREAD, USER_STREAM_STOP *)
(* and USER_STREAM_LOCK, a lock that is not reentrant.                     *)
(***************************************************************************)
EXTENDS Naturals

CONSTANTS
    Handlers,   \* threads that handle requests
    Requests,   \* Requests[h]: what h is asked, a subset of RequestKinds
    NoHandler

RequestKinds == {"start", "keepalive", "close", "status"}

ASSUME UserStreamAssumption ==
    /\ Requests \in [Handlers -> SUBSET RequestKinds]
    /\ NoHandler \notin Handlers

VARIABLES
    lock,       \* who holds USER_STREAM_LOCK
    stop,       \* USER_STREAM_STOP
    consumer,   \* where the consumer thread stands
    key,        \* is a listenKey stored?
    connected,  \* binance_user_stream_connected
    spawned,    \* ghost: has this process ever started a consumer?
    pc          \* pc[h]: where handler h stands

vars == <<lock, stop, consumer, key, connected, spawned, pc>>

ConsumerSteps == {"none", "connecting", "reading", "backoff", "exiting"}
HandlerSteps == {"idle", "create", "store", "readKey", "lock", "spawn", "put",
                 "alive", "delete", "clear", "setStop", "status"}

TypeOK ==
    /\ lock \in Handlers \cup {NoHandler}
    /\ stop \in BOOLEAN /\ key \in BOOLEAN /\ connected \in BOOLEAN
    /\ spawned \in BOOLEAN
    /\ consumer \in ConsumerSteps
    /\ pc \in [Handlers -> HandlerSteps]

\* The listenKey and the connected flag of a process that crashed may still be
\* stored: they are settings, and init_db inserts its defaults OR IGNORE.
Init ==
    /\ lock = NoHandler /\ stop = FALSE /\ consumer = "none"
    /\ key \in BOOLEAN /\ connected \in BOOLEAN /\ spawned = FALSE
    /\ pc = [h \in Handlers |-> "idle"]

-----------------------------------------------------------------------------

Alive == consumer # "none"

At(h, step) == pc[h] = step
Goto(h, step) == pc' = [pc EXCEPT ![h] = step]

\* Each operation begins with its request to the venue; a status call goes
\* straight to the lock.
Request(h) ==
    /\ At(h, "idle")
    /\ \E r \in Requests[h] :
         Goto(h, CASE r = "start" -> "create"
                   [] r = "keepalive" -> IF key THEN "put" ELSE "idle"
                   [] r = "close" -> IF key THEN "delete" ELSE "clear"
                   [] r = "status" -> "status")
    /\ UNCHANGED <<lock, stop, consumer, key, connected, spawned>>

\* Every request to the venue has a timeout: it is answered or it raises.
VenueAnswers(h) ==
    /\ \/ At(h, "create") /\ Goto(h, "store")
       \/ At(h, "put") /\ Goto(h, "alive")
       \/ At(h, "delete") /\ Goto(h, "clear")
    /\ UNCHANGED <<lock, stop, consumer, key, connected, spawned>>

VenueRaises(h) ==
    /\ pc[h] \in {"create", "put", "delete"}
    /\ Goto(h, "idle")
    /\ UNCHANGED <<lock, stop, consumer, key, connected, spawned>>

\* start_binance_user_stream.
StoreKey(h) ==
    /\ At(h, "store")
    /\ key' = TRUE /\ connected' = FALSE
    /\ Goto(h, "readKey")
    /\ UNCHANGED <<lock, stop, consumer, spawned>>

\* keepalive_binance_user_stream: current_user_stream_thread_alive takes the
\* lock and releases it.
KeepaliveChecks(h) ==
    /\ At(h, "alive") /\ lock = NoHandler
    /\ Goto(h, IF Alive THEN "status" ELSE "readKey")
    /\ UNCHANGED <<lock, stop, consumer, key, connected, spawned>>

\* start_binance_user_stream_consumer.
ReadKey(h) ==
    /\ At(h, "readKey")
    /\ Goto(h, IF key THEN "lock" ELSE "idle")
    /\ UNCHANGED <<lock, stop, consumer, key, connected, spawned>>

\* With a consumer alive, the status is computed before the lock is released.
TakeLock(h) ==
    /\ At(h, "lock") /\ lock = NoHandler
    /\ lock' = h
    /\ Goto(h, IF Alive THEN "status" ELSE "spawn")
    /\ UNCHANGED <<stop, consumer, key, connected, spawned>>

Spawn(h) ==
    /\ At(h, "spawn")
    /\ stop' = FALSE
    /\ consumer' = "connecting" /\ spawned' = TRUE
    /\ lock' = NoHandler
    /\ Goto(h, "status")
    /\ UNCHANGED <<key, connected>>

\* close_binance_user_stream.
ClearKey(h) ==
    /\ At(h, "clear")
    /\ key' = FALSE /\ connected' = FALSE
    /\ Goto(h, "setStop")
    /\ UNCHANGED <<lock, stop, consumer, spawned>>

\* Mutant: the consumer is joined before the stop event is set.
SetStopJoins(h) ==
    /\ At(h, "setStop") /\ ~Alive
    /\ stop' = TRUE
    /\ Goto(h, "status")
    /\ UNCHANGED <<lock, consumer, key, connected, spawned>>

SetStop(h) ==
    /\ At(h, "setStop")
    /\ stop' = TRUE
    /\ Goto(h, "status")
    /\ UNCHANGED <<lock, consumer, key, connected, spawned>>

\* binance_user_stream_status: current_user_stream_thread_alive needs the lock,
\* whoever holds it.
Status(h) ==
    /\ At(h, "status") /\ lock = NoHandler
    /\ Goto(h, "idle")
    /\ UNCHANGED <<lock, stop, consumer, key, connected, spawned>>

-----------------------------------------------------------------------------
(* binance_user_stream_consumer_loop. *)

Connected ==
    /\ consumer = "connecting"
    /\ consumer' = "reading" /\ connected' = TRUE
    /\ UNCHANGED <<lock, stop, key, spawned, pc>>

\* handle_binance_user_stream_event: the venue says that the key has expired.
ListenKeyExpired ==
    /\ consumer = "reading"
    /\ connected' = FALSE
    /\ UNCHANGED <<lock, stop, consumer, key, spawned, pc>>

\* A connect or a recv raises; the stop event ends the loop at once.
ConnectionFails ==
    /\ consumer \in {"connecting", "reading"}
    /\ consumer' = IF stop THEN "exiting" ELSE "backoff"
    /\ connected' = FALSE
    /\ UNCHANGED <<lock, stop, key, spawned, pc>>

\* The backoff is over, and the loop condition is evaluated.
Reconnect ==
    /\ consumer = "backoff"
    /\ consumer' = IF stop THEN "exiting" ELSE "connecting"
    /\ connected' = FALSE
    /\ UNCHANGED <<lock, stop, key, spawned, pc>>

\* Mutant: recv has no timeout, and a silent connection blocks for ever.
RecvBlocks ==
    /\ consumer = "reading" /\ stop
    /\ UNCHANGED vars

\* recv times out after five seconds at the latest and the loop sees the event.
ConsumerStops ==
    /\ consumer = "reading" /\ stop
    /\ consumer' = "exiting"
    /\ UNCHANGED <<lock, stop, key, connected, spawned, pc>>

\* Mutant: the last write of the consumer is missing.
ExitsSilently ==
    /\ consumer = "exiting"
    /\ consumer' = "none"
    /\ UNCHANGED <<lock, stop, key, connected, spawned, pc>>

ConsumerExits ==
    /\ consumer = "exiting"
    /\ consumer' = "none" /\ connected' = FALSE
    /\ UNCHANGED <<lock, stop, key, spawned, pc>>

HandlerStep(h) ==
    \/ VenueAnswers(h) \/ VenueRaises(h)
    \/ StoreKey(h) \/ KeepaliveChecks(h)
    \/ ReadKey(h) \/ TakeLock(h) \/ Spawn(h)
    \/ ClearKey(h) \/ SetStop(h) \/ Status(h)

ConsumerStep ==
    \/ Connected \/ ListenKeyExpired \/ ConnectionFails \/ Reconnect
    \/ ConsumerStops \/ ConsumerExits

Next ==
    \/ \E h \in Handlers : Request(h) \/ HandlerStep(h)
    \/ ConsumerStep

\* A connect has an outcome.
ConnectEnds == consumer = "connecting" /\ (Connected \/ ConnectionFails)

\* Threads are scheduled, requests to the venue and connects have timeouts, and
\* a lock that is free again and again is obtained.  Nobody has to make a
\* request, and an established connection need not fail.
Fairness ==
    /\ \A h \in Handlers : SF_vars(HandlerStep(h))
    /\ WF_vars(ConnectEnds) /\ WF_vars(Reconnect)
    /\ WF_vars(ConsumerStops) /\ WF_vars(ConsumerExits)

Spec == Init /\ [][Next]_vars /\ Fairness

-----------------------------------------------------------------------------
(* Properties the code keeps. *)

\* The lock keeps two handlers from starting two consumers: while one is about
\* to, no consumer is alive.
OneConsumer ==
    \A h \in Handlers : pc[h] = "spawn" => lock = h /\ ~Alive

\* A consumer that is gone, however its loop was left and whatever start or
\* close wrote meanwhile, never leaves the connected flag behind that the
\* go-live gate and the watchdog read.
GoneMeansDisconnected == (consumer = "none" /\ spawned) => ~connected

\* One consumer at most, and none whose end the gate and the watchdog miss.
ConsumerSound == OneConsumer /\ GoneMeansDisconnected

\* Closing the stream stops its consumer, from wherever in its reconnect loop
\* it is, unless somebody starts it again.
StopIsObeyed == stop ~> (consumer = "none" \/ ~stop)

\* A handler asks for the status while it holds the lock that the status takes.
SelfDeadlock(h) == lock = h /\ pc[h] = "status"

\* Every request returns, whatever the others ask and however often the socket
\* fails, as long as nobody has walked into the self-deadlock of NoSelfDeadlock.
RequestsReturn ==
    \A h \in Handlers :
        (pc[h] # "idle") ~> (pc[h] = "idle" \/ \E g \in Handlers : SelfDeadlock(g))

-----------------------------------------------------------------------------
(* A property the repository states and the code does not keep. *)

\* "start/keepalive/close the Binance user-data listenKey" (README): no handler
\* waits for the lock that it holds itself, and with it everybody that asks for
\* the status.
NoSelfDeadlock == \A h \in Handlers : ~SelfDeadlock(h)

=============================================================================
