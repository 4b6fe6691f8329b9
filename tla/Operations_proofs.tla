--------------------------- MODULE Operations_proofs ---------------------------
(***************************************************************************)
(* Proofs about the threads and scripts that have to come to an end, each  *)
(* for any values of its constants: the private user-data stream, the      *)
(* server live-readiness runner, the alerts, the AI operator, the live     *)
(* pilot script, the drill runner script.  They share no state.  What is   *)
(* proved is their safety; Init, Next, vars and Spec are those of          *)
(* UserStream.                                                             *)
(***************************************************************************)
EXTENDS UserStream, ReadinessRunner, Alerts, AiOperator, LivePilot, DrillRunner,
        SequenceTheorems, TLAPS

-----------------------------------------------------------------------------
(***************************************************************************)
(* The user-data stream: the consumer thread is alone, for any number of   *)
(* handlers.                                                               *)
(***************************************************************************)
\* While a handler is between taking the lock and releasing it, it is about to
\* spawn a consumer, and there is none; or it waits for ever.
LockInv ==
    /\ OneConsumer
    /\ \A h \in Handlers : lock = h => pc[h] \in {"spawn", "status"}

StreamInv == TypeOK /\ LockInv /\ GoneMeansDisconnected

LEMMA StreamInvInit == Init => StreamInv
BY UserStreamAssumption
   DEF Init, StreamInv, TypeOK, LockInv, OneConsumer, GoneMeansDisconnected,
       ConsumerSteps, HandlerSteps, Alive

\* A request goes to one of four steps, whatever is asked.
LEMMA RequestTarget ==
    ASSUME NEW h \in Handlers, Request(h)
    PROVE  \E step \in {"create", "put", "idle", "delete", "clear", "status"} :
               pc' = [pc EXCEPT ![h] = step]
<1>1. PICK r \in Requests[h] :
         pc' = [pc EXCEPT ![h] =
                  CASE r = "start" -> "create"
                    [] r = "keepalive" -> IF key THEN "put" ELSE "idle"
                    [] r = "close" -> IF key THEN "delete" ELSE "clear"
                    [] r = "status" -> "status"]
  BY DEF Request, Goto
<1>2. r \in RequestKinds
  BY UserStreamAssumption
<1> QED BY <1>1, <1>2 DEF RequestKinds

LEMMA StreamInvStep == StreamInv /\ [Next]_vars => StreamInv'
<1> SUFFICES ASSUME StreamInv, [Next]_vars PROVE StreamInv'
  OBVIOUS
<1> USE UserStreamAssumption DEF StreamInv, TypeOK, LockInv, OneConsumer,
        GoneMeansDisconnected, ConsumerSteps, HandlerSteps, Alive, At, Goto
<1>1. ASSUME NEW h \in Handlers, Request(h) PROVE StreamInv'
  <2>1. PICK step \in {"create", "put", "idle", "delete", "clear", "status"} :
           pc' = [pc EXCEPT ![h] = step]
    BY <1>1, RequestTarget
  <2>2. pc[h] = "idle" /\ UNCHANGED <<lock, stop, consumer, key, connected, spawned>>
    BY <1>1 DEF Request
  <2> QED BY <2>1, <2>2
<1>2. ASSUME NEW h \in Handlers, VenueAnswers(h) PROVE StreamInv'
  BY <1>2 DEF VenueAnswers
<1>3. ASSUME NEW h \in Handlers, VenueRaises(h) PROVE StreamInv'
  BY <1>3 DEF VenueRaises
<1>4. ASSUME NEW h \in Handlers, StoreKey(h) PROVE StreamInv'
  BY <1>4 DEF StoreKey
<1>5. ASSUME NEW h \in Handlers, KeepaliveChecks(h) PROVE StreamInv'
  BY <1>5 DEF KeepaliveChecks
<1>6. ASSUME NEW h \in Handlers, ReadKey(h) PROVE StreamInv'
  BY <1>6 DEF ReadKey
<1>7. ASSUME NEW h \in Handlers, TakeLock(h) PROVE StreamInv'
  BY <1>7 DEF TakeLock
<1>8. ASSUME NEW h \in Handlers, Spawn(h) PROVE StreamInv'
  BY <1>8 DEF Spawn
<1>9. ASSUME NEW h \in Handlers, ClearKey(h) PROVE StreamInv'
  BY <1>9 DEF ClearKey
<1>10. ASSUME NEW h \in Handlers, SetStop(h) PROVE StreamInv'
  BY <1>10 DEF SetStop
<1>11. ASSUME NEW h \in Handlers, Status(h) PROVE StreamInv'
  BY <1>11 DEF Status
<1>12. CASE Connected
  BY <1>12 DEF Connected
<1>18. CASE ListenKeyExpired
  BY <1>18 DEF ListenKeyExpired
<1>13. CASE ConnectionFails
  BY <1>13 DEF ConnectionFails
<1>14. CASE Reconnect
  BY <1>14 DEF Reconnect
<1>15. CASE ConsumerStops
  BY <1>15 DEF ConsumerStops
<1>16. CASE ConsumerExits
  BY <1>16 DEF ConsumerExits
<1>17. CASE UNCHANGED vars
  BY <1>17 DEF vars
<1> QED
  BY <1>1, <1>2, <1>3, <1>4, <1>5, <1>6, <1>7, <1>8, <1>9, <1>10, <1>11,
     <1>12, <1>18, <1>13, <1>14, <1>15, <1>16, <1>17
     DEF Next, HandlerStep, ConsumerStep

LEMMA StreamInvariant == Spec => []StreamInv
BY StreamInvInit, StreamInvStep, PTL DEF Spec

\* The stream's state always has its declared types.
THEOREM StreamTypes == Spec => []TypeOK
<1>1. StreamInv => TypeOK BY DEF StreamInv
<1> QED BY StreamInvariant, <1>1, PTL

\* Two handlers never start two consumers.
THEOREM OneConsumerTheorem == Spec => []OneConsumer
<1>1. StreamInv => OneConsumer BY DEF StreamInv, LockInv
<1> QED BY StreamInvariant, <1>1, PTL

\* A consumer that is gone has taken the connected flag down.
THEOREM GoneTheorem == Spec => []GoneMeansDisconnected
<1>1. StreamInv => GoneMeansDisconnected BY DEF StreamInv
<1> QED BY StreamInvariant, <1>1, PTL

\* One consumer, and its end is seen.
THEOREM ConsumerTheorem == Spec => []ConsumerSound
<1>1. OneConsumer /\ GoneMeansDisconnected => ConsumerSound BY DEF ConsumerSound
<1> QED BY OneConsumerTheorem, GoneTheorem, <1>1, PTL

-----------------------------------------------------------------------------
(***************************************************************************)
(* The server live-readiness runner and its child.                         *)
(***************************************************************************)

Children == [state : {"none", "running", "exited"}, behind : Nat, ran : SUBSET Nat,
             passed : SUBSET Nat, step : BOOLEAN, left : Nat, pipe : Nat]

\* Of the first n steps a child has taken all the evidence, and has run no
\* prerequisite after a step that had not passed.
KeptTo(c, n) ==
    \A i \in 1..n : IF Plan[i] = "evidence" THEN i \in c.ran
                    ELSE i \in c.ran => 1..(i - 1) \subseteq c.passed

\* A child keeps the sequence up to and with the step it is at.
Sequenced(c) ==
    /\ c.behind \in 0..Len(Plan) /\ c.passed \subseteq c.ran
    /\ c.ran \subseteq 1..(IF c.step THEN c.behind + 1 ELSE c.behind)
    /\ c.step => c.behind < Len(Plan) /\ c.state = "running" /\ c.behind + 1 \in c.ran
    /\ c.state = "exited" => c.behind = Len(Plan)
    /\ KeptTo(c, IF c.step THEN c.behind + 1 ELSE c.behind)

\* A thread with work left is the one SERVER_LIVE_READINESS_THREAD names.
RunnerInv ==
    /\ runner \in [RunnerSteps -> Nat] /\ handle \in BOOLEAN /\ cancel \in BOOLEAN
    /\ orphans \in Nat /\ setting \in {"idle", "running"} \cup Outcomes
    /\ asker \in [Dashboards -> {"idle", "alive", "dead", "repair"}]
    /\ OneRunner /\ (ThreadAlive => handle)
    /\ child \in Children /\ Sequenced(child)

(* A child that has been started, or that there is not, has nothing to keep yet. *)
LEMMA FreshSequenced ==
    ASSUME NEW c \in Children, c.behind = 0, c.ran = {}, c.passed = {}, ~c.step, c.state # "exited"
    PROVE  Sequenced(c)
<1>1. Len(Plan) \in Nat
  BY RunnerAssumption, LenProperties
<1> QED BY <1>1 DEF Sequenced, KeptTo

(* No child. *)
LEMMA NoChildSequenced == NoChild \in Children /\ Sequenced(NoChild)
<1>1. /\ NoChild \in Children /\ NoChild.behind = 0 /\ NoChild.ran = {} /\ NoChild.passed = {}
      /\ ~NoChild.step /\ NoChild.state # "exited"
  BY DEF NoChild, Children
<1> QED BY <1>1, FreshSequenced

(* Nothing runs. *)
LEMMA RunnerInvInit == RunnerInit => RunnerInv
<1> SUFFICES ASSUME RunnerInit PROVE RunnerInv
  OBVIOUS
<1>1. child \in Children /\ Sequenced(child)
  BY NoChildSequenced DEF RunnerInit
<1>2. /\ runner \in [RunnerSteps -> Nat] /\ handle \in BOOLEAN /\ cancel \in BOOLEAN
      /\ orphans \in Nat /\ setting \in {"idle", "running"} \cup Outcomes
      /\ asker \in [Dashboards -> {"idle", "alive", "dead", "repair"}]
  BY DEF RunnerInit
<1>3. OneRunner /\ ~ThreadAlive
  BY DEF RunnerInit, OneRunner, ThreadAlive
<1> QED BY <1>1, <1>2, <1>3 DEF RunnerInv

(* The thread's own steps leave one thread at most. *)
LEMMA RunnerMoves ==
    ASSUME RunnerInv, NEW from \in RunnerSteps, NEW to \in RunnerSteps, from # to, Move(from, to)
    PROVE  /\ runner' \in [RunnerSteps -> Nat] /\ OneRunner' /\ handle
           /\ runner'[from] = 0 /\ runner'[to] = 1
<1>1. runner[from] > 0 /\ runner \in [RunnerSteps -> Nat]
  BY DEF Move, RunnerInv
<1>2. runner[from] = 1 /\ \A r \in RunnerSteps : r # from => runner[r] = 0
  BY <1>1 DEF RunnerInv, OneRunner
<1>3. \A r \in RunnerSteps : runner'[r] = IF r = to THEN 1 ELSE 0
  BY <1>1, <1>2 DEF Move
<1>4. runner' \in [RunnerSteps -> Nat] /\ DOMAIN runner' = RunnerSteps
  BY <1>1, <1>3 DEF Move
<1>5. ThreadAlive
  BY <1>1 DEF ThreadAlive
<1> QED BY <1>3, <1>4, <1>5 DEF OneRunner, RunnerInv

(* What moves the thread and leaves the child or puts a fresh one in its place. *)
LEMMA RunnerGoes ==
    ASSUME RunnerInv, NEW from \in RunnerSteps, NEW to \in RunnerSteps, from # to, Move(from, to),
           UNCHANGED <<handle, cancel, asker>>, orphans' \in Nat,
           setting' \in {"idle", "running"} \cup Outcomes, child' \in Children, Sequenced(child')
    PROVE  RunnerInv'
<1>1. runner' \in [RunnerSteps -> Nat] /\ OneRunner' /\ handle
  BY RunnerMoves
<1>2. handle' /\ cancel' \in BOOLEAN /\ handle' \in BOOLEAN
  BY <1>1 DEF RunnerInv
<1>3. asker' \in [Dashboards -> {"idle", "alive", "dead", "repair"}]
  BY DEF RunnerInv
<1> QED BY <1>1, <1>2, <1>3 DEF RunnerInv

(* Requests. *)
LEMMA RunnerRequests ==
    ASSUME RunnerInv,
           \/ StartRun \/ CancelRun \/ RestartServer \/ OrphanEnds
           \/ \E a \in Dashboards : AskThread(a) \/ AskStatus(a) \/ Repair(a)
    PROVE  RunnerInv'
<1> USE DEF RunnerInv
<1>1. CASE StartRun
  <2>1. ~ThreadAlive /\ runner' = [runner EXCEPT !["begin"] = @ + 1] /\ handle' = TRUE
    BY <1>1 DEF StartRun, Running
  <2>2. \A s \in RunnerSteps : runner[s] = 0
    BY <2>1 DEF ThreadAlive
  <2>3. \A s \in RunnerSteps : runner'[s] = IF s = "begin" THEN 1 ELSE 0
    BY <2>1, <2>2
  <2>4. runner' \in [RunnerSteps -> Nat]
    <3>1. DOMAIN runner' = RunnerSteps /\ runner' = [s \in RunnerSteps |-> runner'[s]]
      BY <2>1
    <3> QED BY <2>3, <3>1
  <2>5. OneRunner'
    BY <2>3 DEF OneRunner
  <2>6. cancel' \in BOOLEAN /\ UNCHANGED <<child, orphans, setting, asker>>
    BY <1>1 DEF StartRun
  <2>7. child' \in Children /\ Sequenced(child')
    BY <2>6
  <2> QED BY <2>1, <2>4, <2>5, <2>6, <2>7
<1>2. CASE CancelRun
  <2>1. cancel' \in BOOLEAN /\ UNCHANGED <<runner, handle, child, orphans, setting, asker>>
    BY <1>2 DEF CancelRun
  <2> QED BY <2>1 DEF OneRunner, ThreadAlive
<1>3. CASE RestartServer
  <2>1. \A s \in RunnerSteps : runner'[s] = 0
    BY <1>3 DEF RestartServer
  <2>2. runner' \in [RunnerSteps -> Nat]
    BY <1>3 DEF RestartServer
  <2>3. OneRunner' /\ ~ThreadAlive'
    BY <2>1 DEF OneRunner, ThreadAlive
  <2>4. child' \in Children /\ Sequenced(child')
    BY <1>3, NoChildSequenced DEF RestartServer
  <2>5. /\ handle' \in BOOLEAN /\ cancel' \in BOOLEAN /\ orphans' \in Nat /\ setting' = setting
        /\ asker' \in [Dashboards -> {"idle", "alive", "dead", "repair"}]
    BY <1>3 DEF RestartServer
  <2> QED BY <2>2, <2>3, <2>4, <2>5
<1>4. CASE OrphanEnds
  <2>1. orphans' \in Nat /\ UNCHANGED <<runner, handle, child, cancel, setting, asker>>
    BY <1>4 DEF OrphanEnds
  <2> QED BY <2>1 DEF OneRunner, ThreadAlive
<1>5. ASSUME NEW a \in Dashboards, AskThread(a) \/ AskStatus(a) \/ Repair(a)
      PROVE  RunnerInv'
  <2>1. asker' \in [Dashboards -> {"idle", "alive", "dead", "repair"}]
    BY <1>5 DEF AskThread, AskStatus, Repair
  <2>2. setting' \in {"idle", "running"} \cup Outcomes
    BY <1>5 DEF AskThread, AskStatus, Repair, Outcomes
  <2>3. UNCHANGED <<runner, handle, child, orphans, cancel>>
    BY <1>5 DEF AskThread, AskStatus, Repair
  <2> QED BY <2>1, <2>2, <2>3 DEF OneRunner, ThreadAlive
<1> QED BY <1>1, <1>2, <1>3, <1>4, <1>5

(* The thread. *)
LEMMA RunnerThread ==
    ASSUME RunnerInv, RunnerStep
    PROVE  RunnerInv'
<1>1. CASE BeginRun
  <2>1. Move("begin", "spawn") /\ setting' = "running"
        /\ UNCHANGED <<handle, child, cancel, orphans, asker>>
    BY <1>1 DEF BeginRun, Aside
  <2>2. /\ setting' \in {"idle", "running"} \cup Outcomes /\ orphans' \in Nat
        /\ child' \in Children /\ Sequenced(child')
    BY <2>1 DEF RunnerInv
  <2> QED BY <2>1, <2>2, RunnerGoes DEF RunnerSteps
<1>8. CASE BeginRaises
  <2>1. /\ runner["begin"] > 0 /\ runner' = [runner EXCEPT !["begin"] = @ - 1]
        /\ runner \in [RunnerSteps -> Nat] /\ "begin" \in RunnerSteps
    BY <1>8 DEF BeginRaises, RunnerInv, RunnerSteps
  <2>2. runner["begin"] = 1 /\ \A r \in RunnerSteps : r # "begin" => runner[r] = 0
    BY <2>1 DEF RunnerInv, OneRunner
  <2>3. \A s \in RunnerSteps : runner'[s] = 0
    BY <2>1, <2>2
  <2>4. runner' \in [RunnerSteps -> Nat]
    BY <2>1, <2>3
  <2>5. OneRunner' /\ ~ThreadAlive'
    BY <2>3 DEF OneRunner, ThreadAlive
  <2>6. /\ setting' \in {setting, "running"}
        /\ UNCHANGED <<handle, child, cancel, orphans, asker>>
    BY <1>8 DEF BeginRaises, Aside
  <2> QED BY <2>4, <2>5, <2>6 DEF RunnerInv
<1>2. CASE SpawnChild
  <2>0. PICK n \in 0..Output : child' = [NoChild EXCEPT !.state = "running", !.left = n]
    BY <1>2, Zenon DEF SpawnChild
  <2>1. child' = [state |-> "running", behind |-> 0, ran |-> {}, passed |-> {}, step |-> FALSE,
                  left |-> n, pipe |-> 0]
    BY <2>0 DEF NoChild
  <2>2. Move("spawn", "poll") /\ UNCHANGED <<handle, setting, cancel, orphans, asker>>
    BY <1>2 DEF SpawnChild, Aside
  <2>3. /\ child' \in Children /\ child'.behind = 0 /\ child'.ran = {} /\ child'.passed = {}
        /\ ~child'.step /\ child'.state # "exited"
    BY <2>1, RunnerAssumption DEF Children
  <2>4. Sequenced(child')
    BY <2>3, FreshSequenced
  <2>5. setting' \in {"idle", "running"} \cup Outcomes /\ orphans' \in Nat
    BY <2>2 DEF RunnerInv
  <2> QED BY <2>2, <2>3, <2>4, <2>5, RunnerGoes DEF RunnerSteps
<1>3. CASE SpawnRaises
  <2>1. Move("spawn", "failed") /\ UNCHANGED <<handle, child, setting, cancel, orphans, asker>>
    BY <1>3 DEF SpawnRaises, Aside
  <2>2. /\ setting' \in {"idle", "running"} \cup Outcomes /\ orphans' \in Nat
        /\ child' \in Children /\ Sequenced(child')
    BY <2>1 DEF RunnerInv
  <2> QED BY <2>1, <2>2, RunnerGoes DEF RunnerSteps
<1>4. ASSUME NEW outcome \in Outcomes, Ends(outcome)
      PROVE  RunnerInv'
  <2>1. Move("poll", outcome) /\ UNCHANGED <<handle, setting, cancel, asker>> /\ child' = NoChild
    BY <1>4 DEF Ends
  <2>2. orphans' \in Nat /\ setting' \in {"idle", "running"} \cup Outcomes
    BY <1>4 DEF Ends, RunnerInv
  <2>3. outcome \in RunnerSteps /\ outcome # "poll" /\ "poll" \in RunnerSteps
    BY DEF Outcomes, RunnerSteps
  <2>4. child' \in Children /\ Sequenced(child')
    BY <2>1, NoChildSequenced
  <2> QED BY <2>1, <2>2, <2>3, <2>4, RunnerGoes
<1>5. CASE PollCancel \/ PollExit \/ PollTimeout
  BY <1>4, <1>5, Zenon DEF PollCancel, PollExit, PollTimeout, Outcomes
<1>6. ASSUME NEW outcome \in Outcomes, WriteOutcome(outcome)
      PROVE  RunnerInv'
  <2>1. Move(outcome, "finally") /\ setting' = outcome
        /\ UNCHANGED <<handle, child, cancel, orphans, asker>>
    BY <1>6 DEF WriteOutcome, Aside
  <2>2. outcome \in RunnerSteps /\ outcome # "finally" /\ "finally" \in RunnerSteps
    BY DEF Outcomes, RunnerSteps
  <2>3. /\ setting' \in {"idle", "running"} \cup Outcomes /\ orphans' \in Nat
        /\ child' \in Children /\ Sequenced(child')
    BY <2>1 DEF RunnerInv
  <2> QED BY <2>1, <2>2, <2>3, RunnerGoes
<1>7. CASE Finally
  <2>1. /\ runner["finally"] > 0 /\ runner' = [runner EXCEPT !["finally"] = @ - 1]
        /\ runner \in [RunnerSteps -> Nat] /\ "finally" \in RunnerSteps
    BY <1>7 DEF Finally, RunnerInv, RunnerSteps
  <2>2. runner["finally"] = 1 /\ \A r \in RunnerSteps : r # "finally" => runner[r] = 0
    BY <2>1 DEF RunnerInv, OneRunner
  <2>3. \A s \in RunnerSteps : runner'[s] = 0
    BY <2>1, <2>2
  <2>4. runner' \in [RunnerSteps -> Nat]
    BY <2>1, <2>3
  <2>5. OneRunner' /\ ~ThreadAlive'
    BY <2>3 DEF OneRunner, ThreadAlive
  <2>6. /\ handle' \in BOOLEAN /\ cancel' \in BOOLEAN /\ child' = NoChild
        /\ UNCHANGED <<setting, orphans, asker>>
    BY <1>7 DEF Finally, Aside
  <2>7. child' \in Children /\ Sequenced(child')
    BY <2>6, NoChildSequenced
  <2> QED BY <2>4, <2>5, <2>6, <2>7 DEF RunnerInv
<1> QED BY <1>1, <1>2, <1>3, <1>5, <1>6, <1>7, <1>8 DEF RunnerStep

(* The child moves alone. *)
LEMMA RunnerChildMoves ==
    ASSUME RunnerInv, OnlyTheChild, child' \in Children, Sequenced(child')
    PROVE  RunnerInv'
<1>1. UNCHANGED <<runner, handle, cancel, setting, orphans, asker>>
  BY DEF OnlyTheChild, Aside
<1> QED BY <1>1 DEF RunnerInv, OneRunner, ThreadAlive

(* A step begins or is passed over. *)
LEMMA RunnerChildSteps ==
    ASSUME RunnerInv, ChildStep
    PROVE  RunnerInv'
<1>1. PICK o \in Children : o = child /\ Sequenced(o)
  BY DEF RunnerInv
<1>2. PICK n \in Nat : n = o.behind + 1 /\ n = NextStep
  BY <1>1 DEF Children, NextStep
<1>3. /\ o.state = "running" /\ ~o.step /\ o.behind \in Nat /\ n \in 1..Len(Plan)
      /\ o.ran \in SUBSET Nat /\ o.passed \subseteq o.ran /\ o.passed \in SUBSET Nat
      /\ o.ran \subseteq 1..o.behind /\ KeptTo(o, o.behind)
  <2>1. Len(Plan) \in Nat
    BY RunnerAssumption, LenProperties
  <2> QED BY <1>1, <1>2, <2>1 DEF ChildStep, Sequenced, Children
<1>4. OnlyTheChild
  BY DEF ChildStep
<1>5. CASE MayRun
  <2>1. PICK ran \in SUBSET Nat : ran = o.ran \cup {n}
    BY <1>3
  <2> DEFINE f == [o EXCEPT !.step = TRUE, !.ran = ran]
  <2>2. child' = f
    BY <1>1, <1>2, <1>5, <2>1 DEF ChildStep
  <2>3. /\ f \in Children /\ f.step /\ f.ran = ran /\ f.behind = o.behind /\ f.passed = o.passed
        /\ f.state = "running"
    BY <1>3 DEF Children
  <2> HIDE DEF f
  <2>4. KeptTo(f, n)
    <3> SUFFICES ASSUME NEW i \in 1..n
                 PROVE  IF Plan[i] = "evidence" THEN i \in f.ran
                        ELSE i \in f.ran => 1..(i - 1) \subseteq f.passed
      BY DEF KeptTo
    <3>1. CASE i = n
      <4>1. Plan[n] = "evidence" \/ o.passed = 1..(n - 1)
        BY <1>1, <1>2, <1>3, <1>5 DEF MayRun, OkSoFar
      <4> QED BY <2>1, <2>3, <3>1, <4>1
    <3>2. CASE i # n
      <4>1. i \in 1..o.behind
        BY <1>2, <1>3, <3>2
      <4> QED BY <1>3, <2>1, <2>3, <3>2, <4>1 DEF KeptTo
    <3> QED BY <3>1, <3>2
  <2>5. ran \subseteq 1..n /\ n \in ran
    BY <1>2, <1>3, <2>1
  <2>6. Sequenced(f)
    BY <1>2, <1>3, <2>1, <2>3, <2>4, <2>5 DEF Sequenced
  <2> QED BY <1>4, <2>2, <2>3, <2>6, RunnerChildMoves
<1>6. CASE ~MayRun
  <2> DEFINE f == [o EXCEPT !.behind = n]
  <2>1. child' = f
    BY <1>1, <1>2, <1>6 DEF ChildStep
  <2>2. /\ f \in Children /\ ~f.step /\ f.ran = o.ran /\ f.behind = n /\ f.passed = o.passed
        /\ f.state = "running"
    BY <1>3 DEF Children
  <2> HIDE DEF f
  <2>3. Plan[n] # "evidence" /\ n \notin o.ran
    BY <1>2, <1>3, <1>6 DEF MayRun
  <2>4. KeptTo(f, n)
    <3> SUFFICES ASSUME NEW i \in 1..n
                 PROVE  IF Plan[i] = "evidence" THEN i \in f.ran
                        ELSE i \in f.ran => 1..(i - 1) \subseteq f.passed
      BY DEF KeptTo
    <3>1. CASE i = n
      BY <2>2, <2>3, <3>1
    <3>2. CASE i # n
      <4>1. i \in 1..o.behind
        BY <1>2, <1>3, <3>2
      <4> QED BY <1>3, <2>2, <4>1 DEF KeptTo
    <3> QED BY <3>1, <3>2
  <2>5. o.ran \subseteq 1..n
    BY <1>2, <1>3
  <2>6. Sequenced(f)
    BY <1>3, <2>2, <2>4, <2>5 DEF Sequenced
  <2> QED BY <1>4, <2>1, <2>2, <2>6, RunnerChildMoves
<1> QED BY <1>5, <1>6

(* A step ends; it may have passed. *)
LEMMA RunnerChildStepEnds ==
    ASSUME RunnerInv, StepEnds
    PROVE  RunnerInv'
<1>1. PICK o \in Children : o = child /\ Sequenced(o)
  BY DEF RunnerInv
<1>2. PICK n \in Nat : n = o.behind + 1 /\ n = NextStep
  BY <1>1 DEF Children, NextStep
<1>3. /\ o.step /\ o.state = "running" /\ n \in o.ran /\ n \in 1..Len(Plan)
      /\ o.passed \subseteq o.ran /\ o.ran \subseteq 1..n /\ KeptTo(o, n)
      /\ o.ran \in SUBSET Nat
  <2>1. Len(Plan) \in Nat
    BY RunnerAssumption, LenProperties
  <2> QED BY <1>1, <1>2, <2>1 DEF StepEnds, Sequenced, Children
<1>0. PICK ok \in {{}, {n}} :
        child' = [o EXCEPT !.step = FALSE, !.behind = n, !.passed = o.passed \cup ok]
  BY <1>1, <1>2, Zenon DEF StepEnds
<1>4. PICK passed \in SUBSET Nat : passed = o.passed \cup ok
  BY <1>3
<1> DEFINE f == [o EXCEPT !.step = FALSE, !.behind = n, !.passed = passed]
<1>5. /\ f \in Children /\ ~f.step /\ f.ran = o.ran /\ f.behind = n /\ f.passed = passed
      /\ f.state = "running"
  BY <1>3 DEF Children
<1>6. child' = f
  BY <1>0, <1>4
<1> HIDE DEF f
<1>7. passed \subseteq o.ran /\ o.passed \subseteq passed
  BY <1>3, <1>4
<1>8. KeptTo(f, n)
  BY <1>3, <1>5, <1>7 DEF KeptTo
<1>9. Sequenced(f)
  BY <1>3, <1>5, <1>7, <1>8 DEF Sequenced
<1>10. OnlyTheChild
  BY DEF StepEnds
<1> QED BY <1>5, <1>6, <1>9, <1>10, RunnerChildMoves

(* The summary is written, the child exits. *)
LEMMA RunnerChildEnds ==
    ASSUME RunnerInv, ChildWrites \/ ChildExits
    PROVE  RunnerInv'
<1>1. PICK o \in Children : o = child /\ Sequenced(o)
  BY DEF RunnerInv
<1>2. OnlyTheChild
  BY DEF ChildWrites, ChildExits
<1>3. CASE ChildWrites
  <2>1. PICK left \in Nat, pipe \in Nat : left = o.left - 1 /\ pipe = o.pipe + 1
    BY <1>1, <1>3 DEF ChildWrites, Children
  <2> DEFINE f == [o EXCEPT !.left = left, !.pipe = pipe]
  <2>2. child' = f
    BY <1>1, <1>3, <2>1 DEF ChildWrites
  <2>3. /\ f \in Children /\ f.step = o.step /\ f.ran = o.ran /\ f.behind = o.behind
        /\ f.passed = o.passed /\ f.state = o.state
    BY DEF Children
  <2> HIDE DEF f
  <2>4. Sequenced(f)
    BY <1>1, <2>3 DEF Sequenced, KeptTo
  <2> QED BY <1>2, <2>2, <2>3, <2>4, RunnerChildMoves
<1>4. CASE ChildExits
  <2> DEFINE f == [o EXCEPT !.state = "exited"]
  <2>1. child' = f /\ o.behind = Len(Plan) /\ ~o.step
    <3>1. Len(Plan) \in Nat
      BY RunnerAssumption, LenProperties
    <3> QED BY <1>1, <1>4, <3>1 DEF ChildExits, Sequenced
  <2>2. /\ f \in Children /\ f.step = o.step /\ f.ran = o.ran /\ f.behind = o.behind
        /\ f.passed = o.passed /\ f.state = "exited"
    BY DEF Children
  <2> HIDE DEF f
  <2>3. Sequenced(f)
    BY <1>1, <2>1, <2>2 DEF Sequenced, KeptTo
  <2> QED BY <1>2, <2>1, <2>2, <2>3, RunnerChildMoves
<1> QED BY <1>3, <1>4

(* Whatever starts, cancels, times out or restarts: one runner thread at most, and
   a child that comes to its end has kept the sequence of its plan, whatever the
   plan is. *)
THEOREM RunnerTheorem == RunnerSpec => []RunnerSound
<1>1. RunnerInv => RunnerSound
  <2> SUFFICES ASSUME RunnerInv PROVE RunnerSound
    OBVIOUS
  <2>1. RunnerTypeOK
    BY DEF RunnerTypeOK, RunnerInv, Children, Sequenced
  <2>2. SequenceKept
    <3>1. DOMAIN Plan = 1..Len(Plan)
      BY RunnerAssumption, LenProperties
    <3> QED BY <3>1 DEF SequenceKept, RunnerInv, Sequenced, KeptTo
  <2> QED BY <2>1, <2>2 DEF RunnerSound, RunnerInv
<1>2. RunnerInv /\ [RunnerNext]_runnerVars => RunnerInv'
  <2> SUFFICES ASSUME RunnerInv, [RunnerNext]_runnerVars PROVE RunnerInv'
    OBVIOUS
  <2>1. CASE UNCHANGED runnerVars
    BY <2>1 DEF runnerVars, RunnerInv, OneRunner, ThreadAlive
  <2> QED BY <2>1, RunnerRequests, RunnerThread, RunnerChildSteps, RunnerChildStepEnds,
             RunnerChildEnds DEF RunnerNext
<1> QED BY <1>1, <1>2, RunnerInvInit, PTL DEF RunnerSpec

-----------------------------------------------------------------------------
(***************************************************************************)
(* The alerts and their notices.                                           *)
(***************************************************************************)

ThreadStates == [todo : Seq(Step), sending : SUBSET Notice]

\* No notice is of a change that has not been made.
OfThePast ==
    /\ \A m \in told : m.n <= alert[m.key].n
    /\ \A t \in Threads : \A m \in thread[t].sending : m.n <= alert[m.key].n

AlertsInv == AlertsTypeOK /\ ToldOnce /\ EveryChangeTold /\ OfThePast

(* Changes alternate: the change after an odd one is even. *)
LEMMA Alternates ==
    \A n \in Nat : /\ (n % 2) \in {0, 1}
                   /\ (n % 2) = 1 <=> ((n + 1) % 2) = 0
OBVIOUS

(* The notices of a change are notices of that change. *)
LEMMA NoticesAre ==
    ASSUME NEW k \in Keys, NEW n \in Nat, NEW transition
    PROVE  /\ Notices(k, n, transition) \subseteq Notice
           /\ \A m \in Notices(k, n, transition) : m.key = k /\ m.n = n
           /\ \A c \in Ready : Sends(k, transition, c)
                => [key |-> k, n |-> n, channel |-> c] \in Notices(k, n, transition)
BY AlertsAssumption DEF Notices, Notice

(* The watchdog's list. *)
LEMMA WatchIsList == Watch \in Seq(Step)
<1>1. PICK n \in Nat : WatchOrder \in [1..n -> Watched]
  BY AlertsAssumption, SeqDef
<1>2. Watch \in [1..n -> Step]
  BY <1>1 DEF Watch, Step, Keys
<1> QED BY <1>2, SeqDef

(* Nothing has happened yet. *)
LEMMA AlertsInvInit == AlertsInit => AlertsInv
<1> SUFFICES ASSUME AlertsInit PROVE AlertsInv
  OBVIOUS
<1>1. << >> \in Seq(Step)
  BY EmptySeq
<1>2. thread \in [Threads -> ThreadStates]
  BY <1>1 DEF AlertsInit, ThreadStates
<1>3. alert \in [Keys -> Alert] /\ \A k \in Keys : alert[k].n = 0 /\ ~Active(k)
  BY DEF AlertsInit, Alert, Active
<1>4. AlertsTypeOK
  BY <1>2, <1>3 DEF AlertsInit, AlertsTypeOK, ThreadStates
<1>5. told = {} /\ \A t \in Threads : thread[t].sending = {}
  BY DEF AlertsInit
<1> QED BY <1>3, <1>4, <1>5 DEF AlertsInv, ToldOnce, EveryChangeTold, OfThePast

(* Short lists. *)
LEMMA ShortLists ==
    ASSUME NEW S, NEW a \in S, NEW b \in S
    PROVE  <<a>> \in Seq(S) /\ <<a, b>> \in Seq(S)
OBVIOUS

(* What changes no alert and no notice. *)
LEMMA AlertsQuiet ==
    ASSUME AlertsInv, holds' \in [Watched -> BOOLEAN], alert' \in [Keys -> Alert],
           \A k \in Keys : alert'[k].n = alert[k].n /\ (Active(k)' <=> Active(k)),
           thread' \in [Threads -> ThreadStates],
           \A t \in Threads : thread'[t].sending = thread[t].sending,
           told' = told, unsent' = unsent
    PROVE  AlertsInv'
<1>1. \A m \in Notice : m.key \in Keys
  BY DEF Notice
<1>2. AlertsTypeOK'
  BY DEF AlertsInv, AlertsTypeOK, ThreadStates
<1>3. ToldOnce'
  BY DEF AlertsInv, ToldOnce
<1>4. EveryChangeTold'
  <2> SUFFICES ASSUME NEW k \in Keys, NEW n \in 1..alert'[k].n, NEW c \in Ready,
                      Sends(k, Due(k, n), c)
               PROVE  \/ [key |-> k, n |-> n, channel |-> c] \in told \cup unsent
                      \/ \E t \in Threads : [key |-> k, n |-> n, channel |-> c] \in thread'[t].sending
    BY DEF EveryChangeTold, Sends, Due
  <2>1. n \in 1..alert[k].n
    OBVIOUS
  <2> QED BY <2>1 DEF AlertsInv, EveryChangeTold
<1>5. OfThePast'
  BY <1>1 DEF AlertsInv, OfThePast, AlertsTypeOK, ThreadStates
<1> QED BY <1>2, <1>3, <1>4, <1>5 DEF AlertsInv

(* A thread that rests is given something to do. *)
LEMMA AlertsGiven ==
    ASSUME AlertsInv, NEW t \in Threads, NEW todo \in Seq(Step), Rests(t), Does(t, todo),
           holds' \in [Watched -> BOOLEAN], UNCHANGED <<alert, told, unsent>>
    PROVE  AlertsInv'
<1>1. thread \in [Threads -> ThreadStates] /\ alert \in [Keys -> Alert]
  BY DEF AlertsInv, AlertsTypeOK, ThreadStates
<1>2. thread' = [thread EXCEPT ![t] = [todo |-> todo, sending |-> {}]]
  BY DEF Does
<1>3. [todo |-> todo, sending |-> {}] \in ThreadStates
  BY DEF ThreadStates
<1>4. thread' \in [Threads -> ThreadStates]
  BY <1>1, <1>2, <1>3
<1>5. \A u \in Threads : thread'[u].sending = thread[u].sending
  BY <1>1, <1>2 DEF Rests
<1>6. \A k \in Keys : alert'[k].n = alert[k].n /\ (Active(k)' <=> Active(k))
  BY DEF Active
<1> QED BY <1>1, <1>4, <1>5, <1>6, AlertsQuiet

(* The watchdog's and the requests' beginnings. *)
LEMMA AlertsBegin ==
    ASSUME AlertsInv, NEW t \in Threads,
           \/ StartWatch(t) \/ PanicRequest(t) \/ ResetRequest(t)
           \/ \E k \in Keys : ResolveRequest(t, k)
    PROVE  AlertsInv'
<1>1. holds \in [Watched -> BOOLEAN]
  BY DEF AlertsInv, AlertsTypeOK
<1>2. /\ StopKey \in Keys /\ PanicKey \in Keys
      /\ \A k \in Keys, d \in {"look", "raise", "resolve"} : [key |-> k, do |-> d] \in Step
  BY AlertsAssumption DEF Keys, Step
<1>3. CASE StartWatch(t)
  BY <1>1, <1>3, WatchIsList, AlertsGiven DEF StartWatch
<1>4. CASE PanicRequest(t)
  <2>1. Append(Watch, [key |-> PanicKey, do |-> "raise"]) \in Seq(Step)
    BY <1>2, WatchIsList, AppendProperties
  <2>2. holds' \in [Watched -> BOOLEAN]
    BY <1>1, <1>4 DEF PanicRequest
  <2> QED BY <1>4, <2>1, <2>2, AlertsGiven DEF PanicRequest, RequestArrives
<1>5. CASE ResetRequest(t)
  <2>1. <<[key |-> StopKey, do |-> "resolve"], [key |-> PanicKey, do |-> "resolve"]>> \in Seq(Step)
    BY <1>2, ShortLists
  <2>2. holds' \in [Watched -> BOOLEAN]
    BY <1>1, <1>5 DEF ResetRequest
  <2> QED BY <1>5, <2>1, <2>2, AlertsGiven DEF ResetRequest, RequestArrives
<1>6. ASSUME NEW k \in Keys, ResolveRequest(t, k)
      PROVE  AlertsInv'
  <2>1. <<[key |-> k, do |-> "resolve"]>> \in Seq(Step)
    BY <1>2, ShortLists
  <2> QED BY <1>1, <1>6, <2>1, AlertsGiven DEF ResolveRequest, RequestArrives
<1> QED BY <1>3, <1>4, <1>5, <1>6

(* A thread's list is shortened, or its head replaced. *)
LEMMA AlertsGoesOn ==
    ASSUME AlertsInv, NEW t \in Threads, NEW todo \in Seq(Step),
           thread' = [thread EXCEPT ![t] = [thread[t] EXCEPT !.todo = todo]],
           UNCHANGED <<holds, alert, told, unsent>>
    PROVE  AlertsInv'
<1>1. thread \in [Threads -> ThreadStates] /\ alert \in [Keys -> Alert]
      /\ holds \in [Watched -> BOOLEAN]
  BY DEF AlertsInv, AlertsTypeOK, ThreadStates
<1>2. PICK old \in ThreadStates : old = thread[t]
  BY <1>1
<1> DEFINE f == [old EXCEPT !.todo = todo]
<1>3. f \in ThreadStates /\ f.sending = old.sending
  BY DEF ThreadStates
<1>4. thread' = [thread EXCEPT ![t] = f]
  BY <1>2
<1> HIDE DEF f
<1>5. thread' \in [Threads -> ThreadStates]
  BY <1>1, <1>3, <1>4
<1>6. \A u \in Threads : thread'[u].sending = thread[u].sending
  BY <1>1, <1>2, <1>3, <1>4
<1>7. \A k \in Keys : alert'[k].n = alert[k].n /\ (Active(k)' <=> Active(k))
  BY DEF Active
<1> QED BY <1>1, <1>5, <1>6, <1>7, AlertsQuiet

(* A thread that has something to do has a list with a head of known shape. *)
LEMMA AlertsTurn ==
    ASSUME AlertsInv, NEW t \in Threads, thread[t].todo # <<>>
    PROVE  /\ thread[t].todo \in Seq(Step) /\ 1 \in 1..Len(thread[t].todo)
           /\ thread[t].todo[1] \in Step /\ Next1(t) = thread[t].todo[1]
           /\ Tail(thread[t].todo) \in Seq(Step)
<1>1. PICK list \in Seq(Step) : list = thread[t].todo
  BY DEF AlertsInv, AlertsTypeOK
<1>2. Len(list) \in Nat \ {0}
  BY <1>1, EmptySeq
<1>3. 1 \in 1..Len(list) /\ list[1] \in Step
  BY <1>2, ElementOfSeq
<1>4. Tail(list) \in Seq(Step) /\ Head(list) = list[1]
  BY <1>1, HeadTailProperties
<1> QED BY <1>1, <1>3, <1>4 DEF Next1

(* A condition is looked at, or a row is kept. *)
LEMMA AlertsLook ==
    ASSUME AlertsInv, NEW t \in Threads, Look(t)
    PROVE  AlertsInv'
<1>1. PICK list \in Seq(Step) : list = thread[t].todo /\ 1 \in 1..Len(list) /\ list[1] \in Step
  BY AlertsTurn DEF Look, Turn
<1>2. PICK do \in {"raise", "resolve"} :
        thread' = [thread EXCEPT ![t].todo[1].do = do]
  BY Zenon DEF Look
<1> DEFINE step == [list[1] EXCEPT !.do = do]
           todo == [list EXCEPT ![1] = step]
<1>3. step \in Step
  BY <1>1 DEF Step
<1>4. thread' = [thread EXCEPT ![t] = [thread[t] EXCEPT !.todo = todo]]
  BY <1>1, <1>2
<1> HIDE DEF step
<1>5. todo \in Seq(Step)
  BY <1>1, <1>3, ExceptSeq
<1> HIDE DEF todo
<1>6. UNCHANGED <<holds, alert, told, unsent>>
  BY DEF Look
<1> QED BY <1>4, <1>5, <1>6, AlertsGoesOn

LEMMA AlertsKeep ==
    ASSUME AlertsInv, NEW t \in Threads, thread[t].todo # <<>>, Keep(t)
    PROVE  AlertsInv'
<1>1. PICK todo \in Seq(Step) : todo = Tail(thread[t].todo)
  BY AlertsTurn
<1>2. thread' = [thread EXCEPT ![t] = [thread[t] EXCEPT !.todo = todo]]
  BY <1>1 DEF Keep
<1> QED BY <1>2, AlertsGoesOn DEF Keep

(* The next change of an alert: its notices are new, and are those that are due. *)
LEMMA AlertsChange ==
    ASSUME AlertsInv, NEW t \in Threads, thread[t].todo # <<>>, thread[t].sending = {},
           NEW k \in Keys, NEW status, NEW transition, ChangeAlert(t, k, status, transition),
           IF Active(k) THEN status = "resolved" /\ transition = "resolved"
                        ELSE status = "open" /\ transition = "opened"
    PROVE  AlertsInv'
<1>1. PICK n \in Nat : n = alert[k].n
  BY DEF AlertsInv, AlertsTypeOK, Alert
<1>2. PICK m \in Nat : m = n + 1
  OBVIOUS
<1>3. PICK new \in SUBSET Notice : new = Notices(k, m, transition)
  BY <1>2, NoticesAre
<1>20. /\ \A x \in new : x.key = k /\ x.n = m
       /\ \A c \in Ready : Sends(k, transition, c) => [key |-> k, n |-> m, channel |-> c] \in new
  <2>1. /\ \A x \in Notices(k, m, transition) : x.key = k /\ x.n = m
        /\ \A c \in Ready : Sends(k, transition, c)
             => [key |-> k, n |-> m, channel |-> c] \in Notices(k, m, transition)
    BY NoticesAre, Zenon
  <2> QED BY <1>3, <2>1
<1>4. PICK todo \in Seq(Step) : todo = Tail(thread[t].todo)
  BY AlertsTurn
<1> DEFINE f == [todo |-> todo, sending |-> new]
           a == [status |-> status, n |-> m]
<1>5. thread' = [thread EXCEPT ![t] = f] /\ alert' = [alert EXCEPT ![k] = a]
  BY <1>1, <1>2, <1>3, <1>4 DEF ChangeAlert
<1>6. UNCHANGED <<holds, told, unsent>>
  BY DEF ChangeAlert
<1>7. f \in ThreadStates /\ f.sending = new
  BY DEF ThreadStates
<1>8. a \in Alert /\ a.n = m /\ a.status = status
  BY DEF Alert
<1> HIDE DEF f, a
<1>9. thread \in [Threads -> ThreadStates] /\ alert \in [Keys -> Alert]
  BY DEF AlertsInv, AlertsTypeOK, ThreadStates
<1>10. /\ thread' \in [Threads -> ThreadStates] /\ thread'[t].sending = new
       /\ \A u \in Threads : u # t => thread'[u].sending = thread[u].sending
  BY <1>5, <1>7, <1>9
<1>11. /\ alert' \in [Keys -> Alert] /\ alert'[k].n = m /\ alert'[k].status = status
       /\ \A j \in Keys : j # k => alert'[j] = alert[j]
  BY <1>5, <1>8, <1>9
<1>12. /\ Active(k) <=> (n % 2) = 1
       /\ Active(k)' <=> (m % 2) = 1
       /\ transition = Due(k, m)
  <2>1. Active(k) <=> (n % 2) = 1
    BY <1>1 DEF AlertsInv, AlertsTypeOK
  <2>2. (n % 2) \in {0, 1} /\ (m % 2) \in {0, 1} /\ ((n % 2) = 1 <=> (m % 2) = 0)
    BY <1>2, Alternates
  <2>3. CASE Active(k)
    BY <1>11, <2>1, <2>2, <2>3 DEF Active, Due
  <2>4. CASE ~Active(k)
    BY <1>11, <2>1, <2>2, <2>4 DEF Active, Due
  <2> QED BY <2>1, <2>3, <2>4
<1>13. AlertsTypeOK'
  <2>1. \A j \in Keys : Active(j)' <=> (alert'[j].n % 2) = 1
    <3> TAKE j \in Keys
    <3>1. CASE j = k
      BY <1>11, <1>12, <3>1
    <3>2. CASE j # k
      BY <1>11, <3>2 DEF AlertsInv, AlertsTypeOK, Active
    <3> QED BY <3>1, <3>2
  <2> QED BY <1>6, <1>10, <1>11, <2>1 DEF AlertsInv, AlertsTypeOK, ThreadStates
<1>14. /\ \A x \in new : x.key = k /\ x.n = m
       /\ \A x \in told : x.n <= alert[x.key].n
       /\ \A u \in Threads : \A x \in thread[u].sending : x.n <= alert[x.key].n
  BY <1>20 DEF AlertsInv, OfThePast
<1>15. /\ new \cap told = {}
       /\ \A u \in Threads : new \cap thread[u].sending = {}
  BY <1>1, <1>2, <1>14
<1>16. ToldOnce'
  BY <1>6, <1>10, <1>15 DEF AlertsInv, ToldOnce
<1>17. \A x \in Notice : x.n <= alert[x.key].n => x.n <= alert'[x.key].n
  BY <1>1, <1>2, <1>11 DEF Notice
<1>18. OfThePast'
  <2>1. told \subseteq Notice /\ \A u \in Threads : thread[u].sending \subseteq Notice
    BY <1>9 DEF AlertsInv, AlertsTypeOK, ThreadStates
  <2>2. \A x \in told : x.n <= alert'[x.key].n
    BY <1>14, <1>17, <2>1
  <2>3. \A u \in Threads : \A x \in thread'[u].sending : x.n <= alert'[x.key].n
    <3> TAKE u \in Threads
    <3>1. CASE u = t
      BY <1>2, <1>10, <1>11, <1>14, <3>1
    <3>2. CASE u # t
      BY <1>10, <1>14, <1>17, <2>1, <3>2
    <3> QED BY <3>1, <3>2
  <2> QED BY <1>6, <2>2, <2>3 DEF OfThePast
<1>19. EveryChangeTold'
  <2> SUFFICES ASSUME NEW j \in Keys, NEW i \in 1..alert'[j].n, NEW c \in Ready,
                      Sends(j, Due(j, i), c)
               PROVE  \/ [key |-> j, n |-> i, channel |-> c] \in told' \cup unsent'
                      \/ \E u \in Threads : [key |-> j, n |-> i, channel |-> c] \in thread'[u].sending
    BY DEF EveryChangeTold, Sends, Due
  <2>1. CASE j = k /\ i = m
    <3>1. Sends(k, transition, c)
      BY <1>12, <2>1
    <3>2. [key |-> j, n |-> i, channel |-> c] \in new
      BY <1>20, <2>1, <3>1
    <3> QED BY <1>10, <3>2
  <2>2. CASE ~(j = k /\ i = m)
    <3>1. i \in 1..alert[j].n
      BY <1>1, <1>2, <1>11, <2>2
    <3>2. \/ [key |-> j, n |-> i, channel |-> c] \in told \cup unsent
          \/ \E u \in Threads : [key |-> j, n |-> i, channel |-> c] \in thread[u].sending
      BY <3>1 DEF AlertsInv, EveryChangeTold
    <3> QED BY <1>6, <1>10, <3>2
  <2> QED BY <2>1, <2>2
<1> QED BY <1>13, <1>16, <1>18, <1>19 DEF AlertsInv

(* raise_alert and resolve_alert. *)
LEMMA AlertsWrites ==
    ASSUME AlertsInv, NEW t \in Threads, Raise(t) \/ Resolve(t)
    PROVE  AlertsInv'
<1>1. thread[t].todo # <<>> /\ thread[t].sending = {}
  BY DEF Raise, Resolve, Turn
<1>2. PICK k \in Keys : k = Next1(t).key
  BY <1>1, AlertsTurn DEF Step
<1>3. CASE Keep(t)
  BY <1>1, <1>3, AlertsKeep
<1>4. CASE Active(k) /\ ChangeAlert(t, k, "resolved", "resolved")
  BY <1>1, <1>4, AlertsChange
<1>5. CASE ~Active(k) /\ ChangeAlert(t, k, "open", "opened")
  BY <1>1, <1>5, AlertsChange
<1> QED BY <1>2, <1>3, <1>4, <1>5 DEF Raise, Resolve

(* A notice is sent and recorded. *)
LEMMA AlertsSends ==
    ASSUME AlertsInv, NEW t \in Threads, Send(t)
    PROVE  AlertsInv'
<1>1. PICK notice \in thread[t].sending :
        told' = told \cup {notice} /\ thread' = [thread EXCEPT ![t].sending = @ \ {notice}]
  BY DEF Send
<1>2. thread \in [Threads -> ThreadStates] /\ alert \in [Keys -> Alert]
  BY DEF AlertsInv, AlertsTypeOK, ThreadStates
<1>3. PICK old \in ThreadStates : old = thread[t]
  BY <1>2
<1>4. PICK rest \in SUBSET Notice : rest = old.sending \ {notice}
  BY <1>3 DEF ThreadStates
<1> DEFINE f == [old EXCEPT !.sending = rest]
<1>5. f \in ThreadStates /\ f.sending = rest
  BY DEF ThreadStates
<1>6. thread' = [thread EXCEPT ![t] = f]
  BY <1>1, <1>3, <1>4
<1> HIDE DEF f
<1>7. /\ thread' \in [Threads -> ThreadStates] /\ thread'[t].sending = rest
      /\ \A u \in Threads : u # t => thread'[u].sending = thread[u].sending
  BY <1>2, <1>5, <1>6
<1>8. UNCHANGED <<holds, alert, unsent>>
  BY DEF Send
<1>9. notice \in Notice /\ notice \in old.sending
  BY <1>1, <1>3 DEF ThreadStates
<1>10. AlertsTypeOK'
  <2>1. \A k \in Keys : Active(k)' <=> Active(k)
    BY <1>8 DEF Active
  <2>2. told' \subseteq Notice
    BY <1>1, <1>9 DEF AlertsInv, AlertsTypeOK
  <2> QED BY <1>7, <1>8, <2>1, <2>2 DEF AlertsInv, AlertsTypeOK, ThreadStates
<1>11. /\ \A u \in Threads : \A x \in thread[u].sending :
             x \notin told /\ \A v \in Threads \ {u} : x \notin thread[v].sending
  BY DEF AlertsInv, ToldOnce
<1>12. \A u \in Threads : thread'[u].sending \subseteq thread[u].sending \ {notice}
  BY <1>1, <1>3, <1>4, <1>7, <1>11
<1>13. ToldOnce'
  BY <1>1, <1>11, <1>12 DEF ToldOnce
<1>14. EveryChangeTold'
  <2> SUFFICES ASSUME NEW k \in Keys, NEW n \in 1..alert[k].n, NEW c \in Ready,
                      Sends(k, Due(k, n), c)
               PROVE  \/ [key |-> k, n |-> n, channel |-> c] \in told' \cup unsent
                      \/ \E u \in Threads : [key |-> k, n |-> n, channel |-> c] \in thread'[u].sending
    BY <1>8 DEF EveryChangeTold, Sends, Due
  <2>1. PICK x : x = [key |-> k, n |-> n, channel |-> c]
    OBVIOUS
  <2>2. x \in told \cup unsent \/ \E u \in Threads : x \in thread[u].sending
    BY <2>1 DEF AlertsInv, EveryChangeTold
  <2>3. ASSUME NEW u \in Threads, x \in thread[u].sending
        PROVE  x \in told' \/ \E v \in Threads : x \in thread'[v].sending
    BY <1>1, <1>3, <1>4, <1>7, <2>3
  <2> QED BY <1>1, <2>1, <2>2, <2>3
<1>15. OfThePast'
  <2>1. \A x \in told' : x.n <= alert[x.key].n
    BY <1>1 DEF AlertsInv, OfThePast
  <2>2. \A u \in Threads : \A x \in thread'[u].sending : x.n <= alert[x.key].n
    BY <1>12 DEF AlertsInv, OfThePast
  <2> QED BY <1>8, <2>1, <2>2 DEF OfThePast
<1> QED BY <1>10, <1>13, <1>14, <1>15 DEF AlertsInv

(* A kill throws away the notices that were still to be sent. *)
LEMMA AlertsDie ==
    ASSUME AlertsInv, Die
    PROVE  AlertsInv'
<1>1. /\ unsent' = unsent \cup UNION {thread[t].sending : t \in Threads}
      /\ thread' = [t \in Threads |-> [todo |-> <<>>, sending |-> {}]]
      /\ UNCHANGED <<holds, alert, told>>
  BY DEF Die
<1>2. thread \in [Threads -> ThreadStates] /\ alert \in [Keys -> Alert]
  BY DEF AlertsInv, AlertsTypeOK, ThreadStates
<1>3. \A t \in Threads : thread'[t].sending = {} /\ thread'[t] \in ThreadStates
  BY <1>1, EmptySeq DEF ThreadStates
<1>4. thread' \in [Threads -> ThreadStates]
  BY <1>1, <1>3
<1>5. AlertsTypeOK'
  <2>1. \A k \in Keys : Active(k)' <=> Active(k)
    BY <1>1 DEF Active
  <2>2. unsent' \subseteq Notice
    BY <1>1, <1>2 DEF AlertsInv, AlertsTypeOK, ThreadStates
  <2> QED BY <1>1, <1>4, <2>1, <2>2 DEF AlertsInv, AlertsTypeOK, ThreadStates
<1>6. ToldOnce'
  BY <1>3 DEF ToldOnce
<1>7. EveryChangeTold'
  <2> SUFFICES ASSUME NEW k \in Keys, NEW n \in 1..alert[k].n, NEW c \in Ready,
                      Sends(k, Due(k, n), c)
               PROVE  [key |-> k, n |-> n, channel |-> c] \in told \cup unsent'
    BY <1>1 DEF EveryChangeTold, Sends, Due
  <2>1. PICK x : x = [key |-> k, n |-> n, channel |-> c]
    OBVIOUS
  <2>2. x \in told \cup unsent \/ \E u \in Threads : x \in thread[u].sending
    BY <2>1 DEF AlertsInv, EveryChangeTold
  <2> QED BY <1>1, <2>1, <2>2
<1>8. OfThePast'
  BY <1>1, <1>3 DEF AlertsInv, OfThePast
<1> QED BY <1>5, <1>6, <1>7, <1>8 DEF AlertsInv

(* Conditions and acknowledgements change no alert's count. *)
LEMMA AlertsOutside ==
    ASSUME AlertsInv,
           \/ \E k \in Keys : Acknowledge(k)
           \/ \E k \in Watched : ConditionChanges(k)
           \/ UNCHANGED alertVars
    PROVE  AlertsInv'
<1>1. /\ holds \in [Watched -> BOOLEAN] /\ alert \in [Keys -> Alert]
      /\ thread \in [Threads -> ThreadStates]
  BY DEF AlertsInv, AlertsTypeOK, ThreadStates
<1>2. ASSUME NEW k \in Keys, Acknowledge(k)
      PROVE  AlertsInv'
  <2>1. alert' = [alert EXCEPT ![k].status = "acknowledged"] /\ alert[k].status = "open"
        /\ UNCHANGED <<holds, thread, told, unsent>>
    BY <1>2 DEF Acknowledge
  <2>2. alert' \in [Keys -> Alert]
    BY <1>1, <2>1 DEF Alert
  <2>3. \A j \in Keys : alert'[j].n = alert[j].n /\ (Active(j)' <=> Active(j))
    BY <1>1, <2>1 DEF Active, Alert
  <2> QED BY <1>1, <2>1, <2>2, <2>3, AlertsQuiet
<1>3. ASSUME NEW k \in Watched, ConditionChanges(k)
      PROVE  AlertsInv'
  <2>1. holds' \in [Watched -> BOOLEAN] /\ UNCHANGED <<alert, thread, told, unsent>>
    BY <1>1, <1>3 DEF ConditionChanges
  <2>2. \A j \in Keys : alert'[j].n = alert[j].n /\ (Active(j)' <=> Active(j))
    BY <2>1 DEF Active
  <2> QED BY <1>1, <2>1, <2>2, AlertsQuiet
<1>4. CASE UNCHANGED alertVars
  <2>1. UNCHANGED <<holds, alert, thread, told, unsent>>
    BY <1>4 DEF alertVars
  <2>2. \A j \in Keys : alert'[j].n = alert[j].n /\ (Active(j)' <=> Active(j))
    BY <2>1 DEF Active
  <2> QED BY <1>1, <2>1, <2>2, AlertsQuiet
<1> QED BY <1>2, <1>3, <1>4

(* However many threads raise and resolve the same alerts, and wherever they are
   killed: each change is told once, on every channel that is due. *)
THEOREM NoticesTheorem == AlertsSpec => []NoticesSound
<1>1. AlertsInv => NoticesSound
  BY DEF AlertsInv, NoticesSound
<1>2. AlertsInv /\ [AlertsNext]_alertVars => AlertsInv'
  <2> SUFFICES ASSUME AlertsInv, [AlertsNext]_alertVars PROVE AlertsInv'
    OBVIOUS
  <2>1. ASSUME NEW t \in Threads,
               \/ ThreadStep(t) \/ PanicRequest(t) \/ ResetRequest(t)
               \/ \E k \in Keys : ResolveRequest(t, k)
        PROVE  AlertsInv'
    BY <2>1, AlertsBegin, AlertsLook, AlertsWrites, AlertsSends DEF ThreadStep
  <2> QED BY <2>1, AlertsOutside, AlertsDie DEF AlertsNext
<1> QED BY <1>1, <1>2, AlertsInvInit, PTL DEF AlertsSpec

-----------------------------------------------------------------------------
(***************************************************************************)
(* The AI operator.  A chat about to change a file has seen to it that     *)
(* what the file held first is in a snapshot; snapshots are never removed, *)
(* so that this stays true whatever the other chats do meanwhile.          *)
(***************************************************************************)
Contents == Whole \cup {Torn, Absent}
ChatType == [step : Steps, actions : Seq(Edits), text : Contents]

OperatorTypes ==
    /\ file \in [Files -> Contents]
    /\ snapshots \subseteq [file : Files, content : Whole \cup {Torn}]
    /\ chat \in [Chats -> ChatType]
    /\ answered \subseteq Chats

\* What the file held first, if it was there, is in a snapshot of it.
Covered(f) == original[f] # Absent => \E s \in snapshots : s.file = f /\ s.content = original[f]

\* A chat in the middle of an action has one, on a file unless it is a command,
\* and changes only a file that is covered.
InAction(r) ==
    /\ r.step \in {"snapshot", "change", "fill", "command"} => r.actions # <<>>
    /\ r.step \in {"snapshot", "change", "fill"} => Head(r.actions).kind # "shell"
    /\ r.step \in {"change", "fill"} => Covered(Head(r.actions).file)

OperatorInv ==
    /\ OperatorTypes
    /\ OriginalKept
    /\ \A c \in Chats : InAction(chat[c])

LEMMA EditFacts ==
    ASSUME NEW a \in Edits
    PROVE  /\ a.kind # "shell" => a.file \in Files
           /\ a.kind \in {"write", "append", "replace", "patch_add"} => a.text \in Passages
<1>1. CASE a \in [kind : {"write", "append", "replace", "patch_add"}, file : Files, text : Passages]
  BY <1>1
<1>2. CASE a \in [kind : {"patch_delete"}, file : Files]
  BY <1>2
<1>3. CASE a \in [kind : {"restore_snapshot"}, file : Files]
  BY <1>3
<1>4. CASE a \in [kind : {"shell"}]
  BY <1>4
<1> QED BY <1>1, <1>2, <1>3, <1>4 DEF Edits

LEMMA OperatorStart == OperatorInit => OperatorInv
<1> SUFFICES ASSUME OperatorInit PROVE OperatorInv
  OBVIOUS
<1>1. NoChat \in ChatType
  <2>1. <<>> \in Seq(Edits)
    BY EmptySeq
  <2> QED BY <2>1 DEF NoChat, ChatType, Steps, Contents
<1>2. file \in [Files -> Contents]
  BY DEF OperatorInit, Contents, Whole
<1>3. OperatorTypes
  BY <1>1, <1>2 DEF OperatorInit, OperatorTypes
<1>4. OriginalKept
  BY DEF OperatorInit, OriginalKept
<1>5. \A c \in Chats : InAction(chat[c])
  BY DEF OperatorInit, InAction, NoChat
<1> QED BY <1>3, <1>4, <1>5 DEF OperatorInv

LEMMA OperatorFollows == OperatorInv => OperatorTypeOK /\ OriginalKept
<1> SUFFICES ASSUME OperatorInv PROVE OperatorTypeOK
  BY DEF OperatorInv
<1>1. \A f \in Files : file[f] \in Whole \cup {Torn, Absent}
  BY DEF OperatorInv, OperatorTypes, Contents
<1>2. \A s \in snapshots : s.file \in Files /\ s.content \in Whole \cup {Torn}
  BY DEF OperatorInv, OperatorTypes
<1>3. \A c \in Chats : chat[c].step \in Steps /\ chat[c].actions \in Seq(Edits)
  BY DEF OperatorInv, OperatorTypes, ChatType
<1> QED BY <1>1, <1>2, <1>3 DEF OperatorInv, OperatorTypes, OperatorTypeOK

\* Snapshots only grow: what is covered stays so.
LEMMA StaysCovered ==
    ASSUME snapshots \subseteq snapshots', original' = original, NEW f
    PROVE  Covered(f) => Covered(f)'
BY DEF Covered

\* A step of one chat: it may change a file that is covered, and must leave its
\* own record in order.
LEMMA ChatMoves ==
    ASSUME OperatorInv, NEW c \in Chats, NEW r \in ChatType,
           chat' = [chat EXCEPT ![c] = r],
           snapshots \subseteq snapshots', original' = original,
           snapshots' \subseteq [file : Files, content : Whole \cup {Torn}],
           file' \in [Files -> Contents], answered' \subseteq Chats,
           r.step \in {"snapshot", "change", "fill", "command"} => r.actions # <<>>,
           r.step \in {"snapshot", "change", "fill"} => Head(r.actions).kind # "shell",
           r.step \in {"change", "fill"} => Covered(Head(r.actions).file)',
           \A f \in Files : file'[f] = file[f] \/ Covered(f)'
    PROVE  OperatorInv'
<1>1. chat' \in [Chats -> ChatType]
  BY DEF OperatorInv, OperatorTypes
<1>2. OperatorTypes'
  BY <1>1 DEF OperatorTypes
<1>3. OriginalKept'
  <2> SUFFICES ASSUME NEW f \in Files, original[f] # Absent
               PROVE  file'[f] = original[f] \/ \E s \in snapshots' : s.file = f /\ s.content = original[f]
    BY DEF OriginalKept
  <2>1. CASE file'[f] = file[f]
    BY <2>1 DEF OperatorInv, OriginalKept
  <2>2. CASE Covered(f)'
    BY <2>2 DEF Covered
  <2> QED BY <2>1, <2>2
<1>4. ASSUME NEW d \in Chats PROVE InAction(chat[d])'
  <2>1. CASE d = c
    <3>1. chat'[d] = r
      BY <2>1 DEF OperatorInv, OperatorTypes
    <3> QED BY <3>1 DEF InAction, Covered
  <2>2. CASE d # c
    <3>1. chat'[d] = chat[d] /\ InAction(chat[d])
      BY <2>2 DEF OperatorInv, OperatorTypes
    <3>2. Covered(Head(chat[d].actions).file) => Covered(Head(chat[d].actions).file)'
      BY <3>1, StaysCovered
    <3> QED BY <3>1, <3>2 DEF InAction, Covered
  <2> QED BY <2>1, <2>2
<1> QED BY <1>2, <1>3, <1>4 DEF OperatorInv

\* What a step makes of the record of its chat.
LEMMA ChatRecord ==
    ASSUME OperatorInv, NEW c \in Chats, NEW step, NEW text
    PROVE  /\ chat[c] \in ChatType
           /\ Go(c, step) =>
                chat' = [chat EXCEPT ![c] =
                           [step |-> step, actions |-> chat[c].actions, text |-> chat[c].text]]
           /\ GoWith(c, step, text) =>
                chat' = [chat EXCEPT ![c] =
                           [step |-> step, actions |-> chat[c].actions, text |-> text]]
           /\ ActionDone(c) =>
                chat' = [chat EXCEPT ![c] =
                           [step |-> "act", actions |-> Tail(chat[c].actions), text |-> Absent]]
<1>1. chat[c] \in ChatType
  BY DEF OperatorInv, OperatorTypes
<1>2. [chat[c] EXCEPT !.step = step]
        = [step |-> step, actions |-> chat[c].actions, text |-> chat[c].text]
  BY <1>1 DEF ChatType
<1>3. ASSUME Go(c, step)
      PROVE  chat' = [chat EXCEPT ![c] =
                        [step |-> step, actions |-> chat[c].actions, text |-> chat[c].text]]
  BY <1>2, <1>3 DEF Go
<1>4. ASSUME GoWith(c, step, text)
      PROVE  chat' = [chat EXCEPT ![c] =
                        [step |-> step, actions |-> chat[c].actions, text |-> text]]
  BY <1>4 DEF GoWith
<1>5. ASSUME ActionDone(c)
      PROVE  chat' = [chat EXCEPT ![c] =
                        [step |-> "act", actions |-> Tail(chat[c].actions), text |-> Absent]]
  BY <1>5 DEF ActionDone
<1> QED BY <1>1, <1>3, <1>4, <1>5

\* The action a chat is in.
LEMMA CurrentAction ==
    ASSUME OperatorInv, NEW c \in Chats, chat[c].actions # <<>>
    PROVE  Now(c) \in Edits /\ Tail(chat[c].actions) \in Seq(Edits)
<1>1. chat[c].actions \in Seq(Edits)
  BY ChatRecord DEF ChatType
<1> QED BY <1>1, HeadTailProperties DEF Now

\* What a check settles for a file to hold is a content.
LEMMA SettledText ==
    ASSUME NEW c, Now(c) \in Edits, Precondition(c), file \in [Files -> Contents],
           NEW text \in NewText(c)
    PROVE  text \in Contents
<1>1. CASE Now(c).kind \in {"write", "patch_add"}
  <2>1. Now(c).text \in Passages /\ text = {Now(c).text}
    BY <1>1, EditFacts DEF NewText
  <2> QED BY <2>1 DEF Contents, Whole
<1>2. CASE Now(c).kind = "replace"
  <2>1. Now(c).file \in Files /\ Now(c).text \in Passages /\ file[Now(c).file] \in Whole
    BY <1>2, EditFacts DEF Precondition
  <2>2. PICK old \in file[Now(c).file] : text = (file[Now(c).file] \ {old}) \cup {Now(c).text}
    BY <1>2 DEF NewText
  <2> QED BY <2>1, <2>2 DEF Contents, Whole
<1>3. CASE Now(c).kind \notin {"write", "patch_add", "replace"}
  <2>1. text = Absent
    BY <1>3 DEF NewText
  <2> QED BY <2>1 DEF Contents
<1> QED BY <1>1, <1>2, <1>3

LEMMA OperatorStep == OperatorInv /\ [OperatorNext]_operatorVars => OperatorInv'
<1> SUFFICES ASSUME OperatorInv, [OperatorNext]_operatorVars PROVE OperatorInv'
  OBVIOUS
<1> USE OperatorAssumption
<1>t. /\ file \in [Files -> Contents] /\ answered \subseteq Chats
      /\ snapshots \subseteq [file : Files, content : Whole \cup {Torn}]
  BY DEF OperatorInv, OperatorTypes
<1>s. ASSUME snapshots' = snapshots, original' = original
      PROVE  \A f : Covered(f) => Covered(f)'
  BY <1>s DEF Covered
<1>1. ASSUME NEW c \in Chats, NEW m \in Messages, Ask(c, m) PROVE OperatorInv'
  <2>1. m \in Seq(Edits)
    OBVIOUS
  <2>2. PICK r \in ChatType : r = [step |-> "act", actions |-> m, text |-> Absent]
    BY <2>1 DEF ChatType, Steps, Contents
  <2>3. chat' = [chat EXCEPT ![c] = r]
    BY <1>1, <2>2 DEF Ask
  <2>4. UNCHANGED <<file, snapshots, original, answered>>
    BY <1>1 DEF Ask, Left
  <2>5. r.step = "act"
    BY <2>2
  <2> QED BY <1>t, <2>3, <2>4, <2>5, ChatMoves
<1>2. ASSUME NEW c \in Chats, Check(c) PROVE OperatorInv'
  <2>1. /\ chat[c].step = "act" /\ chat[c].actions # <<>> /\ Now(c).kind # "shell"
        /\ UNCHANGED <<file, snapshots, original, answered>>
    BY <1>2 DEF Check, Left
  <2>2. Now(c) \in Edits
    BY <2>1, CurrentAction
  <2>3. CASE Precondition(c)
    <3>1. PICK text \in NewText(c) : GoWith(c, "snapshot", text)
      BY <1>2, <2>3 DEF Check
    <3>2. text \in Contents
      BY <1>t, <2>2, <2>3, <3>1, SettledText
    <3>3. PICK r \in ChatType : r = [step |-> "snapshot", actions |-> chat[c].actions, text |-> text]
      BY <3>2, ChatRecord DEF ChatType, Steps
    <3>4. chat' = [chat EXCEPT ![c] = r]
      BY <3>1, <3>3, ChatRecord
    <3>5. r.step = "snapshot" /\ r.actions # <<>> /\ Head(r.actions).kind # "shell"
      BY <2>1, <3>3 DEF Now
    <3> QED BY <1>t, <2>1, <3>4, <3>5, ChatMoves
  <2>4. CASE ~Precondition(c)
    <3>1. PICK r \in ChatType :
            r = [step |-> "failed", actions |-> chat[c].actions, text |-> chat[c].text]
      BY ChatRecord DEF ChatType, Steps
    <3>2. chat' = [chat EXCEPT ![c] = r]
      BY <1>2, <2>4, <3>1, ChatRecord DEF Check
    <3>3. r.step = "failed"
      BY <3>1
    <3> QED BY <1>t, <2>1, <3>2, <3>3, ChatMoves
  <2> QED BY <2>3, <2>4
<1>3. ASSUME NEW c \in Chats, Snapshot(c) PROVE OperatorInv'
  <2>1. /\ chat[c].step = "snapshot" /\ chat[c].actions # <<>> /\ Now(c).kind # "shell"
        /\ UNCHANGED <<file, original, answered>>
    BY <1>3 DEF Snapshot, Left, OperatorInv, InAction, Now
  <2>2. PICK f \in Files : f = Subject(c)
    BY <2>1, CurrentAction, EditFacts DEF Subject
  <2>3. PICK kept : kept = [file |-> f, content |-> file[f]]
    OBVIOUS
  <2>4. snapshots' = IF Exists(f) THEN snapshots \cup {kept} ELSE snapshots
    BY <1>3, <2>2, <2>3 DEF Snapshot
  <2>5. Exists(f) => kept \in [file : Files, content : Whole \cup {Torn}]
    BY <1>t, <2>3 DEF Exists, Contents
  <2>6. snapshots \subseteq snapshots' /\ snapshots' \subseteq [file : Files, content : Whole \cup {Torn}]
    BY <1>t, <2>4, <2>5
  <2>7. Covered(f)'
    <3>1. original' = original
      BY <2>1
    <3> SUFFICES ASSUME original[f] # Absent
                 PROVE  \E s \in snapshots' : s.file = f /\ s.content = original[f]
      BY <3>1 DEF Covered
    <3>2. CASE file[f] = original[f]
      BY <2>3, <2>4, <3>2 DEF Exists
    <3>3. CASE \E s \in snapshots : s.file = f /\ s.content = original[f]
      BY <2>6, <3>3
    <3> QED BY <3>2, <3>3 DEF OperatorInv, OriginalKept
  <2>8. PICK r \in ChatType :
          r = [step |-> "change", actions |-> chat[c].actions, text |-> chat[c].text]
    BY ChatRecord DEF ChatType, Steps
  <2>9. chat' = [chat EXCEPT ![c] = r]
    BY <1>3, <2>8, ChatRecord DEF Snapshot
  <2>10. /\ r.step = "change" /\ r.actions # <<>> /\ Head(r.actions).kind # "shell"
         /\ Head(r.actions).file = f
    BY <2>1, <2>2, <2>8 DEF Now, Subject
  <2> QED BY <1>t, <2>1, <2>6, <2>7, <2>9, <2>10, ChatMoves
\* What a chat that changes its file may do.
<1>c. ASSUME NEW c \in Chats, chat[c].step \in {"change", "fill"}, UNCHANGED <<snapshots, original>>
      PROVE  /\ chat[c].actions # <<>> /\ Now(c) \in Edits /\ Subject(c) \in Files
             /\ Now(c).kind # "shell"
             /\ Covered(Subject(c)) /\ Tail(chat[c].actions) \in Seq(Edits)
  <2>1. chat[c].actions # <<>> /\ Now(c).kind # "shell" /\ Covered(Subject(c))
    BY <1>c DEF OperatorInv, InAction, Now, Subject
  <2> QED BY <2>1, CurrentAction, EditFacts DEF Subject
\* A chat whose file changes, or not, and that goes on with the record r.
<1>d. ASSUME NEW c \in Chats, NEW r \in ChatType, chat[c].step \in {"change", "fill"},
             UNCHANGED <<snapshots, original, answered>>,
             chat' = [chat EXCEPT ![c] = r],
             r.step \in {"act", "failed"} \/ (r.step = "fill" /\ r.actions = chat[c].actions),
             NEW text \in Contents,
             file' = file \/ file' = [file EXCEPT ![Subject(c)] = text]
      PROVE  OperatorInv'
  <2>1. PICK f \in Files : f = Subject(c)
    BY <1>c, <1>d
  <2>2. Covered(f)'
    BY <1>c, <1>d, <1>s, <2>1
  <2>3. file' \in [Files -> Contents] /\ \A g \in Files : file'[g] = file[g] \/ g = f
    BY <1>t, <1>d, <2>1
  <2>4. \A g \in Files : file'[g] = file[g] \/ Covered(g)'
    BY <2>2, <2>3
  <2>5. r.step = "fill" =>
          r.actions # <<>> /\ Head(r.actions).kind # "shell" /\ Head(r.actions).file = f
    BY <1>c, <1>d, <2>1 DEF Now, Subject
  <2>6. r.step = "fill" => Covered(Head(r.actions).file)'
    BY <2>2, <2>5
  <2>7. r.step \in {"fill", "act", "failed"}
    BY <1>d
  <2> QED BY <1>t, <1>d, <2>3, <2>4, <2>5, <2>6, <2>7, ChatMoves
<1>4. ASSUME NEW c \in Chats, Overwrite(c) PROVE OperatorInv'
  <2>1. /\ chat[c].step = "change" /\ UNCHANGED <<snapshots, original, answered>>
        /\ file' = [file EXCEPT ![Subject(c)] = Torn]
    BY <1>4 DEF Overwrite, Changing, Left
  <2>2. PICK r \in ChatType :
          r = [step |-> "fill", actions |-> chat[c].actions, text |-> chat[c].text]
    BY ChatRecord DEF ChatType, Steps
  <2>3. chat' = [chat EXCEPT ![c] = r]
    BY <1>4, <2>2, ChatRecord DEF Overwrite
  <2>4. Torn \in Contents
    BY DEF Contents
  <2> QED BY <1>d, <2>1, <2>2, <2>3, <2>4
<1>5. ASSUME NEW c \in Chats, RestoreSnapshot(c) PROVE OperatorInv'
  <2>1. /\ chat[c].step = "change" /\ UNCHANGED <<snapshots, original, answered>>
        /\ file' = [file EXCEPT ![Subject(c)] = Torn]
    BY <1>5 DEF RestoreSnapshot, Changing, Left
  <2>2. PICK s \in snapshots : GoWith(c, "fill", s.content)
    BY <1>5 DEF RestoreSnapshot
  <2>3. s.content \in Contents
    BY <1>t DEF Contents
  <2>4. PICK r \in ChatType : r = [step |-> "fill", actions |-> chat[c].actions, text |-> s.content]
    BY <2>3, ChatRecord DEF ChatType, Steps
  <2>5. chat' = [chat EXCEPT ![c] = r]
    BY <2>2, <2>4, ChatRecord
  <2>6. Torn \in Contents
    BY DEF Contents
  <2> QED BY <1>d, <2>1, <2>4, <2>5, <2>6
<1>6. ASSUME NEW c \in Chats, AppendText(c) PROVE OperatorInv'
  <2>1. /\ chat[c].step = "change" /\ UNCHANGED <<snapshots, original, answered>>
        /\ Now(c).kind = "append"
    BY <1>6 DEF AppendText, Changing, Left
  <2>2. Subject(c) \in Files /\ Now(c).text \in Passages
    BY <1>c, <2>1, EditFacts
  <2>3. PICK text \in Contents : file' = [file EXCEPT ![Subject(c)] = text]
    <3>1. CASE file[Subject(c)] = Absent
      BY <1>6, <2>2, <3>1 DEF AppendText, Contents, Whole
    <3>2. CASE file[Subject(c)] # Absent /\ file[Subject(c)] = Torn
      BY <1>6, <2>2, <3>2 DEF AppendText, Contents
    <3>3. CASE file[Subject(c)] # Absent /\ file[Subject(c)] # Torn
      <4>1. file[Subject(c)] \cup {Now(c).text} \in Contents
        BY <1>t, <2>2, <3>3 DEF Contents, Whole
      <4> QED BY <1>6, <4>1, <3>3 DEF AppendText
    <3> QED BY <3>1, <3>2, <3>3
  <2>4. PICK r \in ChatType : r = [step |-> "act", actions |-> Tail(chat[c].actions), text |-> Absent]
    BY <1>c, <2>1 DEF ChatType, Steps, Contents
  <2>5. chat' = [chat EXCEPT ![c] = r]
    BY <1>6, <2>4, ChatRecord DEF AppendText
  <2> QED BY <1>d, <2>1, <2>3, <2>4, <2>5
<1>7. ASSUME NEW c \in Chats, Delete(c) PROVE OperatorInv'
  <2>1. /\ chat[c].step = "change" /\ UNCHANGED <<snapshots, original, answered>>
    BY <1>7 DEF Delete, Changing, Left
  <2>2. Absent \in Contents
    BY DEF Contents
  <2>3. CASE Exists(Subject(c))
    <3>1. PICK r \in ChatType : r = [step |-> "act", actions |-> Tail(chat[c].actions), text |-> Absent]
      BY <1>c, <2>1 DEF ChatType, Steps, Contents
    <3>2. chat' = [chat EXCEPT ![c] = r] /\ file' = [file EXCEPT ![Subject(c)] = Absent]
      BY <1>7, <2>3, <3>1, ChatRecord DEF Delete
    <3> QED BY <1>d, <2>1, <2>2, <3>1, <3>2
  <2>4. CASE ~Exists(Subject(c))
    <3>1. PICK r \in ChatType :
            r = [step |-> "failed", actions |-> chat[c].actions, text |-> chat[c].text]
      BY ChatRecord DEF ChatType, Steps
    <3>2. chat' = [chat EXCEPT ![c] = r] /\ file' = file
      BY <1>7, <2>4, <3>1, ChatRecord DEF Delete
    <3> QED BY <1>d, <2>1, <2>2, <3>1, <3>2
  <2> QED BY <2>3, <2>4
<1>8. ASSUME NEW c \in Chats, Fill(c) PROVE OperatorInv'
  <2>1. /\ chat[c].step = "fill" /\ UNCHANGED <<snapshots, original, answered>>
    BY <1>8 DEF Fill, Left
  <2>2. PICK text \in Contents : file' = [file EXCEPT ![Subject(c)] = text]
    BY <1>8, ChatRecord DEF Fill, ChatType, Contents
  <2>3. PICK r \in ChatType : r = [step |-> "act", actions |-> Tail(chat[c].actions), text |-> Absent]
    BY <1>c, <2>1 DEF ChatType, Steps, Contents
  <2>4. chat' = [chat EXCEPT ![c] = r]
    BY <1>8, <2>3, ChatRecord DEF Fill
  <2> QED BY <1>d, <2>1, <2>2, <2>3, <2>4
<1>9. ASSUME NEW c \in Chats, ShellBackup(c) PROVE OperatorInv'
  <2>1. chat[c].actions # <<>> /\ UNCHANGED <<file, snapshots, original, answered>>
    BY <1>9 DEF ShellBackup, Left
  <2>2. PICK step \in {"command", "failed"} : Go(c, step)
    BY <1>9 DEF ShellBackup
  <2>3. PICK r \in ChatType : r = [step |-> step, actions |-> chat[c].actions, text |-> chat[c].text]
    BY ChatRecord DEF ChatType, Steps
  <2>4. chat' = [chat EXCEPT ![c] = r]
    BY <2>2, <2>3, ChatRecord
  <2>5. r.step \in {"command", "failed"} /\ r.actions # <<>>
    BY <2>1, <2>3
  <2> QED BY <1>t, <2>1, <2>4, <2>5, ChatMoves
<1>10. ASSUME NEW c \in Chats, ShellCommand(c) PROVE OperatorInv'
  <2>1. chat[c].step = "command" /\ UNCHANGED <<file, snapshots, original, answered>>
    BY <1>10 DEF ShellCommand, Left
  <2>2. Tail(chat[c].actions) \in Seq(Edits)
    BY <2>1, CurrentAction DEF OperatorInv, InAction
  <2>3. PICK r \in ChatType : r = [step |-> "act", actions |-> Tail(chat[c].actions), text |-> Absent]
    BY <2>2 DEF ChatType, Steps, Contents
  <2>4. chat' = [chat EXCEPT ![c] = r]
    BY <1>10, <2>3, ChatRecord DEF ShellCommand
  <2>5. r.step = "act"
    BY <2>3
  <2> QED BY <1>t, <2>1, <2>4, <2>5, ChatMoves
<1>11. ASSUME NEW c \in Chats, Reply(c) PROVE OperatorInv'
  <2>1. /\ UNCHANGED <<file, snapshots, original>> /\ answered' \subseteq Chats
    BY <1>t, <1>11 DEF Reply
  <2>2. PICK r \in ChatType : r = NoChat
    BY EmptySeq DEF NoChat, ChatType, Steps, Contents
  <2>3. chat' = [chat EXCEPT ![c] = r]
    BY <1>11, <2>2 DEF Reply
  <2>4. r.step = "idle"
    BY <2>2 DEF NoChat
  <2> QED BY <1>t, <2>1, <2>3, <2>4, ChatMoves
<1>12. CASE OperatorCrash
  <2>1. UNCHANGED <<file, original, snapshots, answered>>
    BY <1>12 DEF OperatorCrash
  <2>2. ASSUME NEW c \in Chats
        PROVE  chat'[c] \in ChatType /\ chat'[c].step \in {"idle", "dead"}
    <3>1. CASE chat[c].step = "idle"
      BY <1>12, <3>1, ChatRecord DEF OperatorCrash
    <3>2. CASE chat[c].step # "idle"
      <4>1. chat'[c] = [step |-> "dead", actions |-> <<>>, text |-> Absent]
        BY <1>12, <3>2 DEF OperatorCrash, NoChat
      <4> QED BY <4>1, EmptySeq DEF ChatType, Steps, Contents
    <3> QED BY <3>1, <3>2
  <2>3. chat' \in [Chats -> ChatType]
    BY <1>12, <2>2 DEF OperatorCrash
  <2>4. \A c \in Chats : InAction(chat[c])'
    BY <2>2 DEF InAction
  <2> QED BY <2>1, <2>3, <2>4 DEF OperatorInv, OperatorTypes, OriginalKept
<1>13. CASE UNCHANGED operatorVars
  BY <1>13 DEF operatorVars, OperatorInv, OperatorTypes, OriginalKept, InAction, Covered
<1> QED BY <1>1, <1>2, <1>3, <1>4, <1>5, <1>6, <1>7, <1>8, <1>9, <1>10, <1>11, <1>12, <1>13
        DEF OperatorNext, Work

\* Whatever list of actions the chats execute together, and wherever the server
\* stops, what a file held first is in it or in a snapshot of it.
THEOREM OperatorTheorem == OperatorSpec => []OperatorSound
<1>1. OperatorInv => OperatorSound
  BY OperatorFollows DEF OperatorSound
<1> QED BY OperatorStart, OperatorStep, <1>1, PTL DEF OperatorSpec

-----------------------------------------------------------------------------
(***************************************************************************)
(* The live pilot script.  It asks for each thing once and in order, so    *)
(* that what it has asked for tells what may still be handled.             *)
(***************************************************************************)
ScriptType ==
    [at : Posts \cup Reads \cup {"failed", "finally", "done", "killed"}, options : Options,
     armed : BOOLEAN, saw : {"unknown", "running", "completed", "failed"},
     ok : BOOLEAN, disarm : {"untried", "answered", "failed"}]

\* The launch has not been asked for yet, the arming neither.
BeforeLaunch ==
    \/ script.at \in {"status", "attest", "arm", "ready"}
    \/ script.at = "launch" /\ answer = "none"
BeforeArm ==
    \/ script.at \in {"status", "attest"}
    \/ script.at = "arm" /\ answer = "none"

PilotTypes ==
    /\ script \in ScriptType
    /\ calls \subseteq Posts /\ answer \in {"none", "awaited", "accepted", "refused"}
    /\ window \in [by : {"nobody", "script", "other"}, orders : 0..MaxOrders]
    /\ pilotRun \in {"none", "running", "entered", "completed", "failed"}
    /\ gates \in BOOLEAN /\ otherRun \in BOOLEAN
    /\ launched \in Nat /\ windows \in Nat
    /\ answer # "none" => script.at \in Posts

LaunchInv ==
    /\ BeforeLaunch => launched = 0 /\ "launch" \notin calls
    /\ launched <= 1
    /\ "launch" \in calls => launched = 0
    /\ script.at = "launch" /\ answer = "accepted" => launched = 1
    /\ script.at \in {"wait", "reconcile"} => launched = 1
    /\ script.at \in {"wait", "reconcile"} => Opted("launch")
    /\ script.at = "launch" /\ answer # "none" => Opted("launch")
    /\ launched = 1 => pilotRun # "none"
    /\ script.saw # "unknown" => launched = 1
    /\ script.saw = "completed" => pilotRun = "completed"
    /\ script.ok => script.at \in {"finally", "disarm", "done", "killed"}
    /\ script.ok /\ Opted("launch") => script.saw = "completed"

ArmInv ==
    /\ BeforeArm => "arm" \notin calls
    /\ script.armed => "arm" \notin calls /\ script.at \notin {"status", "attest", "arm"}
    /\ script.at = "arm" /\ answer \in {"accepted", "refused"} => "arm" \notin calls
    /\ script.at = "disarm" => script.armed
    /\ script.at = "disarm" /\ answer = "accepted" => window.by # "script"
    /\ script.disarm = "answered" => script.armed /\ window.by # "script"
    /\ script.at = "done" /\ script.armed /\ ~Opted("keep_armed") => script.disarm # "untried"

PilotInv == PilotTypes /\ LaunchInv /\ ArmInv

LEMMA PilotStart == PilotInit => PilotInv
<1> SUFFICES ASSUME PilotInit PROVE PilotInv
  OBVIOUS
<1>1. PICK o \in Options :
        script = [at |-> "status", options |-> o, armed |-> FALSE, saw |-> "unknown",
                  ok |-> FALSE, disarm |-> "untried"]
  BY DEF PilotInit
<1>2. script \in ScriptType
  BY <1>1 DEF ScriptType, Reads, Posts
<1>3. Shut \in [by : {"nobody", "script", "other"}, orders : 0..MaxOrders]
  BY PilotAssumption DEF Shut
<1>4. PilotTypes
  BY <1>2, <1>3 DEF PilotInit, PilotTypes
<1>5. LaunchInv /\ ArmInv
  BY <1>1 DEF PilotInit, LaunchInv, ArmInv, BeforeLaunch, BeforeArm
<1> QED BY <1>4, <1>5 DEF PilotInv

LEMMA PilotFollows == PilotInv => PilotTypeOK /\ LaunchedOnce /\ ShutAtEnd /\ OkMeansCompleted
<1> SUFFICES ASSUME PilotInv PROVE PilotTypeOK /\ LaunchedOnce /\ ShutAtEnd /\ OkMeansCompleted
  OBVIOUS
<1>1. PilotTypeOK
  BY DEF PilotInv, PilotTypes, ScriptType, PilotTypeOK
<1>2. LaunchedOnce /\ OkMeansCompleted
  BY DEF PilotInv, PilotTypes, LaunchInv, LaunchedOnce, OkMeansCompleted, Opted, ScriptType
<1>3. ShutAtEnd
  BY DEF PilotInv, ArmInv, ShutAtEnd
<1> QED BY <1>1, <1>2, <1>3

\* The script's record after a step.
Noted(place, armed, saw, ok, disarm) ==
    [at |-> place, options |-> script.options, armed |-> armed, saw |-> saw, ok |-> ok,
     disarm |-> disarm]
Moved(place) == Noted(place, script.armed, script.saw, script.ok, script.disarm)

LEMMA ScriptGoes ==
    ASSUME script \in ScriptType, NEW place
    PROVE  GoTo(place) => script' = Moved(place)
BY DEF ScriptType, GoTo, Moved, Noted

\* An answered request moves the script on, and tells it that it is armed, or
\* that it has disarmed.
LEMMA AnswerMoves ==
    ASSUME script \in ScriptType, PostAnswered, script.at \in Posts
    PROVE  \/ script.at = "attest" /\ script' = Moved("arm")
           \/ script.at = "arm" /\ script' = Noted("ready", TRUE, script.saw, script.ok, script.disarm)
           \/ script.at = "launch" /\ script' = Moved("wait")
           \/ script.at = "reconcile" /\ script' = Moved("report")
           \/ /\ script.at = "disarm"
              /\ script' = Noted("done", script.armed, script.saw, script.ok, "answered")
<1>1. CASE script.at = "arm"
  <2>1. script' = [script EXCEPT !.at = "ready", !.armed = TRUE]
    BY <1>1 DEF PostAnswered
  <2> QED BY <1>1, <2>1 DEF ScriptType, Noted
<1>2. CASE script.at = "disarm"
  <2>1. script' = [script EXCEPT !.at = "done", !.disarm = "answered"]
    BY <1>2 DEF PostAnswered
  <2> QED BY <1>2, <2>1 DEF ScriptType, Noted
<1>3. CASE script.at \in {"attest", "launch", "reconcile"}
  <2>1. script' = [script EXCEPT !.at = After[script.at]]
    BY <1>3 DEF PostAnswered
  <2>2. script' = Moved(After[script.at])
    BY <2>1 DEF ScriptType, Moved, Noted
  <2>3. After["attest"] = "arm" /\ After["launch"] = "wait" /\ After["reconcile"] = "report"
    BY DEF After
  <2> QED BY <1>3, <2>2, <2>3
<1> QED BY <1>1, <1>2, <1>3 DEF Posts

LEMMA ReadMoves ==
    ASSUME script \in ScriptType, Read
    PROVE  \/ script.at = "status" /\ script' = Moved("attest")
           \/ script.at = "ready" /\ script' = Moved("launch")
           \/ /\ script.at = "report"
              /\ script' = Noted("finally", script.armed, script.saw,
                                 script.ok \/ (Opted("launch") => script.saw = "completed"),
                                 script.disarm)
<1> DEFINE ok == script.ok \/ (script.at = "report" /\ (Opted("launch") => script.saw = "completed"))
<1>1. script' = [script EXCEPT !.at = After[script.at], !.ok = ok]
  BY DEF Read
<1>2. script' = Noted(After[script.at], script.armed, script.saw, ok, script.disarm)
  <2> HIDE DEF ok
  <2> QED BY <1>1 DEF ScriptType, Noted
<1>3. script.at # "report" => ok = script.ok
  BY DEF ScriptType
<1>4. script.at = "report" => ok = (script.ok \/ (Opted("launch") => script.saw = "completed"))
  OBVIOUS
<1> HIDE DEF ok
<1>5. CASE script.at = "report"
  BY <1>2, <1>4, <1>5 DEF After
<1>6. CASE script.at \in {"status", "ready"}
  BY <1>2, <1>3, <1>6 DEF After, Moved
<1> QED BY <1>5, <1>6 DEF Read

LEMMA PollMoves ==
    ASSUME script \in ScriptType, Poll
    PROVE  \E place \in {"wait", "reconcile"} :
             script' = Noted(place, script.armed, RunStatus, script.ok, script.disarm)
<1>1. script' = [script EXCEPT !.saw = RunStatus,
                   !.at = IF RunStatus \in {"completed", "failed"} THEN "reconcile" ELSE script.at]
  BY DEF Poll
<1>2. PICK place \in {"wait", "reconcile"} :
        place = IF RunStatus \in {"completed", "failed"} THEN "reconcile" ELSE script.at
  BY DEF Poll
<1>3. script' = [script EXCEPT !.saw = RunStatus, !.at = place]
  BY <1>1, <1>2
<1> QED BY <1>3 DEF ScriptType, Noted

LEMMA PilotStep == PilotInv /\ [PilotNext]_pilotVars => PilotInv'
<1> SUFFICES ASSUME PilotInv, [PilotNext]_pilotVars PROVE PilotInv'
  OBVIOUS
<1> USE PilotAssumption
<1>a. script \in ScriptType /\ \A place : GoTo(place) => script' = Moved(place)
  BY ScriptGoes DEF PilotInv, PilotTypes
<1>1. CASE Skip
  <2>1. \/ script.at = "attest" /\ script' = Moved("arm")
        \/ script.at = "arm" /\ script' = Moved("ready")
        \/ script.at = "launch" /\ script' = Moved("report")
    BY <1>1, <1>a DEF Skip, After
  <2>2. UNCHANGED <<calls, answer, Server>> /\ answer = "none" /\ ~Opted(script.at)
    BY <1>1, <1>a DEF Skip
  <2>3. script' \in ScriptType
    BY <1>a, <2>1, <2>2 DEF ScriptType, Posts, Reads, Moved, Noted
  <2>4. PilotTypes'
    BY <2>1, <2>2, <2>3 DEF PilotInv, PilotTypes, Server, Posts, Noted, Moved
  <2>5. LaunchInv'
    BY <1>a, <2>1, <2>2 DEF PilotInv, PilotTypes, ScriptType, LaunchInv, BeforeLaunch, Server, Opted, Moved, Noted
  <2>6. ArmInv'
    BY <1>a, <2>1, <2>2 DEF PilotInv, PilotTypes, ScriptType, ArmInv, BeforeArm, Server, Opted, Shut, Moved, Noted
  <2> QED BY <2>4, <2>5, <2>6 DEF PilotInv
<1>2. CASE Post
  <2>1. /\ script.at \in Posts /\ answer = "none" /\ answer' = "awaited"
        /\ Opted(script.at) \/ script.at \in {"reconcile", "disarm"}
        /\ calls' = calls \cup {script.at} /\ UNCHANGED <<script, Server>>
    BY <1>2, <1>a DEF Post
  <2>2. script' \in ScriptType
    BY <1>a, <2>1
  <2>3. PilotTypes'
    BY <2>1, <2>2 DEF PilotInv, PilotTypes, Server
  <2>4. LaunchInv'
    BY <1>a, <2>1 DEF PilotInv, PilotTypes, ScriptType, LaunchInv, BeforeLaunch, Server, Opted, Moved, Noted
  <2>5. ArmInv'
    BY <1>a, <2>1 DEF PilotInv, PilotTypes, ScriptType, ArmInv, BeforeArm, Server, Opted, Shut, Moved, Noted
  <2> QED BY <2>3, <2>4, <2>5 DEF PilotInv
<1>3. CASE PostAnswered
  <2>1. answer = "accepted" /\ answer' = "none" /\ UNCHANGED <<calls, Server>>
    BY <1>3, <1>a DEF PostAnswered
  <2>2. script.at \in Posts
    BY <1>3, <1>a DEF PostAnswered, PilotInv, PilotTypes
  <2>3. \/ script.at = "attest" /\ script' = Moved("arm")
        \/ script.at = "arm" /\ script' = Noted("ready", TRUE, script.saw, script.ok, script.disarm)
        \/ script.at = "launch" /\ script' = Moved("wait")
        \/ script.at = "reconcile" /\ script' = Moved("report")
        \/ /\ script.at = "disarm"
           /\ script' = Noted("done", script.armed, script.saw, script.ok, "answered")
    BY <1>3, <1>a, <2>2, AnswerMoves
  <2>4. script' \in ScriptType
    <3>2. CASE script.at = "arm"
      <4>1. script' = Noted("ready", TRUE, script.saw, script.ok, script.disarm)
        BY <2>3, <3>2
      <4> QED BY <1>a, <4>1 DEF ScriptType, Reads, Noted
    <3>3. CASE script.at = "disarm"
      <4>1. script' = Noted("done", script.armed, script.saw, script.ok, "answered")
        BY <2>3, <3>3
      <4> QED BY <1>a, <4>1 DEF ScriptType, Noted
    <3>4. CASE script.at \in {"attest", "launch", "reconcile"}
      <4>1. PICK place \in {"arm", "wait", "report"} : script' = Moved(place)
        BY <2>3, <3>4
      <4> QED BY <1>a, <4>1 DEF ScriptType, Posts, Reads, Moved, Noted
    <3> QED BY <2>2, <3>2, <3>3, <3>4 DEF Posts
  <2>5. PilotTypes'
    BY <2>1, <2>2, <2>3, <2>4 DEF PilotInv, PilotTypes, Server, Posts, Noted, Moved
  <2>6. LaunchInv'
    BY <1>a, <2>1, <2>2, <2>3 DEF PilotInv, PilotTypes, ScriptType, LaunchInv, BeforeLaunch, Server, Opted, Moved, Noted
  <2>7. ArmInv'
    BY <1>a, <2>1, <2>2, <2>3 DEF PilotInv, PilotTypes, ScriptType, ArmInv, BeforeArm, Server, Opted, Shut, Moved, Noted
  <2> QED BY <2>5, <2>6, <2>7 DEF PilotInv
<1>4. CASE Read
  <2>1. answer = "none" /\ UNCHANGED <<calls, answer, Server>>
    BY <1>4, <1>a DEF Read, PilotInv, PilotTypes, Posts
  <2>2. \/ script.at = "status" /\ script' = Moved("attest")
        \/ script.at = "ready" /\ script' = Moved("launch")
        \/ /\ script.at = "report"
           /\ script' = Noted("finally", script.armed, script.saw,
                              script.ok \/ (Opted("launch") => script.saw = "completed"),
                              script.disarm)
    BY <1>4, <1>a, ReadMoves
  <2>3. script' \in ScriptType
    <3>1. CASE script.at \in {"status", "ready"}
      <4>1. PICK place \in {"attest", "launch"} : script' = Moved(place)
        BY <2>2, <3>1
      <4> QED BY <1>a, <4>1 DEF ScriptType, Posts, Moved, Noted
    <3>2. CASE script.at = "report"
      <4>1. PICK ok \in BOOLEAN :
              script' = Noted("finally", script.armed, script.saw, ok, script.disarm)
        <5> DEFINE ok == script.ok \/ (Opted("launch") => script.saw = "completed")
        <5>1. ok \in BOOLEAN
          OBVIOUS
        <5>2. script' = Noted("finally", script.armed, script.saw, ok, script.disarm)
          BY <2>2, <3>2
        <5> QED BY <5>1, <5>2
      <4> QED BY <1>a, <4>1 DEF ScriptType, Noted
    <3> QED BY <2>2, <3>1, <3>2
  <2>4. PilotTypes'
    BY <2>1, <2>2, <2>3 DEF PilotInv, PilotTypes, Server, Posts, Noted, Moved
  <2>5. LaunchInv'
    BY <1>a, <2>1, <2>2 DEF PilotInv, PilotTypes, ScriptType, LaunchInv, BeforeLaunch, Server, Opted, Moved, Noted
  <2>6. ArmInv'
    BY <1>a, <2>1, <2>2 DEF PilotInv, PilotTypes, ScriptType, ArmInv, BeforeArm, Server, Opted, Shut, Moved, Noted
  <2> QED BY <2>4, <2>5, <2>6 DEF PilotInv
<1>5. CASE Poll
  <2>1. script.at = "wait" /\ answer = "none" /\ UNCHANGED <<calls, answer, Server>>
    BY <1>5, <1>a DEF Poll, PilotInv, PilotTypes, Posts
  <2>2. /\ launched = 1 /\ RunStatus \in {"running", "completed", "failed"}
        /\ RunStatus = "completed" => pilotRun = "completed"
    BY <1>5, <1>a DEF Poll, PilotInv, PilotTypes, LaunchInv, RunStatus
  <2>3. \E place \in {"wait", "reconcile"} :
          script' = Noted(place, script.armed, RunStatus, script.ok, script.disarm)
    BY <1>5, <1>a, PollMoves
  <2>4. script' \in ScriptType
    BY <1>a, <2>1, <2>2, <2>3 DEF ScriptType, Posts, Reads, Moved, Noted
  <2>5. PilotTypes'
    BY <2>1, <2>2, <2>3, <2>4 DEF PilotInv, PilotTypes, Server, Posts, Noted, Moved
  <2>6. LaunchInv'
    BY <1>a, <2>1, <2>2, <2>3 DEF PilotInv, PilotTypes, ScriptType, LaunchInv, BeforeLaunch, Server, Opted, Moved, Noted
  <2>7. ArmInv'
    BY <1>a, <2>1, <2>2, <2>3 DEF PilotInv, PilotTypes, ScriptType, ArmInv, BeforeArm, Server, Opted, Shut, Moved, Noted
  <2> QED BY <2>5, <2>6, <2>7 DEF PilotInv
<1>6. CASE Deadline
  <2>1. script.at = "wait" /\ script' = Moved("reconcile") /\ UNCHANGED <<calls, answer, Server>>
    BY <1>6, <1>a DEF Deadline
  <2>2. script' \in ScriptType
    BY <1>a, <2>1 DEF ScriptType, Posts, Reads, Moved, Noted
  <2>3. PilotTypes'
    BY <2>1, <2>2 DEF PilotInv, PilotTypes, Server, Posts, Noted, Moved
  <2>4. LaunchInv'
    BY <1>a, <2>1 DEF PilotInv, PilotTypes, ScriptType, LaunchInv, BeforeLaunch, Server, Opted, Moved, Noted
  <2>5. ArmInv'
    BY <1>a, <2>1 DEF PilotInv, PilotTypes, ScriptType, ArmInv, BeforeArm, Server, Opted, Shut, Moved, Noted
  <2> QED BY <2>3, <2>4, <2>5 DEF PilotInv
<1>7. CASE Fails
  <2>1. script.at \notin {"done", "disarm"} /\ script' = Moved("finally") /\ answer' = "none"
    BY <1>7, <1>a DEF Fails, Reads, Posts
  <2>2. UNCHANGED <<calls, Server>>
    BY <1>7, <1>a DEF Fails
  <2>3. script' \in ScriptType
    BY <1>a, <2>1, <2>2 DEF ScriptType, Posts, Reads, Moved, Noted
  <2>4. PilotTypes'
    BY <2>1, <2>2, <2>3 DEF PilotInv, PilotTypes, Server, Posts, Noted, Moved
  <2>5. LaunchInv'
    BY <1>a, <2>1, <2>2 DEF PilotInv, PilotTypes, ScriptType, LaunchInv, BeforeLaunch, Server, Opted, Moved, Noted
  <2>6. ArmInv'
    BY <1>a, <2>1, <2>2 DEF PilotInv, PilotTypes, ScriptType, ArmInv, BeforeArm, Server, Opted, Shut, Moved, Noted
  <2> QED BY <2>4, <2>5, <2>6 DEF PilotInv
<1>8. CASE FinallyDisarm
  <2>1. /\ script.at = "finally" /\ UNCHANGED <<calls, answer, Server>>
        /\ \/ script.armed /\ ~Opted("keep_armed") /\ script' = Moved("disarm")
           \/ ~(script.armed /\ ~Opted("keep_armed")) /\ script' = Moved("done")
    BY <1>8, <1>a DEF FinallyDisarm
  <2>2. answer = "none"
    BY <1>8, <1>a DEF FinallyDisarm, PilotInv, PilotTypes, Posts
  <2>3. script' \in ScriptType
    BY <1>a, <2>1, <2>2 DEF ScriptType, Posts, Reads, Moved, Noted
  <2>4. PilotTypes'
    BY <2>1, <2>2, <2>3 DEF PilotInv, PilotTypes, Server, Posts, Noted, Moved
  <2>5. LaunchInv'
    BY <1>a, <2>1, <2>2 DEF PilotInv, PilotTypes, ScriptType, LaunchInv, BeforeLaunch, Server, Opted, Moved, Noted
  <2>6. ArmInv'
    BY <1>a, <2>1, <2>2 DEF PilotInv, PilotTypes, ScriptType, ArmInv, BeforeArm, Server, Opted, Shut, Moved, Noted
  <2> QED BY <2>4, <2>5, <2>6 DEF PilotInv
<1>9. CASE DisarmFails
  <2>1. /\ script.at = "disarm" /\ answer' = "none" /\ UNCHANGED <<calls, Server>>
        /\ script' = [script EXCEPT !.at = "done", !.disarm = "failed"]
    BY <1>9, <1>a DEF DisarmFails
  <2>2. script' = Noted("done", script.armed, script.saw, script.ok, "failed")
    BY <1>9, <1>a, <2>1 DEF ScriptType, Noted
  <2>3. script' \in ScriptType
    BY <1>a, <2>1, <2>2 DEF ScriptType, Posts, Reads, Moved, Noted
  <2>4. PilotTypes'
    BY <2>1, <2>2, <2>3 DEF PilotInv, PilotTypes, Server, Posts, Noted, Moved
  <2>5. LaunchInv'
    BY <1>a, <2>1, <2>2 DEF PilotInv, PilotTypes, ScriptType, LaunchInv, BeforeLaunch, Server, Opted, Moved, Noted
  <2>6. ArmInv'
    BY <1>a, <2>1, <2>2 DEF PilotInv, PilotTypes, ScriptType, ArmInv, BeforeArm, Server, Opted, Shut, Moved, Noted
  <2> QED BY <2>4, <2>5, <2>6 DEF PilotInv
<1>10. CASE Killed
  <2>1. script' = Moved("killed") /\ answer' = "none" /\ UNCHANGED <<calls, Server>>
    BY <1>10, <1>a DEF Killed
  <2>2. script' \in ScriptType
    BY <1>a, <2>1 DEF ScriptType, Posts, Reads, Moved, Noted
  <2>3. PilotTypes'
    BY <2>1, <2>2 DEF PilotInv, PilotTypes, Server, Posts, Noted, Moved
  <2>4. LaunchInv'
    BY <1>a, <2>1 DEF PilotInv, PilotTypes, ScriptType, LaunchInv, BeforeLaunch, Server, Opted, Moved, Noted
  <2>5. ArmInv'
    BY <1>a, <2>1 DEF PilotInv, PilotTypes, ScriptType, ArmInv, BeforeArm, Server, Opted, Shut, Moved, Noted
  <2> QED BY <2>3, <2>4, <2>5 DEF PilotInv
<1>11. ASSUME NEW k \in Posts, Handle(k) PROVE PilotInv'
  <2>1. PICK ok \in BOOLEAN :
          /\ k # "reconcile" => ok = Accepts(k)
          /\ Effect(k, ok)
          /\ answer' = IF script.at = k /\ answer = "awaited"
                       THEN IF ok THEN "accepted" ELSE "refused"
                       ELSE answer
    <3>1. Accepts(k) \in BOOLEAN
      BY DEF Accepts, Armed, PilotInv, PilotTypes
    <3> QED BY <1>11, <3>1 DEF Handle
  <2>2. k \in calls /\ calls' = calls \ {k} /\ UNCHANGED <<script, gates, otherRun>>
    BY <1>11, <2>1 DEF Handle, Effect
  <2>3. answer' = answer \/ (script.at = k /\ answer = "awaited" /\ answer' \in {"accepted", "refused"})
    BY <2>1
  <2>4. CASE k = "arm"
    <3>1. /\ window' = IF ok THEN [by |-> "script", orders |-> MaxOrders] ELSE window
          /\ windows' = IF ok THEN windows + 1 ELSE windows
          /\ UNCHANGED <<pilotRun, launched>>
      BY <2>1, <2>4 DEF Effect
    <3>2. PilotTypes'
      BY <2>2, <2>3, <2>4, <3>1 DEF PilotInv, PilotTypes, Shut
    <3>3. LaunchInv'
      BY <1>a, <2>1, <2>2, <2>3, <2>4, <3>1 DEF PilotInv, PilotTypes, ScriptType, LaunchInv, BeforeLaunch, Server, Opted, Moved, Noted
    <3>4. ArmInv'
      BY <1>a, <2>1, <2>2, <2>3, <2>4, <3>1 DEF PilotInv, PilotTypes, ScriptType, ArmInv, BeforeArm, Server, Opted, Shut, Moved, Noted
    <3> QED BY <3>2, <3>3, <3>4 DEF PilotInv
  <2>5. CASE k = "launch"
    <3>1. /\ pilotRun' = IF ok THEN "running" ELSE pilotRun
          /\ launched' = IF ok THEN launched + 1 ELSE launched
          /\ UNCHANGED <<window, windows>>
      BY <2>1, <2>5 DEF Effect
    <3>2. PilotTypes'
      BY <2>2, <2>3, <2>5, <3>1 DEF PilotInv, PilotTypes, Shut
    <3>3. LaunchInv'
      BY <1>a, <2>1, <2>2, <2>3, <2>5, <3>1 DEF PilotInv, PilotTypes, ScriptType, LaunchInv, BeforeLaunch, Server, Opted, Moved, Noted
    <3>4. ArmInv'
      BY <1>a, <2>1, <2>2, <2>3, <2>5, <3>1 DEF PilotInv, PilotTypes, ScriptType, ArmInv, BeforeArm, Server, Opted, Shut, Moved, Noted
    <3> QED BY <3>2, <3>3, <3>4 DEF PilotInv
  <2>6. CASE k = "disarm"
    <3>1. window' = Shut /\ UNCHANGED <<pilotRun, launched, windows>>
      BY <2>1, <2>6 DEF Effect
    <3>2. PilotTypes'
      BY <2>2, <2>3, <2>6, <3>1 DEF PilotInv, PilotTypes, Shut
    <3>3. LaunchInv'
      BY <1>a, <2>1, <2>2, <2>3, <2>6, <3>1 DEF PilotInv, PilotTypes, ScriptType, LaunchInv, BeforeLaunch, Server, Opted, Moved, Noted
    <3>4. ArmInv'
      BY <1>a, <2>1, <2>2, <2>3, <2>6, <3>1 DEF PilotInv, PilotTypes, ScriptType, ArmInv, BeforeArm, Server, Opted, Shut, Moved, Noted
    <3> QED BY <3>2, <3>3, <3>4 DEF PilotInv
  <2>7. CASE k \in {"attest", "reconcile"}
    <3>1. UNCHANGED <<window, pilotRun, launched, windows>>
      BY <2>1, <2>7 DEF Effect
    <3>2. PilotTypes'
      BY <2>2, <2>3, <2>7, <3>1 DEF PilotInv, PilotTypes, Shut
    <3>3. LaunchInv'
      BY <1>a, <2>1, <2>2, <2>3, <2>7, <3>1 DEF PilotInv, PilotTypes, ScriptType, LaunchInv, BeforeLaunch, Server, Opted, Moved, Noted
    <3>4. ArmInv'
      BY <1>a, <2>1, <2>2, <2>3, <2>7, <3>1 DEF PilotInv, PilotTypes, ScriptType, ArmInv, BeforeArm, Server, Opted, Shut, Moved, Noted
    <3> QED BY <3>2, <3>3, <3>4 DEF PilotInv
  <2> QED BY <2>4, <2>5, <2>6, <2>7 DEF Posts
<1>12. ASSUME NEW k \in Posts, Lost(k) PROVE PilotInv'
  <2>1. calls' = calls \ {k} /\ UNCHANGED <<script, answer, Server>>
    BY <1>12, <1>a DEF Lost
  <2>2. script' \in ScriptType
    BY <1>a, <2>1
  <2>3. PilotTypes'
    BY <2>1, <2>2 DEF PilotInv, PilotTypes, Server
  <2>4. LaunchInv'
    BY <1>a, <2>1 DEF PilotInv, PilotTypes, ScriptType, LaunchInv, BeforeLaunch, Server, Opted, Moved, Noted
  <2>5. ArmInv'
    BY <1>a, <2>1 DEF PilotInv, PilotTypes, ScriptType, ArmInv, BeforeArm, Server, Opted, Shut, Moved, Noted
  <2> QED BY <2>3, <2>4, <2>5 DEF PilotInv
<1>13. CASE RunEnters
  <2>1. /\ pilotRun = "running" /\ pilotRun' = "entered"
        /\ window.orders > 0 /\ window' = [window EXCEPT !.orders = @ - 1]
        /\ UNCHANGED <<script, calls, answer, gates, launched, otherRun, windows>>
    BY <1>13, <1>a DEF RunEnters, Armed
  <2>2. script' \in ScriptType
    BY <1>a, <2>1
  <2>3. PilotTypes'
    BY <2>1, <2>2 DEF PilotInv, PilotTypes, Server
  <2>4. LaunchInv'
    BY <1>a, <2>1 DEF PilotInv, PilotTypes, ScriptType, LaunchInv, BeforeLaunch, Server, Opted, Moved, Noted
  <2>5. ArmInv'
    BY <1>a, <2>1 DEF PilotInv, PilotTypes, ScriptType, ArmInv, BeforeArm, Server, Opted, Shut, Moved, Noted
  <2> QED BY <2>3, <2>4, <2>5 DEF PilotInv
<1>14. CASE RunEndsAs("completed") \/ RunEndsAs("failed")
  <2>1. /\ pilotRun \in {"running", "entered"} /\ pilotRun' \in {"completed", "failed"}
        /\ UNCHANGED <<script, calls, answer, window, gates, launched, otherRun, windows>>
    BY <1>14, <1>a DEF RunEndsAs
  <2>2. script' \in ScriptType
    BY <1>a, <2>1
  <2>3. PilotTypes'
    BY <2>1, <2>2 DEF PilotInv, PilotTypes, Server
  <2>4. LaunchInv'
    BY <1>a, <2>1 DEF PilotInv, PilotTypes, ScriptType, LaunchInv, BeforeLaunch, Server, Opted, Moved, Noted
  <2>5. ArmInv'
    BY <1>a, <2>1 DEF PilotInv, PilotTypes, ScriptType, ArmInv, BeforeArm, Server, Opted, Shut, Moved, Noted
  <2> QED BY <2>3, <2>4, <2>5 DEF PilotInv
<1>15. CASE WindowShuts \/ OtherArms
  <2>1. /\ window' \in {Shut, [by |-> "other", orders |-> MaxOrders]}
        /\ windows' \in {windows, windows + 1}
        /\ UNCHANGED <<script, calls, answer, gates, pilotRun, launched, otherRun>>
    BY <1>15, <1>a DEF WindowShuts, OtherArms
  <2>2. script' \in ScriptType
    BY <1>a, <2>1
  <2>3. PilotTypes'
    BY <2>1, <2>2 DEF PilotInv, PilotTypes, Server, Shut
  <2>4. LaunchInv'
    BY <1>a, <2>1 DEF PilotInv, PilotTypes, ScriptType, LaunchInv, BeforeLaunch, Server, Opted, Moved, Noted
  <2>5. ArmInv'
    BY <1>a, <2>1 DEF PilotInv, PilotTypes, ScriptType, ArmInv, BeforeArm, Server, Opted, Shut, Moved, Noted
  <2> QED BY <2>3, <2>4, <2>5 DEF PilotInv
<1>16. CASE GatesChange \/ OtherRun \/ UNCHANGED pilotVars
  <2>1. /\ UNCHANGED <<script, calls, answer, window, pilotRun, launched, windows>>
        /\ gates' \in BOOLEAN /\ otherRun' \in BOOLEAN
    BY <1>16, <1>a DEF GatesChange, OtherRun, pilotVars, PilotInv, PilotTypes
  <2>2. script' \in ScriptType
    BY <1>a, <2>1
  <2>3. PilotTypes'
    BY <2>1, <2>2 DEF PilotInv, PilotTypes, Server
  <2>4. LaunchInv'
    BY <1>a, <2>1 DEF PilotInv, PilotTypes, ScriptType, LaunchInv, BeforeLaunch, Server, Opted, Moved, Noted
  <2>5. ArmInv'
    BY <1>a, <2>1 DEF PilotInv, PilotTypes, ScriptType, ArmInv, BeforeArm, Server, Opted, Shut, Moved, Noted
  <2> QED BY <2>3, <2>4, <2>5 DEF PilotInv
<1> QED BY <1>1, <1>2, <1>3, <1>4, <1>5, <1>6, <1>7, <1>8, <1>9, <1>10, <1>11, <1>12, <1>13,
           <1>14, <1>15, <1>16 DEF PilotNext, ScriptStep

\* Whatever answers of the server are lost or late, whoever else arms, disarms or
\* runs: one launch, the window shut behind it, a true report.
THEOREM PilotTheorem == PilotSpec => []PilotSound
<1>1. PilotInv => PilotSound
  BY PilotFollows DEF PilotSound
<1> QED BY PilotStart, PilotStep, <1>1, PTL DEF PilotSpec

-----------------------------------------------------------------------------
(***************************************************************************)
(* The drill runner: a cycle that is begun uses up an attempt, and a 409,  *)
(* which gives the attempt back, takes the cycle out of the count.         *)
(***************************************************************************)
DrillInv ==
    /\ drill \in [at : {"configure", "loop", "answer", "verdict", "passed", "failed"},
                  attempts : 0..MaxCycles, seen : Nat, goesOn : BOOLEAN, dryRun : BOOLEAN]
    /\ counter \in Nat /\ drill.seen <= counter
    /\ counted \in Nat /\ counted <= drill.attempts
    /\ cycle \in {"sent", "conflict"} => counted < drill.attempts
    /\ cycle \in {"running", "checking"} => counted > 0

LEMMA DrillStart == DrillInit => DrillTypeOK /\ DrillInv
BY DrillRunnerAssumption DEF DrillInit, DrillTypeOK, DrillInv

LEMMA DrillStep ==
    DrillTypeOK /\ DrillInv /\ [DrillNext]_drillVars => DrillTypeOK' /\ DrillInv'
<1> SUFFICES ASSUME DrillTypeOK, DrillInv, [DrillNext]_drillVars
             PROVE  DrillTypeOK' /\ DrillInv'
  OBVIOUS
<1> USE DrillRunnerAssumption
<1>1. CASE Configure
  <2>1. drill' = [at |-> "loop", attempts |-> drill.attempts, seen |-> counter,
                  goesOn |-> drill.goesOn, dryRun |-> drill.dryRun]
    BY <1>1 DEF Configure, DrillInv
  <2>2. scheduled' \in BOOLEAN /\ UNCHANGED <<cycle, counter, began, counted, others>>
    BY <1>1, Zenon DEF Configure
  <2>3. DrillTypeOK' /\ DrillInv'
    BY <2>1, <2>2 DEF DrillTypeOK, DrillInv
  <2> QED BY <2>3
<1>2. CASE AskCycle
  <2>1. drill' = [at |-> "answer", attempts |-> drill.attempts + 1, seen |-> drill.seen,
                  goesOn |-> drill.goesOn, dryRun |-> drill.dryRun]
    BY <1>2 DEF AskCycle, DrillInv
  <2>2. DrillTypeOK'
    BY <1>2, <2>1 DEF AskCycle, Wanted, DrillTypeOK, DrillInv
  <2>3. DrillInv'
    BY <1>2, <2>1 DEF AskCycle, Wanted, DrillTypeOK, DrillInv
  <2> QED BY <2>2, <2>3
<1>3. CASE LeaveLoop
  BY <1>3 DEF LeaveLoop, Unserved, DrillTypeOK, DrillInv
<1>4. CASE CycleAnswered
  <2>1. PICK place \in {"failed", "loop"} :
          drill' = [at |-> place, attempts |-> drill.attempts, seen |-> counter,
                    goesOn |-> drill.goesOn, dryRun |-> drill.dryRun]
    BY <1>4 DEF CycleAnswered, DrillInv
  <2>2. DrillTypeOK'
    BY <1>4, <2>1 DEF CycleAnswered, DrillTypeOK, DrillInv
  <2>3. DrillInv'
    BY <1>4, <2>1 DEF CycleAnswered, DrillTypeOK, DrillInv
  <2> QED BY <2>2, <2>3
<1>5. CASE Conflict
  <2>1. drill' = [at |-> "loop", attempts |-> drill.attempts - 1, seen |-> drill.seen,
                  goesOn |-> drill.goesOn, dryRun |-> drill.dryRun]
    BY <1>5 DEF Conflict, DrillInv
  <2>2. DrillTypeOK'
    BY <1>5, <2>1 DEF Conflict, DrillTypeOK, DrillInv
  <2>3. DrillInv'
    BY <1>5, <2>1 DEF Conflict, DrillTypeOK, DrillInv
  <2> QED BY <2>2, <2>3
<1>6. CASE Verdict
  <2>1. PICK place \in {"failed", "passed"} :
          drill' = [at |-> place, attempts |-> drill.attempts, seen |-> counter,
                    goesOn |-> drill.goesOn, dryRun |-> drill.dryRun]
    BY <1>6 DEF Verdict, DrillInv
  <2>2. DrillTypeOK'
    BY <1>6, <2>1 DEF Verdict, Unserved, DrillTypeOK, DrillInv
  <2>3. DrillInv'
    BY <1>6, <2>1 DEF Verdict, Unserved, DrillTypeOK, DrillInv
  <2> QED BY <2>2, <2>3
<1>7. CASE GiveUp
  BY <1>7 DEF GiveUp, Unserved, DrillTypeOK, DrillInv
<1>8. CASE Serve
  BY <1>8 DEF Serve, DrillTypeOK, DrillInv
<1>9. CASE CycleEnds \/ CycleRaises
  BY <1>9 DEF CycleEnds, CycleRaises, DrillTypeOK, DrillInv
<1>13. CASE RefuseCycle \/ DrillRunEnds
  BY <1>13 DEF RefuseCycle, DrillRunEnds, DrillTypeOK, DrillInv
<1>14. CASE EvidenceLacking
  BY <1>14 DEF EvidenceLacking, DrillTypeOK, DrillInv
<1>10. CASE OtherBegins
  BY <1>10 DEF OtherBegins, DrillTypeOK, DrillInv
<1>11. CASE OtherEnds
  BY <1>11 DEF OtherEnds, DrillTypeOK, DrillInv
<1>12. CASE UNCHANGED drillVars
  BY <1>12 DEF drillVars, DrillTypeOK, DrillInv
<1> QED BY <1>1, <1>2, <1>3, <1>4, <1>5, <1>6, <1>7, <1>8, <1>9, <1>10, <1>11, <1>12,
           <1>13, <1>14
        DEF DrillNext, ServerStep, RunnerGoesOn

\* Whatever fails, hangs, is refused or is counted for somebody else, the cycles
\* begun for the script are at most the --max-cycles it was given and those that
\* were answered 409.
THEOREM DrillRunnerTheorem == DrillRunnerSpec => []DrillRunnerSound
<1>1. DrillTypeOK /\ DrillInv => DrillRunnerSound
  BY DrillRunnerAssumption DEF DrillTypeOK, DrillInv, DrillRunnerSound, AttemptsBounded
<1> QED BY DrillStart, DrillStep, <1>1, PTL DEF DrillRunnerSpec
================================================================================
