----------------------------- MODULE Oms_proofs -----------------------------
(***************************************************************************)
(* Proofs about Oms and ProtectionReview, for every quantity, any number   *)
(* of HTTP threads, any requests and faults and any budget of them.        *)
(*                                                                         *)
(* The argument: an order that is terminal at the exchange stays what it   *)
(* is, so knowledge of it never expires.  Whatever a job carries from one  *)
(* lock scope to the next is such knowledge (JobTrue), whatever is written *)
(* in a row comes from a job or an event (RowTrue), and the order in which *)
(* the workflow plans its jobs (Planned, Tracked, GuardTrue) does the rest.*)
(***************************************************************************)
EXTENDS ProtectionReview, SequenceTheorems, TLAPS

-----------------------------------------------------------------------------
(* The inductive invariant. *)

Protective == {"SL", "TP"}

(* The exchange's own books: an entry that is open is not complete, and what
   is held never exceeds what was filled. *)
Books ==
    /\ venue["entry"].st \in Open => venue["entry"].ex < Qty
    /\ venue["entry"].st = "none" => venue["entry"].ex = 0
    /\ pos <= venue["entry"].ex

(* News of an order is of one that exists, and is final when it says so. *)
NewsTrue(o, st, ex) ==
    /\ venue[o].st # "none" /\ st # "none"
    /\ st \in Terminal => venue[o].st = st /\ venue[o].ex = ex

StatusTrue(o, st) ==
    /\ st = "filled" => venue[o].st = "FILLED"
    /\ st = "canceled" => venue[o].st \in Dead

VenueStatusTrue(o, vs) == vs \in Terminal => venue[o].st = vs

MarkTrue(o, rec) ==
    rec = "reconciled" =>
        \/ venue[o].st \in Terminal
        \/ o = "entry" /\ \E c \in Protective : venue[c].st = "FILLED"

EntryDead(ex) == venue["entry"].st \in Dead /\ venue["entry"].ex = ex

RowTrue(o) ==
    /\ StatusTrue(o, row[o].st) /\ VenueStatusTrue(o, row[o].vs) /\ MarkTrue(o, row[o].rec)
    /\ Exists(o) => row[o].rec # "none"

(* What a thread carries from one job to the next was true when it was read,
   and is of the kind that stays true. *)
JobTrue(j) ==
    /\ j.op = "persist" => j.st \in Cancelable /\ j.vs \notin Terminal
    /\ j.op = "store" => j.st \in VenueStatuses /\ NewsTrue(j.o, j.st, j.ex)
    /\ j.op \in {"keep", "restore"} =>
         /\ VenueStatusTrue(j.o, j.vs) /\ MarkTrue(j.o, j.rec) /\ j.rec # "none"
    /\ j.op = "restore" =>
         j.st \in LocalStatuses \ {"none"} /\ Exists(j.o) /\ StatusTrue(j.o, j.st)
    /\ j.op = "canceled" => venue[j.o].st = "CANCELED" /\ venue[j.o].ex = j.ex
    /\ j.op \in {"cascade", "guardRead"} => EntryDead(j.ex)
    /\ j.op = "guardRead" => j.o = "entry"
    /\ j.op = "exit" => j.o \in Protective /\ venue[j.o].st = "FILLED"
    /\ j.op = "guardChildren" => venue["entry"].st \in Dead
    /\ j.op = "cancel" => VenueStatusTrue(j.o, j.vs)
    /\ j.op = "cancel" /\ j.by = "cascade" => EntryDead(0)
    /\ j.op = "cancel" /\ j.by = "guardChild" => venue["entry"].st \in Dead
    /\ j.op \in {"cancel", "canceled"} /\ j.by = "guard" => j.o = "entry"

EventTrue(e) == NewsTrue(e.o, e.st, e.ex)

EventsTrue == \A i \in 1..Len(events) : EventTrue(events[i])

RowsTrue == \A o \in Orders : RowTrue(o)

JobsTrue == \A p \in Procs : \A i \in 1..Len(job[p]) : JobTrue(job[p][i])

(* The order of the workflow's jobs: the POSTs come first, each with its row
   at once after it, and the guard's verdict comes last. *)
Planned(s) ==
    /\ \A i \in 1..Len(s) :
         /\ s[i].op = "post" => Len(s) = 1 /\ s[i].o = "entry"
         /\ s[i].op = "persist" => i = 1
         /\ s[i].op = "protect" =>
              s[i].o \in Protective /\ \A k \in 1..(i - 1) : s[k].op \in {"persist", "protect"}
         /\ s[i].op \in {"guard", "guardEnd"} => i = Len(s)
    /\ \A i, k \in 1..Len(s) :
         s[i].op = "protect" /\ s[k].op = "protect" /\ s[i].o = s[k].o => i = k

Steps == 1..Len(job[Workflow])

Unsent ==
    \A i \in Steps :
        /\ job[Workflow][i].op = "post" => \A o \in Orders : venue[o].st = "none"
        /\ job[Workflow][i].op = "protect" => venue[job[Workflow][i].o].st = "none"

Finished ==
    /\ outcome = "completed" => job[Workflow] = <<>>
    /\ outcome = "guarded" => \A i \in Steps : job[Workflow][i].op \in {"keep", "restore"}

(* An open order has its row, or the workflow is about to write it. *)
Tracked ==
    \A o \in Orders : venue[o].st \in Open =>
        Exists(o) \/ \E i \in Steps : job[Workflow][i].op = "persist" /\ job[Workflow][i].o = o

(* While the guard believes itself, an open child is one it has yet to cancel. *)
GuardTrue ==
    guardOk =>
        /\ venue["entry"].st \in Dead
        /\ \A i \in Steps : job[Workflow][i].op \notin {"post", "persist", "protect"}
        /\ \A c \in Protective : venue[c].st \in Open =>
             \E i \in Steps : /\ job[Workflow][i].op = "cancel" /\ job[Workflow][i].o = c
                              /\ job[Workflow][i].by = "guardChild"

Truth == EventsTrue /\ RowsTrue /\ JobsTrue
Progress == Planned(job[Workflow]) /\ Unsent /\ Finished /\ Tracked /\ GuardTrue

IInv == TypeOK /\ Books /\ Truth /\ Progress

-----------------------------------------------------------------------------
(* What the constructors of jobs return. *)

LEMMA JobFacts ==
    ASSUME NEW op \in JobOps, NEW o \in Orders
    PROVE  /\ Job(op, o) \in JobType
           /\ Job(op, o).op = op /\ Job(op, o).o = o /\ Job(op, o).ex = 0
           /\ Job(op, o).by = "none" /\ Job(op, o).vs = "none"
BY OmsAssumption DEF Job, JobType, Behalves, VenueStatuses, LocalStatuses, ReconcileStatuses,
   Terminal, Dead, Open

LEMMA ToldFacts ==
    ASSUME NEW op \in JobOps, NEW o \in Orders, NEW st \in VenueStatuses, NEW ex \in 0..Qty
    PROVE  /\ Told(op, o, st, ex) \in JobType
           /\ Told(op, o, st, ex).op = op /\ Told(op, o, st, ex).o = o
           /\ Told(op, o, st, ex).st = st /\ Told(op, o, st, ex).ex = ex
<1>1. Job(op, o) \in JobType /\ Job(op, o).op = op /\ Job(op, o).o = o
  BY JobFacts
<1> QED BY <1>1 DEF Told, JobType

LEMMA CascadeFacts ==
    ASSUME NEW ex \in 0..Qty
    PROVE  /\ CascadeJob(ex) \in JobType
           /\ CascadeJob(ex).op = "cascade" /\ CascadeJob(ex).ex = ex
<1>1. Job("cascade", "entry") \in JobType /\ Job("cascade", "entry").op = "cascade"
  BY JobFacts DEF JobOps, Orders
<1> QED BY <1>1 DEF CascadeJob, JobType

LEMMA KeepFacts ==
    ASSUME NEW o \in Orders, NEW vs \in VenueStatuses \cup {"UNKNOWN"},
           NEW rec \in ReconcileStatuses
    PROVE  /\ Keep(o, vs, rec) \in JobType
           /\ Keep(o, vs, rec).op = "keep" /\ Keep(o, vs, rec).o = o
           /\ Keep(o, vs, rec).vs = vs /\ Keep(o, vs, rec).rec = rec
<1>1. /\ Job("keep", o) \in JobType
      /\ Job("keep", o).op = "keep" /\ Job("keep", o).o = o
  BY JobFacts DEF JobOps
<1> QED BY <1>1 DEF Keep, JobType

LEMMA PersistFacts ==
    ASSUME NEW o \in Orders, NEW st \in Cancelable, NEW vs \in {"NEW", "UNKNOWN"}
    PROVE  /\ Persist(o, st, vs) \in JobType
           /\ Persist(o, st, vs).op = "persist" /\ Persist(o, st, vs).o = o
           /\ Persist(o, st, vs).st = st /\ Persist(o, st, vs).vs = vs
<1>1. /\ Job("persist", o) \in JobType
      /\ Job("persist", o).op = "persist" /\ Job("persist", o).o = o
  BY JobFacts DEF JobOps
<1>2. st \in LocalStatuses /\ vs \in VenueStatuses \cup {"UNKNOWN"}
  BY DEF Cancelable, LocalStatuses, VenueStatuses, Open
<1> QED BY <1>1, <1>2 DEF Persist, JobType

LEMMA CancelFacts ==
    ASSUME NEW o \in Orders, NEW by \in Behalves, NEW vs \in VenueStatuses \cup {"UNKNOWN"}
    PROVE  /\ CancelJob(o, by, vs) \in JobType
           /\ CancelJob(o, by, vs).op = "cancel" /\ CancelJob(o, by, vs).o = o
           /\ CancelJob(o, by, vs).by = by /\ CancelJob(o, by, vs).vs = vs
<1>1. /\ Job("cancel", o) \in JobType
      /\ Job("cancel", o).op = "cancel" /\ Job("cancel", o).o = o
  BY JobFacts DEF JobOps
<1> QED BY <1>1 DEF CancelJob, JobType

\* The job that Load leaves in the place of a keep, and CancelAnswered in the
\* place of a cancel.
Restoring(j, st) == [j EXCEPT !.op = "restore", !.st = st]
Canceling(j, ex) == [j EXCEPT !.op = "canceled", !.ex = ex]

LEMMA RestoreFacts ==
    ASSUME NEW j \in JobType, NEW st \in LocalStatuses \ {"none"}
    PROVE  /\ Restoring(j, st) \in JobType
           /\ Restoring(j, st).op = "restore" /\ Restoring(j, st).st = st
           /\ Restoring(j, st).o = j.o /\ Restoring(j, st).vs = j.vs
           /\ Restoring(j, st).rec = j.rec
BY DEF JobType, JobOps, Restoring

LEMMA CanceledFacts ==
    ASSUME NEW j \in JobType, NEW ex \in 0..Qty
    PROVE  /\ Canceling(j, ex) \in JobType
           /\ Canceling(j, ex).op = "canceled" /\ Canceling(j, ex).ex = ex
           /\ Canceling(j, ex).o = j.o /\ Canceling(j, ex).by = j.by
BY DEF JobType, JobOps, Canceling

LEMMA GuardReadFacts ==
    ASSUME NEW o \in Orders, NEW ex \in 0..Qty
    PROVE  \E a \in JobType : /\ a = [Job("guardRead", o) EXCEPT !.ex = ex]
                             /\ a.op = "guardRead" /\ a.o = o /\ a.ex = ex
<1> DEFINE b == [Job("guardRead", o) EXCEPT !.ex = ex]
<1>1. /\ Job("guardRead", o) \in JobType
      /\ Job("guardRead", o).op = "guardRead" /\ Job("guardRead", o).o = o
  BY JobFacts DEF JobOps
<1>2. b \in JobType /\ b.op = "guardRead" /\ b.o = o /\ b.ex = ex
  BY <1>1 DEF JobType
<1> HIDE DEF b
<1> QED BY <1>2, Zenon DEF b

-----------------------------------------------------------------------------
(* Lists of jobs. *)

Among(j, X) == \E i \in 1..Len(X) : X[i] = j

LEMMA AmongOne == \A a, j : Among(j, <<a>>) <=> j = a
BY DEF Among

LEMMA AmongTwo == \A a, b, j : Among(j, <<a, b>>) <=> j \in {a, b}
BY DEF Among

LEMMA AmongNone == \A j : ~Among(j, <<>>)
BY DEF Among

LEMMA AmongConcat ==
    ASSUME NEW S, NEW s \in Seq(S), NEW t \in Seq(S)
    PROVE  /\ s \o t \in Seq(S)
           /\ \A x : Among(x, s \o t) <=> Among(x, s) \/ Among(x, t)
<1>1. ASSUME NEW i \in 1..Len(s \o t)
      PROVE  (\E k \in 1..Len(s) : s[k] = (s \o t)[i]) \/ (\E k \in 1..Len(t) : t[k] = (s \o t)[i])
  OBVIOUS
<1>2. ASSUME NEW i \in 1..Len(s) PROVE \E k \in 1..Len(s \o t) : (s \o t)[k] = s[i]
  OBVIOUS
<1>3. ASSUME NEW i \in 1..Len(t) PROVE \E k \in 1..Len(s \o t) : (s \o t)[k] = t[i]
  <2>1. PICK k \in 1..Len(s \o t) : k = Len(s) + i
    OBVIOUS
  <2>2. (s \o t)[k] = t[i]
    BY <2>1
  <2> QED BY <2>2
<1>4. s \o t \in Seq(S)
  OBVIOUS
<1> DEFINE u == s \o t
<1> HIDE DEF u
<1>5. \A x : Among(x, u) <=> Among(x, s) \/ Among(x, t)
  BY <1>1, <1>2, <1>3, Zenon DEF Among, u
<1> QED BY <1>4, <1>5 DEF u

\* A sequence without its head.
LEMMA TailIsSeq ==
    ASSUME NEW S, NEW s \in Seq(S), s # <<>>
    PROVE  Tail(s) \in Seq(S)
OBVIOUS

\* A list of at most one order.
LEMMA OnlyFacts ==
    ASSUME NEW S, NEW o \in S, NEW some
    PROVE  /\ Only(o, some) \in Seq(S)
           /\ \A x : Among(x, Only(o, some)) <=> x = o /\ o \in some
<1>1. CASE o \in some
  <2>1. Only(o, some) = <<o>>
    BY <1>1 DEF Only
  <2> QED BY <1>1, <2>1, AmongOne
<1>2. CASE o \notin some
  <2>1. Only(o, some) = <<>>
    BY <1>2 DEF Only
  <2> QED BY <1>2, <2>1, AmongNone
<1> QED BY <1>1, <1>2

\* The children's rows as the queries list them: each once, none else.
LEMMA OldestFacts ==
    ASSUME NEW some \in SUBSET {"SL", "TP"}
    PROVE  /\ OldestFirst(some) \in Seq({"SL", "TP"})
           /\ \A o : Among(o, OldestFirst(some)) <=> o \in some
<1> DEFINE sl == Only("SL", some)
           tp == Only("TP", some)
<1>1. sl \in Seq({"SL", "TP"}) /\ \A x : Among(x, sl) <=> x = "SL" /\ "SL" \in some
  BY OnlyFacts
<1>2. tp \in Seq({"SL", "TP"}) /\ \A x : Among(x, tp) <=> x = "TP" /\ "TP" \in some
  BY OnlyFacts
<1>3. OldestFirst(some) = sl \o tp
  BY DEF OldestFirst
<1> HIDE DEF sl, tp
<1>4. sl \o tp \in Seq({"SL", "TP"}) /\ \A x : Among(x, sl \o tp) <=> Among(x, sl) \/ Among(x, tp)
  BY <1>1, <1>2, AmongConcat
<1> QED BY <1>1, <1>2, <1>3, <1>4

\* The same of all three rows, newest first.
LEMMA NewestFacts ==
    ASSUME NEW some \in SUBSET Orders
    PROVE  /\ NewestFirst(some) \in Seq(Orders)
           /\ \A o : Among(o, NewestFirst(some)) <=> o \in some
<1> DEFINE sl == Only("SL", some)
           tp == Only("TP", some)
           en == Only("entry", some)
<1>1. "SL" \in Orders /\ "TP" \in Orders /\ "entry" \in Orders
  BY DEF Orders
<1>2. sl \in Seq(Orders) /\ \A x : Among(x, sl) <=> x = "SL" /\ "SL" \in some
  BY <1>1, OnlyFacts
<1>3. tp \in Seq(Orders) /\ \A x : Among(x, tp) <=> x = "TP" /\ "TP" \in some
  BY <1>1, OnlyFacts
<1>4. en \in Seq(Orders) /\ \A x : Among(x, en) <=> x = "entry" /\ "entry" \in some
  BY <1>1, OnlyFacts
<1>5. NewestFirst(some) = tp \o sl \o en
  BY DEF NewestFirst
<1> HIDE DEF sl, tp, en
<1>6. tp \o sl \in Seq(Orders) /\ \A x : Among(x, tp \o sl) <=> Among(x, tp) \/ Among(x, sl)
  BY <1>2, <1>3, AmongConcat
<1> DEFINE children == tp \o sl
<1> HIDE DEF children
<1>7. /\ children \o en \in Seq(Orders)
      /\ \A x : Among(x, children \o en) <=> Among(x, children) \/ Among(x, en)
  BY <1>4, <1>6, AmongConcat DEF children
<1> QED BY <1>2, <1>3, <1>4, <1>5, <1>6, <1>7 DEF Orders, children

\* The cancels that a cascade or the guard plans: one for each chosen child.
LEMMA CancelChildrenFacts ==
    ASSUME NEW S \in SUBSET {"SL", "TP"}, NEW by \in Behalves
    PROVE  /\ CancelChildren(S, by) \in Seq(JobType)
           /\ \A j : Among(j, CancelChildren(S, by)) <=>
                       \E c \in S : j = CancelJob(c, by, "none")
<1> DEFINE chosen == OldestFirst(S)
<1>1. /\ chosen \in Seq({"SL", "TP"})
      /\ \A o : Among(o, chosen) <=> o \in S
  BY OldestFacts
<1>2. \A c \in {"SL", "TP"} : CancelJob(c, by, "none") \in JobType
  BY CancelFacts DEF Orders, VenueStatuses
<1>3. CancelChildren(S, by) = [i \in 1..Len(chosen) |-> CancelJob(chosen[i], by, "none")]
  BY DEF CancelChildren
<1> HIDE DEF chosen
<1>4. CancelChildren(S, by) \in Seq(JobType) /\ Len(CancelChildren(S, by)) = Len(chosen)
  BY <1>1, <1>2, <1>3
<1>5. \A j : Among(j, CancelChildren(S, by))
                <=> \E i \in 1..Len(chosen) : j = CancelJob(chosen[i], by, "none")
  BY <1>3, <1>4 DEF Among
<1> QED BY <1>1, <1>4, <1>5 DEF Among

\* A thread that has done its head job has the jobs that replace it, then its
\* former others.
LEMMA ThenJobs ==
    ASSUME job \in [Procs -> Seq(JobType)], NEW p \in Procs, job[p] # <<>>,
           NEW X \in Seq(JobType), Then(p, X)
    PROVE  /\ job' \in [Procs -> Seq(JobType)]
           /\ \A q \in Procs \ {p} : job'[q] = job[q]
           /\ Len(job'[p]) = Len(X) + Len(job[p]) - 1
           /\ \A i \in 1..Len(job'[p]) :
                 job'[p][i] = IF i <= Len(X) THEN X[i] ELSE job[p][i - Len(X) + 1]
BY DEF Then

-----------------------------------------------------------------------------
(* What is true stays true: the exchange never takes back a final answer. *)

VenueGrows ==
    \A o \in Orders :
        /\ venue[o].st \in Terminal => venue'[o].st = venue[o].st /\ venue'[o].ex = venue[o].ex
        /\ venue[o].st # "none" => venue'[o].st # "none"

RowsStay == \A o \in Orders : Exists(o) => Exists(o)'

\* What is known of an order stays true: an order that is terminal at the
\* exchange never changes again, so late news can be old but not wrong.
LEMMA FactsStay ==
    ASSUME VenueGrows
    PROVE  /\ \A o \in Orders : \A st, ex : NewsTrue(o, st, ex) => NewsTrue(o, st, ex)'
           /\ \A o \in Orders : \A st : StatusTrue(o, st) => StatusTrue(o, st)'
           /\ \A o \in Orders : \A vs : VenueStatusTrue(o, vs) => VenueStatusTrue(o, vs)'
           /\ \A o \in Orders : \A rec : MarkTrue(o, rec) => MarkTrue(o, rec)'
           /\ \A ex : EntryDead(ex) => EntryDead(ex)'
BY DEF VenueGrows, NewsTrue, StatusTrue, VenueStatusTrue, MarkTrue, EntryDead, Terminal, Dead,
   Orders, Protective

\* So a job's knowledge survives whatever other threads do before it runs.
LEMMA JobStays ==
    ASSUME VenueGrows, RowsStay, NEW j \in JobType, JobTrue(j)
    PROVE  JobTrue(j)'
<1>1. j.o \in Orders /\ "entry" \in Orders /\ Protective \subseteq Orders
  BY DEF JobType, Orders, Protective
<1>2. /\ NewsTrue(j.o, j.st, j.ex) => NewsTrue(j.o, j.st, j.ex)'
      /\ StatusTrue(j.o, j.st) => StatusTrue(j.o, j.st)'
      /\ VenueStatusTrue(j.o, j.vs) => VenueStatusTrue(j.o, j.vs)'
      /\ MarkTrue(j.o, j.rec) => MarkTrue(j.o, j.rec)'
      /\ EntryDead(j.ex) => EntryDead(j.ex)'
      /\ EntryDead(0) => EntryDead(0)'
  BY <1>1, FactsStay
<1>3. Exists(j.o) => Exists(j.o)'
  BY <1>1 DEF RowsStay
<1>4. /\ venue[j.o].st = "CANCELED" /\ venue[j.o].ex = j.ex
           => venue'[j.o].st = "CANCELED" /\ venue'[j.o].ex = j.ex
      /\ venue[j.o].st = "FILLED" => venue'[j.o].st = "FILLED"
      /\ venue["entry"].st \in Dead => venue'["entry"].st \in Dead
  BY <1>1 DEF VenueGrows, Terminal, Dead
<1> QED BY <1>2, <1>3, <1>4 DEF JobTrue

\* So does an event's, however late it is handled.
LEMMA EventStays ==
    ASSUME VenueGrows, NEW e \in EventType, EventTrue(e)
    PROVE  EventTrue(e)'
BY FactsStay DEF EventType, EventTrue

LEMMA EventsAre ==
    ASSUME events \in Seq(EventType)
    PROVE  EventsTrue <=> \A e \in EventType : Among(e, events) => EventTrue(e)
BY DEF EventsTrue, Among

LEMMA EventsAreNext ==
    ASSUME events' \in Seq(EventType)
    PROVE  EventsTrue' <=> \A e \in EventType : Among(e, events') => EventTrue(e)'
BY DEF EventsTrue, Among, EventTrue, NewsTrue

-----------------------------------------------------------------------------
(* The exchange. *)

\* What the exchange does to one order, and the event it emits for it.
LEMMA VenueSetsFacts ==
    ASSUME TypeOK, EventsTrue, NEW o \in Orders, NEW st \in VenueStatuses \ {"none"},
           NEW ex \in 0..Qty, venue[o].st \notin Terminal, VenueSets(o, st, ex)
    PROVE  /\ venue' \in [Orders -> [st : VenueStatuses, ex : 0..Qty]]
           /\ events' \in Seq(EventType)
           /\ venue'[o].st = st /\ venue'[o].ex = ex
           /\ \A q \in Orders \ {o} : venue'[q] = venue[q]
           /\ VenueGrows
           /\ EventsTrue'
<1> DEFINE e == [o |-> o, st |-> st, ex |-> ex]
<1>1. /\ venue' = [venue EXCEPT ![o] = [st |-> st, ex |-> ex]]
      /\ events' = Append(events, e)
  BY DEF VenueSets
<1>2. /\ venue' \in [Orders -> [st : VenueStatuses, ex : 0..Qty]]
      /\ venue'[o].st = st /\ venue'[o].ex = ex
      /\ \A q \in Orders \ {o} : venue'[q] = venue[q]
  BY <1>1 DEF TypeOK
<1>3. VenueGrows
  BY <1>2 DEF VenueGrows
<1>4. e \in EventType /\ e.o = o /\ e.st = st /\ e.ex = ex
  BY DEF EventType
<1> HIDE DEF e
<1>5. /\ events \in Seq(EventType) /\ events' \in Seq(EventType)
      /\ \A x : Among(x, events') => Among(x, events) \/ x = e
  BY <1>1, <1>4 DEF TypeOK, Among
<1>6. \A x \in EventType : Among(x, events) => EventTrue(x)'
  BY <1>3, <1>5, EventsAre, EventStays
<1>7. NewsTrue(o, st, ex)'
  BY <1>2 DEF NewsTrue
<1>8. EventTrue(e)'
  BY <1>4, <1>7 DEF EventTrue
<1>9. EventsTrue'
  BY <1>5, <1>6, <1>8, EventsAreNext
<1> QED BY <1>2, <1>3, <1>5, <1>9

VenueTyped ==
    /\ venue \in [Orders -> [st : VenueStatuses, ex : 0..Qty]]
    /\ pos \in 0..Qty
    /\ events \in Seq(EventType)

VenueGoal == VenueTyped' /\ VenueGrows /\ Books' /\ EventsTrue'

\* A step that leaves the exchange as it is and at most takes an event.
LEMMA VenueRests ==
    ASSUME TypeOK, Books, EventsTrue, UNCHANGED <<venue, pos>>,
           \/ events' = events
           \/ events # <<>> /\ events' = Tail(events)
    PROVE  VenueGoal
<1>1. VenueGrows
  BY DEF VenueGrows
<1>2. events \in Seq(EventType) /\ events' \in Seq(EventType)
  <2>1. events \in Seq(EventType)
    BY DEF TypeOK
  <2> QED BY <2>1, TailIsSeq
<1>3. \A x : Among(x, events') => Among(x, events)
  <2>1. CASE events # <<>> /\ events' = Tail(events)
    <3>1. \A i \in 1..Len(events') : i + 1 \in 1..Len(events) /\ events'[i] = events[i + 1]
      BY <1>2, <2>1
    <3> QED BY <3>1 DEF Among
  <2> QED BY <2>1
<1>4. EventsTrue'
  BY <1>1, <1>2, <1>3, EventsAre, EventsAreNext, EventStays
<1>5. VenueTyped' /\ Books'
  BY <1>2 DEF TypeOK, VenueTyped, Books
<1> QED BY <1>1, <1>4, <1>5 DEF VenueGoal

\* A step that only changes what one order is, and neither completes the
\* entry nor changes what is held.
LEMMA VenueMoves ==
    ASSUME TypeOK, Books, EventsTrue, NEW o \in Orders, NEW st \in VenueStatuses \ {"none"},
           venue[o].st \notin Terminal, VenueSets(o, st, venue[o].ex), UNCHANGED pos,
           st \in Open => venue[o].ex < Qty
    PROVE  VenueGoal
<1>1. venue[o].ex \in 0..Qty
  BY DEF TypeOK
<1>2. /\ venue' \in [Orders -> [st : VenueStatuses, ex : 0..Qty]]
      /\ events' \in Seq(EventType)
      /\ venue'[o].st = st /\ venue'[o].ex = venue[o].ex
      /\ \A q \in Orders \ {o} : venue'[q] = venue[q]
      /\ VenueGrows
      /\ EventsTrue'
  BY <1>1, VenueSetsFacts
<1>3. Books'
  BY <1>2 DEF Books, TypeOK, Orders
<1> QED BY <1>2, <1>3 DEF VenueGoal, VenueTyped, TypeOK

\* The job a thread does is typed, and what it carries is true.
LEMMA HeadFacts ==
    ASSUME TypeOK, NEW p \in Procs, job[p] # <<>>
    PROVE  /\ Head(job[p]) \in JobType /\ Head(job[p]) = job[p][1]
           /\ job[p] \in Seq(JobType) /\ Len(job[p]) \in Nat /\ 1 \in 1..Len(job[p])
           /\ Head(job[p]).o \in Orders /\ Head(job[p]).ex \in 0..Qty
           /\ Head(job[p]).st \in VenueStatuses \cup LocalStatuses
           /\ Head(job[p]).vs \in VenueStatuses \cup {"UNKNOWN"}
           /\ Head(job[p]).rec \in ReconcileStatuses /\ Head(job[p]).by \in Behalves
           /\ JobsTrue => JobTrue(Head(job[p]))
<1>1. job[p] \in Seq(JobType)
  BY DEF TypeOK
<1>2. /\ Head(job[p]) \in JobType /\ Head(job[p]) = job[p][1]
      /\ Len(job[p]) \in Nat /\ 1 \in 1..Len(job[p])
  BY <1>1
<1> QED BY <1>1, <1>2 DEF JobType, JobsTrue

LEMMA WorkflowIs == Workflow \in Procs /\ "stream" \in Procs /\ Http \subseteq Procs
BY DEF Workflow, Procs

\* The exchange-wide cancel of a panic stop ends every open order at once.
LEMMA CancelAllVenue ==
    ASSUME TypeOK, Books, EventsTrue, NEW h \in Http, CancelAll(h)
    PROVE  VenueGoal
<1> DEFINE some == {o \in Orders : venue[o].st \in Open}
           hit == NewestFirst(some)
           news == [i \in 1..Len(hit) |->
                      [o |-> hit[i], st |-> "CANCELED", ex |-> venue[hit[i]].ex]]
<1>1. CASE UNCHANGED <<venue, events>>
  BY <1>1, VenueRests DEF CancelAll
<1>2. CASE /\ venue' = [o \in Orders |->
                            IF venue[o].st \in Open THEN [venue[o] EXCEPT !.st = "CANCELED"]
                                                    ELSE venue[o]]
           /\ events' = events \o news
  <2>1. /\ hit \in Seq(Orders)
        /\ \A o : Among(o, hit) <=> o \in some
    BY NewestFacts
  <2> HIDE DEF hit
  <2>2. /\ venue' \in [Orders -> [st : VenueStatuses, ex : 0..Qty]]
        /\ \A o \in Orders : venue'[o].ex = venue[o].ex
        /\ \A o \in Orders : venue[o].st \in Open => venue'[o].st = "CANCELED"
        /\ \A o \in Orders : venue[o].st \notin Open => venue'[o].st = venue[o].st
    <3>1. venue \in [Orders -> [st : VenueStatuses, ex : 0..Qty]]
      BY DEF TypeOK
    <3>2. venue' = [o \in Orders |->
                      IF venue[o].st \in Open THEN [venue[o] EXCEPT !.st = "CANCELED"]
                                              ELSE venue[o]]
      BY <1>2
    <3>3. "CANCELED" \in VenueStatuses
      BY DEF VenueStatuses, Terminal, Dead
    <3> QED BY ONLY <3>1, <3>2, <3>3
  <2>3. VenueGrows
    BY <2>2 DEF VenueGrows, Open, Terminal, Dead
  <2>4. \A i \in 1..Len(hit) : hit[i] \in Orders /\ hit[i] \in some
    BY <2>1 DEF Among
  <2>5. /\ news \in Seq(EventType) /\ Len(news) = Len(hit)
        /\ \A i \in 1..Len(news) :
             /\ news[i].o = hit[i] /\ news[i].st = "CANCELED"
             /\ news[i].ex = venue[hit[i]].ex
    BY <2>1, <2>4 DEF EventType, TypeOK, VenueStatuses, Terminal, Dead
  <2> HIDE DEF news
  <2>6. /\ events \o news \in Seq(EventType)
        /\ \A x : Among(x, events \o news) <=> Among(x, events) \/ Among(x, news)
    BY <2>5, AmongConcat DEF TypeOK
  <2>7. \A e \in EventType : Among(e, events) => EventTrue(e)'
    BY <2>3, EventsAre, EventStays DEF TypeOK
  <2>8. ASSUME NEW e \in EventType, Among(e, news) PROVE EventTrue(e)'
    <3>1. PICK i \in 1..Len(hit) : e.o = hit[i] /\ e.st = "CANCELED" /\ e.ex = venue[hit[i]].ex
      BY <2>5, <2>8 DEF Among
    <3>2. e.o \in Orders /\ venue[e.o].st \in Open /\ e.ex = venue[e.o].ex
      BY <2>4, <3>1
    <3>3. venue'[e.o].st = "CANCELED" /\ venue'[e.o].ex = e.ex
      BY <2>2, <3>2
    <3> QED BY <3>1, <3>3 DEF EventTrue, NewsTrue
  <2>9. events' \in Seq(EventType) /\ EventsTrue'
    BY <1>2, <2>6, <2>7, <2>8, EventsAreNext
  <2>10. Books' /\ UNCHANGED pos
    BY <2>2 DEF Books, CancelAll, Orders, Open, TypeOK
  <2> QED BY <2>2, <2>3, <2>9, <2>10 DEF VenueGoal, VenueTyped, TypeOK
<1> QED BY <1>1, <1>2 DEF CancelAll

\* Every step keeps the exchange's books, and every event it emits is true.
LEMMA VenueStep ==
    ASSUME TypeOK, Books, EventsTrue, Unsent, [Next]_vars
    PROVE  VenueGoal
<1>1. ASSUME NEW p \in Procs, ThreadStep(p) PROVE VenueGoal
  <2>1. CASE CancelAnswered(p)
    <3> DEFINE o == Head(job[p]).o
    <3>1. o \in Orders
      BY <2>1, HeadFacts DEF CancelAnswered, Turn
    <3>2. /\ venue[o].st \in Open /\ VenueSets(o, "CANCELED", venue[o].ex)
          /\ UNCHANGED pos
      BY <2>1 DEF CancelAnswered
    <3> HIDE DEF o
    <3> QED BY <3>1, <3>2, VenueMoves DEF Open, Terminal, Dead, VenueStatuses
  <2>2. CASE CancelAnswerLost(p)
    <3> DEFINE o == Head(job[p]).o
    <3>1. o \in Orders
      BY <2>2, HeadFacts DEF CancelAnswerLost, Turn
    <3>2. /\ venue[o].st \in Open /\ VenueSets(o, "CANCELED", venue[o].ex)
          /\ UNCHANGED pos
      BY <2>2 DEF CancelAnswerLost
    <3> HIDE DEF o
    <3> QED BY <3>1, <3>2, VenueMoves DEF Open, Terminal, Dead, VenueStatuses
  <2>3. ASSUME \/ Load(p) \/ Restore(p) \/ ReconcileAnswered(p) \/ ReconcileFails(p)
               \/ ReconcileGeneric(p) \/ Store(p) \/ Cascade(p) \/ CancelSibling(p)
               \/ MarkExit(p) \/ CancelRefused(p) \/ Canceled(p)
        PROVE  VenueGoal
    <3>1. UNCHANGED <<venue, pos, events>>
      BY <2>3 DEF Load, Restore, ReconcileAnswered, ReconcileFails, ReconcileGeneric, Store,
         Cascade, CancelSibling, MarkExit, CancelRefused, Canceled, VenueQuiet
    <3> QED BY <3>1, VenueRests
  <2> QED BY <1>1, <2>1, <2>2, <2>3 DEF ThreadStep
<1>2. CASE WorkflowStep
  <2>1. CASE PostEntry
    <3>1. \A o \in Orders : venue[o].st = "none"
      BY <2>1, HeadFacts, WorkflowIs DEF PostEntry, Turn, Unsent, Steps
    <3>2. "entry" \in Orders /\ venue["entry"].ex = 0
      BY <3>1 DEF Books, Orders
    <3>3. CASE VenueSets("entry", "NEW", 0)
      BY <2>1, <3>1, <3>2, <3>3, VenueMoves, OmsAssumption
      DEF PostEntry, Open, Terminal, Dead, VenueStatuses
    <3>4. CASE UNCHANGED <<venue, events>>
      BY <2>1, <3>4, VenueRests DEF PostEntry
    <3> QED BY <2>1, <3>3, <3>4 DEF PostEntry
  <2>2. CASE PostProtection
    <3> DEFINE c == Head(job[Workflow]).o
    <3>1. c \in Orders /\ venue[c].st = "none"
      BY <2>2, HeadFacts, WorkflowIs DEF PostProtection, Turn, Unsent, Steps
    <3>2. UNCHANGED pos /\ (VenueSets(c, "NEW", 0) \/ UNCHANGED <<venue, events>>)
      BY <2>2 DEF PostProtection
    <3> HIDE DEF c
    <3>3. CASE VenueSets(c, "NEW", 0)
      <4>1. 0 \in 0..Qty /\ 0 < Qty /\ "NEW" \in VenueStatuses \ {"none"} /\ "none" \notin Terminal
        BY OmsAssumption DEF VenueStatuses, Open, Terminal, Dead
      <4>2. /\ venue' \in [Orders -> [st : VenueStatuses, ex : 0..Qty]]
            /\ events' \in Seq(EventType)
            /\ venue'[c].st = "NEW" /\ venue'[c].ex = 0
            /\ \A q \in Orders \ {c} : venue'[q] = venue[q]
            /\ VenueGrows
            /\ EventsTrue'
        BY <3>1, <3>3, <4>1, VenueSetsFacts
      <4>3. Books'
        BY <3>1, <3>2, <4>1, <4>2 DEF Books, TypeOK, Orders
      <4> QED BY <3>2, <4>2, <4>3 DEF VenueGoal, VenueTyped, TypeOK
    <3>4. CASE UNCHANGED <<venue, events>>
      BY <3>2, <3>4, VenueRests
    <3> QED BY <3>2, <3>3, <3>4
  <2>3. ASSUME \/ PersistOrder \/ GuardStart \/ GuardRead \/ GuardChildren \/ GuardEnd
               \/ WorkflowReturns
        PROVE  VenueGoal
    <3>1. UNCHANGED <<venue, pos, events>>
      BY <2>3 DEF PersistOrder, GuardStart, GuardRead, GuardChildren, GuardEnd,
         WorkflowReturns, VenueQuiet
    <3> QED BY <3>1, VenueRests
  <2> QED BY <1>2, <2>1, <2>2, <2>3 DEF WorkflowStep
<1>3. CASE StreamEvent
  BY <1>3, VenueRests DEF StreamEvent
<1>4. CASE EventLost
  BY <1>4, VenueRests DEF EventLost
<1>5. ASSUME NEW h \in Http, HttpStep(h) PROVE VenueGoal
  <2>1. CASE CancelAll(h)
    BY <2>1, CancelAllVenue
  <2>2. CASE RequestReconcile(h) \/ RequestCancel(h) \/ RequestPanic(h) \/ ReconcileAll(h)
    <3>1. UNCHANGED <<venue, pos, events>>
      BY <2>2 DEF RequestReconcile, RequestCancel, RequestPanic, ReconcileAll, VenueQuiet
    <3> QED BY <3>1, VenueRests
  <2> QED BY <1>5, <2>1, <2>2 DEF HttpStep
<1>6. CASE FillEntry
  <2> DEFINE ex == venue["entry"].ex + 1
             st == IF ex = Qty THEN "FILLED" ELSE "NEW"
  <2>1. /\ venue["entry"].st \in Open /\ VenueSets("entry", st, ex) /\ pos' = pos + 1
        /\ "entry" \in Orders
    BY <1>6 DEF FillEntry, Orders
  <2>2. ex \in 0..Qty /\ st \in VenueStatuses \ {"none"} /\ (st \in Open => ex < Qty)
    BY <2>1, OmsAssumption DEF Books, TypeOK, VenueStatuses, Open, Terminal, Dead
  <2>3. venue["entry"].st \notin Terminal
    BY <2>1 DEF Open, Terminal, Dead
  <2>4. ex = venue["entry"].ex + 1
    OBVIOUS
  <2> HIDE DEF ex, st
  <2>5. /\ venue' \in [Orders -> [st : VenueStatuses, ex : 0..Qty]]
        /\ events' \in Seq(EventType)
        /\ venue'["entry"].st = st /\ venue'["entry"].ex = ex
        /\ VenueGrows
        /\ EventsTrue'
    BY <2>1, <2>2, <2>3, VenueSetsFacts
  <2>6. pos' \in 0..Qty /\ Books'
    BY <2>1, <2>2, <2>4, <2>5, OmsAssumption DEF Books, TypeOK
  <2> QED BY <2>5, <2>6 DEF VenueGoal, VenueTyped
<1>7. CASE ExpireEntry
  <2>1. PICK st \in Expiry : VenueSets("entry", st, venue["entry"].ex)
    BY <1>7 DEF ExpireEntry
  <2>2. /\ venue["entry"].st \in Open /\ UNCHANGED pos
        /\ st \in VenueStatuses \ {"none"} /\ st \notin Open /\ "entry" \in Orders
    BY <1>7, OmsAssumption DEF ExpireEntry, VenueStatuses, Terminal, Dead, Open, Orders
  <2>3. venue["entry"].st \notin Terminal
    BY <2>2 DEF Open, Terminal, Dead
  <2> QED BY <2>1, <2>2, <2>3, VenueMoves
<1>8. CASE TriggerChild
  <2>1. PICK c \in {"SL", "TP"} :
          /\ venue[c].st = "NEW"
          /\ IF pos > 0 THEN VenueSets(c, "FILLED", pos) ELSE VenueSets(c, "EXPIRED", 0)
          /\ pos' = 0
    BY <1>8 DEF TriggerChild
  <2> DEFINE st == IF pos > 0 THEN "FILLED" ELSE "EXPIRED"
             ex == IF pos > 0 THEN pos ELSE 0
  <2>2. /\ c \in Orders /\ venue[c].st \notin Terminal
        /\ st \in VenueStatuses \ {"none"} /\ ex \in 0..Qty
    BY <2>1, OmsAssumption DEF TypeOK, VenueStatuses, Terminal, Dead, Orders
  <2>3. VenueSets(c, st, ex)
    BY <2>1
  <2> HIDE DEF st, ex
  <2>4. /\ venue' \in [Orders -> [st : VenueStatuses, ex : 0..Qty]]
        /\ events' \in Seq(EventType)
        /\ \A q \in Orders \ {c} : venue'[q] = venue[q]
        /\ VenueGrows
        /\ EventsTrue'
    BY <2>2, <2>3, VenueSetsFacts
  <2>5. pos' \in 0..Qty /\ venue'["entry"] = venue["entry"]
    BY <2>1, <2>4, OmsAssumption DEF Orders
  <2>6. Books'
    BY <2>1, <2>5 DEF Books, TypeOK, Orders
  <2> QED BY <2>4, <2>5, <2>6 DEF VenueGoal, VenueTyped
<1>9. CASE UNCHANGED vars
  BY <1>9, VenueRests DEF vars
<1> QED BY <1>1, <1>2, <1>3, <1>4, <1>5, <1>6, <1>7, <1>8, <1>9 DEF Next

-----------------------------------------------------------------------------
(* The rows. *)

RowType == [st : LocalStatuses, vs : VenueStatuses \cup {"UNKNOWN"}, rec : ReconcileStatuses]

RowGoal == row' \in [Orders -> RowType] /\ RowsTrue' /\ RowsStay

\* A step that writes no row.
LEMMA RowRests ==
    ASSUME TypeOK, RowsTrue, VenueGrows, UNCHANGED row
    PROVE  RowGoal
<1>1. \A o \in Orders : RowTrue(o)'
  <2> SUFFICES ASSUME NEW o \in Orders PROVE RowTrue(o)'
    OBVIOUS
  <2>1. RowTrue(o)
    BY DEF RowsTrue
  <2> QED BY <2>1, FactsStay DEF RowTrue, Exists, StatusTrue, VenueStatusTrue, MarkTrue
<1> QED BY <1>1 DEF RowGoal, RowsTrue, RowsStay, Exists, TypeOK, RowType

\* A row that is written with what is true of its order.
LEMMA RecordIsSet ==
    ASSUME TypeOK, RowsTrue, VenueGrows, NEW o \in Orders, NEW r \in RowType,
           r.st # "none", r.rec # "none",
           StatusTrue(o, r.st), VenueStatusTrue(o, r.vs), MarkTrue(o, r.rec),
           row' = [row EXCEPT ![o] = r]
    PROVE  RowGoal
<1>1. row \in [Orders -> RowType]
  BY DEF TypeOK, RowType
<1>2. row' \in [Orders -> RowType] /\ row'[o] = r /\ \A q \in Orders \ {o} : row'[q] = row[q]
  BY <1>1
<1>3. RowsStay
  BY <1>2 DEF RowsStay, Exists
<1>4. RowTrue(o)'
  BY <1>2, FactsStay DEF RowTrue, StatusTrue, VenueStatusTrue, MarkTrue
<1>5. ASSUME NEW q \in Orders \ {o} PROVE RowTrue(q)'
  <2>1. RowTrue(q)
    BY DEF RowsTrue
  <2> QED BY <1>2, <2>1, FactsStay DEF RowTrue, Exists, StatusTrue, VenueStatusTrue, MarkTrue
<1>6. RowsTrue'
  BY <1>4, <1>5 DEF RowsTrue
<1> QED BY <1>2, <1>3, <1>6 DEF RowGoal

LEMMA RowIsSet ==
    ASSUME TypeOK, RowsTrue, VenueGrows, NEW o \in Orders, NEW st \in LocalStatuses \ {"none"},
           NEW vs \in VenueStatuses \cup {"UNKNOWN"},
           NEW rec \in ReconcileStatuses \ {"none"},
           StatusTrue(o, st), VenueStatusTrue(o, vs), MarkTrue(o, rec),
           row' = [row EXCEPT ![o] = Row(st, vs, rec)]
    PROVE  RowGoal
<1>1. /\ Row(st, vs, rec) \in RowType
      /\ Row(st, vs, rec).st = st /\ Row(st, vs, rec).vs = vs /\ Row(st, vs, rec).rec = rec
  BY DEF Row, RowType
<1> QED BY <1>1, RecordIsSet

\* The local status says no more than the exchange's.
LEMMA LocalStatusFacts ==
    ASSUME NEW o \in Orders, NEW st \in VenueStatuses, NEW ex, NewsTrue(o, st, ex)
    PROVE  /\ LocalStatus(st) \in LocalStatuses \ {"none"}
           /\ StatusTrue(o, LocalStatus(st)) /\ VenueStatusTrue(o, st)
           /\ st \in StreamTerminal => MarkTrue(o, "reconciled")
           /\ MarkTrue(o, "needs_reconcile")
BY DEF LocalStatus, LocalStatuses, NewsTrue, StatusTrue, VenueStatusTrue, MarkTrue, Terminal,
   Dead, StreamTerminal, RestTerminal

\* Every row a step writes is true: what reconcile_order, update_order_state,
\* the stream handler, the cancels and the guard write was read earlier, and is
\* of the kind that stays true.
LEMMA RowStep ==
    ASSUME TypeOK, Truth, VenueGrows, [Next]_vars
    PROVE  RowGoal
<1> USE DEF Truth
<1>1. ASSUME NEW p \in Procs, ThreadStep(p) PROVE RowGoal
  <2> DEFINE j == Head(job[p])
  <2>0. Turn(p, j.op) => /\ j \in JobType /\ j.o \in Orders /\ j.st \in VenueStatuses \cup LocalStatuses
        /\ j.vs \in VenueStatuses \cup {"UNKNOWN"} /\ j.rec \in ReconcileStatuses
        /\ JobTrue(j)
    BY HeadFacts DEF Turn
  <2>1. CASE Restore(p)
    <3>1. /\ j.op = "restore" /\ j.o \in Orders /\ JobTrue(j) /\ j.rec \in ReconcileStatuses
          /\ j.vs \in VenueStatuses \cup {"UNKNOWN"}
          /\ row' = [row EXCEPT ![j.o] = Row(j.st, IF j.vs = "none" THEN @.vs ELSE j.vs, j.rec)]
      BY <2>0, <2>1 DEF Restore, Turn
    <3> HIDE DEF j
    <3> DEFINE vs == IF j.vs = "none" THEN row[j.o].vs ELSE j.vs
    <3>2. row' = [row EXCEPT ![j.o] = Row(j.st, vs, j.rec)]
      BY <3>1 DEF TypeOK
    <3>3. vs \in VenueStatuses \cup {"UNKNOWN"} /\ VenueStatusTrue(j.o, vs)
      BY <3>1 DEF TypeOK, JobTrue, RowsTrue, RowTrue
    <3>4. /\ j.st \in LocalStatuses \ {"none"} /\ j.rec \in ReconcileStatuses \ {"none"}
          /\ StatusTrue(j.o, j.st) /\ MarkTrue(j.o, j.rec)
      BY <3>1 DEF JobTrue
    <3> HIDE DEF vs
    <3> QED BY <3>1, <3>2, <3>3, <3>4, RowIsSet
  <2>2. CASE Store(p)
    <3>1. /\ j.op = "store" /\ j.o \in Orders /\ JobTrue(j)
          /\ row' = [row EXCEPT ![j.o] =
                        Row(LocalStatus(j.st), j.st,
                            IF j.st \in RestTerminal THEN "reconciled" ELSE "needs_reconcile")]
      BY <2>0, <2>2 DEF Store, Turn
    <3> HIDE DEF j
    <3>2. j.st \in VenueStatuses /\ NewsTrue(j.o, j.st, j.ex)
      BY <3>1 DEF JobTrue
    <3> DEFINE rec == IF j.st \in RestTerminal THEN "reconciled" ELSE "needs_reconcile"
    <3>3. rec \in ReconcileStatuses \ {"none"} /\ MarkTrue(j.o, rec)
      BY <3>1, <3>2, LocalStatusFacts DEF ReconcileStatuses, StreamTerminal
    <3>4. /\ LocalStatus(j.st) \in LocalStatuses \ {"none"}
          /\ StatusTrue(j.o, LocalStatus(j.st)) /\ VenueStatusTrue(j.o, j.st)
      BY <3>1, <3>2, LocalStatusFacts
    <3>5. row' = [row EXCEPT ![j.o] = Row(LocalStatus(j.st), j.st, rec)]
      BY <3>1
    <3> HIDE DEF rec
    <3> QED BY <3>1, <3>2, <3>3, <3>4, <3>5, RowIsSet
  <2>3. CASE MarkExit(p)
    <3>1. /\ j.op = "exit" /\ JobTrue(j)
          /\ row' = [row EXCEPT !["entry"] =
                 IF @ = NoRow THEN @
                 ELSE [@ EXCEPT !.st = "protected_exit", !.rec = "reconciled"]]
      BY <2>0, <2>3 DEF MarkExit, Turn
    <3>2. j.o \in Protective /\ venue[j.o].st = "FILLED" /\ "entry" \in Orders
      BY <3>1 DEF JobTrue, Orders
    <3> HIDE DEF j
    <3>3. CASE row["entry"] = NoRow
      <4>1. row' = row
        BY <3>1, <3>3 DEF TypeOK, Orders
      <4> QED BY <4>1, RowRests
    <3>4. CASE row["entry"] # NoRow
      <4>1. row["entry"] \in RowType
        BY <3>2 DEF TypeOK, RowType
      <4> DEFINE r == [row["entry"] EXCEPT !.st = "protected_exit", !.rec = "reconciled"]
      <4>2. /\ r \in RowType /\ r.st = "protected_exit" /\ r.rec = "reconciled"
            /\ r.vs = row["entry"].vs
        BY <4>1 DEF RowType, LocalStatuses, ReconcileStatuses
      <4>3. row' = [row EXCEPT !["entry"] = r]
        BY <3>1, <3>4
      <4> HIDE DEF r
      <4>4. /\ StatusTrue("entry", "protected_exit") /\ VenueStatusTrue("entry", row["entry"].vs)
            /\ MarkTrue("entry", "reconciled")
        BY <3>2 DEF StatusTrue, MarkTrue, RowsTrue, RowTrue
      <4> QED BY <3>2, <4>2, <4>3, <4>4, RecordIsSet
    <3> QED BY <3>3, <3>4
  <2>4. CASE Canceled(p)
    <3>1. /\ j.op = "canceled" /\ j.o \in Orders /\ JobTrue(j)
          /\ row' = [row EXCEPT ![j.o] = Row("canceled", "CANCELED", "reconciled")]
      BY <2>0, <2>4 DEF Canceled, Turn
    <3> HIDE DEF j
    <3>2. venue[j.o].st = "CANCELED"
      BY <3>1 DEF JobTrue
    <3>3. /\ StatusTrue(j.o, "canceled") /\ VenueStatusTrue(j.o, "CANCELED")
          /\ MarkTrue(j.o, "reconciled")
      BY <3>2 DEF StatusTrue, VenueStatusTrue, MarkTrue, Terminal, Dead
    <3>4. /\ "canceled" \in LocalStatuses \ {"none"} /\ "CANCELED" \in VenueStatuses \cup {"UNKNOWN"}
          /\ "reconciled" \in ReconcileStatuses \ {"none"}
      BY DEF LocalStatuses, VenueStatuses, ReconcileStatuses, Terminal, Dead
    <3> QED BY <3>1, <3>3, <3>4, RowIsSet
  <2>5. ASSUME \/ Load(p) \/ ReconcileAnswered(p) \/ ReconcileFails(p)
               \/ ReconcileGeneric(p) \/ Cascade(p) \/ CancelSibling(p)
               \/ CancelAnswered(p) \/ CancelRefused(p) \/ CancelAnswerLost(p)
        PROVE  RowGoal
    <3>1. UNCHANGED row
      BY <2>5 DEF Load, ReconcileAnswered, ReconcileFails, ReconcileGeneric, Cascade,
         CancelSibling, CancelAnswered, CancelRefused, CancelAnswerLost
    <3> QED BY <3>1, RowRests
  <2> QED BY <1>1, <2>1, <2>2, <2>3, <2>4, <2>5 DEF ThreadStep
<1>2. CASE WorkflowStep
  <2>1. CASE PersistOrder
    <3> DEFINE j == Head(job[Workflow])
    <3>1. /\ j.op = "persist" /\ j.o \in Orders /\ JobTrue(j) /\ j.vs \in VenueStatuses \cup {"UNKNOWN"}
          /\ row' = [row EXCEPT ![j.o] = Row(j.st, j.vs, "needs_reconcile")]
      BY <2>1, HeadFacts, WorkflowIs DEF PersistOrder, Turn
    <3> HIDE DEF j
    <3>2. /\ StatusTrue(j.o, j.st) /\ VenueStatusTrue(j.o, j.vs)
          /\ MarkTrue(j.o, "needs_reconcile")
          /\ j.st \in LocalStatuses \ {"none"} /\ "needs_reconcile" \in ReconcileStatuses \ {"none"}
      BY <3>1 DEF JobTrue, StatusTrue, VenueStatusTrue, MarkTrue, Cancelable, LocalStatuses,
         ReconcileStatuses
    <3> QED BY <3>1, <3>2, RowIsSet
  <2>2. ASSUME \/ PostEntry \/ PostProtection \/ GuardStart \/ GuardRead \/ GuardChildren
               \/ GuardEnd \/ WorkflowReturns
        PROVE  RowGoal
    <3>1. UNCHANGED row
      BY <2>2 DEF PostEntry, PostProtection, GuardStart, GuardRead, GuardChildren, GuardEnd,
         WorkflowReturns
    <3> QED BY <3>1, RowRests
  <2> QED BY <1>2, <2>1, <2>2 DEF WorkflowStep
<1>3. CASE StreamEvent
  <2> DEFINE e == Head(events)
  <2>1. CASE Exists(e.o)
    <3>1. /\ e \in EventType /\ e = events[1] /\ 1 \in 1..Len(events)
          /\ row' = [row EXCEPT ![e.o] =
                             Row(LocalStatus(e.st), e.st,
                                 IF e.st \in StreamTerminal THEN "reconciled"
                                                            ELSE "needs_reconcile")]
      BY <1>3, <2>1 DEF StreamEvent, TypeOK
    <3>2. EventTrue(e)
      BY <3>1 DEF EventsTrue
    <3> HIDE DEF e
    <3>3. e.o \in Orders /\ e.st \in VenueStatuses /\ NewsTrue(e.o, e.st, e.ex)
      BY <3>1, <3>2 DEF EventType, EventTrue
    <3> DEFINE rec == IF e.st \in StreamTerminal THEN "reconciled" ELSE "needs_reconcile"
    <3>4. rec \in ReconcileStatuses \ {"none"} /\ MarkTrue(e.o, rec)
      BY <3>3, LocalStatusFacts DEF ReconcileStatuses
    <3>5. /\ LocalStatus(e.st) \in LocalStatuses \ {"none"}
          /\ StatusTrue(e.o, LocalStatus(e.st)) /\ VenueStatusTrue(e.o, e.st)
      BY <3>3, LocalStatusFacts
    <3>6. row' = [row EXCEPT ![e.o] = Row(LocalStatus(e.st), e.st, rec)]
      BY <3>1
    <3> HIDE DEF rec
    <3> QED BY <3>3, <3>4, <3>5, <3>6, RowIsSet
  <2>2. CASE ~Exists(e.o)
    BY <1>3, <2>2, RowRests DEF StreamEvent
  <2> QED BY <2>1, <2>2
<1>4. CASE EventLost
  BY <1>4, RowRests DEF EventLost
<1>5. ASSUME NEW h \in Http, HttpStep(h) PROVE RowGoal
  <2>1. UNCHANGED row
    BY <1>5 DEF HttpStep, RequestReconcile, RequestCancel, RequestPanic, ReconcileAll, CancelAll
  <2> QED BY <2>1, RowRests
<1>6. CASE FillEntry \/ ExpireEntry \/ TriggerChild
  BY <1>6, RowRests DEF FillEntry, ExpireEntry, TriggerChild
<1>7. CASE UNCHANGED vars
  BY <1>7, RowRests DEF vars
<1> QED BY <1>1, <1>2, <1>3, <1>4, <1>5, <1>6, <1>7 DEF Next

-----------------------------------------------------------------------------
(* The jobs of a thread. *)

\* Jobs that neither POST nor persist, and are no part of the guard's frame.
Plain(j) == j.op \notin {"post", "persist", "protect", "guard", "guardEnd"}

ThreadOps == {"keep", "restore", "reconcile", "store", "cascade", "sibling", "exit",
              "cancel", "canceled"}

\* What a thread may put in the place of its first job.
Fits(p, j) ==
    /\ JobTrue(j)' /\ Plain(j)
    /\ Head(job[p]).op \in {"keep", "restore"} => j.op = "restore"

Adds(p, X) ==
    /\ X \in Seq(JobType) /\ Then(p, X)
    /\ \A j \in JobType : Among(j, X) => Fits(p, j)

LEMMA AddsNone ==
    ASSUME NEW p \in Procs, Then(p, <<>>)
    PROVE  \E X : Adds(p, X)
<1>1. Adds(p, <<>>)
  BY AmongNone DEF Adds
<1> QED BY <1>1

LEMMA AddsOne ==
    ASSUME NEW p \in Procs, NEW a \in JobType, Fits(p, a), Then(p, <<a>>)
    PROVE  \E X : Adds(p, X)
<1>1. Adds(p, <<a>>)
  BY AmongOne DEF Adds
<1> QED BY <1>1

\* The follow-ups of true news are due.
LEMMA FollowUpsFacts ==
    ASSUME VenueGrows, NEW o \in Orders, NEW st \in VenueStatuses, NEW ex \in 0..Qty,
           NewsTrue(o, st, ex)
    PROVE  /\ FollowUps(o, st, ex) \in Seq(JobType)
           /\ \A j \in JobType : Among(j, FollowUps(o, st, ex)) =>
                JobTrue(j)' /\ j.op \in {"cascade", "sibling", "exit"}
<1> DEFINE X == FollowUps(o, st, ex)
<1>1. CASE o = "entry"
  <2>1. CASE st \in Dead
    <3>1. X = <<CascadeJob(ex)>>
      BY <1>1, <2>1 DEF FollowUps
    <3>2. PICK a \in JobType : a = CascadeJob(ex) /\ a.op = "cascade" /\ a.ex = ex
      BY CascadeFacts
    <3>3. EntryDead(ex)
      BY <1>1, <2>1 DEF NewsTrue, EntryDead, Terminal
    <3>4. JobTrue(a)'
      BY <3>2, <3>3, FactsStay DEF JobTrue
    <3> HIDE DEF X
    <3> QED BY <3>1, <3>2, <3>4, AmongOne DEF X
  <2>2. CASE st \notin Dead
    <3>1. X = <<>>
      BY <1>1, <2>2 DEF FollowUps
    <3> QED BY <3>1, AmongNone
  <2> QED BY <2>1, <2>2
<1>2. CASE o # "entry"
  <2> DEFINE S == IF st = "FILLED" \/ ex > 0 THEN <<Job("sibling", o)>> ELSE <<>>
             E == IF st = "FILLED" THEN <<Job("exit", o)>> ELSE <<>>
  <2>1. X = S \o E
    BY <1>2 DEF FollowUps
  <2>2. PICK a \in JobType : a = Job("sibling", o) /\ a.op = "sibling"
    BY JobFacts DEF JobOps
  <2>3. PICK b \in JobType : b = Job("exit", o) /\ b.op = "exit" /\ b.o = o
    BY JobFacts DEF JobOps
  <2>4. S \in Seq(JobType) /\ \A j : Among(j, S) => j = a
    BY <2>2, AmongOne, AmongNone
  <2>5. E \in Seq(JobType) /\ \A j : Among(j, E) => st = "FILLED" /\ j = b
    BY <2>3, AmongOne, AmongNone
  <2> HIDE DEF S, E, X
  <2>6. S \o E \in Seq(JobType) /\ \A j : Among(j, S \o E) <=> Among(j, S) \/ Among(j, E)
    BY <2>4, <2>5, AmongConcat
  <2>7. JobTrue(a)'
    BY <2>2 DEF JobTrue
  <2>8. ASSUME st = "FILLED" PROVE JobTrue(b)'
    <3>1. venue'[o].st = "FILLED"
      BY <2>8 DEF NewsTrue, VenueGrows, Terminal
    <3> QED BY <1>2, <2>3, <3>1 DEF JobTrue, Protective, Orders
  <2> QED BY <2>1, <2>2, <2>3, <2>4, <2>5, <2>6, <2>7, <2>8 DEF X
<1> QED BY <1>1, <1>2

\* The cancels that a cascade or the guard plans are due.
LEMMA CancelChildrenFit ==
    ASSUME NEW S \in SUBSET {"SL", "TP"}, NEW by \in Behalves, by # "guard",
           by = "cascade" => EntryDead(0)',
           by = "guardChild" => venue'["entry"].st \in Dead
    PROVE  /\ CancelChildren(S, by) \in Seq(JobType)
           /\ \A j \in JobType : Among(j, CancelChildren(S, by)) =>
                JobTrue(j)' /\ j.op = "cancel"
<1>1. CancelChildren(S, by) \in Seq(JobType)
  BY CancelChildrenFacts
<1>2. ASSUME NEW j \in JobType, Among(j, CancelChildren(S, by))
      PROVE  JobTrue(j)' /\ j.op = "cancel"
  <2>1. PICK c \in S : j = CancelJob(c, by, "none")
    BY <1>2, CancelChildrenFacts
  <2>2. j.op = "cancel" /\ j.by = by /\ j.vs = "none" /\ j.o = c
    BY <2>1, CancelFacts DEF Orders, VenueStatuses
  <2> QED BY <2>2 DEF JobTrue, VenueStatusTrue, Terminal, Dead
<1> QED BY <1>1, <1>2

\* What any thread does with its first job.
LEMMA ThreadHead ==
    ASSUME NEW p \in Procs, ThreadStep(p)
    PROVE  job[p] # <<>> /\ Head(job[p]).op \in ThreadOps
BY DEF ThreadStep, ThreadOps, Turn, Load, Restore, ReconcileAnswered, ReconcileFails,
   ReconcileGeneric, Store, Cascade, CancelSibling, MarkExit, CancelAnswered, CancelRefused,
   CancelAnswerLost, Canceled

\* What it puts in its place.
LEMMA ThreadAdds ==
    ASSUME TypeOK, Truth, VenueGrows, RowsStay, NEW p \in Procs, ThreadStep(p)
    PROVE  \E X : Adds(p, X)
<1> USE DEF Truth
<1>1. PICK j \in JobType : j = Head(job[p])
  BY ThreadHead, HeadFacts
<1>2. /\ j.o \in Orders /\ j.ex \in 0..Qty
      /\ j.st \in VenueStatuses \cup LocalStatuses
      /\ j.vs \in VenueStatuses \cup {"UNKNOWN"} /\ j.rec \in ReconcileStatuses
      /\ j.by \in Behalves /\ JobTrue(j)
  BY <1>1, ThreadHead, HeadFacts
<1>3. /\ \A o \in Orders : row[o] \in RowType /\ RowTrue(o)
      /\ \A o \in Orders : venue[o].st \in VenueStatuses /\ venue[o].ex \in 0..Qty
  BY DEF TypeOK, RowType, RowsTrue
<1>4. CASE Load(p)
  <2>1. j.op = "keep" /\ Then(p, IF Exists(j.o)
                   THEN <<[j EXCEPT !.op = "restore", !.st = row[j.o].st]>>
                   ELSE <<>>)
    BY <1>1, <1>4 DEF Load, Turn
  <2>2. CASE Exists(j.o)
    <3>1. row[j.o].st \in LocalStatuses \ {"none"}
      BY <1>2, <1>3, <2>2 DEF RowType, Exists
    <3>5. PICK st \in LocalStatuses \ {"none"} : st = row[j.o].st
      BY <3>1
    <3>2. PICK a \in JobType : /\ a = Restoring(j, st)
                               /\ a.op = "restore" /\ a.st = st /\ a.o = j.o
                               /\ a.vs = j.vs /\ a.rec = j.rec
      BY RestoreFacts
    <3>3. /\ VenueStatusTrue(a.o, a.vs) /\ MarkTrue(a.o, a.rec) /\ a.rec # "none"
          /\ StatusTrue(a.o, a.st) /\ Exists(a.o) /\ a.o \in Orders
      BY <1>2, <1>3, <2>1, <2>2, <3>2, <3>5 DEF JobTrue, RowTrue
    <3>4. JobTrue(a)'
      BY <3>2, <3>3, <3>5, FactsStay DEF JobTrue, RowsStay
    <3>7. Fits(p, a)
      BY <3>2, <3>4 DEF Fits, Plain
    <3>8. Then(p, <<a>>)
      BY <2>1, <2>2, <3>2, <3>5 DEF Restoring
    <3> QED BY <3>7, <3>8, AddsOne
  <2>3. CASE ~Exists(j.o)
    BY <1>1, <2>1, <2>3, AddsNone
  <2> QED BY <1>1, <2>2, <2>3
<1>5. CASE Restore(p) \/ MarkExit(p)
  <2>1. Then(p, <<>>)
    BY <1>5 DEF Restore, MarkExit
  <2> QED BY <1>1, <2>1, AddsNone
<1>6. CASE ReconcileAnswered(p)
  <2>1. /\ j.op = "reconcile" /\ venue[j.o].st # "none" /\ UNCHANGED venue
        /\ Then(p, <<Told("store", j.o, venue[j.o].st, venue[j.o].ex)>>)
    BY <1>1, <1>6 DEF ReconcileAnswered, Turn, VenueQuiet
  <2>2. PICK a \in JobType : /\ a = Told("store", j.o, venue[j.o].st, venue[j.o].ex)
                             /\ a.op = "store" /\ a.o = j.o /\ a.st = venue[j.o].st
                             /\ a.ex = venue[j.o].ex
    BY <1>2, <1>3, ToldFacts DEF JobOps
  <2>3. a.o \in Orders /\ venue'[a.o].st = a.st /\ venue'[a.o].ex = a.ex
    BY <1>2, <2>1, <2>2
  <2>4. Fits(p, a)
    BY <1>1, <1>2, <1>3, <2>1, <2>2, <2>3 DEF Fits, JobTrue, Plain, NewsTrue
  <2> QED BY <1>1, <2>1, <2>2, <2>4, AddsOne
<1>7. CASE ReconcileFails(p)
  <2>1. j.op = "reconcile" /\ Then(p, <<Keep(j.o, row[j.o].vs, "needs_reconcile")>>)
    BY <1>1, <1>7 DEF ReconcileFails, Turn
  <2>2. PICK a \in JobType : /\ a = Keep(j.o, row[j.o].vs, "needs_reconcile")
                             /\ a.op = "keep" /\ a.o = j.o /\ a.vs = row[j.o].vs
                             /\ a.rec = "needs_reconcile"
    BY <1>2, <1>3, KeepFacts DEF RowType, ReconcileStatuses
  <2>3. VenueStatusTrue(a.o, a.vs) /\ a.o \in Orders
    BY <1>2, <1>3, <2>2 DEF RowTrue
  <2>4. Fits(p, a)
    BY <1>1, <2>1, <2>2, <2>3, FactsStay DEF Fits, JobTrue, Plain, MarkTrue
  <2> QED BY <1>1, <2>1, <2>2, <2>4, AddsOne
<1>8. CASE ReconcileGeneric(p)
  <2>1. j.op = "reconcile" /\ Then(p, IF Exists(j.o) THEN <<Keep(j.o, row[j.o].vs, row[j.o].rec)>>
                                                     ELSE <<>>)
    BY <1>1, <1>8 DEF ReconcileGeneric, Turn
  <2>2. CASE Exists(j.o)
    <3>4. PICK vs \in VenueStatuses \cup {"UNKNOWN"} : vs = row[j.o].vs
      BY <1>2, <1>3 DEF RowType
    <3>5. PICK rec \in ReconcileStatuses : rec = row[j.o].rec
      BY <1>2, <1>3 DEF RowType
    <3>0. PICK o \in Orders : o = j.o
      BY <1>2
    <3>1. PICK a \in JobType : /\ a = Keep(o, vs, rec)
                               /\ a.op = "keep" /\ a.o = j.o /\ a.vs = vs /\ a.rec = rec
      BY <3>0, KeepFacts
    <3>2. VenueStatusTrue(a.o, a.vs) /\ MarkTrue(a.o, a.rec) /\ a.o \in Orders /\ a.rec # "none"
      BY <1>2, <1>3, <2>2, <3>1, <3>4, <3>5 DEF RowTrue
    <3>3. Fits(p, a)
      <4>1. JobTrue(a)'
        BY <3>1, <3>2, FactsStay DEF JobTrue
      <4> QED BY <1>1, <2>1, <3>1, <4>1 DEF Fits, Plain
    <3>6. Then(p, <<a>>)
      BY <2>1, <2>2, <3>0, <3>1, <3>4, <3>5
    <3> QED BY <3>3, <3>6, AddsOne
  <2>3. CASE ~Exists(j.o)
    BY <1>1, <2>1, <2>3, AddsNone
  <2> QED BY <1>1, <2>2, <2>3
<1>9. CASE Store(p)
  <2>1. j.op = "store" /\ Then(p, FollowUps(j.o, j.st, j.ex))
    BY <1>1, <1>9 DEF Store, Turn
  <2>2. j.st \in VenueStatuses /\ NewsTrue(j.o, j.st, j.ex)
    BY <1>2, <2>1 DEF JobTrue
  <2>3. /\ FollowUps(j.o, j.st, j.ex) \in Seq(JobType)
        /\ \A k \in JobType : Among(k, FollowUps(j.o, j.st, j.ex)) =>
             JobTrue(k)' /\ k.op \in {"cascade", "sibling", "exit"}
    BY <1>2, <2>2, FollowUpsFacts
  <2>4. Adds(p, FollowUps(j.o, j.st, j.ex))
    BY <1>1, <2>1, <2>3 DEF Adds, Fits, Plain
  <2> QED BY <1>1, <2>4
<1>10. CASE Cascade(p)
  <2> DEFINE X == CancelChildren(CancelableChildren, "cascade")
  <2>1. j.op = "cascade" /\ Then(p, IF j.ex > 0 THEN <<>> ELSE X)
    BY <1>1, <1>10 DEF Cascade, Turn
  <2>2. CASE j.ex > 0
    BY <1>1, <2>1, <2>2, AddsNone
  <2>3. CASE ~(j.ex > 0)
    <3>1. j.ex = 0
      BY <1>2, <2>3, OmsAssumption
    <3>2. EntryDead(0)'
      BY <1>2, <2>1, <3>1, FactsStay DEF JobTrue
    <3>3. CancelableChildren \in SUBSET {"SL", "TP"} /\ "cascade" \in Behalves
      BY DEF CancelableChildren, Behalves
    <3>4. X \in Seq(JobType) /\ \A k \in JobType : Among(k, X) => JobTrue(k)' /\ k.op = "cancel"
      BY <3>2, <3>3, CancelChildrenFit
    <3>5. Adds(p, X)
      BY <1>1, <2>1, <2>3, <3>4 DEF Adds, Fits, Plain
    <3> QED BY <1>1, <3>5
  <2> QED BY <2>2, <2>3
<1>11. CASE CancelSibling(p)
  <2> DEFINE c == Sibling(j.o)
  <2>1. j.op = "sibling" /\ Then(p, IF row[c].st \in Cancelable
                                    THEN <<CancelJob(c, "sibling", "none")>> ELSE <<>>)
    BY <1>1, <1>11 DEF CancelSibling, Turn
  <2>2. CASE row[c].st \in Cancelable
    <3>1. PICK a \in JobType : /\ a = CancelJob(c, "sibling", "none") /\ a.op = "cancel"
                               /\ a.by = "sibling" /\ a.vs = "none"
      BY CancelFacts DEF Sibling, Orders, Behalves, VenueStatuses
    <3>2. Fits(p, a)
      BY <1>1, <2>1, <3>1 DEF Fits, JobTrue, Plain, VenueStatusTrue, Terminal, Dead
    <3> QED BY <1>1, <2>1, <2>2, <3>1, <3>2, AddsOne
  <2>3. CASE row[c].st \notin Cancelable
    BY <1>1, <2>1, <2>3, AddsNone
  <2> QED BY <2>2, <2>3
<1>12. CASE CancelAnswered(p)
  <2>1. /\ j.op = "cancel" /\ VenueSets(j.o, "CANCELED", venue[j.o].ex)
        /\ Then(p, <<[j EXCEPT !.op = "canceled", !.ex = venue[j.o].ex]>>)
    BY <1>1, <1>12 DEF CancelAnswered, Turn
  <2>6. PICK ex \in 0..Qty : ex = venue[j.o].ex
    BY <1>2, <1>3
  <2>2. PICK a \in JobType : /\ a = Canceling(j, ex)
                             /\ a.op = "canceled" /\ a.ex = ex /\ a.o = j.o /\ a.by = j.by
    BY CanceledFacts
  <2>3. venue'[a.o].st = "CANCELED" /\ venue'[a.o].ex = a.ex
    BY <1>2, <2>1, <2>2, <2>6 DEF VenueSets, TypeOK
  <2>4. a.by = "guard" => a.o = "entry"
    BY <1>2, <2>1, <2>2 DEF JobTrue
  <2>5. Fits(p, a)
    BY <1>1, <2>1, <2>2, <2>3, <2>4 DEF Fits, JobTrue, Plain
  <2>7. Then(p, <<a>>)
    BY <2>1, <2>2, <2>6 DEF Canceling
  <2> QED BY <2>5, <2>7, AddsOne
<1>13. CASE CancelRefused(p) \/ CancelAnswerLost(p)
  <2>1. j.op = "cancel" /\ AfterFailedCancel(p)
    BY <1>1, <1>13 DEF CancelRefused, CancelAnswerLost, Turn
  <2>2. CASE j.by = "panic"
    <3>1. Then(p, <<Keep(j.o, j.vs, "needs_reconcile")>>)
      BY <1>1, <2>1, <2>2 DEF AfterFailedCancel
    <3>2. PICK a \in JobType : /\ a = Keep(j.o, j.vs, "needs_reconcile") /\ a.op = "keep"
                               /\ a.o = j.o /\ a.vs = j.vs /\ a.rec = "needs_reconcile"
      BY <1>2, KeepFacts DEF ReconcileStatuses
    <3>3. VenueStatusTrue(a.o, a.vs) /\ a.o \in Orders
      BY <1>2, <2>1, <3>2 DEF JobTrue
    <3>4. Fits(p, a)
      BY <1>1, <2>1, <3>2, <3>3, FactsStay DEF Fits, JobTrue, Plain, MarkTrue
    <3> QED BY <1>1, <3>1, <3>2, <3>4, AddsOne
  <2>3. CASE j.by # "panic"
    <3>1. Then(p, <<>>)
      BY <1>1, <2>1, <2>3 DEF AfterFailedCancel
    <3> QED BY <1>1, <3>1, AddsNone
  <2> QED BY <2>2, <2>3
<1>14. CASE Canceled(p)
  <2>1. j.op = "canceled" /\ Then(p, IF j.by = "guard"
                      THEN <<[Job("guardRead", j.o) EXCEPT !.ex = j.ex]>>
                      ELSE IF j.o = "entry"
                      THEN <<CascadeJob(j.ex)>>
                      ELSE <<>>)
    BY <1>1, <1>14 DEF Canceled, Turn
  <2>2. /\ venue[j.o].st = "CANCELED" /\ venue[j.o].ex = j.ex
        /\ j.by = "guard" => j.o = "entry"
    BY <1>2, <2>1 DEF JobTrue
  <2>3. PICK ex \in 0..Qty : ex = j.ex
    BY <1>2
  <2>4. j.o = "entry" => EntryDead(ex)'
    BY <2>2, <2>3, FactsStay DEF EntryDead, Dead
  <2>5. CASE j.by = "guard"
    <3>1. PICK o \in Orders : o = j.o /\ o = "entry"
      BY <1>2, <2>2, <2>5
    <3>2. PICK a \in JobType : /\ a = [Job("guardRead", o) EXCEPT !.ex = ex]
                               /\ a.op = "guardRead" /\ a.o = o /\ a.ex = ex
      BY GuardReadFacts
    <3>3. Fits(p, a)
      BY <1>1, <2>1, <2>2, <2>4, <2>5, <3>1, <3>2 DEF Fits, JobTrue, Plain
    <3>4. Then(p, <<a>>)
      BY <2>1, <2>3, <2>5, <3>1, <3>2
    <3> QED BY <3>3, <3>4, AddsOne
  <2>6. CASE j.by # "guard" /\ j.o = "entry"
    <3>1. PICK a \in JobType : a = CascadeJob(j.ex) /\ a.op = "cascade" /\ a.ex = ex
      BY <2>3, CascadeFacts
    <3>2. Fits(p, a)
      BY <1>1, <2>1, <2>4, <2>6, <3>1 DEF Fits, JobTrue, Plain
    <3> QED BY <1>1, <2>1, <2>6, <3>1, <3>2, AddsOne
  <2>7. CASE j.by # "guard" /\ j.o # "entry"
    BY <1>1, <2>1, <2>7, AddsNone
  <2> QED BY <2>5, <2>6, <2>7
<1> QED
  BY <1>4, <1>5, <1>6, <1>7, <1>8, <1>9, <1>10, <1>11, <1>12, <1>13, <1>14 DEF ThreadStep

LEMMA JobsAre ==
    ASSUME JobsTrue
    PROVE  \A p \in Procs : \A j \in JobType : Among(j, job[p]) => JobTrue(j)
<1> SUFFICES ASSUME NEW p \in Procs, NEW j \in JobType, Among(j, job[p])
             PROVE  JobTrue(j)
  OBVIOUS
<1>1. PICK i \in 1..Len(job[p]) : job[p][i] = j
  BY DEF Among
<1>2. JobTrue(job[p][i])
  BY DEF JobsTrue
<1> QED BY <1>1, <1>2

LEMMA JobsAreNext ==
    ASSUME job' \in [Procs -> Seq(JobType)],
           \A p \in Procs : \A j \in JobType : Among(j, job'[p]) => JobTrue(j)'
    PROVE  JobsTrue'
<1> SUFFICES ASSUME NEW p \in Procs, NEW i \in 1..Len(job'[p])
             PROVE  JobTrue(job[p][i])'
  BY DEF JobsTrue
<1>1. PICK j \in JobType : j = job'[p][i]
  OBVIOUS
<1>2. JobTrue(j)'
  BY <1>1 DEF Among
<1> QED BY <1>1, <1>2 DEF JobTrue, NewsTrue, StatusTrue, VenueStatusTrue, MarkTrue, EntryDead, Exists

JobGoal == job' \in [Procs -> Seq(JobType)] /\ JobsTrue'

\* A step that changes no thread's jobs.
LEMMA JobsRest ==
    ASSUME TypeOK, JobsTrue, VenueGrows, RowsStay, UNCHANGED job
    PROVE  JobGoal
<1>1. job \in [Procs -> Seq(JobType)]
  BY DEF TypeOK
<1>2. \A p \in Procs : \A j \in JobType : Among(j, job[p]) => JobTrue(j)'
  BY <1>1, JobsAre, JobStays
<1> QED BY <1>1, <1>2, JobsAreNext DEF JobGoal

\* A thread whose list changes, to jobs it had and jobs that are true.
LEMMA JobsChange ==
    ASSUME TypeOK, JobsTrue, VenueGrows, RowsStay, NEW p \in Procs, NEW s \in Seq(JobType),
           job' = [job EXCEPT ![p] = s],
           \A j \in JobType : Among(j, s) => Among(j, job[p]) \/ JobTrue(j)'
    PROVE  JobGoal /\ job'[p] = s /\ \A q \in Procs \ {p} : job'[q] = job[q]
<1>1. job \in [Procs -> Seq(JobType)]
  BY DEF TypeOK
<1>2. /\ job' \in [Procs -> Seq(JobType)]
      /\ job'[p] = s /\ \A q \in Procs \ {p} : job'[q] = job[q]
  BY <1>1
<1>3. \A q \in Procs : \A j \in JobType : Among(j, job[q]) => JobTrue(j)'
  BY <1>1, JobsAre, JobStays
<1>4. ASSUME NEW q \in Procs, NEW j \in JobType, Among(j, job'[q]) PROVE JobTrue(j)'
  BY <1>2, <1>3, <1>4
<1> QED BY <1>2, <1>4, JobsAreNext DEF JobGoal

LEMMA InsteadTrue ==
    ASSUME TypeOK, JobsTrue, VenueGrows, RowsStay, NEW p \in Procs, NEW X \in Seq(JobType),
           Instead(p, X), \A j \in JobType : Among(j, X) => JobTrue(j)'
    PROVE  JobGoal /\ job'[p] = X /\ \A q \in Procs \ {p} : job'[q] = job[q]
BY JobsChange DEF Instead

LEMMA ThenTrue ==
    ASSUME TypeOK, JobsTrue, VenueGrows, RowsStay, NEW p \in Procs, job[p] # <<>>,
           NEW X \in Seq(JobType), Then(p, X), \A j \in JobType : Among(j, X) => JobTrue(j)'
    PROVE  /\ JobGoal /\ \A q \in Procs \ {p} : job'[q] = job[q]
           /\ job'[p] = X \o Tail(job[p])
<1>1. job \in [Procs -> Seq(JobType)] /\ Tail(job[p]) \in Seq(JobType)
  BY TailIsSeq DEF TypeOK
<1> DEFINE t == Tail(job[p])
<1>2. ASSUME NEW j, Among(j, t) PROVE Among(j, job[p])
  <2>1. PICK i \in 1..Len(t) : t[i] = j
    BY <1>2 DEF Among
  <2>2. i + 1 \in 1..Len(job[p]) /\ job[p][i + 1] = j
    BY <1>1, <2>1
  <2> QED BY <2>2 DEF Among
<1>3. job' = [job EXCEPT ![p] = X \o t]
  BY <1>1 DEF Then
<1> HIDE DEF t
<1>4. X \o t \in Seq(JobType) /\ \A j : Among(j, X \o t) <=> Among(j, X) \/ Among(j, t)
  BY <1>1, AmongConcat DEF t
<1> DEFINE u == X \o t
<1> HIDE DEF u
<1>5. JobGoal /\ job'[p] = u /\ \A q \in Procs \ {p} : job'[q] = job[q]
  BY <1>2, <1>3, <1>4, JobsChange DEF u
<1> QED BY <1>5 DEF u, t

Others(p) == \A q \in Procs \ {p} : job'[q] = job[q]

LEMMA InsteadOne ==
    ASSUME TypeOK, JobsTrue, VenueGrows, RowsStay, NEW p \in Procs, NEW a \in JobType,
           Instead(p, <<a>>), JobTrue(a)'
    PROVE  JobGoal /\ Others(p) /\ job'[p] = <<a>>
<1> DEFINE X == <<a>>
<1>1. X \in Seq(JobType) /\ \A j \in JobType : Among(j, X) => JobTrue(j)'
  BY AmongOne
<1>2. Instead(p, X)
  OBVIOUS
<1> HIDE DEF X
<1>3. JobGoal /\ Others(p) /\ job'[p] = X
  BY <1>1, <1>2, InsteadTrue DEF Others
<1> QED BY <1>3 DEF X

LEMMA ThenNone ==
    ASSUME TypeOK, JobsTrue, VenueGrows, RowsStay, NEW p \in Procs, job[p] # <<>>,
           Then(p, <<>>)
    PROVE  JobGoal /\ Others(p) /\ job'[p] = <<>> \o Tail(job[p])
<1> DEFINE X == <<>>
<1>1. X \in Seq(JobType) /\ \A j \in JobType : Among(j, X) => JobTrue(j)'
  BY AmongNone
<1>2. Then(p, X)
  OBVIOUS
<1> HIDE DEF X
<1>3. JobGoal /\ Others(p) /\ job'[p] = X \o Tail(job[p])
  BY <1>1, <1>2, ThenTrue DEF Others
<1> QED BY <1>3 DEF X

\* What the jobs of an HTTP handler become, and those of the consumer.
LEMMA PanicJobs ==
    ASSUME TypeOK, Truth, VenueGrows, UNCHANGED row,
           NEW chosen \in Seq(Orders), NEW X,
           X = [i \in 1..Len(chosen) |-> CancelJob(chosen[i], "panic", row[chosen[i]].vs)]
    PROVE  X \in Seq(JobType) /\ \A j \in JobType : Among(j, X) => JobTrue(j)'
<1>1. /\ \A i \in 1..Len(chosen) : CancelJob(chosen[i], "panic", row[chosen[i]].vs) \in JobType
      /\ X \in Seq(JobType) /\ Len(X) = Len(chosen)
  <2>1. ASSUME NEW i \in 1..Len(chosen)
        PROVE  CancelJob(chosen[i], "panic", row[chosen[i]].vs) \in JobType
    <3>1. PICK o \in Orders : o = chosen[i]
      OBVIOUS
    <3>2. PICK vs \in VenueStatuses \cup {"UNKNOWN"} : vs = row[o].vs
      BY DEF TypeOK
    <3>3. CancelJob(o, "panic", vs) \in JobType
      BY CancelFacts DEF Behalves
    <3> QED BY <3>1, <3>2, <3>3
  <2> QED BY <2>1
<1>2. ASSUME NEW j \in JobType, Among(j, X) PROVE JobTrue(j)'
  <2>1. PICK i \in 1..Len(chosen) : j = CancelJob(chosen[i], "panic", row[chosen[i]].vs)
    BY <1>1, <1>2 DEF Among
  <2>2. PICK o \in Orders : o = chosen[i]
    OBVIOUS
  <2>3. PICK vs \in VenueStatuses \cup {"UNKNOWN"} : vs = row[o].vs
    BY DEF TypeOK
  <2>4. j.op = "cancel" /\ j.by = "panic" /\ j.o = o /\ j.vs = vs
    BY <2>1, <2>2, <2>3, CancelFacts DEF Behalves
  <2>5. VenueStatusTrue(j.o, j.vs)
    BY <2>3, <2>4 DEF Truth, RowsTrue, RowTrue
  <2>6. VenueStatusTrue(j.o, j.vs)'
    BY <2>4, <2>5, FactsStay
  <2> QED BY <2>4, <2>6 DEF JobTrue
<1> QED BY <1>1, <1>2

\* Jobs that claim nothing.
LEMMA BlankJob ==
    ASSUME NEW j \in JobType,
           j.op \in {"post", "protect", "reconcile", "sibling", "guard", "guardEnd",
                     "cancelAll", "reconcileAll"}
    PROVE  JobTrue(j)'
BY DEF JobTrue

LEMMA BlankCancel ==
    ASSUME NEW j \in JobType, j.op = "cancel", j.vs = "none", j.by \in {"api", "guard"},
           j.by = "guard" => j.o = "entry"
    PROVE  JobTrue(j)'
BY DEF JobTrue, VenueStatusTrue, Terminal, Dead

\* What an HTTP request starts with is true.
LEMMA HttpJobs ==
    ASSUME TypeOK, Truth, VenueGrows, RowsStay, NEW h \in Http, HttpStep(h)
    PROVE  JobGoal /\ Others(h)
<1> USE DEF Truth
<1>0. h \in Procs
  BY WorkflowIs
<1>1. CASE RequestReconcile(h)
  <2>1. PICK o \in Orders : Instead(h, <<Job("reconcile", o)>>)
    BY <1>1 DEF RequestReconcile
  <2>2. PICK a \in JobType : a = Job("reconcile", o) /\ a.op = "reconcile"
    BY JobFacts DEF JobOps
  <2>3. JobTrue(a)'
    BY <2>2, BlankJob
  <2> QED BY <1>0, <2>1, <2>2, <2>3, InsteadOne
<1>2. CASE RequestCancel(h)
  <2>1. PICK o \in Orders : Instead(h, <<CancelJob(o, "api", "none")>>)
    BY <1>2 DEF RequestCancel
  <2>2. PICK a \in JobType : /\ a = CancelJob(o, "api", "none") /\ a.op = "cancel"
                             /\ a.by = "api" /\ a.vs = "none"
    BY CancelFacts DEF Behalves, VenueStatuses
  <2>3. JobTrue(a)'
    BY <2>2, BlankCancel
  <2> QED BY <1>0, <2>1, <2>2, <2>3, InsteadOne
<1>3. CASE RequestPanic(h)
  <2> DEFINE some == {o \in Orders : row[o].st \in Cancelable}
             chosen == NewestFirst(some)
             X == [i \in 1..Len(chosen) |->
                     CancelJob(chosen[i], "panic", row[chosen[i]].vs)]
             T == <<Job("cancelAll", "entry"), Job("reconcileAll", "entry")>>
  <2>1. chosen \in Seq(Orders)
    BY NewestFacts
  <2>2. Instead(h, X \o T) /\ UNCHANGED row
    BY <1>3 DEF RequestPanic
  <2> HIDE DEF chosen
  <2>3. X \in Seq(JobType) /\ \A j \in JobType : Among(j, X) => JobTrue(j)'
    BY <2>1, <2>2, PanicJobs
  <2>4. PICK a \in JobType : a = Job("cancelAll", "entry") /\ a.op = "cancelAll"
    BY JobFacts DEF JobOps, Orders
  <2>5. PICK b \in JobType : b = Job("reconcileAll", "entry") /\ b.op = "reconcileAll"
    BY JobFacts DEF JobOps, Orders
  <2>6. T \in Seq(JobType) /\ \A j \in JobType : Among(j, T) => JobTrue(j)'
    BY <2>4, <2>5, AmongTwo, BlankJob
  <2> HIDE DEF X, T
  <2>7. X \o T \in Seq(JobType) /\ \A j : Among(j, X \o T) <=> Among(j, X) \/ Among(j, T)
    BY <2>3, <2>6, AmongConcat
  <2> QED BY <1>0, <2>2, <2>3, <2>6, <2>7, InsteadTrue DEF Others
<1>4. CASE CancelAll(h)
  <2>1. job[h] # <<>> /\ Then(h, <<>>)
    BY <1>4 DEF CancelAll, Turn
  <2> QED BY <1>0, <2>1, ThenNone
<1>5. CASE ReconcileAll(h)
  <2> DEFINE some == {o \in Orders : Exists(o)}
             chosen == NewestFirst(some)
             X == [i \in 1..Len(chosen) |-> Job("reconcile", chosen[i])]
  <2>1. chosen \in Seq(Orders)
    BY NewestFacts
  <2>2. job[h] # <<>> /\ Then(h, X)
    BY <1>5 DEF ReconcileAll, Turn
  <2> HIDE DEF chosen
  <2>3. \A o \in Orders : Job("reconcile", o) \in JobType /\ Job("reconcile", o).op = "reconcile"
    BY JobFacts DEF JobOps
  <2>4. X \in Seq(JobType) /\ \A i \in 1..Len(X) : X[i].op = "reconcile"
    BY <2>1, <2>3
  <2> HIDE DEF X
  <2>5. \A j \in JobType : Among(j, X) => j.op = "reconcile"
    BY <2>4 DEF Among
  <2> QED BY <1>0, <2>2, <2>4, <2>5, BlankJob, ThenTrue DEF Others
<1> QED BY <1>1, <1>2, <1>3, <1>4, <1>5 DEF HttpStep

\* So are the follow-ups of an event.
LEMMA StreamJobs ==
    ASSUME TypeOK, Truth, VenueGrows, RowsStay, StreamEvent
    PROVE  JobGoal /\ Others("stream")
<1> USE DEF Truth
<1> DEFINE e == Head(events)
<1>1. events \in Seq(EventType) /\ events # <<>>
  BY DEF TypeOK, StreamEvent
<1>2. e \in EventType /\ EventTrue(e)
  BY <1>1 DEF EventsTrue
<1>3. CASE Exists(e.o)
  <2>1. Instead("stream", FollowUps(e.o, e.st, e.ex))
    BY <1>3 DEF StreamEvent
  <2> HIDE DEF e
  <2>2. /\ e.o \in Orders /\ e.st \in VenueStatuses /\ e.ex \in 0..Qty
        /\ NewsTrue(e.o, e.st, e.ex)
    BY <1>2 DEF EventType, EventTrue
  <2>3. /\ FollowUps(e.o, e.st, e.ex) \in Seq(JobType)
        /\ \A j \in JobType : Among(j, FollowUps(e.o, e.st, e.ex)) => JobTrue(j)'
    BY <2>2, FollowUpsFacts
  <2> QED BY <2>1, <2>3, WorkflowIs, InsteadTrue DEF Others
<1>4. CASE ~Exists(e.o)
  <2>1. UNCHANGED job
    BY <1>4 DEF StreamEvent
  <2> QED BY <2>1, JobsRest DEF Others
<1> QED BY <1>3, <1>4

\* The jobs a shared step leaves behind are true, and no other thread's change.
LEMMA ThreadJobs ==
    ASSUME TypeOK, Truth, VenueGrows, RowsStay, NEW p \in Procs, ThreadStep(p)
    PROVE  JobGoal /\ Others(p)
<1>1. PICK X : Adds(p, X)
  BY ThreadAdds
<1> QED BY <1>1, ThreadHead, ThenTrue DEF Adds, Fits, Others, Truth

-----------------------------------------------------------------------------
(* The shape of the workflow's list. *)

\* A head job that is replaced by plain ones leaves the workflow's order as it
\* was.
LEMMA PlannedThen ==
    ASSUME NEW s \in Seq(JobType), s # <<>>, Planned(s), Head(s).op \notin {"persist", "protect"},
           NEW X \in Seq(JobType), \A i \in 1..Len(X) : Plain(X[i]),
           NEW u \in Seq(JobType), u = X \o Tail(s)
    PROVE  /\ Planned(u)
           /\ \A i \in 1..Len(u) : u[i].op \notin {"post", "persist", "protect"}
<1>1. /\ Len(u) = Len(X) + Len(s) - 1 /\ Len(X) \in Nat /\ Len(s) \in Nat \ {0}
      /\ \A i \in 1..Len(u) : u[i] = IF i <= Len(X) THEN X[i] ELSE s[i - Len(X) + 1]
      /\ Head(s) = s[1]
  OBVIOUS
<1>2. ASSUME NEW i \in 1..Len(u)
      PROVE  /\ u[i].op \notin {"post", "persist", "protect"}
             /\ u[i].op \in {"guard", "guardEnd"} => i = Len(u)
  <2>1. CASE i <= Len(X)
    <3>1. u[i] = X[i] /\ i \in 1..Len(X)
      BY <1>1, <2>1
    <3> QED BY <3>1 DEF Plain
  <2>2. CASE ~(i <= Len(X))
    <3>1. PICK k \in 2..Len(s) : k = i - Len(X) + 1
      BY <1>1, <2>2
    <3>2. u[i] = s[k] /\ k \in 1..Len(s) /\ 1 \in 1..(k - 1) /\ k # 1 /\ Len(s) # 1
      BY <1>1, <2>2, <3>1
    <3>3. s[1].op \notin {"persist", "protect"}
      BY <1>1
    <3>4. /\ s[k].op \notin {"post", "persist", "protect"}
          /\ s[k].op \in {"guard", "guardEnd"} => k = Len(s)
      BY <3>2, <3>3 DEF Planned
    <3> QED BY <1>1, <3>1, <3>2, <3>4
  <2> QED BY <2>1, <2>2
<1> QED BY <1>2 DEF Planned

\* A row that is written at once after its POST.
LEMMA PlannedPersisted ==
    ASSUME NEW s, NEW u, Planned(s), Len(s) \in Nat \ {0}, Len(u) = Len(s) - 1,
           \A i \in 1..Len(u) : u[i] = s[i + 1]
    PROVE  /\ Planned(u)
           /\ \A i \in 1..Len(u) : u[i].op \notin {"post", "persist"}
<1>1. \A i \in 1..Len(u) : i + 1 \in 1..Len(s) /\ i + 1 # 1 /\ Len(s) # 1
  OBVIOUS
<1>2. ASSUME NEW i \in 1..Len(u)
      PROVE  /\ u[i].op \notin {"post", "persist"}
             /\ u[i].op \in {"guard", "guardEnd"} => i = Len(u)
  <2>1. PICK k \in 1..Len(s) : k = i + 1 /\ u[i] = s[k] /\ k # 1 /\ Len(s) # 1
    BY <1>1
  <2>2. /\ s[k].op \notin {"post", "persist"}
        /\ s[k].op \in {"guard", "guardEnd"} => k = Len(s)
    BY <2>1 DEF Planned
  <2> QED BY <2>1, <2>2
<1>3. ASSUME NEW i \in 1..Len(u), u[i].op = "protect"
      PROVE  u[i].o \in Protective /\ \A k \in 1..(i - 1) : u[k].op \in {"persist", "protect"}
  <2>1. PICK m \in 1..Len(s) : m = i + 1 /\ u[i] = s[m]
    BY <1>1
  <2>2. s[m].o \in Protective /\ \A k \in 1..(m - 1) : s[k].op \in {"persist", "protect"}
    BY <1>3, <2>1 DEF Planned
  <2>3. ASSUME NEW k \in 1..(i - 1) PROVE u[k].op \in {"persist", "protect"}
    <3>1. k \in 1..Len(u) /\ k + 1 \in 1..(m - 1)
      BY <2>1
    <3> QED BY <2>2, <3>1
  <2> QED BY <2>1, <2>2, <2>3
<1>4. ASSUME NEW i \in 1..Len(u), NEW k \in 1..Len(u),
             u[i].op = "protect", u[k].op = "protect", u[i].o = u[k].o
      PROVE  i = k
  <2>1. PICK m \in 1..Len(s) : m = i + 1 /\ u[i] = s[m]
    BY <1>1
  <2>2. PICK n \in 1..Len(s) : n = k + 1 /\ u[k] = s[n]
    BY <1>1
  <2>3. m = n
    BY <1>4, <2>1, <2>2 DEF Planned
  <2> QED BY <2>1, <2>2, <2>3
<1> QED BY <1>2, <1>3, <1>4 DEF Planned

\* A protection whose POST is answered: its row comes next, before its sibling.
LEMMA PlannedProtected ==
    ASSUME NEW s, NEW u, Planned(s), Len(s) \in Nat \ {0}, Len(u) = Len(s),
           s[1].op = "protect", u[1].op = "persist",
           \A i \in 1..Len(u) : i # 1 => u[i] = s[i]
    PROVE  /\ Planned(u)
           /\ \A i \in 1..Len(u) : u[i].op # "post"
           /\ \A i \in 1..Len(u) : u[i].op = "protect" => u[i].o # s[1].o /\ u[i] = s[i]
<1>1. 1 \in 1..Len(s)
  OBVIOUS
<1>2. ASSUME NEW i \in 1..Len(u)
      PROVE  /\ u[i].op # "post"
             /\ u[i].op = "persist" => i = 1
             /\ u[i].op \in {"guard", "guardEnd"} => i = Len(u)
  <2>1. CASE i = 1
    BY <2>1
  <2>2. CASE i # 1
    <3>1. u[i] = s[i] /\ i \in 1..Len(s) /\ Len(s) # 1
      BY <2>2
    <3>2. /\ s[i].op \notin {"post", "persist"}
          /\ s[i].op \in {"guard", "guardEnd"} => i = Len(s)
      BY <2>2, <3>1 DEF Planned
    <3> QED BY <3>1, <3>2
  <2> QED BY <2>1, <2>2
<1>3. ASSUME NEW i \in 1..Len(u), u[i].op = "protect"
      PROVE  /\ u[i].o \in Protective /\ \A k \in 1..(i - 1) : u[k].op \in {"persist", "protect"}
             /\ u[i] = s[i] /\ i # 1 /\ u[i].o # s[1].o
  <2>1. i # 1 /\ u[i] = s[i] /\ i \in 1..Len(s)
    BY <1>3
  <2>2. /\ s[i].o \in Protective
        /\ \A k \in 1..(i - 1) : s[k].op \in {"persist", "protect"}
    BY <1>3, <2>1 DEF Planned
  <2>3. s[i].o # s[1].o
    BY <1>1, <1>3, <2>1 DEF Planned
  <2>4. ASSUME NEW k \in 1..(i - 1) PROVE u[k].op \in {"persist", "protect"}
    <3>1. k \in 1..Len(u)
      BY <2>1
    <3>2. CASE k = 1
      BY <3>2
    <3>3. CASE k # 1
      BY <2>2, <3>1, <3>3
    <3> QED BY <3>2, <3>3
  <2> QED BY <2>1, <2>2, <2>3, <2>4
<1>4. ASSUME NEW i \in 1..Len(u), NEW k \in 1..Len(u),
             u[i].op = "protect", u[k].op = "protect", u[i].o = u[k].o
      PROVE  i = k
  <2>1. u[i] = s[i] /\ u[k] = s[k] /\ i \in 1..Len(s) /\ k \in 1..Len(s)
    BY <1>3, <1>4
  <2> QED BY <1>4, <2>1 DEF Planned
<1> QED BY <1>2, <1>3, <1>4 DEF Planned

-----------------------------------------------------------------------------
(* The workflow's progress. *)

\* What every step but a POST leaves true of the exchange.
NoNewOrder ==
    \A o \in Orders : /\ venue[o].st = "none" => venue'[o].st = "none"
                      /\ venue'[o].st \in Open => venue[o].st \in Open

\* A step without the exchange sends nothing.
LEMMA QuietIsNoNew ==
    ASSUME UNCHANGED venue
    PROVE  NoNewOrder
BY DEF NoNewOrder

\* Nor does one that changes an order that is open already.
LEMMA MoveIsNoNew ==
    ASSUME TypeOK, NEW o \in Orders, venue[o].st \in Open, NEW st, NEW ex, VenueSets(o, st, ex)
    PROVE  NoNewOrder
BY DEF TypeOK, VenueSets, NoNewOrder, Open

\* Nor do the steps that every thread shares.
LEMMA ThreadNoNew ==
    ASSUME TypeOK, NEW p \in Procs, ThreadStep(p)
    PROVE  NoNewOrder
<1>1. CASE CancelAnswered(p) \/ CancelAnswerLost(p)
  <2>1. PICK o \in Orders : o = Head(job[p]).o
    BY ThreadHead, HeadFacts
  <2>2. PICK ex \in 0..Qty : ex = venue[o].ex
    BY DEF TypeOK
  <2>3. venue[o].st \in Open /\ VenueSets(o, "CANCELED", ex)
    BY <1>1, <2>1, <2>2 DEF CancelAnswered, CancelAnswerLost
  <2> QED BY <2>3, MoveIsNoNew
<1>2. CASE \/ Load(p) \/ Restore(p) \/ ReconcileAnswered(p) \/ ReconcileFails(p)
           \/ ReconcileGeneric(p) \/ Store(p) \/ Cascade(p) \/ CancelSibling(p)
           \/ MarkExit(p) \/ CancelRefused(p) \/ Canceled(p)
  BY <1>2, QuietIsNoNew
  DEF Load, Restore, ReconcileAnswered, ReconcileFails, ReconcileGeneric, Store, Cascade,
      CancelSibling, MarkExit, CancelRefused, Canceled, VenueQuiet
<1> QED BY <1>1, <1>2 DEF ThreadStep

\* Those leave the workflow's outcome alone, and never make the guard believe
\* itself.
LEMMA ThreadVerdict ==
    ASSUME TypeOK, NEW p \in Procs, ThreadStep(p)
    PROVE  /\ UNCHANGED outcome
           /\ guardOk' \in BOOLEAN /\ (guardOk' => guardOk)
           /\ alerts' \subseteq {"cascade", "sibling", "protection.submit_failed"}
<1>1. CASE CancelRefused(p) \/ CancelAnswerLost(p)
  <2>1. AfterFailedCancel(p) /\ UNCHANGED outcome
    BY <1>1 DEF CancelRefused, CancelAnswerLost
  <2>2. \/ UNCHANGED <<guardOk, alerts>>
        \/ guardOk' = FALSE /\ UNCHANGED alerts
        \/ /\ UNCHANGED guardOk /\ Head(job[p]).by \in {"cascade", "sibling"}
           /\ alerts' = alerts \cup {Head(job[p]).by}
    BY <2>1 DEF AfterFailedCancel
  <2>3. guardOk \in BOOLEAN /\ alerts \subseteq {"cascade", "sibling", "protection.submit_failed"}
    BY DEF TypeOK
  <2>4. alerts' \subseteq {"cascade", "sibling", "protection.submit_failed"}
    BY <2>2, <2>3
  <2>5. guardOk' = guardOk \/ guardOk' = FALSE
    BY <2>2
  <2>6. guardOk' \in BOOLEAN /\ (guardOk' => guardOk)
    <3>1. CASE guardOk' = guardOk
      BY <2>3, <3>1
    <3>2. CASE guardOk' = FALSE
      BY <3>2
    <3> QED BY <2>5, <3>1, <3>2
  <2> QED BY <2>1, <2>4, <2>6
<1>2. CASE \/ Load(p) \/ Restore(p) \/ ReconcileAnswered(p) \/ ReconcileFails(p)
           \/ ReconcileGeneric(p) \/ Store(p) \/ Cascade(p) \/ CancelSibling(p)
           \/ MarkExit(p) \/ CancelAnswered(p) \/ Canceled(p)
  <2>1. UNCHANGED ghosts
    BY <1>2
    DEF Load, Restore, ReconcileAnswered, ReconcileFails, ReconcileGeneric, Store, Cascade,
        CancelSibling, MarkExit, CancelAnswered, Canceled
  <2> QED BY <2>1 DEF ghosts, TypeOK
<1> QED BY <1>1, <1>2 DEF ThreadStep

\* The guard that goes on believing itself has canceled the child.
LEMMA ChildCanceled ==
    ASSUME TypeOK, NEW p \in Procs, ThreadStep(p), guardOk',
           Head(job[p]).op = "cancel", Head(job[p]).by = "guardChild"
    PROVE  venue'[Head(job[p]).o].st \notin Open
<1>1. ~CancelRefused(p) /\ ~CancelAnswerLost(p)
  BY DEF CancelRefused, CancelAnswerLost, AfterFailedCancel
<1>2. CancelAnswered(p)
  BY <1>1 DEF ThreadStep, Turn, Load, Restore, ReconcileAnswered, ReconcileFails,
     ReconcileGeneric, Store, Cascade, CancelSibling, MarkExit, Canceled
<1>3. PICK o \in Orders : o = Head(job[p]).o
  BY ThreadHead, HeadFacts
<1> QED BY <1>2, <1>3 DEF CancelAnswered, VenueSets, TypeOK, Open

\* A step that is not the workflow's.
LEMMA OthersProgress ==
    ASSUME TypeOK, Progress, VenueGrows, RowsStay, NoNewOrder, UNCHANGED outcome,
           guardOk' => guardOk, job'[Workflow] = job[Workflow]
    PROVE  Progress'
<1> DEFINE s == job[Workflow]
<1>1. Planned(s)' <=> Planned(s)
  BY DEF Planned
<1>2. Unsent'
  <2>1. \A i \in 1..Len(s) : s[i].op = "protect" => s[i].o \in Orders
    BY DEF Progress, Planned, Protective, Orders
  <2> QED BY <2>1 DEF Progress, Unsent, Steps, NoNewOrder
<1>5. Finished'
  BY DEF Progress, Finished, Steps
<1>3. Tracked'
  BY DEF Progress, Tracked, Steps, NoNewOrder, RowsStay
<1>4. GuardTrue'
  BY DEF Progress, GuardTrue, Steps, NoNewOrder, VenueGrows, Orders, Protective, Terminal
<1> QED BY <1>1, <1>2, <1>3, <1>4, <1>5 DEF Progress

LEMMA ThenIndex ==
    ASSUME NEW s \in Seq(JobType), s # <<>>, NEW X \in Seq(JobType)
    PROVE  LET u == X \o Tail(s)
           IN  /\ Len(u) = Len(X) + Len(s) - 1 /\ Len(X) \in Nat /\ Len(s) \in Nat \ {0}
               /\ \A i \in 1..Len(u) : u[i] = IF i <= Len(X) THEN X[i] ELSE s[i - Len(X) + 1]
OBVIOUS

\* The workflow puts plain jobs in the place of its first one.
LEMMA PlainProgress ==
    ASSUME TypeOK, JobGoal, Progress, VenueGrows, RowsStay, NoNewOrder, UNCHANGED outcome,
           job[Workflow] # <<>>, Head(job[Workflow]).op \notin {"persist", "protect"},
           NEW X \in Seq(JobType), job'[Workflow] = X \o Tail(job[Workflow]),
           \A i \in 1..Len(X) : Plain(X[i]),
           outcome = "guarded" => \A i \in 1..Len(X) : X[i].op \in {"keep", "restore"},
           guardOk' => guardOk,
           guardOk' /\ Head(job[Workflow]).op = "cancel" /\ Head(job[Workflow]).by = "guardChild"
             => venue'[Head(job[Workflow]).o].st \notin Open
    PROVE  Progress'
<1> DEFINE s == job[Workflow]
           u == job'[Workflow]
<1>1. s \in Seq(JobType) /\ u \in Seq(JobType) /\ s # <<>> /\ u = X \o Tail(s)
  BY WorkflowIs DEF TypeOK, JobGoal
<1>2. Planned(s)
  BY DEF Progress
<1>3. Planned(u) /\ \A i \in 1..Len(u) : u[i].op \notin {"post", "persist", "protect"}
  <2> HIDE DEF s, u
  <2>1. Head(s).op \notin {"persist", "protect"}
    BY DEF s
  <2> QED BY <1>1, <1>2, <2>1, PlannedThen
<1>4. /\ Len(u) = Len(X) + Len(s) - 1 /\ Len(X) \in Nat /\ Len(s) \in Nat \ {0}
      /\ \A i \in 1..Len(u) : u[i] = IF i <= Len(X) THEN X[i] ELSE s[i - Len(X) + 1]
      /\ Head(s) = s[1]
  <2> HIDE DEF s, u
  <2> QED BY <1>1
<1> DEFINE hd == Head(job[Workflow])
<1>5. hd = s[1]
  BY <1>4
<1>6. \A i \in 1..Len(s) : s[i].op # "persist"
  BY <1>2, <1>5 DEF Planned
<1> SUFFICES /\ Planned(job[Workflow])' /\ Unsent' /\ Finished' /\ Tracked' /\ GuardTrue'
  BY DEF Progress
<1>7. Planned(job[Workflow])'
  BY <1>3 DEF Planned
<1>8. Unsent'
  BY <1>3 DEF Unsent, Steps
<1>9. Tracked'
  BY <1>6 DEF Progress, Tracked, Steps, NoNewOrder, RowsStay
<1>10. Finished'
  <2>1. outcome' # "completed"
    BY DEF Progress, Finished
  <2>2. ASSUME outcome = "guarded", NEW i \in 1..Len(u) PROVE u[i].op \in {"keep", "restore"}
    <3>1. CASE i <= Len(X)
      <4>1. i \in 1..Len(X) /\ u[i] = X[i]
        BY <1>4, <3>1
      <4> QED BY <2>2, <4>1
    <3>2. CASE ~(i <= Len(X))
      <4>1. i - Len(X) + 1 \in 1..Len(s) /\ u[i] = s[i - Len(X) + 1]
        BY <1>4, <3>2
      <4> QED BY <2>2, <4>1 DEF Progress, Finished, Steps
    <3> QED BY <3>1, <3>2
  <2> QED BY <2>1, <2>2 DEF Finished, Steps
<1>11. GuardTrue'
  <2>1. ASSUME guardOk', NEW c \in Protective, venue'[c].st \in Open
        PROVE  \E i \in 1..Len(u) : u[i].op = "cancel" /\ u[i].o = c /\ u[i].by = "guardChild"
    <3>1. guardOk /\ venue[c].st \in Open
      BY <2>1 DEF NoNewOrder, Protective, Orders
    <3>2. PICK i \in 1..Len(s) : s[i].op = "cancel" /\ s[i].o = c /\ s[i].by = "guardChild"
      BY <3>1 DEF Progress, GuardTrue, Steps
    <3>3. i # 1
      BY <1>5, <2>1, <3>2
    <3>4. PICK k \in 1..Len(u) : k = Len(X) + i - 1
      <4>1. Len(X) + i - 1 \in 1..Len(u)
        <5> HIDE DEF s, u
        <5> QED BY <1>4, <3>3
      <4> HIDE DEF u
      <4> QED BY <4>1
    <3>5. u[k] = s[i]
      BY <1>4, <3>3, <3>4
    <3> QED BY <3>2, <3>5
  <2>2. guardOk' => venue'["entry"].st \in Dead
    BY DEF Progress, GuardTrue, VenueGrows, Orders, Terminal
  <2> QED BY <1>3, <2>1, <2>2 DEF GuardTrue, Steps
<1> QED BY <1>7, <1>8, <1>9, <1>10, <1>11

\* The workflow's own reconciles, cancels and cascades.
LEMMA WorkflowThread ==
    ASSUME TypeOK, Truth, Progress, VenueGrows, RowsStay, ThreadStep(Workflow)
    PROVE  Progress'
<1> DEFINE hd == Head(job[Workflow])
<1>1. PICK X : Adds(Workflow, X)
  BY ThreadAdds, WorkflowIs
<1>2. /\ X \in Seq(JobType) /\ Then(Workflow, X)
      /\ \A j \in JobType : Among(j, X) => Fits(Workflow, j)
  BY <1>1 DEF Adds
<1>3. job[Workflow] # <<>> /\ hd.op \in ThreadOps
  BY ThreadHead, WorkflowIs
<1>4. JobGoal /\ job'[Workflow] = X \o Tail(job[Workflow])
  BY <1>2, <1>3, ThenTrue, WorkflowIs DEF Fits, Truth
<1>5. \A i \in 1..Len(X) : X[i] \in JobType /\ Among(X[i], X)
  BY <1>2 DEF Among
<1>6. \A i \in 1..Len(X) : Fits(Workflow, X[i])
  <2> SUFFICES ASSUME NEW i \in 1..Len(X) PROVE Fits(Workflow, X[i])
    OBVIOUS
  <2>1. PICK j \in JobType : j = X[i] /\ Among(j, X)
    BY <1>5
  <2>2. Fits(Workflow, j)
    BY <1>2, <2>1
  <2> QED BY <2>1, <2>2
<1>7. \A i \in 1..Len(X) : Plain(X[i]) /\ (hd.op \in {"keep", "restore"} => X[i].op = "restore")
  BY <1>6 DEF Fits
<1>8. outcome = "guarded" => hd.op \in {"keep", "restore"}
  BY <1>3, HeadFacts, WorkflowIs DEF Progress, Finished, Steps
<1>9. /\ UNCHANGED outcome /\ (guardOk' => guardOk) /\ NoNewOrder
      /\ guardOk' /\ hd.op = "cancel" /\ hd.by = "guardChild" => venue'[hd.o].st \notin Open
  BY ThreadVerdict, ThreadNoNew, ChildCanceled, WorkflowIs
<1>10. hd.op \notin {"persist", "protect"}
  BY <1>3 DEF ThreadOps
<1> QED BY <1>2, <1>3, <1>4, <1>7, <1>8, <1>9, <1>10, PlainProgress

-----------------------------------------------------------------------------
(* The workflow's own steps. *)

LEMMA OneJob ==
    ASSUME NEW a \in JobType
    PROVE  /\ <<a>> \in Seq(JobType) /\ Len(<<a>>) = 1 /\ <<a>>[1] = a
           /\ \A j : Among(j, <<a>>) => j = a
<1> DEFINE X == <<a>>
<1>1. X \in Seq(JobType) /\ Len(X) = 1 /\ X[1] = a
  OBVIOUS
<1> HIDE DEF X
<1>2. \A j : Among(j, X) => j = a
  BY <1>1 DEF Among
<1> QED BY <1>1, <1>2 DEF X

LEMMA TwoJobs ==
    ASSUME NEW a \in JobType, NEW b \in JobType
    PROVE  /\ <<a, b>> \in Seq(JobType) /\ Len(<<a, b>>) = 2
           /\ <<a, b>>[1] = a /\ <<a, b>>[2] = b
           /\ \A j : Among(j, <<a, b>>) => j \in {a, b}
<1> DEFINE X == <<a, b>>
<1>1. X \in Seq(JobType) /\ Len(X) = 2 /\ X[1] = a /\ X[2] = b
  OBVIOUS
<1> HIDE DEF X
<1>2. \A j : Among(j, X) => j \in {a, b}
  BY <1>1 DEF Among
<1> QED BY <1>1, <1>2 DEF X

LEMMA ThreeJobs ==
    ASSUME NEW a \in JobType, NEW b \in JobType, NEW c \in JobType
    PROVE  /\ <<a, b, c>> \in Seq(JobType) /\ Len(<<a, b, c>>) = 3
           /\ <<a, b, c>>[1] = a /\ <<a, b, c>>[2] = b /\ <<a, b, c>>[3] = c
           /\ \A j : Among(j, <<a, b, c>>) => j \in {a, b, c}
<1> DEFINE X == <<a, b, c>>
<1>1. X \in Seq(JobType) /\ Len(X) = 3 /\ X[1] = a /\ X[2] = b /\ X[3] = c
  OBVIOUS
<1> HIDE DEF X
<1>2. \A j : Among(j, X) => j \in {a, b, c}
  BY <1>1 DEF Among
<1> QED BY <1>1, <1>2 DEF X

LEMMA FourJobs ==
    ASSUME NEW a \in JobType, NEW b \in JobType, NEW c \in JobType, NEW d \in JobType
    PROVE  /\ <<a, b, c, d>> \in Seq(JobType) /\ Len(<<a, b, c, d>>) = 4
           /\ <<a, b, c, d>>[1] = a /\ <<a, b, c, d>>[2] = b
           /\ <<a, b, c, d>>[3] = c /\ <<a, b, c, d>>[4] = d
           /\ \A j : Among(j, <<a, b, c, d>>) => j \in {a, b, c, d}
<1> DEFINE X == <<a, b, c, d>>
<1>1. X \in Seq(JobType) /\ Len(X) = 4 /\ X[1] = a /\ X[2] = b /\ X[3] = c /\ X[4] = d
  OBVIOUS
<1> HIDE DEF X
<1>2. \A j : Among(j, X) => j \in {a, b, c, d}
  BY <1>1 DEF Among
<1> QED BY <1>1, <1>2 DEF X

\* A list of one job is replaced whole.
LEMMA LastThen ==
    ASSUME NEW s \in Seq(JobType), s # <<>>, Len(s) = 1, NEW X \in Seq(JobType)
    PROVE  X \o Tail(s) = X
<1>2. Tail(s) \in Seq(JobType) /\ Len(Tail(s)) = Len(s) - 1
  BY HeadTailProperties
<1> DEFINE t == Tail(s)
<1> HIDE DEF t
<1>3. Tail(s) = <<>>
  <2>1. t \in Seq(JobType) /\ Len(t) = 0
    BY <1>2 DEF t
  <2>2. t = <<>>
    BY <2>1, EmptySeq
  <2> QED BY <2>2 DEF t
<1> QED BY <1>3, ConcatEmptySeq

\* What a POST that reached the exchange changes there.
LEMMA Sending ==
    ASSUME TypeOK, Progress, job[Workflow] # <<>>,
           Head(job[Workflow]).op \notin {"keep", "restore"}
    PROVE  /\ outcome = "running"
           /\ Head(job[Workflow]).op \in {"post", "persist", "protect"} => ~guardOk
<1>1. Head(job[Workflow]) = job[Workflow][1] /\ 1 \in Steps
  BY HeadFacts, WorkflowIs DEF Steps
<1>2. outcome \in {"running", "completed", "guarded"}
  BY DEF TypeOK
<1>3. outcome = "running"
  BY <1>1, <1>2 DEF Progress, Finished
<1>4. Head(job[Workflow]).op \in {"post", "persist", "protect"} => ~guardOk
  BY <1>1 DEF Progress, GuardTrue
<1> QED BY <1>3, <1>4

\* As long as orders are sent, progress is the shape of the list and rows.
LEMMA SendingProgress ==
    ASSUME outcome' = "running", ~guardOk', NEW u, job'[Workflow] = u, Planned(u),
           \A i \in 1..Len(u) :
             /\ u[i].op # "post"
             /\ u[i].op = "protect" => venue'[u[i].o].st = "none",
           \A o \in Orders : venue'[o].st \in Open =>
               row'[o].st # "none" \/ \E i \in 1..Len(u) : u[i].op = "persist" /\ u[i].o = o
    PROVE  Progress'
BY DEF Progress, Planned, Unsent, Finished, Tracked, GuardTrue, Steps, Exists

LEMMA SentAlone ==
    ASSUME TypeOK, Progress, job[Workflow] # <<>>,
           Head(job[Workflow]).op \in {"post", "guard", "guardEnd"}
    PROVE  Len(job[Workflow]) = 1
BY HeadFacts, WorkflowIs DEF Progress, Planned

\* An open order has its row, unless the persist of it is next.
LEMMA OpenHasRow ==
    ASSUME TypeOK, Progress, job[Workflow] # <<>>, NEW o \in Orders, venue[o].st \in Open,
           Head(job[Workflow]).op # "persist" \/ Head(job[Workflow]).o # o
    PROVE  Exists(o)
<1>1. Head(job[Workflow]) = job[Workflow][1]
  BY HeadFacts, WorkflowIs
<1> QED BY <1>1 DEF Progress, Tracked, Planned, Steps

LEMMA PersistTrue ==
    ASSUME NEW j \in JobType, j.op = "persist", j.st \in Cancelable, j.vs \in {"NEW", "UNKNOWN"}
    PROVE  JobTrue(j)'
BY DEF JobTrue, Terminal, Dead

\* The POST of the entry, answered, lost or raised: its row is planned before
\* anything else, so a crashless workflow cannot forget it.
LEMMA PostEntryJobs ==
    ASSUME TypeOK, JobsTrue, Progress, VenueGrows, RowsStay, PostEntry
    PROVE  JobGoal /\ Others(Workflow) /\ Progress'
<1> DEFINE s == job[Workflow]
<1>1. s \in Seq(JobType) /\ s # <<>> /\ Head(s) = s[1] /\ Head(s).op = "post"
  BY HeadFacts, WorkflowIs DEF PostEntry, Turn
<1>2. Len(s) = 1 /\ outcome = "running" /\ ~guardOk
  BY <1>1, SentAlone, Sending
<1>3. \A o \in Orders : venue[o].st = "none"
  BY <1>1, <1>2 DEF Progress, Unsent, Steps
<1>4. \A o \in Orders : o # "entry" => venue'[o].st = "none"
  BY <1>3 DEF PostEntry, VenueSets, TypeOK
<1>5. outcome' = "running" /\ ~guardOk'
  BY <1>2 DEF PostEntry, ghosts
<1>6. PICK b \in JobType : b = Job("protect", "SL") /\ b.op = "protect" /\ b.o = "SL"
  BY JobFacts DEF JobOps, Orders
<1>7. PICK c \in JobType : c = Job("protect", "TP") /\ c.op = "protect" /\ c.o = "TP"
  BY JobFacts DEF JobOps, Orders
<1>8. PICK d \in JobType : d = Job("reconcile", "entry") /\ d.op = "reconcile"
  BY JobFacts DEF JobOps, Orders
<1>9. CASE Then(Workflow, <<Persist("entry", "submitted", "NEW"), Job("protect", "SL"),
                            Job("protect", "TP"), Job("reconcile", "entry")>>)
  <2>1. PICK a \in JobType : /\ a = Persist("entry", "submitted", "NEW") /\ a.op = "persist"
                             /\ a.o = "entry" /\ a.st = "submitted" /\ a.vs = "NEW"
    BY PersistFacts DEF Cancelable, Orders
  <2> DEFINE X == <<a, b, c, d>>
  <2>2. /\ X \in Seq(JobType) /\ Len(X) = 4 /\ X[1] = a /\ X[2] = b /\ X[3] = c /\ X[4] = d
        /\ \A j : Among(j, X) => j \in {a, b, c, d}
    BY FourJobs
  <2>3. Then(Workflow, X)
    BY <1>6, <1>7, <1>8, <1>9, <2>1
  <2> HIDE DEF X
  <2>4. JobTrue(a)' /\ JobTrue(b)' /\ JobTrue(c)' /\ JobTrue(d)'
    BY <1>6, <1>7, <1>8, <2>1, BlankJob, PersistTrue DEF Cancelable
  <2>5. JobGoal /\ Others(Workflow) /\ job'[Workflow] = X \o Tail(s)
    <3>1. \A j \in JobType : Among(j, X) => JobTrue(j)'
      BY <2>2, <2>4
    <3> QED BY <1>1, <2>2, <2>3, <3>1, ThenTrue, WorkflowIs DEF Others
  <2>6. job'[Workflow] = X
    BY <1>1, <1>2, <2>2, <2>5, LastThen
  <2>7. Planned(X)
    BY <1>6, <1>7, <1>8, <2>1, <2>2 DEF Planned, Protective
  <2>8. Progress'
    <3>1. \A i \in 1..Len(X) :
            /\ X[i].op # "post"
            /\ X[i].op = "protect" => venue'[X[i].o].st = "none"
      BY <1>4, <1>6, <1>7, <1>8, <2>1, <2>2 DEF Orders
    <3>2. \A o \in Orders : venue'[o].st \in Open =>
             row'[o].st # "none" \/ \E i \in 1..Len(X) : X[i].op = "persist" /\ X[i].o = o
      BY <1>4, <2>1, <2>2 DEF Open
    <3> QED BY <1>5, <2>6, <2>7, <3>1, <3>2, SendingProgress
  <2> QED BY <2>5, <2>8
<1>10. CASE Then(Workflow, <<Persist("entry", "pending_reconcile", "UNKNOWN"),
                             Job("reconcile", "entry")>>)
  <2>1. PICK a \in JobType : /\ a = Persist("entry", "pending_reconcile", "UNKNOWN")
                             /\ a.op = "persist" /\ a.o = "entry"
                             /\ a.st = "pending_reconcile" /\ a.vs = "UNKNOWN"
    BY PersistFacts DEF Cancelable, Orders
  <2> DEFINE X == <<a, d>>
  <2>2. /\ X \in Seq(JobType) /\ Len(X) = 2 /\ X[1] = a /\ X[2] = d
        /\ \A j : Among(j, X) => j \in {a, d}
    BY TwoJobs
  <2>3. Then(Workflow, X)
    BY <1>8, <1>10, <2>1
  <2> HIDE DEF X
  <2>4. JobTrue(a)' /\ JobTrue(d)'
    BY <1>8, <2>1, BlankJob, PersistTrue DEF Cancelable
  <2>5. JobGoal /\ Others(Workflow) /\ job'[Workflow] = X \o Tail(s)
    <3>1. \A j \in JobType : Among(j, X) => JobTrue(j)'
      BY <2>2, <2>4
    <3> QED BY <1>1, <2>2, <2>3, <3>1, ThenTrue, WorkflowIs DEF Others
  <2>6. job'[Workflow] = X
    BY <1>1, <1>2, <2>2, <2>5, LastThen
  <2>7. Planned(X)
    BY <1>8, <2>1, <2>2 DEF Planned
  <2>8. Progress'
    <3>1. \A i \in 1..Len(X) :
            /\ X[i].op # "post"
            /\ X[i].op = "protect" => venue'[X[i].o].st = "none"
      BY <1>8, <2>1, <2>2
    <3>2. \A o \in Orders : venue'[o].st \in Open =>
             row'[o].st # "none" \/ \E i \in 1..Len(X) : X[i].op = "persist" /\ X[i].o = o
      BY <1>4, <2>1, <2>2 DEF Open
    <3> QED BY <1>5, <2>6, <2>7, <3>1, <3>2, SendingProgress
  <2> QED BY <2>5, <2>8
<1> QED BY <1>9, <1>10 DEF PostEntry

\* The row is written: from now on it is the row that keeps the order findable.
LEMMA PersistOrderJobs ==
    ASSUME TypeOK, Truth, Progress, VenueGrows, RowsStay, PersistOrder
    PROVE  JobGoal /\ Others(Workflow) /\ Progress'
<1> DEFINE s == job[Workflow]
           u == job'[Workflow]
<1>1. s \in Seq(JobType) /\ s # <<>> /\ Head(s) = s[1] /\ Head(s).op = "persist"
      /\ Head(s).o \in Orders /\ JobTrue(Head(s))
  BY HeadFacts, WorkflowIs DEF PersistOrder, Turn, Truth
<1>2. outcome = "running" /\ ~guardOk /\ UNCHANGED <<venue, outcome, guardOk>>
  BY <1>1, Sending DEF PersistOrder, VenueQuiet, ghosts
<1>3. JobGoal /\ Others(Workflow) /\ u = <<>> \o Tail(s)
  BY <1>1, ThenNone, WorkflowIs DEF PersistOrder, Truth
<1>4. Len(s) \in Nat \ {0} /\ Len(u) = Len(s) - 1 /\ \A i \in 1..Len(u) : u[i] = s[i + 1]
  <2> HIDE DEF s, u
  <2> QED BY <1>1, <1>3
<1>5. Planned(s)
  BY DEF Progress
<1>6. Planned(u) /\ \A i \in 1..Len(u) : u[i].op \notin {"post", "persist"}
  <2> HIDE DEF s, u
  <2> QED BY <1>4, <1>5, PlannedPersisted
<1>7. \A i \in 1..Len(u) : /\ u[i].op # "post"
                           /\ u[i].op = "protect" => venue'[u[i].o].st = "none"
  <2>1. ASSUME NEW i \in 1..Len(u), u[i].op = "protect" PROVE venue[u[i].o].st = "none"
    <3>1. i + 1 \in 1..Len(s) /\ u[i] = s[i + 1]
      <4> HIDE DEF s, u
      <4> QED BY <1>4
    <3> QED BY <2>1, <3>1 DEF Progress, Unsent, Steps
  <2> QED BY <1>2, <1>6, <2>1
<1>8. ASSUME NEW o \in Orders, venue'[o].st \in Open PROVE row'[o].st # "none"
  <2>1. CASE o = Head(s).o
    BY <1>1, <2>1 DEF PersistOrder, TypeOK, JobTrue, Cancelable, Row
  <2>2. CASE o # Head(s).o
    <3>1. Exists(o)
      BY <1>1, <1>2, <1>8, <2>2, OpenHasRow
    <3> QED BY <3>1 DEF RowsStay, Exists
  <2> QED BY <2>1, <2>2
<1> HIDE DEF u
<1>9. job'[Workflow] = u
  BY DEF u
<1> QED BY <1>2, <1>3, <1>6, <1>7, <1>8, <1>9, SendingProgress

\* The POST of a protection; a failure drops the sibling that was to follow and
\* leaves the guard, after the row of an order that may exist.
LEMMA PostProtectionJobs ==
    ASSUME TypeOK, Truth, Progress, VenueGrows, RowsStay, PostProtection
    PROVE  JobGoal /\ Others(Workflow) /\ Progress'
<1> DEFINE s == job[Workflow]
           hd == Head(job[Workflow])
<1>1. s \in Seq(JobType) /\ s # <<>> /\ hd = s[1] /\ hd.op = "protect"
      /\ Len(s) \in Nat /\ 1 \in 1..Len(s)
  BY HeadFacts, WorkflowIs DEF PostProtection, Turn
<1>2. Planned(s) /\ \A i \in 1..Len(s) : s[i].op = "protect" => venue[s[i].o].st = "none"
  BY DEF Progress, Unsent, Steps
<1>3. PICK c \in Orders : c = hd.o /\ c \in Protective /\ venue[c].st = "none"
  BY <1>1, <1>2 DEF Planned, Protective, Orders
<1>4. outcome' = "running" /\ ~guardOk' /\ JobsTrue /\ UNCHANGED row
  BY <1>1, Sending DEF PostProtection, ghosts, Truth
<1>5. \A o \in Orders : o # c => venue'[o] = venue[o]
  BY <1>3 DEF PostProtection, VenueSets, TypeOK
<1>6. ASSUME NEW o \in Orders, o # c, venue'[o].st \in Open PROVE row'[o].st # "none"
  <2>1. Exists(o)
    BY <1>1, <1>5, <1>6, OpenHasRow
  <2> QED BY <1>4, <2>1 DEF Exists
<1>7. PICK g \in JobType : g = Job("guard", "entry") /\ g.op = "guard"
  BY JobFacts DEF JobOps, Orders
<1>8. JobTrue(g)'
  BY <1>7, BlankJob
<1>9. CASE Then(Workflow, <<Persist(c, "submitted", "NEW")>>)
  <2>1. PICK a \in JobType : /\ a = Persist(c, "submitted", "NEW") /\ a.op = "persist"
                             /\ a.o = c /\ a.st = "submitted" /\ a.vs = "NEW"
    BY PersistFacts DEF Cancelable
  <2> DEFINE X == <<a>>
  <2>2. X \in Seq(JobType) /\ Len(X) = 1 /\ X[1] = a /\ \A j : Among(j, X) => j = a
    BY OneJob
  <2>3. Then(Workflow, X)
    BY <1>9, <2>1
  <2> HIDE DEF X
  <2>4. JobTrue(a)'
    BY <2>1, PersistTrue DEF Cancelable
  <2>5. \A j \in JobType : Among(j, X) => JobTrue(j)'
    BY <2>2, <2>4
  <2>6. JobGoal /\ Others(Workflow) /\ job'[Workflow] = X \o Tail(s)
    BY <1>1, <1>4, <2>2, <2>3, <2>5, ThenTrue, WorkflowIs DEF Others
  <2> DEFINE u == X \o Tail(s)
  <2>7. /\ Len(s) \in Nat \ {0} /\ Len(u) = Len(s) /\ u[1] = a
        /\ \A i \in 1..Len(u) : i # 1 => u[i] = s[i]
    <3>1. /\ Len(u) = Len(X) + Len(s) - 1 /\ Len(X) \in Nat /\ Len(s) \in Nat \ {0}
          /\ \A i \in 1..Len(u) : u[i] = IF i <= Len(X) THEN X[i] ELSE s[i - Len(X) + 1]
      BY <1>1, <2>2, ThenIndex
    <3> HIDE DEF s, u
    <3> QED BY <2>2, <3>1
  <2> HIDE DEF u
  <2>8. /\ Planned(u)
        /\ \A i \in 1..Len(u) : u[i].op # "post"
        /\ \A i \in 1..Len(u) : u[i].op = "protect" => u[i].o # s[1].o /\ u[i] = s[i]
    <3> HIDE DEF s
    <3> QED BY <1>1, <1>2, <2>1, <2>7, PlannedProtected
  <2>9. ASSUME NEW i \in 1..Len(u), u[i].op = "protect" PROVE venue'[u[i].o].st = "none"
    <3>1. /\ s[i].op = "protect" /\ s[i].o # c /\ i \in 1..Len(s)
      BY <1>1, <1>3, <2>7, <2>8, <2>9
    <3>2. s[i].o \in Orders
      BY <1>2, <3>1 DEF Planned, Protective, Orders
    <3> QED BY <1>2, <1>5, <2>8, <2>9, <3>1, <3>2
  <2>10. ASSUME NEW o \in Orders, venue'[o].st \in Open
         PROVE  row'[o].st # "none" \/ \E i \in 1..Len(u) : u[i].op = "persist" /\ u[i].o = o
    <3>1. CASE o = c
      BY <2>1, <2>7, <3>1
    <3>2. CASE o # c
      BY <1>6, <2>10, <3>2
    <3> QED BY <3>1, <3>2
  <2>11. job'[Workflow] = u
    BY <2>6 DEF u
  <2>12. Progress'
    BY <1>4, <2>8, <2>9, <2>10, <2>11, SendingProgress
  <2> QED BY <2>6, <2>12
<1>10. CASE Instead(Workflow, TrackUnknown(c) \o <<Job("guard", "entry")>>)
  <2>1. PICK a \in JobType : /\ a = Persist(c, "submitted", "UNKNOWN") /\ a.op = "persist"
                             /\ a.o = c /\ a.st = "submitted" /\ a.vs = "UNKNOWN"
    BY PersistFacts DEF Cancelable
  <2> DEFINE u == <<a>> \o <<g>>
  <2>2. /\ u \in Seq(JobType) /\ Len(u) = 2 /\ u[1] = a /\ u[2] = g
        /\ \A j : Among(j, u) => j \in {a, g}
    <3>1. u \in Seq(JobType) /\ \A j : Among(j, u) <=> Among(j, <<a>>) \/ Among(j, <<g>>)
      BY OneJob, AmongConcat
    <3>2. Len(u) = 2 /\ u[1] = a /\ u[2] = g
      OBVIOUS
    <3> HIDE DEF u
    <3> QED BY <3>1, <3>2, AmongOne
  <2>3. Instead(Workflow, u)
    BY <1>7, <1>10, <2>1 DEF TrackUnknown
  <2> HIDE DEF u
  <2>4. JobTrue(a)'
    BY <2>1, PersistTrue DEF Cancelable
  <2>5. \A j \in JobType : Among(j, u) => JobTrue(j)'
    BY <1>8, <2>2, <2>4
  <2>6. JobGoal /\ Others(Workflow) /\ job'[Workflow] = u
    BY <1>4, <2>2, <2>3, <2>5, InsteadTrue, WorkflowIs DEF Others
  <2>7. Planned(u)
    BY <1>7, <2>1, <2>2 DEF Planned
  <2>8. \A i \in 1..Len(u) : /\ u[i].op # "post"
                             /\ u[i].op = "protect" => venue'[u[i].o].st = "none"
    BY <1>7, <2>1, <2>2
  <2>9. ASSUME NEW o \in Orders, venue'[o].st \in Open
        PROVE  row'[o].st # "none" \/ \E i \in 1..Len(u) : u[i].op = "persist" /\ u[i].o = o
    <3>1. CASE o = c
      BY <2>1, <2>2, <3>1
    <3>2. CASE o # c
      BY <1>6, <2>9, <3>2
    <3> QED BY <3>1, <3>2
  <2> QED BY <1>4, <2>6, <2>7, <2>8, <2>9, SendingProgress
<1>11. CASE Instead(Workflow, <<Job("guard", "entry")>>) /\ UNCHANGED venue
  <2> DEFINE u == <<g>>
  <2>1. u \in Seq(JobType) /\ Len(u) = 1 /\ u[1] = g
    BY OneJob
  <2>2. JobGoal /\ Others(Workflow) /\ job'[Workflow] = u
    BY <1>4, <1>7, <1>8, <1>11, InsteadOne, WorkflowIs
  <2> HIDE DEF u
  <2>3. Planned(u)
    BY <1>7, <2>1 DEF Planned
  <2>4. \A i \in 1..Len(u) : /\ u[i].op # "post"
                             /\ u[i].op = "protect" => venue'[u[i].o].st = "none"
    BY <1>7, <2>1
  <2>5. ASSUME NEW o \in Orders, venue'[o].st \in Open PROVE row'[o].st # "none"
    BY <1>3, <1>6, <1>11, <2>5 DEF Open
  <2> QED BY <1>4, <2>2, <2>3, <2>4, <2>5, SendingProgress
<1> QED BY <1>3, <1>9, <1>10, <1>11 DEF PostProtection

\* When the first job is the only one and no persist or cancel, every open
\* order has its row, and the guard that believes itself has none to cancel.
LEMMA Alone ==
    ASSUME TypeOK, Progress, job[Workflow] # <<>>,
           Head(job[Workflow]).op \in {"guard", "guardEnd"}
    PROVE  /\ \A o \in Orders : venue[o].st \in Open => Exists(o)
           /\ guardOk => /\ venue["entry"].st \in Dead
                         /\ \A c \in Protective : venue[c].st \notin Open
<1>1. /\ job[Workflow][1].op \in {"guard", "guardEnd"} /\ Len(job[Workflow]) = 1
      /\ job[Workflow][1] = Head(job[Workflow])
  BY SentAlone, HeadFacts, WorkflowIs
<1>2. \A o \in Orders : venue[o].st \in Open => Exists(o)
  BY <1>1, OpenHasRow
<1>3. guardOk => /\ venue["entry"].st \in Dead
                 /\ \A c \in Protective : venue[c].st \notin Open
  BY <1>1 DEF Progress, GuardTrue, Steps
<1> QED BY <1>2, <1>3

\* A new list for a guard whose children are closed.
LEMMA GuardProgress ==
    ASSUME NEW u, job'[Workflow] = u, Planned(u), UNCHANGED venue, RowsStay,
           \A i \in 1..Len(u) : u[i].op \notin {"post", "persist", "protect"},
           outcome' # "completed",
           outcome' = "guarded" => \A i \in 1..Len(u) : u[i].op \in {"keep", "restore"},
           \A o \in Orders : venue[o].st \in Open => Exists(o),
           guardOk' => /\ venue["entry"].st \in Dead
                       /\ \A c \in Protective : venue[c].st \notin Open
    PROVE  Progress'
<1>1. Planned(job[Workflow])' /\ Unsent' /\ Finished' /\ Tracked'
  BY DEF Planned, Unsent, Finished, Tracked, Steps, RowsStay
<1>2. GuardTrue'
  BY DEF GuardTrue, Steps
<1> QED BY <1>1, <1>2 DEF Progress

\* The guard begins: the entry's cancel comes before any child's.
LEMMA GuardStartJobs ==
    ASSUME TypeOK, Truth, Progress, VenueGrows, RowsStay, GuardStart
    PROVE  JobGoal /\ Others(Workflow) /\ Progress'
<1> DEFINE s == job[Workflow]
<1>1. s \in Seq(JobType) /\ s # <<>> /\ Head(s).op = "guard" /\ Len(s) = 1
  BY HeadFacts, SentAlone, WorkflowIs DEF GuardStart, Turn
<1>2. /\ outcome' = "running" /\ UNCHANGED <<venue, guardOk>> /\ JobsTrue
      /\ Then(Workflow, <<Keep("entry", "none", "needs_reconcile"),
                          CancelJob("entry", "guard", "none"),
                          Job("guardEnd", "entry")>>)
  BY <1>1, Sending DEF GuardStart, VenueQuiet, Truth
<1>3. PICK a \in JobType : /\ a = Keep("entry", "none", "needs_reconcile") /\ a.op = "keep"
                           /\ a.o = "entry" /\ a.vs = "none" /\ a.rec = "needs_reconcile"
  BY KeepFacts DEF Orders, VenueStatuses, ReconcileStatuses
<1>4. PICK b \in JobType : /\ b = CancelJob("entry", "guard", "none") /\ b.op = "cancel"
                           /\ b.o = "entry" /\ b.by = "guard" /\ b.vs = "none"
  BY CancelFacts DEF Orders, Behalves, VenueStatuses
<1>5. PICK c \in JobType : c = Job("guardEnd", "entry") /\ c.op = "guardEnd"
  BY JobFacts DEF JobOps, Orders
<1> DEFINE u == <<a, b, c>>
<1>6. /\ u \in Seq(JobType) /\ Len(u) = 3 /\ u[1] = a /\ u[2] = b /\ u[3] = c
      /\ \A j : Among(j, u) => j \in {a, b, c}
  BY ThreeJobs
<1>7. Then(Workflow, u)
  BY <1>2, <1>3, <1>4, <1>5
<1> HIDE DEF u
<1>8. JobTrue(a)' /\ JobTrue(b)' /\ JobTrue(c)'
  <2>1. JobTrue(a)'
    BY <1>3 DEF JobTrue, VenueStatusTrue, MarkTrue, Terminal, Dead
  <2> QED BY <1>4, <1>5, <2>1, BlankJob, BlankCancel
<1>9. \A j \in JobType : Among(j, u) => JobTrue(j)'
  BY <1>6, <1>8
<1>10. JobGoal /\ Others(Workflow) /\ job'[Workflow] = u \o Tail(s)
  BY <1>1, <1>2, <1>6, <1>7, <1>9, ThenTrue, WorkflowIs DEF Others
<1>11. job'[Workflow] = u
  BY <1>1, <1>6, <1>10, LastThen
<1>12. Planned(u) /\ \A i \in 1..Len(u) : u[i].op \notin {"post", "persist", "protect"}
  BY <1>3, <1>4, <1>5, <1>6 DEF Planned
<1>13. /\ \A o \in Orders : venue[o].st \in Open => Exists(o)
       /\ guardOk' => /\ venue["entry"].st \in Dead
                      /\ \A o \in Protective : venue[o].st \notin Open
  BY <1>1, <1>2, Alone
<1>14. Progress'
  BY <1>2, <1>11, <1>12, <1>13, GuardProgress
<1> QED BY <1>10, <1>14

\* The guard's verdict: no cancel is left to do.
LEMMA GuardEndJobs ==
    ASSUME TypeOK, Truth, Progress, VenueGrows, RowsStay, GuardEnd
    PROVE  JobGoal /\ Others(Workflow) /\ Progress'
<1> DEFINE s == job[Workflow]
           rec == IF guardOk THEN "reconciled" ELSE "needs_reconcile"
<1>1. s \in Seq(JobType) /\ s # <<>> /\ Head(s).op = "guardEnd" /\ Len(s) = 1
  BY HeadFacts, SentAlone, WorkflowIs DEF GuardEnd, Turn
<1>2. /\ outcome' = "guarded" /\ UNCHANGED <<venue, guardOk>> /\ JobsTrue
      /\ Then(Workflow, <<Keep("entry", "none", rec)>>)
  BY DEF GuardEnd, VenueQuiet, Truth
<1>3. /\ \A o \in Orders : venue[o].st \in Open => Exists(o)
      /\ guardOk => /\ venue["entry"].st \in Dead
                    /\ \A c \in Protective : venue[c].st \notin Open
  BY <1>1, Alone
<1>4. PICK r \in ReconcileStatuses : r = rec /\ r # "none"
  BY DEF ReconcileStatuses
<1>5. PICK a \in JobType : /\ a = Keep("entry", "none", r) /\ a.op = "keep"
                           /\ a.o = "entry" /\ a.vs = "none" /\ a.rec = r
  BY KeepFacts DEF Orders, VenueStatuses
<1>6. JobTrue(a)'
  <2>1. r = "reconciled" => venue'["entry"].st \in Terminal
    BY <1>2, <1>3, <1>4 DEF Terminal
  <2> QED BY <1>4, <1>5, <2>1 DEF JobTrue, VenueStatusTrue, MarkTrue, Terminal, Dead
<1> DEFINE u == <<a>>
<1>7. u \in Seq(JobType) /\ Len(u) = 1 /\ u[1] = a /\ \A j : Among(j, u) => j = a
  BY OneJob
<1>8. Then(Workflow, u)
  BY <1>2, <1>4, <1>5
<1> HIDE DEF u, rec
<1>9. \A j \in JobType : Among(j, u) => JobTrue(j)'
  BY <1>6, <1>7
<1>10. JobGoal /\ Others(Workflow) /\ job'[Workflow] = u \o Tail(s)
  BY <1>1, <1>2, <1>7, <1>8, <1>9, ThenTrue, WorkflowIs DEF Others
<1>11. job'[Workflow] = u
  BY <1>1, <1>7, <1>10, LastThen
<1>12. /\ Planned(u)
       /\ \A i \in 1..Len(u) : u[i].op \notin {"post", "persist", "protect"}
       /\ \A i \in 1..Len(u) : u[i].op \in {"keep", "restore"}
  BY <1>5, <1>7 DEF Planned
<1>13. Progress'
  BY <1>2, <1>3, <1>11, <1>12, GuardProgress
<1> QED BY <1>10, <1>13

\* The guard takes from the row, which another thread may have written since,
\* that the entry is canceled; the row is true, whoever wrote it.
LEMMA GuardReadJobs ==
    ASSUME TypeOK, Truth, Progress, VenueGrows, RowsStay, GuardRead
    PROVE  JobGoal /\ Others(Workflow) /\ Progress'
<1> DEFINE s == job[Workflow]
           hd == Head(job[Workflow])
           seen == row["entry"].st = "canceled" \/ row["entry"].vs \in {"CANCELED", "EXPIRED"}
           rest == IF seen THEN <<Job("guardChildren", "entry")>> ELSE <<>>
<1>1. /\ s # <<>> /\ hd.op = "guardRead" /\ JobTrue(hd) /\ JobsTrue
  BY HeadFacts, WorkflowIs DEF GuardRead, Turn, Truth
<1>2. PICK ex \in 0..Qty : ex = hd.ex
  BY <1>1, HeadFacts, WorkflowIs
<1>3. UNCHANGED <<venue, outcome, guardOk>> /\ Then(Workflow, <<CascadeJob(ex)>> \o rest)
  BY <1>2 DEF GuardRead, VenueQuiet, ghosts
<1>4. EntryDead(ex)
  BY <1>1, <1>2 DEF JobTrue
<1>5. PICK a \in JobType : a = CascadeJob(ex) /\ a.op = "cascade" /\ a.ex = ex
  BY CascadeFacts
<1>6. PICK b \in JobType : b = Job("guardChildren", "entry") /\ b.op = "guardChildren"
  BY JobFacts DEF JobOps, Orders
<1>7. JobTrue(a)'
  BY <1>3, <1>4, <1>5 DEF JobTrue, EntryDead
<1>8. JobTrue(b)'
  BY <1>3, <1>4, <1>6 DEF JobTrue, EntryDead
<1> DEFINE one == <<CascadeJob(ex)>>
           X == one \o rest
<1>9. one \in Seq(JobType) /\ \A j : Among(j, one) => j = a
  BY <1>5, OneJob
<1>10. rest \in Seq(JobType) /\ \A j : Among(j, rest) => j = b
  <2>1. CASE seen
    <3>1. rest = <<b>>
      BY <1>6, <2>1
    <3> HIDE DEF rest
    <3> QED BY <3>1, OneJob
  <2>2. CASE ~seen
    <3>1. rest = <<>>
      BY <2>2
    <3> HIDE DEF rest
    <3> QED BY <3>1, AmongNone
  <2> QED BY <2>1, <2>2
<1> HIDE DEF one, rest
<1>11. X \in Seq(JobType) /\ \A j : Among(j, X) <=> Among(j, one) \/ Among(j, rest)
  BY <1>9, <1>10, AmongConcat
<1>12. Then(Workflow, X)
  BY <1>3 DEF one
<1> HIDE DEF X
<1>13. \A j \in JobType : Among(j, X) => JobTrue(j)'
  BY <1>7, <1>8, <1>9, <1>10, <1>11
<1>14. JobGoal /\ Others(Workflow) /\ job'[Workflow] = X \o Tail(s)
  BY <1>1, <1>11, <1>12, <1>13, ThenTrue, WorkflowIs DEF Others
<1>15. \A i \in 1..Len(X) : X[i] \in {a, b}
  BY <1>9, <1>10, <1>11 DEF Among
<1>16. \A i \in 1..Len(X) : Plain(X[i])
  BY <1>5, <1>6, <1>15 DEF Plain
<1>17. outcome = "running"
  BY <1>1, Sending
<1>18. Progress'
  BY <1>1, <1>3, <1>11, <1>14, <1>16, <1>17, QuietIsNoNew, PlainProgress
<1> QED BY <1>14, <1>18

\* The guard cancels the children that are open: a child it takes for terminal
\* already is so, since its row is true.
LEMMA GuardChildrenJobs ==
    ASSUME TypeOK, Truth, Progress, VenueGrows, RowsStay, GuardChildren
    PROVE  JobGoal /\ Others(Workflow) /\ Progress'
<1> DEFINE s == job[Workflow]
           hd == Head(job[Workflow])
           open == {c \in {"SL", "TP"} : Exists(c) /\ ~AlreadyTerminal(c)}
           X == CancelChildren(open, "guardChild")
           u == job'[Workflow]
<1>1. /\ s \in Seq(JobType) /\ s # <<>> /\ hd.op = "guardChildren" /\ hd = s[1]
      /\ JobTrue(hd) /\ JobsTrue /\ Len(s) \in Nat /\ 1 \in 1..Len(s)
  BY HeadFacts, WorkflowIs DEF GuardChildren, Turn, Truth
<1>2. guardOk' = TRUE /\ UNCHANGED <<venue, row, outcome>> /\ Then(Workflow, X)
  BY DEF GuardChildren, VenueQuiet
<1>3. venue["entry"].st \in Dead /\ venue'["entry"].st \in Dead
  BY <1>1, <1>2 DEF JobTrue
<1>4. outcome = "running"
  BY <1>1, Sending
<1>5. open \in SUBSET {"SL", "TP"} /\ "guardChild" \in Behalves
  BY DEF Behalves
<1> HIDE DEF open
<1>6. /\ X \in Seq(JobType)
      /\ \A j \in JobType : Among(j, X) => JobTrue(j)' /\ j.op = "cancel"
  BY <1>3, <1>5, CancelChildrenFit
<1>7. \A j : Among(j, X) <=> \E c \in open : j = CancelJob(c, "guardChild", "none")
  BY <1>5, CancelChildrenFacts
<1> HIDE DEF X
<1>8. JobGoal /\ Others(Workflow) /\ u = X \o Tail(s)
  BY <1>1, <1>2, <1>6, ThenTrue, WorkflowIs DEF Others
<1>9. \A i \in 1..Len(X) : X[i] \in JobType /\ X[i].op = "cancel"
  BY <1>6 DEF Among
<1>10. \A i \in 1..Len(X) : Plain(X[i])
  BY <1>9 DEF Plain
<1>11. u \in Seq(JobType)
  BY <1>8, WorkflowIs DEF JobGoal
<1>12. Planned(s)
  BY DEF Progress
<1>13. Planned(u) /\ \A i \in 1..Len(u) : u[i].op \notin {"post", "persist", "protect"}
  <2>1. Head(s).op \notin {"persist", "protect"}
    BY <1>1
  <2> HIDE DEF s, u
  <2> QED BY <1>1, <1>6, <1>8, <1>10, <1>11, <1>12, <2>1, PlannedThen
<1>14. \A o \in Orders : venue[o].st \in Open => Exists(o)
  BY <1>1, OpenHasRow
<1>15. ASSUME NEW c \in Protective, venue[c].st \in Open PROVE c \in open
  <2>1. c \in Orders /\ Exists(c) /\ RowTrue(c)
    BY <1>14, <1>15 DEF Protective, Orders, Truth, RowsTrue
  <2>2. ~AlreadyTerminal(c)
    BY <1>15, <2>1 DEF AlreadyTerminal, RowTrue, StatusTrue, VenueStatusTrue, Open, Terminal, Dead
  <2> QED BY <1>15, <2>1, <2>2 DEF open, Protective
<1>16. ASSUME NEW c \in Protective, venue[c].st \in Open
       PROVE  \E i \in 1..Len(u) : u[i].op = "cancel" /\ u[i].o = c /\ u[i].by = "guardChild"
  <2>1. c \in Orders /\ "none" \in VenueStatuses \cup {"UNKNOWN"}
    BY DEF Protective, Orders, VenueStatuses
  <2>2. PICK j \in JobType : /\ j = CancelJob(c, "guardChild", "none") /\ j.op = "cancel"
                             /\ j.o = c /\ j.by = "guardChild"
    BY <1>5, <2>1, CancelFacts
  <2>3. Among(j, X)
    BY <1>7, <1>15, <1>16, <2>2
  <2>4. PICK i \in 1..Len(X) : X[i] = j
    BY <2>3 DEF Among
  <2>5. i \in 1..Len(u) /\ u[i] = X[i]
    <3>1. /\ Len(u) = Len(X) + Len(s) - 1 /\ Len(X) \in Nat /\ Len(s) \in Nat \ {0}
          /\ \A k \in 1..Len(u) : u[k] = IF k <= Len(X) THEN X[k] ELSE s[k - Len(X) + 1]
      BY <1>1, <1>6, <1>8, ThenIndex
    <3> HIDE DEF s, u
    <3> QED BY <3>1
  <2> QED BY <2>2, <2>4, <2>5
<1>17. Planned(job[Workflow])' /\ Unsent' /\ Finished'
  BY <1>2, <1>4, <1>13 DEF Planned, Unsent, Finished, Steps
<1>18. Tracked'
  BY <1>2, <1>14 DEF Tracked, Exists
<1>19. GuardTrue'
  BY <1>2, <1>3, <1>13, <1>16 DEF GuardTrue, Steps
<1> QED BY <1>8, <1>17, <1>18, <1>19 DEF Progress

-----------------------------------------------------------------------------
(* The invariant holds. *)

\* Every step counts what it spends.
Counted ==
    \/ UNCHANGED <<calls, faults>>
    \/ UNCHANGED calls /\ faults' = faults + 1 /\ Within(calls, faults + 1)
    \/ UNCHANGED faults /\ calls' = calls + 1 /\ Within(calls + 1, faults)

\* A step spends no more than the budget.
LEMMA BudgetStep ==
    ASSUME TypeOK, [Next]_vars
    PROVE  Within(calls, faults)'
<1>1. Counted
  <2>1. ASSUME NEW p \in Procs, ThreadStep(p) PROVE Counted
    <3>1. UNCHANGED calls
      BY <2>1 DEF ThreadStep, Load, Restore, ReconcileAnswered, ReconcileFails, ReconcileGeneric,
         Store, Cascade, CancelSibling, MarkExit, CancelAnswered, CancelRefused, CancelAnswerLost,
         Canceled, ghosts
    <3>2. NoFault \/ \E kind : Fault(kind)
      BY <2>1 DEF ThreadStep, Load, Restore, ReconcileAnswered, ReconcileFails, ReconcileGeneric,
         Store, Cascade, CancelSibling, MarkExit, CancelAnswered, CancelRefused, CancelAnswerLost,
         Canceled
    <3> QED BY <3>1, <3>2 DEF Counted, Fault, NoFault
  <2>2. CASE WorkflowStep
    <3>1. UNCHANGED calls
      BY <2>2 DEF WorkflowStep, PostEntry, PersistOrder, PostProtection, GuardStart, GuardRead,
         GuardChildren, GuardEnd, WorkflowReturns, ghosts
    <3>2. NoFault \/ \E kind : Fault(kind)
      BY <2>2 DEF WorkflowStep, PostEntry, PersistOrder, PostProtection, GuardStart, GuardRead,
         GuardChildren, GuardEnd, WorkflowReturns
    <3> QED BY <3>1, <3>2 DEF Counted, Fault, NoFault
  <2>3. CASE StreamEvent \/ EventLost
    BY <2>3 DEF StreamEvent, EventLost, ghosts, Counted, Fault, NoFault
  <2>4. ASSUME NEW h \in Http, HttpStep(h) PROVE Counted
    <3>1. CASE RequestReconcile(h) \/ RequestCancel(h) \/ RequestPanic(h)
      BY <3>1 DEF RequestReconcile, RequestCancel, RequestPanic, Idle, NoFault, Counted
    <3>2. CASE CancelAll(h) \/ ReconcileAll(h)
      BY <3>2 DEF CancelAll, ReconcileAll, ghosts, Counted, Fault, NoFault
    <3> QED BY <2>4, <3>1, <3>2 DEF HttpStep
  <2>5. CASE FillEntry \/ ExpireEntry \/ TriggerChild
    BY <2>5 DEF FillEntry, ExpireEntry, TriggerChild, ghosts, Counted, Fault, NoFault
  <2>6. CASE UNCHANGED vars
    BY <2>6 DEF vars, Counted
  <2> QED BY <2>1, <2>2, <2>3, <2>4, <2>5, <2>6 DEF Next
<1>2. Within(calls, faults)
  BY DEF TypeOK
<1> QED BY <1>1, <1>2 DEF Counted, Within

\* No HTTP handler touches the guard's verdict.
LEMMA HttpVerdict ==
    ASSUME NEW h \in Http, HttpStep(h)
    PROVE  UNCHANGED <<outcome, guardOk, alerts>>
<1>1. CASE RequestReconcile(h) \/ RequestCancel(h)
  BY <1>1 DEF RequestReconcile, RequestCancel
<1>2. CASE RequestPanic(h)
  BY <1>2, Zenon DEF RequestPanic
<1>3. CASE CancelAll(h)
  BY <1>3, Zenon DEF CancelAll, ghosts
<1>4. CASE ReconcileAll(h)
  BY <1>4, Zenon DEF ReconcileAll, ghosts
<1> QED BY <1>1, <1>2, <1>3, <1>4 DEF HttpStep

\* The exchange-wide cancel opens nothing.
LEMMA CancelAllNoNew ==
    ASSUME TypeOK, NEW h \in Http, CancelAll(h)
    PROVE  NoNewOrder
<1>1. \/ UNCHANGED venue
      \/ venue' = [o \in Orders |->
                     IF venue[o].st \in Open THEN [venue[o] EXCEPT !.st = "CANCELED"]
                                             ELSE venue[o]]
  BY Zenon DEF CancelAll
<1>2. CASE UNCHANGED venue
  BY <1>2, QuietIsNoNew
<1>3. CASE venue' = [o \in Orders |->
                     IF venue[o].st \in Open THEN [venue[o] EXCEPT !.st = "CANCELED"]
                                             ELSE venue[o]]
  BY <1>3 DEF NoNewOrder, TypeOK, Open
<1> QED BY <1>1, <1>2, <1>3

Verdicts ==
    /\ outcome \in {"running", "completed", "guarded"}
    /\ guardOk \in BOOLEAN
    /\ alerts \subseteq {"cascade", "sibling", "protection.submit_failed"}

\* The workflow's outcome, the guard's belief and the alerts stay what they can be.
LEMMA VerdictStep ==
    ASSUME TypeOK, [Next]_vars
    PROVE  Verdicts'
<1>1. Verdicts
  BY DEF TypeOK, Verdicts
<1>2. CASE UNCHANGED <<outcome, guardOk, alerts>>
  BY <1>1, <1>2 DEF Verdicts
<1>3. ASSUME NEW p \in Procs, ThreadStep(p) PROVE Verdicts'
  <2>1. /\ UNCHANGED outcome /\ guardOk' \in BOOLEAN
        /\ alerts' \subseteq {"cascade", "sibling", "protection.submit_failed"}
    BY <1>3, ThreadVerdict
  <2> QED BY <1>1, <2>1 DEF Verdicts
<1>4. CASE WorkflowStep
  <2>1. CASE PostEntry \/ PersistOrder \/ PostProtection \/ GuardRead
    <3>1. UNCHANGED <<outcome, guardOk, alerts>>
      BY <2>1 DEF PostEntry, PersistOrder, PostProtection, GuardRead, ghosts
    <3> QED BY <1>2, <3>1
  <2>2. CASE GuardStart
    BY <1>1, <2>2 DEF GuardStart, Verdicts
  <2>3. CASE GuardChildren
    BY <1>1, <2>3 DEF GuardChildren, Verdicts
  <2>4. CASE GuardEnd
    BY <1>1, <2>4 DEF GuardEnd, Verdicts
  <2>5. CASE WorkflowReturns
    BY <1>1, <2>5 DEF WorkflowReturns, Verdicts
  <2> QED BY <1>4, <2>1, <2>2, <2>3, <2>4, <2>5 DEF WorkflowStep
<1>5. CASE StreamEvent \/ EventLost \/ FillEntry \/ ExpireEntry \/ TriggerChild
  <2>1. UNCHANGED <<outcome, guardOk, alerts>>
    BY <1>5 DEF StreamEvent, EventLost, FillEntry, ExpireEntry, TriggerChild, ghosts
  <2> QED BY <1>2, <2>1
<1>6. ASSUME NEW h \in Http, HttpStep(h) PROVE Verdicts'
  <2>1. UNCHANGED <<outcome, guardOk, alerts>>
    BY <1>6, HttpVerdict
  <2> QED BY <1>2, <2>1
<1>7. CASE UNCHANGED vars
  BY <1>2, <1>7 DEF vars
<1> QED BY <1>3, <1>4, <1>5, <1>6, <1>7 DEF Next

\* The jobs and the workflow's progress, step by step.
JobsAndProgress == JobGoal /\ Progress'

LEMMA JobStep ==
    ASSUME TypeOK, Truth, Progress, VenueGrows, RowsStay, [Next]_vars
    PROVE  JobsAndProgress
<1> USE DEF JobsAndProgress
<1>0. \A q \in Procs \ {Workflow} : q # Workflow
  OBVIOUS
<1>1. ASSUME NEW p \in Procs, ThreadStep(p) PROVE JobsAndProgress
  <2>1. JobGoal /\ Others(p)
    BY <1>1, ThreadJobs
  <2>2. CASE p = Workflow
    <3>1. Progress'
      BY <1>1, <2>2, WorkflowThread
    <3> QED BY <2>1, <3>1
  <2>3. CASE p # Workflow
    <3>1. job'[Workflow] = job[Workflow]
      BY <2>1, <2>3, WorkflowIs DEF Others
    <3>2. UNCHANGED outcome /\ (guardOk' => guardOk) /\ NoNewOrder
      BY <1>1, ThreadVerdict, ThreadNoNew
    <3> QED BY <2>1, <3>1, <3>2, OthersProgress
  <2> QED BY <2>2, <2>3
<1>2. CASE WorkflowStep
  <2>1. CASE PostEntry
    BY <2>1, PostEntryJobs DEF Truth
  <2>2. CASE PersistOrder
    BY <2>2, PersistOrderJobs
  <2>3. CASE PostProtection
    BY <2>3, PostProtectionJobs
  <2>4. CASE GuardStart
    BY <2>4, GuardStartJobs
  <2>5. CASE GuardRead
    BY <2>5, GuardReadJobs
  <2>6. CASE GuardChildren
    BY <2>6, GuardChildrenJobs
  <2>7. CASE GuardEnd
    BY <2>7, GuardEndJobs
  <2>8. CASE WorkflowReturns
    <3>1. JobGoal
      BY <2>8, JobsRest DEF WorkflowReturns, Truth
    <3>2. /\ job[Workflow] = <<>> /\ UNCHANGED <<job, venue, row, guardOk>>
          /\ outcome' = "completed"
      BY <2>8 DEF WorkflowReturns, VenueQuiet
    <3>3. Planned(job[Workflow])' /\ Unsent' /\ Finished' /\ Tracked' /\ GuardTrue'
      BY <3>2 DEF Progress, Planned, Unsent, Finished, Tracked, GuardTrue, Steps, Exists
    <3> QED BY <3>1, <3>3 DEF Progress
  <2> QED BY <1>2, <2>1, <2>2, <2>3, <2>4, <2>5, <2>6, <2>7, <2>8 DEF WorkflowStep
<1>3. CASE StreamEvent
  <2>1. JobGoal /\ Others("stream")
    BY <1>3, StreamJobs
  <2>2. job'[Workflow] = job[Workflow]
    BY <2>1, WorkflowIs DEF Others, Workflow
  <2>3. NoNewOrder /\ UNCHANGED outcome /\ (guardOk' => guardOk)
    BY <1>3, QuietIsNoNew DEF StreamEvent, ghosts
  <2> QED BY <2>1, <2>2, <2>3, OthersProgress
<1>4. CASE EventLost
  <2>1. JobGoal
    BY <1>4, JobsRest DEF EventLost, Truth
  <2>2. NoNewOrder /\ UNCHANGED <<job, outcome>> /\ (guardOk' => guardOk)
    BY <1>4, QuietIsNoNew DEF EventLost, ghosts
  <2> QED BY <2>1, <2>2, OthersProgress
<1>5. ASSUME NEW h \in Http, HttpStep(h) PROVE JobsAndProgress
  <2>1. JobGoal /\ Others(h)
    BY <1>5, HttpJobs
  <2>2. h # Workflow
    BY OmsAssumption DEF Workflow
  <2>3. job'[Workflow] = job[Workflow]
    BY <2>1, <2>2, WorkflowIs DEF Others
  <2>4. UNCHANGED outcome /\ (guardOk' => guardOk)
    BY <1>5, HttpVerdict
  <2>5. NoNewOrder
    <3>1. CASE CancelAll(h)
      BY <3>1, CancelAllNoNew
    <3>2. CASE ~CancelAll(h)
      BY <1>5, <3>2, QuietIsNoNew DEF HttpStep, RequestReconcile, RequestCancel, RequestPanic,
         ReconcileAll, VenueQuiet
    <3> QED BY <3>1, <3>2
  <2> QED BY <2>1, <2>3, <2>4, <2>5, OthersProgress
<1>6. CASE FillEntry \/ ExpireEntry \/ TriggerChild
  <2>1. JobGoal
    BY <1>6, JobsRest DEF FillEntry, ExpireEntry, TriggerChild, Truth
  <2>2. UNCHANGED <<job, outcome>> /\ (guardOk' => guardOk)
    BY <1>6 DEF FillEntry, ExpireEntry, TriggerChild, ghosts
  <2>3. NoNewOrder
    BY <1>6, MoveIsNoNew DEF FillEntry, ExpireEntry, TriggerChild, Orders, Open
  <2> QED BY <2>1, <2>2, <2>3, OthersProgress
<1>7. CASE UNCHANGED vars
  <2>1. JobGoal
    BY <1>7, JobsRest DEF vars, Truth
  <2>2. NoNewOrder /\ UNCHANGED <<job, outcome>> /\ (guardOk' => guardOk)
    BY <1>7, QuietIsNoNew DEF vars
  <2> QED BY <2>1, <2>2, OthersProgress
<1> QED BY <1>1, <1>2, <1>3, <1>4, <1>5, <1>6, <1>7 DEF Next

\* The invariant holds before the entry is posted.
LEMMA InitIInv == Init => IInv
<1> SUFFICES ASSUME Init PROVE IInv
  OBVIOUS
<1> USE DEF Init
<1>1. PICK b \in Budgets : b.calls \in Nat /\ b.faults \in Nat
  BY OmsAssumption
<1>2. Within(calls, faults)
  BY <1>1 DEF Within
<1>3. Job("post", "entry") \in JobType /\ JobTrue(Job("post", "entry"))
  <2>1. Job("post", "entry") \in JobType
    BY JobFacts DEF JobOps, Orders
  <2>2. PICK j \in JobType : j = Job("post", "entry")
    BY <2>1
  <2>3. JobTrue(j)
    BY <2>2 DEF JobTrue, Job
  <2> QED BY <2>2, <2>3
<1>4. /\ job[Workflow] = <<Job("post", "entry")>>
      /\ \A p \in Procs \ {Workflow} : job[p] = <<>>
  BY WorkflowIs DEF Workflow
<1>5. \A p \in Procs : job[p] \in Seq(JobType)
  BY <1>3, <1>4
<1>6. job \in [Procs -> Seq(JobType)]
  BY <1>5
<1>7. /\ venue \in [Orders -> [st : VenueStatuses, ex : 0..Qty]] /\ pos \in 0..Qty
      /\ \A o \in Orders : venue[o].st = "none" /\ venue[o].ex = 0 /\ row[o] = NoRow
  BY OmsAssumption DEF VenueStatuses
<1>8. row \in [Orders -> [st : LocalStatuses, vs : VenueStatuses \cup {"UNKNOWN"},
                          rec : ReconcileStatuses]]
  BY DEF NoRow, Row, LocalStatuses, VenueStatuses, ReconcileStatuses
<1>9. TypeOK
  <2>1. events \in Seq(EventType)
    OBVIOUS
  <2>2. outcome \in {"running", "completed", "guarded"} /\ guardOk \in BOOLEAN /\ alerts = {}
    OBVIOUS
  <2> HIDE DEF Init
  <2> QED BY <1>2, <1>6, <1>7, <1>8, <2>1, <2>2 DEF TypeOK
<1>10. Books
  BY <1>7 DEF Books, Open, Orders
<1>11. EventsTrue /\ RowsTrue
  BY <1>7 DEF EventsTrue, RowsTrue, RowTrue, StatusTrue, VenueStatusTrue, MarkTrue, Exists,
     NoRow, Row, Terminal, Dead
<1>12. JobsTrue
  <2> SUFFICES ASSUME NEW p \in Procs, NEW i \in 1..Len(job[p]) PROVE JobTrue(job[p][i])
    BY DEF JobsTrue
  <2>1. p = Workflow
    BY <1>4
  <2> QED BY <1>3, <1>4, <2>1
<1>13. /\ \A i \in Steps : i = 1 /\ job[Workflow][i].op = "post" /\ job[Workflow][i].o = "entry"
       /\ Len(job[Workflow]) = 1
  <2> HIDE DEF Init
  <2>1. Job("post", "entry").op = "post" /\ Job("post", "entry").o = "entry"
    BY DEF Job
  <2> QED BY <1>4, <2>1 DEF Steps
<1>14. Planned(job[Workflow])
  BY <1>13 DEF Planned, Steps
<1>15. Unsent /\ Finished /\ Tracked /\ GuardTrue
  BY <1>7, <1>13 DEF Unsent, Finished, Tracked, GuardTrue, Open
<1> QED BY <1>9, <1>10, <1>11, <1>12, <1>14, <1>15 DEF IInv, Truth, Progress

\* Every step keeps it: the exchange first, then the rows, then the jobs, whose
\* truth rests on what of the first two stays.
LEMMA StepIInv == IInv /\ [Next]_vars => IInv'
<1> SUFFICES ASSUME IInv, [Next]_vars PROVE IInv'
  OBVIOUS
<1>1. TypeOK /\ Books /\ EventsTrue /\ Truth /\ Progress /\ Unsent
  BY DEF IInv, Truth, Progress
<1>2. VenueGoal
  BY <1>1, VenueStep
<1>3. RowGoal
  BY <1>1, <1>2, RowStep DEF VenueGoal
<1>4. JobGoal /\ Progress'
  BY <1>1, <1>2, <1>3, JobStep DEF VenueGoal, RowGoal, JobsAndProgress
<1>5. Within(calls, faults)' /\ Verdicts'
  BY <1>1, BudgetStep, VerdictStep
<1>6. TypeOK'
  BY <1>2, <1>3, <1>4, <1>5 DEF VenueGoal, VenueTyped, RowGoal, RowType, JobGoal, Verdicts, TypeOK
<1>7. Books' /\ Truth'
  BY <1>2, <1>3, <1>4 DEF VenueGoal, RowGoal, JobGoal, Truth
<1> QED BY <1>4, <1>6, <1>7 DEF IInv

\* The inductive invariant holds in every reachable state, for any quantity,
\* any number of HTTP threads and any budget of requests and faults.
THEOREM Invariant == Spec => []IInv
BY InitIInv, StepIInv, PTL DEF Spec

\* An ended workflow has no row left to write, and a finished guard no cancel.
LEMMA RowsAreSound == IInv => RowsSound
<1> SUFFICES ASSUME IInv PROVE RowsSound
  OBVIOUS
<1> USE DEF IInv, Progress
<1>1. NothingForgotten
  BY DEF NothingForgotten, Tracked, Steps
<1>2. GuardLeavesNothingOpen
  <2> SUFFICES ASSUME outcome = "guarded", guardOk, NEW o \in Orders PROVE venue[o].st \notin Open
    BY DEF GuardLeavesNothingOpen
  <2>1. venue["entry"].st \in Dead
    BY DEF GuardTrue
  <2>2. \A i \in Steps : job[Workflow][i].op # "cancel"
    BY DEF Finished
  <2>3. CASE o = "entry"
    BY <2>1, <2>3 DEF Open, Dead
  <2>4. CASE o \in Protective
    BY <2>2, <2>4 DEF GuardTrue
  <2> QED BY <2>3, <2>4 DEF Orders, Protective
<1> QED BY <1>1, <1>2 DEF RowsSound

\* Every order that is open at the exchange has its row once the workflow has
\* ended, and nothing is open after a guard that reports success.
THEOREM RowsTheorem == Spec => []RowsSound
BY Invariant, RowsAreSound, PTL

\* The rows are true, one by one.
LEMMA RowsTellTruth == IInv => LocalTerminalIsTrue
BY DEF IInv, Truth, RowsTrue, RowTrue, StatusTrue, MarkTrue, Protective, LocalTerminalIsTrue

\* A row that says filled or canceled, or that is marked reconciled, is never
\* ahead of the exchange, whatever answers and events were lost or late.
THEOREM TerminalTheorem == Spec => []LocalTerminalIsTrue
BY Invariant, RowsTellTruth, PTL

\* A cascade's cancel carries that the entry died unfilled, which stays true.
LEMMA CascadesAreDue == IInv => CascadeOnlyUnfilled
BY DEF IInv, Truth, JobsTrue, JobTrue, EntryDead, CascadeOnlyUnfilled

\* A cascade never takes a stop from an entry that has a fill.
THEOREM CascadeTheorem == Spec => []CascadeOnlyUnfilled
BY Invariant, CascadesAreDue, PTL

\* A cancel on the guard's account carries that the entry is dead.
LEMMA ConfirmedFirst ==
    ASSUME IInv, [Next]_vars, NEW c \in Protective,
           Turn(Workflow, "cancel"), Head(job[Workflow]).by = "guardChild"
    PROVE  venue["entry"].st \in Dead
<1> DEFINE j == Head(job[Workflow])
<1>1. JobTrue(j)
  BY HeadFacts, WorkflowIs DEF IInv, Truth, Turn
<1>2. j.op = "cancel" /\ j.by = "guardChild"
  BY DEF Turn
<1> HIDE DEF j
<1> QED BY <1>1, <1>2 DEF JobTrue

\* The guard cancels no protection before the exchange has ended the entry.
THEOREM GuardTheorem == Spec => GuardKeepsUntilConfirmed
<1>1. IInv /\ [Next]_vars =>
        [\A c \in {"SL", "TP"} :
           (/\ Turn(Workflow, "cancel") /\ Head(job[Workflow]).by = "guardChild"
            /\ venue[c].st \in Open /\ venue'[c].st = "CANCELED")
             => venue["entry"].st \in Dead]_vars
  BY ConfirmedFirst DEF Protective
<1> QED BY <1>1, Invariant, PTL DEF Spec, GuardKeepsUntilConfirmed

-----------------------------------------------------------------------------
(* The review. *)

ReviewType ==
    review \in [at : {"run", "rows", "entry", "children"},
                run : {"running", "completed", "guarded"}, clean : BOOLEAN,
                entry : LocalStatuses]

\* A review of a completed run that has found the marks clean: nothing can be
\* sent any more, so what was closed when the marks were read stays closed.
ReviewInv ==
    /\ ReviewType
    /\ review.at # "run" /\ review.run = "completed" => outcome = "completed"
    /\ review.at \in {"entry", "children"} /\ review.run = "completed" /\ review.clean =>
         \A c \in Protections : venue[c].st \notin Open

ReviewIInv == IInv /\ ReviewInv

\* A completed workflow sends nothing more, and neither does anyone else.
LEMMA CompletedStays ==
    ASSUME IInv, [Next]_vars, outcome = "completed"
    PROVE  outcome' = "completed" /\ NoNewOrder
<1>1. job[Workflow] = <<>>
  BY DEF IInv, Progress, Finished
<1>2. TypeOK
  BY DEF IInv
<1>3. \A op : ~Turn(Workflow, op)
  BY <1>1 DEF Turn
<1>4. ASSUME NEW p \in Procs, ThreadStep(p) PROVE outcome' = "completed" /\ NoNewOrder
  BY <1>2, <1>4, ThreadVerdict, ThreadNoNew
<1>5. ~WorkflowStep
  BY <1>3 DEF WorkflowStep, PostEntry, PersistOrder, PostProtection, GuardStart, GuardRead,
     GuardChildren, GuardEnd, WorkflowReturns
<1>6. CASE StreamEvent \/ EventLost \/ UNCHANGED vars
  BY <1>6, QuietIsNoNew DEF StreamEvent, EventLost, ghosts, vars
<1>7. ASSUME NEW h \in Http, HttpStep(h) PROVE outcome' = "completed" /\ NoNewOrder
  <2>1. UNCHANGED outcome
    BY <1>7, HttpVerdict
  <2>2. CASE CancelAll(h)
    BY <1>2, <2>1, <2>2, CancelAllNoNew
  <2>3. CASE ~CancelAll(h)
    BY <1>7, <2>1, <2>3, QuietIsNoNew DEF HttpStep, RequestReconcile, RequestCancel,
       RequestPanic, ReconcileAll, VenueQuiet
  <2> QED BY <2>2, <2>3
<1>8. CASE FillEntry \/ ExpireEntry \/ TriggerChild
  <2>1. UNCHANGED outcome
    BY <1>8 DEF FillEntry, ExpireEntry, TriggerChild, ghosts
  <2>2. NoNewOrder
    BY <1>2, <1>8, MoveIsNoNew DEF FillEntry, ExpireEntry, TriggerChild, Orders, Open
  <2> QED BY <2>1, <2>2
<1> QED BY <1>4, <1>5, <1>6, <1>7, <1>8 DEF Next

\* Clean marks after the workflow has ended leave no protection open: an open
\* one would have a row, the row a mark, and the mark would be true.
LEMMA CleanIsClosed ==
    ASSUME IInv, outcome = "completed", Clean, NEW c \in Protections
    PROVE  venue[c].st \notin Open
<1>1. c \in Orders /\ c # "entry"
  BY DEF Protections, Orders
<1>2. venue[c].st \in Open => Exists(c)
  BY <1>1 DEF IInv, Progress, Finished, Tracked, Steps
<1>3. Exists(c) => row[c].rec = "reconciled"
  <2>1. row[c].rec \in ReconcileStatuses
    BY <1>1 DEF IInv, TypeOK
  <2>2. Exists(c) => row[c].rec # "none"
    BY <1>1 DEF IInv, Truth, RowsTrue, RowTrue
  <2> QED BY <1>1, <2>1, <2>2 DEF Clean, ReconcileStatuses
<1>4. row[c].rec = "reconciled" => venue[c].st \in Terminal
  BY <1>1 DEF IInv, Truth, RowsTrue, RowTrue, MarkTrue
<1> QED BY <1>2, <1>3, <1>4 DEF Terminal, Dead, Open

\* No review is under way at first.
LEMMA ReviewStarts == ReviewInit => ReviewIInv
BY InitIInv DEF ReviewInit, ReviewIInv, ReviewInv, ReviewType, NotReviewing, LocalStatuses

\* What a review has read stays good enough: the orders only close behind it.
LEMMA ReviewStep == ReviewIInv /\ [ReviewNext]_reviewVars => ReviewIInv'
<1> SUFFICES ASSUME ReviewIInv, [ReviewNext]_reviewVars PROVE ReviewIInv'
  OBVIOUS
<1>1. IInv /\ ReviewType /\ TypeOK
  BY DEF ReviewIInv, ReviewInv, IInv
<1>2. [Next]_vars
  BY DEF ReviewNext, reviewVars, vars, ReviewRun, ReviewRows, ReviewEntry, ReviewAnswers
<1>3. IInv'
  BY <1>1, <1>2, StepIInv
<1>4. outcome = "completed" => outcome' = "completed" /\ NoNewOrder
  BY <1>1, <1>2, CompletedStays
<1>5. CASE UNCHANGED review
  <2>1. ReviewType'
    BY <1>1, <1>5 DEF ReviewType
  <2> QED BY <1>3, <1>4, <1>5, <2>1
          DEF ReviewIInv, ReviewInv, NoNewOrder, Protections, Orders
<1>6. CASE ReviewRun
  <2>1. /\ review'.at = "rows" /\ review'.run = outcome /\ outcome' = outcome
    BY <1>1, <1>6 DEF ReviewRun, ReviewType, vars
  <2>2. ReviewType'
    BY <1>1, <1>6 DEF ReviewRun, ReviewType, TypeOK
  <2> QED BY <1>3, <2>1, <2>2 DEF ReviewIInv, ReviewInv
<1>7. CASE ReviewRows
  <2>1. /\ review.at = "rows" /\ review'.at = "entry" /\ review'.run = review.run
        /\ review'.clean = Clean /\ UNCHANGED <<outcome, venue>>
    BY <1>1, <1>7 DEF ReviewRows, ReviewType, vars
  <2>2. ReviewType'
    BY <1>1, <1>7 DEF ReviewRows, ReviewType, Clean
  <2>3. review'.run = "completed" => outcome = "completed"
    BY <2>1 DEF ReviewIInv, ReviewInv
  <2>4. review'.run = "completed" /\ review'.clean => \A c \in Protections : venue[c].st \notin Open
    BY <1>1, <2>1, <2>3, CleanIsClosed
  <2> QED BY <1>3, <2>1, <2>2, <2>3, <2>4 DEF ReviewIInv, ReviewInv
<1>8. CASE ReviewEntry
  <2>1. /\ review.at = "entry" /\ review'.at = "children" /\ review'.run = review.run
        /\ review'.clean = review.clean /\ UNCHANGED <<outcome, venue>>
    BY <1>1, <1>8 DEF ReviewEntry, ReviewType, vars
  <2>2. ReviewType'
    BY <1>1, <1>8 DEF ReviewEntry, ReviewType, TypeOK, Orders
  <2> QED BY <1>3, <2>1, <2>2 DEF ReviewIInv, ReviewInv
<1>9. CASE ReviewAnswers
  <2>1. review' = NotReviewing
    BY <1>9 DEF ReviewAnswers
  <2>2. ReviewType'
    BY <2>1 DEF ReviewType, NotReviewing, LocalStatuses
  <2> QED BY <1>3, <2>1, <2>2 DEF ReviewIInv, ReviewInv, NotReviewing
<1> QED BY <1>5, <1>6, <1>7, <1>8, <1>9 DEF ReviewNext, reviewVars

\* The review's invariant beside that of the orders.
THEOREM ReviewInvariant == ReviewSpec => []ReviewIInv
BY ReviewStarts, ReviewStep, PTL DEF ReviewSpec

\* A passed chain has both children's marks reconciled, and marks are true.
LEMMA ReviewTellsTruth == ReviewIInv => ReviewIsTrue
<1> SUFFICES ASSUME ReviewIInv PROVE ReviewIsTrue
  OBVIOUS
<1>1. ChainPassIsClosed
  <2> SUFFICES ASSUME Chain(review.entry) = "pass", NEW c \in Protections
               PROVE  venue[c].st \in Terminal
    BY DEF ChainPassIsClosed
  <2>1. Exists(c) /\ ~AwaitsNews(c)
    BY DEF Chain
  <2>2. c \in Orders /\ c # "entry"
    BY DEF Protections, Orders
  <2>3. row[c].rec \in ReconcileStatuses
    BY <2>2 DEF ReviewIInv, IInv, TypeOK
  <2>4. RowTrue(c)
    BY <2>2 DEF ReviewIInv, IInv, Truth, RowsTrue
  <2>5. row[c].rec = "reconciled"
    BY <2>1, <2>3, <2>4 DEF AwaitsNews, RowTrue, ReconcileStatuses
  <2> QED BY <2>2, <2>4, <2>5 DEF RowTrue, MarkTrue
<1>2. ReviewOkIsSettled
  <2> SUFFICES ASSUME review.at = "children", review.run = "completed", Postflight # "fail"
               PROVE  \A c \in Protections : venue[c].st \notin Open
    BY DEF ReviewOkIsSettled
  <2>1. ~review.clean => Postflight = "fail"
    BY Zenon DEF Postflight
  <2> QED BY <2>1 DEF ReviewIInv, ReviewInv
<1> QED BY <1>1, <1>2 DEF ReviewIsTrue

\* The postflight's good news is true at the exchange, although it is put
\* together from rows read one after the other while every thread writes.
THEOREM ReviewTheorem == ReviewSpec => []ReviewIsTrue
BY ReviewInvariant, ReviewTellsTruth, PTL
=============================================================================
