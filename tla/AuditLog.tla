------------------------------ MODULE AuditLog ------------------------------
(***************************************************************************)
(* The audit hash chain (src/app/server.py).  An event, an AI operator     *)
(* message and an OMS transition are written together with their chain     *)
(* record in one transaction under DB_LOCK; update_order_state writes the  *)
(* order's row in a transaction of its own before it.  A hash stands for   *)
(* the contents it was computed from: the sequence of all contents up to   *)
(* its record.                                                             *)
(***************************************************************************)
EXTENDS Naturals, Sequences, SequencesExt

CONSTANTS
    Writers,      \* threads that write: handlers, workflow, scheduler, stream
    Messages,     \* contents of events and AI operator messages
    Statuses,     \* statuses of the order
    NewOrder,     \* its first status
    MaxRecords,   \* bound on the records of a database
    MaxStops      \* bound on the stops of the process

ASSUME AuditAssumption ==
    /\ NewOrder \in Statuses
    /\ MaxRecords \in Nat /\ MaxStops \in Nat

VARIABLES
    serving,  \* is the process running?
    stops,    \* how often it has been stopped or killed
    holder,   \* the writers inside a transaction
    writer,   \* each writer's step, content to record and status to write
    records,  \* committed events, messages and transitions, in order
    chain,    \* committed audit_chain
    order,    \* committed status of the order
    altered,  \* has the chain been altered outside the program?
    lost      \* statuses whose transition a stop has kept out of the records

dbVars == <<records, chain, order, altered>>
auditVars == <<serving, stops, holder, writer, dbVars, lost>>

Genesis == <<>>
Hash(previous, what) == Append(previous, what)

\* insert_order_transition.
Transition(from, to) == <<from, to>>
Contents == Messages \cup (Statuses \X Statuses)

IdleWriter == [step |-> "idle"]
WriterStates ==
    {IdleWriter}
    \cup [step : {"write"}, from : Statuses, to : Statuses]
    \cup [step : {"record"}, what : Contents]
    \cup [step : {"commit"}, what : Contents, previous : Seq(Contents)]

AuditTypeOK ==
    /\ serving \in BOOLEAN /\ altered \in BOOLEAN
    /\ stops \in Nat /\ lost \in SUBSET Statuses
    /\ holder \in SUBSET Writers
    /\ writer \in [Writers -> WriterStates]
    /\ records \in Seq(Contents)
    /\ chain \in Seq([what : Contents, previous : Seq(Contents), hash : Seq(Contents)])
    /\ order \in Statuses

AuditInit ==
    /\ serving = TRUE
    /\ stops = 0
    /\ holder = {}
    /\ writer = [w \in Writers |-> IdleWriter]
    /\ records = <<>>
    /\ chain = <<>>
    /\ order = NewOrder
    /\ altered = FALSE
    /\ lost = {}

-----------------------------------------------------------------------------
(* Writing. *)

LastHash == IF chain = <<>> THEN Genesis ELSE chain[Len(chain)].hash

\* insert_event, insert_ai_operator_message: an idle writer has a message.
HasMessage(w, m) ==
    /\ serving /\ writer[w].step = "idle"
    /\ writer' = [writer EXCEPT ![w] = [step |-> "record", what |-> m]]
    /\ UNCHANGED <<serving, stops, holder, dbVars, lost>>

\* Mutant: the record's predecessor is read before DB_LOCK is taken.
BeginUnlocked(w) ==
    /\ serving /\ writer[w].step = "record"
    /\ Len(records) < MaxRecords
    /\ holder' = holder \cup {w}
    /\ writer' = [writer EXCEPT ![w] =
         [step |-> "commit", what |-> writer[w].what, previous |-> LastHash]]
    /\ UNCHANGED <<serving, stops, dbVars, lost>>

\* DB_LOCK is taken, the row is inserted, and append_audit_record reads the
\* hash of the last record.
Begin(w) ==
    /\ serving /\ writer[w].step = "record"
    /\ Len(records) < MaxRecords
    /\ holder = {}
    /\ holder' = {w}
    /\ writer' = [writer EXCEPT ![w] =
         [step |-> "commit", what |-> writer[w].what, previous |-> LastHash]]
    /\ UNCHANGED <<serving, stops, dbVars, lost>>

\* The row and its chain record are committed together.
Commit(w) ==
    /\ serving /\ writer[w].step = "commit"
    /\ records' = Append(records, writer[w].what)
    /\ chain' = Append(chain, [what |-> writer[w].what, previous |-> writer[w].previous,
                               hash |-> Hash(writer[w].previous, writer[w].what)])
    /\ holder' = holder \ {w}
    /\ writer' = [writer EXCEPT ![w] = IdleWriter]
    /\ UNCHANGED <<serving, stops, order, altered, lost>>

\* update_order_state reads the order before it takes the lock to write it.
ReadOrder(w, to) ==
    /\ serving /\ writer[w].step = "idle" /\ to # order
    /\ Len(records) < MaxRecords
    /\ writer' = [writer EXCEPT ![w] = [step |-> "write", from |-> order, to |-> to]]
    /\ UNCHANGED <<serving, stops, holder, dbVars, lost>>

WriteOrder(w) ==
    /\ serving /\ writer[w].step = "write" /\ holder = {}
    /\ order' = writer[w].to
    /\ writer' = [writer EXCEPT ![w] =
         [step |-> "record", what |-> Transition(writer[w].from, writer[w].to)]]
    /\ UNCHANGED <<serving, stops, holder, records, chain, altered, lost>>

\* A transition to status s is still to be recorded by writer w.
Owes(w, s) ==
    /\ writer[w].step \in {"record", "commit"}
    /\ \E from \in Statuses : writer[w].what = Transition(from, s)

\* The process is stopped or killed: SQLite rolls an open transaction back, and
\* what the threads still had to do is lost.
Stop ==
    /\ serving /\ stops < MaxStops
    /\ stops' = stops + 1
    /\ serving' = FALSE
    /\ holder' = {}
    /\ lost' = lost \cup {s \in Statuses : \E w \in Writers : Owes(w, s)}
    /\ writer' = [w \in Writers |-> IdleWriter]
    /\ UNCHANGED dbVars

Serve == ~serving /\ serving' = TRUE /\ UNCHANGED <<stops, holder, writer, dbVars, lost>>

-----------------------------------------------------------------------------
(* The chain, altered once outside the program, and audit_chain_status. *)

\* The content of record i is replaced; the hash of a record that has a
\* successor may be computed anew.
EditRecord(i, what, rehash) ==
    /\ ~altered /\ holder = {} /\ what # chain[i].what
    /\ rehash => i < Len(chain)
    /\ chain' = [chain EXCEPT
         ![i].what = what,
         ![i].hash = IF rehash THEN Hash(chain[i].previous, what) ELSE chain[i].hash]
    /\ altered' = TRUE
    /\ UNCHANGED <<serving, stops, holder, writer, records, order, lost>>

\* A record that has a successor is deleted.
DeleteRecord(i) ==
    /\ ~altered /\ holder = {} /\ i < Len(chain)
    /\ chain' = RemoveAt(chain, i)
    /\ altered' = TRUE
    /\ UNCHANGED <<serving, stops, holder, writer, records, order, lost>>

\* Record i of a walk of the chain is not broken.
Linked(c, i) ==
    /\ c[i].previous = IF i = 1 THEN Genesis ELSE c[i - 1].hash
    /\ c[i].hash = Hash(c[i].previous, c[i].what)

AuditStatus(c) == IF \A i \in DOMAIN c : Linked(c, i) THEN "pass" ELSE "fail"

Alter ==
    \E i \in DOMAIN chain :
        \/ DeleteRecord(i)
        \/ \E what \in Messages, rehash \in BOOLEAN : EditRecord(i, what, rehash)

Record(w) ==
    \/ Begin(w) \/ Commit(w) \/ WriteOrder(w)
    \/ \E m \in Messages : HasMessage(w, m)
    \/ \E to \in Statuses : ReadOrder(w, to)

AuditNext == Stop \/ Serve \/ Alter \/ \E w \in Writers : Record(w)

AuditSpec == AuditInit /\ [][AuditNext]_auditVars

-----------------------------------------------------------------------------
\* Whatever threads write at the same time and wherever they are killed, the
\* chain nobody has altered holds exactly what was committed, in that order, and
\* audit_chain_status passes it.
ChainIsTheRecord ==
    ~altered => /\ [i \in DOMAIN chain |-> chain[i].what] = records
                /\ AuditStatus(chain) = "pass"

\* A record altered or deleted under a later one stays visible to
\* audit_chain_status, whatever the program appends afterwards.
AlterationShows == altered => AuditStatus(chain) = "fail"

\* The status of an order is the target of a recorded transition, or a writer
\* is about to record it: only a stop between the two transactions of
\* update_order_state leaves a status without its audited transition.
StatusExplained ==
    \/ order = NewOrder \/ order \in lost
    \/ \E w \in Writers : Owes(w, order)
    \/ \E from \in Statuses : Transition(from, order) \in Range(records)

\* The chain under concurrent writers, stops and tampering: it is the record of
\* what was committed, an alteration shows, and a status is explained by it.
AuditSound == AuditTypeOK /\ ChainIsTheRecord /\ AlterationShows /\ StatusExplained

\* "OMS transitions ... are chained into a tamper-evident SQLite audit hash
\* chain" (README.md:46).
TransitionsChained == lost = {}
=============================================================================
