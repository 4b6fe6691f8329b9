---------------------------- MODULE PaperLedger ----------------------------
(***************************************************************************)
(* The paper positions (src/app/server.py): opened by workflows, closed by *)
(* requests, reported by paper_account_state.  A report reads the open     *)
(* positions, the marks and the realized results one after the other, each *)
(* under DB_LOCK; a close reads the position and the marks before it       *)
(* books.  Quantities, leverage and rounding are left out.                 *)
(***************************************************************************)
EXTENDS Integers, FiniteSets, FiniteSetsExt

CONSTANTS
    Positions,    \* positions that may be opened
    Marks,        \* prices a market snapshot may record
    Closers,      \* requests that close a position
    BaseEquity,   \* ACCOUNT_EQUITY_USDT
    NoOne         \* no position

ASSUME PaperAssumption ==
    Marks \subseteq Nat /\ BaseEquity \in Nat /\ NoOne \notin Positions

VARIABLES
    paper,    \* the rows: status, side, entry price, realized result
    mark,     \* the last recorded mark price
    closer,   \* each close request: the position it closes, the result it read
    paperReport,   \* the report under way: its step and what it has read
    before    \* the positions that existed when the report began

paperVars == <<paper, mark, closer, paperReport, before>>

Result(p, price) ==
    IF paper[p].side = "BUY" THEN price - paper[p].entry ELSE paper[p].entry - price

NoRow == [status |-> "none"]
IdleCloser == [position |-> NoOne, result |-> 0]
NoReport == [step |-> "idle", open |-> {}, unrealized |-> 0, closed |-> {}, equity |-> 0]

PaperTypeOK ==
    /\ \A p \in Positions : /\ paper[p].status \in {"none", "open", "closed"}
                            /\ paper[p].status = "open" => paper[p].realized = 0
    /\ mark \in Marks
    /\ \A c \in Closers : closer[c].position \in Positions \cup {NoOne}
    /\ paperReport.step \in {"idle", "marks", "realized", "done"}
    /\ before \subseteq Positions

PaperInit ==
    /\ paper = [p \in Positions |-> NoRow]
    /\ mark \in Marks
    /\ closer = [c \in Closers |-> IdleCloser]
    /\ paperReport = NoReport
    /\ before = {}

InStatus(status) == {p \in Positions : paper[p].status = status}

-----------------------------------------------------------------------------
\* open_paper_position, after a paper order.
OpenPosition(p, side) ==
    /\ paper[p].status = "none"
    /\ paper' = [paper EXCEPT ![p] =
         [status |-> "open", side |-> side, entry |-> mark, realized |-> 0]]
    /\ UNCHANGED <<mark, closer, paperReport, before>>

\* A workflow records a market snapshot.
MarkMoves(price) ==
    /\ price # mark /\ mark' = price
    /\ UNCHANGED <<paper, closer, paperReport, before>>

\* close_paper_position reads an open position and the marks.
StartClose(c, p) ==
    /\ closer[c].position = NoOne /\ paper[p].status = "open"
    /\ closer' = [closer EXCEPT ![c] = [position |-> p, result |-> Result(p, mark)]]
    /\ UNCHANGED <<paper, mark, paperReport, before>>

\* It books the result it has read, whatever has become of the position.
BookClose(c) ==
    /\ closer[c].position # NoOne
    /\ paper' = [paper EXCEPT ![closer[c].position].status = "closed",
                              ![closer[c].position].realized = closer[c].result]
    /\ closer' = [closer EXCEPT ![c] = IdleCloser]
    /\ UNCHANGED <<mark, paperReport, before>>

-----------------------------------------------------------------------------
(* paper_account_state *)

ReadOpen ==
    /\ paperReport.step \in {"idle", "done"}
    /\ paperReport' = [NoReport EXCEPT !.step = "marks", !.open = InStatus("open")]
    /\ before' = InStatus("open") \cup InStatus("closed")
    /\ UNCHANGED <<paper, mark, closer>>

ReadMarks ==
    /\ paperReport.step = "marks"
    /\ paperReport' = [paperReport EXCEPT !.step = "realized",
         !.unrealized = MapThenSumSet(LAMBDA p : Result(p, mark), paperReport.open)]
    /\ UNCHANGED <<paper, mark, closer, before>>

\* Mutant: the realized results are read first and the open positions last.
ReadOpenLast ==
    /\ paperReport.step = "realized"
    /\ paperReport' = [paperReport EXCEPT !.step = "done",
         !.open = InStatus("open"), !.closed = before \ paperReport.open]
    /\ UNCHANGED <<paper, mark, closer, before>>

\* SUM(realized_pnl) of the positions that are closed by now.
ReadRealized ==
    /\ paperReport.step = "realized"
    /\ paperReport' = [paperReport EXCEPT !.step = "done", !.closed = InStatus("closed"),
         !.equity = BaseEquity + paperReport.unrealized
                    + MapThenSumSet(LAMBDA p : paper[p].realized, InStatus("closed"))]
    /\ UNCHANGED <<paper, mark, closer, before>>

PaperNext ==
    \/ \E p \in Positions, side \in {"BUY", "SELL"} : OpenPosition(p, side)
    \/ \E price \in Marks : MarkMoves(price)
    \/ \E c \in Closers : BookClose(c) \/ \E p \in Positions : StartClose(c, p)
    \/ ReadOpen \/ ReadMarks \/ ReadRealized

PaperSpec == PaperInit /\ [][PaperNext]_paperVars

-----------------------------------------------------------------------------
\* A report taken while positions are opened and closed counts every position
\* that existed when it began: the open ones are read first, so that a position
\* closed meanwhile is found among the closed ones.
NothingMissed == paperReport.step = "done" => before \subseteq paperReport.open \cup paperReport.closed

\* Two requests may close one position: both read it open, and the later one
\* overwrites the result the earlier one has reported.  Once no request is left
\* that saw it open, its result is final.
Settled(p) == paper[p].status = "closed" /\ \A c \in Closers : closer[c].position # p
SettledForGood ==
    [][\A p \in Positions : Settled(p) => Settled(p)' /\ paper'[p] = paper[p]]_paperVars

\* Closes that race closes, reports and openings: no position is missed by a
\* report, and a settled result is final.
PaperSound == [](PaperTypeOK /\ NothingMissed) /\ SettledForGood
=============================================================================
