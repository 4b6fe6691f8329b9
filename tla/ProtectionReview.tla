-------------------------- MODULE ProtectionReview --------------------------
(***************************************************************************)
(* The review of a live pilot (live_pilot_postflight_status) while the     *)
(* orders of Oms move: a reader that takes no lock across its queries      *)
(* reads the run, the rows' reconcile marks, the entry and its children    *)
(* one after the other, and judges from what it has read.                  *)
(***************************************************************************)
EXTENDS Oms

VARIABLE review  \* where it is, and what it has read

reviewVars == <<vars, review>>

NotReviewing == [at |-> "run", run |-> "running", clean |-> FALSE, entry |-> "none"]

-----------------------------------------------------------------------------
(* live_pilot_protection_chain_status. *)

Protections == {"SL", "TP"}
ActiveChild(c) == row[c].st \in {"submitted", "pending_reconcile"}
AwaitsNews(c) == row[c].rec = "needs_reconcile" \/ row[c].vs \in {"UNKNOWN", "none"}

\* Mutant: a child that still awaits news of the exchange is no warning.
ChainWithoutNews(entry) ==
    IF entry = "none" THEN "warn"
    ELSE IF \/ \E c \in Protections : ~Exists(c)
            \/ entry \in {"submitted", "filled", "pending_reconcile"}
               /\ ~\E c \in Protections : ActiveChild(c) THEN "fail"
    ELSE IF entry = "protected_exit" /\ ~\E c \in Protections : row[c].st = "filled" THEN "warn"
    ELSE "pass"

\* The verdict on an entry whose status was read as entry and on the children
\* as they are; the rows' order of creation leaves no child without a parent.
Chain(entry) ==
    IF entry = "none" THEN "warn"
    ELSE IF \/ \E c \in Protections : ~Exists(c)
            \/ entry \in {"submitted", "filled", "pending_reconcile"}
               /\ ~\E c \in Protections : ActiveChild(c) THEN "fail"
    ELSE IF \/ entry = "protected_exit" /\ ~\E c \in Protections : row[c].st = "filled"
            \/ \E c \in Protections : AwaitsNews(c) THEN "warn"
    ELSE "pass"

-----------------------------------------------------------------------------
(* live_pilot_postflight_status. *)

\* get_run or get_latest_run_by_mode.
ReviewRun ==
    /\ review.at = "run"
    /\ review' = [review EXCEPT !.at = "rows", !.run = outcome]
    /\ UNCHANGED vars

\* oms_summary: no row needs a reconcile and none is unknown at the venue.
Clean == \A o \in Orders : row[o].rec # "needs_reconcile" /\ row[o].vs # "UNKNOWN"

ReviewRows ==
    /\ review.at = "rows"
    /\ review' = [review EXCEPT !.at = "entry", !.clean = Clean]
    /\ UNCHANGED vars

ReviewEntry ==
    /\ review.at = "entry"
    /\ review' = [review EXCEPT !.at = "children", !.entry = row["entry"].st]
    /\ UNCHANGED vars

ReviewAnswers == review.at = "children" /\ review' = NotReviewing /\ UNCHANGED vars

\* The postflight's own verdict when the children are read now and the checks
\* that other components answer for (alerts, audit chain, arming, snapshot,
\* readiness) find nothing.
Postflight ==
    IF review.run = "guarded" \/ ~review.clean \/ Chain(review.entry) = "fail" THEN "fail"
    ELSE IF review.run = "completed" /\ Chain(review.entry) = "pass" THEN "pass"
    ELSE "warn"

ReviewInit == Init /\ review = NotReviewing

ReviewNext ==
    \/ Next /\ UNCHANGED review
    \/ ReviewRun \/ ReviewRows \/ ReviewEntry \/ ReviewAnswers

ReviewSpec == ReviewInit /\ [][ReviewNext]_reviewVars

-----------------------------------------------------------------------------
\* However much the rows change between the review's queries, and whatever news
\* was lost, a chain that passes is settled: neither protection is open at the
\* exchange.  It does not say that the entry is finished: the mark of a child
\* may be newer than its status, and with both children expired before the
\* entry filled such a chain passes while the entry still works.
ChainPassIsClosed ==
    review.at = "children" /\ Chain(review.entry) = "pass" =>
        \A c \in Protections : venue[c].st \in Terminal

\* A completed pilot whose review finds no failure ("ok") has left no
\* protection order behind at the exchange, although the run, the marks and
\* the chain are read one after the other while other threads write.
ReviewOkIsSettled ==
    review.at = "children" /\ review.run = "completed" /\ Postflight # "fail" =>
        \A c \in Protections : venue[c].st \notin Open

\* The review's good news is true at the exchange, although it is put together
\* from rows read at different moments.
ReviewIsTrue == ChainPassIsClosed /\ ReviewOkIsSettled

-----------------------------------------------------------------------------
\* What scripts/check_live_postflight_protection_chain.py expects ("complete
\* stop-loss/take-profit chain should pass") and the code does not give: its
\* rows are synthetic, marked reconciled while submitted.
WorkingChainPasses ==
    /\ review.at = "children" /\ review.entry = row["entry"].st
    /\ row["entry"].st \in {"submitted", "filled"}
    /\ \A c \in Protections : row[c].st = "submitted" /\ venue[c].st \in Open
    /\ Quiet
    => Chain(review.entry) = "pass"
=============================================================================
