----------------------------- MODULE AccountView -----------------------------
(***************************************************************************)
(* What the server knows of its account at the exchange                    *)
(* (src/app/server.py): the recovery sync (recover_exchange_state), which  *)
(* any request thread, the drill or the start may run at the same time,    *)
(* the account events of the private stream, and what the go-live gate     *)
(* takes from both.                                                        *)
(***************************************************************************)
EXTENDS Naturals, Sequences

CONSTANTS
    Recoveries,    \* threads that run a recovery
    Wallets,       \* wallet balances
    Cap,           \* LIVE_PILOT_MAX_WALLET_USDT
    MaxMoves,      \* bound on the changes at the exchange
    MaxRecoveries  \* bound on the recoveries begun

ASSUME AccountAssumption ==
    /\ Wallets \subseteq Nat \ {0} /\ Wallets # {} /\ Cap \in Nat \ {0}
    /\ MaxMoves \in Nat /\ MaxRecoveries \in Nat

VARIABLES
    holdings,   \* at the exchange: wallet, open position or not, open orders or not
    updates,    \* ACCOUNT_UPDATE events on their way
    snapshot,   \* the newest live row: its wallet and positions, who wrote it
    sync,       \* sync[r]: where recovery r is, and what it has gathered
    syncReport, \* exchange_recovery_last_report
    moves, begun

accountVars == <<holdings, updates, snapshot, sync, syncReport, moves, begun>>

NoSnapshot == [wallet |-> 0, held |-> FALSE, by |-> "nobody", truth |-> 0]
NoSync == [at |-> "rest", errors |-> FALSE, positions |-> "missing", orders |-> "missing",
           wallet |-> 0, was |-> {}]
NothingReported == [errors |-> FALSE, positions |-> "missing", orders |-> "missing", was |-> {}]

AccountInit ==
    /\ holdings \in [wallet : Wallets, held : BOOLEAN, orders : BOOLEAN]
    /\ updates = <<>>
    /\ snapshot = NoSnapshot
    /\ sync = [r \in Recoveries |-> NoSync]
    /\ syncReport = NothingReported
    /\ moves = 0 /\ begun = 0

Local == <<snapshot, syncReport, begun>>
Exchange == <<holdings, updates, moves>>

-----------------------------------------------------------------------------
(* The exchange (external). *)

\* What is true of the account: "flat" without a position, "clear" without orders.
Facts(a) == {f \in {"flat", "clear"} : IF f = "flat" THEN ~a.held ELSE ~a.orders}

\* An update carries what has changed: the USDT balance, a position, or both.
AccountMoves ==
    /\ moves < MaxMoves /\ moves' = moves + 1
    /\ holdings' \in [wallet : Wallets, held : BOOLEAN, orders : BOOLEAN]
    /\ holdings' # holdings
    /\ updates' = IF [holdings' EXCEPT !.orders = FALSE] = [holdings EXCEPT !.orders = FALSE]
                  THEN updates
                  ELSE Append(updates, [usdt |-> holdings'.wallet # holdings.wallet,
                                        wallet |-> holdings'.wallet,
                                        held |-> holdings'.held /\ ~holdings.held])
    /\ sync' = [r \in Recoveries |->
                  IF sync[r].at = "rest" THEN sync[r]
                  ELSE [sync[r] EXCEPT !.was = @ \cup Facts(holdings')]]
    /\ UNCHANGED Local

UpdateLost ==
    /\ updates # <<>> /\ updates' = Tail(updates)
    /\ UNCHANGED <<holdings, moves, sync, Local>>

-----------------------------------------------------------------------------
(* handle_private_account_update: the event becomes a whole snapshot; a     *)
(* balance it does not carry is 0, a position it does not carry is none.    *)

SaveUpdate ==
    /\ updates # <<>> /\ updates' = Tail(updates)
    /\ LET u == Head(updates)
       IN  snapshot' = [wallet |-> IF u.usdt THEN u.wallet ELSE 0, held |-> u.held,
                        by |-> "stream", truth |-> u.wallet]
    /\ UNCHANGED <<holdings, moves, sync, syncReport, begun>>

-----------------------------------------------------------------------------
(* recover_exchange_state: no lock is held across its steps. *)

At(r, place) == sync[r].at = place
Becomes(r, s) == sync' = [sync EXCEPT ![r] = s]

\* reconcile_recent_orders; its failure is an error of the report.
BeginRecovery(r) ==
    /\ At(r, "rest") /\ begun < MaxRecoveries /\ begun' = begun + 1
    /\ \E failed \in BOOLEAN :
          Becomes(r, [NoSync EXCEPT !.at = "account", !.errors = failed, !.was = Facts(holdings)])
    /\ UNCHANGED <<Exchange, snapshot, syncReport>>

\* Mutant: without an answer the newest row is used.
FetchOrReuse(r) ==
    /\ At(r, "account")
    /\ \/ Becomes(r, [sync[r] EXCEPT !.at = "save", !.wallet = holdings.wallet,
                          !.positions = IF holdings.held THEN "open" ELSE "none"])
       \/ Becomes(r, [sync[r] EXCEPT !.at = "orders",
                          !.positions = IF snapshot.by = "nobody" THEN "missing"
                                        ELSE IF snapshot.held THEN "open" ELSE "none"])
    /\ UNCHANGED <<Exchange, Local>>

\* fetch_binance_account_snapshot answers, or both endpoints fail: a warning.
FetchAccount(r) ==
    /\ At(r, "account")
    /\ \/ Becomes(r, [sync[r] EXCEPT !.at = "save", !.wallet = holdings.wallet,
                          !.positions = IF holdings.held THEN "open" ELSE "none"])
       \/ Becomes(r, [sync[r] EXCEPT !.at = "orders"])
    /\ UNCHANGED <<Exchange, Local>>

\* save_exchange_account_snapshot, stamped now.
SaveSnapshot(r) ==
    /\ At(r, "save")
    /\ snapshot' = [wallet |-> sync[r].wallet, held |-> sync[r].positions = "open",
                    by |-> "recovery", truth |-> sync[r].wallet]
    /\ Becomes(r, [sync[r] EXCEPT !.at = "orders"])
    /\ UNCHANGED <<Exchange, syncReport, begun>>

\* binance_open_orders_snapshot.
FetchOrders(r) ==
    /\ At(r, "orders")
    /\ \/ Becomes(r, [sync[r] EXCEPT !.at = "write",
                          !.orders = IF holdings.orders THEN "open" ELSE "none"])
       \/ Becomes(r, [sync[r] EXCEPT !.at = "write"])
    /\ UNCHANGED <<Exchange, Local>>

\* The last recovery to end has the last word, whichever began first.
WriteReport(r) ==
    /\ At(r, "write")
    /\ syncReport' = [errors |-> sync[r].errors, positions |-> sync[r].positions,
                      orders |-> sync[r].orders, was |-> sync[r].was]
    /\ Becomes(r, NoSync)
    /\ UNCHANGED <<Exchange, snapshot, begun>>

RecoveryStep(r) == FetchAccount(r) \/ SaveSnapshot(r) \/ FetchOrders(r) \/ WriteReport(r)

AccountNext ==
    \/ AccountMoves \/ UpdateLost \/ SaveUpdate
    \/ \E r \in Recoveries : BeginRecovery(r) \/ RecoveryStep(r)

AccountSpec == AccountInit /\ [][AccountNext]_accountVars

-----------------------------------------------------------------------------
(* The go-live gate, live requested. *)

\* exchange_recovery, exchange_open_orders, exchange_open_positions.
RecoveryGates == ~syncReport.errors /\ syncReport.positions = "none" /\ syncReport.orders = "none"

\* latest_exchange_account_snapshot, live_pilot_capital.
CapitalGate == snapshot.by # "nobody" /\ snapshot.wallet <= Cap

\* Whatever the stream has saved, whichever request failed and however
\* recoveries overlap: when the gates on open orders and on positions pass, the
\* account has been without a position, and without an order, at a moment after
\* the recovery that wrote the report had begun.
GatesSawTheAccount == RecoveryGates => {"flat", "clear"} \subseteq syncReport.was

-----------------------------------------------------------------------------
(* What the code does not give. *)

\* The capital gate passes only on a wallet that was within the cap when the
\* snapshot's data were produced.
CapJudgedTruly == CapitalGate => snapshot.truth <= Cap
=============================================================================
