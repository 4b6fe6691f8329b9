------------------------------ MODULE MCRecords ------------------------------
(***************************************************************************)
(* The components that share no state with one another, in one run: focus  *)
(* names the one that moves, the others rest in their initial states.      *)
(***************************************************************************)
EXTENDS StateStore, PaperLedger, Backtest, AuthLimiter, WalkForward, AccountView, Flatten,
        OrderTerms, MCGoLive, EnvProfile

\* WalkForward: every length fetch_klines can return, the warmups of the grid.
MCLengths == 160..1000
MCWarmups == {18, 21, 24, 30, 36, 48, 60}

\* Flatten: a short of three and a long of two, steps of two.
MCHeld == {-3, 2}

MCPrices == {45, 833, 840, 10003}
MCAiIntents ==
    {[side |-> s, entry |-> 2513, stop |-> 2513 - d * k, take |-> 2513 + d * r,
      pct |-> 5, leverage |-> l] :
        s \in {"BUY", "SELL"}, d \in {-1, 1}, k \in {4, 31}, r \in {33}, l \in {15, 30, 40}}

(* deploy/server.env.example with its secrets filled in, and the live profile
   of scripts/export_live_env_pack.py filled in. *)
MCServerEnv ==
    [appEnv |-> "server", mode |-> "paper", live |-> "false", place |-> "false",
     liveKeys |-> "none", phrase |-> FALSE, testnet |-> "false", testnetKeys |-> "none",
     password |-> "strong", bind |-> "private", safety |-> "true", alert |-> "none",
     caps |-> TRUE, operator |-> "backed"]

MCLiveEnv ==
    [MCServerEnv EXCEPT !.mode = "live_guarded", !.live = "true", !.place = "true",
       !.liveKeys = "set", !.phrase = TRUE, !.testnet = "true", !.testnetKeys = "set",
       !.alert = "set"]

MCTemplates == {MCServerEnv, MCLiveEnv}

VARIABLE focus

Rest(component, v, value) == focus # component => v = value

RecordsInit ==
    /\ focus \in {"store", "paper", "backtest", "auth", "walk", "terms", "golive", "env", "sync",
                 "flatten"}
    /\ StoreInit /\ AuthInit
    /\ PaperInit /\ Rest("paper", mark, CHOOSE m \in Marks : TRUE)
    /\ BacktestInit /\ Rest("backtest", signalType, "momentum")
    /\ GoLiveInit /\ Rest("golive", profile, LockedProfile)
    /\ EnvInit /\ Rest("env", envFile, MCServerEnv)
    /\ FlattenInit /\ Rest("flatten", legs, [s \in {"BOTH"} |-> 2])
    /\ AccountInit /\ (focus # "sync" => ~holdings.held /\ ~holdings.orders)
    /\ TermsInit
    /\ focus # "terms" =>
         /\ mode = "paper" /\ recorded = CHOOSE r \in Records : TRUE
         /\ market = [price |-> CHOOSE p \in Prices : TRUE,
                      volatility |-> CHOOSE v \in Volatilities : TRUE,
                      score |-> "HOLD", high |-> FALSE, fresh |-> TRUE]
         /\ account = [equity |-> CHOOSE e \in Equities : TRUE, free |-> CHOOSE f \in Frees : TRUE,
                       fresh |-> TRUE]
         /\ cap = (CHOOSE c \in Caps : TRUE)
         /\ rules = [tick |-> CHOOSE t \in Ticks : TRUE, step |-> CHOOSE s \in Steps : TRUE]
    /\ (focus # "walk" => candles = 160) /\ WalkInit

store == <<auditVars, storeVars>>

RecordsNext ==
    /\ UNCHANGED focus
    /\ \/ focus = "store" /\ StoreNext
          /\ UNCHANGED <<paperVars, backtestVars, authVars, termVars, goLiveVars, envVars, walkVars, accountVars, flattenVars>>
       \/ focus = "paper" /\ PaperNext
          /\ UNCHANGED <<store, backtestVars, authVars, termVars, goLiveVars, envVars, walkVars, accountVars, flattenVars>>
       \/ focus = "backtest" /\ BacktestNext
          /\ UNCHANGED <<store, paperVars, authVars, termVars, goLiveVars, envVars, walkVars, accountVars, flattenVars>>
       \/ focus = "auth" /\ AuthNext
          /\ UNCHANGED <<store, paperVars, backtestVars, termVars, goLiveVars, envVars, walkVars, accountVars, flattenVars>>
       \/ focus = "terms" /\ TermsNext
          /\ UNCHANGED <<store, paperVars, backtestVars, authVars, goLiveVars, envVars, walkVars, accountVars, flattenVars>>
       \/ focus = "golive" /\ GoLiveNext
          /\ UNCHANGED <<store, paperVars, backtestVars, authVars, termVars, envVars, walkVars, accountVars, flattenVars>>
       \/ focus = "env" /\ EnvNext
          /\ UNCHANGED <<store, paperVars, backtestVars, authVars, termVars, goLiveVars, walkVars, accountVars, flattenVars>>
       \/ focus = "walk" /\ WalkNext
          /\ UNCHANGED <<store, paperVars, backtestVars, authVars, termVars, goLiveVars, envVars, accountVars, flattenVars>>
       \/ focus = "sync" /\ AccountNext
          /\ UNCHANGED <<store, paperVars, backtestVars, authVars, termVars, goLiveVars, envVars, walkVars, flattenVars>>
       \/ focus = "flatten" /\ FlattenNext
          /\ UNCHANGED <<store, paperVars, backtestVars, authVars, termVars, goLiveVars, envVars, walkVars, accountVars>>

RecordsSpec ==
    RecordsInit /\ [][RecordsNext]_<<focus, store, paperVars, backtestVars, authVars, termVars,
                                     goLiveVars, envVars, walkVars, accountVars, flattenVars>>
==============================================================================
