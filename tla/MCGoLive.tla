------------------------------ MODULE MCGoLive ------------------------------
(* The go-live gate with three .env files: live trading locked, fully
   requested, and enabled while EXCHANGE_MODE still names paper. *)
EXTENDS GoLive

LockedProfile == [enable |-> FALSE, keys |-> FALSE, place |-> FALSE, phrase |-> FALSE,
           mode |-> "paper", server |-> TRUE]
Guarded == [enable |-> TRUE, keys |-> TRUE, place |-> TRUE, phrase |-> TRUE,
            mode |-> "live_guarded", server |-> TRUE]
MCProfiles == {LockedProfile, Guarded, [Guarded EXCEPT !.mode = "paper"]}
=============================================================================
