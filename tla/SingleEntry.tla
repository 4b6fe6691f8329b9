---------------------------- MODULE SingleEntry ----------------------------
(***************************************************************************)
(* What the submission of stateful entries promises: the account is held   *)
(* by one client order id at a time, and a client order id that has held   *)
(* it, or has given up, never holds it again.                              *)
(***************************************************************************)
CONSTANT Orders

VARIABLE phase  \* phase[o]: has o yet to hold the account, or is it done?

Init == phase = [o \in Orders |-> "fresh"]

Take(o) ==
    /\ phase[o] = "fresh"
    /\ \A p \in Orders : phase[p] # "held"
    /\ phase' = [phase EXCEPT ![o] = "held"]

GiveUp(o) ==
    /\ phase[o] = "fresh"
    /\ phase' = [phase EXCEPT ![o] = "spent"]

Release(o) ==
    /\ phase[o] = "held"
    /\ phase' = [phase EXCEPT ![o] = "spent"]

Next == \E o \in Orders : Take(o) \/ GiveUp(o) \/ Release(o)

Spec == Init /\ [][Next]_phase
=============================================================================
