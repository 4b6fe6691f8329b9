------------------------------- MODULE MCOms -------------------------------
(* Oms for TLC: one HTTP thread beside the workflow and the consumer. *)
EXTENDS Oms

CONSTANT h1

MCHttp == {h1}
NoHttp == {}
NoRequests == {}
AllRequests == {"reconcile", "cancel", "panic"}
PanicOnly == {"panic"}
NoExpiry == {}
AnyFault == FaultKinds
OneFault == {[calls |-> 0, faults |-> 1]}
TwoFaults == {[calls |-> 0, faults |-> 2]}
CallOrFaults == {[calls |-> 1, faults |-> 0], [calls |-> 0, faults |-> 2]}
CallAndFault == {[calls |-> 1, faults |-> 1]}
BothExpiries == {"EXPIRED", "EXPIRED_IN_MATCH"}
============================================================================
