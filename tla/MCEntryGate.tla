---------------------------- MODULE MCEntryGate ----------------------------
(* EntryGate for TLC: three client order ids are enough for a crashed run, *)
(* a run with an unknown outcome and the run that retries; one handler     *)
(* with a status it has read before.                                       *)
EXTENDS EntryGate, TLC

CONSTANTS o1, o2, o3, h1

MCOrders == {o1, o2, o3}
MCHandlers == {h1}
\* The handler is at work beside the first two ids; the third finds the rows as
\* it has left them.
EarlyCalls == (\E h \in Handlers : call[h] # NoCall) => Cardinality(used) <= 2

Symmetry == Permutations(MCOrders)
============================================================================
