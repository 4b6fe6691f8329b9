-------------------------- MODULE EntryGate_proofs --------------------------
(***************************************************************************)
(* Proofs about EntryGate, for any set of client order ids.                *)
(***************************************************************************)
EXTENDS EntryGate, TLAPS

\* The inductive invariant: exclusion of a second exposure follows from what
\* the gates passed so far have established, which stays true until the POST
\* because only the POST exposes an order that was not exposed.
IInv == TypeOK /\ AtMostOneEntry /\ Established

LEMMA LocalStatusType ==
    ASSUME NEW report \in Reports
    PROVE  /\ LocalStatus(report) \in Statuses \ {"none", "pending_reconcile"}
           /\ report # "EXIT" => report \in VenueStatuses
           /\ LocalStatus(report) # "submitted" => Ends(report)
BY DEF Reports, LocalStatus, Statuses, VenueStatuses, Ends

LEMMA GateSteps ==
    ASSUME NEW gate \in Gates
    PROVE  AfterGate(gate) \in {"openOrders", "positions", "submit"}
BY DEF Gates, AfterGate

\* Every value stays of its type in every reachable state.
LEMMA TypeInit == Init => TypeOK
BY DEF Init, TypeOK, OrdStates, Rows, Row, NoRow, Calls, NoCall, Statuses,
       VenueStatuses, Steps

LEMMA TypeNext == TypeOK /\ [Next]_vars => TypeOK'
<1> SUFFICES ASSUME TypeOK, [Next]_vars PROVE TypeOK'
    OBVIOUS
<1> USE DEF TypeOK, OrdStates, Steps, Reports, venueVars, rowVars
<1>1. CASE \E o \in Orders : LaunchRun(o)
    BY <1>1 DEF LaunchRun
<1>2. CASE \E gate \in Gates : PassGate(gate) \/ GateRaises(gate)
    BY <1>2, GateSteps DEF PassGate, GateRaises
<1>3. CASE Post \/ ArmingRaises \/ Response \/ PostRaises
    BY <1>3 DEF Post, ArmingRaises, Response, PostRaises
<1>4. CASE PersistAccepted \/ PersistUnknown \/ Crash \/ Restart
  <2>1. CASE PersistAccepted
      BY <2>1 DEF PersistAccepted, Rows, Row, Statuses, VenueStatuses, Ends
  <2>2. CASE PersistUnknown
      BY <2>2 DEF PersistUnknown, Rows, Row, Statuses, VenueStatuses
  <2>3. CASE Crash
      BY <2>3 DEF Crash, Calls, NoCall, Statuses, VenueStatuses
  <2>4. CASE Restart
      BY <2>4 DEF Restart
  <2> QED BY <1>4, <2>1, <2>2, <2>3, <2>4
<1>5. CASE \E o \in Orders : Accept(o) \/ Refuse(o) \/ PartialFill(o)
                               \/ Fill(o) \/ Cancel(o) \/ Exit(o)
  <2> PICK o \in Orders : \/ Accept(o) \/ Refuse(o) \/ PartialFill(o)
                          \/ Fill(o) \/ Cancel(o) \/ Exit(o)
      BY <1>5
  <2>1. CASE Accept(o) \/ Refuse(o) \/ Cancel(o)
      BY <2>1 DEF Accept, Refuse, Cancel
  <2>2. CASE PartialFill(o)
      BY <2>2 DEF PartialFill
  <2>4. CASE Exit(o)
    <3>1. pos' \in [Orders -> BOOLEAN]
        BY <2>4 DEF Exit
    <3>2. seen' \in [Orders -> SUBSET Reports]
        BY <2>4 DEF Exit
    <3> QED BY <2>4, <3>1, <3>2 DEF Exit
  <2>3. CASE Fill(o)
      BY <2>3 DEF Fill
  <2> QED BY <2>1, <2>2, <2>3, <2>4
<1>6. CASE \E o \in Orders, report \in Reports : Observe(o, report)
  <2> PICK o \in Orders, report \in Reports : Observe(o, report)
      BY <1>6
  <2>1. Row(LocalStatus(report), IF report = "EXIT" THEN row[o].vs ELSE report) \in Rows
      BY LocalStatusType DEF Row, Rows
  <2>2. settled' \in [Orders -> BOOLEAN]
      BY Zenon DEF Observe, Ends
  <2> QED BY <2>1, <2>2 DEF Observe
<1>8. CASE \E h \in Handlers, o \in Orders : ReadRow(h, o)
    BY <1>8 DEF ReadRow, Calls, Rows, Statuses, VenueStatuses
<1>9. CASE \E h \in Handlers : ReadStatus(h)
  <2> PICK h \in Handlers : ReadStatus(h)
      BY <1>9
  <2>1. call[h].o \in Orders /\ row[call[h].o].st \in Statuses
      BY DEF ReadStatus, Rows
  <2>3. call' = [call EXCEPT ![h] = [step |-> "loaded", o |-> call[h].o,
                                     st |-> row[call[h].o].st, vs |-> call[h].vs]]
      BY DEF ReadStatus
  <2>4. call' \in [Handlers -> Calls]
      BY <2>1, <2>3 DEF Calls
  <2>5. \A g \in Handlers : call'[g].step # "idle" => call'[g].o \in Orders
      BY <2>1, <2>3
  <2> QED BY <2>4, <2>5 DEF ReadStatus
<1>10. CASE \E h \in Handlers : WriteBack(h)
  <2> PICK h \in Handlers : WriteBack(h)
      BY <1>10
  <2>1. call[h].o \in Orders
      BY DEF WriteBack
  <2>2. Row(call[h].st, IF call[h].vs = "none" THEN row[call[h].o].vs ELSE call[h].vs) \in Rows
      BY <2>1 DEF Row, Rows, Calls
  <2>3. row' \in [Orders -> Rows]
      BY <2>1, <2>2 DEF WriteBack
  <2>4. call' \in [Handlers -> Calls] /\ \A g \in Handlers : call'[g] \in {call[g], NoCall}
      BY DEF WriteBack, NoCall, Calls, Statuses, VenueStatuses
  <2> QED BY <2>3, <2>4 DEF WriteBack, NoCall
<1>7. CASE UNCHANGED vars
    BY <1>7 DEF vars
<1> QED BY <1>1, <1>2, <1>3, <1>4, <1>5, <1>6, <1>7, <1>8, <1>9, <1>10 DEF Next

THEOREM TypeCorrect == Spec => []TypeOK
<1>1. Init => TypeOK
    BY TypeInit
<1>2. TypeOK /\ [Next]_vars => TypeOK'
    BY TypeNext
<1> QED BY <1>1, <1>2, PTL DEF Spec

-----------------------------------------------------------------------------

\* The observers and handlers touch the table only.
TableStep ==
    \/ \E o \in Orders, report \in Reports : Observe(o, report)
    \/ \E h \in Handlers, o \in Orders : ReadRow(h, o)
    \/ \E h \in Handlers : ReadStatus(h) \/ WriteBack(h)

LEMMA TableOnly == TableStep => UNCHANGED <<ord, pos, seen, pc, cur, used>>
BY DEF TableStep, Observe, ReadRow, ReadStatus, WriteBack, venueVars

\* A step that exposes no further order keeps the exclusion.
LEMMA NoNewExposure ==
    ASSUME IInv, TypeOK',
           \A o \in Orders : Exposed(o)' => Exposed(o)
    PROVE  AtMostOneEntry'
BY DEF IInv, AtMostOneEntry

LEMMA InvNext == IInv /\ [Next]_vars => IInv'
<1> SUFFICES ASSUME IInv, [Next]_vars PROVE IInv'
    OBVIOUS
<1>0. TypeOK' /\ TypeOK
    BY TypeNext DEF IInv
<1>1. CASE \E o \in Orders : LaunchRun(o)
    BY <1>0, <1>1 DEF IInv, LaunchRun, venueVars, AtMostOneEntry, Exposed,
                      Established
<1>2. ASSUME NEW gate \in Gates, PassGate(gate)
      PROVE  IInv'
  <2>1. AtMostOneEntry'
      BY <1>0, <1>2 DEF IInv, PassGate, venueVars, AtMostOneEntry, Exposed
  <2>2. CASE gate = "conflicts"
      BY <1>0, <1>2, <2>1, <2>2 DEF IInv, PassGate, venueVars, Established,
            Exposed, AfterGate, RecvWindowElapsed
  <2>3. CASE gate = "openOrders"
      BY <1>0, <1>2, <2>1, <2>3 DEF IInv, PassGate, venueVars, Established,
            Exposed, AfterGate, GatePasses
  <2>4. CASE gate = "positions"
      BY <1>0, <1>2, <2>1, <2>4 DEF IInv, PassGate, venueVars, Established,
            Exposed, AfterGate, GatePasses
  <2> QED BY <2>2, <2>3, <2>4 DEF Gates
<1>3. CASE \E gate \in Gates : GateRaises(gate)
    BY <1>0, <1>3 DEF IInv, GateRaises, venueVars, AtMostOneEntry, Exposed,
                      Established
<1>4. CASE Post
  <2>1. \A o \in Orders : ~Exposed(o)
      BY <1>4 DEF IInv, Post, Established
  <2>2. \A o \in Orders : o # cur => ~Exposed(o)'
      BY <1>0, <1>4, <2>1 DEF Post, Exposed, TypeOK
  <2>3. AtMostOneEntry'
      BY <2>2 DEF AtMostOneEntry
  <2>4. Established'
      BY <1>4 DEF Post, Established
  <2> QED BY <1>0, <2>3, <2>4 DEF IInv
<1>5. CASE ArmingRaises \/ Response \/ PostRaises \/ PersistAccepted
             \/ PersistUnknown \/ Crash \/ Restart
    BY <1>0, <1>5 DEF IInv, ArmingRaises, Response, PostRaises, Crash, Restart,
          PersistAccepted, PersistUnknown, venueVars, AtMostOneEntry, Exposed,
          Established
<1>6. ASSUME NEW o \in Orders,
             \/ Accept(o) \/ Refuse(o) \/ PartialFill(o)
             \/ Fill(o) \/ Cancel(o) \/ Exit(o)
      PROVE  IInv'
  <2>1. \A p \in Orders : Exposed(p)' => Exposed(p)
      BY <1>0, <1>6 DEF Accept, Refuse, PartialFill, Fill, Cancel, Exit,
            Exposed, TypeOK
  <2>2. AtMostOneEntry'
      BY <1>0, <2>1, NoNewExposure
  <2>3. pc' = pc
      BY <1>6 DEF Accept, Refuse, PartialFill, Fill, Cancel, Exit
  <2>4. \A p \in Orders : ord'[p] = "inflight" => ord[p] = "inflight"
      BY <1>0, <1>6 DEF Accept, Refuse, PartialFill, Fill, Cancel, Exit, TypeOK
  <2>5. \A p \in Orders : ord'[p] \in {"inflight", "open"}
                            => ord[p] \in {"inflight", "open"}
      BY <1>0, <1>6 DEF Accept, Refuse, PartialFill, Fill, Cancel, Exit, TypeOK
  <2>6. Established'
      BY <2>1, <2>3, <2>4, <2>5 DEF IInv, Established
  <2> QED BY <1>0, <2>2, <2>6 DEF IInv
<1>7. CASE TableStep
    BY <1>0, <1>7, TableOnly DEF IInv, AtMostOneEntry, Exposed, Established
<1>8. CASE UNCHANGED vars
    BY <1>0, <1>8 DEF IInv, vars, AtMostOneEntry, Exposed, Established
<1> QED BY <1>1, <1>2, <1>3, <1>4, <1>5, <1>6, <1>7, <1>8 DEF Next, TableStep

\* Never two exposed entries, whatever crashes, lost answers and stale news.
THEOREM ExclusiveEntry == Spec => []AtMostOneEntry
<1>1. Init => IInv
    BY TypeInit DEF Init, IInv, AtMostOneEntry, Exposed, Established
<1>2. IInv /\ [Next]_vars => IInv'
    BY InvNext
<1>3. IInv => AtMostOneEntry
    BY DEF IInv
<1> QED BY <1>1, <1>2, <1>3, PTL DEF Spec

-----------------------------------------------------------------------------

\* What is known of an order has been told to its row: a finished row, a
\* finished venue status, and what a handler has read of either.  So a row that
\* passes the conflict gate is one of an entry whose end is known.
Finished == {"filled", "canceled", "protected_exit"}
SettledInv ==
    /\ \A o \in Orders :
         row[o].st \in Finished \/ row[o].vs \in {"FILLED", "CANCELED"} => settled[o]
    /\ \A h \in Handlers : call[h].step # "idle" =>
         /\ Recorded(call[h].o)
         /\ call[h].vs \in {"FILLED", "CANCELED"} => settled[call[h].o]
    /\ \A h \in Handlers : call[h].step = "loaded" =>
         /\ call[h].st # "none"
         /\ call[h].st \in Finished => settled[call[h].o]
    /\ AllSettled

\* Steps that touch neither the rows nor what the handlers have read.
LEMMA SettledAside ==
    ASSUME SettledInv, UNCHANGED <<rowVars, call>>,
           pc' \in {"openOrders", "positions", "submit"} =>
             pc \in {"openOrders", "positions", "submit"}
    PROVE  SettledInv'
BY DEF SettledInv, AllSettled, Recorded, rowVars

LEMMA SettledNext == TypeOK /\ SettledInv /\ [Next]_vars => SettledInv'
<1> SUFFICES ASSUME TypeOK, SettledInv, [Next]_vars PROVE SettledInv'
    OBVIOUS
<1>0. TypeOK'
    BY TypeNext
<1>1. CASE \E o \in Orders : LaunchRun(o)
    BY <1>1, SettledAside DEF LaunchRun
<1>2. ASSUME NEW gate \in Gates, PassGate(gate)
      PROVE  SettledInv'
  <2>1. CASE gate = "conflicts"
    <3>1. \A o \in Orders : Recorded(o) => settled[o]
        BY <1>2, <2>1 DEF PassGate, GatePasses, Conflict, MaybeOpen, Recorded, TypeOK,
              SettledInv, Rows, Statuses, Finished
    <3> QED BY <1>2, <3>1 DEF PassGate, SettledInv, AllSettled, Recorded, rowVars
  <2>2. CASE gate # "conflicts"
      BY <1>2, <2>2, SettledAside DEF PassGate, Gates
  <2> QED BY <2>1, <2>2
<1>3. CASE \E gate \in Gates : GateRaises(gate)
    BY <1>3, SettledAside DEF GateRaises
<1>4. CASE Post \/ ArmingRaises \/ Response \/ PostRaises \/ Restart
    BY <1>4, SettledAside DEF Post, ArmingRaises, Response, PostRaises, Restart, rowVars
<1>5. CASE PersistAccepted
  <2> PICK report \in seen[cur] \ {"EXIT"} :
             /\ row' = [row EXCEPT ![cur] = Row("submitted", report)]
             /\ settled' = [settled EXCEPT ![cur] = @ \/ Ends(report)]
      BY <1>5 DEF PersistAccepted
  <2>1. \A p \in Orders : settled[p] => settled'[p]
      BY Zenon DEF TypeOK
  <2>2. Ends(report) => settled'[cur]
      BY Zenon DEF TypeOK
  <2>3. row'[cur] = Row("submitted", report) /\ cur \in Orders
      BY DEF TypeOK
  <2>4. \A p \in Orders : p # cur => row'[p] = row[p]
      BY DEF TypeOK
  <2>5. /\ row'[cur].st \in Finished \/ row'[cur].vs \in {"FILLED", "CANCELED"}
             => settled'[cur]
        /\ row'[cur].st # "none"
      BY <2>2, <2>3 DEF Row, Finished, Ends
  <2>6. \A p \in Orders : Recorded(p) => Recorded(p)'
      BY <2>4, <2>5 DEF Recorded
  <2>7. pc' = "idle" /\ call' = call
      BY <1>5 DEF PersistAccepted
  <2> QED BY <2>1, <2>3, <2>4, <2>5, <2>6, <2>7 DEF SettledInv, AllSettled, TypeOK
<1>6. CASE PersistUnknown
    BY <1>0, <1>6 DEF PersistUnknown, SettledInv, AllSettled, Recorded, Row, Finished,
          TypeOK, Calls
<1>7. CASE Crash
    BY <1>7 DEF Crash, SettledInv, AllSettled, Recorded, NoCall, rowVars
<1>8. CASE \E o \in Orders : Accept(o) \/ Refuse(o) \/ PartialFill(o)
                               \/ Fill(o) \/ Cancel(o) \/ Exit(o)
    BY <1>8, SettledAside DEF Accept, Refuse, PartialFill, Fill, Cancel, Exit
<1>9. CASE \E o \in Orders, report \in Reports : Observe(o, report)
  <2> PICK o \in Orders, report \in Reports : Observe(o, report)
      BY <1>9
  <2>1. \A p \in Orders : settled[p] => settled'[p]
      BY Zenon DEF Observe, TypeOK
  <2>2. Ends(report) => settled'[o]
      BY Zenon DEF Observe, TypeOK
  <2>3. row'[o] = Row(LocalStatus(report), IF report = "EXIT" THEN row[o].vs ELSE report)
      BY DEF Observe, TypeOK
  <2>4. \A p \in Orders : p # o => row'[p] = row[p]
      BY DEF Observe, TypeOK
  <2>5. /\ row'[o].st \in Finished \/ row'[o].vs \in {"FILLED", "CANCELED"} => settled'[o]
        /\ Recorded(o) /\ Recorded(o)'
    <3>1. Recorded(o) /\ LocalStatus(report) # "none"
        BY LocalStatusType DEF Observe
    <3>2. CASE report = "EXIT"
      <4>1. settled'[o] /\ Recorded(o)
          BY <2>2, <3>1, <3>2 DEF Ends
      <4>2. row'[o].st # "none"
          BY <2>3, <3>1 DEF Row
      <4> QED BY <4>1, <4>2 DEF Recorded
    <3>3. CASE report # "EXIT"
      <4>1. row'[o].st = LocalStatus(report) /\ row'[o].vs = report
          BY <2>3, <3>3 DEF Row
      <4>2. row'[o].st \in Finished \/ row'[o].vs \in {"FILLED", "CANCELED"} => Ends(report)
          BY <4>1, LocalStatusType DEF Finished, Ends
      <4> QED BY <2>2, <3>1, <4>1, <4>2 DEF Recorded
    <3> QED BY <3>2, <3>3
  <2>6. \A p \in Orders : Recorded(p)' <=> Recorded(p)
      BY <2>4, <2>5 DEF Recorded
  <2>7. UNCHANGED <<call, pc>>
      BY DEF Observe
  <2> QED BY <2>1, <2>4, <2>5, <2>6, <2>7 DEF SettledInv, AllSettled, TypeOK
<1>10. CASE \E h \in Handlers, o \in Orders : ReadRow(h, o)
    BY <1>0, <1>10 DEF ReadRow, SettledInv, AllSettled, Recorded, TypeOK, rowVars
<1>11. CASE \E h \in Handlers : ReadStatus(h)
    BY <1>0, <1>11 DEF ReadStatus, SettledInv, AllSettled, Recorded, TypeOK, Calls, rowVars
<1>12. CASE \E h \in Handlers : WriteBack(h)
  <2> PICK h \in Handlers : WriteBack(h)
      BY <1>12
  <2> DEFINE o == call[h].o
  <2>1. o \in Orders /\ Recorded(o) /\ call[h].st # "none"
      BY DEF WriteBack, TypeOK, SettledInv
  <2>2. row'[o] = Row(call[h].st, IF call[h].vs = "none" THEN row[o].vs ELSE call[h].vs)
      BY <2>1 DEF WriteBack, TypeOK
  <2>3. \A p \in Orders : p # o => row'[p] = row[p]
      BY <2>1 DEF WriteBack, TypeOK
  <2>4. \A p \in Orders : Recorded(p)' <=> Recorded(p)
      BY <2>1, <2>2, <2>3 DEF Recorded, Row
  <2>5. row'[o].st \in Finished \/ row'[o].vs \in {"FILLED", "CANCELED"} => settled[o]
      BY <2>1, <2>2 DEF Row, SettledInv, WriteBack
  <2>6. UNCHANGED <<settled, pc>> /\ \A g \in Handlers : call'[g] \in {call[g], NoCall}
      BY DEF WriteBack, TypeOK
  <2>7. \A g \in Handlers : call'[g].step # "idle" => call'[g] = call[g]
      BY <2>6 DEF NoCall
  <2> QED BY <2>1, <2>3, <2>4, <2>5, <2>6, <2>7 DEF SettledInv, AllSettled, TypeOK
<1>13. CASE UNCHANGED vars
    BY <1>13, SettledAside DEF vars, rowVars
<1> QED BY <1>1, <1>2, <1>3, <1>4, <1>5, <1>6, <1>7, <1>8, <1>9, <1>10, <1>11, <1>12,
           <1>13 DEF Next

\* Whatever handlers write back behind the conflict gate: no entry is POSTed
\* before the table has been told the end of every other.
THEOREM UnknownBlocksPost == Spec => NoPostWhileUnknown
<1>1. Init => SettledInv
    BY DEF Init, SettledInv, AllSettled, NoRow, Row, NoCall, Recorded, Finished
<1>2. TypeOK /\ SettledInv /\ [Next]_vars => SettledInv'
    BY SettledNext
<1>3. SettledInv =>
        (pc = "submit" /\ pc' = "await" =>
            \A o \in Orders : Recorded(o) => settled[o])
    BY DEF SettledInv, AllSettled
<1> QED BY <1>1, <1>2, <1>3, TypeCorrect, PTL DEF Spec, NoPostWhileUnknown

-----------------------------------------------------------------------------

\* What the refinement needs beside IInv: only a used client order id is ever
\* exposed, and never the one of a run that has not POSTed yet.
RInv ==
    /\ IInv
    /\ \A o \in Orders : Exposed(o) => o \in used
    /\ \A o \in Orders : Trying(o) => o \in used /\ ~Exposed(o)

PhaseOf == [o \in Orders |-> Phase(o)]

\* A step after which every order has the phase it had before is a stutter.
LEMMA SamePhases ==
    ASSUME \A o \in Orders : Phase(o)' = Phase(o)
    PROVE  UNCHANGED PhaseOf
BY DEF PhaseOf

\* A step that changes the phase of one order is a step of SingleEntry.
LEMMA OnePhase ==
    ASSUME NEW o \in Orders,
           \A p \in Orders : p # o => Phase(p)' = Phase(p),
           \/ Phase(o)' = Phase(o)
           \/ Phase(o) = "fresh" /\ Phase(o)' = "spent"
           \/ Phase(o) = "held" /\ Phase(o)' = "spent"
           \/ /\ Phase(o) = "fresh" /\ Phase(o)' = "held"
              /\ \A p \in Orders : Phase(p) # "held"
    PROVE  [Account!Next]_PhaseOf
<1>1. PhaseOf' = [PhaseOf EXCEPT ![o] = Phase(o)']
  BY DEF PhaseOf
<1>2. CASE Phase(o)' = Phase(o)
  BY <1>2, SamePhases
<1>3. CASE Phase(o) = "fresh" /\ Phase(o)' = "spent"
  BY <1>1, <1>3 DEF Account!Next, Account!GiveUp, PhaseOf
<1>4. CASE Phase(o) = "held" /\ Phase(o)' = "spent"
  BY <1>1, <1>4 DEF Account!Next, Account!Release, PhaseOf
<1>5. CASE /\ Phase(o) = "fresh" /\ Phase(o)' = "held"
           /\ \A p \in Orders : Phase(p) # "held"
  BY <1>1, <1>5 DEF Account!Next, Account!Take, PhaseOf
<1> QED BY <1>2, <1>3, <1>4, <1>5

LEMMA RInvNext == RInv /\ [Next]_vars => RInv'
<1> SUFFICES ASSUME RInv, [Next]_vars PROVE RInv'
  OBVIOUS
<1>0. TypeOK /\ TypeOK' /\ IInv'
  BY TypeNext, InvNext DEF RInv, IInv
<1> USE <1>0 DEF RInv, Trying, Exposed, TypeOK
<1>1. CASE \E o \in Orders : LaunchRun(o)
  BY <1>1 DEF LaunchRun, venueVars
<1>2. ASSUME NEW gate \in Gates, PassGate(gate) PROVE RInv'
  BY <1>2, GateSteps DEF Gates, PassGate, venueVars
<1>3. CASE \E gate \in Gates : GateRaises(gate)
  BY <1>3 DEF GateRaises, venueVars
<1>4. CASE Post
  BY <1>4 DEF Post
<1>5. CASE ArmingRaises \/ Response \/ PostRaises \/ PersistAccepted
             \/ PersistUnknown \/ Crash \/ Restart
  BY <1>5 DEF ArmingRaises, Response, PostRaises, PersistAccepted,
              PersistUnknown, Crash, Restart, venueVars
<1>6. ASSUME NEW o \in Orders,
             \/ Accept(o) \/ Refuse(o) \/ PartialFill(o)
             \/ Fill(o) \/ Cancel(o) \/ Exit(o)
      PROVE  RInv'
  BY <1>6 DEF Accept, Refuse, PartialFill, Fill, Cancel, Exit
<1>7. CASE TableStep
  BY <1>7, TableOnly
<1>8. CASE UNCHANGED vars
  BY <1>8 DEF vars
<1> QED BY <1>1, <1>2, <1>3, <1>4, <1>5, <1>6, <1>7, <1>8 DEF Next, TableStep

\* Every step of EntryGate is a step of SingleEntry or a stutter.
LEMMA StepMaps == RInv /\ [Next]_vars => [Account!Next]_PhaseOf
<1> SUFFICES ASSUME RInv, [Next]_vars PROVE [Account!Next]_PhaseOf
  OBVIOUS
<1>0. TypeOK /\ TypeOK'
  BY TypeNext DEF RInv, IInv
<1> USE <1>0 DEF RInv, Trying, Exposed, Phase, TypeOK
<1>1. ASSUME NEW o \in Orders, LaunchRun(o) PROVE [Account!Next]_PhaseOf
  BY <1>1, SamePhases DEF LaunchRun, venueVars
<1>2. ASSUME NEW gate \in Gates, PassGate(gate) PROVE [Account!Next]_PhaseOf
  BY <1>2, GateSteps, SamePhases DEF Gates, PassGate, venueVars
<1>3. ASSUME NEW gate \in Gates, GateRaises(gate) PROVE [Account!Next]_PhaseOf
  <2> PICK o \in Orders : o = cur
    OBVIOUS
  <2>1. \A p \in Orders : p # o => Phase(p)' = Phase(p)
    BY <1>3 DEF GateRaises, venueVars
  <2>2. Phase(o) = "fresh" /\ Phase(o)' = "spent"
    BY <1>3 DEF Gates, GateRaises, venueVars
  <2> QED BY <2>1, <2>2, OnePhase
<1>4. CASE Post
  <2> PICK o \in Orders : o = cur
    OBVIOUS
  <2>1. \A p \in Orders : p # o => Phase(p)' = Phase(p)
    BY <1>4 DEF Post
  <2>2. Phase(o) = "fresh" /\ Phase(o)' = "held"
    BY <1>4 DEF Post
  <2>3. \A p \in Orders : Phase(p) # "held"
    BY <1>4 DEF Post, IInv, Established
  <2> QED BY <2>1, <2>2, <2>3, OnePhase
<1>5. CASE ArmingRaises \/ Crash
  <2> PICK o \in Orders : o = cur
    OBVIOUS
  <2>1. \A p \in Orders : p # o => Phase(p)' = Phase(p)
    BY <1>5 DEF ArmingRaises, Crash, venueVars
  <2>2. \/ Phase(o)' = Phase(o)
        \/ Phase(o) = "fresh" /\ Phase(o)' = "spent"
    BY <1>5 DEF ArmingRaises, Crash, venueVars
  <2> QED BY <2>1, <2>2, OnePhase
<1>6. CASE Response \/ PostRaises \/ PersistAccepted \/ PersistUnknown \/ Restart
  BY <1>6, SamePhases DEF Response, PostRaises, PersistAccepted, PersistUnknown,
                          Restart, venueVars
<1>7. ASSUME NEW o \in Orders,
             \/ Accept(o) \/ Refuse(o) \/ PartialFill(o)
             \/ Fill(o) \/ Cancel(o) \/ Exit(o)
      PROVE  [Account!Next]_PhaseOf
  <2>1. \A p \in Orders : p # o => Phase(p)' = Phase(p)
    BY <1>7 DEF Accept, Refuse, PartialFill, Fill, Cancel, Exit
  <2>2. Phase(o) = "held" /\ Phase(o)' \in {"held", "spent"}
    BY <1>7 DEF Accept, Refuse, PartialFill, Fill, Cancel, Exit
  <2> QED BY <2>1, <2>2, OnePhase
<1>8. CASE TableStep
  BY <1>8, TableOnly, SamePhases
<1>9. CASE UNCHANGED vars
  BY <1>9, SamePhases DEF vars
<1> QED BY <1>1, <1>2, <1>3, <1>4, <1>5, <1>6, <1>7, <1>8, <1>9 DEF Next, TableStep

\* EntryGate implements SingleEntry, for any set of client order ids.
THEOREM Refinement == Spec => HeldByOne
<1>1. Init => RInv
  BY TypeInit DEF Init, RInv, IInv, AtMostOneEntry, Exposed, Established, Trying
<1>2. Init => Account!Init
  BY DEF Init, Account!Init, Phase, Exposed
<1>3. RInv /\ [Next]_vars => RInv'
  BY RInvNext
<1>4. RInv /\ [Next]_vars => [Account!Next]_PhaseOf
  BY StepMaps
<1> QED BY <1>1, <1>2, <1>3, <1>4, PTL DEF Spec, HeldByOne, Account!Spec, PhaseOf

=============================================================================
