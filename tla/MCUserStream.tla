---------------------------- MODULE MCUserStream ----------------------------
(* UserStream for TLC: three handlers that may be asked anything.           *)
EXTENDS UserStream

CONSTANTS h1, h2, h3, none

OneHandler == {h1}
AllHandlers == {h1, h2, h3}
StartTwice == [h \in OneHandler |-> {"start"}]
AllRequests == [h \in AllHandlers |-> RequestKinds]
=============================================================================
