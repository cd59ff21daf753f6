--------------------------- MODULE MCRegularMode ---------------------------
(* Two executions that compete for one slot; a third run is there for one  *)
(* of them to be resumed with.                                             *)
EXTENDS RegularMode

CONSTANTS e1, e2, r1, r2, r3

MCExecution == {e1, e2}
MCFirst == {e1}
MCSecond == {e2}
MCNone == {}
MCTwoRuns == {r1, r2}
MCThreeRuns == {r1, r2, r3}
=============================================================================
