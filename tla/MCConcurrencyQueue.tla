------------------------- MODULE MCConcurrencyQueue -------------------------
(* Five calls under two ids, so that an id can be queued twice, on two     *)
(* slots. A dropped call never comes back, so that the calls run out.      *)
EXTENDS ConcurrencyQueue

CONSTANTS c1, c2, c3, c4, c5, e1, e2

MCCaller == {c1, c2, c3, c4, c5}
MCExecutionId == {e1, e2}
=============================================================================
