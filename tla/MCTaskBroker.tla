---------------------------- MODULE MCTaskBroker ----------------------------
(* Runners and requests for TLC.                                           *)
EXTENDS TaskBroker

CONSTANTS r1, r2, q1, q2

MCRunner  == {r1, r2}
MCRequest == {q1, q2}
OneRunner == {r1}
=============================================================================
