-------------------------- MODULE MCMultiMainSetup --------------------------
(* Hosts for TLC.                                                          *)
EXTENDS MultiMainSetup

CONSTANTS h1, h2

MCInstance == {h1, h2}
=============================================================================
