------------------------------ MODULE MCEngine ------------------------------
(***************************************************************************)
(* TLC instances of Engine.                                                *)
(***************************************************************************)
EXTENDS Engine

CONSTANTS b1, b2, b3, b4

ThreePending == <<b1, b2, b3>>
FourPending == <<b1, b2, b3, b4>>
=============================================================================
