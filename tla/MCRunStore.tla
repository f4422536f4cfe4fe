----------------------------- MODULE MCRunStore -----------------------------
(***************************************************************************)
(* TLC instances of RunStore: model values for processes and blocks.       *)
(***************************************************************************)
EXTENDS RunStore

CONSTANTS p1, p2, b1, b2, b3

OneProc == {p1}
TwoProcs == {p1, p2}
TwoBlocks == {b1, b2}
ThreeBlocks == {b1, b2, b3}
NoBlocks == {}
LastBlock == {b2}
=============================================================================
