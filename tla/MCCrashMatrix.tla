--------------------------- MODULE MCCrashMatrix ---------------------------
(***************************************************************************)
(* The TLC instance of CrashMatrix: two cases over two points at a time,   *)
(* each of the nine points in one of the pairs, so that the coverage gate  *)
(* can be passed and can be missed.                                        *)
(***************************************************************************)
EXTENDS CrashMatrix

OneTool == {matrix}
TwoCases == 1 .. 2

PairsOfPoints ==
    {{<<"result", s>>, <<"manifest", s>>} : s \in HookStages}
        \cup {{<<"result", "renamed">>, <<"manifest", "installed">>}}
=============================================================================
