--------------------------- MODULE RandomStreams ---------------------------
(***************************************************************************)
(* The two users of the counter layout: the loops of the blocks            *)
(* (PathStreams), and the tool that exports a stretch of the same stream   *)
(* (ExportStream).  They share the layout and no state.                    *)
(***************************************************************************)
EXTENDS PathStreams

CONSTANT Requests  \* what the export tool may be asked for

\* Every option is parsed into an unsigned integer.
ASSUME RequestsAssumption ==
    \A r \in Requests :
        {r.words, r.start, r.step, r.first, r.dimensions, r.draw} \subseteq Nat

VARIABLES request, phase, out

Export == INSTANCE ExportStream WITH Word <- Word32

\* The export tool serves what it accepts, writes no word twice and leaves
\* none out.
ExportCovers == Export!ExportCovers
=============================================================================
