---------------------------- MODULE ExportStream ----------------------------
(***************************************************************************)
(* tools/export_rng_stream.cpp: a stretch of the random stream, scenario   *)
(* by scenario with some dimensions interleaved, written word by word.  A  *)
(* word is known by the counter it is computed from.                       *)
(***************************************************************************)
EXTENDS RngLayout, Sequences

CONSTANT Requests  \* words, start, step, first, dimensions, draw

VARIABLES
    request,
    phase,  \* "check", "emit", "done", "refused" (exit 1) or "threw"
    out     \* counters of the words written

vars == <<request, phase, out>>

-----------------------------------------------------------------------------

\* parse_u32_field's limits.
Parses(r) ==
    /\ r.step <= kMax24BitValue /\ r.draw <= kMax24BitValue
    /\ r.first < Byte /\ r.dimensions <= Byte

Accepted(r) ==
    /\ r.words # 0
    /\ r.dimensions # 0 /\ r.first <= Byte - r.dimensions
    /\ r.start < kMaxScenarios
    /\ 1 + (r.words - 1) \div r.dimensions <= kMaxScenarios - r.start

\* Fault: the scenario moves on with every word.
ScenarioPerWord(r, index) == r.start + index

ScenarioAt(r, index) == r.start + index \div r.dimensions
DimensionAt(r, index) == r.first + (index % r.dimensions)

Init ==
    /\ request \in Requests
    /\ phase = "check"
    /\ out = <<>>

Check ==
    /\ phase = "check"
    /\ phase' = IF Parses(request) /\ Accepted(request) THEN "emit" ELSE "refused"
    /\ UNCHANGED <<request, out>>

Emit ==
    LET s == ScenarioAt(request, Len(out))
        d == DimensionAt(request, Len(out)) IN
    /\ phase = "emit" /\ Len(out) < request.words
    /\ IF InFields(s, request.step, d, request.draw)
         THEN /\ out' = Append(out, pack_counter_v1(s, request.step, d, request.draw))
              /\ UNCHANGED phase
         ELSE phase' = "threw" /\ UNCHANGED out
    /\ UNCHANGED request

\* Whether a write failed is asked once, after the last word.
Finish ==
    /\ phase = "emit" /\ Len(out) = request.words
    /\ phase' \in {"done", "refused"}
    /\ UNCHANGED <<request, out>>

Next == Check \/ Emit \/ Finish

Spec == Init /\ [][Next]_vars

-----------------------------------------------------------------------------

\* The tool's own range checks leave nothing for pack_counter_v1 to throw about,
\* at the last scenario too, and no word is written twice or left out: the loop
\* visits every dimension of a scenario before the next scenario.
ExportCovers ==
    /\ phase # "threw"
    /\ \A i, j \in 1 .. Len(out) : i # j => out[i] # out[j]
    /\ phase = "done" =>
        \A k \in 0 .. request.words - 1 :
            \E s \in request.start .. kMaxScenarios - 1, d \in 0 .. request.dimensions - 1 :
                /\ (s - request.start) * request.dimensions + d = k
                /\ out[k + 1] = pack_counter_v1(s, request.step, request.first + d,
                                                request.draw)
=============================================================================
