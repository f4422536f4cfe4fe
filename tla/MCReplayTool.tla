---------------------------- MODULE MCReplayTool ----------------------------
(***************************************************************************)
(* The TLC instance of ReplayTool.                                         *)
(***************************************************************************)
EXTENDS ReplayTool, TLC

CONSTANTS t1, t2

TwoReplays == {t1, t2}
AllTools == {origin, t1, t2}
Places == {home, target}

\* Boundaries of a manifest, for replays that disturb each other: its first and
\* last, and the one at which a child that gets stuck leaves a manifest behind.
SomeSchedules ==
    {c \in RunConfig : c.n = 2 /\ c.interval = 1 /\ c.workers = 1
        /\ <<c.point, c.occurrence>> \in
                {<<<<"manifest", "written">>, 1>>, <<<<"manifest", "written">>, 2>>,
                 <<<<"manifest", "renamed">>, 1>>,
                 <<<<"manifest", "installed">>, 1>>}}

\* Every schedule of a run of three blocks, with a checkpoint after each block,
\* after two, or at the automatic cadence, with one worker or two.
EverySchedule ==
    {c \in RunConfig : c.n = 3 /\ c.interval \in {0, 1, 2} /\ c.point # None
                       /\ c.occurrence \in {0, 1, 2}}

AllSchedules == SomeSchedules \cup EverySchedule

ReplaySymmetry == Permutations(TwoReplays)
=============================================================================
