----------------------------- MODULE ReplayTool -----------------------------
(***************************************************************************)
(* replay_failure (tools/replay_failure.cpp): evidence left by an injected *)
(* run is replayed by a fresh child in an empty directory, and accepted as *)
(* reproduced only if the new evidence says the same.                      *)
(*                                                                         *)
(* The original run is supervised by a tool of its own.  Its directory may *)
(* be fresh, or hold what an earlier run left when it was killed.  Several *)
(* replay tools may be started on one target directory.                    *)
(***************************************************************************)
EXTENDS Watchdog

CONSTANTS
    origin,   \* the tool that supervises the original run
    Replays,  \* replay tools
    home,     \* the run directory of the original run
    target,   \* --run-dir of the replays
    Configs,  \* configurations of the original run
    Contested \* bound: the ones whose evidence several tools may replay

ASSUME ReplayAssumption == origin \notin Replays /\ Tools = Replays \cup {origin}
ASSUME PlacesAssumption == home # target /\ Dirs = {home, target} /\ Paths = Dirs
ASSUME ConfigsAssumption == Contested \subseteq Configs /\ Configs \subseteq RunConfig

\* What a replay tool can conclude.
Verdicts == {"refused", "timeout", "missed", "unreadable", "reproduced", "mismatch"}

ASSUME VerdictsAssumption == None \notin Verdicts

VARIABLES
    config,    \* configuration of the original run
    resumed,   \* the original run found an earlier run in its directory
    phase,     \* where each tool is
    verdict,   \* what each replay tool has concluded
    crashSite  \* history: the directory as it was when a child left evidence

replayVars == <<config, resumed, phase, verdict, crashSite>>
vars == <<childVars, watchdogVars, replayVars>>

-----------------------------------------------------------------------------

Init ==
    /\ ChildInit /\ WatchdogInit
    /\ config \in Configs
    /\ resumed = FALSE
    /\ phase = [t \in Tools |-> "start"]
    /\ verdict = [t \in Tools |-> None]
    /\ crashSite = [t \in Tools |-> EmptyStore]

Goto(t, p) == phase' = [phase EXCEPT ![t] = p]

\* An earlier run of the same configuration, without injection.
StartEarlier ==
    /\ phase[origin] = "start"
    /\ Fork(origin, Spawned("inject", [config EXCEPT !.point = None], home, home))
    /\ Goto(origin, "earlier")
    /\ resumed' = TRUE
    /\ UNCHANGED <<store, lock, evidence, synced, litter, errors,
                   config, verdict, crashSite>>

StartOriginal ==
    /\ \/ phase[origin] = "start"
       \/ phase[origin] = "earlier" /\ wait[origin] \in {"exited", "failed"}
    /\ Fork(origin, Spawned("inject", config, home, home))
    /\ Goto(origin, "original")
    /\ UNCHANGED <<store, lock, evidence, synced, litter, errors,
                   config, resumed, verdict, crashSite>>

\* The supervisor of the original run returns; the evidence is kept.
EndOriginal ==
    /\ phase[origin] = "original" /\ wait[origin] \in {"exited", "failed"}
    /\ Goto(origin, "ended")
    /\ UNCHANGED <<childVars, watchdogVars, config, resumed, verdict, crashSite>>

\* read_replay_descriptor, where the bytes are intact: the policy checks.
Readable(d) ==
    /\ d # NoEvidence
    /\ d.workers = 1 /\ d.interval # 0 /\ d.occurrence # 0

\* require_empty_target.  What open() creates first, the lock file and the
\* subdirectories, is in the directory from the first open() on.
EmptyTarget ==
    /\ store[target] = EmptyStore
    /\ \A o \in Replays :
        child[o].state # "none" => child[o].pc \in {"construct", "open"}

\* The configuration a replay child rebuilds from the descriptor.
Rebuilt(d) ==
    [n |-> d.n, interval |-> d.interval, workers |-> d.workers,
     point |-> d.point, occurrence |-> d.occurrence]

\* The checks of main() before it forks; the build is always the same one.
StartReplay(t) ==
    /\ phase[t] = "start" /\ phase[origin] = "ended"
    /\ config \in Contested \/ \A o \in Replays : phase[o] = "start"
    /\ IF EmptyTarget /\ Readable(evidence[home]) /\ evidence[target] = NoEvidence
         THEN /\ Fork(t, Spawned("replay", Rebuilt(evidence[home]), target, target))
              /\ Goto(t, "replaying")
              /\ UNCHANGED verdict
         ELSE /\ Goto(t, "ended")
              /\ verdict' = [verdict EXCEPT ![t] = "refused"]
              /\ UNCHANGED <<child, watchdogVars>>
    /\ UNCHANGED <<store, lock, evidence, synced, litter, errors,
                   config, resumed, crashSite>>

\* Fault: the schedule is compared, and not what happened.
SameSchedule(a, b) == a.point = b.point /\ a.occurrence = b.occurrence

\* same_replay: the policy, the schedule, the trace and the crash context,
\* which is the end of the trace.
same_replay(a, b) == a = b

\* The verdict of main().
Judge(t) ==
    /\ phase[t] = "replaying" /\ wait[t] \in {"exited", "failed"}
    /\ Goto(t, "ended")
    /\ verdict' = [verdict EXCEPT ![t] =
            IF wait[t] = "failed" THEN "timeout"
            ELSE IF child[t].code # Injected THEN "missed"
            ELSE IF ~Readable(evidence[target]) THEN "unreadable"
            ELSE IF same_replay(evidence[target], evidence[home])
              THEN "reproduced" ELSE "mismatch"]
    /\ UNCHANGED <<childVars, watchdogVars, config, resumed, crashSite>>

\* A descriptor gets its name: this is the directory that it speaks of.
NoteSite(t) ==
    crashSite' = IF evidence' # evidence
                   THEN [crashSite EXCEPT ![t] = store[child[t].dir]]
                   ELSE crashSite

RunChild(t) ==
    /\ ChildStep(t)
    /\ NoteSite(t)
    /\ UNCHANGED <<watchdogVars, config, resumed, phase, verdict>>

Supervise(t) == (WatchdogStep(t) \/ Expire(t)) /\ UNCHANGED replayVars

Next ==
    \/ StartEarlier \/ StartOriginal \/ EndOriginal
    \/ \E t \in Replays : StartReplay(t) \/ Judge(t)
    \/ \E t \in Tools : RunChild(t) \/ Supervise(t)

Spec == Init /\ [][Next]_vars

-----------------------------------------------------------------------------

\* Evidence is never overwritten or withdrawn, whoever writes to the path.
EvidenceImmutable ==
    [][\A p \in Paths : evidence[p] # NoEvidence => evidence'[p] = evidence[p]]_vars

\* A tool that reports the failure as reproduced watched its own child die at the
\* end of the trace that the original left; if the original run was a fresh one,
\* with the same durable snapshots on disk, whoever else used the directory.
VerdictSound ==
    \A t \in Replays : verdict[t] = "reproduced" =>
        /\ child[t].code = Injected
        /\ evidence[home] = Descriptor(child[t])
        /\ ~resumed => /\ crashSite[t].manifests = crashSite[origin].manifests
                       /\ crashSite[t].results = crashSite[origin].results

\* A failure of a fresh run is reproduced by a replay that is alone in its
\* directory, in time and free of I/O errors: the evidence can be read back, and
\* one worker makes one trace.
AloneReproduces ==
    \A t \in Replays :
        (/\ phase[t] = "ended" /\ ~resumed /\ evidence[home] # NoEvidence
         /\ child[origin].code = Injected
         /\ errors = 0 /\ verdict[t] # "timeout"
         /\ \A o \in Replays \ {t} : child[o].state = "none")
        => verdict[t] = "reproduced"
=============================================================================
