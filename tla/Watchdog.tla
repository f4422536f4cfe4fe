------------------------------ MODULE Watchdog ------------------------------
(***************************************************************************)
(* wait_for_child (tools/process_watchdog.hpp): a parent polls its child   *)
(* without blocking, kills it when the deadline has passed, and reaps it.  *)
(* The poll, the look at the clock and the kill are separate system calls, *)
(* so the child may exit between any two of them.                          *)
(***************************************************************************)
EXTENDS InjectedRun

VARIABLES
    wait,   \* where the parent is in wait_for_child
    late    \* parents whose deadline has passed

watchdogVars == <<wait, late>>

Waiting == {"idle", "poll", "clock", "reap", "exited", "failed"}

\* fork and exec, then wait_for_child with a new deadline.
Fork(t, r) ==
    /\ child' = [child EXCEPT ![t] = r]
    /\ wait' = [wait EXCEPT ![t] = "poll"]
    /\ late' = late \ {t}

Reaped(t) == child' = [child EXCEPT ![t].state = "reaped"]

\* waitpid(WNOHANG).  Death by a signal is an error.
Poll(t) ==
    /\ wait[t] = "poll"
    /\ IF child[t].state = "zombie"
         THEN /\ Reaped(t)
              /\ wait' = [wait EXCEPT ![t] =
                    IF child[t].code = Signal THEN "failed" ELSE "exited"]
         ELSE wait' = [wait EXCEPT ![t] = "clock"] /\ UNCHANGED child
    /\ UNCHANGED <<store, lock, evidence, synced, litter, errors, late>>

\* Fault: the clock is never looked at.
NoDeadline(t) ==
    /\ wait[t] = "clock"
    /\ wait' = [wait EXCEPT ![t] = "poll"]
    /\ UNCHANGED <<child, lock>>

\* Fault: the child is killed and left for somebody else to reap.
KillAndLeave(t) ==
    /\ wait[t] = "clock"
    /\ IF t \in late
         THEN Kill(t) /\ wait' = [wait EXCEPT ![t] = "failed"]
         ELSE wait' = [wait EXCEPT ![t] = "poll"] /\ UNCHANGED <<child, lock>>

\* Past the deadline the child is killed; a zombie does not notice.
AtDeadline(t) ==
    /\ wait[t] = "clock"
    /\ IF t \in late
         THEN Kill(t) /\ wait' = [wait EXCEPT ![t] = "reap"]
         ELSE wait' = [wait EXCEPT ![t] = "poll"] /\ UNCHANGED <<child, lock>>

CheckClock(t) ==
    /\ AtDeadline(t)
    /\ UNCHANGED <<store, evidence, synced, litter, errors, late>>

\* waitpid without WNOHANG; the phase has failed whatever the status says.
Reap(t) ==
    /\ wait[t] = "reap"
    /\ child[t].state = "zombie"
    /\ Reaped(t)
    /\ wait' = [wait EXCEPT ![t] = "failed"]
    /\ UNCHANGED <<store, lock, evidence, synced, litter, errors, late>>

\* The monotonic clock passes the deadline.
Expire(t) ==
    /\ wait[t] \in {"poll", "clock"}
    /\ t \notin late
    /\ late' = late \cup {t}
    /\ UNCHANGED <<childVars, wait>>

WatchdogStep(t) == Poll(t) \/ CheckClock(t) \/ Reap(t)

WatchdogInit ==
    /\ wait = [t \in Tools |-> "idle"]
    /\ late = {}
=============================================================================
