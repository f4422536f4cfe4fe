------------------------------ MODULE CommitLog ------------------------------
(***************************************************************************)
(* What the durable run store promises its caller, without processes,      *)
(* files or recovery: a run commits each block at most once, never forgets *)
(* a committed block or the lease it was committed under, and ends once,   *)
(* complete with every block or failed.  Module RunStore implements it,    *)
(* with the rename of a manifest as the moment of commitment.              *)
(***************************************************************************)
CONSTANTS Blocks, Stamps, Absent

VARIABLES
    log,     \* the lease each block was committed under, or Absent
    status   \* "none" before the run directory is created

logVars == <<log, status>>

Init ==
    /\ log = [b \in Blocks |-> Absent]
    /\ status = "none"

Create ==
    /\ status = "none"
    /\ status' = "running"
    /\ UNCHANGED log

\* Entries only go from Absent to a stamp.
Extends(new) == \A b \in Blocks : log[b] # Absent => new[b] = log[b]

\* A snapshot commits any number of further blocks, and may end the run.
Commit(end) ==
    /\ status = "running"
    /\ log' \in [Blocks -> Stamps]
    /\ Extends(log')
    /\ status' = end
    /\ end = "complete" => \A b \in Blocks : log'[b] # Absent

Next == Create \/ \E end \in {"running", "complete", "failed"} : Commit(end)

Spec == Init /\ [][Next]_logVars
=============================================================================
