-------------------------- MODULE WorkerLifecycle --------------------------
(***************************************************************************)
(* What an object that owns background workers promises to its user: a     *)
(* worker, once spawned, serves until its owner asks it to stop; the        *)
(* object's memory is released only when no worker runs any more; and a     *)
(* requested stop completes.  EurekaClient is shown to implement this.      *)
(***************************************************************************)
CONSTANT Workers

VARIABLES
    phase,      \* of the owner: "idle", "open", "closing" or "closed"
    alive       \* the workers that may still touch the object

vars == <<phase, alive>>

Init ==
    /\ phase = "idle"
    /\ alive = {}

Spawn(w) ==
    /\ phase = "idle"
    /\ phase' = "open"
    /\ alive' = alive \cup {w}

RequestStop ==
    /\ phase = "open"
    /\ phase' = "closing"
    /\ UNCHANGED alive

\* A worker leaves only when it has been asked to.
Leave(w) ==
    /\ phase = "closing"
    /\ w \in alive
    /\ alive' = alive \ {w}
    /\ UNCHANGED phase

Release ==
    /\ phase = "closing"
    /\ alive = {}
    /\ phase' = "closed"
    /\ UNCHANGED alive

Next == \/ RequestStop
        \/ Release
        \/ \E w \in Workers : Spawn(w) \/ Leave(w)

Safety == Init /\ [][Next]_vars

Spec == Safety /\ WF_vars(Release) /\ \A w \in Workers : WF_vars(Leave(w))
=============================================================================
