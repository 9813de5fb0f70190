---------------------------- MODULE ContainerUnit ----------------------------
(***************************************************************************)
(* What the Docker operations promise their callers: the containers of a   *)
(* server are one unit, and a call takes effect on all of them or on none. *)
(* A call that Docker disturbed, or that was cut short by a restart of the *)
(* process, promises nothing; what it leaves is called broken, and no call *)
(* promises anything about a broken unit.                                  *)
(***************************************************************************)
CONSTANTS Server, Idle

VARIABLES
    unit,      \* the containers of each server, as seen between two calls
    calling,   \* the operation in progress on each server, or Idle
    spoilt     \* the servers whose call in progress Docker disturbed

vars == <<unit, calling, spoilt>>

Unit == {"absent", "up", "down", "broken"}
Op   == {"create", "suspend", "resume", "delete", "ensure"}

TypeOK ==
    /\ unit \in [Server -> Unit]
    /\ calling \in [Server -> Op \cup {Idle}]
    /\ spoilt \subseteq Server

Init ==
    /\ unit = [s \in Server |-> "absent"]
    /\ calling = [s \in Server |-> Idle]
    /\ spoilt = {}

\* The outcomes an undisturbed call has on a unit: creation may fail whole.
Outcomes(op, u) ==
    IF u = "broken" THEN Unit
    ELSE CASE op = "delete"                                -> {"absent"}
           [] op \in {"create", "resume"} /\ u = "absent" -> {"absent", "up"}
           [] op = "resume" /\ u # "absent"                -> {"up"}
           [] op = "suspend" /\ u # "absent"               -> {"down"}
           [] OTHER                                        -> {u}

Invoke(s) ==
    /\ calling[s] = Idle
    /\ \E op \in Op : calling' = [calling EXCEPT ![s] = op]
    /\ UNCHANGED <<unit, spoilt>>

Disturb(s) ==
    /\ calling[s] # Idle
    /\ spoilt' = spoilt \cup {s}
    /\ UNCHANGED <<unit, calling>>

Return(s) ==
    /\ calling[s] # Idle
    /\ calling' = [calling EXCEPT ![s] = Idle]
    /\ spoilt' = spoilt \ {s}
    /\ \E u \in IF s \in spoilt THEN Unit ELSE Outcomes(calling[s], unit[s]) :
           unit' = [unit EXCEPT ![s] = u]

\* An operator removes the containers of a server no call is working on.
Vanish(s) ==
    /\ calling[s] = Idle
    /\ unit' = [unit EXCEPT ![s] = "absent"]
    /\ UNCHANGED <<calling, spoilt>>

\* The process restarts: calls in progress are cut short, and startup looks
\* after the sidecars of some servers.
Restart ==
    /\ \E ensured \in SUBSET Server :
           calling' = [s \in Server |-> IF s \in ensured THEN "ensure" ELSE Idle]
    /\ \E u \in [Server -> Unit] :
           unit' = [s \in Server |-> IF calling[s] = Idle THEN unit[s] ELSE u[s]]
    /\ spoilt' = {}

Next ==
    \/ \E s \in Server : Invoke(s) \/ Disturb(s) \/ Return(s) \/ Vanish(s)
    \/ Restart

Safe == Init /\ [][Next]_vars

\* Every call returns.
Live == \A s \in Server : WF_vars(Return(s))

Spec == Safe /\ Live
==============================================================================
