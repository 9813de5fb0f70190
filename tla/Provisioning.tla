---------------------------- MODULE Provisioning ----------------------------
(***************************************************************************)
(* The provisioning API as a whole: requests and their background tasks,   *)
(* the event listener, Docker acting on its own, and restarts of the API.  *)
(***************************************************************************)
EXTENDS ServerTasks

CONSTANT Restarts     \* whether the API process may die and come back
ASSUME RestartsAssumption == Restarts \in BOOLEAN

vars == <<platformVars, lsn, task>>

Init == PlatformInit /\ ListenerInit /\ TasksInit

DockerStep ==
    \E c \in Container :
       HealthPass(c) \/ Unhealthy(c) \/ Crash(c) \/ LeftReports(c) \/ Vanish(c)

\* The process dies with its coroutines and comes back: the files of all live
\* rows are written again, those of other rows are left where they are, and
\* the listener starts over.  A file that cannot be written is skipped.
Restart ==
    /\ Restarts
    /\ task' = [t \in Task |-> Idle]
    /\ lsn' = AtStart
    /\ stream' = "off"
    /\ events' = << >>
    /\ \E written \in SUBSET {s \in Server : Live(s)} :
         /\ "write_config" \in Faults \/ \A s \in Server : Live(s) => s \in written
         /\ conf' = [d \in Subdomain |->
                       IF \E s \in written : SubOf[s] = d
                       THEN CHOOSE s \in written : SubOf[s] = d
                       ELSE conf[d]]
    /\ UNCHANGED <<rows, zone, cstate, owner>>

Next ==
    \/ \E t \in Task : (Request(t) \/ TaskStep(t)) /\ UNCHANGED <<stream, lsn>>
    \/ ListenerStep /\ UNCHANGED task
    \/ (DockerStep \/ StreamFails \/ StreamEnds) /\ UNCHANGED <<lsn, task>>
    \/ Restart

Spec == Init /\ [][Next]_vars

\* The same system once the listener has subscribed, before the first request.
Ready ==
    /\ PlatformInit /\ TasksInit
    /\ lsn = [AtStart EXCEPT !.pc = "listening"]
    /\ stream = "live"

\* Coroutines that can run are run.  Nobody has to send a request, nothing has
\* to fail, and no container has to become healthy.
Fairness ==
    /\ \A t \in Task : WF_vars(TaskStep(t) /\ UNCHANGED <<stream, lsn>>)
    /\ WF_vars(ListenerStep /\ UNCHANGED task)

FairSpec == Ready /\ [][Next]_vars /\ Fairness

-----------------------------------------------------------------------------
(* Safety.                                                                 *)

\* Every variable has its type.
TypeOK == PlatformTypeOK /\ ListenerTypeOK /\ TasksTypeOK

\* At most one row that is not deleted has a given subdomain.  The index sees to
\* it; the proofs use it.
OneLivePerSubdomain ==
    \A r, s \in Server : SubOf[r] = SubOf[s] /\ Live(r) /\ Live(s) => r = s

\* A container that a row or a task refers to was started for that row's
\* server: suspending or deleting a server never stops another one's.
RefersTo(c) == {s \in Server : saved[s] = c}
                 \cup {task[t].srv : t \in {u \in Task : task[u].cid = c}}
ContainersAreOwn ==
    \A c \in Container : cstate[c] # "absent" => RefersTo(c) \subseteq {owner[c]}

\* A container whose start succeeded can be found again: the row it was started
\* for holds its id, or a task holds it that will save it or remove it.
Holding == {"save_ids", "undo_stop", "undo_remove", "resume_save"}
NoOrphanContainer ==
    \A c \in Container : Made(c) =>
       \/ saved[owner[c]] = c
       \/ \E t \in Task : task[t].cid = c /\ task[t].srv = owner[c] /\ task[t].pc \in Holding

\* A DNS record whose creation was answered can be found again in the same way.
NoOrphanDns ==
    \A s \in dns :
       \/ s \in dnsSaved
       \/ \E t \in Task : /\ task[t].srv = s
                         /\ task[t].pc \in {"save_dns", "undo_stop", "undo_remove", "undo_dns"}

\* No task is at work on a server.
Quiet(s) == \A t \in Task : task[t].srv # s

\* Once the work behind a delete is done, nothing of the server is left that the
\* API ever knew of.
DeletedServersReleased ==
    \A s \in Server : status[s] = "deleted" /\ Quiet(s) =>
       /\ s \notin dns
       /\ conf[SubOf[s]] # s
       /\ \A c \in Container : owner[c] = s => ~Made(c)

\* Once the work behind a suspend is done, no container of the server is up, and
\* none comes up for as long as it is suspended.
SuspendedIsStopped ==
    \A s \in Server : status[s] = "suspended" /\ Quiet(s) =>
       \A c \in Container : owner[c] = s => ~Up(c)

\* No server is stranded: in provisioning without a task at work on it, it has
\* containers whose health, or whose end, will decide what becomes of it.
NoneStranded ==
    \A s \in Server : status[s] = "provisioning" /\ Quiet(s) => saved[s] # None

\* A failed provisioning is rolled back: none of its containers and no DNS record
\* that the API knows of remains.
FailedProvisionRolledBack ==
    \A s \in Server : status[s] = "error" /\ saved[s] = None /\ Quiet(s) =>
       s \notin dns /\ \A c \in Container : owner[c] = s => ~Made(c)

-----------------------------------------------------------------------------
(* The same of requests that overlap, where the code keeps it.             *)

\* Work on a server that starts or re-creates something for it.
MakerPc == {"create_config", "create_error"} \cup ProvisionPc \cup RollbackPc \cup ResumePc

SharesServer(t, pcs) ==
    \E u \in Task \ {t} : task[u].srv = task[t].srv /\ task[u].pc \in pcs

\* A server is not provisioned, resumed or patched while it is being deleted.
DeletesApart ==
    \A t \in Task : task[t].pc \in DeletePc => ~SharesServer(t, MakerPc \cup {"update_config"})

\* A server is not provisioned or resumed while it is being suspended.
SuspendsApart ==
    \A t \in Task : task[t].pc \in {"suspend_commit", "suspend_stop"} => ~SharesServer(t, MakerPc)

\* Other requests may overlap as they like, on other servers and on this one:
\* what a delete and a suspend promise holds all the same.
DeleteReleases == []DeletesApart => []DeletedServersReleased
SuspendStops == []SuspendsApart => []SuspendedIsStopped

-----------------------------------------------------------------------------
(* What the documentation says and the code does not keep.                 *)

\* A server that is active, and that no task is at work on, is routed: resuming
\* it re-created what its first provisioning made.
ActiveIsRouted ==
    \A s \in Server : status[s] = "active" /\ Quiet(s) =>
       s \in dns /\ conf[SubOf[s]] = s

\* The stop that a suspend asked for is not misclassified as a crash: it never
\* makes the listener write error over a server that is being resumed.
StopIsNoCrash ==
    ~(lsn.pc = "commit" /\ lsn.why = "stop" /\ status[lsn.srv] = "provisioning")

\* A deletion is final for the die handler: it never writes error over one.
DieSparesDeleted ==
    [][\A s \in Server : status[s] = "deleted" => status'[s] # "error"]_vars

-----------------------------------------------------------------------------
(* Liveness, under FairSpec.                                               *)

\* A server stays in provisioning for ever only while its containers run and
\* never pass their health check.
Starting(s) == saved[s] # None /\ cstate[saved[s]] = "running"
ProvisioningSettles ==
    \A s \in Server : <>[](status[s] = "provisioning") => <>[]Starting(s)

\* Docker's word that a server is healthy ends its wait, and the crash of an
\* active server's container does not go unnoticed.
Queued(kind, s) ==
    \E i \in 1..Len(events) : events[i] = [kind |-> kind, sub |-> SubOf[s]]
HealthHeard ==
    \A s \in Server :
       status[s] = "provisioning" /\ Queued("healthy", s) ~> status[s] # "provisioning"
CrashReported ==
    \A s \in Server : status[s] = "active" /\ Queued("crash", s) ~> status[s] # "active"

\* A listener that crashed listens again.
ListenerReconnects == lsn.pc = "start" ~> lsn.pc = "listening"
=============================================================================
