------------------------------ MODULE Platform ------------------------------
(***************************************************************************)
(* What the provisioning API acts on: the rows of the servers table, the   *)
(* Cloudflare zone, the directory of Traefik client files, and the Docker  *)
(* daemon with its event stream.  The server, preview and sidecar          *)
(* containers of a server are one unit here: the API starts, stops and     *)
(* removes them together.                                                  *)
(***************************************************************************)
EXTENDS Naturals, Sequences, FiniteSets

CONSTANTS
    Server,       \* rows the servers table may come to hold, one id each
    Container,    \* Docker ids of container units
    Subdomain,
    SubOf,        \* the subdomain column, fixed when a row is inserted
    None,
    Faults,       \* what may go wrong, see FaultPoints
    MaxQueue      \* bound: events not yet taken, see Room

\* Calls that may fail, named after the call or the commit, and what may
\* happen to a container.
FaultPoints ==
    { "write_config", "delete_config", "restart_traefik", "create_a_record",
      "lost_answer", "save_dns", "start_containers", "half_started", "save_ids",
      "delete_record", "stop_containers", "resume_containers",
      "container_health", "save_resumed_ids", "handle_event",
      "commit_status", "refresh",
      "crash", "unhealthy", "vanish" }

ASSUME SubOfAssumption == SubOf \in [Server -> Subdomain]
ASSUME NoneAssumption == None \notin Server \cup Container \cup Subdomain
ASSUME FaultsAssumption == Faults \subseteq FaultPoints
ASSUME MaxQueueAssumption == MaxQueue \in Nat \ {0}

VARIABLES
    status,       \* servers.status; "absent" before the row is inserted
    saved,        \* servers.server_container_id and preview_container_id
    dnsSaved,     \* the rows whose dns_record_id is set
    dns,          \* Cloudflare A records, by the server they were made for
    lost,         \* those made by a call whose answer never came: no known id
    conf,         \* conf.d/client-{subdomain}.yml: the server it routes to
    cstate,       \* what Docker reports of a container
    owner,        \* the server a container was started for, by its name
    events,       \* the event stream, oldest first
    stream        \* the connection that feeds it

rows   == <<status, saved, dnsSaved>>
zone   == <<dns, lost>>
docker == <<cstate, owner, events>>
platformVars == <<rows, zone, conf, docker, stream>>

Status == {"provisioning", "active", "suspended", "error", "deleted"}

\* A unit that is "left" is what a failed start left behind: it was created but
\* could not be started, or cleaning it up failed as well.  Nobody was given its
\* id; it holds the names, and what runs of it still reports to Docker.
ContainerState == {"absent", "running", "healthy", "exited", "left"}
Event == [kind : {"healthy", "crash", "stop"}, sub : Subdomain]
Stream == {"off", "live", "ended", "stale"}

PlatformTypeOK ==
    /\ status \in [Server -> Status \cup {"absent"}]
    /\ saved \in [Server -> Container \cup {None}]
    /\ dnsSaved \subseteq Server
    /\ dns \subseteq Server /\ lost \subseteq Server
    /\ conf \in [Subdomain -> Server \cup {None}]
    /\ cstate \in [Container -> ContainerState]
    /\ owner \in [Container -> Server \cup {None}]
    /\ events \in Seq(Event)
    /\ stream \in Stream

PlatformInit ==
    /\ status = [s \in Server |-> "absent"]
    /\ saved = [s \in Server |-> None]
    /\ dnsSaved = {}
    /\ dns = {} /\ lost = {}
    /\ conf = [d \in Subdomain |-> None]
    /\ cstate = [c \in Container |-> "absent"]
    /\ owner = [c \in Container |-> None]
    /\ events = << >>

-----------------------------------------------------------------------------
(* The servers table.                                                      *)

\* Slip: a row that was never inserted passes for one that was not deleted.
LiveOrAbsent(s) == status[s] # "deleted"

Live(s) == status[s] \notin {"absent", "deleted"}

\* The partial unique index on subdomain: the database accepts a row that is
\* not deleted only while no other such row has its subdomain.
IndexAllows(s, st) ==
    \/ st = "deleted"
    \/ \A r \in Server \ {s} : SubOf[r] = SubOf[s] => ~Live(r)

\* UPDATE servers SET status = st WHERE id = s.  The statement does not look
\* at the status it replaces.
SetStatus(s, st) ==
    /\ IndexAllows(s, st)
    /\ status' = [status EXCEPT ![s] = st]

-----------------------------------------------------------------------------
(* Docker.                                                                 *)

Up(c) == cstate[c] \in {"running", "healthy"}

\* A start was answered with the unit's ids, and it was not removed since.
Made(c) == cstate[c] \in {"running", "healthy", "exited"}

\* Container names are derived from the subdomain and unique in the daemon.
NameTaken(s) ==
    \E c \in Container : cstate[c] # "absent" /\ SubOf[owner[c]] = SubOf[s]

\* The bound on the queue: with that many events to take, no request comes in
\* and nothing happens to a container from outside.
Room == Len(events) < MaxQueue

\* Docker drops what happens while nobody is subscribed.
Report(kind, d) ==
    IF stream = "live"
    THEN events' = Append(events, [kind |-> kind, sub |-> d])
    ELSE UNCHANGED events

Emit(kind, c) == Report(kind, SubOf[owner[c]])

\* docker run: a new container that is not healthy yet.
RunContainer(c, s) ==
    /\ cstate[c] = "absent"
    /\ ~NameTaken(s)
    /\ cstate' = [cstate EXCEPT ![c] = "running"]
    /\ owner' = [owner EXCEPT ![c] = s]
    /\ UNCHANGED events

\* docker run that raises: nothing was made, or it was removed again, which
\* stops what had been started; or something of it is left.
RunUndone(s) ==
    /\ UNCHANGED <<cstate, owner>>
    /\ UNCHANGED events \/ Report("stop", SubOf[s])
LeaveContainer(c, s) ==
    /\ cstate[c] = "absent"
    /\ cstate' = [cstate EXCEPT ![c] = "left"]
    /\ owner' = [owner EXCEPT ![c] = s]
    /\ UNCHANGED events \/ Report("stop", SubOf[s])

\* docker stop: a container that is up exits and Docker reports a die event.
StopContainer(c) ==
    /\ UNCHANGED owner
    /\ \/ /\ Up(c)
          /\ cstate' = [cstate EXCEPT ![c] = "exited"]
          /\ Emit("stop", c)
       \/ ~Up(c) /\ UNCHANGED <<cstate, events>>

\* docker start: nothing happens to a container that is up or gone.
StartContainer(c) ==
    /\ cstate' = [cstate EXCEPT ![c] = IF @ = "exited" THEN "running" ELSE @]
    /\ UNCHANGED <<owner, events>>

\* docker rm without force: Docker refuses while the container is up.
RemoveContainer(c) ==
    /\ UNCHANGED events
    /\ IF cstate[c] = "exited"
       THEN /\ cstate' = [cstate EXCEPT ![c] = "absent"]
            /\ owner' = [owner EXCEPT ![c] = None]
       ELSE UNCHANGED <<cstate, owner>>

\* The health check of a running container passes.
HealthPass(c) ==
    /\ cstate[c] = "running"
    /\ cstate' = [cstate EXCEPT ![c] = "healthy"]
    /\ Emit("healthy", c)
    /\ UNCHANGED <<rows, zone, conf, owner, stream>>

\* The health check fails; the handler only logs this event.
Unhealthy(c) ==
    /\ "unhealthy" \in Faults /\ Room
    /\ cstate[c] = "healthy"
    /\ cstate' = [cstate EXCEPT ![c] = "running"]
    /\ UNCHANGED <<rows, zone, conf, owner, events, stream>>

\* The process in a container dies and the unless-stopped policy starts it
\* again.
Crash(c) ==
    /\ "crash" \in Faults /\ Room
    /\ Up(c)
    /\ cstate' = [cstate EXCEPT ![c] = "running"]
    /\ Emit("crash", c)
    /\ UNCHANGED <<rows, zone, conf, owner, stream>>

\* What runs of a unit that was left behind turns healthy, or dies.
LeftReports(c) ==
    /\ cstate[c] = "left" /\ Room
    /\ \E kind \in {"healthy", "crash"} : Emit(kind, c)
    /\ UNCHANGED <<rows, zone, conf, cstate, owner, stream>>

\* Somebody removes a container behind the API's back.
Vanish(c) ==
    /\ "vanish" \in Faults /\ Room
    /\ cstate[c] # "absent"
    /\ cstate' = [cstate EXCEPT ![c] = "absent"]
    /\ owner' = [owner EXCEPT ![c] = None]
    /\ IF Up(c) THEN Emit("crash", c) ELSE UNCHANGED events
    /\ UNCHANGED <<rows, zone, conf, stream>>
=============================================================================
