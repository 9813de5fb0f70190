---------------------------- MODULE DockerService ----------------------------
(***************************************************************************)
(* The Docker operations with the three containers of a server, each call  *)
(* a thread of the executor that goes through its Docker requests one by   *)
(* one.  A step is a pair <<verb, role>>.  The steps of one role are one   *)
(* try block: when one of them fails the others are skipped and the next   *)
(* block is tried.                                                         *)
(***************************************************************************)
EXTENDS Naturals, Sequences, FiniteSets

CONSTANTS
    Server,        \* subdomains, as sequences of their hyphen-free segments
    Idle,          \* not a call
    Faults,        \* what may go wrong
    MaxGen,        \* bound: creations attempted for each server
    MaxFaults      \* bound: how often something goes wrong

ASSUME ServerAssumption == Server \subseteq Seq(STRING)
ASSUME BoundsAssumption == MaxGen \in [Server -> Nat] /\ MaxFaults \in Nat
\* "refused", "connect": run or connect fails; "half": run fails after it has
\* created the container; "api": a stop, remove or start fails; "save": the
\* commit of the new ids fails; "vanish": an operator removes containers;
\* "restart": the process restarts.
ASSUME FaultsAssumption ==
    Faults \subseteq {"refused", "connect", "half", "api", "save", "vanish", "restart"}

VARIABLES
    docker,     \* the container that has a name, or Free
    ids,        \* the generation whose ids the row holds, 0 for none
    active,     \* the servers whose row is active
    gen,        \* history: generations created so far
    call,       \* the call in progress on each server
    faults      \* history: how often something went wrong

vars == <<docker, ids, active, gen, call, faults>>

Fault(kind) == kind \in Faults /\ faults < MaxFaults /\ faults' = faults + 1

Role == {"server", "preview", "proxy"}

\* f"gtm-server-{subdomain}" and its likes, without the common "gtm".
Name(s, role) ==
    CASE role = "server"  -> <<"server">> \o s
      [] role = "preview" -> <<"preview">> \o s
      [] role = "proxy"   -> <<"preview", "proxy">> \o s

Names == {Name(s, r) : s \in Server, r \in Role}
Free  == [srv |-> Idle, role |-> "server", gen |-> 0, st |-> "free"]

\* A container's id stands for what it was created for, and when.
Container == [srv : Server, role : Role, gen : Nat \ {0}, st : {"created", "up", "exited"}]

Verb == {"run", "look", "stop", "remove", "start", "health", "save"}
Step == Verb \X (Role \cup {"row"})

StartSteps ==
    << <<"run", "server">>, <<"run", "preview">>, <<"run", "proxy">>, <<"save", "row">> >>
UndoSteps ==
    << <<"stop", "proxy">>, <<"remove", "proxy">>, <<"stop", "preview">>,
       <<"remove", "preview">>, <<"stop", "server">>, <<"remove", "server">> >>
\* Slip: the sidecar is looked for after the server container is gone.
StopStepsLate ==
    << <<"stop", "server">>, <<"remove", "server">>, <<"stop", "preview">>,
       <<"remove", "preview">>, <<"look", "proxy">>, <<"stop", "proxy">>,
       <<"remove", "proxy">> >>
StopSteps ==
    << <<"look", "proxy">>, <<"stop", "proxy">>, <<"remove", "proxy">>,
       <<"stop", "server">>, <<"remove", "server">>, <<"stop", "preview">>,
       <<"remove", "preview">> >>
\* Slip: the sidecar is stopped by name, whether or not the server has one.
SuspendStepsBlind ==
    << <<"stop", "proxy">>, <<"stop", "server">>, <<"stop", "preview">> >>
SuspendSteps ==
    << <<"look", "proxy">>, <<"stop", "proxy">>, <<"stop", "server">>, <<"stop", "preview">> >>
ResumeSteps ==
    << <<"start", "server">>, <<"start", "preview">>, <<"look", "proxy">>,
       <<"start", "proxy">>, <<"health", "row">> >>
EnsureSteps == << <<"start", "proxy">> >>

Program ==
    [start   |-> StartSteps,   undo   |-> UndoSteps,   stop   |-> StopSteps,
     suspend |-> SuspendSteps, resume |-> ResumeSteps, ensure |-> EnsureSteps]
StepsOf == [p \in DOMAIN Program |-> {Program[p][i] : i \in DOMAIN Program[p]}]
Order   ==
    [p \in DOMAIN Program |->
        {ab \in Step \X Step : \E i, j \in DOMAIN Program[p] :
                                  i < j /\ Program[p][i] = ab[1] /\ Program[p][j] = ab[2]}]

Operation == {"create", "suspend", "resume", "delete", "ensure"}
Calls ==
    [op   : Operation,
     prog : DOMAIN Program,   \* the function it is in
     todo : SUBSET Step,      \* the steps of it that are still to be done
     gen  : Nat,              \* whose ids it was given, or is creating
     held : SUBSET Role,      \* the container objects it has created
     was  : {"absent", "up", "down", "broken"},    \* history: the unit before
     hurt : BOOLEAN]                               \* history: disturbed
ASSUME IdleAssumption == Idle \notin Server \cup Operation \cup Calls

(* The unit of a server: all its containers and no others, and the row     *)
(* knows their ids; anything else is broken.                               *)
Mine(s) == {n \in Names : docker[n].srv = s}
Unit(s) ==
    LET own == {docker[n] : n \in Mine(s)}
        Whole(st) == own = [srv : {s}, role : Role, gen : {ids[s]}, st : {st}]
    IN  CASE own = {}        -> "absent"
          [] Whole("up")     -> "up"
          [] Whole("exited") -> "down"
          [] OTHER           -> "broken"

Init ==
    /\ docker = [n \in Names |-> Free]
    /\ ids = [s \in Server |-> 0]
    /\ active = {}
    /\ gen = [s \in Server |-> 0]
    /\ call = [s \in Server |-> Idle]
    /\ faults = 0

Call(op, prog, g, s) ==
    [op |-> op, prog |-> prog, todo |-> StepsOf[prog], gen |-> g, held |-> {},
     was |-> Unit(s), hurt |-> FALSE]

\* Provisioning, or the resume of a server whose row has no ids.
Anew(s, op) ==
    /\ call[s] = Idle /\ ids[s] = 0 /\ gen[s] < MaxGen[s]
    /\ call' = [call EXCEPT ![s] = Call(op, "start", gen[s] + 1, s)]
    /\ gen' = [gen EXCEPT ![s] = @ + 1]
    /\ UNCHANGED <<docker, ids, active, faults>>

\* The other requests take the ids from the row; the row of a deleted server
\* is used no more.  Scope: the calls on one server follow each other.  The code
\* does not hold the next one back; what overlapping ones do to a server as a
\* whole is in Provisioning.
Request(s, op, prog, row) ==
    /\ call[s] = Idle /\ ids[s] # 0
    /\ call' = [call EXCEPT ![s] = Call(op, prog, ids[s], s)]
    /\ active' = active \ {s}
    /\ ids' = [ids EXCEPT ![s] = row]
    /\ UNCHANGED <<docker, gen, faults>>

Create(s)  == Anew(s, "create")
Suspend(s) == Request(s, "suspend", "suspend", ids[s])
Resume(s)  == Anew(s, "resume") \/ Request(s, "resume", "resume", ids[s])
Delete(s)  == Request(s, "delete", "stop", 0)

(* Whether a call finds the container of a role: by the id it was given, or *)
(* created; the sidecar, whose id no row holds, by its name.                *)
Finds(s, role) ==
    LET c == call[s]
        found == docker[Name(s, role)]
    IN  \/ role = "proxy" /\ role \notin c.held /\ found # Free
        \/ found.srv = s /\ found.role = role /\ found.gen = c.gen

\* The step whose turn it is.
Due(c, st) == \A other \in c.todo : <<other, st>> \notin Order[c.prog]

Done(c, st)    == [c EXCEPT !.todo = @ \ {st}]
\* Slip: a container that is not found is looked for again.
SkipNothing(c, role) == c
Skip(c, role)  == [c EXCEPT !.todo = {st \in @ : st[2] # role}]
Begin(c, prog) == [c EXCEPT !.prog = prog, !.todo = StepsOf[prog]]
Undo(c)        == [c EXCEPT !.prog = "undo", !.todo = {st \in StepsOf["undo"] : st[2] \in c.held}]
Hurt(c)        == [c EXCEPT !.hurt = TRUE]

\* Replaces the state of the container found under a name.
Becomes(n, st) == docker' = [docker EXCEPT ![n].st = st]

Proceed(s, c) == call' = [call EXCEPT ![s] = c]

\* run, and for two of the containers the connection to the internal network.
Run(s, role) ==
    LET c == [call[s] EXCEPT !.held = @ \cup {role}]
        n == Name(s, role)
        Made(st) == docker' = [docker EXCEPT ![n] =
                        [srv |-> s, role |-> role, gen |-> c.gen, st |-> st]]
    IN  \/ /\ docker[n] = Free
           /\ Made("up")
           /\ \/ Proceed(s, Done(c, <<"run", role>>)) /\ UNCHANGED faults
              \/ role # "proxy" /\ Proceed(s, Undo(c)) /\ Fault("connect")
        \/ /\ (docker[n] # Free /\ UNCHANGED faults) \/ Fault("refused")
           /\ Proceed(s, Undo(call[s])) /\ UNCHANGED docker
        \/ /\ docker[n] = Free /\ Fault("half")
           /\ Made("created")
           /\ Proceed(s, Hurt(Undo(call[s])))

\* stop, remove and start; removing a running container is an error.
Manage(s, verb, role) ==
    LET n == Name(s, role)
    IN  /\ UNCHANGED faults
        /\ IF Finds(s, role) /\ ~(verb = "remove" /\ docker[n].st = "up")
           THEN /\ Proceed(s, Done(call[s], <<verb, role>>))
                /\ \/ verb = "start" /\ Becomes(n, "up")
                   \/ verb = "stop" /\ Becomes(n, IF docker[n].st = "up" THEN "exited"
                                                                       ELSE docker[n].st)
                   \/ verb = "remove" /\ docker' = [docker EXCEPT ![n] = Free]
           ELSE Proceed(s, Skip(call[s], role)) /\ UNCHANGED docker

\* The sidecar is looked for under the subdomain in the server container's name.
Look(s) ==
    /\ Proceed(s, IF Finds(s, "server") THEN Done(call[s], <<"look", "proxy">>)
                                        ELSE Skip(call[s], "proxy"))
    /\ UNCHANGED <<docker, faults>>

\* A Docker request of a stop, suspend, resume or clean-up fails: swallowed.
ApiError(s, verb, role) ==
    /\ Fault("api") /\ verb \in {"look", "stop", "remove", "start"}
    /\ Proceed(s, Hurt(Skip(call[s], role))) /\ UNCHANGED docker

\* Slip: a resume creates the containers whether or not they are there.
HealthUnread(s) ==
    /\ gen' = [gen EXCEPT ![s] = @ + 1]
    /\ Proceed(s, [Begin(call[s], "start") EXCEPT !.gen = gen'[s]])
    /\ UNCHANGED <<docker, ids, faults>>
\* Only a resume whose server container is gone creates the containers anew
\* (at the bound MaxGen that creation fails).
Health(s) ==
    LET anew == ~Finds(s, "server") /\ gen[s] < MaxGen[s]
    IN  /\ gen' = [gen EXCEPT ![s] = IF anew THEN @ + 1 ELSE @]
        /\ Proceed(s, IF anew THEN [Begin(call[s], "start") EXCEPT !.gen = gen'[s]]
                              ELSE Done(call[s], <<"health", "row">>))
        /\ UNCHANGED <<docker, ids, faults>>

\* The new ids are committed; when that fails, provisioning stops what it
\* started, a resume leaves it.
Save(s) ==
    LET c == call[s]
        saved == Done(c, <<"save", "row">>)
    IN  /\ UNCHANGED <<docker, gen>>
        /\ \/ /\ ids' = [ids EXCEPT ![s] = c.gen]
              /\ Proceed(s, saved) /\ UNCHANGED faults
           \/ /\ Fault("save") /\ UNCHANGED ids
              /\ Proceed(s, IF c.op = "create"
                            THEN [Begin(c, "stop") EXCEPT !.held = {}]
                            ELSE Hurt(saved))

Advance(s) ==
    /\ call[s] # Idle
    /\ \E st \in call[s].todo :
           /\ Due(call[s], st)
           /\ LET verb == st[1]
                  role == st[2]
              IN  \/ verb = "health" /\ Health(s)
                  \/ verb = "save" /\ Save(s)
                  \/ /\ UNCHANGED <<ids, gen>>
                     /\ \/ verb = "run" /\ Run(s, role)
                        \/ verb = "look" /\ Look(s)
                        \/ verb \in {"stop", "remove", "start"} /\ Manage(s, verb, role)
                        \/ ApiError(s, verb, role)
    /\ UNCHANGED active

\* The server container the row knows runs: the listener will make it active.
ServerUp(s) ==
    docker[Name(s, "server")] =
        [srv |-> s, role |-> "server", gen |-> ids[s], st |-> "up"]

Return(s) ==
    /\ call[s] # Idle /\ call[s].todo = {}
    /\ active' = IF call[s].op \in {"create", "resume"} /\ ServerUp(s)
                 THEN active \cup {s} ELSE active
    /\ call' = [call EXCEPT ![s] = Idle]
    /\ UNCHANGED <<docker, ids, gen, faults>>

\* An operator removes a server's containers; the listener reports the crash.
Vanish(s) ==
    /\ Fault("vanish") /\ call[s] = Idle
    /\ docker' = [n \in Names |-> IF n \in Mine(s) THEN Free ELSE docker[n]]
    /\ active' = active \ {s}
    /\ UNCHANGED <<ids, gen, call>>

\* The process restarts and sync_sidecars() goes through the active servers;
\* the recovery pass then finds the resumed servers that run.
Restart ==
    /\ Fault("restart")
    /\ \A s \in Server : call[s] # Idle => call[s].op # "ensure"
    /\ call' = [s \in Server |->
                   IF s \in active THEN Call("ensure", "ensure", ids[s], s) ELSE Idle]
    /\ active' = active \cup {s \in Server : /\ call[s] # Idle /\ call[s].op = "resume"
                                             /\ ServerUp(s)}
    /\ UNCHANGED <<docker, ids, gen>>

Next ==
    \/ \E s \in Server : \/ Create(s) \/ Suspend(s) \/ Resume(s) \/ Delete(s)
                         \/ Advance(s) \/ Return(s) \/ Vanish(s)
    \/ Restart

\* Docker answers every request, so the thread of a call goes on to its end.
Fairness == \A s \in Server : WF_vars(Advance(s) \/ Return(s))
Spec == Init /\ [][Next]_vars /\ Fairness

(***************************************************************************)
(* Properties.                                                             *)
(***************************************************************************)
TypeOK ==
    /\ docker \in [Names -> Container \cup {Free}]
    /\ ids \in [Server -> Nat] /\ gen \in [Server -> Nat]
    /\ \A s \in Server : ids[s] <= gen[s] /\ gen[s] <= MaxGen[s]
    /\ active \subseteq Server /\ faults \in 0..MaxFaults
    /\ call \in [Server -> Calls \cup {Idle}]

\* The Docker operations implement ContainerUnit.  Its safety: a call that no
\* fault of Docker disturbed moves all three containers of its server or, when
\* a creation fails, none, and no call changes the unit of another server.
Contract == INSTANCE ContainerUnit WITH
    unit    <- [s \in Server |-> IF call[s] = Idle THEN Unit(s) ELSE call[s].was],
    calling <- [s \in Server |-> IF call[s] = Idle THEN Idle ELSE call[s].op],
    spoilt  <- {s \in Server : call[s] # Idle /\ call[s].hurt}
KeepsContract == Contract!Safe

\* And its liveness: every call returns, whatever its requests meet.
CallsReturn == Contract!Live

\* Although subdomain x and subdomain proxy-x share the name
\* gtm-preview-proxy-x, no call touches a container made for another server.
TouchesOnlyOwn ==
    [][\A s \in Server : Advance(s) =>
          \A n \in Names : docker'[n] # docker[n] =>
              docker[n].srv \in {s, Idle} /\ docker'[n].srv \in {s, Idle}]_vars
==============================================================================
