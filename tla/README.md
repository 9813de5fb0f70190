# A model of the GTM provisioning API

The repository is a FastAPI service that sells server-side tagging: for every *server* a tenant creates, it
starts a pair of Docker containers (and an optional sidecar), makes a Cloudflare A record, writes a Traefik
file, and follows Docker's events to keep the server's status. It is one asyncio process over PostgreSQL,
with Docker calls in executor threads.

This directory holds TLA+ modules of that service, TLC runs that check them on small instances, and proofs
checked by TLAPS. `PROJECT.json` lists components, runs, findings, hazards, mutants, theorems, and for every
definition the source lines it models.

## Inventory

| component | source | state | operations |
|---|---|---|---|
| server endpoints | `app/routers/servers.py` | coroutines of requests | create, list, get, update, delete, suspend, resume, health, snippet |
| background tasks | same | what a coroutine read before it awaited | provision, delete, suspend, resume |
| event listener | `app/services/docker_events.py` | queue, one executor thread, subscription | recovery pass, event handlers, reconnection |
| startup | `app/main.py` | none | write the Traefik files again, start sidecars, start the listener |
| servers table | `app/models.py`, `alembic/` | rows: status, container ids, DNS id | partial unique index on the subdomain |
| Docker operations | `app/services/docker_service.py` | containers, in the daemon | run, stop, start, remove, health |
| Cloudflare client | `app/services/cloudflare.py` | records, in Cloudflare | create, delete, resolve |
| Traefik files | `app/services/traefik.py` | `conf.d/client-*.yml` | generate, write atomically, unlink |
| custom domains | `app/routers/domains.py`, `app/services/dns_poller.py` | custom_domains rows, one poller each | add, status, verify, remove, poll |
| tenants and keys | `app/routers/tenants.py`, `app/auth.py` | tenants and api_keys rows | create, delete, issue, revoke, authenticate |

How they meet: the endpoints commit a row and leave the rest to background tasks, which call Cloudflare and
Docker. Docker answers through the event stream, and the listener, not the task, turns `provisioning` into
`active` and a crash into `error`. All three write `servers.status`, each from a row it read before an await.

What is hard here: every status update is a read, an await and an `UPDATE ... WHERE id`, so it may overwrite a
status committed meanwhile; events name a container by its subdomain, which a later server may reuse; a failed
step leaves something in one of four places (database, Docker, Cloudflare, file system); background tasks die
with the process; the subscription to Docker may break, or be refused a thread. The hazards in `PROJECT.json`
list these with their lines, and the properties that watch them or the reason why none does yet.

What makes each component correct:

- endpoints and tasks: what the API was ever given an id of can be found again (`NoOrphanContainer`,
  `NoOrphanDns`); of a failed provisioning nothing of that kind remains (`FailedProvisionRolledBack`); delete
  releases everything (`DeletedServersReleased`, `DeleteReleases`); suspend stops the containers for as long as it
  lasts (`SuspendStops`); nobody leaves a server in provisioning with nothing to wait for
  (`NoneStranded`);
- servers table: ids of its own containers only (`ContainersAreOwn`);
- listener: provisioning ends (`ProvisioningSettles`), what Docker reports reaches the row (`HealthHeard`,
  `CrashReported`), requested stops are not crashes (`StopIsNoCrash`), a delete is not overwritten
  (`DieSparesDeleted`), and a listener that crashed listens again (`ListenerReconnects`);
- Docker operations: the containers of a server are one unit, which a call moves whole or, when a creation
  fails, not at all (`KeepsContract`), every call returns (`CallsReturn`), and a call touches no container of
  another server (`TouchesOnlyOwn`);
- custom domains: a domain that waits for DNS is looked after (`PendingIsPolled`) until it is verified or failed
  (`DomainSettles`), a removed one stays removed (`RemovedStaysRemoved`);
- tenants and keys: what belongs to a tenant does not outlive it (`ReferencesHold`), and only it changes its
  servers (`OwnTenantOnly`);
- Traefik files: Traefik can load them (`FilesRoute`).

## Modules

`Platform` <- `EventListener` <- `ServerTasks` <- `Provisioning` <- `MCProvisioning`; each EXTENDS the one before
it. `ProvisioningProofs` EXTENDS `Provisioning`, `OrphanProofs` EXTENDS `ProvisioningProofs`, and `CleanupProofs`
EXTENDS `OrphanProofs`. Beside this chain, which has the life of a server with its containers as one unit, stand
three systems of their own: `DockerService`, which implements `ContainerUnit`; `CustomDomains` <- `MCDomains`; and `Traefik` <-
`Accounts` <- `MCAccounts`. The proofs of each extend it: `DockerProofs` and, for the refinement, `ContractProofs` EXTENDS
`DockerProofs`; `DomainProofs`; `AccountProofs`. The systems share no variable with the chain because the code's
parts meet there only in the server row, of which each keeps the columns it uses.

**Platform** has the state the API acts on. `status`, `saved` and `dnsSaved` are the columns of the servers table
(the server and preview ids are written together, so `saved` is one id); `dns` has the A records by the server they
were made for; `conf` says which server the file of a subdomain routes to; `cstate` and `owner` are Docker's view of a
container; `events` is what Docker delivered and the listener has not taken, `stream` the connection. `SetStatus` is
the unguarded UPDATE, `IndexAllows` the partial unique index. The containers of a server are one unit: they are
started, stopped and removed together. Docker keeps names unique, drops events nobody is subscribed to, refuses
to remove a container that is up, and restarts one that crashes. Ids that nothing refers to are used again, so that a
finite `Container` stands for an unlimited supply.

Failures are not all-or-nothing. A call of Cloudflare may make the record and lose the answer: the record is in `lost`, not
in `dns`, because nobody has its id. A start may leave a container that was created but could not be started, or
whose clean-up failed: its state is `left`, it holds the names of the subdomain and may still report to Docker, and
nobody was given its id. `Made` is the opposite, a container whose start was answered. The properties about orphans and
rollback speak of `dns` and `Made`. What is in `lost`, and what is `left`, may remain for ever: the code has no way to find it.

**EventListener** is `docker_events.py`: `lsn` has the place of the coroutine, the snapshot of the recovery pass and
the pending decision. Reading a row and committing to it are two actions (`RecoverRecheck`, `TakeEvent`, then
`ListenerCommit`). A commit that the index refuses, or that fails, raises out of the handler: the listener starts
over, but its thread stays in the old stream (`stream = "stale"`) and the executor has only one, so `Subscribe`
has to wait. A stream that breaks raises at the end of the queue (`StreamLost`); one that ends leaves the
listener waiting (`stream = "ended"`).

**ServerTasks** is `servers.py`. A task is a request with the background work behind it; an action ends where
the coroutine awaits something that changes state. `Begin` is the read of the row at the head of a handler: what
it returned (status, ids, DNS id) travels with the task, as it does in the code, where `expire_on_commit` is off. A
request answered with 404 or 409 changes nothing and is no action. `Faults` names the calls that may fail, the commit of
a status (`commit_status`) and the refresh of a row after a commit (`refresh`) among them: a handler that raises there schedules
no background work. A commit that raises is taken not to have been made. The
rollback of provisioning is one action per resource.

**Provisioning** composes them, adds Docker acting on its own (`HealthPass`, `Crash`, ...) and `Restart`, and has the
properties. `MCProvisioning` gives TLC its values.

**ContainerUnit** is the abstract specification of the Docker operations, what `servers.py` relies on: a call begins,
Docker may disturb it, and it returns with one of the `Outcomes` of its operation on the unit (`absent`, `up`,
`down`), or with anything when it was disturbed or the unit was `broken` before (`Safe`). Every call returns (`Live`).

**DockerService** is `docker_service.py` with the three containers of each server (server, preview, sidecar) and one
Docker request per step. `StartSteps`, `StopSteps` and so on are the requests of each function in their order (`Program`). A
call keeps the set of the steps it has left (`todo`), and takes the first of them (`Due`). The steps of one role are
one `try` block, so a failed step drops the other steps of its role (`Skip`). A
creation that fails cleans up what it has in its variables (`Undo`). The server and preview containers are found
by the id the row had, the sidecar by its name (`Finds`). A subdomain is the sequence of its segments between
hyphens, so that the names of `x` and `proxy-x` collide as they do in Docker. `Contract` maps the containers of
a server to a unit: `up` or `down` when exactly the three containers the row knows are there in that state, `absent` when
there are none, `broken` otherwise; during a call the unit is what it was when the call began (`was`), and a call is
spoilt when Docker failed it (`hurt`). Both are history fields. `active` stands for the listener: the servers it would
have made active when their call returned. `preview_use_sidecar` is on.

**CustomDomains** is `domains.py` and `dns_poller.py`. A request reads its server and the domain (`Read`, `Add`), and
commits in a later step what it decided then; `seen` is the status it read, because SQLAlchemy writes nothing when the
status is assigned the value it was loaded with. A poller wakes, reads and resolves in one step, where a
successful lookup leads to a commit in another (`PollTry`, `PollCommit`): the row may have changed in between. An
UPDATE of a removed row raises, in a poller and in a request. A lookup that raises something else than an `OSError`, or a
session call that raises, ends a poller with the row as it is (`PollRaises`) and a request without a poller
(`RequestRaises`, `AddInsert`); `raised` is a history variable with the rows this has happened to since their
verification was last scheduled.

**Traefik** has the file as a function of the addons, with names `f"{kind}-{subdomain}"` as pairs. **Accounts** adds
the tables of tenants, keys and servers (owner, state, addons), the requests of the tenant and the server
endpoints, the client file of each *subdomain* by the addons it was made from, and the restart, which writes the files of
live servers again, or fails to. Requests overlap as they like and may raise at any step (`Fails`); `fresh` has the servers
whose background provisioning runs, which may fail and unlink the file (`Provisioned`). The foreign keys are guards of inserts
(`Referable`) and of the delete of a tenant: SQLAlchemy would
set the columns of its keys and servers to NULL, which they do not allow, so a tenant that has any stays.

The operators marked as slips in the modules are plausible wrong versions of the definition after them. No run
uses them by itself: they are what each property is tested against (`mutants` in `PROJECT.json`).

## Runs

| run | instance | shows |
|---|---|---|
| `concurrent` | 1 server, 2 tasks, 2 containers, a failing stream | with two requests at a time and every failure after which the code cleans up, what the API was given an id of can be found again, a failed provisioning leaves none of it, and no server is stranded in provisioning |
| `hostile` | 2 servers of one subdomain, 1 task, all faults but crashes, restarts | ids stay own |
| `overlap` | 1 server, 2 tasks, a failed start, crashes | delete and suspend keep their promises when requests overlap, as long as nothing provisions or resumes the server meanwhile |
| `settles` | 1 server, 2 tasks, failed steps, crashes, no resume | provisioning ends, or waits for a health check; health and crashes reach the row |
| `containers` | `x` (created twice) and `proxy-x` (once), 2 faults of every kind | `DockerService` implements the safety of `ContainerUnit` and its liveness; no call reaches another server's containers |
| `domains` | 1 server, 1 domain, 2 rows, 2 requests with a poller each, 2 attempts, all faults | a domain that waits is looked after, and its verification ends, unless an exception ended that; a removed one stays removed |
| `accounts` | 2 tenants, 2 keys, 1 server, 2 requests, all faults | references and tenants hold, files load |

| finding | instance | the trace |
|---|---|---|
| `delete_final` | 1 server, 1 task, a crash | the die handler writes error over a committed delete |
| `delete_releases` | 1 server, 2 tasks, no fault | delete during provisioning leaks containers and DNS record |
| `stop_misread` | 1 server, 1 task, no fault, two events in the queue | the die event of a suspend is taken for a crash when the resume has begun |
| `resume_routes` | 1 server, 1 task, a failed start | resume after failed provisioning leaves the server unreachable |
| `reconnects` | 2 servers of one subdomain, 1 task, crashes | the listener is deaf after a refused commit |

The models show other disagreements with the repository's README, which no run is kept for. The notes of the hazards name the
definitions they follow from.

| src/README.md | what it says | what the code does |
|---|---|---|
| :313 | suspend "Stops the GTM containers" | during provisioning it finds no ids, and they come up after it (`SuspendStops` has this overlap as its premise) |
| :325 | resume is "Idempotent — returns immediately if already active" | an active server is put in provisioning, and no health event ends that |
| :531 | recovery "handles cases where the API restarted while a container was starting up" | not before the ids are saved |
| :206 | "On any failure, all created resources are rolled back" | a record whose answer was lost, and a container that could not be started, remain |
| :307 | "A deleted server's subdomain can be reused by a new server" | the rollback of the old server may unlink the file of the new one |
| :396 | `409` if the "server already has a custom domain" | two requests at a time both succeed |
| :411 | `failed` is "Verification failed after max retries" | a lookup that raises leaves the row `pending_dns` |
| :289 | "only the specified keys are changed, others are preserved" | of two overlapping PATCH requests the later takes the other's addon back |
| :291 | "Updating `addons` regenerates the Traefik config" | the rest of a creation may write the old file over it |
| :155 | a tenant goes when its servers are deprovisioned | not if it has a key, or deleted servers |

Bounds. One server with two tasks shows every interleaving of two operations on a row; two servers
of one subdomain are two incarnations of it (the index keeps their lives apart), which is where names, stale events
and the index matter. A single task is a client that waits until the work behind its last request is done. Two container ids
are enough for one that exists and one that a row still names after it is gone, or one that was left behind. `MaxQueue`
stops requests and accidents while that many events wait; the system's own steps are never held up by it. With one event, no
request can come in before the die event of a stop is taken, which is why `stop_misread` has two. A row is created once.
`CHECK_DEADLOCK FALSE`, because the system may come to rest, with all servers deleted.

`overlap` checks implications between temporal formulas (`DeletesApart`, always, implies that the promise holds, always),
because the promises are about histories in which certain requests did not meet. With a single task nothing meets, so they are
also what a client gets that waits.

`containers` has the two subdomains whose names collide; `MaxGen` bounds the creations of each (a second creation of `x`
makes ids in a row stale, and a resume that has to create anew possible), `MaxFaults` how often something goes
wrong. In `domains`, `Row` bounds registrations (one is removed and the domain registered again), a request has one poller at
a time, so that two requests give two pollers of one row, and `MaxAttempts = 2`
has a first and a last attempt. In `accounts`, two requests are enough for a deletion of a tenant against a request that
creates, and for every overlap of two writers of a file. Ids of a kind are interchangeable, which the MC modules tell TLC in the
runs that check safety alone.

What the runs leave out, on purpose: `concurrent` and `overlap` exclude failures after which the code itself gives
up a resource or a server (a swallowed stop, `save_resumed_ids`, a DNS deletion that is only logged, a refresh or the commit of
an error that raises, restarts); the hazards say so. `hostile` includes all of them, with the property that holds regardless.
A PATCH concerns the file alone; `concurrent` and `overlap` do without it, `settles` has it. `settles` has no resume, because a resume of an active server waits for a health event that does not come, no reuse of a
subdomain (`reconnects`), and no stream that breaks.

`containers` assumes of the callers that calls on one server follow each other, and of the operator that all containers of
a server go together; the hazards have the other cases, and what overlapping calls do to a server as a whole is in
`Provisioning`. `domains` has no restart: pollers do not survive one, and nothing starts
them again. Requests that are refused, and those that only read, change nothing; `LookUp` stands for them in `accounts`,
because they hold a looked up key.

Fairness (`FairSpec`). The event loop runs a coroutine that can run: weak fairness of each task and of the listener. That
a container ever passes its health check is not assumed (nothing in the code bounds that wait), which is why
`ProvisioningSettles` excepts a server whose containers run and are not healthy. Requests, crashes and failures are
never assumed. `FairSpec` starts with a subscribed listener: what Docker reports before that is lost (a hazard).

`DockerService`: weak fairness of each call, because Docker answers each request, with success or an error, and the
thread goes on. `CustomDomains`: weak fairness of each handler and of each poller, which the event loop runs; that a
name resolves is not assumed, the attempts end. `Accounts` has no fairness and no liveness property.

## Proofs

`ProvisioningProofs` proves for any number of servers, containers, subdomains and tasks, all faults and restarts:

- `TypeCorrect`: `Spec => []TypeOK`. `TypeOK` is not inductive, because a handler dereferences what it read:
  `Shape` adds that a task that is not idle names a server, that one about to use containers holds their id, that
  the listener names a server and a reason when it is about to commit, and that an existing container has an owner.
  One lemma per group of actions, the groups being what an action changes.
- `Ownership`: `Spec => []ContainersAreOwn`. Ids only travel, between a row and tasks of the same server; a
  container that exists keeps its owner; a new one gets an id nobody refers to (`TravelKeepsOwn`, `StartKeepsOwn`).

That the live rows of a subdomain are unique (`OneLivePerSubdomain`) is what the database index guards; it is a lemma there
(`UniqueSubdomain`), which the proofs about statuses use.

`OrphanProofs` proves, for the same constants, that nothing is created that cannot be found again. These two theorems
have premises, which name the failures after which the code does lose track:

- `DnsFindable`: `Spec => []NoOrphanDns`, for the records whose creation was answered, provided Cloudflare takes the delete of a record (the rollback
  only logs a refusal) and the process does not die. `NoOrphanDns` is inductive: a step either has no record in hand
  (`DnsFree`) or passes it on to the row or to the next step of the rollback (`DnsStepKeeps`).
- `ContainersFindable`: `Spec => []NoOrphanContainer`, for the containers whose start was answered, provided Docker stops what it is asked to, a resume can save its
  ids, nobody removes containers from outside and the process does not die (`NoTrackLost`). The invariant needs
  three more facts (`Findable`). `Exclusive`: an id that is not saved yet is in no row and in no other task, so that
  nobody restarts or removes what a rollback or a provisioning holds. `HeldState`: what is about to be saved exists, and
  what is about to be removed is down, so that Docker does not refuse. `OneUnitPerSubdomain`: Docker's unique names leave
  a server one container, so that saving an id does not overwrite the last reference to another one. That a resume and
  a provisioning can run on one server at the same time is what makes these necessary.

`CleanupProofs` proves what requests leave behind, for any number of requests that overlap, from premises that name failures
and, for two of the theorems, the requests that must not meet.

- `RollbackComplete`: `Spec => []FailedProvisionRolledBack`, from `NoTrackLost` and no refused delete of a record. A record of a
  server without saved containers is in the hands of the task that made it (`RecordsUsed`); the containers that were made are
  saved or held (`NoOrphanContainer`).
- `Unstranded`: `Spec => []NoneStranded`, provided the process does not die and no commit of a status and no refresh raises
  (`Settling`); every other failure, and all requests, are in. A server in provisioning without ids has a task that minds it
  (`Minded`): one that is past the commit of `provisioning` and will save ids or write another status. A minder goes on
  minding (`MinderGoesOn`); that it can write error over a live row is `UniqueSubdomain`; a resume that ends at a container it
  found knew ids, which the row therefore still has (`KnewIds`).
- `SuspendComplete`: `Spec => SuspendStops`, from `NoTrackLost` and no refresh that raises. While a server is being suspended
  nothing makes or resumes (`SuspendsApart`), so the suspending task knows the one container that may be up (`SuspendKnows`, from
  `RowHasAll`); nobody who is past its own commit wakes a suspended server (`Awake`); so it is down or a task is about to stop
  it (`Down`).
- `DeleteComplete`: `Spec => DeleteReleases`, from `CleansUp`. Likewise, with how much a delete has released so far
  (`DeleteKnows`), and what is left of a deleted server without one (`Gone`).
- All but the first use what a step of one task leaves alone on a server nobody makes anything for (`StepStill`, `StepCalm`), and
  where a task may be after its step (`NextPc`).

The premises `SuspendsApart` and `DeletesApart` are not guaranteed by the code: a suspend during provisioning, and the finding
`delete_releases`, are what happens without them. They exclude the overlap that breaks the promise and no other one; two
deletes, two suspends, a suspend and a delete, a PATCH during a suspend, and anything on other servers are in.

`DomainProofs` proves, for any number of servers, domains, rows, requests and attempts, and with lookups and session calls that
raise, `DomainsTypeCorrect`, `PendingPolled` and `RemovedForGood`. The first needs `Shape`-like facts again: a request about to
verify, remove or start, and a poller that is not idle, name a row. `PendingPolled` needs nothing more: a
request gives up a row only by handing it to its poller or by raising, and a poller leaves a row only when it is not pending,
when it makes it so, or when it raises (`StepPolled`). The last follows from what a step can do to the rows.

`AccountProofs` proves, for any number of tenants, keys, servers and requests, with every failure, `AccountsTypeCorrect`,
`ForeignKeysHold`, `TenantsKeptApart` and `FilesAlwaysRoute`. The invariant (`Typed`) adds to the types that a request with a
server acts for the server's tenant, which holds because no step changes an owner (`RowsKept`). `FilesAlwaysRoute` rests on
a lemma about `Traefik` for every set of addons (`FileLoads`).

`DockerProofs` proves, for any set of subdomains, names that meet included, and any number of creations and
faults, `TypesHold` (`Spec => []TypeOK`) and `OnlyOwnTouched` (`Spec => TouchesOnlyOwn`).

- It starts from the names, as sequences: a server's three names differ (`NamesDiffer`), two servers have no name in
  common for one role (`NamesApart`). For different roles they may have one, so the second theorem is not about names.
- The invariant `IInv` has a container under the name formed for it (`WellNamed`), and for each server: the function its
  call is in (`Shape`), what a creation has made so far and that the row does not know it (`Creating`, `Unsaved`), the ids a
  call was given (`Given`), that a row which knows its server container also has its sidecar (`Sidecar`), and that a
  call with the sidecar still to stop has looked for the server container and found it (`Looked`). With the last two,
  what a call finds under the sidecar's name is its own (`FoundIsOwn`). `Looked` is why the sidecar has to come before the server
  container in a stop. `Active` carries it over a restart, after which `sync_sidecars` starts sidecars without looking.
- A step of one server leaves the facts about the others alone, because these are about containers they
  own (`Reach`, `Elsewhere`, `UntouchedKeeps`); so each action is proved for its own server only (`Compose`).

`ContractProofs` proves `ContractKept`: `Spec => KeepsContract`, the refinement of the safety of `ContainerUnit`.

- `PInv` says of each undisturbed call how far it has come (`Progress`): for every function, which of the three containers is
  up, down or gone, by the steps that are left, and what the unit was before. One lemma per action. Where nothing is found, or
  a removal is refused because the container runs, the progress says that there was nothing to be found.
- A finished call has therefore made one of the `Outcomes` of its operation (`Outcome`). The mapping: a request is
  an `Invoke`; a step of a call is a `Disturb` when it hurts the call and otherwise nothing, for its unit is
  seen as it was before the call, and the units of the others do not change (`UnitElsewhere`); the rest are the actions of
  the same name.
- Writing the proof showed that the cases of `Outcomes` overlapped, which TLC resolves by their order and the meaning of
  `CASE` does not; they are now disjoint.

The other assumptions are those on the constants: types, and that `None` is nobody and `Idle` neither a server nor a
call. Model-checked only is what liveness there is
(`ProvisioningSettles`, `HealthHeard`, `CrashReported`, `DomainSettles`, `CallsReturn`), which
needs fairness and ENABLED, out of the prover's reach. Every other property of the passing runs is proved, from premises where
said.

## Plan

1. Done: the life of a server (`Platform` to `Provisioning`), the Docker operations and their contract, custom
   domains, tenants and keys, Traefik files; their runs and theorems.
2. Done: lost answers and half-made containers, pollers and requests that raise, what overlapping requests leave behind.
3. An abstract specification of a server's life (requested, running, stopped, gone) that the system implements where
   `DeletesApart` and `SuspendsApart` hold.
4. Overlapping calls on one server in `DockerService`; restarts in `CustomDomains`.

## Not modelled

Reads (list, get, health, snippet) change nothing. Input validation, settings, logging, response models, migrations, the
names and container configurations of servers, and what Traefik is told about TLS, limits and headers are left out. Cloudflare is assumed
to accept two records of one name; a refusal is the fault `create_a_record`. The `local-` records of
`mock_cloudflare` are the same record by another name. Restarts of the Traefik container change no state of the model. A
domain's status `active` is not in the model because no code sets it.
