---------------------------- MODULE AccountProofs ----------------------------
(***************************************************************************)
(* Proofs about tenants, keys, servers and the files made for them, for    *)
(* any number of each and any number of requests.                          *)
(***************************************************************************)
EXTENDS Accounts, TLAPS

(***************************************************************************)
(* What a request knows.  One that goes on with a server has the server's  *)
(* tenant for its own: the owner of a row never changes.                   *)
(***************************************************************************)
WithServer == {"write_new", "write", "rewrite", "save", "delete", "unlink"}
WithTenant == {"authed", "key_insert", "tenant_check", "tenant_delete"}

RequestShape(v, rows) ==
    /\ v \in RequestState
    /\ v.pc \in WithTenant => v.who \in Tenant
    /\ v.pc = "key_delete" => v.key \in Key
    /\ v.pc \in WithServer => /\ v.srv \in Server
                              /\ rows[v.srv].st # "unborn"
                              /\ rows[v.srv].owner = v.who

TenantsTyped ==
    /\ tenant \in [Tenant -> {"unborn", "here", "gone"}]
    /\ key \in [Key -> Tenant \cup {None}] /\ spent \subseteq Key
ServersTyped ==
    /\ server \in [Server -> ServerRow]
    /\ \A s \in Server : /\ server[s].st # "unborn" => server[s].owner \in Tenant
                         /\ server[s].st = "unborn" => server[s].owner = None
FilesTyped ==
    file \in [Subdomain -> (SUBSET Addon) \cup {None}] /\ fresh \subseteq Server
RequestsTyped ==
    req \in [Request -> RequestState] /\ \A q \in Request : RequestShape(req[q], server)
Typed == TenantsTyped /\ ServersTyped /\ FilesTyped /\ RequestsTyped /\ ReferencesHold

LEMMA IdleShape == \A rows : RequestShape(Idle, rows)
BY DEF RequestShape, RequestState, Idle, WithServer, WithTenant

LEMMA InitTyped == Init => Typed
<1> SUFFICES ASSUME Init PROVE Typed
  OBVIOUS
<1>1. TenantsTyped /\ FilesTyped /\ ReferencesHold
  BY DEF Init, TenantsTyped, FilesTyped, ReferencesHold
<1>2. ServersTyped
  BY DEF Init, ServersTyped, ServerRow
<1>3. RequestsTyped
  BY IdleShape DEF Init, RequestsTyped, RequestShape
<1> QED BY <1>1, <1>2, <1>3 DEF Typed

(***************************************************************************)
(* The moves the actions are made of.                                      *)
(***************************************************************************)
RowsKept ==
    \A s \in Server : server[s].st # "unborn" =>
        server'[s].st # "unborn" /\ server'[s].owner = server[s].owner

LEMMA RequestUpdate ==
    ASSUME RequestsTyped, RowsKept, NEW q \in Request, NEW v, RequestShape(v, server'),
           req' = [req EXCEPT ![q] = v]
    PROVE  RequestsTyped'
<1>1. \A p \in Request : RequestShape(req[p], server')
  BY DEF RequestsTyped, RowsKept, RequestShape
<1>2. v \in RequestState /\ req \in [Request -> RequestState]
  BY DEF RequestShape, RequestsTyped
<1>3. req' \in [Request -> RequestState]
  BY <1>2
<1>4. \A p \in Request : RequestShape(req'[p], server')
  BY <1>1, <1>2
<1> QED BY <1>3, <1>4 DEF RequestsTyped

LEMMA Answered ==
    ASSUME RequestsTyped, RowsKept, NEW q \in Request, Answer(q)
    PROVE  RequestsTyped'
BY IdleShape, RequestUpdate DEF Answer

LEMMA Unchanged ==
    /\ TenantsTyped /\ UNCHANGED <<tenant, key, spent>> => TenantsTyped'
    /\ ServersTyped /\ UNCHANGED server => ServersTyped' /\ RowsKept
    /\ FilesTyped /\ UNCHANGED <<file, fresh>> => FilesTyped'
    /\ RequestsTyped /\ UNCHANGED <<server, req>> => RequestsTyped'
    /\ ReferencesHold /\ UNCHANGED <<tenant, key, server>> => ReferencesHold'
BY DEF TenantsTyped, ServersTyped, RowsKept, FilesTyped, RequestsTyped, ReferencesHold

\* A request that moves on with nothing else changed.
LEMMA OnlyRequest ==
    ASSUME Typed, NEW q \in Request, NEW v, RequestShape(v, server),
           req' = [req EXCEPT ![q] = v], UNCHANGED <<tenant, key, spent, server, file, fresh>>
    PROVE  Typed'
<1>1. RequestShape(v, server') /\ RowsKept
  BY Unchanged DEF Typed
<1> QED BY <1>1, RequestUpdate, Unchanged DEF Typed

(***************************************************************************)
(* The actions.                                                            *)
(***************************************************************************)
LEMMA TenantStep ==
    ASSUME Typed, NEW q \in Request, NEW t \in Tenant,
           CreateKey(q, t) \/ DeleteTenant(q, t)
    PROVE  Typed'
<1>1. PICK pc \in {"key_insert", "tenant_check"} : ReadTenant(q, t, pc)
  BY DEF CreateKey, DeleteTenant
<1> DEFINE v == [Idle EXCEPT !.pc = pc, !.who = t]
<1>2. RequestShape(v, server)
  BY DEF RequestShape, RequestState, Idle, WithServer, WithTenant
<1> QED BY <1>1, <1>2, OnlyRequest DEF ReadTenant, Goto

LEMMA KeyStep ==
    ASSUME Typed, NEW q \in Request, NEW k \in Key, RevokeKey(q, k) \/ Authenticate(q, k)
    PROVE  Typed'
<1>1. CASE RevokeKey(q, k)
  <2>1. RequestShape([Idle EXCEPT !.pc = "key_delete", !.key = k], server)
    BY DEF RequestShape, RequestState, Idle, WithServer, WithTenant
  <2> QED BY <1>1, <2>1, OnlyRequest DEF RevokeKey, Goto
<1>2. CASE Authenticate(q, k)
  <2>1. key[k] \in Tenant
    BY <1>2 DEF Authenticate, Typed, TenantsTyped
  <2>2. RequestShape([Idle EXCEPT !.pc = "authed", !.who = key[k]], server)
    BY <2>1 DEF RequestShape, RequestState, Idle, WithServer, WithTenant
  <2> QED BY <1>2, <2>2, OnlyRequest DEF Authenticate, Goto
<1> QED BY <1>1, <1>2

LEMMA InsertKeyStep ==
    ASSUME Typed, NEW q \in Request, InsertKey(q)
    PROVE  Typed'
<1>1. RequestShape(req[q], server) /\ req[q].who \in Tenant
  BY DEF InsertKey, At, Typed, RequestsTyped, RequestShape, WithTenant
<1>2. TenantsTyped' /\ ReferencesHold'
  BY <1>1 DEF InsertKey, Referable, Typed, TenantsTyped, ServersTyped, ReferencesHold
<1> QED BY <1>2, Answered, Unchanged DEF InsertKey, Typed

LEMMA CheckTenantStep ==
    ASSUME Typed, NEW q \in Request, CheckTenant(q)
    PROVE  Typed'
<1>1. RequestShape(req[q], server) /\ req[q].pc = "tenant_check"
  BY DEF CheckTenant, At, Typed, RequestsTyped
<1>2. RequestShape([req[q] EXCEPT !.pc = "tenant_delete"], server)
  BY <1>1 DEF RequestShape, RequestState, WithServer, WithTenant
<1> QED BY <1>2, IdleShape, OnlyRequest DEF CheckTenant, Answer, To, Goto

LEMMA RemoveTenantStep ==
    ASSUME Typed, NEW q \in Request, RemoveTenant(q)
    PROVE  Typed'
<1> DEFINE t == req[q].who
<1>1. t \in Tenant
  BY DEF RemoveTenant, At, Typed, RequestsTyped, RequestShape, WithTenant
<1>2. CASE KeysOf(t) = {} /\ RowsOf(t) = {}
  <2>1. tenant' = [tenant EXCEPT ![t] = "gone"]
    BY <1>2 DEF RemoveTenant
  <2>2. /\ \A k \in Key : key[k] # t
        /\ \A s \in Server : server[s].owner # t
    BY <1>2 DEF KeysOf, RowsOf
  <2>3. TenantsTyped' /\ ReferencesHold'
    BY <1>1, <2>1, <2>2 DEF RemoveTenant, Typed, TenantsTyped, ServersTyped, ReferencesHold
  <2> QED BY <2>3, Answered, Unchanged DEF RemoveTenant, Typed
<1>3. CASE ~(KeysOf(t) = {} /\ RowsOf(t) = {})
  BY <1>3, IdleShape, OnlyRequest DEF RemoveTenant, Answer
<1> QED BY <1>2, <1>3

LEMMA RemoveKeyStep ==
    ASSUME Typed, NEW q \in Request, RemoveKey(q)
    PROVE  Typed'
<1>1. req[q].key \in Key
  BY DEF RemoveKey, At, Typed, RequestsTyped, RequestShape
<1>2. TenantsTyped' /\ ReferencesHold'
  BY <1>1 DEF RemoveKey, Typed, TenantsTyped, ReferencesHold
<1> QED BY <1>2, Answered, Unchanged DEF RemoveKey, Typed

LEMMA CreateServerStep ==
    ASSUME Typed, NEW q \in Request, NEW s \in Server, NEW addons \in SUBSET Addon,
           CreateServer(q, s, addons)
    PROVE  Typed'
<1> DEFINE new == [owner |-> req[q].who, st |-> "live", addons |-> addons]
           v   == [req[q] EXCEPT !.pc = "write_new", !.srv = s, !.addons = addons]
<1>1. /\ req[q] \in RequestState /\ req[q].pc = "authed" /\ req[q].who \in Tenant
  BY DEF CreateServer, At, Typed, RequestsTyped, RequestShape, WithTenant
<1>2. CASE Referable(req[q].who)
  <2>1. server' = [server EXCEPT ![s] = new] /\ req' = [req EXCEPT ![q] = v]
    BY <1>2 DEF CreateServer, Goto
  <2>2. new \in ServerRow
    BY <1>1 DEF ServerRow
  <2>3. ServersTyped' /\ RowsKept
    BY <1>1, <2>1, <2>2 DEF CreateServer, Typed, ServersTyped, RowsKept
  <2>4. RequestShape(v, server')
    BY <1>1, <2>1 DEF Typed, ServersTyped, RequestShape, RequestState, WithServer, WithTenant
  <2>5. ReferencesHold'
    BY <1>1, <1>2, <2>1 DEF CreateServer, Referable, Typed, ServersTyped, ReferencesHold
  <2> QED BY <2>1, <2>3, <2>4, <2>5, RequestUpdate, Unchanged DEF CreateServer, Typed
<1>3. CASE ~Referable(req[q].who)
  BY <1>3, IdleShape, OnlyRequest DEF CreateServer, Answer
<1> QED BY <1>2, <1>3

LEMMA WriteFileStep ==
    ASSUME Typed, NEW q \in Request, WriteFile(q)
    PROVE  Typed'
<1>1. /\ RequestShape(req[q], server) /\ req[q].pc \in {"write_new", "write", "rewrite"}
      /\ req[q].srv \in Server /\ req[q].addons \in SUBSET Addon
  BY DEF WriteFile, At, Typed, RequestsTyped, RequestShape, RequestState, WithServer
<1>2. FilesTyped'
  BY <1>1, SubdomainAssumption DEF WriteFile, Typed, FilesTyped
<1>3. RequestShape([req[q] EXCEPT !.pc = "save"], server')
  BY <1>1 DEF WriteFile, RequestShape, RequestState, WithServer, WithTenant
<1>4. RequestsTyped'
  BY <1>3, Answered, RequestUpdate, Unchanged DEF WriteFile, To, Goto, Typed
<1> QED BY <1>2, <1>4, Unchanged DEF WriteFile, Typed

LEMMA UpdateServerStep ==
    ASSUME Typed, NEW q \in Request, NEW s \in Server, NEW a \in Addon, UpdateServer(q, s, a)
    PROVE  Typed'
<1>1. /\ req[q] \in RequestState /\ server[s] \in ServerRow
      /\ server[s].owner = req[q].who /\ server[s].st = "live"
  BY DEF UpdateServer, Visible, Live, Typed, RequestsTyped, ServersTyped
<1>2. PICK merged \in SUBSET Addon, pc \in {"write", "rewrite"} :
        req' = [req EXCEPT ![q] = [req[q] EXCEPT !.srv = s, !.addons = merged, !.pc = pc]]
  BY <1>1 DEF UpdateServer, Goto, ServerRow
<1>3. RequestShape([req[q] EXCEPT !.srv = s, !.addons = merged, !.pc = pc], server)
  BY <1>1 DEF RequestShape, RequestState, WithServer, WithTenant
<1> QED BY <1>2, <1>3, OnlyRequest DEF UpdateServer

\* The commits that change a row: its owner and its birth stay.
LEMMA RowCommit ==
    ASSUME Typed, NEW q \in Request, NEW new \in ServerRow, req[q].pc \in WithServer,
           new.owner = server[req[q].srv].owner, new.st # "unborn",
           server' = [server EXCEPT ![req[q].srv] = new]
    PROVE  ServersTyped' /\ RowsKept /\ (UNCHANGED <<tenant, key>> => ReferencesHold')
<1>1. /\ req[q].srv \in Server /\ server[req[q].srv].st # "unborn"
  BY DEF Typed, RequestsTyped, RequestShape
<1> QED BY <1>1 DEF Typed, ServersTyped, RowsKept, ReferencesHold

LEMMA SaveAddonsStep ==
    ASSUME Typed, NEW q \in Request, SaveAddons(q)
    PROVE  Typed'
<1> DEFINE new == [server[req[q].srv] EXCEPT !.addons = req[q].addons]
<1>1. /\ req[q].pc \in WithServer /\ req[q].srv \in Server
      /\ server[req[q].srv] \in ServerRow /\ server[req[q].srv].st # "unborn"
      /\ req[q].addons \in SUBSET Addon
  BY DEF SaveAddons, At, Typed, RequestsTyped, RequestShape, RequestState, WithServer, ServersTyped
<1>2. new \in ServerRow /\ new.owner = server[req[q].srv].owner /\ new.st # "unborn"
  BY <1>1 DEF ServerRow
<1>3. server' = [server EXCEPT ![req[q].srv] = new]
  BY DEF SaveAddons
<1>4. ServersTyped' /\ RowsKept /\ ReferencesHold'
  BY <1>1, <1>2, <1>3, RowCommit DEF SaveAddons
<1> QED BY <1>4, Answered, Unchanged DEF SaveAddons, Typed

LEMMA DeleteServerStep ==
    ASSUME Typed, NEW q \in Request, NEW s \in Server, DeleteServer(q, s)
    PROVE  Typed'
<1>1. /\ req[q] \in RequestState
      /\ server[s].owner = req[q].who /\ server[s].st = "live"
  BY DEF DeleteServer, Visible, Live, Typed, RequestsTyped
<1>2. RequestShape([req[q] EXCEPT !.pc = "delete", !.srv = s], server)
  BY <1>1 DEF RequestShape, RequestState, WithServer, WithTenant
<1> QED BY <1>2, OnlyRequest DEF DeleteServer, Goto

LEMMA CommitDeleteStep ==
    ASSUME Typed, NEW q \in Request, CommitDelete(q)
    PROVE  Typed'
<1> DEFINE new == [server[req[q].srv] EXCEPT !.st = "deleted"]
           v   == [req[q] EXCEPT !.pc = "unlink"]
<1>1. /\ RequestShape(req[q], server) /\ req[q].pc \in WithServer /\ req[q].srv \in Server
      /\ server[req[q].srv] \in ServerRow
  BY DEF CommitDelete, At, Typed, RequestsTyped, RequestShape, WithServer, ServersTyped
<1>2. new \in ServerRow /\ new.owner = server[req[q].srv].owner /\ new.st # "unborn"
  BY <1>1 DEF ServerRow
<1>3. server' = [server EXCEPT ![req[q].srv] = new]
  BY DEF CommitDelete
<1>4. ServersTyped' /\ RowsKept /\ ReferencesHold'
  BY <1>1, <1>2, <1>3, RowCommit DEF CommitDelete
<1>5. RequestShape(v, server')
  BY <1>1, <1>4 DEF RowsKept, RequestShape, RequestState, WithServer, WithTenant
<1>6. RequestsTyped'
  BY <1>4, <1>5, RequestUpdate DEF CommitDelete, To, Goto, Typed
<1> QED BY <1>4, <1>6, Unchanged DEF CommitDelete, Typed

LEMMA UnlinkFileStep ==
    ASSUME Typed, NEW q \in Request, UnlinkFile(q)
    PROVE  Typed'
<1>1. FilesTyped'
  BY DEF UnlinkFile, Typed, FilesTyped
<1> QED BY <1>1, Answered, Unchanged DEF UnlinkFile, Typed

LEMMA ProvisionedStep ==
    ASSUME Typed, NEW s \in Server, Provisioned(s)
    PROVE  Typed'
<1>1. FilesTyped'
  BY DEF Provisioned, Typed, FilesTyped
<1> QED BY <1>1, Unchanged DEF Provisioned, Typed

LEMMA RestartStep == Typed /\ Restart => Typed'
<1> SUFFICES ASSUME Typed, Restart PROVE Typed'
  OBVIOUS
<1>1. RequestsTyped'
  BY IdleShape DEF Restart, RequestsTyped, RequestShape
<1>2. PICK written \in SUBSET Server :
        file' = [d \in Subdomain |->
                    IF \E s \in written : SubdomainOf[s] = d
                    THEN server[CHOOSE s \in written : SubdomainOf[s] = d].addons
                    ELSE file[d]]
  BY DEF Restart
<1>3. \A d \in Subdomain : (\E s \in written : SubdomainOf[s] = d) =>
        server[CHOOSE s \in written : SubdomainOf[s] = d].addons \in SUBSET Addon
  BY DEF Typed, ServersTyped, ServerRow
<1>4. FilesTyped'
  BY <1>2, <1>3 DEF Restart, Typed, FilesTyped
<1> QED BY <1>1, <1>4, Unchanged DEF Restart, Typed

LEMMA StepTyped == Typed /\ [Next]_vars => Typed'
<1> SUFFICES ASSUME Typed, [Next]_vars PROVE Typed'
  OBVIOUS
<1>1. CASE UNCHANGED vars
  BY <1>1, Unchanged DEF vars, Typed
<1>2. ASSUME NEW t \in Tenant, CreateTenant(t) PROVE Typed'
  <2>1. TenantsTyped' /\ ReferencesHold'
    BY <1>2 DEF CreateTenant, Typed, TenantsTyped, ServersTyped, ReferencesHold
  <2> QED BY <1>2, <2>1, Unchanged DEF CreateTenant, Typed
<1>3. ASSUME NEW q \in Request, LookUp(q) PROVE Typed'
  BY <1>3, IdleShape, OnlyRequest DEF LookUp, Answer
<1>4. ASSUME NEW q \in Request, Fails(q) PROVE Typed'
  BY <1>4, IdleShape, OnlyRequest DEF Fails, Answer
<1> QED
  BY <1>1, <1>2, <1>3, <1>4, ProvisionedStep, TenantStep, KeyStep, InsertKeyStep, CheckTenantStep,
     RemoveTenantStep, RemoveKeyStep, CreateServerStep, WriteFileStep, UpdateServerStep,
     SaveAddonsStep, DeleteServerStep, CommitDeleteStep, UnlinkFileStep, RestartStep
     DEF Next

\* Tables, files and requests keep their types; every server row has a tenant.
THEOREM AccountsTypeCorrect == Spec => []TypeOK
<1>1. Typed => TypeOK
  BY DEF Typed, TypeOK, TenantsTyped, ServersTyped, FilesTyped, RequestsTyped
<1> QED BY <1>1, InitTyped, StepTyped, PTL DEF Spec

\* No key and no server outlives its tenant, whatever overlaps
\* (tenants.py:41-54, :63-76, servers.py:166-177).
THEOREM ForeignKeysHold == Spec => []ReferencesHold
<1>1. Typed => ReferencesHold
  BY DEF Typed
<1> QED BY <1>1, InitTyped, StepTyped, PTL DEF Spec

(***************************************************************************)
(* The tenant on whose behalf a row changes.                               *)
(***************************************************************************)
LEMMA CreateActs ==
    ASSUME Typed, NEW q \in Request, NEW n \in Server, NEW addons \in SUBSET Addon,
           CreateServer(q, n, addons), NEW s \in Server
    PROVE  OnBehalf(s)
<1> SUFFICES ASSUME server'[s] # server[s] PROVE OnBehalf(s)
  BY DEF OnBehalf
<1> DEFINE v == [req[q] EXCEPT !.pc = "write_new", !.srv = n, !.addons = addons]
<1>1. req[q] \in RequestState /\ req[q].pc = "authed"
  BY DEF CreateServer, At, Typed, RequestsTyped
<1>2. /\ server' = [server EXCEPT ![n] = [owner |-> req[q].who, st |-> "live", addons |-> addons]]
      /\ req' = [req EXCEPT ![q] = v]
  BY DEF CreateServer, Goto
<1>3. s = n /\ server'[s].owner = req[q].who
  BY <1>2 DEF Typed, ServersTyped
<1>4. req'[q] = v /\ v.pc = "write_new"
  BY <1>1, <1>2 DEF Typed, RequestsTyped, RequestState
<1> QED BY <1>1, <1>3, <1>4 DEF OnBehalf

LEMMA CommitActs ==
    ASSUME Typed, NEW q \in Request, SaveAddons(q) \/ CommitDelete(q), NEW s \in Server
    PROVE  OnBehalf(s)
<1> SUFFICES ASSUME server'[s] # server[s] PROVE OnBehalf(s)
  BY DEF OnBehalf
<1>1. /\ req[q] \in RequestState /\ req[q].pc \in {"save", "delete"}
      /\ req[q].srv \in Server /\ server[req[q].srv].owner = req[q].who
      /\ server[req[q].srv] \in ServerRow
  BY DEF SaveAddons, CommitDelete, At, Typed, RequestsTyped, RequestShape, WithServer, ServersTyped
<1>2. s = req[q].srv /\ server'[s].owner = server[s].owner
  BY <1>1 DEF SaveAddons, CommitDelete, Typed, ServersTyped, ServerRow
<1>3. req'[q] = Idle \/ req'[q] = [req[q] EXCEPT !.pc = "unlink"]
  BY DEF SaveAddons, CommitDelete, Answer, To, Goto, Typed, RequestsTyped
<1>4. req'[q].pc # req[q].pc
  BY <1>1, <1>3 DEF Idle, RequestState
<1> QED BY <1>1, <1>2, <1>4 DEF OnBehalf

\* No tenant's request changes the row of another tenant's server
\* (servers.py:233-246, :258-262).
THEOREM TenantsKeptApart == Spec => OwnTenantOnly
<1>1. Typed /\ [Next]_vars => [\A s \in Server : OnBehalf(s)]_vars
  <2> SUFFICES ASSUME Typed, Next, ~UNCHANGED server, NEW s \in Server PROVE OnBehalf(s)
    BY DEF vars, OnBehalf
  <2>1. \/ \E q \in Request, n \in Server, addons \in SUBSET Addon : CreateServer(q, n, addons)
        \/ \E q \in Request : SaveAddons(q) \/ CommitDelete(q)
    BY DEF Next, CreateTenant, CreateKey, DeleteTenant, ReadTenant, RevokeKey, Authenticate,
           InsertKey, CheckTenant, RemoveTenant, RemoveKey, UpdateServer, DeleteServer,
           LookUp, WriteFile, UnlinkFile, Fails, Provisioned, Restart
  <2> QED BY <2>1, CreateActs, CommitActs
<1> QED BY <1>1, InitTyped, StepTyped, PTL DEF Spec, OwnTenantOnly

(***************************************************************************)
(* The files.                                                              *)
(***************************************************************************)
LEMMA ChainDefined ==
    ASSUME NEW s, NEW addons, NEW i \in DOMAIN Chain(s, addons)
    PROVE  Chain(s, addons)[i] \in Middlewares(s, addons)
<1>1. CASE "bot_filter" \in addons /\ "geoip" \in addons
  BY <1>1 DEF Chain, Middlewares
<1>2. CASE "bot_filter" \in addons /\ "geoip" \notin addons
  BY <1>2 DEF Chain, Middlewares
<1>3. CASE "bot_filter" \notin addons /\ "geoip" \in addons
  BY <1>3 DEF Chain, Middlewares
<1>4. CASE "bot_filter" \notin addons /\ "geoip" \notin addons
  BY <1>4 DEF Chain, Middlewares
<1> QED BY <1>1, <1>2, <1>3, <1>4

LEMMA FileLoads ==
    ASSUME NEW s, NEW addons
    PROVE  Resolves(s, addons) /\ \A r \in CollectRouters(s, addons) : r.service = Own(s)
<1>1. \A r \in Routers(s, addons) : r.service \in Services(s, addons)
  BY DEF Routers, Services
<1>2. \A r \in Routers(s, addons) : r.chain \in {Chain(s, addons), << >>}
  BY DEF Routers
<1>3. Resolves(s, addons)
  BY <1>1, <1>2, ChainDefined DEF Resolves
<1>4. Own(s) # Preview(s)
  BY DEF Own, Preview
<1> DEFINE main    == [host |-> Own(s), paths |-> "all", chain |-> Chain(s, addons),
                       service |-> IF "gtm_js_proxy" \in addons THEN ProxyServer ELSE Own(s)]
           preview == [host |-> Preview(s), paths |-> "all", chain |-> << >>,
                       service |-> Preview(s)]
           collect == [host |-> Own(s), paths |-> "collect", chain |-> Chain(s, addons),
                       service |-> Own(s)]
           own     == {r \in Routers(s, addons) : r.host = Own(s)}
           specific == {r \in own : r.paths = "collect"}
<1>5. CASE "gtm_js_proxy" \in addons
  <2>1. Routers(s, addons) = {main, preview, collect}
    BY <1>5 DEF Routers
  <2>2. collect \in specific /\ \A r \in specific : r = collect
    BY <2>1
  <2>3. CollectRouters(s, addons) = specific
    BY <2>2 DEF CollectRouters
  <2> QED BY <1>3, <2>2, <2>3
<1>6. CASE "gtm_js_proxy" \notin addons
  <2>1. Routers(s, addons) = {main, preview} /\ main.service = Own(s)
    BY <1>6 DEF Routers
  <2>2. \A r \in own : r = main
    BY <1>4, <2>1
  <2>3. CollectRouters(s, addons) \subseteq own
    BY DEF CollectRouters
  <2> QED BY <1>3, <2>1, <2>2, <2>3
<1> QED BY <1>5, <1>6

\* Every file that is ever written can be loaded and routes collection hits to
\* the server's own container (traefik.py:22-103).
THEOREM FilesAlwaysRoute == Spec => []FilesRoute
<1>1. Typed => FilesRoute
  BY FileLoads DEF FilesRoute
<1> QED BY <1>1, InitTyped, StepTyped, PTL DEF Spec

==============================================================================
