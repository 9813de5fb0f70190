------------------------------ MODULE Accounts ------------------------------
(***************************************************************************)
(* Tenants, their API keys and their servers: the tenant endpoints, which  *)
(* ask for no key, and the server endpoints, which look one up.  A handler *)
(* reads, awaits, and commits; PostgreSQL holds the foreign keys.  With    *)
(* the servers come their addons and the Traefik file made from them.      *)
(***************************************************************************)
EXTENDS Traefik, FiniteSets

CONSTANTS
    Tenant, Key, Server,   \* ids: bound what is ever created
    Subdomain, SubdomainOf,
    Request,               \* coroutines
    Faults,                \* what may fail: "request", a handler at any of its steps,
                           \* "provisioning", the work behind a creation, and
                           \* "startup", a file startup writes
    None

ASSUME SubdomainAssumption == SubdomainOf \in [Server -> Subdomain]
ASSUME FaultsAssumption == Faults \subseteq {"request", "provisioning", "startup"}
ASSUME NoneAssumption == None \notin Tenant \cup Server \cup Key

VARIABLES
    tenant,    \* state of each tenant id
    key,       \* owner of each key; None before it is issued and after
    spent,     \* keys that were revoked
    server,    \* the servers table: owner, state, addons
    file,      \* the addons the Traefik file of a subdomain was made from, or None
    fresh,     \* servers whose creation is answered and provisioning under way
    req        \* the requests

vars == <<tenant, key, spent, server, file, fresh, req>>

ServerRow ==
    [owner : Tenant \cup {None}, st : {"unborn", "live", "deleted"}, addons : SUBSET Addon]
RequestState ==
    [pc  : {"idle", "authed", "write_new", "write", "rewrite", "save", "delete", "unlink",
            "key_insert", "key_delete", "tenant_check", "tenant_delete"},
     who : Tenant \cup {None},       \* the tenant acting or acted upon
     srv : Server \cup {None}, key : Key \cup {None}, addons : SUBSET Addon]

\* tenant_id is NOT NULL in every server row.
TypeOK ==
    /\ tenant \in [Tenant -> {"unborn", "here", "gone"}]
    /\ key \in [Key -> Tenant \cup {None}] /\ spent \subseteq Key
    /\ server \in [Server -> ServerRow]
    /\ \A s \in Server : server[s].st # "unborn" => server[s].owner \in Tenant
    /\ file \in [Subdomain -> (SUBSET Addon) \cup {None}]
    /\ fresh \subseteq Server
    /\ req \in [Request -> RequestState]

Idle == [pc |-> "idle", who |-> None, srv |-> None, key |-> None, addons |-> {}]

Init ==
    /\ tenant = [t \in Tenant |-> "unborn"]
    /\ key = [k \in Key |-> None] /\ spent = {}
    /\ server = [s \in Server |-> [owner |-> None, st |-> "unborn", addons |-> {}]]
    /\ file = [d \in Subdomain |-> None]
    /\ fresh = {}
    /\ req = [q \in Request |-> Idle]

At(q, pc)     == req[q].pc = pc
Answer(q)     == req' = [req EXCEPT ![q] = Idle]
Goto(q, next) == req' = [req EXCEPT ![q] = next]
To(q, pc)     == Goto(q, [req[q] EXCEPT !.pc = pc])

Live(s) == server[s].st = "live"
RowsOf(t) == {s \in Server : server[s].owner = t}
KeysOf(t) == {k \in Key : key[k] = t}

(***************************************************************************)
(* Tenants and keys.                                                       *)
(***************************************************************************)
CreateTenant(t) ==
    /\ tenant[t] = "unborn"
    /\ tenant' = [tenant EXCEPT ![t] = "here"]
    /\ UNCHANGED <<key, spent, server, file, fresh, req>>

\* db.get(Tenant) at the start of create_api_key and of delete_tenant.
ReadTenant(q, t, pc) ==
    /\ At(q, "idle") /\ tenant[t] = "here"
    /\ Goto(q, [Idle EXCEPT !.pc = pc, !.who = t])
    /\ UNCHANGED <<tenant, key, spent, server, file, fresh>>
CreateKey(q, t)    == ReadTenant(q, t, "key_insert")
DeleteTenant(q, t) == ReadTenant(q, t, "tenant_check")

\* Slip: no foreign key holds the insert back.
ReferableAny(t) == TRUE
\* The foreign key of an inserted row.
Referable(t) == tenant[t] = "here"

InsertKey(q) ==
    /\ At(q, "key_insert")
    /\ \/ /\ Referable(req[q].who)
          /\ \E k \in Key \ spent :
                key[k] = None /\ key' = [key EXCEPT ![k] = req[q].who]
       \/ ~Referable(req[q].who) /\ UNCHANGED key
    /\ Answer(q)
    /\ UNCHANGED <<tenant, spent, server, file, fresh>>

\* One live server is a 409, several make the query itself raise.
CheckTenant(q) ==
    /\ At(q, "tenant_check")
    /\ IF \E s \in RowsOf(req[q].who) : Live(s) THEN Answer(q) ELSE To(q, "tenant_delete")
    /\ UNCHANGED <<tenant, key, spent, server, file, fresh>>

\* Slip: the rows that referred to the tenant are kept with no tenant.
RemoveTenantOnly(q) ==
    LET t == req[q].who
    IN  /\ At(q, "tenant_delete")
        /\ tenant' = [tenant EXCEPT ![t] = "gone"]
        /\ key' = [k \in Key |-> IF key[k] = t THEN None ELSE key[k]]
        /\ server' = [s \in Server |-> IF server[s].owner = t
                                       THEN [server[s] EXCEPT !.owner = None] ELSE server[s]]
        /\ Answer(q)
        /\ UNCHANGED <<spent, file, fresh>>
\* The ORM would unlink keys and servers, deleted ones too; their columns are
\* NOT NULL, so a tenant that has any stays and the request fails.
RemoveTenant(q) ==
    LET t == req[q].who
    IN  /\ At(q, "tenant_delete")
        /\ tenant' = IF KeysOf(t) = {} /\ RowsOf(t) = {}
                     THEN [tenant EXCEPT ![t] = "gone"] ELSE tenant
        /\ Answer(q)
        /\ UNCHANGED <<key, spent, server, file, fresh>>

RevokeKey(q, k) ==
    /\ At(q, "idle") /\ key[k] # None
    /\ Goto(q, [Idle EXCEPT !.pc = "key_delete", !.key = k])
    /\ UNCHANGED <<tenant, key, spent, server, file, fresh>>

RemoveKey(q) ==
    /\ At(q, "key_delete")
    /\ key' = [key EXCEPT ![req[q].key] = None]
    /\ spent' = spent \cup {req[q].key}
    /\ Answer(q)
    /\ UNCHANGED <<tenant, server, file, fresh>>

(***************************************************************************)
(* Server endpoints.  The key is looked up first; from then on the request *)
(* acts for its tenant, even when the key is revoked meanwhile.            *)
(***************************************************************************)
Authenticate(q, k) ==
    /\ At(q, "idle") /\ key[k] # None
    /\ Goto(q, [Idle EXCEPT !.pc = "authed", !.who = key[k]])
    /\ UNCHANGED <<tenant, key, spent, server, file, fresh>>

\* A request that only reads, or is refused.
LookUp(q) ==
    /\ At(q, "authed")
    /\ Answer(q)
    /\ UNCHANGED <<tenant, key, spent, server, file, fresh>>

\* The look for a live row of the subdomain, and the partial unique index.
Free(d) == ~\E s \in Server : Live(s) /\ SubdomainOf[s] = d

CreateServer(q, s, addons) ==
    /\ At(q, "authed") /\ server[s].st = "unborn" /\ Free(SubdomainOf[s])
    /\ \/ /\ Referable(req[q].who)
          /\ server' = [server EXCEPT ![s] =
                           [owner |-> req[q].who, st |-> "live", addons |-> addons]]
          /\ Goto(q, [req[q] EXCEPT !.pc = "write_new", !.srv = s, !.addons = addons])
       \/ ~Referable(req[q].who) /\ Answer(q) /\ UNCHANGED server
    /\ UNCHANGED <<tenant, key, spent, file, fresh>>

\* write_client_config, behind the insert, where the provisioning follows, and
\* before the commit of a PATCH, which has nothing to commit if nothing changed.
WriteFile(q) ==
    /\ req[q].pc \in {"write_new", "write", "rewrite"}
    /\ file' = [file EXCEPT ![SubdomainOf[req[q].srv]] = req[q].addons]
    /\ fresh' = IF At(q, "write_new") THEN fresh \cup {req[q].srv} ELSE fresh
    /\ IF At(q, "write") THEN To(q, "save") ELSE Answer(q)
    /\ UNCHANGED <<tenant, key, spent, server>>

\* The provisioning ends; one that failed removes the file.
Provisioned(s) ==
    /\ s \in fresh
    /\ fresh' = fresh \ {s}
    /\ \/ UNCHANGED file
       \/ "provisioning" \in Faults /\ file' = [file EXCEPT ![SubdomainOf[s]] = None]
    /\ UNCHANGED <<tenant, key, spent, server, req>>

\* Slip: the handler forgets to compare the tenants.
VisibleAny(s, t) == Live(s)
Visible(s, t) == Live(s) /\ server[s].owner = t

\* A PATCH of one addon, merged into those of the row it reads.
UpdateServer(q, s, a) ==
    /\ At(q, "authed") /\ Visible(s, req[q].who)
    /\ \E merged \in {server[s].addons \cup {a}, server[s].addons \ {a}} :
          Goto(q, [req[q] EXCEPT !.srv = s, !.addons = merged,
                       !.pc = IF merged = server[s].addons THEN "rewrite" ELSE "write"])
    /\ UNCHANGED <<tenant, key, spent, server, file, fresh>>

SaveAddons(q) ==
    /\ At(q, "save")
    /\ server' = [server EXCEPT ![req[q].srv].addons = req[q].addons]
    /\ Answer(q)
    /\ UNCHANGED <<tenant, key, spent, file, fresh>>

DeleteServer(q, s) ==
    /\ At(q, "authed") /\ Visible(s, req[q].who)
    /\ Goto(q, [req[q] EXCEPT !.pc = "delete", !.srv = s])
    /\ UNCHANGED <<tenant, key, spent, server, file, fresh>>

CommitDelete(q) ==
    /\ At(q, "delete")
    /\ server' = [server EXCEPT ![req[q].srv].st = "deleted"]
    /\ To(q, "unlink")
    /\ UNCHANGED <<tenant, key, spent, file, fresh>>

UnlinkFile(q) ==
    /\ At(q, "unlink")
    /\ file' = [file EXCEPT ![SubdomainOf[req[q].srv]] = None]
    /\ Answer(q)
    /\ UNCHANGED <<tenant, key, spent, server, fresh>>

\* A call of a handler raises: what it did before stays, the row of a creation
\* whose file could not be written too.
Fails(q) ==
    /\ "request" \in Faults /\ ~At(q, "idle")
    /\ Answer(q)
    /\ UNCHANGED <<tenant, key, spent, server, file, fresh>>

\* The process restarts: requests and provisioning are lost, and startup writes
\* the file of every server that is not deleted again, or fails to.
Restart ==
    /\ req' = [q \in Request |-> Idle] /\ fresh' = {}
    /\ \E written \in SUBSET {s \in Server : Live(s)} :
          /\ "startup" \in Faults \/ written = {s \in Server : Live(s)}
          /\ file' = [d \in Subdomain |->
                IF \E s \in written : SubdomainOf[s] = d
                THEN server[CHOOSE s \in written : SubdomainOf[s] = d].addons
                ELSE file[d]]
    /\ UNCHANGED <<tenant, key, spent, server>>

Next ==
    \/ \E t \in Tenant : CreateTenant(t)
    \/ \E q \in Request :
          \/ \E t \in Tenant : CreateKey(q, t) \/ DeleteTenant(q, t)
          \/ \E k \in Key : RevokeKey(q, k) \/ Authenticate(q, k)
          \/ InsertKey(q) \/ CheckTenant(q) \/ RemoveTenant(q) \/ RemoveKey(q)
          \/ \E s \in Server :
                \/ \E addons \in SUBSET Addon : CreateServer(q, s, addons)
                \/ \E a \in Addon : UpdateServer(q, s, a)
                \/ DeleteServer(q, s)
          \/ LookUp(q) \/ WriteFile(q) \/ SaveAddons(q) \/ CommitDelete(q) \/ UnlinkFile(q)
          \/ Fails(q)
    \/ \E s \in Server : Provisioned(s)
    \/ Restart
Spec == Init /\ [][Next]_vars

(***************************************************************************)
(* Properties.                                                             *)
(***************************************************************************)

\* Keys and servers belong to tenants that exist, however the creation of a
\* key or a server and the deletion of its tenant overlap (tenants.py:41-54,
\* :63-76, servers.py:166-177).
ReferencesHold ==
    /\ \A k \in Key : key[k] # None => tenant[key[k]] = "here"
    /\ \A s \in Server : server[s].st # "unborn" => tenant[server[s].owner] = "here"

OnBehalf(s) ==
    server'[s] # server[s] =>
        \E q \in Request : /\ req[q].who \in {server[s].owner, server'[s].owner}
                           /\ req'[q] # req[q] /\ server'[s].owner = req[q].who

\* A server's row changes only on behalf of its own tenant, also when the row
\* changed between the look at it and the commit (servers.py:233-246, :258-262).
OwnTenantOnly == [][\A s \in Server : OnBehalf(s)]_vars

\* Whatever the addons, Traefik can load the file (traefik.py:22-103), and
\* collection hits go to the server's own container (traefik.py:85-97).
FilesRoute ==
    \A d \in Subdomain : file[d] # None =>
        /\ Resolves(d, file[d])
        /\ \A r \in CollectRouters(d, file[d]) : r.service = Own(d)
==============================================================================
