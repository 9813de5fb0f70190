---------------------------- MODULE CustomDomains ----------------------------
(***************************************************************************)
(* The custom domain endpoints and the DNS pollers they start.  Endpoints  *)
(* and pollers share the custom_domains rows; each reads a row, awaits,    *)
(* and commits what it decided from the row it read.                       *)
(***************************************************************************)
EXTENDS Naturals

CONSTANTS
    Server, Domain,
    Row,           \* custom_domains ids: bounds the registrations
    Request,       \* coroutines: bounds the requests and the pollers at a time
    MaxAttempts,   \* max_attempts of a poller
    Faults,        \* what may raise: "resolve", the lookup of a name that is not
                   \* an OSError, and "database", any call of a session
    None

ASSUME AttemptsAssumption == MaxAttempts \in Nat \ {0}
ASSUME FaultsAssumption == Faults \subseteq {"resolve", "database"}
ASSUME NoneAssumption == None \notin Row \cup Server \cup Domain

VARIABLES
    row,    \* the custom_domains table
    gone,   \* servers whose row is deleted
    req,    \* the requests
    poll,   \* the poller behind each request (bound: one at a time)
    raised  \* rows whose verification an exception has ended

vars == <<row, gone, req, poll, raised>>

RowStatus == {"unused", "pending_dns", "pending_cert", "failed", "removed"}

RowState == [srv : Server \cup {None}, dom : Domain \cup {None}, st : RowStatus]
RequestState ==
    [pc   : {"idle", "check", "insert", "verify", "remove", "start"},
     srv  : Server \cup {None}, dom : Domain \cup {None},
     row  : Row \cup {None}, seen : RowStatus]
PollerState ==
    [pc   : {"idle", "sleep", "save", "last", "fail"}, row : Row \cup {None},
     left : 0..MaxAttempts]

TypeOK ==
    /\ row \in [Row -> RowState]
    /\ gone \subseteq Server
    /\ req \in [Request -> RequestState]
    /\ poll \in [Request -> PollerState]
    /\ raised \subseteq Row

Exists(r)  == row[r].st \notin {"unused", "removed"}
Pending(r) == row[r].st = "pending_dns"
\* server.custom_domain: of several rows the ORM takes any one.
DomainsOf(s) == {r \in Row : Exists(r) /\ row[r].srv = s}

Idle  == [pc |-> "idle", srv |-> None, dom |-> None, row |-> None, seen |-> "unused"]
Quiet == [pc |-> "idle", row |-> None, left |-> 0]

Init ==
    /\ row = [r \in Row |-> [srv |-> None, dom |-> None, st |-> "unused"]]
    /\ gone = {}
    /\ req = [q \in Request |-> Idle]
    /\ poll = [q \in Request |-> Quiet]
    /\ raised = {}

Answer(q) == req' = [req EXCEPT ![q] = Idle]
Schedule(q, r) ==
    /\ req' = [req EXCEPT ![q] = [Idle EXCEPT !.pc = "start", !.row = r]]
    /\ raised' = raised \ {r}

SetStatus(r, st) == row' = [row EXCEPT ![r].st = st]

(***************************************************************************)
(* Endpoints.  A request reads the server and its domain first.            *)
(***************************************************************************)
Read(q, s, pc, r) ==
    /\ req[q].pc = "idle" /\ s \notin gone
    /\ req' = [req EXCEPT ![q] = [Idle EXCEPT !.pc = pc, !.row = r, !.seen = row[r].st]]
    /\ UNCHANGED <<row, gone, poll, raised>>

Add(q, s, d) ==
    /\ req[q].pc = "idle" /\ s \notin gone /\ DomainsOf(s) = {}
    /\ req' = [req EXCEPT ![q] = [Idle EXCEPT !.pc = "check", !.srv = s, !.dom = d]]
    /\ UNCHANGED <<row, gone, poll, raised>>

Registered(d) == \E r \in Row : Exists(r) /\ row[r].dom = d

AddCheck(q) ==
    /\ req[q].pc = "check"
    /\ IF Registered(req[q].dom) THEN Answer(q) ELSE req' = [req EXCEPT ![q].pc = "insert"]
    /\ UNCHANGED <<row, gone, poll, raised>>

\* unique=True on the domain.
Admits(d) == ~Registered(d)

Insert(r, s, d) ==
    /\ row[r].st = "unused" /\ Admits(d)
    /\ row' = [row EXCEPT ![r] = [srv |-> s, dom |-> d, st |-> "pending_dns"]]

\* The row is read again before its poller is scheduled.
AddInsert(q) ==
    /\ req[q].pc = "insert"
    /\ \/ \E r \in Row : Insert(r, req[q].srv, req[q].dom) /\ Schedule(q, r)
       \/ /\ "database" \in Faults
          /\ \E r \in Row : Insert(r, req[q].srv, req[q].dom) /\ raised' = raised \cup {r}
          /\ Answer(q)
       \/ /\ ~Admits(req[q].dom)
          /\ Answer(q) /\ UNCHANGED <<row, raised>>
    /\ UNCHANGED <<gone, poll>>

Verify(q, s) ==
    \E r \in DomainsOf(s) :
        row[r].st \in {"pending_dns", "failed"} /\ Read(q, s, "verify", r)

\* Slip: restarts the verification without a poller.
VerifyCommitOnly(q) ==
    /\ req[q].pc = "verify"
    /\ IF Exists(req[q].row) THEN SetStatus(req[q].row, "pending_dns") ELSE UNCHANGED row
    /\ Answer(q)
    /\ UNCHANGED <<gone, poll, raised>>
\* An unchanged status is not written; the UPDATE of a removed row raises.
VerifyCommit(q) ==
    LET r == req[q].row
    IN  /\ req[q].pc = "verify"
        /\ \/ /\ req[q].seen = "pending_dns"
              /\ Schedule(q, r) /\ UNCHANGED row
           \/ /\ req[q].seen = "failed" /\ Exists(r)
              /\ SetStatus(r, "pending_dns") /\ Schedule(q, r)
           \/ /\ req[q].seen = "failed" /\ ~Exists(r)
              /\ Answer(q) /\ UNCHANGED <<row, raised>>
        /\ UNCHANGED <<gone, poll>>

\* The background task behind the response.
StartPoller(q) ==
    /\ req[q].pc = "start" /\ poll[q].pc = "idle"
    /\ poll' = [poll EXCEPT ![q] = [pc |-> "sleep", row |-> req[q].row, left |-> MaxAttempts]]
    /\ Answer(q)
    /\ UNCHANGED <<row, gone, raised>>

Remove(q, s) == \E r \in DomainsOf(s) : Read(q, s, "remove", r)

RemoveCommit(q) ==
    /\ req[q].pc = "remove"
    /\ row' = [row EXCEPT ![req[q].row] = [srv |-> None, dom |-> None, st |-> "removed"]]
    /\ Answer(q)
    /\ UNCHANGED <<gone, poll, raised>>

\* A session call of a request raises: nothing was committed.
RequestRaises(q) ==
    /\ "database" \in Faults /\ req[q].pc \notin {"idle", "start"}
    /\ Answer(q)
    /\ UNCHANGED <<row, gone, poll, raised>>

\* DELETE of the server: its domain stays in the table.
DeleteServer(s) ==
    /\ s \notin gone
    /\ gone' = gone \cup {s}
    /\ UNCHANGED <<row, req, poll, raised>>

(***************************************************************************)
(* poll_dns_until_verified                                                 *)
(***************************************************************************)
PollGoto(q, pc) == poll' = [poll EXCEPT ![q].pc = pc]
PollEnds(q) == poll' = [poll EXCEPT ![q] = Quiet]

\* Slip: one attempt too many.
PollTryLate(q) ==
    /\ poll[q].pc = "sleep"
    /\ IF Pending(poll[q].row)
       THEN \/ poll' = [poll EXCEPT ![q].pc = "save", ![q].left = 0]
            \/ poll' = [poll EXCEPT ![q].pc = IF poll[q].left = 0 THEN "last" ELSE "sleep",
                                    ![q].left = @ - 1]
       ELSE PollEnds(q)
    /\ UNCHANGED <<row, gone, req, raised>>
\* After the sleep: a row that is still pending has its name resolved, which
\* succeeds or is tried again.
PollTry(q) ==
    /\ poll[q].pc = "sleep"
    /\ IF Pending(poll[q].row)
       THEN \/ poll' = [poll EXCEPT ![q] = [@ EXCEPT !.pc = "save", !.left = 0]]
            \/ LET left == poll[q].left - 1
               IN  poll' = [poll EXCEPT ![q] = [@ EXCEPT !.left = left,
                                !.pc = IF left = 0 THEN "last" ELSE "sleep"]]
       ELSE PollEnds(q)
    /\ UNCHANGED <<row, gone, req, raised>>

\* Slip: never gives up.
PollLastAgain(q) ==
    /\ poll[q].pc = "last"
    /\ IF Pending(poll[q].row)
       THEN poll' = [poll EXCEPT ![q].pc = "sleep", ![q].left = MaxAttempts]
       ELSE PollEnds(q)
    /\ UNCHANGED <<row, gone, req, raised>>
\* All attempts made: the row is read once more.
PollLast(q) ==
    /\ poll[q].pc = "last"
    /\ IF Pending(poll[q].row) THEN PollGoto(q, "fail") ELSE PollEnds(q)
    /\ UNCHANGED <<row, gone, req, raised>>

\* Slip: writes the row it read back, whether or not it still exists.
PollCommitAnyway(q) ==
    /\ poll[q].pc \in {"save", "fail"}
    /\ SetStatus(poll[q].row, IF poll[q].pc = "save" THEN "pending_cert" ELSE "failed")
    /\ PollEnds(q)
    /\ UNCHANGED <<gone, req, raised>>
\* Commits over whatever the row has become; a row removed meanwhile raises.
PollCommit(q) ==
    /\ poll[q].pc \in {"save", "fail"}
    /\ IF Exists(poll[q].row)
       THEN SetStatus(poll[q].row, IF poll[q].pc = "save" THEN "pending_cert" ELSE "failed")
       ELSE UNCHANGED row
    /\ PollEnds(q)
    /\ UNCHANGED <<gone, req, raised>>

\* Whatever a poller meets, it ends at the except and the row stays as it is:
\* resolve_cname turns an OSError alone into an answer.
PollRaises(q) ==
    /\ \/ "resolve" \in Faults /\ poll[q].pc = "sleep" /\ Pending(poll[q].row)
       \/ "database" \in Faults /\ poll[q].pc # "idle"
    /\ raised' = raised \cup {poll[q].row}
    /\ PollEnds(q)
    /\ UNCHANGED <<row, gone, req>>

Handle(q) ==
    \/ AddCheck(q) \/ AddInsert(q) \/ VerifyCommit(q) \/ StartPoller(q) \/ RemoveCommit(q)
Poll(q) == PollTry(q) \/ PollLast(q) \/ PollCommit(q)

Next ==
    \/ \E q \in Request, s \in Server :
           (\E d \in Domain : Add(q, s, d)) \/ Verify(q, s) \/ Remove(q, s)
    \/ \E q \in Request : Handle(q) \/ Poll(q) \/ RequestRaises(q) \/ PollRaises(q)
    \/ \E s \in Server : DeleteServer(s)

\* The event loop runs every handler and every poller on.
Fairness ==
    \A q \in Request : WF_vars(Handle(q)) /\ WF_vars(Poll(q))
Spec == Init /\ [][Next]_vars /\ Fairness

(***************************************************************************)
(* Properties.                                                             *)
(***************************************************************************)

Polled(r) == \E q \in Request : poll[q].pc # "idle" /\ poll[q].row = r
Starting(r) == \E q \in Request : req[q].pc = "start" /\ req[q].row = r

\* A row that waits for DNS has somebody who looks, a poller or the request
\* that is about to start one, however adds, retries, removals and the ends of
\* older pollers fall; only an exception leaves it to nobody, until the next
\* verify (domains.py:44-47, :96-97, dns_poller.py:36-37).
PendingIsPolled == \A r \in Row : Pending(r) => Polled(r) \/ Starting(r) \/ r \in raised

\* A poller or a retry that read a row before it was removed does not bring
\* it back (dns_poller.py:22, :30, domains.py:96).
RemovedStaysRemoved ==
    [][\A r \in Row : row[r].st = "removed" => row'[r].st = "removed"]_vars

\* A domain does not wait for DNS for ever unless an exception ended its
\* verification, whatever verifies and removals do to it (dns_poller.py:14-37).
DomainSettles == \A r \in Row : Pending(r) ~> (~Pending(r) \/ r \in raised)
==============================================================================
