---------------------------- MODULE DomainProofs ----------------------------
(***************************************************************************)
(* Proofs about the custom domains, for any number of servers, domains,    *)
(* rows, requests and attempts.                                            *)
(***************************************************************************)
EXTENDS CustomDomains, TLAPS

(* What a request past its first step knows, and what is left to a poller. *)
RequestShape(v) ==
    /\ v \in RequestState
    /\ v.pc \in {"check", "insert"} => v.srv \in Server /\ v.dom \in Domain
    /\ v.pc \in {"verify", "remove", "start"} => v.row \in Row
PollerShape(v) ==
    /\ v \in PollerState
    /\ v.pc # "idle" => v.row \in Row
    /\ v.pc = "sleep" => v.left > 0

RowsTyped     == row \in [Row -> RowState] /\ gone \subseteq Server
RaisedTyped   == raised \subseteq Row
RequestsTyped == req \in [Request -> RequestState] /\ \A q \in Request : RequestShape(req[q])
PollersTyped  == poll \in [Request -> PollerState] /\ \A q \in Request : PollerShape(poll[q])
Typed == RowsTyped /\ RequestsTyped /\ PollersTyped /\ RaisedTyped

LEMMA IdleShape == RequestShape(Idle) /\ PollerShape(Quiet)
BY AttemptsAssumption
   DEF RequestShape, PollerShape, RequestState, PollerState, Idle, Quiet, RowStatus

LEMMA InitTyped == Init => Typed
BY IdleShape DEF Init, Typed, RaisedTyped, RowsTyped, RequestsTyped, PollersTyped, RowState, RowStatus,
                 RequestShape, PollerShape

LEMMA RequestUpdate ==
    ASSUME RequestsTyped, NEW q \in Request, NEW v, RequestShape(v),
           req' = [req EXCEPT ![q] = v]
    PROVE  RequestsTyped'
BY DEF RequestsTyped, RequestShape

LEMMA PollerUpdate ==
    ASSUME PollersTyped, NEW q \in Request, NEW v, PollerShape(v),
           poll' = [poll EXCEPT ![q] = v]
    PROVE  PollersTyped'
BY DEF PollersTyped, PollerShape

LEMMA RowUpdate ==
    ASSUME RowsTyped, NEW r \in Row, NEW v \in RowState, row' = [row EXCEPT ![r] = v],
           UNCHANGED gone
    PROVE  RowsTyped'
BY DEF RowsTyped

LEMMA RowStatusUpdate ==
    ASSUME RowsTyped, NEW r \in Row, NEW st \in RowStatus, SetStatus(r, st), UNCHANGED gone
    PROVE  RowsTyped'
<1>1. [row[r] EXCEPT !.st = st] \in RowState
  BY DEF RowsTyped, RowState
<1> QED BY <1>1, RowUpdate DEF SetStatus

LEMMA Unchanged ==
    /\ RowsTyped /\ UNCHANGED <<row, gone>> => RowsTyped'
    /\ RequestsTyped /\ UNCHANGED req => RequestsTyped'
    /\ PollersTyped /\ UNCHANGED poll => PollersTyped'
    /\ RaisedTyped /\ UNCHANGED raised => RaisedTyped'
BY DEF RowsTyped, RequestsTyped, PollersTyped, RaisedTyped

LEMMA ReadTyped ==
    ASSUME Typed, NEW q \in Request, NEW s \in Server, NEW pc \in {"verify", "remove"},
           NEW r \in Row, Read(q, s, pc, r)
    PROVE  Typed'
<1> DEFINE v == [Idle EXCEPT !.pc = pc, !.row = r, !.seen = row[r].st]
<1>1. row[r].st \in RowStatus
  BY DEF Typed, RowsTyped, RowState
<1>2. RequestShape(v)
  BY <1>1, IdleShape DEF RequestShape, RequestState, Idle
<1> QED BY <1>2, RequestUpdate, Unchanged DEF Typed, Read

LEMMA AddTyped ==
    ASSUME Typed, NEW q \in Request, NEW s \in Server, NEW d \in Domain, Add(q, s, d)
    PROVE  Typed'
<1> DEFINE v == [Idle EXCEPT !.pc = "check", !.srv = s, !.dom = d]
<1>1. RequestShape(v)
  BY IdleShape DEF RequestShape, RequestState, Idle
<1> QED BY <1>1, RequestUpdate, Unchanged DEF Typed, Add

LEMMA AnswerTyped ==
    ASSUME RequestsTyped, NEW q \in Request
    PROVE  /\ Answer(q) => RequestsTyped'
           /\ \A r \in Row : Schedule(q, r) => RequestsTyped'
           /\ \A r \in Row : Schedule(q, r) /\ RaisedTyped => RaisedTyped'
<1>1. \A r \in Row : RequestShape([Idle EXCEPT !.pc = "start", !.row = r])
  BY IdleShape DEF RequestShape, RequestState, Idle
<1> QED BY <1>1, IdleShape, RequestUpdate DEF Answer, Schedule, RaisedTyped

LEMMA HandleTyped ==
    ASSUME Typed, NEW q \in Request, Handle(q)
    PROVE  Typed'
<1>1. RowsTyped /\ RequestsTyped /\ PollersTyped /\ RaisedTyped /\ RequestShape(req[q])
  BY DEF Typed, RequestsTyped
<1>2. CASE AddCheck(q)
  <2>1. CASE Registered(req[q].dom)
    BY <1>1, <1>2, <2>1, AnswerTyped, Unchanged DEF AddCheck, Typed
  <2>2. CASE ~Registered(req[q].dom)
    <3>1. req' = [req EXCEPT ![q] = [req[q] EXCEPT !.pc = "insert"]]
      BY <1>2, <2>2 DEF AddCheck
    <3>2. RequestShape([req[q] EXCEPT !.pc = "insert"])
      BY <1>1, <1>2 DEF AddCheck, RequestShape, RequestState
    <3> QED BY <1>1, <1>2, <3>1, <3>2, RequestUpdate, Unchanged DEF AddCheck, Typed
  <2> QED BY <2>1, <2>2
<1>3. CASE AddInsert(q)
  <2> DEFINE v == [srv |-> req[q].srv, dom |-> req[q].dom, st |-> "pending_dns"]
  <2>1. v \in RowState
    BY <1>1, <1>3 DEF AddInsert, RequestShape, RowState, RowStatus
  <2>2. ASSUME NEW r \in Row, Insert(r, req[q].srv, req[q].dom) PROVE RowsTyped'
    BY <1>1, <1>3, <2>1, <2>2, RowUpdate DEF AddInsert, Insert
  <2>3. RowsTyped' /\ RequestsTyped' /\ RaisedTyped'
    <3>1. ASSUME NEW r \in Row, Insert(r, req[q].srv, req[q].dom), Schedule(q, r)
          PROVE  RowsTyped' /\ RequestsTyped' /\ RaisedTyped'
      BY <1>1, <2>2, <3>1, AnswerTyped
    <3>2. ASSUME NEW r \in Row, Insert(r, req[q].srv, req[q].dom),
                 raised' = raised \cup {r}, Answer(q)
          PROVE  RowsTyped' /\ RequestsTyped' /\ RaisedTyped'
      BY <1>1, <2>2, <3>2, AnswerTyped DEF RaisedTyped
    <3>3. ASSUME Answer(q), UNCHANGED <<row, gone, raised>>
          PROVE  RowsTyped' /\ RequestsTyped' /\ RaisedTyped'
      BY <1>1, <3>3, AnswerTyped, Unchanged
    <3> QED BY <1>3, <3>1, <3>2, <3>3 DEF AddInsert
  <2> QED BY <1>1, <1>3, <2>3, Unchanged DEF AddInsert, Typed
<1>4. CASE VerifyCommit(q)
  <2>1. req[q].row \in Row
    BY <1>1, <1>4 DEF VerifyCommit, RequestShape
  <2>2. RequestsTyped' /\ RaisedTyped'
    BY <1>1, <1>4, <2>1, AnswerTyped, Unchanged DEF VerifyCommit
  <2>3. RowsTyped'
    BY <1>1, <1>4, <2>1, RowStatusUpdate, Unchanged DEF VerifyCommit, RowStatus
  <2> QED BY <1>1, <1>4, <2>2, <2>3, Unchanged DEF VerifyCommit, Typed
<1>5. CASE StartPoller(q)
  <2> DEFINE v == [pc |-> "sleep", row |-> req[q].row, left |-> MaxAttempts]
  <2>1. PollerShape(v)
    BY <1>1, <1>5, AttemptsAssumption DEF StartPoller, RequestShape, PollerShape, PollerState
  <2> QED BY <1>1, <1>5, <2>1, PollerUpdate, AnswerTyped, Unchanged DEF StartPoller, Typed
<1>6. CASE RemoveCommit(q)
  <2>1. [srv |-> None, dom |-> None, st |-> "removed"] \in RowState
    BY DEF RowState, RowStatus
  <2>2. req[q].row \in Row
    BY <1>1, <1>6 DEF RemoveCommit, RequestShape
  <2> QED BY <1>1, <1>6, <2>1, <2>2, RowUpdate, AnswerTyped, Unchanged DEF RemoveCommit, Typed
<1> QED BY <1>2, <1>3, <1>4, <1>5, <1>6 DEF Handle

LEMMA PollTyped ==
    ASSUME Typed, NEW q \in Request, Poll(q)
    PROVE  Typed'
<1>1. RowsTyped /\ RequestsTyped /\ PollersTyped /\ PollerShape(poll[q])
  BY DEF Typed, PollersTyped
<1>2. PollEnds(q) => PollersTyped'
  BY <1>1, IdleShape, PollerUpdate DEF PollEnds
<1>3. CASE PollTry(q)
  <2> DEFINE Saving == [poll[q] EXCEPT !.pc = "save", !.left = 0]
             left   == poll[q].left - 1
             Later  == [poll[q] EXCEPT !.left = left,
                                       !.pc = IF left = 0 THEN "last" ELSE "sleep"]
  <2>0. /\ poll[q] \in PollerState /\ poll[q].row \in Row
        /\ left \in 0..MaxAttempts /\ (left # 0 => left > 0)
    BY <1>1, <1>3, AttemptsAssumption DEF PollTry, PollerShape, PollerState
  <2>1. PollerShape(Saving) /\ PollerShape(Later)
    <3> HIDE DEF left
    <3>1. 0 \in 0..MaxAttempts
      BY AttemptsAssumption
    <3> QED BY <2>0, <3>1 DEF PollerShape, PollerState
  <2>2. \/ poll' = [poll EXCEPT ![q] = Saving]
        \/ poll' = [poll EXCEPT ![q] = Later]
        \/ PollEnds(q)
    BY <1>3 DEF PollTry
  <2>3. PollersTyped'
    BY <1>1, <1>2, <2>1, <2>2, PollerUpdate
  <2> QED BY <1>1, <1>3, <2>3, Unchanged DEF PollTry, Typed
<1>4. CASE PollLast(q)
  <2>1. PollerShape([poll[q] EXCEPT !.pc = "fail"])
    BY <1>1, <1>4 DEF PollLast, PollerShape, PollerState
  <2>2. PollersTyped'
    BY <1>1, <1>2, <1>4, <2>1, PollerUpdate DEF PollLast, PollGoto
  <2> QED BY <1>1, <1>4, <2>2, Unchanged DEF PollLast, Typed
<1>5. CASE PollCommit(q)
  <2>1. poll[q].row \in Row
    BY <1>1, <1>5 DEF PollCommit, PollerShape
  <2>2. RowsTyped'
    BY <1>1, <1>5, <2>1, RowStatusUpdate, Unchanged DEF PollCommit, RowStatus
  <2> QED BY <1>1, <1>2, <1>5, <2>2, Unchanged DEF PollCommit, Typed
<1> QED BY <1>3, <1>4, <1>5 DEF Poll

LEMMA StepTyped == Typed /\ [Next]_vars => Typed'
<1> SUFFICES ASSUME Typed, [Next]_vars PROVE Typed'
  OBVIOUS
<1>1. CASE UNCHANGED vars
  BY <1>1, Unchanged DEF vars, Typed
<1>2. ASSUME NEW s \in Server, DeleteServer(s) PROVE Typed'
  BY <1>2, Unchanged DEF DeleteServer, Typed, RowsTyped
<1>3. ASSUME NEW q \in Request, NEW s \in Server, Verify(q, s) \/ Remove(q, s) PROVE Typed'
  BY <1>3, ReadTyped DEF Verify, Remove, DomainsOf
<1>4. ASSUME NEW q \in Request, RequestRaises(q) PROVE Typed'
  BY <1>4, AnswerTyped, Unchanged DEF RequestRaises, Typed
<1>5. ASSUME NEW q \in Request, PollRaises(q) PROVE Typed'
  <2>1. PollersTyped /\ PollerShape(poll[q])
    BY DEF Typed, PollersTyped
  <2>2. poll[q].row \in Row
    BY <1>5, <2>1 DEF PollRaises, PollerShape
  <2>3. PollersTyped' /\ RaisedTyped'
    BY <1>5, <2>1, <2>2, IdleShape, PollerUpdate DEF PollRaises, PollEnds, Typed, RaisedTyped
  <2> QED BY <1>5, <2>3, Unchanged DEF PollRaises, Typed
<1> QED
  BY <1>1, <1>2, <1>3, <1>4, <1>5, AddTyped, HandleTyped, PollTyped DEF Next

\* The custom domain rows, the requests and the pollers keep their types.
THEOREM DomainsTypeCorrect == Spec => []TypeOK
<1>1. Typed => TypeOK
  BY DEF Typed, TypeOK, RaisedTyped, RowsTyped, RequestsTyped, PollersTyped
<1> QED BY <1>1, InitTyped, StepTyped, PTL DEF Spec

(***************************************************************************)
(* Who looks after a pending row.  A step may lose the one who does only   *)
(* when the row stops being pending.                                       *)
(***************************************************************************)
Polls(q, r)  == poll[q].pc # "idle" /\ poll[q].row = r
Starts(q, r) == req[q].pc = "start" /\ req[q].row = r
Tended(r)    == r \in raised \/ \E q \in Request : Polls(q, r) \/ Starts(q, r)

LEMMA PolledMeans == PendingIsPolled <=> \A r \in Row : Pending(r) => Tended(r)
BY DEF PendingIsPolled, Polled, Starting, Tended, Polls, Starts

LEMMA RequestMoves ==
    ASSUME Typed, PendingIsPolled, NEW q \in Request, req[q].pc # "start",
           \A p \in Request \ {q} : req'[p] = req[p],
           UNCHANGED poll,
           \A r \in Row : r \in raised => r \in raised' \/ Starts(q, r)',
           \A r \in Row : Pending(r)' => Pending(r) \/ Starts(q, r)' \/ r \in raised'
    PROVE  PendingIsPolled'
<1>1. SUFFICES ASSUME NEW r \in Row, Pending(r)', ~Starts(q, r)', r \notin raised'
               PROVE  \E p \in Request : Polls(p, r)' \/ Starts(p, r)'
  BY DEF PendingIsPolled, Polled, Starting, Polls, Starts
<1>2. PICK p \in Request : Polls(p, r) \/ Starts(p, r)
  BY <1>1, PolledMeans DEF Tended
<1>3. Polls(p, r) => Polls(p, r)'
  BY DEF Polls
<1>4. Starts(p, r) => p # q /\ Starts(p, r)'
  BY DEF Starts
<1> QED BY <1>2, <1>3, <1>4

LEMMA PollerMoves ==
    ASSUME Typed, PendingIsPolled, NEW q \in Request, UNCHANGED req,
           \A p \in Request \ {q} : poll'[p] = poll[p],
           raised \subseteq raised',
           \A r \in Row : Pending(r)' =>
              Pending(r) /\ (Polls(q, r) => Polls(q, r)' \/ r \in raised')
    PROVE  PendingIsPolled'
<1>1. SUFFICES ASSUME NEW r \in Row, Pending(r)', r \notin raised'
               PROVE  \E p \in Request : Polls(p, r)' \/ Starts(p, r)'
  BY DEF PendingIsPolled, Polled, Starting, Polls, Starts
<1>2. PICK p \in Request : Polls(p, r) \/ Starts(p, r)
  BY <1>1, PolledMeans DEF Tended
<1>3. Polls(p, r) => Polls(p, r)'
  BY <1>1 DEF Polls
<1>4. Starts(p, r) => Starts(p, r)'
  BY DEF Starts
<1> QED BY <1>2, <1>3, <1>4

\* What the two lemmas need of the moves a request or a poller makes.
LEMMA Moves ==
    ASSUME Typed, NEW q \in Request
    PROVE  /\ Answer(q) => \A p \in Request \ {q} : req'[p] = req[p]
           /\ \A r \in Row : Schedule(q, r) =>
                 /\ Starts(q, r)' /\ raised' = raised \ {r}
                 /\ \A p \in Request \ {q} : req'[p] = req[p]
<1>1. req \in [Request -> RequestState]
  BY DEF Typed, RequestsTyped
<1>2. Answer(q) => \A p \in Request \ {q} : req'[p] = req[p]
  BY <1>1 DEF Answer
<1>3. ASSUME NEW r \in Row, Schedule(q, r)
      PROVE  /\ Starts(q, r)' /\ raised' = raised \ {r}
             /\ \A p \in Request \ {q} : req'[p] = req[p]
  BY <1>1, <1>3 DEF Schedule, Starts, Idle
<1> QED BY <1>2, <1>3

LEMMA HandlePolled ==
    ASSUME Typed, PendingIsPolled, NEW q \in Request, Handle(q)
    PROVE  PendingIsPolled'
<1>1. /\ row \in [Row -> RowState] /\ req \in [Request -> RequestState]
      /\ poll \in [Request -> PollerState] /\ RequestShape(req[q])
  BY DEF Typed, RowsTyped, RequestsTyped, PollersTyped
<1>2. CASE AddCheck(q)
  BY <1>1, <1>2, RequestMoves, Moves DEF AddCheck, Pending
<1>3. CASE AddInsert(q)
  <2>1. ASSUME NEW r \in Row, Insert(r, req[q].srv, req[q].dom)
        PROVE  \A r2 \in Row \ {r} : Pending(r2)' => Pending(r2)
    BY <1>1, <2>1 DEF Insert, Pending
  <2>2. CASE \E r \in Row : Insert(r, req[q].srv, req[q].dom) /\ Schedule(q, r)
    BY <1>3, <2>1, <2>2, RequestMoves, Moves DEF AddInsert
  <2>3. CASE /\ \E r \in Row : Insert(r, req[q].srv, req[q].dom) /\ raised' = raised \cup {r}
             /\ Answer(q)
    BY <1>3, <2>1, <2>3, RequestMoves, Moves DEF AddInsert
  <2>4. CASE Answer(q) /\ UNCHANGED <<row, raised>>
    BY <1>3, <2>4, RequestMoves, Moves DEF AddInsert, Pending
  <2> QED BY <1>3, <2>2, <2>3, <2>4 DEF AddInsert
<1>4. CASE VerifyCommit(q)
  <2> DEFINE r == req[q].row
  <2>1. r \in Row
    BY <1>1, <1>4 DEF VerifyCommit, RequestShape
  <2>2. \A r2 \in Row : Pending(r2)' => Pending(r2) \/ (r2 = r /\ Schedule(q, r))
    BY <1>1, <1>4 DEF VerifyCommit, SetStatus, Pending
  <2>3. \A p \in Request \ {q} : req'[p] = req[p]
    BY <1>4, <2>1, Moves DEF VerifyCommit
  <2>4. \/ UNCHANGED raised
        \/ Schedule(q, r)
    BY <1>4 DEF VerifyCommit
  <2> QED BY <1>4, <2>1, <2>2, <2>3, <2>4, RequestMoves, Moves DEF VerifyCommit
<1>5. CASE StartPoller(q)
  <2>1. SUFFICES ASSUME NEW r \in Row, Pending(r), r \notin raised
                 PROVE  \E p \in Request : Polls(p, r)' \/ Starts(p, r)'
    BY <1>5 DEF StartPoller, Pending, PendingIsPolled, Polled, Starting, Polls, Starts
  <2>2. PICK p \in Request : Polls(p, r) \/ Starts(p, r)
    BY <2>1, PolledMeans DEF Tended
  <2>3. /\ poll' = [poll EXCEPT ![q] = [pc |-> "sleep", row |-> req[q].row, left |-> MaxAttempts]]
        /\ poll[q].pc = "idle" /\ Answer(q)
    BY <1>5 DEF StartPoller
  <2>4. Polls(p, r) => Polls(p, r)'
    BY <1>1, <2>3 DEF Polls
  <2>5. Starts(p, r) /\ p # q => Starts(p, r)'
    BY <2>3, Moves DEF Starts
  <2>6. Starts(q, r) => Polls(q, r)'
    BY <1>1, <2>3 DEF Starts, Polls
  <2> QED BY <2>2, <2>4, <2>5, <2>6
<1>6. CASE RemoveCommit(q)
  <2>1. \A r \in Row : Pending(r)' => Pending(r)
    BY <1>1, <1>6 DEF RemoveCommit, Pending, RequestShape
  <2> QED BY <1>6, <2>1, RequestMoves, Moves DEF RemoveCommit
<1> QED BY <1>2, <1>3, <1>4, <1>5, <1>6 DEF Handle

LEMMA PollPolled ==
    ASSUME Typed, PendingIsPolled, NEW q \in Request, Poll(q)
    PROVE  PendingIsPolled'
<1>1. /\ row \in [Row -> RowState] /\ poll \in [Request -> PollerState]
      /\ PollerShape(poll[q])
  BY DEF Typed, RowsTyped, PollersTyped
<1>2. /\ \A p \in Request \ {q} : poll'[p] = poll[p]
      /\ UNCHANGED <<req, raised>>
  BY <1>1 DEF Poll, PollTry, PollLast, PollCommit, PollGoto, PollEnds
<1>3. CASE PollTry(q) \/ PollLast(q)
  <2>1. UNCHANGED row
    BY <1>3 DEF PollTry, PollLast
  <2>2. \/ ~Pending(poll[q].row)
        \/ poll'[q].pc # "idle" /\ poll'[q].row = poll[q].row
    BY <1>1, <1>3 DEF PollTry, PollLast, PollGoto, PollerState
  <2> QED BY <1>2, <2>1, <2>2, PollerMoves DEF Pending, Polls
<1>4. CASE PollCommit(q)
  <2>1. poll[q].row \in Row
    BY <1>1, <1>4 DEF PollCommit, PollerShape
  <2>2. \A r \in Row : Pending(r)' => Pending(r) /\ r # poll[q].row
    <3>1. CASE Exists(poll[q].row)
      <4>1. PICK st \in {"pending_cert", "failed"} : SetStatus(poll[q].row, st)
        BY <1>4, <3>1 DEF PollCommit
      <4> QED BY <1>1, <2>1, <4>1 DEF SetStatus, Pending, RowState
    <3>2. CASE ~Exists(poll[q].row)
      BY <1>4, <3>2 DEF PollCommit, Pending, Exists
    <3> QED BY <3>1, <3>2
  <2> QED BY <1>2, <2>2, PollerMoves DEF Polls
<1> QED BY <1>3, <1>4 DEF Poll

LEMMA StepPolled == Typed /\ PendingIsPolled /\ [Next]_vars => PendingIsPolled'
<1> SUFFICES ASSUME Typed, PendingIsPolled, [Next]_vars PROVE PendingIsPolled'
  OBVIOUS
<1>1. CASE UNCHANGED vars
  BY <1>1 DEF vars, PendingIsPolled, Polled, Starting, Pending
<1>2. ASSUME NEW s \in Server, DeleteServer(s) PROVE PendingIsPolled'
  BY <1>2 DEF DeleteServer, PendingIsPolled, Polled, Starting, Pending
<1>3. ASSUME NEW q \in Request, NEW s \in Server,
             (\E d \in Domain : Add(q, s, d)) \/ Verify(q, s) \/ Remove(q, s)
      PROVE  PendingIsPolled'
  <2>1. /\ req[q].pc = "idle" /\ UNCHANGED <<row, poll, raised>>
        /\ \A p \in Request \ {q} : req'[p] = req[p]
    BY <1>3 DEF Add, Verify, Remove, Read, Typed, RequestsTyped
  <2> QED BY <2>1, RequestMoves DEF Pending
<1>4. ASSUME NEW q \in Request, RequestRaises(q) PROVE PendingIsPolled'
  BY <1>4, RequestMoves, Moves DEF RequestRaises, Pending
<1>5. ASSUME NEW q \in Request, PollRaises(q) PROVE PendingIsPolled'
  <2>1. \A p \in Request \ {q} : poll'[p] = poll[p]
    BY <1>5 DEF PollRaises, PollEnds, Typed, PollersTyped
  <2>2. /\ UNCHANGED <<row, req>> /\ raised \subseteq raised'
        /\ \A r \in Row : Polls(q, r) => r \in raised'
    BY <1>5 DEF PollRaises, Polls
  <2> QED BY <2>1, <2>2, PollerMoves DEF Pending
<1> QED BY <1>1, <1>2, <1>3, <1>4, <1>5, HandlePolled, PollPolled DEF Next

\* A row that waits for DNS has a poller, or a request about to start one,
\* unless an exception of either ended its verification (domains.py:44-47,
\* :96-97, dns_poller.py:11-37).
THEOREM PendingPolled == Spec => []PendingIsPolled
<1>1. Init => PendingIsPolled
  BY DEF Init, PendingIsPolled, Pending
<1> QED BY <1>1, InitTyped, StepTyped, StepPolled, PTL DEF Spec

(***************************************************************************)
(* A removed row stays removed.                                            *)
(***************************************************************************)
\* What a step does to the rows: it registers a domain on an unused one, or
\* changes or ends a registration.
LEMMA RowsStep ==
    ASSUME Typed, [Next]_vars
    PROVE  \/ UNCHANGED row
           \/ \E r \in Row, d \in Domain, s \in Server :
                 /\ row[r].st = "unused"
                 /\ row' = [row EXCEPT ![r] = [srv |-> s, dom |-> d, st |-> "pending_dns"]]
           \/ \E r \in Row, st \in RowStatus \ {"removed"} : Exists(r) /\ SetStatus(r, st)
           \/ \E r \in Row : row' = [row EXCEPT ![r] =
                                    [srv |-> None, dom |-> None, st |-> "removed"]]
<1>1. \A q \in Request : RequestShape(req[q]) /\ PollerShape(poll[q])
  BY DEF Typed, RequestsTyped, PollersTyped
<1>2. ASSUME NEW q \in Request, AddInsert(q) PROVE ~UNCHANGED row =>
         \E r \in Row, d \in Domain, s \in Server :
            /\ row[r].st = "unused"
            /\ row' = [row EXCEPT ![r] = [srv |-> s, dom |-> d, st |-> "pending_dns"]]
  <2>1. req[q].srv \in Server /\ req[q].dom \in Domain
    BY <1>1, <1>2 DEF AddInsert, RequestShape
  <2> QED BY <1>2, <2>1 DEF AddInsert, Insert
<1>3. ASSUME NEW q \in Request, VerifyCommit(q) \/ PollCommit(q) PROVE ~UNCHANGED row =>
         \E r \in Row, st \in RowStatus \ {"removed"} : Exists(r) /\ SetStatus(r, st)
  <2>1. {"pending_dns", "pending_cert", "failed"} \subseteq RowStatus \ {"removed"}
    BY DEF RowStatus
  <2> QED BY <1>1, <1>3, <2>1 DEF VerifyCommit, PollCommit, RequestShape, PollerShape
<1>4. ASSUME NEW q \in Request, RemoveCommit(q)
      PROVE  \E r \in Row : row' = [row EXCEPT ![r] = [srv |-> None, dom |-> None, st |-> "removed"]]
  BY <1>1, <1>4 DEF RemoveCommit, RequestShape
<1> QED
  BY <1>2, <1>3, <1>4
     DEF Next, vars, Handle, Poll, Add, AddCheck, Verify, Remove, Read, StartPoller,
         DeleteServer, PollTry, PollLast, RequestRaises, PollRaises

\* No poller and no retry brings a removed registration back
\* (dns_poller.py:22, :30, domains.py:96).
THEOREM RemovedForGood == Spec => RemovedStaysRemoved
<1>1. Typed /\ [Next]_vars =>
        [\A r \in Row : row[r].st = "removed" => row'[r].st = "removed"]_vars
  <2> SUFFICES ASSUME Typed, [Next]_vars, NEW r \in Row, row[r].st = "removed"
               PROVE  row'[r].st = "removed"
    OBVIOUS
  <2>1. row \in [Row -> RowState]
    BY DEF Typed, RowsTyped
  <2> QED BY <2>1, RowsStep DEF SetStatus, Exists
<1> QED BY <1>1, InitTyped, StepTyped, PTL DEF Spec, RemovedStaysRemoved
==============================================================================
