---------------------------- MODULE EventListener ----------------------------
(***************************************************************************)
(* The coroutine that follows Docker's events: a recovery pass over the    *)
(* rows in provisioning, a subscription, then one event after another.     *)
(* Each handler reads a row, and commits what it decided in a later step.  *)
(***************************************************************************)
EXTENDS Platform

CONSTANT StreamFaults   \* how the connection to Docker may break
ASSUME StreamFaultsAssumption == StreamFaults \subseteq {"fails", "ends"}

VARIABLE lsn            \* the listener: where it is, what it read

\* What a pending commit was decided on: a passed or failed recovery check, or
\* an event.
Found  == {"found_healthy", "found_dead"}
Reason == Found \cup {"healthy", "crash", "stop"}

Listener ==
    [pc   : {"start", "recover", "recheck", "commit", "subscribing", "listening"},
     todo : SUBSET (Server \X Container),   \* the snapshot of the recovery pass
     srv  : Server \cup {None},
     why  : Reason \cup {None}]

ListenerTypeOK == lsn \in Listener

AtStart == [pc |-> "start", todo |-> {}, srv |-> None, why |-> None]

ListenerInit == lsn = AtStart /\ stream = "off"

Decide(pc, s, why) == lsn' = [lsn EXCEPT !.pc = pc, !.srv = s, !.why = why]

\* Where the listener goes on after it dealt with what it was looking at.
Resumed == IF lsn.why \in Found THEN "recover" ELSE "listening"

NewStatus(why) == IF why \in {"healthy", "found_healthy"} THEN "active" ELSE "error"

-----------------------------------------------------------------------------
(* The recovery pass.                                                      *)

\* One query for the rows in provisioning; those without ids are skipped.
Recover ==
    /\ lsn.pc = "start"
    /\ lsn' = [AtStart EXCEPT
                 !.pc   = "recover",
                 !.todo = {i \in Server \X Container :
                             status[i[1]] = "provisioning" /\ saved[i[1]] = i[2]}]
    /\ UNCHANGED platformVars

\* container_health of the next row of the snapshot.
RecoverCheck ==
    /\ lsn.pc = "recover"
    /\ \E i \in lsn.todo :
         LET Check(why) == [lsn EXCEPT !.pc = "recheck", !.todo = @ \ {i},
                                      !.srv = i[1], !.why = why]
         IN  \/ cstate[i[2]] = "healthy" /\ lsn' = Check("found_healthy")
             \/ cstate[i[2]] \in {"absent", "exited"} /\ lsn' = Check("found_dead")
             \/ cstate[i[2]] \notin {"healthy", "absent", "exited"}
                /\ lsn' = [lsn EXCEPT !.todo = @ \ {i}]
    /\ UNCHANGED platformVars

\* Docker cannot be asked: the whole pass is abandoned and started over.
RecoverFails ==
    /\ "container_health" \in Faults
    /\ lsn.pc = "recover" /\ lsn.todo # {}
    /\ lsn' = AtStart
    /\ UNCHANGED platformVars

\* The row is read again before it is changed.
RecoverRecheck ==
    /\ lsn.pc = "recheck"
    /\ IF status[lsn.srv] = "provisioning"
       THEN Decide("commit", lsn.srv, lsn.why)
       ELSE Decide("recover", None, None)
    /\ UNCHANGED platformVars

RecoverDone ==
    /\ lsn.pc = "recover" /\ lsn.todo = {}
    /\ lsn' = [AtStart EXCEPT !.pc = "subscribing"]
    /\ UNCHANGED platformVars

-----------------------------------------------------------------------------
(* The subscription.                                                       *)

\* The executor has one thread, which an old connection may still hold.
Subscribe ==
    /\ lsn.pc = "subscribing"
    /\ stream = "off"
    /\ stream' = "live"
    /\ lsn' = [lsn EXCEPT !.pc = "listening"]
    /\ UNCHANGED <<rows, zone, conf, docker>>

\* Slips: the healthy handler leaves rows without ids alone, as the recovery pass
\* does; the die handler looks for rows in provisioning, as the other one does.
ConcernsSaved(e, s) ==
    /\ SubOf[s] = e.sub
    /\ status[s] \in IF e.kind = "healthy" THEN {"provisioning"}
                     ELSE {"active", "provisioning"}
    /\ e.kind = "healthy" => saved[s] # None
ConcernsStarting(e, s) == SubOf[s] = e.sub /\ status[s] = "provisioning"

\* The row an event may change: of its subdomain, in a status it bears on.
Concerns(e, s) ==
    /\ SubOf[s] = e.sub
    /\ status[s] \in IF e.kind = "healthy" THEN {"provisioning"}
                     ELSE {"active", "provisioning"}

\* The next event, after the sleep that precedes the handling of a die event:
\* the row it concerns is read.
TakeEvent ==
    /\ lsn.pc = "listening"
    /\ events # << >>
    /\ events' = Tail(events)
    /\ IF \E s \in Server : Concerns(Head(events), s)
       THEN \E s \in Server :
              /\ Concerns(Head(events), s)
              /\ Decide("commit", s, Head(events).kind)
       ELSE UNCHANGED lsn
    /\ UNCHANGED <<rows, zone, conf, cstate, owner, stream>>

\* The commit of the status decided on.
ListenerCommit ==
    /\ lsn.pc = "commit"
    /\ SetStatus(lsn.srv, NewStatus(lsn.why))
    /\ Decide(Resumed, None, None)
    /\ UNCHANGED <<saved, dnsSaved, zone, conf, docker, stream>>

\* The database refuses the commit.  The exception ends the subscription: the
\* events queued for it are lost, and its thread stays on the old connection.
ListenerCommitFails ==
    /\ lsn.pc = "commit"
    /\ \/ ~IndexAllows(lsn.srv, NewStatus(lsn.why))
       \/ "handle_event" \in Faults
    /\ lsn' = AtStart
    /\ IF stream = "live" THEN stream' = "stale"
       ELSE stream' = IF stream = "ended" THEN "off" ELSE stream
    /\ events' = << >>
    /\ UNCHANGED <<rows, zone, conf, cstate, owner>>

\* The connection broke with an exception, which is queued behind the events.
StreamLost ==
    /\ lsn.pc = "listening"
    /\ stream = "off" /\ events = << >>
    /\ lsn' = AtStart
    /\ UNCHANGED platformVars

-----------------------------------------------------------------------------
(* The connection itself.                                                  *)

StreamFails ==
    /\ "fails" \in StreamFaults
    /\ stream \in {"live", "stale"}
    /\ stream' = "off"
    /\ UNCHANGED <<rows, zone, conf, docker>>

\* A stream that ends without an exception leaves nothing in the queue, and a
\* listener that goes on waiting for it.
StreamEnds ==
    /\ "ends" \in StreamFaults
    /\ stream \in {"live", "stale"}
    /\ stream' = IF stream = "live" THEN "ended" ELSE "off"
    /\ UNCHANGED <<rows, zone, conf, docker>>

RecoveryPass == Recover \/ RecoverCheck \/ RecoverFails \/ RecoverRecheck \/ RecoverDone

ListenerStep ==
    \/ RecoveryPass
    \/ Subscribe
    \/ TakeEvent
    \/ ListenerCommit
    \/ ListenerCommitFails
    \/ StreamLost
=============================================================================
