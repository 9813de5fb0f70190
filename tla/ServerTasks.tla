----------------------------- MODULE ServerTasks -----------------------------
(***************************************************************************)
(* The server endpoints and their background tasks.  A task is one request *)
(* and the background work it schedules, run one after the other by one    *)
(* coroutine.  An action ends where the coroutine awaits a call that       *)
(* changes something: between two of them everybody else may run.          *)
(***************************************************************************)
EXTENDS EventListener

CONSTANTS
    Task,         \* coroutines: bounds the requests in progress at a time
    Ops           \* the endpoints clients use

ASSUME OpsAssumption ==
    Ops \subseteq {"create", "update", "suspend", "resume", "delete"}

VARIABLE task

ProvisionPc == {"create_a_record", "save_dns", "start_containers", "save_ids"}
RollbackPc  == {"undo_stop", "undo_remove", "undo_dns", "undo_config",
                "undo_read", "undo_commit"}
ResumePc    == {"resume_commit", "resume_start", "resume_health", "resume_create",
                "resume_save", "resume_undo_read", "resume_undo_commit"}
DeletePc    == {"delete_commit", "delete_config", "delete_stop",
                "delete_remove", "delete_dns"}
Pc == {"idle", "create_config", "create_error", "update_config",
       "suspend_commit", "suspend_stop"}
      \cup ProvisionPc \cup RollbackPc \cup ResumePc \cup DeletePc

TaskState ==
    [pc   : Pc,
     srv  : Server \cup {None},
     seen : Status \cup {None},       \* the status the handler read
     cid  : Container \cup {None},    \* the container ids it read or was given
     rec  : BOOLEAN]                  \* whether it knows a DNS record id

TasksTypeOK == task \in [Task -> TaskState]

Idle == [pc |-> "idle", srv |-> None, seen |-> None, cid |-> None, rec |-> FALSE]

TasksInit == task = [t \in Task |-> Idle]

At(t, pc) == task[t].pc = pc
Finish(t) == task' = [task EXCEPT ![t] = Idle]
Goto(t, pc) ==
    IF pc = "idle" THEN Finish(t)
    ELSE task' = [task EXCEPT ![t].pc = pc, ![t].seen = None]

\* A handler that loads row s and goes on with what it read.
Begin(t, s, pc) ==
    task' = [task EXCEPT ![t] = [pc |-> pc, srv |-> s, seen |-> status[s],
                                 cid |-> saved[s], rec |-> s \in dnsSaved]]

\* db.commit() of a status: where it raises, the coroutine ends there.
CommitStatus(t, st, next) ==
    LET s == task[t].srv
    IN  \/ SetStatus(s, st) /\ Goto(t, next)
        \/ /\ ~IndexAllows(s, st) \/ "commit_status" \in Faults
           /\ UNCHANGED status /\ Finish(t)

\* Ids a row, a task or the recovery pass still refers to.
InUse == {saved[s] : s \in Server} \cup {task[t].cid : t \in Task}
           \cup {i[2] : i \in lsn.todo}

\* Slip: a container that has the name already is taken for the new one.
StartedOrFound(t, next) ==
    \E c \in Container :
       /\ task' = [task EXCEPT ![t].pc = next, ![t].cid = c]
       /\ \/ c \notin InUse /\ RunContainer(c, task[t].srv)
          \/ /\ cstate[c] # "absent" /\ SubOf[owner[c]] = SubOf[task[t].srv]
             /\ UNCHANGED docker

\* start_gtm_containers: new containers, whose ids the task then holds.
Started(t, next) ==
    \E c \in Container \ InUse :
       /\ RunContainer(c, task[t].srv)
       /\ task' = [task EXCEPT ![t].pc = next, ![t].cid = c]

\* start_gtm_containers raises: on a name that is taken, where Docker makes
\* nothing, or on any of its calls, after which it cleans up as far as it can.
StartFails(t) ==
    LET s == task[t].srv
    IN  \/ NameTaken(s) /\ UNCHANGED docker
        \/ "start_containers" \in Faults /\ RunUndone(s)
        \/ /\ "half_started" \in Faults /\ ~NameTaken(s)
           /\ \E c \in Container \ InUse : LeaveContainer(c, s)

StopRaises(c) ==
    /\ "stop_containers" \in Faults
    /\ UNCHANGED docker \/ StopContainer(c)

\* The client file is unlinked by its subdomain, whoever wrote it.
Unlink(s) == conf' = [conf EXCEPT ![SubOf[s]] = None]
WriteConfig(s) == conf' = [conf EXCEPT ![SubOf[s]] = s]

-----------------------------------------------------------------------------
(* POST /servers                                                           *)

\* The row is inserted unless the subdomain has a live row.
Create(t, s) ==
    /\ "create" \in Ops
    /\ At(t, "idle")
    /\ status[s] = "absent"
    /\ SetStatus(s, "provisioning")
    /\ task' = [task EXCEPT ![t] = [Idle EXCEPT !.pc = "create_config", !.srv = s]]
    /\ UNCHANGED <<saved, dnsSaved, zone, conf, docker>>

\* The row is refreshed before the file is written; if that raises, nothing
\* follows the insert.
CreateConfig(t) ==
    /\ At(t, "create_config")
    /\ \/ WriteConfig(task[t].srv) /\ Goto(t, "create_a_record")
       \/ "refresh" \in Faults /\ UNCHANGED conf /\ Finish(t)
       \/ "write_config" \in Faults /\ UNCHANGED conf /\ Goto(t, "create_error")
    /\ UNCHANGED <<rows, zone, docker>>

CreateError(t) ==
    /\ At(t, "create_error")
    /\ CommitStatus(t, "error", "idle")
    /\ UNCHANGED <<saved, dnsSaved, zone, conf, docker>>

-----------------------------------------------------------------------------
(* _provision_server_bg                                                    *)

\* Slips: the except clause forgets the containers, or the DNS record.
RollbackKeepsContainers(t, cid, rec) ==
    task' = [task EXCEPT ![t].rec = rec,
                         ![t].pc = IF rec THEN "undo_dns" ELSE "undo_config"]
RollbackKeepsDns(t, cid, rec) ==
    task' = [task EXCEPT ![t].rec = rec,
                         ![t].pc = IF cid # None THEN "undo_stop" ELSE "undo_config"]

\* The except clause starts with what there is to undo.
Rollback(t, cid, rec) ==
    task' = [task EXCEPT ![t].rec = rec,
                         ![t].pc = IF cid # None THEN "undo_stop"
                                   ELSE IF rec THEN "undo_dns"
                                   ELSE "undo_config"]

\* A call that raised made no record, or it made one and the answer was lost:
\* then nobody knows the record's id.
CreateARecord(t) ==
    /\ At(t, "create_a_record")
    /\ \/ /\ dns' = dns \cup {task[t].srv}
          /\ task' = [task EXCEPT ![t].pc = "save_dns", ![t].rec = TRUE]
          /\ UNCHANGED lost
       \/ /\ \/ "create_a_record" \in Faults /\ UNCHANGED lost
             \/ "lost_answer" \in Faults /\ lost' = lost \cup {task[t].srv}
          /\ Rollback(t, None, FALSE)
          /\ UNCHANGED dns
    /\ UNCHANGED <<rows, conf, docker>>

SaveDns(t) ==
    /\ At(t, "save_dns")
    /\ \/ dnsSaved' = dnsSaved \cup {task[t].srv} /\ Goto(t, "start_containers")
       \/ "save_dns" \in Faults /\ UNCHANGED dnsSaved /\ Rollback(t, None, TRUE)
    /\ UNCHANGED <<status, saved, zone, conf, docker>>

\* restart_traefik, where it is configured, comes first and may fail as well.
StartContainers(t) ==
    /\ At(t, "start_containers")
    /\ \/ Started(t, "save_ids")
       \/ StartFails(t) /\ Rollback(t, None, TRUE)
       \/ "restart_traefik" \in Faults /\ UNCHANGED docker /\ Rollback(t, None, TRUE)
    /\ UNCHANGED <<rows, zone, conf>>

SaveIds(t) ==
    /\ At(t, "save_ids")
    /\ \/ /\ saved' = [saved EXCEPT ![task[t].srv] = task[t].cid]
          /\ Finish(t)
       \/ "save_ids" \in Faults /\ UNCHANGED saved /\ Rollback(t, task[t].cid, TRUE)
    /\ UNCHANGED <<status, dnsSaved, zone, conf, docker>>

\* stop_containers stops and then removes.  Where it raises, before the stop or
\* after it, the containers are not removed.
UndoStop(t) ==
    /\ At(t, "undo_stop")
    /\ \/ StopContainer(task[t].cid) /\ Goto(t, "undo_remove")
       \/ StopRaises(task[t].cid) /\ Goto(t, "undo_dns")
    /\ UNCHANGED <<rows, zone, conf>>

UndoRemove(t) ==
    /\ At(t, "undo_remove")
    /\ RemoveContainer(task[t].cid)
    /\ Goto(t, "undo_dns")
    /\ UNCHANGED <<rows, zone, conf>>

UndoDns(t) ==
    /\ At(t, "undo_dns")
    /\ \/ dns' = dns \ {task[t].srv}
       \/ "delete_record" \in Faults /\ UNCHANGED dns
    /\ Goto(t, "undo_config")
    /\ UNCHANGED <<rows, lost, conf, docker>>

UndoConfig(t) ==
    /\ At(t, "undo_config")
    /\ \/ Unlink(task[t].srv)
       \/ "delete_config" \in Faults /\ UNCHANGED conf
    /\ Goto(t, "undo_read")
    /\ UNCHANGED <<rows, zone, docker>>

\* Slip: the status of the row is left as it is.
UndoReadOnly(t) ==
    /\ At(t, "undo_read")
    /\ Finish(t)
    /\ UNCHANGED <<rows, zone, conf, docker>>

\* A row that reads error already is not written again.
UndoRead(t) ==
    /\ At(t, "undo_read")
    /\ IF status[task[t].srv] \in {"deleted", "error"}
       THEN Finish(t)
       ELSE Goto(t, "undo_commit")
    /\ UNCHANGED <<rows, zone, conf, docker>>

UndoCommit(t) ==
    /\ At(t, "undo_commit")
    /\ CommitStatus(t, "error", "idle")
    /\ UNCHANGED <<saved, dnsSaved, zone, conf, docker>>

-----------------------------------------------------------------------------
(* PATCH /servers/{id}, as far as it writes the client file                *)

Update(t, s) ==
    /\ "update" \in Ops
    /\ At(t, "idle")
    /\ Live(s)
    /\ Begin(t, s, "update_config")
    /\ UNCHANGED platformVars

UpdateConfig(t) ==
    /\ At(t, "update_config")
    /\ \/ WriteConfig(task[t].srv)
       \/ "write_config" \in Faults /\ UNCHANGED conf
    /\ Finish(t)
    /\ UNCHANGED <<rows, zone, docker>>

-----------------------------------------------------------------------------
(* POST /servers/{id}/suspend                                              *)

Suspend(t, s) ==
    /\ "suspend" \in Ops
    /\ At(t, "idle")
    /\ Live(s) /\ status[s] # "suspended"
    /\ Begin(t, s, "suspend_commit")
    /\ UNCHANGED platformVars

\* Slip: the background task is not scheduled.
SuspendCommitOnly(t) ==
    /\ At(t, "suspend_commit")
    /\ CommitStatus(t, "suspended", "idle")
    /\ UNCHANGED <<saved, dnsSaved, zone, conf, docker>>

\* Containers are stopped only when their ids were known to the handler, and
\* behind the answer, which there is none of if the refresh after the commit
\* raises.
SuspendCommit(t) ==
    /\ At(t, "suspend_commit")
    /\ \/ CommitStatus(t, "suspended",
                       IF task[t].cid # None THEN "suspend_stop" ELSE "idle")
       \/ "refresh" \in Faults /\ CommitStatus(t, "suspended", "idle")
    /\ UNCHANGED <<saved, dnsSaved, zone, conf, docker>>

SuspendStop(t) ==
    /\ At(t, "suspend_stop")
    /\ StopContainer(task[t].cid) \/ StopRaises(task[t].cid)
    /\ Finish(t)
    /\ UNCHANGED <<rows, zone, conf>>

-----------------------------------------------------------------------------
(* POST /servers/{id}/resume and _resume_server_bg                         *)

Resume(t, s) ==
    /\ "resume" \in Ops
    /\ At(t, "idle")
    /\ Live(s)
    /\ Begin(t, s, "resume_commit")
    /\ UNCHANGED platformVars

\* A row read in provisioning has nothing to write.  Without an answer, because
\* the refresh raises, the background task does not run.
ResumeCommit(t) ==
    LET Commit(next) == IF task[t].seen = "provisioning"
                        THEN UNCHANGED status /\ Goto(t, next)
                        ELSE CommitStatus(t, "provisioning", next)
    IN  /\ At(t, "resume_commit")
        /\ \/ Commit(IF task[t].cid # None THEN "resume_start" ELSE "resume_create")
           \/ "refresh" \in Faults /\ Commit("idle")
        /\ UNCHANGED <<saved, dnsSaved, zone, conf, docker>>

\* A start that Docker refuses goes unnoticed; other errors are raised.
ResumeStart(t) ==
    /\ At(t, "resume_start")
    /\ \/ StartContainer(task[t].cid)
       \/ "resume_containers" \in Faults /\ UNCHANGED docker
    /\ \/ Goto(t, "resume_health")
       \/ "resume_containers" \in Faults /\ Goto(t, "resume_undo_read")
    /\ UNCHANGED <<rows, zone, conf>>

ResumeHealth(t) ==
    /\ At(t, "resume_health")
    /\ \/ cstate[task[t].cid] # "absent" /\ Finish(t)
       \/ cstate[task[t].cid] = "absent" /\ Goto(t, "resume_create")
       \/ "container_health" \in Faults /\ Goto(t, "resume_undo_read")
    /\ UNCHANGED <<rows, zone, conf, docker>>

ResumeCreate(t) ==
    /\ At(t, "resume_create")
    /\ \/ Started(t, "resume_save")
       \/ StartFails(t) /\ Goto(t, "resume_undo_read")
    /\ UNCHANGED <<rows, zone, conf>>

ResumeSave(t) ==
    /\ At(t, "resume_save")
    /\ \/ /\ saved' = [saved EXCEPT ![task[t].srv] = task[t].cid]
          /\ Finish(t)
       \/ /\ "save_resumed_ids" \in Faults
          /\ UNCHANGED saved
          /\ Goto(t, "resume_undo_read")
    /\ UNCHANGED <<status, dnsSaved, zone, conf, docker>>

\* Slip: a failed resume is logged and nothing else.
ResumeUndoNothing(t) ==
    /\ At(t, "resume_undo_read")
    /\ Finish(t)
    /\ UNCHANGED <<rows, zone, conf, docker>>

ResumeUndoRead(t) ==
    /\ At(t, "resume_undo_read")
    /\ IF status[task[t].srv] = "provisioning"
       THEN Goto(t, "resume_undo_commit")
       ELSE Finish(t)
    /\ UNCHANGED <<rows, zone, conf, docker>>

ResumeUndoCommit(t) ==
    /\ At(t, "resume_undo_commit")
    /\ CommitStatus(t, "error", "idle")
    /\ UNCHANGED <<saved, dnsSaved, zone, conf, docker>>

-----------------------------------------------------------------------------
(* DELETE /servers/{id} and _delete_server_bg                              *)

Delete(t, s) ==
    /\ "delete" \in Ops
    /\ At(t, "idle")
    /\ Live(s)
    /\ Begin(t, s, "delete_commit")
    /\ UNCHANGED platformVars

DeleteCommit(t) ==
    /\ At(t, "delete_commit")
    /\ CommitStatus(t, "deleted", "delete_config")
    /\ UNCHANGED <<saved, dnsSaved, zone, conf, docker>>

\* Slip: the DNS record is left out of the cleanup.
KeepDns(t) == "idle"

DropDns(t) == IF task[t].rec THEN "delete_dns" ELSE "idle"

\* An unlink or a Traefik restart that fails takes the cleanup behind it along.
DeleteConfig(t) ==
    /\ At(t, "delete_config")
    /\ \/ /\ Unlink(task[t].srv)
          /\ Goto(t, IF task[t].cid # None THEN "delete_stop" ELSE DropDns(t))
       \/ "restart_traefik" \in Faults /\ Unlink(task[t].srv) /\ Finish(t)
       \/ "delete_config" \in Faults /\ UNCHANGED conf /\ Finish(t)
    /\ UNCHANGED <<rows, zone, docker>>

DeleteStop(t) ==
    /\ At(t, "delete_stop")
    /\ \/ StopContainer(task[t].cid) /\ Goto(t, "delete_remove")
       \/ StopRaises(task[t].cid) /\ Goto(t, DropDns(t))
    /\ UNCHANGED <<rows, zone, conf>>

DeleteRemove(t) ==
    /\ At(t, "delete_remove")
    /\ RemoveContainer(task[t].cid)
    /\ Goto(t, DropDns(t))
    /\ UNCHANGED <<rows, zone, conf>>

DeleteDns(t) ==
    /\ At(t, "delete_dns")
    /\ \/ dns' = dns \ {task[t].srv}
       \/ "delete_record" \in Faults /\ UNCHANGED dns
    /\ Finish(t)
    /\ UNCHANGED <<rows, lost, conf, docker>>

-----------------------------------------------------------------------------
Request(t) ==
    /\ Room
    /\ \E s \in Server :
         Create(t, s) \/ Update(t, s) \/ Suspend(t, s) \/ Resume(t, s) \/ Delete(t, s)

Provision(t) ==
    CreateConfig(t) \/ CreateError(t) \/ CreateARecord(t) \/ SaveDns(t)
      \/ StartContainers(t) \/ SaveIds(t)

Undo(t) ==
    UndoStop(t) \/ UndoRemove(t) \/ UndoDns(t) \/ UndoConfig(t)
      \/ UndoRead(t) \/ UndoCommit(t)

SuspendResume(t) ==
    SuspendCommit(t) \/ SuspendStop(t) \/ ResumeCommit(t) \/ ResumeStart(t)
      \/ ResumeHealth(t) \/ ResumeCreate(t) \/ ResumeSave(t)
      \/ ResumeUndoRead(t) \/ ResumeUndoCommit(t)

Deprovision(t) ==
    DeleteCommit(t) \/ DeleteConfig(t) \/ DeleteStop(t) \/ DeleteRemove(t)
      \/ DeleteDns(t)

\* A task that has begun goes on by itself; a request comes from outside.
TaskStep(t) == Provision(t) \/ Undo(t) \/ UpdateConfig(t) \/ SuspendResume(t)
                 \/ Deprovision(t)
=============================================================================
