---------------------------- MODULE CleanupProofs ----------------------------
(***************************************************************************)
(* What a failed provisioning, a delete and a suspend leave behind, for    *)
(* any number of requests at a time, and that no request strands a server. *)
(***************************************************************************)
EXTENDS OrphanProofs

\* What a task may do to containers: one move of one it knows, a new one, or a
\* failed start.
LEMMA TaskMoves ==
    ASSUME Local, NEW t \in Task, Request(t) \/ TaskStep(t)
    PROVE  \/ UNCHANGED <<cstate, owner>>
           \/ /\ task[t].cid \in Container
              /\ StopContainer(task[t].cid) \/ RemoveContainer(task[t].cid)
           \/ /\ task[t].cid \in Container /\ task[t].pc = "resume_start"
              /\ StartContainer(task[t].cid)
           \/ /\ task[t].pc \in {"start_containers", "resume_create"}
              /\ \E c \in Container : RunContainer(c, task[t].srv)
           \/ \E c \in Container : LeaveContainer(c, task[t].srv)
<1>1. CASE Request(t) BY <1>1, RequestTravels DEF docker
<1>2. CASE \/ UndoStop(t) \/ UndoRemove(t) \/ SuspendStop(t)
           \/ ResumeStart(t) \/ DeleteStop(t) \/ DeleteRemove(t)
  <2>1. task[t].cid \in Container
    BY <1>2, AtServer DEF At, UndoStop, UndoRemove, SuspendStop, ResumeStart,
       DeleteStop, DeleteRemove, WithContainers
  <2> QED BY <1>2, <2>1 DEF UndoStop, UndoRemove, SuspendStop, ResumeStart, At,
          DeleteStop, DeleteRemove, StopRaises, docker
<1>3. CASE StartContainers(t) \/ ResumeCreate(t)
  BY <1>3 DEF StartContainers, ResumeCreate, Started, StartFails, RunUndone, At, docker
<1>4. CASE SaveIds(t) \/ ResumeSave(t) BY <1>4, SaveTravels DEF docker
<1>5. CASE \/ CreateError(t) \/ UndoCommit(t) \/ SuspendCommit(t)
           \/ ResumeCommit(t) \/ ResumeUndoCommit(t) \/ DeleteCommit(t)
  BY <1>5, CommitTravels DEF docker
<1>6. CASE \/ CreateConfig(t) \/ CreateARecord(t) \/ SaveDns(t) \/ UndoDns(t)
           \/ UndoConfig(t) \/ UndoRead(t) \/ UpdateConfig(t) \/ ResumeHealth(t)
           \/ ResumeUndoRead(t) \/ DeleteConfig(t) \/ DeleteDns(t)
  BY <1>6, OtherTravels DEF docker
<1> QED BY <1>1, <1>2, <1>3, <1>4, <1>5, <1>6
        DEF TaskStep, Provision, Undo, SuspendResume, Deprovision

\* What happens outside the tasks: the listener writes active and error, and
\* Docker goes its own way.
OutsideTasks ==
    /\ UNCHANGED <<saved, dnsSaved, dns, conf, task>>
    /\ \A s \in Server : status'[s] = status[s] \/ status'[s] \in {"active", "error"}
    /\ UNCHANGED <<cstate, owner>> \/ DockerStep

LEMMA NextKinds ==
    ASSUME ~Restarts, Shape, [Next]_vars
    PROVE  OutsideTasks \/ \E t \in Task : Request(t) \/ TaskStep(t)
<1>1. Local BY DEF Shape, TypeOK, Local
<1>2. CASE ListenerStep /\ UNCHANGED task
  <2>1. CASE ListenerCommit
    <3>1. lsn.srv \in Server BY <2>1 DEF ListenerCommit, Shape, ListenerShape
    <3>2. NewStatus(lsn.why) \in {"active", "error"} BY DEF NewStatus
    <3> QED BY <1>1, <1>2, <2>1, <3>1, <3>2
            DEF ListenerCommit, SetStatus, Local, PlatformTypeOK, OutsideTasks, docker, zone
  <2>2. CASE ~ListenerCommit
    BY <1>2, <2>2 DEF ListenerStep, RecoveryPass, Recover, RecoverCheck,
       RecoverFails, RecoverRecheck, RecoverDone, Subscribe, TakeEvent,
       ListenerCommitFails, StreamLost, platformVars, rows, zone, docker, OutsideTasks
  <2> QED BY <2>1, <2>2
<1>3. CASE DockerStep /\ UNCHANGED <<lsn, task>>
  BY <1>3 DEF DockerStep, HealthPass, Unhealthy, Crash, LeftReports, Vanish, rows, zone,
     OutsideTasks
<1>4. CASE (StreamFails \/ StreamEnds) /\ UNCHANGED <<lsn, task>>
  BY <1>4 DEF StreamFails, StreamEnds, rows, zone, docker, OutsideTasks
<1>5. CASE UNCHANGED vars BY <1>5 DEF vars, platformVars, rows, zone, docker, OutsideTasks
<1>6. ~Restart BY DEF Restart
<1> QED BY <1>2, <1>3, <1>4, <1>5, <1>6 DEF Next

\* As long as nobody removes containers, what is up stays up and nothing else
\* comes up.
Outside ==
    /\ OutsideTasks
    /\ UNCHANGED owner
    /\ \A c \in Container : \/ cstate'[c] = cstate[c]
                            \/ cstate[c] \in {"running", "healthy"}
                                 /\ cstate'[c] \in {"running", "healthy"}

LEMMA NextOutside ==
    ASSUME NoTrackLost, Shape, [Next]_vars
    PROVE  Outside \/ \E t \in Task : Request(t) \/ TaskStep(t)
<1>1. Local BY DEF Shape, TypeOK, Local
<1>2. CASE OutsideTasks /\ UNCHANGED <<cstate, owner>> BY <1>2 DEF Outside
<1>3. CASE OutsideTasks /\ DockerStep
  <2>1. PICK c \in Container : HealthPass(c) \/ Unhealthy(c) \/ Crash(c) \/ LeftReports(c)
    BY <1>3 DEF DockerStep, Vanish, NoTrackLost
  <2> QED BY <1>1, <1>3, <2>1 DEF HealthPass, Unhealthy, Crash, LeftReports, Up, rows,
          zone, Local, PlatformTypeOK, Outside
<1> QED BY <1>2, <1>3, NextKinds DEF NoTrackLost, OutsideTasks

-----------------------------------------------------------------------------
(* A failed provisioning is rolled back.                                   *)

\* A record without containers is in the hands of the task that made it.
RecordHolding == {"save_dns", "start_containers", "save_ids",
                  "undo_stop", "undo_remove", "undo_dns"}
RecordHeld(t, s) == task[t].srv = s /\ task[t].pc \in RecordHolding
RecordsUsed == \A s \in dns : saved[s] # None \/ \E t \in Task : RecordHeld(t, s)

\* Ids are written over, but never taken away.
LEMMA IdsStay ==
    ASSUME Local, NEW t \in Task, Request(t) \/ TaskStep(t)
    PROVE  \A s \in Server : saved[s] # None => saved'[s] # None
<1>1. CASE SaveIds(t) \/ ResumeSave(t)
  <2>1. task[t].cid \in Container /\ task[t].cid # None
    BY <1>1, HoldingCid DEF SaveIds, ResumeSave, At, Holding
  <2> QED BY <1>1, <2>1 DEF SaveIds, ResumeSave, Local, PlatformTypeOK
<1>2. CASE UNCHANGED saved BY <1>2
<1>3. CASE StartContainers(t) \/ ResumeCreate(t)
  BY <1>2, <1>3 DEF StartContainers, ResumeCreate, rows, zone
<1> QED BY <1>1, <1>2, <1>3, RequestTravels, CommitTravels, OtherTravels, ContainerTravels
        DEF TaskStep, Provision, Undo, SuspendResume, Deprovision

LEMMA RecordStepKeeps ==
    ASSUME RecordsUsed, NEW t \in Task, OthersKept(t), dns \subseteq Server,
           \A s \in Server : saved[s] # None => saved'[s] # None,
           \A s \in dns' : \/ s \in dns /\ ~RecordHeld(t, s)
                           \/ saved'[s] # None
                           \/ RecordHeld(t, s)'
    PROVE  RecordsUsed'
<1>1. SUFFICES ASSUME NEW s \in dns', s \in dns /\ ~RecordHeld(t, s)
               PROVE  saved'[s] # None \/ \E u \in Task : RecordHeld(u, s)'
  BY DEF RecordsUsed
<1>2. saved[s] # None \/ \E u \in Task \ {t} : RecordHeld(u, s) BY <1>1 DEF RecordsUsed
<1> QED BY <1>1, <1>2 DEF OthersKept, RecordHeld

LEMMA TaskKeepsRecords ==
    ASSUME "delete_record" \notin Faults,
           Local, RecordsUsed, NEW t \in Task, Request(t) \/ TaskStep(t)
    PROVE  RecordsUsed'
<1>1. OthersKept(t) BY RequestAlone, StepAlone
<1>2. dns \subseteq Server BY DEF Local, PlatformTypeOK
<1>3. \A s \in Server : saved[s] # None => saved'[s] # None BY IdsStay
<1>4. CASE task[t].pc \notin RecordHolding \cup {"create_a_record"}
  <2>1. dns' \subseteq dns BY <1>4, DnsFree DEF RecordHolding, DnsHolding
  <2> QED BY <1>1, <1>2, <1>3, <1>4, <2>1, RecordStepKeeps DEF RecordHeld
<1>5. ASSUME UNCHANGED dns, task'[t].srv = task[t].srv,
             task'[t].pc \in RecordHolding
      PROVE  RecordsUsed'
  BY <1>1, <1>2, <1>3, <1>5, RecordStepKeeps DEF RecordHeld
<1>6. CASE CreateARecord(t)
  <2>1. CASE /\ dns' = dns \cup {task[t].srv}
             /\ task' = [task EXCEPT ![t].pc = "save_dns", ![t].rec = TRUE]
    <3>1. task[t] \in TaskState BY DEF Local, TasksTypeOK
    <3>2. task'[t].pc = "save_dns" /\ task'[t].srv = task[t].srv
      BY <2>1, <3>1 DEF Local, TasksTypeOK, TaskState
    <3>3. task[t].pc \notin RecordHolding BY <1>6 DEF CreateARecord, At, RecordHolding
    <3> QED BY <1>1, <1>2, <1>3, <2>1, <3>2, <3>3, RecordStepKeeps
            DEF RecordHeld, RecordHolding
  <2>2. CASE UNCHANGED dns
    BY <1>1, <1>2, <1>3, <1>6, <2>2, RecordStepKeeps
       DEF CreateARecord, At, RecordHeld, RecordHolding
  <2> QED BY <1>6, <2>1, <2>2 DEF CreateARecord
<1>7. CASE SaveDns(t)
  <2>1. Goto(t, "start_containers") \/ Rollback(t, None, TRUE) BY <1>7 DEF SaveDns
  <2>2. task'[t].pc \in RecordHolding /\ task'[t].srv = task[t].srv
    BY <2>1, PcMembers, GotoGives, RollbackGives DEF RecordHolding
  <2> QED BY <1>5, <1>7, <2>2 DEF SaveDns, zone
<1>8. CASE StartContainers(t)
  <2>1. CASE Started(t, "save_ids")
    <3>1. task'[t].pc = "save_ids" /\ task'[t].srv = task[t].srv
      BY <2>1 DEF Started, Local, TasksTypeOK, TaskState
    <3> QED BY <1>5, <1>8, <3>1 DEF StartContainers, RecordHolding, zone
  <2>2. CASE Rollback(t, None, TRUE)
    BY <1>5, <1>8, <2>2, RollbackGives DEF StartContainers, RecordHolding, zone
  <2> QED BY <1>8, <2>1, <2>2 DEF StartContainers
<1>9. CASE SaveIds(t)
  <2>0. task[t].cid # None BY <1>9, HoldingCid DEF SaveIds, At, Holding
  <2>1. CASE saved' = [saved EXCEPT ![task[t].srv] = task[t].cid]
    BY <1>1, <1>2, <1>3, <1>9, <2>0, <2>1, RecordStepKeeps
       DEF SaveIds, RecordHeld, Local, PlatformTypeOK, zone
  <2>2. CASE Rollback(t, task[t].cid, TRUE)
    BY <1>5, <1>9, <2>2, RollbackGives DEF SaveIds, RecordHolding, zone
  <2> QED BY <1>9, <2>1, <2>2 DEF SaveIds
<1>10. CASE UndoStop(t) \/ UndoRemove(t)
  <2>1. \E pc \in {"undo_remove", "undo_dns"} : Goto(t, pc)
    BY <1>10 DEF UndoStop, UndoRemove
  <2>2. task'[t].pc \in RecordHolding /\ task'[t].srv = task[t].srv
    BY <2>1, PcMembers, GotoGives DEF RecordHolding
  <2> QED BY <1>5, <1>10, <2>2 DEF UndoStop, UndoRemove, zone
<1>11. CASE UndoDns(t)
  BY <1>1, <1>2, <1>3, <1>11, RecordStepKeeps DEF UndoDns, RecordHeld
<1>12. CASE task[t].pc \in RecordHolding \cup {"create_a_record"}
  <2>1. TaskStep(t)
    BY <1>12 DEF RecordHolding, Request, Create, Update, Suspend, Resume, Delete, At
  <2>2. Provision(t) \/ Undo(t)
    BY <1>12, <2>1 DEF TaskStep, RecordHolding, UpdateConfig, SuspendResume,
       SuspendCommit, SuspendStop, ResumeCommit, ResumeStart, ResumeHealth,
       ResumeCreate, ResumeSave, ResumeUndoRead, ResumeUndoCommit, Deprovision,
       DeleteCommit, DeleteConfig, DeleteStop, DeleteRemove, DeleteDns, At
  <2>3. \/ CreateARecord(t) \/ SaveDns(t) \/ StartContainers(t) \/ SaveIds(t)
        \/ UndoStop(t) \/ UndoRemove(t) \/ UndoDns(t)
    BY <1>12, <2>2 DEF RecordHolding, Provision, CreateConfig, CreateError,
       Undo, UndoConfig, UndoRead, UndoCommit, At
  <2> QED BY <1>6, <1>7, <1>8, <1>9, <1>10, <1>11, <2>3
<1> QED BY <1>4, <1>12

\* What a server has and no task is about to save or remove is in its row.
LEMMA MadeIsSaved ==
    ASSUME NoOrphanContainer, NEW s \in Server, NEW c \in Container,
           owner[c] = s, Made(c),
           \A t \in Task : task[t].srv = s => task[t].pc \notin Holding
    PROVE  saved[s] = c
BY DEF NoOrphanContainer

\* A failed provisioning is rolled back, whatever requests are interleaved and
\* whatever step failed, under the premises of ContainersFindable and as long as
\* Cloudflare takes the delete of the record: of what the API ever had an id of,
\* nothing remains.
THEOREM RollbackComplete ==
    ASSUME NoTrackLost, "delete_record" \notin Faults
    PROVE  Spec => []FailedProvisionRolledBack
<1> DEFINE Inv == RecordsUsed /\ Findable /\ OwnRows /\ OwnTasks
<1>1. Init => Inv
  BY DEF Init, PlatformInit, TasksInit, Idle, Holding, Findable, Exclusive, HeldState,
     OneUnitPerSubdomain, NoOrphanContainer, OwnRows, OwnTasks, RecordsUsed, Made
<1>2. Shape /\ Inv /\ [Next]_vars => Inv'
  <2> SUFFICES ASSUME Shape, Inv, [Next]_vars PROVE Inv' OBVIOUS
  <2>1. Findable' /\ OwnRows' /\ OwnTasks' BY NextKeepsOwn, NextFindable
  <2>2. RecordsUsed'
    <3>1. Local BY DEF Shape, TypeOK, Local
    <3>2. CASE OutsideTasks BY <3>2 DEF OutsideTasks, RecordsUsed, RecordHeld
    <3> QED BY <3>1, <3>2, NextKinds, TaskKeepsRecords DEF NoTrackLost
  <2> QED BY <2>1, <2>2
<1>3. Shape /\ Inv => FailedProvisionRolledBack
  <2> SUFFICES ASSUME Shape, Inv, NEW s \in Server, saved[s] = None, Quiet(s)
               PROVE  s \notin dns /\ \A c \in Container : owner[c] = s => ~Made(c)
    BY DEF FailedProvisionRolledBack
  <2>1. s \notin dns BY DEF RecordsUsed, RecordHeld, Quiet
  <2>2. ASSUME NEW c \in Container, owner[c] = s, Made(c) PROVE FALSE
    <3>1. saved[s] = c BY <2>2, MadeIsSaved DEF Findable, Quiet
    <3> QED BY <3>1, NoneAssumption
  <2> QED BY <2>1, <2>2
<1> QED BY <1>1, <1>2, <1>3, ShapeAlways, PTL DEF Spec

-----------------------------------------------------------------------------
(* Who writes which status.                                                *)

LEMMA StatusFrom ==
    ASSUME Local, NEW t \in Task, Request(t) \/ TaskStep(t), NEW s \in Server,
           status'[s] # status[s]
    PROVE  \/ Create(t, s) /\ status'[s] = "provisioning"
           \/ /\ s = task[t].srv
              /\ \/ /\ SuspendCommit(t) /\ status'[s] = "suspended"
                    /\ \/ Goto(t, IF task[t].cid # None THEN "suspend_stop" ELSE "idle")
                       \/ "refresh" \in Faults
                 \/ /\ ResumeCommit(t) /\ status'[s] = "provisioning"
                    /\ \/ Goto(t, IF task[t].cid # None THEN "resume_start" ELSE "resume_create")
                       \/ "refresh" \in Faults
                 \/ /\ DeleteCommit(t) /\ status'[s] = "deleted"
                    /\ Goto(t, "delete_config")
                 \/ TaskStep(t) /\ status'[s] = "error"
<1>1. status \in [Server -> Status \cup {"absent"}] BY DEF Local, PlatformTypeOK
<1>2. ASSUME NEW r, NEW st, SetStatus(r, st)
      PROVE  s = r /\ status'[s] = st
  BY <1>1, <1>2 DEF SetStatus
<1>3. ASSUME NEW st, NEW pc, CommitStatus(t, st, pc)
      PROVE  s = task[t].srv /\ status'[s] = st /\ Goto(t, pc)
  BY <1>2, <1>3 DEF CommitStatus
<1>4. CASE Request(t)
  BY <1>2, <1>4 DEF Request, Create, Update, Suspend, Resume, Delete, platformVars, rows
<1>5. CASE SuspendCommit(t) BY <1>3, <1>5 DEF SuspendCommit
<1>6. CASE ResumeCommit(t) BY <1>3, <1>6 DEF ResumeCommit
<1>7. CASE DeleteCommit(t) BY <1>3, <1>7 DEF DeleteCommit
<1>8. CASE CreateError(t) \/ UndoCommit(t) \/ ResumeUndoCommit(t)
  BY <1>3, <1>8 DEF CreateError, UndoCommit, ResumeUndoCommit, TaskStep, Provision, Undo,
     SuspendResume
<1>9. CASE \/ CreateConfig(t) \/ CreateARecord(t) \/ SaveDns(t) \/ StartContainers(t)
           \/ SaveIds(t) \/ UndoStop(t) \/ UndoRemove(t) \/ UndoDns(t) \/ UndoConfig(t)
           \/ UndoRead(t) \/ UpdateConfig(t) \/ SuspendStop(t) \/ ResumeStart(t)
           \/ ResumeHealth(t) \/ ResumeCreate(t) \/ ResumeSave(t) \/ ResumeUndoRead(t)
           \/ DeleteConfig(t) \/ DeleteStop(t) \/ DeleteRemove(t) \/ DeleteDns(t)
  BY <1>9 DEF CreateConfig, CreateARecord, SaveDns, StartContainers, SaveIds, UndoStop,
     UndoRemove, UndoDns, UndoConfig, UndoRead, UpdateConfig, SuspendStop, ResumeStart,
     ResumeHealth, ResumeCreate, ResumeSave, ResumeUndoRead, DeleteConfig, DeleteStop,
     DeleteRemove, DeleteDns, rows
<1> QED BY <1>4, <1>5, <1>6, <1>7, <1>8, <1>9
        DEF TaskStep, Provision, Undo, SuspendResume, Deprovision

\* What the task must not be denied that has a server in provisioning to settle.
Settling == Faults \cap {"commit_status", "refresh"} = {}

\* The index takes any status for a live row.
LEMMA LiveCommits ==
    ASSUME Settling, Local, OneLivePerSubdomain, NEW t \in Task, NEW s \in Server, s = task[t].srv,
           Live(s), NEW st \in Status, NEW pc, CommitStatus(t, st, pc)
    PROVE  status'[s] = st
<1>1. IndexAllows(s, st) BY DEF IndexAllows, OneLivePerSubdomain
<1> QED BY <1>1 DEF Settling, CommitStatus, SetStatus, Local, PlatformTypeOK

-----------------------------------------------------------------------------
(***************************************************************************)
(* A server in provisioning without containers has a task that will write  *)
(* another status, or the ids: the tasks that are past the commit of that  *)
(* status, unless their containers were made by an earlier one.            *)
(***************************************************************************)
Minding == MakerPc \ {"resume_commit"}
Minder(t, s) == task[t].srv = s /\ task[t].pc \in Minding

Minded == \A s \in Server :
    status[s] = "provisioning" => saved[s] # None \/ \E t \in Task : Minder(t, s)

KnewIds == \A t \in Task :
    task[t].pc \in {"resume_commit", "resume_start", "resume_health"} /\ task[t].cid # None
      => saved[task[t].srv] # None

LEMMA MindingMembers ==
    {"create_config", "create_error", "create_a_record", "save_dns", "start_containers",
     "save_ids", "undo_stop", "undo_remove", "undo_dns", "undo_config", "undo_read",
     "undo_commit", "resume_start", "resume_health", "resume_create", "resume_save",
     "resume_undo_read", "resume_undo_commit"} = Minding
BY DEF Minding, MakerPc, ProvisionPc, RollbackPc, ResumePc

LEMMA MinderGoesOn ==
    ASSUME Settling, Local, OneLivePerSubdomain, KnewIds, NEW t \in Task, TaskStep(t),
           NEW s \in Server, Minder(t, s),
           status[s] = "provisioning", status'[s] = "provisioning", saved'[s] = None
    PROVE  Minder(t, s)'
<1>1. task[t].srv = s /\ task[t].pc \in Minding BY DEF Minder
<1>2. \A pc \in Minding : pc \in Pc \ {"idle"}
  BY PcMembers, MindingMembers DEF Minding, MakerPc, Pc
<1>3. ASSUME NEW pc \in Minding, Goto(t, pc) PROVE Minder(t, s)'
  BY <1>1, <1>2, <1>3, GotoGives DEF Minder
<1>4. ASSUME NEW cid, NEW rec \in BOOLEAN, Rollback(t, cid, rec) PROVE Minder(t, s)'
  BY <1>1, <1>4, RollbackGives, MindingMembers DEF Minder
<1>5. ASSUME NEW pc \in Minding, Started(t, pc) PROVE Minder(t, s)'
  BY <1>1, <1>5 DEF Started, Minder, Local, TasksTypeOK, TaskState
<1>6. CASE CreateConfig(t) BY <1>3, <1>6, MindingMembers DEF CreateConfig, Settling
<1>7. CASE CreateError(t) \/ UndoCommit(t) \/ ResumeUndoCommit(t)
  <2>1. CommitStatus(t, "error", "idle") BY <1>7 DEF CreateError, UndoCommit, ResumeUndoCommit
  <2>2. Live(s) /\ "error" \in Status BY DEF Live, Status
  <2> QED BY <1>1, <2>1, <2>2, LiveCommits
<1>8. CASE CreateARecord(t)
  <2>1. CASE task' = [task EXCEPT ![t].pc = "save_dns", ![t].rec = TRUE]
    BY <1>1, <2>1, MindingMembers DEF Local, TasksTypeOK, TaskState, Minder
  <2> QED BY <1>4, <1>8, <2>1 DEF CreateARecord
<1>9. CASE SaveDns(t) BY <1>3, <1>4, <1>9, MindingMembers DEF SaveDns
<1>10. CASE StartContainers(t) BY <1>4, <1>5, <1>10, MindingMembers DEF StartContainers
<1>11. CASE SaveIds(t) \/ ResumeSave(t)
  <2>1. task[t].cid # None BY <1>11, HoldingCid DEF SaveIds, ResumeSave, At, Holding
  <2>2. saved' # [saved EXCEPT ![s] = task[t].cid]
    BY <2>1 DEF Local, PlatformTypeOK
  <2> QED BY <1>1, <1>3, <1>4, <1>11, <2>2, MindingMembers DEF SaveIds, ResumeSave
<1>12. CASE UndoStop(t) \/ UndoRemove(t) \/ UndoDns(t) \/ UndoConfig(t) \/ UndoRead(t)
  BY <1>1, <1>3, <1>12, MindingMembers
     DEF UndoStop, UndoRemove, UndoDns, UndoConfig, UndoRead
<1>13. CASE ResumeStart(t) BY <1>3, <1>13, MindingMembers DEF ResumeStart
<1>14. CASE ResumeHealth(t)
  <2>1. task[t].cid # None
    BY <1>14, AtServer, NoneAssumption DEF ResumeHealth, At, WithContainers
  <2>2. saved[s] # None BY <1>1, <1>14, <2>1 DEF KnewIds, ResumeHealth, At
  <2> QED BY <1>14, <2>2 DEF ResumeHealth, rows
<1>15. CASE ResumeCreate(t) BY <1>3, <1>5, <1>15, MindingMembers DEF ResumeCreate
<1>16. CASE ResumeUndoRead(t) BY <1>1, <1>3, <1>16, MindingMembers DEF ResumeUndoRead
<1>17. task[t].pc \notin {"update_config", "suspend_commit", "suspend_stop",
                          "resume_commit"} \cup DeletePc
  BY <1>1, MindingMembers DEF DeletePc
<1> QED BY <1>6, <1>7, <1>8, <1>9, <1>10, <1>11, <1>12, <1>13, <1>14, <1>15, <1>16, <1>17
        DEF TaskStep, Provision, Undo, UpdateConfig, SuspendResume, SuspendCommit,
            SuspendStop, ResumeCommit, Deprovision, DeleteCommit, DeleteConfig,
            DeleteStop, DeleteRemove, DeleteDns, At, DeletePc

LEMMA TaskKeepsMinded ==
    ASSUME Settling, Local, OneLivePerSubdomain, Minded, KnewIds, NEW t \in Task,
           Request(t) \/ TaskStep(t)
    PROVE  Minded'
<1>1. SUFFICES ASSUME NEW s \in Server, status'[s] = "provisioning", saved'[s] = None
               PROVE  \E u \in Task : Minder(u, s)'
  BY DEF Minded, Minder
<1>2. OthersKept(t) BY RequestAlone, StepAlone
<1>3. saved[s] = None BY <1>1, IdsStay
<1>4. CASE status[s] = "provisioning"
  <2>1. PICK u \in Task : Minder(u, s) BY <1>3, <1>4 DEF Minded
  <2>2. CASE u # t BY <1>2, <2>1, <2>2 DEF OthersKept, Minder
  <2>3. CASE u = t
    <3>1. TaskStep(t)
      BY <2>1, <2>3, MindingMembers
         DEF Minder, Request, Create, Update, Suspend, Resume, Delete, At
    <3> QED BY <1>1, <1>4, <2>1, <2>3, <3>1, MinderGoesOn
  <2> QED BY <2>2, <2>3
<1>5. CASE status[s] # "provisioning"
  <2>1. CASE Create(t, s)
    <3>1. task'[t].pc = "create_config" /\ task'[t].srv = s
      BY <2>1 DEF Create, Idle, Local, TasksTypeOK
    <3> QED BY <3>1, MindingMembers DEF Minder
  <2>2. CASE s = task[t].srv /\ \E pc \in {"resume_start", "resume_create"} : Goto(t, pc)
    BY <2>2, PcMembers, MindingMembers, GotoGives DEF Minder
  <2> QED BY <1>1, <1>5, <2>1, <2>2, StatusFrom DEF Settling
<1> QED BY <1>4, <1>5

LEMMA TaskKeepsIds ==
    ASSUME Local, KnewIds, NEW t \in Task, Request(t) \/ TaskStep(t)
    PROVE  KnewIds'
<1> DEFINE Knower(u) == task[u].pc \in {"resume_commit", "resume_start", "resume_health"}
<1>1. SUFFICES ASSUME NEW u \in Task, Knower(u)', task'[u].cid # None
               PROVE  saved'[task'[u].srv] # None
  BY DEF KnewIds
<1>2. OthersKept(t) /\ Local BY RequestAlone, StepAlone
<1>3. \A s \in Server : saved[s] # None => saved'[s] # None BY IdsStay
<1>4. ASSUME Knower(u), task'[u].srv = task[u].srv, task'[u].cid = task[u].cid
      PROVE  saved'[task'[u].srv] # None
  BY <1>1, <1>3, <1>4, AtServer DEF KnewIds
<1>5. CASE u # t BY <1>1, <1>2, <1>4, <1>5 DEF OthersKept
<1>6. CASE u = t /\ Request(t)
  <2>1. CASE \E s \in Server : Create(t, s)
    BY <1>1, <1>6, <2>1 DEF Create, Idle, Local, TasksTypeOK
  <2>2. ASSUME NEW s \in Server, NEW pc, Begin(t, s, pc), UNCHANGED platformVars
        PROVE  saved'[task'[u].srv] # None
    BY <1>1, <1>6, <2>2 DEF Begin, platformVars, rows, Local, TasksTypeOK
  <2> QED BY <1>6, <2>1, <2>2 DEF Request, Update, Suspend, Resume, Delete
<1>7. CASE u = t /\ (ResumeCommit(t) \/ ResumeStart(t))
  <2>1. CASE Finish(t) BY <1>1, <1>7, <2>1 DEF Finish, Idle, Local, TasksTypeOK
  <2>2. ASSUME NEW pc \in {"resume_start", "resume_create", "resume_health",
                           "resume_undo_read"}, Goto(t, pc)
        PROVE  saved'[task'[u].srv] # None
    <3>1. task'[t].srv = task[t].srv /\ task'[t].cid = task[t].cid
      BY <2>2, PcMembers, GotoGives
    <3> QED BY <1>4, <1>7, <3>1 DEF ResumeCommit, ResumeStart, At
  <2>3. Goto(t, "idle") => Finish(t) BY DEF Goto
  <2> QED BY <1>7, <2>1, <2>2, <2>3 DEF ResumeCommit, ResumeStart, CommitStatus
<1>8. CASE u = t /\ TaskStep(t) /\ ~(ResumeCommit(t) \/ ResumeStart(t))
  <2>1. ASSUME Finish(t) PROVE FALSE
    BY <1>1, <1>8, <2>1 DEF Finish, Idle, Local, TasksTypeOK
  <2>2. ASSUME NEW pc \in Pc \ {"idle", "resume_commit", "resume_start", "resume_health"},
               Goto(t, pc)
        PROVE  FALSE
    BY <1>1, <1>8, <2>2, GotoGives
  <2>3. ASSUME NEW cid, NEW rec \in BOOLEAN, Rollback(t, cid, rec) PROVE FALSE
    BY <1>1, <1>8, <2>3, RollbackGives
  <2>4. ASSUME NEW pc \in {"save_ids", "resume_save"}, Started(t, pc) PROVE FALSE
    BY <1>1, <1>8, <2>4 DEF Started, Local, TasksTypeOK, TaskState
  <2>5. task' # [task EXCEPT ![t].pc = "save_dns", ![t].rec = TRUE]
    BY <1>1, <1>8 DEF Local, TasksTypeOK, TaskState
  <2>6. ASSUME NEW st, NEW pc \in {"idle", "suspend_stop", "delete_config"},
               CommitStatus(t, st, pc)
        PROVE  FALSE
    BY <2>1, <2>2, <2>6, PcMembers DEF CommitStatus, Goto
  <2>7. CASE Provision(t)
    BY <2>1, <2>2, <2>3, <2>4, <2>5, <2>6, <2>7, PcMembers
       DEF Provision, CreateConfig, CreateError, CreateARecord, SaveDns,
           StartContainers, SaveIds
  <2>8. CASE Undo(t)
    BY <2>1, <2>2, <2>6, <2>8, PcMembers
       DEF Undo, UndoStop, UndoRemove, UndoDns, UndoConfig, UndoRead, UndoCommit
  <2>9. CASE UpdateConfig(t) BY <2>1, <2>9 DEF UpdateConfig
  <2>10. CASE SuspendResume(t)
    BY <1>8, <2>1, <2>2, <2>4, <2>6, <2>10, PcMembers
       DEF SuspendResume, SuspendCommit, SuspendStop, ResumeHealth, ResumeCreate,
           ResumeSave, ResumeUndoRead, ResumeUndoCommit
  <2>11. CASE Deprovision(t)
    BY <2>1, <2>2, <2>6, <2>11, PcMembers
       DEF Deprovision, DeleteCommit, DeleteConfig, DeleteStop, DeleteRemove,
           DeleteDns, DropDns, Goto
  <2> QED BY <1>8, <2>7, <2>8, <2>9, <2>10, <2>11 DEF TaskStep
<1> QED BY <1>5, <1>6, <1>7, <1>8

\* No request, no event and no failed step strands a server in provisioning: without
\* a task at work on it, it has containers to wait for.  Only a process that dies
\* does, or a database that refuses the commit or the refresh by which a handler or
\* a rollback would have gone on.
THEOREM Unstranded ==
    ASSUME ~Restarts, Settling
    PROVE  Spec => []NoneStranded
<1>1. Init => Minded /\ KnewIds
  BY DEF Init, PlatformInit, TasksInit, Idle, Minded, KnewIds
<1>2. Shape /\ OneLivePerSubdomain /\ Minded /\ KnewIds /\ [Next]_vars => Minded' /\ KnewIds'
  <2> SUFFICES ASSUME Shape, OneLivePerSubdomain, Minded, KnewIds, [Next]_vars
               PROVE  Minded' /\ KnewIds'
    OBVIOUS
  <2>1. Local BY DEF Shape, TypeOK, Local
  <2>2. CASE OutsideTasks BY <2>2 DEF OutsideTasks, Minded, Minder, KnewIds
  <2> QED BY <2>1, <2>2, NextKinds, TaskKeepsMinded, TaskKeepsIds
<1>3. Minded => NoneStranded BY DEF Minded, Minder, NoneStranded, Quiet
<1> QED BY <1>1, <1>2, <1>3, ShapeAlways, UniqueSubdomain, PTL DEF Spec

-----------------------------------------------------------------------------
(***************************************************************************)
(* What a step leaves alone.  A server that no maker is at work on keeps   *)
(* its ids, and no container of it is made or comes up; without a PATCH,   *)
(* nothing else is made for it either.                                     *)
(***************************************************************************)
Works == MakerPc \cup {"update_config"}
NotAt(t, s, pcs) == task[t].srv = s => task[t].pc \notin pcs

Still(s) ==
    /\ saved'[s] = saved[s]
    /\ \A c \in Container :
         owner'[c] = s => /\ Made(c)' => owner[c] = s /\ Made(c)
                          /\ Up(c)' => owner[c] = s /\ Up(c)

Calm(s) ==
    /\ Still(s)
    /\ s \in dns' => s \in dns
    /\ conf'[SubOf[s]] = s => conf[SubOf[s]] = s

LEMMA OutsideCalm ==
    ASSUME Local, Outside, NEW s \in Server
    PROVE  Calm(s)
BY DEF Outside, OutsideTasks, Calm, Still, Made, Up

LEMMA StepStill ==
    ASSUME Local, OwnTasks, NEW t \in Task, Request(t) \/ TaskStep(t), NEW s \in Server,
           NotAt(t, s, Minding)
    PROVE  Still(s)
<1>1. /\ cstate \in [Container -> ContainerState]
      /\ owner \in [Container -> Server \cup {None}]
      /\ saved \in [Server -> Container \cup {None}]
  BY DEF Local, PlatformTypeOK
<1>2. saved'[s] = saved[s]
  <2>1. CASE SaveIds(t) \/ ResumeSave(t)
    BY <1>1, <2>1, MindingMembers DEF SaveIds, ResumeSave, At, NotAt
  <2>2. CASE StartContainers(t) \/ ResumeCreate(t)
    BY <2>2 DEF StartContainers, ResumeCreate, rows
  <2> QED BY <2>1, <2>2, RequestTravels, CommitTravels, OtherTravels, ContainerTravels
          DEF TaskStep, Provision, Undo, SuspendResume, Deprovision
<1>3. ASSUME NEW c \in Container, owner'[c] = s
      PROVE  /\ Made(c)' => owner[c] = s /\ Made(c)
             /\ Up(c)' => owner[c] = s /\ Up(c)
  <2>1. CASE UNCHANGED <<cstate, owner>> BY <1>3, <2>1 DEF Made, Up
  <2>2. CASE task[t].cid \in Container
             /\ (StopContainer(task[t].cid) \/ RemoveContainer(task[t].cid))
    BY <1>1, <1>3, <2>2, NoneAssumption DEF StopContainer, RemoveContainer, Made, Up
  <2>3. CASE /\ task[t].cid \in Container /\ task[t].pc = "resume_start"
             /\ StartContainer(task[t].cid)
    <3>1. task[t].srv # s BY <2>3, MindingMembers DEF NotAt
    <3>2. owner' = owner /\ (cstate'[c] = cstate[c] \/ c = task[t].cid)
      BY <1>1, <2>3 DEF StartContainer
    <3>3. c = task[t].cid => cstate[c] = "absent" /\ cstate'[c] = "absent"
      BY <1>1, <1>3, <2>3, <3>1, <3>2 DEF OwnTasks, StartContainer
    <3> QED BY <1>3, <3>2, <3>3 DEF Made, Up
  <2>4. CASE /\ task[t].pc \in {"start_containers", "resume_create"}
             /\ \E d \in Container : RunContainer(d, task[t].srv)
    <3>1. task[t].srv # s BY <2>4, MindingMembers DEF NotAt
    <3> QED BY <1>1, <1>3, <2>4, <3>1 DEF RunContainer, Made, Up
  <2>5. CASE \E d \in Container : LeaveContainer(d, task[t].srv)
    BY <1>1, <1>3, <2>5 DEF LeaveContainer, Made, Up
  <2> QED BY <2>1, <2>2, <2>3, <2>4, <2>5, TaskMoves
<1> QED BY <1>2, <1>3 DEF Still

LEMMA StepCalm ==
    ASSUME Local, OwnTasks, NEW t \in Task, Request(t) \/ TaskStep(t), NEW s \in Server,
           NotAt(t, s, Works)
    PROVE  Calm(s)
<1>1. Still(s) BY StepStill DEF NotAt, Works, Minding
<1>2. /\ conf \in [Subdomain -> Server \cup {None}] /\ SubOf[s] \in Subdomain
      /\ s # None
  BY SubOfAssumption, NoneAssumption DEF Local, PlatformTypeOK
<1>3. "create_config" \in Works /\ "update_config" \in Works /\ "create_a_record" \in Works
  BY MindingMembers DEF Works, Minding
<1>4. (s \in dns' => s \in dns) /\ (conf'[SubOf[s]] = s => conf[SubOf[s]] = s)
  <2>1. CASE Request(t)
    BY <2>1 DEF Request, Create, Update, Suspend, Resume, Delete, platformVars, zone
  <2>2. CASE Provision(t)
    BY <1>2, <1>3, <2>2 DEF Provision, CreateConfig, CreateError, CreateARecord, SaveDns,
       StartContainers, SaveIds, WriteConfig, At, NotAt, zone
  <2>3. CASE Undo(t)
    BY <1>2, <2>3 DEF Undo, UndoStop, UndoRemove, UndoDns, UndoConfig, UndoRead,
       UndoCommit, Unlink, zone
  <2>4. CASE UpdateConfig(t)
    BY <1>2, <1>3, <2>4 DEF UpdateConfig, WriteConfig, At, NotAt, zone
  <2>5. CASE SuspendResume(t)
    BY <2>5 DEF SuspendResume, SuspendCommit, SuspendStop, ResumeCommit, ResumeStart,
       ResumeHealth, ResumeCreate, ResumeSave, ResumeUndoRead, ResumeUndoCommit, zone
  <2>6. CASE Deprovision(t)
    BY <1>2, <2>6 DEF Deprovision, DeleteCommit, DeleteConfig, DeleteStop, DeleteRemove,
       DeleteDns, Unlink, zone
  <2> QED BY <2>1, <2>2, <2>3, <2>4, <2>5, <2>6 DEF TaskStep
<1> QED BY <1>1, <1>4 DEF Calm

\* Without a maker at work, the row's id is the id of all the server has.
LEMMA RowHasAll ==
    ASSUME Local, NoOrphanContainer, NEW s \in Server,
           \A t \in Task : NotAt(t, s, Minding)
    PROVE  \A c \in Container : owner[c] = s /\ Made(c) => saved[s] = c
BY MadeIsSaved, MindingMembers DEF NotAt, Holding

-----------------------------------------------------------------------------
(***************************************************************************)
(* A suspend.  SuspendsApart keeps the makers away from it; what a maker   *)
(* read before must not undo it either.                                    *)
(***************************************************************************)
SuspendPc == {"suspend_commit", "suspend_stop"}
SuspendKnows == \A t \in Task : task[t].pc \in SuspendPc => task[t].cid = saved[task[t].srv]

WakesUp(t) ==
    task[t].pc \in Minding \/ (task[t].pc = "resume_commit" /\ task[t].seen = "provisioning")
Awake == \A t \in Task : WakesUp(t) => status[task[t].srv] # "suspended"

NoneUp(s) == \A c \in Container : owner[c] = s => ~Up(c)
Stopping(t, s) == task[t].srv = s /\ task[t].pc = "suspend_stop"
Down == \A s \in Server :
    status[s] = "suspended" => NoneUp(s) \/ \E t \in Task : Stopping(t, s)

SuspendInv == SuspendKnows /\ Awake /\ Down

\* What it is proved with.
Known == Local /\ OneLivePerSubdomain /\ Findable /\ OwnTasks

LEMMA OutsideSuspend ==
    ASSUME Known, SuspendInv, Outside
    PROVE  SuspendInv'
<1>1. \A s \in Server : status'[s] = "suspended" => status[s] = "suspended"
  BY DEF Outside, OutsideTasks
<1>2. SuspendKnows' BY DEF SuspendInv, SuspendKnows, Outside, OutsideTasks
<1>3. Awake'
  <2>1. ASSUME NEW t \in Task, WakesUp(t) PROVE status'[task[t].srv] # "suspended"
    <3>1. task[t].pc # "idle" BY <2>1, MindingMembers DEF WakesUp
    <3>2. task[t].srv \in Server BY <3>1, AtServer DEF Known
    <3> QED BY <1>1, <2>1, <3>2 DEF SuspendInv, Awake
  <2> QED BY <2>1 DEF Awake, WakesUp, Outside, OutsideTasks
<1>4. Down'
  <2>1. SUFFICES ASSUME NEW s \in Server, status[s] = "suspended"
                 PROVE  NoneUp(s)' \/ \E t \in Task : Stopping(t, s)'
    BY <1>1 DEF Down
  <2>2. CASE NoneUp(s)
    <3>1. Still(s) BY OutsideCalm DEF Known, Calm
    <3>2. NoneUp(s)' BY <2>2, <3>1 DEF NoneUp, Still
    <3> QED BY <3>2
  <2>3. CASE \E t \in Task : Stopping(t, s)
    BY <2>3 DEF Stopping, Outside, OutsideTasks
  <2> QED BY <2>1, <2>2, <2>3 DEF SuspendInv, Down
<1> QED BY <1>2, <1>3, <1>4 DEF SuspendInv

\* Where a task is after its step.
LEMMA NextPc ==
    ASSUME Local, NEW t \in Task, Request(t) \/ TaskStep(t)
    PROVE  \/ task'[t] = Idle
           \/ \E s \in Server : Create(t, s) /\ task'[t].pc = "create_config" /\ task'[t].srv = s
           \/ \E s \in Server :
                /\ task[t].pc = "idle" /\ Live(s) /\ UNCHANGED platformVars
                /\ task'[t].srv = s /\ task'[t].cid = saved[s]
                /\ task'[t].seen = status[s] /\ task'[t].rec = (s \in dnsSaved)
                /\ task'[t].pc \in {"update_config", "suspend_commit", "resume_commit",
                                    "delete_commit"}
           \/ /\ TaskStep(t) /\ task[t].pc \in Minding \cup {"resume_commit"}
              /\ task'[t].pc \in Minding /\ task'[t].srv = task[t].srv
           \/ /\ SuspendCommit(t) /\ task'[t].pc = "suspend_stop"
              /\ task'[t].srv = task[t].srv /\ task'[t].cid = task[t].cid
           \/ /\ Deprovision(t) /\ task'[t].pc \in DeletePc \ {"delete_commit"}
              /\ task'[t].srv = task[t].srv /\ task'[t].cid = task[t].cid
              /\ task'[t].rec = task[t].rec
              /\ Goto(t, task'[t].pc)
<1>1. task \in [Task -> TaskState] /\ task[t] \in TaskState BY DEF Local, TasksTypeOK
<1>2. ASSUME Finish(t) PROVE task'[t] = Idle BY <1>1, <1>2 DEF Finish
<1>3. ASSUME NEW pc \in Pc \ {"idle"}, Goto(t, pc)
      PROVE  /\ task'[t].pc = pc /\ task'[t].srv = task[t].srv
             /\ task'[t].cid = task[t].cid /\ task'[t].rec = task[t].rec
  <2>1. task'[t] = [task[t] EXCEPT !.pc = pc, !.seen = None] BY <1>1, <1>3 DEF Goto
  <2> QED BY <1>1, <2>1 DEF TaskState
<1>4. ASSUME NEW s \in Server, Create(t, s)
      PROVE  task'[t].pc = "create_config" /\ task'[t].srv = s
  BY <1>1, <1>4 DEF Create, Idle
<1>5. ASSUME NEW s \in Server, NEW pc, Begin(t, s, pc)
      PROVE  /\ task'[t].srv = s /\ task'[t].cid = saved[s] /\ task'[t].pc = pc
             /\ task'[t].seen = status[s] /\ task'[t].rec = (s \in dnsSaved)
  BY <1>1, <1>5 DEF Begin
<1>6. CASE Request(t)
  BY <1>4, <1>5, <1>6 DEF Request, Update, Suspend, Resume, Delete, At
<1>7. ASSUME NEW cid, NEW rec \in BOOLEAN, Rollback(t, cid, rec)
      PROVE  task'[t].pc \in Minding /\ task'[t].srv = task[t].srv
  BY <1>7, RollbackGives, MindingMembers
<1>8. ASSUME NEW pc \in {"save_ids", "resume_save"}, Started(t, pc)
      PROVE  task'[t].pc \in Minding /\ task'[t].srv = task[t].srv
  BY <1>1, <1>8, MindingMembers DEF Started, TaskState
<1>9. ASSUME task' = [task EXCEPT ![t].pc = "save_dns", ![t].rec = TRUE]
      PROVE  task'[t].pc \in Minding /\ task'[t].srv = task[t].srv
  BY <1>1, <1>9, MindingMembers DEF TaskState
<1>10. ASSUME NEW pc \in Minding, Goto(t, pc)
       PROVE  task'[t].pc \in Minding /\ task'[t].srv = task[t].srv
  <2>1. pc \in Pc \ {"idle"} BY PcMembers, MindingMembers
  <2> QED BY <1>3, <1>10, <2>1
<1>11. CASE Provision(t)
  <2>1. task[t].pc \in Minding
    BY <1>11, MindingMembers DEF Provision, CreateConfig, CreateError, CreateARecord,
       SaveDns, StartContainers, SaveIds, At
  <2>2. task'[t] = Idle \/ (task'[t].pc \in Minding /\ task'[t].srv = task[t].srv)
    BY <1>2, <1>7, <1>8, <1>9, <1>10, <1>11, MindingMembers DEF Provision, CreateConfig,
       CreateError, CreateARecord, SaveDns, StartContainers, SaveIds, CommitStatus, Goto
  <2> QED BY <1>11, <2>1, <2>2 DEF TaskStep
<1>12. CASE Undo(t)
  <2>1. task[t].pc \in Minding
    BY <1>12, MindingMembers DEF Undo, UndoStop, UndoRemove, UndoDns, UndoConfig,
       UndoRead, UndoCommit, At
  <2>2. task'[t] = Idle \/ (task'[t].pc \in Minding /\ task'[t].srv = task[t].srv)
    BY <1>2, <1>10, <1>12, MindingMembers DEF Undo, UndoStop, UndoRemove, UndoDns,
       UndoConfig, UndoRead, UndoCommit, CommitStatus, Goto
  <2> QED BY <1>12, <2>1, <2>2 DEF TaskStep
<1>13. CASE UpdateConfig(t) \/ SuspendStop(t)
  BY <1>2, <1>13 DEF UpdateConfig, SuspendStop
<1>14. CASE SuspendCommit(t)
  <2>1. Finish(t) \/ Goto(t, "suspend_stop")
    BY <1>14 DEF SuspendCommit, CommitStatus, Goto
  <2> QED BY <1>2, <1>3, <1>14, <2>1, PcMembers
<1>15. CASE \/ ResumeCommit(t) \/ ResumeStart(t) \/ ResumeHealth(t) \/ ResumeCreate(t)
            \/ ResumeSave(t) \/ ResumeUndoRead(t) \/ ResumeUndoCommit(t)
  <2>1. task[t].pc \in Minding \cup {"resume_commit"}
    BY <1>15, MindingMembers DEF ResumeCommit, ResumeStart, ResumeHealth, ResumeCreate,
       ResumeSave, ResumeUndoRead, ResumeUndoCommit, At
  <2>2. task'[t] = Idle \/ (task'[t].pc \in Minding /\ task'[t].srv = task[t].srv)
    BY <1>2, <1>8, <1>10, <1>15, MindingMembers DEF ResumeCommit, ResumeStart,
       ResumeHealth, ResumeCreate, ResumeSave, ResumeUndoRead, ResumeUndoCommit,
       CommitStatus, Goto
  <2>3. TaskStep(t) BY <1>15 DEF TaskStep, SuspendResume
  <2> QED BY <2>1, <2>2, <2>3
<1>16. CASE Deprovision(t)
  <2>1. Finish(t) \/ \E pc \in DeletePc \ {"delete_commit"} : Goto(t, pc)
    BY <1>16 DEF Deprovision, DeleteCommit, DeleteConfig, DeleteStop, DeleteRemove,
       DeleteDns, DropDns, CommitStatus, Goto, DeletePc
  <2>2. DeletePc \subseteq Pc \ {"idle"} BY PcMembers DEF DeletePc
  <2> QED BY <1>2, <1>3, <1>16, <2>1, <2>2
<1> QED BY <1>6, <1>11, <1>12, <1>13, <1>14, <1>15, <1>16 DEF TaskStep, SuspendResume

LEMMA SuspendKnowsStep ==
    ASSUME Known, SuspendInv, SuspendsApart, NEW t \in Task, Request(t) \/ TaskStep(t)
    PROVE  SuspendKnows'
<1>1. Local BY DEF Known
<1>2. SUFFICES ASSUME NEW u \in Task, task'[u].pc \in SuspendPc
               PROVE  task'[u].cid = saved'[task'[u].srv]
  BY DEF SuspendKnows
<1>3. ASSUME task[u].pc \in SuspendPc, task'[u].srv = task[u].srv, task'[u].cid = task[u].cid
      PROVE  task'[u].cid = saved'[task'[u].srv]
  <2>1. task[u].srv \in Server BY <1>1, <1>3, AtServer DEF SuspendPc
  <2>2. NotAt(t, task[u].srv, Minding)
    BY <1>3, MindingMembers DEF NotAt, SuspendsApart, SharesServer, SuspendPc, Minding
  <2>3. saved'[task[u].srv] = saved[task[u].srv]
    BY <1>1, <2>1, <2>2, StepStill DEF Known, Still
  <2> QED BY <1>3, <2>3 DEF SuspendInv, SuspendKnows
<1>4. CASE u # t
  BY <1>1, <1>2, <1>3, <1>4, RequestAlone, StepAlone DEF OthersKept
<1>5. CASE u = t
  <2>1. CASE SuspendCommit(t) /\ task'[t].srv = task[t].srv /\ task'[t].cid = task[t].cid
    BY <1>3, <1>5, <2>1 DEF SuspendCommit, At, SuspendPc
  <2>2. CASE \E s \in Server : UNCHANGED platformVars /\ task'[t].srv = s
                                 /\ task'[t].cid = saved[s]
    BY <1>5, <2>2 DEF platformVars, rows
  <2> QED BY <1>1, <1>2, <1>5, <2>1, <2>2, NextPc, MindingMembers
          DEF SuspendPc, Idle, DeletePc
<1> QED BY <1>4, <1>5

LEMMA AwakeStep ==
    ASSUME Known, SuspendInv, SuspendsApart, NEW t \in Task, Request(t) \/ TaskStep(t)
    PROVE  Awake'
<1>1. Local BY DEF Known
<1>2. SUFFICES ASSUME NEW u \in Task, WakesUp(u)'
               PROVE  status'[task'[u].srv] # "suspended"
  BY DEF Awake
\* Whoever suspends a server has it for itself.
<1>3. ASSUME NEW s \in Server, status'[s] = "suspended", status[s] # "suspended"
      PROVE  /\ SuspendCommit(t) /\ task[t].srv = s
             /\ \A v \in Task \ {t} : NotAt(v, s, MakerPc)
  <2>1. SuspendCommit(t) /\ task[t].srv = s BY <1>1, <1>3, StatusFrom
  <2> QED BY <2>1 DEF SuspendCommit, At, SuspendsApart, SharesServer, NotAt
<1>4. \A v \in Task : WakesUp(v) => task[v].pc \in MakerPc /\ task[v].srv \in Server
  BY <1>1, MindingMembers, AtServer DEF WakesUp, Minding, MakerPc, ResumePc
<1>5. CASE u # t
  <2>1. task'[u] = task[u] BY <1>1, <1>5, RequestAlone, StepAlone DEF OthersKept
  <2>2. WakesUp(u) BY <1>2, <2>1 DEF WakesUp
  <2> QED BY <1>3, <1>4, <1>5, <2>1, <2>2 DEF SuspendInv, Awake, NotAt
<1>6. CASE u = t
  <2>1. CASE \E s \in Server : Create(t, s) /\ task'[t].srv = s
    BY <1>1, <1>6, <2>1 DEF Create, SetStatus, Local, PlatformTypeOK
  <2>2. CASE \E s \in Server : UNCHANGED platformVars /\ task'[t].srv = s
                                 /\ task'[t].seen = status[s]
                                 /\ task'[t].pc \in {"update_config", "suspend_commit",
                                                     "resume_commit", "delete_commit"}
    BY <1>2, <1>6, <2>2, MindingMembers DEF WakesUp, platformVars, rows
  <2>3. CASE /\ TaskStep(t) /\ task[t].pc \in Minding \cup {"resume_commit"}
             /\ task'[t].pc \in Minding /\ task'[t].srv = task[t].srv
    <3>1. task[t].srv \in Server BY <1>1, <2>3, AtServer, MindingMembers
    <3>2. CASE WakesUp(t)
      BY <1>3, <1>6, <2>3, <3>1, <3>2, MindingMembers
         DEF SuspendInv, Awake, SuspendCommit, At
    <3>3. CASE ~WakesUp(t)
      <4>1. task[t].pc = "resume_commit" /\ task[t].seen # "provisioning"
        BY <2>3, <3>3 DEF WakesUp
      <4>2. ResumeCommit(t)
        BY <2>3, <4>1 DEF TaskStep, Provision, CreateConfig, CreateError, CreateARecord,
           SaveDns, StartContainers, SaveIds, Undo, UndoStop, UndoRemove, UndoDns,
           UndoConfig, UndoRead, UndoCommit, UpdateConfig, SuspendResume, SuspendCommit,
           SuspendStop, ResumeStart, ResumeHealth, ResumeCreate, ResumeSave,
           ResumeUndoRead, ResumeUndoCommit, Deprovision, DeleteCommit, DeleteConfig,
           DeleteStop, DeleteRemove, DeleteDns, At
      <4>3. \E pc : CommitStatus(t, "provisioning", pc) BY <4>1, <4>2 DEF ResumeCommit
      <4>4. ~Finish(t)
        BY <1>1, <2>3, MindingMembers DEF Finish, Idle, Local, TasksTypeOK
      <4>5. SetStatus(task[t].srv, "provisioning") BY <4>3, <4>4 DEF CommitStatus
      <4> QED BY <1>1, <1>6, <2>3, <3>1, <4>5 DEF SetStatus, Local, PlatformTypeOK
    <3> QED BY <3>2, <3>3
  <2> QED BY <1>1, <1>2, <1>6, <2>1, <2>2, <2>3, NextPc, MindingMembers
          DEF WakesUp, Idle, DeletePc
<1> QED BY <1>5, <1>6

LEMMA DownStep ==
    ASSUME Known, SuspendInv, SuspendsApart, Faults \cap {"stop_containers", "refresh"} = {},
           NEW t \in Task, Request(t) \/ TaskStep(t)
    PROVE  Down'
<1>1. Local BY DEF Known
<1>2. SUFFICES ASSUME NEW s \in Server, status'[s] = "suspended"
               PROVE  NoneUp(s)' \/ \E u \in Task : Stopping(u, s)'
  BY DEF Down
\* A task that is suspending s knows the one container of s that may be up.
<1>3. ASSUME task[t].srv = s, task[t].pc \in SuspendPc
      PROVE  /\ NotAt(t, s, Minding)
             /\ \A c \in Container : owner[c] = s /\ Up(c) => c = task[t].cid
  <2>1. \A v \in Task : NotAt(v, s, Minding)
    BY <1>3, MindingMembers DEF NotAt, SuspendsApart, SharesServer, SuspendPc, Minding
  <2>2. \A c \in Container : owner[c] = s /\ Up(c) => saved[s] = c
    BY <1>1, <2>1, RowHasAll DEF Known, Findable, Up, Made
  <2> QED BY <1>3, <2>1, <2>2 DEF SuspendInv, SuspendKnows
<1>4. CASE status[s] = "suspended"
  <2>1. NotAt(t, s, Minding) BY <1>4 DEF SuspendInv, Awake, WakesUp, NotAt
  <2>2. Still(s) BY <1>1, <2>1, StepStill DEF Known
  <2>3. CASE NoneUp(s)
    <3>1. NoneUp(s)' BY <2>2, <2>3 DEF NoneUp, Still
    <3> QED BY <3>1
  <2>4. ASSUME NEW u \in Task \ {t}, Stopping(u, s)
        PROVE  \E v \in Task : Stopping(v, s)'
    BY <1>1, <2>4, RequestAlone, StepAlone DEF OthersKept, Stopping
  <2>5. CASE Stopping(t, s)
    <3>1. SuspendStop(t)
      BY <2>5 DEF Stopping, Request, Create, Update, Suspend, Resume, Delete, TaskStep,
         Provision, CreateConfig, CreateError, CreateARecord, SaveDns, StartContainers,
         SaveIds, Undo, UndoStop, UndoRemove, UndoDns, UndoConfig, UndoRead, UndoCommit,
         UpdateConfig, SuspendResume, SuspendCommit, ResumeCommit, ResumeStart,
         ResumeHealth, ResumeCreate, ResumeSave, ResumeUndoRead, ResumeUndoCommit,
         Deprovision, DeleteCommit, DeleteConfig, DeleteStop, DeleteRemove, DeleteDns, At
    <3>2. StopContainer(task[t].cid) BY <3>1 DEF SuspendStop, StopRaises
    <3>3. \A c \in Container : c = task[t].cid => ~Up(c)'
      BY <1>1, <3>2 DEF StopContainer, Up, Local, PlatformTypeOK
    <3>4. \A c \in Container : owner[c] = s /\ Up(c) => c = task[t].cid
      BY <1>3, <2>5 DEF Stopping, SuspendPc
    <3>5. NoneUp(s)' BY <2>2, <3>3, <3>4 DEF NoneUp, Still
    <3> QED BY <3>5
  <2> QED BY <1>4, <2>3, <2>4, <2>5 DEF SuspendInv, Down
<1>5. CASE status[s] # "suspended"
  <2>1. /\ SuspendCommit(t) /\ s = task[t].srv
        /\ Goto(t, IF task[t].cid # None THEN "suspend_stop" ELSE "idle")
    BY <1>1, <1>2, <1>5, StatusFrom, "refresh" \notin Faults
  <2>2. CASE task[t].cid # None
    BY <1>1, <2>1, <2>2, PcMembers, GotoGives DEF Stopping
  <2>3. CASE task[t].cid = None
    <3>1. \A c \in Container : owner[c] = s => ~Up(c)
      BY <1>3, <2>1, <2>3, NoneAssumption DEF SuspendCommit, At, SuspendPc
    <3> QED BY <2>1, <3>1 DEF SuspendCommit, docker, NoneUp, Up
  <2> QED BY <2>2, <2>3
<1> QED BY <1>4, <1>5

\* Once the work behind a suspend is done, no container of the server is up or
\* comes up, whatever other requests overlap with it, as long as none of them
\* provisions or resumes the server while it is being suspended, and as long as the
\* stop is scheduled.
THEOREM SuspendComplete ==
    ASSUME NoTrackLost, "refresh" \notin Faults
    PROVE  Spec => SuspendStops
<1> DEFINE Inv == SuspendInv /\ Findable /\ OwnRows /\ OwnTasks
<1>1. Init => Inv
  BY MindingMembers
     DEF Init, PlatformInit, TasksInit, Idle, Holding, Findable, Exclusive, HeldState,
         OneUnitPerSubdomain, NoOrphanContainer, OwnRows, OwnTasks, Made, SuspendInv,
         SuspendKnows, SuspendPc, Awake, WakesUp, Down
<1>2. Shape /\ OneLivePerSubdomain /\ SuspendsApart /\ Inv /\ [Next]_vars => Inv'
  <2> SUFFICES ASSUME Shape, OneLivePerSubdomain, SuspendsApart, Inv, [Next]_vars
               PROVE  Inv'
    OBVIOUS
  <2>1. Findable' /\ OwnRows' /\ OwnTasks' BY NextKeepsOwn, NextFindable
  <2>2. Known BY DEF Shape, TypeOK, Local, Known
  <2>3. SuspendInv'
    BY <2>2, NextOutside, OutsideSuspend, SuspendKnowsStep, AwakeStep, DownStep
       DEF SuspendInv, NoTrackLost
  <2> QED BY <2>1, <2>3
<1>3. Inv => SuspendedIsStopped
  BY DEF SuspendInv, Down, Stopping, NoneUp, SuspendedIsStopped, Quiet
<1> QED BY <1>1, <1>2, <1>3, ShapeAlways, UniqueSubdomain, PTL DEF Spec, SuspendStops

-----------------------------------------------------------------------------
(***************************************************************************)
(* A delete.  DeletesApart keeps makers and PATCHes away from it.  Each    *)
(* delete of a server knows what there is to release, and how much of it   *)
(* is released already.                                                    *)
(***************************************************************************)

\* No failure makes the code give up a clean-up half-way.
CleansUp ==
    /\ NoTrackLost
    /\ Faults \cap {"delete_record", "delete_config", "restart_traefik"} = {}

Cleanup == DeletePc \ {"delete_commit"}
NoneMade(s) == \A c \in Container : owner[c] = s => ~Made(c)
Released(s) == s \notin dns /\ conf[SubOf[s]] # s /\ NoneMade(s)

Releasing(t) ==
    /\ task[t].cid = saved[task[t].srv]
    /\ ~task[t].rec => task[t].srv \notin dns
    /\ task[t].pc \in Cleanup \ {"delete_config"} => conf[SubOf[task[t].srv]] # task[t].srv
    /\ task[t].pc = "delete_remove" => ~Up(task[t].cid)
    /\ task[t].pc = "delete_dns" => NoneMade(task[t].srv)
DeleteKnows == \A t \in Task : task[t].pc \in DeletePc => Releasing(t)

Cleaning(t, s) == task[t].srv = s /\ task[t].pc \in Cleanup
Gone == \A s \in Server : status[s] = "deleted" =>
    /\ \A t \in Task : NotAt(t, s, Works)
    /\ Released(s) \/ \E t \in Task : Cleaning(t, s)

DeleteInv == DeleteKnows /\ Gone

LEMMA DeletePcMembers ==
    /\ DeletePc = {"delete_commit", "delete_config", "delete_stop", "delete_remove",
                   "delete_dns"}
    /\ Cleanup = {"delete_config", "delete_stop", "delete_remove", "delete_dns"}
BY DEF DeletePc, Cleanup

\* What is released stays so without a maker, and what a delete knows stays so.
LEMMA CalmKeeps ==
    ASSUME NEW s \in Server, Calm(s)
    PROVE  /\ Released(s) => Released(s)'
           /\ NoneMade(s) => NoneMade(s)'
<1>1. NoneMade(s) => NoneMade(s)' BY DEF Calm, Still, NoneMade
<1> QED BY <1>1 DEF Released, Calm

LEMMA CalmKeepsKnowing ==
    ASSUME Known, Known', NEW t \in Task, task[t].pc \in DeletePc, Releasing(t),
           task'[t] = task[t], Calm(task[t].srv)
    PROVE  Releasing(t)'
<1>1. task[t].srv \in Server BY DeletePcMembers, AtServer DEF Known
<1>2. task[t].pc = "delete_dns" => NoneMade(task[t].srv)' BY <1>1, CalmKeeps DEF Releasing
<1>3. task[t].pc = "delete_remove" => ~Up(task[t].cid)'
  <2>1. SUFFICES ASSUME task[t].pc = "delete_remove", Up(task[t].cid)' PROVE FALSE
    OBVIOUS
  <2>2. task[t].cid \in Container BY <2>1, AtServer DEF Known, WithContainers
  <2>3. owner'[task[t].cid] = task[t].srv BY <2>1, <2>2 DEF Known, OwnTasks, Up
  <2> QED BY <2>1, <2>2, <2>3 DEF Calm, Still, Releasing
<1> QED BY <1>2, <1>3 DEF Releasing, Calm, Still

\* One step of a delete: it goes on knowing, or it is done and all is released.
LEMMA DeleteGoesOn ==
    ASSUME Known, CleansUp, NEW t \in Task, Deprovision(t), Releasing(t),
           NEW s \in Server, task[t].srv = s, Calm(s),
           \A c \in Container : owner[c] = s /\ Made(c) => saved[s] = c
    PROVE  /\ task'[t].pc \in DeletePc => Releasing(t)'
           /\ Cleaning(t, s) => Cleaning(t, s)' \/ Released(s)'
<1>1. /\ Local /\ task \in [Task -> TaskState]
      /\ saved' = saved /\ conf \in [Subdomain -> Server \cup {None}]
      /\ SubOf[s] \in Subdomain /\ s # None
  BY SubOfAssumption, NoneAssumption
     DEF Known, Local, TasksTypeOK, PlatformTypeOK, Deprovision, DeleteCommit,
         DeleteConfig, DeleteStop, DeleteRemove, DeleteDns, rows
<1>2. /\ task[t].cid = saved[s]
      /\ ~task[t].rec => s \notin dns
      /\ task[t].pc \in Cleanup \ {"delete_config"} => conf[SubOf[s]] # s
      /\ task[t].pc = "delete_remove" => ~Up(task[t].cid)
      /\ task[t].pc = "delete_dns" => NoneMade(s)
  BY DEF Releasing
<1>3. ASSUME Finish(t) PROVE task'[t] = Idle /\ task'[t].pc \notin DeletePc
  BY <1>1, <1>3, DeletePcMembers DEF Finish, Idle
<1>4. ASSUME NEW pc \in Cleanup, Goto(t, pc)
      PROVE  /\ task'[t].pc = pc /\ task'[t].srv = s
             /\ task'[t].cid = saved'[s] /\ task'[t].rec = task[t].rec
             /\ Cleaning(t, s)'
  <2>1. pc \in Pc \ {"idle"} BY PcMembers, DeletePcMembers
  <2>2. task'[t] = [task[t] EXCEPT !.pc = pc, !.seen = None] BY <1>1, <1>4, <2>1 DEF Goto
  <2>3. task[t] \in TaskState BY <1>1
  <2> QED BY <1>1, <1>2, <2>2, <2>3 DEF TaskState, Cleaning
<1>5. ~task[t].rec => s \notin dns' BY <1>2 DEF Calm
\* The way on from where the containers are gone.
<1>6. ASSUME conf'[SubOf[s]] # s, NoneMade(s)', Goto(t, DropDns(t))
      PROVE  /\ task'[t].pc \in DeletePc => Releasing(t)'
             /\ Cleaning(t, s)' \/ Released(s)'
  <2>1. CASE task[t].rec
    <3>1. /\ task'[t].pc = "delete_dns" /\ task'[t].srv = s
          /\ task'[t].cid = saved'[s] /\ task'[t].rec = task[t].rec
          /\ Cleaning(t, s)'
      BY <1>4, <1>6, <2>1, DeletePcMembers DEF DropDns
    <3> QED BY <1>6, <2>1, <3>1 DEF Releasing
  <2>2. CASE ~task[t].rec
    <3>1. Finish(t) BY <1>6, <2>2 DEF DropDns, Goto
    <3> QED BY <1>3, <1>5, <1>6, <2>2, <3>1 DEF Released
  <2> QED BY <2>1, <2>2
<1>7. CASE DeleteCommit(t)
  <2>1. ~Cleaning(t, s) BY <1>7, DeletePcMembers DEF DeleteCommit, At, Cleaning
  <2>2. CASE Finish(t) BY <1>3, <2>1, <2>2
  <2>3. CASE Goto(t, "delete_config")
    <3>1. /\ task'[t].pc = "delete_config" /\ task'[t].srv = s
          /\ task'[t].cid = saved'[s] /\ task'[t].rec = task[t].rec
      BY <1>4, <2>3, DeletePcMembers
    <3> QED BY <1>5, <2>1, <3>1 DEF Releasing
  <2> QED BY <1>7, <2>2, <2>3 DEF DeleteCommit, CommitStatus
<1>8. CASE DeleteConfig(t)
  <2>1. /\ Unlink(s) /\ UNCHANGED docker
        /\ Goto(t, IF task[t].cid # None THEN "delete_stop" ELSE DropDns(t))
    BY <1>8 DEF DeleteConfig, CleansUp
  <2>2. conf'[SubOf[s]] # s BY <1>1, <2>1 DEF Unlink
  <2>3. CASE task[t].cid # None
    <3>1. /\ task'[t].pc = "delete_stop" /\ task'[t].srv = s
          /\ task'[t].cid = saved'[s] /\ task'[t].rec = task[t].rec
          /\ Cleaning(t, s)'
      BY <1>4, <2>1, <2>3, DeletePcMembers
    <3> QED BY <1>5, <2>2, <3>1 DEF Releasing
  <2>4. CASE task[t].cid = None
    <3>1. NoneMade(s) BY <1>2, <2>4, NoneAssumption DEF NoneMade
    <3>2. NoneMade(s)' BY <3>1, CalmKeeps
    <3> QED BY <1>6, <2>1, <2>2, <2>4, <3>2
  <2> QED BY <2>3, <2>4
<1>9. CASE DeleteStop(t)
  <2>1. /\ StopContainer(task[t].cid) /\ Goto(t, "delete_remove") /\ conf' = conf
        /\ conf[SubOf[s]] # s
    BY <1>2, <1>9, DeletePcMembers
       DEF DeleteStop, StopRaises, CleansUp, NoTrackLost, At
  <2>2. /\ task'[t].pc = "delete_remove" /\ task'[t].srv = s
        /\ task'[t].cid = saved'[s] /\ task'[t].rec = task[t].rec
        /\ Cleaning(t, s)'
    BY <1>4, <2>1, DeletePcMembers
  <2>3. task[t].cid \in Container BY <1>1, <1>9, AtServer DEF DeleteStop, At, WithContainers
  <2>4. task'[t].cid = task[t].cid BY <1>1, <1>2, <2>2
  <2>5. cstate'[task[t].cid] \notin {"running", "healthy"}
    BY <1>1, <2>1, <2>3 DEF StopContainer, Up, Local, PlatformTypeOK
  <2>6. ~Up(task[t].cid)' BY <2>4, <2>5 DEF Up
  <2> QED BY <1>5, <2>1, <2>2, <2>6 DEF Releasing
<1>10. CASE DeleteRemove(t)
  <2>1. /\ RemoveContainer(task[t].cid) /\ Goto(t, DropDns(t)) /\ conf' = conf
        /\ conf[SubOf[s]] # s /\ ~Up(task[t].cid)
    BY <1>2, <1>10, DeletePcMembers DEF DeleteRemove, At
  <2>2. \A c \in Container : c = task[t].cid => ~Made(c)'
    BY <1>1, <2>1 DEF RemoveContainer, Up, Made, Local, PlatformTypeOK
  <2>3. NoneMade(s)'
    BY <1>2, <2>2 DEF NoneMade, Calm, Still
  <2> QED BY <1>6, <2>1, <2>3
<1>11. CASE DeleteDns(t)
  <2>1. Finish(t) /\ dns' = dns \ {s} /\ conf' = conf /\ conf[SubOf[s]] # s /\ NoneMade(s)
    BY <1>2, <1>11, DeletePcMembers DEF DeleteDns, CleansUp, At
  <2>2. Released(s)' BY <2>1, CalmKeeps DEF Released
  <2> QED BY <1>3, <2>1, <2>2
<1> QED BY <1>7, <1>8, <1>9, <1>10, <1>11 DEF Deprovision

\* A delete that begins, or that another task's step leaves alone.
LEMMA DeleteKnowsStep ==
    ASSUME Known, Known', NoOrphanDns, CleansUp, DeleteInv, DeletesApart, DeletesApart',
           NEW t \in Task, Request(t) \/ TaskStep(t)
    PROVE  DeleteKnows'
<1>1. Local /\ NoOrphanContainer /\ OwnTasks BY DEF Known, Findable
<1>2. SUFFICES ASSUME NEW u \in Task, task'[u].pc \in DeletePc
               PROVE  Releasing(u)'
  BY DEF DeleteKnows
<1>3. ASSUME NEW v \in Task, task[v].pc \in DeletePc
      PROVE  /\ task[v].srv \in Server
             /\ \A w \in Task : NotAt(w, task[v].srv, Works)
  <2>1. task[v].srv \in Server BY <1>1, <1>3, AtServer, DeletePcMembers
  <2>2. NotAt(v, task[v].srv, Works)
    BY <1>3, DeletePcMembers, MindingMembers DEF NotAt, Works, Minding
  <2> QED BY <1>3, <2>1, <2>2 DEF NotAt, DeletesApart, SharesServer, Works
<1>4. CASE u # t
  <2>1. task'[u] = task[u] BY <1>1, <1>4, RequestAlone, StepAlone DEF OthersKept
  <2>2. Calm(task[u].srv) BY <1>1, <1>2, <1>3, <2>1, StepCalm
  <2> QED BY <1>2, <2>1, <2>2, CalmKeepsKnowing DEF DeleteInv, DeleteKnows
<1>5. CASE u = t
  <2>1. CASE Deprovision(t)
    <3>1. task[t].pc \in DeletePc
      BY <2>1, DeletePcMembers DEF Deprovision, DeleteCommit, DeleteConfig, DeleteStop,
         DeleteRemove, DeleteDns, At
    <3>2. Calm(task[t].srv) BY <1>1, <1>3, <3>1, StepCalm
    <3>3. \A c \in Container : owner[c] = task[t].srv /\ Made(c) => saved[task[t].srv] = c
      BY <1>1, <1>3, <3>1, RowHasAll DEF NotAt, Works, Minding
    <3>4. Releasing(t) BY <3>1 DEF DeleteInv, DeleteKnows
    <3> QED BY <1>2, <1>3, <1>5, <2>1, <3>1, <3>2, <3>3, <3>4, DeleteGoesOn
  <2>2. ASSUME NEW s \in Server, task[t].pc = "idle", UNCHANGED platformVars,
               task'[t].srv = s, task'[t].cid = saved[s], task'[t].rec = (s \in dnsSaved),
               task'[t].pc = "delete_commit"
        PROVE  Releasing(t)'
    <3>1. \A w \in Task \ {t} : NotAt(w, s, MakerPc)
      <4>1. \A w \in Task \ {t} : task'[w] = task[w]
        BY <1>1, RequestAlone, StepAlone DEF OthersKept
      <4> QED BY <2>2, <4>1, DeletePcMembers DEF DeletesApart, SharesServer, NotAt
    <3>2. s \notin dnsSaved => s \notin dns
      BY <2>2, <3>1, MindingMembers DEF NoOrphanDns, NotAt, Minding
    <3> QED BY <2>2, <3>2, DeletePcMembers DEF Releasing, platformVars, rows, zone
  <2> QED BY <1>1, <1>2, <1>5, <2>1, <2>2, NextPc, MindingMembers, DeletePcMembers
          DEF Idle
<1> QED BY <1>4, <1>5

LEMMA GoneStep ==
    ASSUME Known, CleansUp, DeleteInv, DeletesApart, NEW t \in Task,
           Request(t) \/ TaskStep(t)
    PROVE  Gone'
<1>1. Local /\ NoOrphanContainer /\ OwnTasks /\ OthersKept(t)
  BY RequestAlone, StepAlone DEF Known, Findable
<1>2. SUFFICES ASSUME NEW s \in Server, status'[s] = "deleted"
               PROVE  /\ \A u \in Task : NotAt(u, s, Works)'
                      /\ Released(s)' \/ \E u \in Task : Cleaning(u, s)'
  BY DEF Gone
<1>3. CASE status[s] = "deleted"
  <2>1. \A u \in Task : NotAt(u, s, Works) BY <1>3 DEF DeleteInv, Gone
  <2>2. Calm(s) BY <1>1, <2>1, StepCalm
  <2>3. NotAt(t, s, Works)'
    <3>1. ~Live(s) /\ (\A r \in Server : Create(t, r) => r # s)
      BY <1>3 DEF Live, Create
    <3>2. Works = Minding \cup {"resume_commit", "update_config"}
      BY DEF Works, Minding, MakerPc, ResumePc
    <3>3. task[t].srv = s => task[t].pc \notin Minding \cup {"resume_commit"}
      BY <2>1, <3>2 DEF NotAt
    <3>4. CASE task'[t] = Idle BY <3>2, <3>4, MindingMembers DEF NotAt, Idle
    <3>5. CASE task'[t].srv # s BY <3>5 DEF NotAt
    <3>6. CASE task'[t].pc \in DeletePc \cup SuspendPc
      BY <3>2, <3>6, MindingMembers, DeletePcMembers DEF NotAt, SuspendPc
    <3> QED BY <1>1, <3>1, <3>3, <3>4, <3>5, <3>6, NextPc DEF SuspendPc
  <2>4. \A u \in Task : NotAt(u, s, Works)' BY <1>1, <2>1, <2>3 DEF OthersKept, NotAt
  <2>5. CASE Released(s)
    <3>1. Released(s)' BY <2>2, <2>5, CalmKeeps
    <3> QED BY <2>4, <3>1
  <2>6. CASE \E u \in Task \ {t} : Cleaning(u, s)
    <3>1. \E u \in Task \ {t} : Cleaning(u, s)' BY <1>1, <2>6 DEF OthersKept, Cleaning
    <3> QED BY <2>4, <3>1
  <2>7. CASE Cleaning(t, s)
    <3>1. Deprovision(t)
      BY <2>7, DeletePcMembers
         DEF Cleaning, Request, Create, Update, Suspend, Resume, Delete, TaskStep,
             Provision, CreateConfig, CreateError, CreateARecord, SaveDns,
             StartContainers, SaveIds, Undo, UndoStop, UndoRemove, UndoDns, UndoConfig,
             UndoRead, UndoCommit, UpdateConfig, SuspendResume, SuspendCommit,
             SuspendStop, ResumeCommit, ResumeStart, ResumeHealth, ResumeCreate,
             ResumeSave, ResumeUndoRead, ResumeUndoCommit, At
    <3>2. task[t].srv = s /\ Releasing(t)
      BY <2>7, DeletePcMembers DEF Cleaning, DeleteInv, DeleteKnows
    <3>3. \A c \in Container : owner[c] = s /\ Made(c) => saved[s] = c
      BY <1>1, <2>1, RowHasAll DEF NotAt, Works, Minding
    <3>4. Cleaning(t, s)' \/ Released(s)' BY <2>2, <2>7, <3>1, <3>2, <3>3, DeleteGoesOn
    <3> QED BY <2>4, <3>4
  <2> QED BY <1>3, <2>5, <2>6, <2>7 DEF DeleteInv, Gone
<1>4. CASE status[s] # "deleted"
  <2>1. DeleteCommit(t) /\ s = task[t].srv /\ Goto(t, "delete_config")
    BY <1>1, <1>2, <1>4, StatusFrom
  <2>2. task'[t].pc = "delete_config" /\ task'[t].srv = s
    BY <1>1, <2>1, PcMembers, GotoGives
  <2>3. \A u \in Task \ {t} : NotAt(u, s, Works)
    BY <2>1, DeletePcMembers DEF DeleteCommit, At, DeletesApart, SharesServer, NotAt, Works
  <2>4. \A u \in Task : NotAt(u, s, Works)'
    BY <1>1, <2>2, <2>3, MindingMembers DEF OthersKept, NotAt, Works, Minding
  <2>5. Cleaning(t, s)' BY <2>2, DeletePcMembers DEF Cleaning
  <2> QED BY <2>4, <2>5
<1> QED BY <1>3, <1>4

LEMMA OutsideDelete ==
    ASSUME Known, Known', DeleteInv, Outside
    PROVE  DeleteInv'
<1>1. task' = task /\ \A s \in Server : Calm(s)
  BY OutsideCalm DEF Known, Outside, OutsideTasks
<1>2. DeleteKnows'
  <2>1. SUFFICES ASSUME NEW t \in Task, task[t].pc \in DeletePc PROVE Releasing(t)'
    BY <1>1 DEF DeleteKnows
  <2>2. task[t].srv \in Server BY <2>1, DeletePcMembers, AtServer DEF Known
  <2> QED BY <1>1, <2>1, <2>2, CalmKeepsKnowing DEF DeleteInv, DeleteKnows
<1>3. Gone'
  <2>1. SUFFICES ASSUME NEW s \in Server, status'[s] = "deleted"
                 PROVE  /\ \A u \in Task : NotAt(u, s, Works)'
                        /\ Released(s)' \/ \E u \in Task : Cleaning(u, s)'
    BY DEF Gone
  <2>2. status[s] = "deleted" BY <2>1 DEF Outside, OutsideTasks
  <2>3. \A u \in Task : NotAt(u, s, Works)' BY <1>1, <2>2 DEF DeleteInv, Gone, NotAt
  <2>4. Released(s) => Released(s)' BY <1>1, CalmKeeps
  <2>5. \A u \in Task : Cleaning(u, s) => Cleaning(u, s)' BY <1>1 DEF Cleaning
  <2> QED BY <2>2, <2>3, <2>4, <2>5 DEF DeleteInv, Gone
<1> QED BY <1>2, <1>3 DEF DeleteInv

\* Once the work behind a delete is done, nothing of the server is left that the
\* API ever had an id of, whatever other requests overlap with it, as long as none
\* of them provisions, resumes or patches the server while it is being deleted.
THEOREM DeleteComplete ==
    ASSUME CleansUp
    PROVE  Spec => DeleteReleases
<1> DEFINE Inv == DeleteInv /\ Findable /\ OwnRows /\ OwnTasks /\ NoOrphanDns
<1>1. Init => Inv
  BY DeletePcMembers
     DEF Init, PlatformInit, TasksInit, Idle, Holding, Findable, Exclusive, HeldState,
         OneUnitPerSubdomain, NoOrphanContainer, NoOrphanDns, OwnRows, OwnTasks, Made,
         DeleteInv, DeleteKnows, Gone
<1>2. Shape /\ OneLivePerSubdomain /\ Inv => Known BY DEF Shape, TypeOK, Local, Known
<1>3. Shape /\ Shape' /\ OneLivePerSubdomain /\ OneLivePerSubdomain'
        /\ DeletesApart /\ DeletesApart' /\ Inv /\ [Next]_vars => Inv'
  <2> SUFFICES ASSUME Shape, Shape', OneLivePerSubdomain, OneLivePerSubdomain',
                      DeletesApart, DeletesApart', Inv, [Next]_vars
               PROVE  Inv'
    OBVIOUS
  <2>1. NoTrackLost /\ "delete_record" \notin Faults /\ ~Restarts BY DEF CleansUp, NoTrackLost
  <2>2. Findable' /\ OwnRows' /\ OwnTasks' BY <2>1, NextKeepsOwn, NextFindable
  <2>3. NoOrphanDns' BY <2>1, NextKeepsDns
  <2>4. Known BY <1>2
  <2>5. Known'
    <3>1. Local' BY DEF Shape, TypeOK, Local
    <3> QED BY <2>2, <3>1 DEF Known
  <2>6. Outside => DeleteInv' BY <2>4, <2>5, OutsideDelete
  <2>7. ASSUME NEW t \in Task, Request(t) \/ TaskStep(t) PROVE DeleteInv'
    BY <2>4, <2>5, <2>7, DeleteKnowsStep, GoneStep DEF DeleteInv
  <2> QED BY <2>1, <2>2, <2>3, <2>6, <2>7, NextOutside
<1>4. Inv => DeletedServersReleased
  BY DEF DeleteInv, Gone, Released, NoneMade, Cleaning, DeletedServersReleased, Quiet
<1> QED BY <1>1, <1>3, <1>4, ShapeAlways, UniqueSubdomain, PTL DEF Spec, DeleteReleases
=============================================================================
