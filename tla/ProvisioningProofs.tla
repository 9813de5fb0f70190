-------------------------- MODULE ProvisioningProofs --------------------------
(***************************************************************************)
(* Theorems about Provisioning, for every value of its constants.          *)
(***************************************************************************)
EXTENDS Provisioning, TLAPS

(***************************************************************************)
(* Type correctness.  A handler dereferences what it read: the invariant   *)
(* has to say when a task, the listener and a container name a server.     *)
(***************************************************************************)
WithContainers == {"save_ids", "undo_stop", "undo_remove", "suspend_stop",
                   "resume_start", "resume_health", "resume_save",
                   "delete_stop", "delete_remove"}

TaskShape ==
    \A t \in Task :
       /\ task[t].pc # "idle" => task[t].srv \in Server
       /\ task[t].pc \in WithContainers => task[t].cid \in Container

ListenerShape ==
    lsn.pc \in {"recheck", "commit"} => lsn.srv \in Server /\ lsn.why \in Reason

OwnerShape == \A c \in Container : cstate[c] # "absent" => owner[c] \in Server

Shape == TypeOK /\ TaskShape /\ ListenerShape /\ OwnerShape

LEMMA InitShape == Init => Shape
BY SubOfAssumption, NoneAssumption
   DEF Init, PlatformInit, ListenerInit, TasksInit, Shape, TypeOK,
       PlatformTypeOK, ListenerTypeOK, TasksTypeOK, TaskShape, ListenerShape,
       OwnerShape, Idle, AtStart, TaskState, Listener, Pc, WithContainers, Event,
       Status, ContainerState, Stream

\* Steps that leave the platform alone leave its types alone.
LEMMA PlatformUnchanged ==
    ASSUME PlatformTypeOK, OwnerShape, UNCHANGED platformVars
    PROVE  PlatformTypeOK' /\ OwnerShape'
BY DEF PlatformTypeOK, OwnerShape, platformVars, rows, zone, docker

LEMMA TasksUnchanged ==
    ASSUME TasksTypeOK, TaskShape, UNCHANGED task
    PROVE  TasksTypeOK' /\ TaskShape'
BY DEF TasksTypeOK, TaskShape

\* What the listener decides is about a server, for a reason.
LEMMA DecideShape ==
    ASSUME lsn \in Listener,
           NEW pc \in {"recover", "listening"}
    PROVE  /\ Decide(pc, None, None) => lsn' \in Listener /\ ListenerShape'
           /\ \A s \in Server, why \in Reason :
                Decide("commit", s, why) => lsn' \in Listener /\ ListenerShape'
BY DEF Listener, Decide, ListenerShape

LEMMA AtStartShape ==
    ASSUME lsn' = AtStart
    PROVE  lsn' \in Listener /\ ListenerShape'
BY DEF Listener, AtStart, ListenerShape

\* What the listener does keeps the shape.
LEMMA ListenerShapeStep ==
    ASSUME Shape, ListenerStep, UNCHANGED task
    PROVE  Shape'
<1>1. /\ PlatformTypeOK /\ OwnerShape /\ lsn \in Listener /\ ListenerShape
      /\ TasksTypeOK /\ TaskShape
  BY DEF Shape, TypeOK, ListenerTypeOK
<1>2. TasksTypeOK' /\ TaskShape' BY <1>1, TasksUnchanged
<1>3. SUFFICES PlatformTypeOK' /\ OwnerShape' /\ lsn' \in Listener /\ ListenerShape'
  BY <1>2 DEF Shape, TypeOK, ListenerTypeOK
<1>4. CASE Recover
  <2>1. lsn' = [AtStart EXCEPT !.pc = "recover", !.todo = lsn'.todo]
        /\ lsn'.todo \in SUBSET (Server \X Container)
    BY <1>4 DEF Recover, AtStart
  <2>2. lsn' \in Listener /\ ListenerShape'
    BY <2>1 DEF Listener, AtStart, ListenerShape
  <2> QED BY <1>1, <1>4, <2>2, PlatformUnchanged DEF Recover
<1>5. CASE RecoverCheck
  <2>1. PICK i \in lsn.todo :
          \/ lsn' = [lsn EXCEPT !.todo = @ \ {i}]
          \/ \E w \in Found :
               lsn' = [lsn EXCEPT !.pc = "recheck", !.todo = @ \ {i},
                                  !.srv = i[1], !.why = w]
    BY <1>5 DEF RecoverCheck, Found
  <2>2. i[1] \in Server BY <1>1 DEF Listener
  <2>3. lsn.pc = "recover" /\ UNCHANGED platformVars BY <1>5 DEF RecoverCheck
  <2>4. CASE lsn' = [lsn EXCEPT !.todo = @ \ {i}]
    <3>1. lsn' \in Listener /\ ListenerShape'
      BY <1>1, <2>3, <2>4 DEF Listener, ListenerShape
    <3> QED BY <1>1, <2>3, <3>1, PlatformUnchanged
  <2>5. ASSUME NEW w \in Found,
               lsn' = [lsn EXCEPT !.pc = "recheck", !.todo = @ \ {i},
                                  !.srv = i[1], !.why = w]
        PROVE  PlatformTypeOK' /\ OwnerShape' /\ lsn' \in Listener /\ ListenerShape'
    <3>1. lsn' \in Listener /\ ListenerShape'
      BY <1>1, <2>2, <2>5 DEF Listener, ListenerShape, Reason
    <3> QED BY <1>1, <2>3, <3>1, PlatformUnchanged
  <2> QED BY <2>1, <2>4, <2>5
<1>6. CASE RecoverFails BY <1>1, <1>6, PlatformUnchanged, AtStartShape DEF RecoverFails
<1>7. CASE RecoverRecheck
  BY <1>1, <1>7, PlatformUnchanged, DecideShape DEF RecoverRecheck, ListenerShape
<1>8. CASE RecoverDone
  <2>1. lsn' \in Listener /\ ListenerShape'
    BY <1>8 DEF RecoverDone, Listener, AtStart, ListenerShape
  <2> QED BY <1>1, <1>8, <2>1, PlatformUnchanged DEF RecoverDone
<1>9. CASE Subscribe
  <2>1. lsn' \in Listener /\ ListenerShape'
    BY <1>1, <1>9 DEF Subscribe, Listener, ListenerShape
  <2> QED BY <1>1, <1>9, <2>1
          DEF Subscribe, PlatformTypeOK, OwnerShape, Stream, rows, zone, docker
<1>10. CASE TakeEvent
  <2>1. events # << >> /\ events' = Tail(events) /\ events \in Seq(Event)
    BY <1>1, <1>10 DEF TakeEvent, PlatformTypeOK
  <2>2. events' \in Seq(Event) /\ Head(events) \in Event BY <2>1
  <2>3. Head(events).kind \in Reason BY <2>2 DEF Event, Reason
  <2>4. lsn' \in Listener /\ ListenerShape'
    BY <1>1, <1>10, <2>3, DecideShape DEF TakeEvent, ListenerShape
  <2> QED BY <1>1, <1>10, <2>2, <2>4 DEF TakeEvent, PlatformTypeOK, OwnerShape, rows, zone
<1>11. CASE ListenerCommit
  <2>1. lsn' \in Listener /\ ListenerShape'
    BY <1>1, <1>11, DecideShape DEF ListenerCommit, Resumed
  <2> QED BY <1>1, <1>11, <2>1 DEF ListenerCommit, SetStatus, NewStatus, Status,
          PlatformTypeOK, OwnerShape, docker, zone
<1>12. CASE ListenerCommitFails
  BY <1>1, <1>12, AtStartShape
     DEF ListenerCommitFails, PlatformTypeOK, OwnerShape, Stream, rows, zone
<1>13. CASE StreamLost BY <1>1, <1>13, PlatformUnchanged, AtStartShape DEF StreamLost
<1> QED BY <1>4, <1>5, <1>6, <1>7, <1>8, <1>9, <1>10, <1>11, <1>12, <1>13
        DEF ListenerStep, RecoveryPass

-----------------------------------------------------------------------------
(* Tasks: first the moves they are made of.                                *)

LEMMA FinishShape ==
    ASSUME TasksTypeOK, TaskShape, NEW t \in Task, Finish(t)
    PROVE  TasksTypeOK' /\ TaskShape'
BY DEF Finish, Idle, TasksTypeOK, TaskState, TaskShape, WithContainers, Pc

LEMMA GotoShape ==
    ASSUME TasksTypeOK, TaskShape, NEW t \in Task, NEW pc \in Pc, Goto(t, pc),
           task[t].srv \in Server,
           pc \in WithContainers => task[t].cid \in Container
    PROVE  TasksTypeOK' /\ TaskShape'
<1>1. CASE pc = "idle"
  BY <1>1, FinishShape DEF Goto
<1>2. CASE pc # "idle"
  <2>1. task' = [task EXCEPT ![t].pc = pc, ![t].seen = None] BY <1>2 DEF Goto
  <2>2. task[t] \in TaskState BY DEF TasksTypeOK
  <2>3. TasksTypeOK' BY <2>1, <2>2 DEF TasksTypeOK, TaskState
  <2>4. TaskShape' BY <2>1, <2>2 DEF TasksTypeOK, TaskState, TaskShape
  <2> QED BY <2>3, <2>4
<1> QED BY <1>1, <1>2

LEMMA BeginShape ==
    ASSUME TasksTypeOK, TaskShape, PlatformTypeOK,
           NEW t \in Task, NEW s \in Server, Live(s),
           NEW pc \in Pc \ WithContainers, Begin(t, s, pc)
    PROVE  TasksTypeOK' /\ TaskShape'
<1> DEFINE new == [pc |-> pc, srv |-> s, seen |-> status[s],
                   cid |-> saved[s], rec |-> s \in dnsSaved]
<1>1. new \in TaskState
  BY DEF TaskState, PlatformTypeOK, Live
<1>2. task' = [task EXCEPT ![t] = new] BY DEF Begin
<1> QED BY <1>1, <1>2 DEF TasksTypeOK, TaskShape

LEMMA RollbackShape ==
    ASSUME TasksTypeOK, TaskShape, NEW t \in Task, task[t].srv \in Server,
           NEW rec \in BOOLEAN, NEW cid, cid = None \/ cid = task[t].cid,
           Rollback(t, cid, rec)
    PROVE  TasksTypeOK' /\ TaskShape'
<1> DEFINE pc == IF cid # None THEN "undo_stop" ELSE IF rec THEN "undo_dns" ELSE "undo_config"
<1>1. task' = [task EXCEPT ![t].rec = rec, ![t].pc = pc] BY DEF Rollback
<1>2. task[t] \in TaskState BY DEF TasksTypeOK
<1>3. pc \in Pc /\ (pc \in WithContainers => task[t].cid \in Container)
  BY <1>2 DEF Pc, RollbackPc, WithContainers, TaskState
<1> HIDE DEF pc
<1>4. TasksTypeOK' BY <1>1, <1>2, <1>3 DEF TasksTypeOK, TaskState
<1>5. TaskShape' BY <1>1, <1>2, <1>3 DEF TasksTypeOK, TaskState, TaskShape
<1> QED BY <1>4, <1>5

LEMMA CommitStatusShape ==
    ASSUME TasksTypeOK, TaskShape, PlatformTypeOK,
           NEW t \in Task, task[t].srv \in Server,
           NEW st \in Status, NEW pc \in Pc,
           pc \in WithContainers => task[t].cid \in Container,
           CommitStatus(t, st, pc)
    PROVE  /\ TasksTypeOK' /\ TaskShape'
           /\ status' \in [Server -> Status \cup {"absent"}]
<1>1. CASE SetStatus(task[t].srv, st) /\ Goto(t, pc)
  BY <1>1, GotoShape DEF SetStatus, PlatformTypeOK
<1>2. CASE UNCHANGED status /\ Finish(t)
  BY <1>2, FinishShape DEF PlatformTypeOK
<1> QED BY <1>1, <1>2 DEF CommitStatus

\* The same for what Docker keeps.
DockerTypeOK ==
    /\ cstate \in [Container -> ContainerState]
    /\ owner \in [Container -> Server \cup {None}]
    /\ events \in Seq(Event)
    /\ OwnerShape

LEMMA ReportType ==
    ASSUME events \in Seq(Event), NEW s \in Server,
           NEW kind \in {"healthy", "crash", "stop"}, Report(kind, SubOf[s])
    PROVE  events' \in Seq(Event)
<1>1. SubOf[s] \in Subdomain BY SubOfAssumption
<1>2. [kind |-> kind, sub |-> SubOf[s]] \in Event BY <1>1 DEF Event
<1> QED BY <1>2 DEF Report

LEMMA EmitType ==
    ASSUME DockerTypeOK, NEW c \in Container, cstate[c] # "absent",
           NEW kind \in {"healthy", "crash", "stop"}, Emit(kind, c)
    PROVE  events' \in Seq(Event)
BY ReportType DEF Emit, DockerTypeOK, OwnerShape

LEMMA StopContainerType ==
    ASSUME DockerTypeOK, NEW c \in Container, StopContainer(c)
    PROVE  DockerTypeOK'
<1>1. CASE Up(c) /\ cstate' = [cstate EXCEPT ![c] = "exited"] /\ Emit("stop", c)
  <2>1. events' \in Seq(Event) BY <1>1, EmitType DEF Up
  <2> QED BY <1>1, <2>1 DEF DockerTypeOK, StopContainer, OwnerShape, ContainerState, Up
<1>2. CASE UNCHANGED <<cstate, events>>
  BY <1>2 DEF DockerTypeOK, StopContainer, OwnerShape
<1> QED BY <1>1, <1>2 DEF StopContainer

LEMMA OtherContainerTypes ==
    ASSUME DockerTypeOK, NEW c \in Container, NEW s \in Server,
           RunContainer(c, s) \/ StartContainer(c) \/ RemoveContainer(c) \/ UNCHANGED docker
    PROVE  DockerTypeOK'
<1>1. CASE RunContainer(c, s)
  BY <1>1 DEF RunContainer, DockerTypeOK, OwnerShape, ContainerState
<1>2. CASE StartContainer(c)
  BY <1>2 DEF StartContainer, DockerTypeOK, OwnerShape, ContainerState
<1>3. CASE RemoveContainer(c)
  BY <1>3 DEF RemoveContainer, DockerTypeOK, OwnerShape, ContainerState
<1>4. CASE UNCHANGED docker
  BY <1>4 DEF docker, DockerTypeOK, OwnerShape
<1> QED BY <1>1, <1>2, <1>3, <1>4

LEMMA StopRaisesType ==
    ASSUME DockerTypeOK, NEW c \in Container, StopRaises(c)
    PROVE  DockerTypeOK'
BY StopContainerType DEF StopRaises, docker, DockerTypeOK, OwnerShape

\* What a failed start leaves, if anything, is the server's it was made for.
LEMMA StartFailsType ==
    ASSUME DockerTypeOK, NEW t \in Task, task[t].srv \in Server, StartFails(t)
    PROVE  DockerTypeOK'
<1> DEFINE s == task[t].srv
<1>1. CASE UNCHANGED docker BY <1>1 DEF docker, DockerTypeOK, OwnerShape
<1>2. CASE RunUndone(s)
  <2>1. events' \in Seq(Event) BY <1>2, ReportType DEF RunUndone, DockerTypeOK
  <2> QED BY <1>2, <2>1 DEF RunUndone, DockerTypeOK, OwnerShape
<1>3. ASSUME NEW c \in Container, LeaveContainer(c, s) PROVE DockerTypeOK'
  <2>1. events' \in Seq(Event) BY <1>3, ReportType DEF LeaveContainer, DockerTypeOK
  <2> QED BY <1>3, <2>1 DEF LeaveContainer, DockerTypeOK, OwnerShape, ContainerState
<1> QED BY <1>1, <1>2, <1>3 DEF StartFails

LEMMA StartedShape ==
    ASSUME TasksTypeOK, TaskShape, DockerTypeOK, NEW t \in Task, task[t].srv \in Server,
           NEW pc \in Pc, Started(t, pc)
    PROVE  TasksTypeOK' /\ TaskShape' /\ DockerTypeOK'
<1>1. PICK c \in Container : /\ RunContainer(c, task[t].srv)
                            /\ task' = [task EXCEPT ![t].pc = pc, ![t].cid = c]
  BY DEF Started
<1>2. task[t] \in TaskState BY DEF TasksTypeOK
<1>3. TasksTypeOK' BY <1>1, <1>2 DEF TasksTypeOK, TaskState
<1>4. TaskShape' BY <1>1, <1>2 DEF TasksTypeOK, TaskState, TaskShape
<1>5. DockerTypeOK' BY <1>1, OtherContainerTypes
<1> QED BY <1>3, <1>4, <1>5

-----------------------------------------------------------------------------
(* Then the actions, grouped by what they change.                          *)

LEMMA PcMembers ==
    {"idle", "create_config", "create_error", "update_config", "suspend_commit",
     "suspend_stop", "create_a_record", "save_dns", "start_containers", "save_ids",
     "undo_stop", "undo_remove", "undo_dns", "undo_config", "undo_read",
     "undo_commit", "resume_commit", "resume_start", "resume_health",
     "resume_create", "resume_save", "resume_undo_read", "resume_undo_commit",
     "delete_commit", "delete_config", "delete_stop", "delete_remove",
     "delete_dns"} \subseteq Pc
BY DEF Pc, ProvisionPc, RollbackPc, ResumePc, DeletePc

\* The part of the shape a task can change.
Local == PlatformTypeOK /\ OwnerShape /\ TasksTypeOK /\ TaskShape

LEMMA LocalShape ==
    ASSUME Shape, UNCHANGED <<stream, lsn>>, Local'
    PROVE  Shape'
BY DEF Shape, TypeOK, ListenerTypeOK, ListenerShape, Local

LEMMA AtServer ==
    ASSUME Local, NEW t \in Task, task[t].pc # "idle"
    PROVE  /\ task[t].srv \in Server
           /\ task[t].cid \in Container \cup {None}
           /\ task[t].pc \in WithContainers => task[t].cid \in Container
BY DEF Local, TaskShape, TasksTypeOK, TaskState

LEMMA RequestShape ==
    ASSUME Local, NEW t \in Task, NEW s \in Server, UNCHANGED stream,
           Create(t, s) \/ Update(t, s) \/ Suspend(t, s) \/ Resume(t, s) \/ Delete(t, s)
    PROVE  Local'
<1>1. CASE Create(t, s)
  <2>1. [Idle EXCEPT !.pc = "create_config", !.srv = s] \in TaskState
    BY PcMembers DEF Idle, TaskState
  <2>2. TasksTypeOK' /\ TaskShape'
    BY <1>1, <2>1 DEF Create, Local, TasksTypeOK, TaskShape, Idle, WithContainers
  <2> QED BY <1>1, <2>2 DEF Create, SetStatus, Local, PlatformTypeOK, OwnerShape,
             Status, docker, zone
<1>2. ASSUME NEW pc \in {"update_config", "suspend_commit", "resume_commit", "delete_commit"},
             Live(s), Begin(t, s, pc), UNCHANGED platformVars
      PROVE  Local'
  <2>1. pc \in Pc \ WithContainers BY PcMembers DEF WithContainers
  <2>2. TasksTypeOK' /\ TaskShape' BY <1>2, <2>1, BeginShape DEF Local
  <2> QED BY <1>2, <2>2, PlatformUnchanged DEF Local
<1> QED BY <1>1, <1>2 DEF Update, Suspend, Resume, Delete

LEMMA CommitShape ==
    ASSUME Local, NEW t \in Task, UNCHANGED stream,
           \/ CreateError(t) \/ UndoCommit(t) \/ SuspendCommit(t)
           \/ ResumeCommit(t) \/ ResumeUndoCommit(t) \/ DeleteCommit(t)
    PROVE  Local'
<1>1. task[t].srv \in Server /\ task[t].cid \in Container \cup {None}
  BY AtServer DEF At, CreateError, UndoCommit, SuspendCommit, ResumeCommit,
     ResumeUndoCommit, DeleteCommit
<1>2. PICK st \in Status, pc \in Pc :
         /\ pc \in WithContainers => task[t].cid \in Container
         /\ CommitStatus(t, st, pc) \/ (UNCHANGED status /\ Goto(t, pc))
  BY <1>1, PcMembers DEF CreateError, UndoCommit, SuspendCommit, ResumeCommit,
     ResumeUndoCommit, DeleteCommit, Status, WithContainers
<1>3. TasksTypeOK' /\ TaskShape' /\ status' \in [Server -> Status \cup {"absent"}]
  <2>1. CASE CommitStatus(t, st, pc) BY <1>1, <1>2, <2>1, CommitStatusShape DEF Local
  <2>2. CASE UNCHANGED status /\ Goto(t, pc)
    BY <1>1, <1>2, <2>2, GotoShape DEF Local, PlatformTypeOK
  <2> QED BY <1>2, <2>1, <2>2
<1>4. UNCHANGED <<saved, dnsSaved, zone, conf, docker>>
  BY DEF CreateError, UndoCommit, SuspendCommit, ResumeCommit, ResumeUndoCommit,
     DeleteCommit
<1> QED BY <1>3, <1>4 DEF Local, PlatformTypeOK, OwnerShape, docker, zone

LEMMA DockerShape ==
    ASSUME Local, NEW t \in Task, UNCHANGED stream,
           \/ StartContainers(t) \/ UndoStop(t) \/ UndoRemove(t) \/ SuspendStop(t)
           \/ ResumeStart(t) \/ ResumeCreate(t) \/ DeleteStop(t) \/ DeleteRemove(t)
    PROVE  Local'
<1>1. task[t].srv \in Server /\ task[t].cid \in Container \cup {None}
      /\ (task[t].pc \in WithContainers => task[t].cid \in Container)
  BY AtServer DEF At, StartContainers, UndoStop, UndoRemove, SuspendStop,
     ResumeStart, ResumeCreate, DeleteStop, DeleteRemove
<1>2. DockerTypeOK BY DEF Local, PlatformTypeOK, DockerTypeOK
<1>3. SUFFICES DockerTypeOK' /\ TasksTypeOK' /\ TaskShape'
  BY DEF Local, PlatformTypeOK, DockerTypeOK, rows, zone, StartContainers, UndoStop,
     UndoRemove, SuspendStop, ResumeStart, ResumeCreate, DeleteStop, DeleteRemove
<1>4. CASE StartContainers(t)
  <2>1. CASE Started(t, "save_ids")
    BY <1>1, <1>2, <2>1, PcMembers, StartedShape DEF Local
  <2>2. CASE Rollback(t, None, TRUE) /\ (StartFails(t) \/ UNCHANGED docker)
    <3>1. TasksTypeOK' /\ TaskShape' BY <1>1, <2>2, RollbackShape DEF Local
    <3> QED BY <1>1, <1>2, <2>2, <3>1, StartFailsType DEF docker, DockerTypeOK, OwnerShape
  <2> QED BY <1>4, <2>1, <2>2 DEF StartContainers
<1>5. CASE ResumeCreate(t)
  <2>1. CASE Started(t, "resume_save")
    BY <1>1, <1>2, <2>1, PcMembers, StartedShape DEF Local
  <2>2. CASE StartFails(t) /\ Goto(t, "resume_undo_read")
    BY <1>1, <1>2, <2>2, PcMembers, GotoShape, StartFailsType DEF Local, WithContainers
  <2> QED BY <1>5, <2>1, <2>2 DEF ResumeCreate
<1>6. ASSUME task[t].cid \in Container,
             \/ StopContainer(task[t].cid) \/ StartContainer(task[t].cid)
             \/ RemoveContainer(task[t].cid) \/ StopRaises(task[t].cid)
             \/ UNCHANGED docker,
             NEW pc \in {"undo_remove", "undo_dns", "idle", "resume_health",
                         "resume_undo_read", "delete_remove", "delete_dns"},
             Goto(t, pc)
      PROVE  DockerTypeOK' /\ TasksTypeOK' /\ TaskShape'
  <2>1. DockerTypeOK' BY <1>1, <1>2, <1>6, StopContainerType, StopRaisesType, OtherContainerTypes
  <2>2. TasksTypeOK' /\ TaskShape'
    BY <1>1, <1>6, PcMembers, GotoShape DEF Local, WithContainers
  <2> QED BY <2>1, <2>2
<1>7. CASE UndoStop(t) BY <1>1, <1>6, <1>7 DEF UndoStop, At, WithContainers
<1>8. CASE UndoRemove(t) BY <1>1, <1>6, <1>8 DEF UndoRemove, At, WithContainers
<1>9. CASE SuspendStop(t) BY <1>1, <1>6, <1>9 DEF SuspendStop, At, WithContainers, Goto
<1>10. CASE ResumeStart(t) BY <1>1, <1>6, <1>10 DEF ResumeStart, At, WithContainers
<1>11. CASE DeleteStop(t) BY <1>1, <1>6, <1>11 DEF DeleteStop, DropDns, At, WithContainers
<1>12. CASE DeleteRemove(t) BY <1>1, <1>6, <1>12 DEF DeleteRemove, DropDns, At, WithContainers
<1> QED BY <1>4, <1>5, <1>7, <1>8, <1>9, <1>10, <1>11, <1>12

LEMMA RowsShape ==
    ASSUME Local, NEW t \in Task, UNCHANGED stream,
           SaveDns(t) \/ SaveIds(t) \/ ResumeSave(t)
    PROVE  Local'
<1>1. task[t].srv \in Server /\ task[t].cid \in Container \cup {None}
  BY AtServer DEF At, SaveDns, SaveIds, ResumeSave
<1>2. TasksTypeOK' /\ TaskShape'
  <2>1. CASE SaveDns(t)
    BY <1>1, <2>1, PcMembers, GotoShape, RollbackShape DEF SaveDns, Local, WithContainers
  <2>2. CASE SaveIds(t)
    BY <1>1, <2>2, FinishShape, RollbackShape DEF SaveIds, Local
  <2>3. CASE ResumeSave(t)
    BY <1>1, <2>3, PcMembers, FinishShape, GotoShape DEF ResumeSave, Local, WithContainers
  <2> QED BY <2>1, <2>2, <2>3
<1>3. /\ saved' \in [Server -> Container \cup {None}]
      /\ dnsSaved' \subseteq Server
  BY <1>1 DEF SaveDns, SaveIds, ResumeSave, Local, PlatformTypeOK
<1>4. UNCHANGED <<status, zone, conf, docker>> BY DEF SaveDns, SaveIds, ResumeSave
<1> QED BY <1>2, <1>3, <1>4 DEF Local, PlatformTypeOK, OwnerShape, docker, zone

LEMMA ConfShape ==
    ASSUME Local, NEW t \in Task, UNCHANGED stream,
           CreateConfig(t) \/ UndoConfig(t) \/ UpdateConfig(t) \/ DeleteConfig(t)
    PROVE  Local'
<1>1. task[t].srv \in Server /\ task[t].cid \in Container \cup {None}
  BY AtServer DEF At, CreateConfig, UndoConfig, UpdateConfig, DeleteConfig
<1>2. TasksTypeOK' /\ TaskShape'
  <2>1. ASSUME NEW pc \in {"create_a_record", "create_error", "undo_read", "idle",
                           "delete_stop", "delete_dns"},
               Goto(t, pc), pc = "delete_stop" => task[t].cid \in Container
        PROVE  TasksTypeOK' /\ TaskShape'
    BY <1>1, <2>1, PcMembers, GotoShape DEF Local, WithContainers
  <2>2. CASE Finish(t) BY <2>2, FinishShape DEF Local
  <2>3. CASE CreateConfig(t) BY <2>1, <2>2, <2>3 DEF CreateConfig
  <2>4. CASE UndoConfig(t) BY <2>1, <2>4 DEF UndoConfig
  <2>5. CASE UpdateConfig(t) BY <2>2, <2>5 DEF UpdateConfig
  <2>6. CASE DeleteConfig(t)
    <3>1. \/ Finish(t)
          \/ task[t].cid # None /\ Goto(t, "delete_stop")
          \/ Goto(t, "delete_dns")
          \/ Goto(t, "idle")
      BY <2>6 DEF DeleteConfig, DropDns
    <3> QED BY <1>1, <2>1, <2>2, <3>1
  <2> QED BY <2>3, <2>4, <2>5, <2>6
<1>3. conf' \in [Subdomain -> Server \cup {None}]
  BY <1>1 DEF CreateConfig, UndoConfig, UpdateConfig, DeleteConfig, Unlink,
     WriteConfig, Local, PlatformTypeOK
<1>4. UNCHANGED <<rows, zone, docker>>
  BY DEF CreateConfig, UndoConfig, UpdateConfig, DeleteConfig
<1> QED BY <1>2, <1>3, <1>4 DEF Local, PlatformTypeOK, OwnerShape, docker, zone, rows

LEMMA DnsShape ==
    ASSUME Local, NEW t \in Task, UNCHANGED stream,
           CreateARecord(t) \/ UndoDns(t) \/ DeleteDns(t)
    PROVE  Local'
<1>1. task[t].srv \in Server BY AtServer DEF At, CreateARecord, UndoDns, DeleteDns
<1>2. TasksTypeOK' /\ TaskShape'
  <2>1. CASE task' = [task EXCEPT ![t].pc = "save_dns", ![t].rec = TRUE]
    BY <1>1, <2>1, PcMembers DEF Local, TasksTypeOK, TaskState, TaskShape, WithContainers
  <2>2. CASE Rollback(t, None, FALSE) BY <1>1, <2>2, RollbackShape DEF Local
  <2>3. CASE Goto(t, "undo_config")
    BY <1>1, <2>3, PcMembers, GotoShape DEF Local, WithContainers
  <2>4. CASE Finish(t) BY <2>4, FinishShape DEF Local
  <2> QED BY <2>1, <2>2, <2>3, <2>4 DEF CreateARecord, UndoDns, DeleteDns
<1>3. dns' \subseteq Server /\ lost' \subseteq Server
  BY <1>1 DEF CreateARecord, UndoDns, DeleteDns, Local, PlatformTypeOK
<1>4. UNCHANGED <<rows, conf, docker>> BY DEF CreateARecord, UndoDns, DeleteDns
<1> QED BY <1>2, <1>3, <1>4 DEF Local, PlatformTypeOK, OwnerShape, docker, zone, rows

LEMMA ReadShape ==
    ASSUME Local, NEW t \in Task, UNCHANGED stream,
           UndoRead(t) \/ ResumeHealth(t) \/ ResumeUndoRead(t)
    PROVE  Local'
<1>1. task[t].srv \in Server BY AtServer DEF At, UndoRead, ResumeHealth, ResumeUndoRead
<1>2. PICK pc \in Pc \ WithContainers : Goto(t, pc) \/ Finish(t)
  BY PcMembers DEF UndoRead, ResumeHealth, ResumeUndoRead, WithContainers
<1>3. TasksTypeOK' /\ TaskShape' BY <1>1, <1>2, GotoShape, FinishShape DEF Local
<1>4. UNCHANGED platformVars
  BY DEF UndoRead, ResumeHealth, ResumeUndoRead, platformVars
<1> QED BY <1>3, <1>4, PlatformUnchanged DEF Local

LEMMA TaskShapeStep ==
    ASSUME Local, NEW t \in Task, UNCHANGED stream, Request(t) \/ TaskStep(t)
    PROVE  Local'
<1>1. CASE Request(t) BY <1>1, RequestShape DEF Request
<1>2. CASE TaskStep(t)
  BY <1>2, CommitShape, DockerShape, RowsShape, ConfShape, DnsShape, ReadShape
     DEF TaskStep, Provision, Undo, SuspendResume, Deprovision
<1> QED BY <1>1, <1>2

LEMMA DockerStepShape ==
    ASSUME Local, DockerStep, UNCHANGED task
    PROVE  Local' /\ UNCHANGED stream
<1>1. PICK c \in Container : HealthPass(c) \/ Unhealthy(c) \/ Crash(c)
                            \/ LeftReports(c) \/ Vanish(c)
  BY DEF DockerStep
<1>2. DockerTypeOK BY DEF Local, PlatformTypeOK, DockerTypeOK
<1>3. events' \in Seq(Event)
  BY <1>1, <1>2, EmitType DEF HealthPass, Unhealthy, Crash, LeftReports, Vanish, DockerTypeOK, Up
<1>4. /\ cstate' \in [Container -> ContainerState]
      /\ owner' \in [Container -> Server \cup {None}]
      /\ OwnerShape'
  BY <1>1, <1>2 DEF HealthPass, Unhealthy, Crash, LeftReports, Vanish, DockerTypeOK, OwnerShape,
     ContainerState, Up
<1>5. UNCHANGED <<rows, zone, conf, stream>>
  BY <1>1 DEF HealthPass, Unhealthy, Crash, LeftReports, Vanish
<1>6. TasksTypeOK' /\ TaskShape' BY TasksUnchanged DEF Local
<1> QED BY <1>3, <1>4, <1>5, <1>6 DEF Local, PlatformTypeOK, rows, zone

LEMMA RestartShape ==
    ASSUME Shape, Restart
    PROVE  Shape'
<1>1. lsn' \in Listener /\ ListenerShape' BY AtStartShape DEF Restart
<1>2. TasksTypeOK' /\ TaskShape'
  BY PcMembers DEF Restart, Idle, TasksTypeOK, TaskState, TaskShape, WithContainers
<1>3. conf' \in [Subdomain -> Server \cup {None}]
  <2>1. PICK w \in SUBSET {s \in Server : Live(s)} :
          conf' = [d \in Subdomain |-> IF \E s \in w : SubOf[s] = d
                                      THEN CHOOSE s \in w : SubOf[s] = d
                                      ELSE conf[d]]
    BY DEF Restart
  <2>2. \A d \in Subdomain : (\E s \in w : SubOf[s] = d)
                             => (CHOOSE s \in w : SubOf[s] = d) \in Server
    OBVIOUS
  <2> QED BY <2>1, <2>2 DEF Shape, TypeOK, PlatformTypeOK
<1>4. events' \in Seq(Event) /\ stream' \in Stream BY DEF Restart, Stream
<1> QED BY <1>1, <1>2, <1>3, <1>4
        DEF Restart, Shape, TypeOK, ListenerTypeOK, PlatformTypeOK, OwnerShape, rows, zone

LEMMA NextShape == Shape /\ [Next]_vars => Shape'
<1> SUFFICES ASSUME Shape, [Next]_vars PROVE Shape'
  OBVIOUS
<1>1. Local BY DEF Shape, TypeOK, Local
<1>2. CASE \E t \in Task : (Request(t) \/ TaskStep(t)) /\ UNCHANGED <<stream, lsn>>
  BY <1>1, <1>2, TaskShapeStep, LocalShape
<1>3. CASE ListenerStep /\ UNCHANGED task BY <1>3, ListenerShapeStep
<1>4. CASE DockerStep /\ UNCHANGED <<lsn, task>>
  BY <1>1, <1>4, DockerStepShape, LocalShape
<1>5. CASE (StreamFails \/ StreamEnds) /\ UNCHANGED <<lsn, task>>
  BY <1>5 DEF StreamFails, StreamEnds, Stream, Shape, TypeOK, PlatformTypeOK,
     ListenerTypeOK, TasksTypeOK, TaskShape, ListenerShape, OwnerShape, rows, zone, docker
<1>6. CASE Restart BY <1>6, RestartShape
<1>7. CASE UNCHANGED vars
  BY <1>1, <1>7, PlatformUnchanged, TasksUnchanged
     DEF vars, platformVars, Local, Shape, TypeOK, ListenerTypeOK, ListenerShape
<1> QED BY <1>2, <1>3, <1>4, <1>5, <1>6, <1>7 DEF Next

\* Every variable always has its type, and tasks and listener name a server
\* whenever they are about to use one.
THEOREM ShapeAlways == Spec => []Shape
BY InitShape, NextShape, PTL DEF Spec

\* The type invariant of the specification.
THEOREM TypeCorrect == Spec => []TypeOK
<1>1. Shape => TypeOK BY DEF Shape
<1> QED BY <1>1, ShapeAlways, PTL

-----------------------------------------------------------------------------
(***************************************************************************)
(* The unique index.  Every status is written through SetStatus, which the *)
(* index guards, so no interleaving of readers and writers makes two live  *)
(* rows of one subdomain.                                                  *)
(***************************************************************************)
StatusWritten ==
    UNCHANGED status \/ \E s \in Server, st \in Status : SetStatus(s, st)

LEMMA CommitWritten ==
    ASSUME Local, NEW t \in Task, task[t].srv \in Server, NEW st \in Status, NEW pc,
           CommitStatus(t, st, pc)
    PROVE  StatusWritten
BY DEF CommitStatus, StatusWritten

LEMMA TaskStatusWritten ==
    ASSUME Local, NEW t \in Task, Request(t) \/ TaskStep(t)
    PROVE  StatusWritten
<1>1. CASE Request(t)
  <2>1. PICK s \in Server :
          Create(t, s) \/ Update(t, s) \/ Suspend(t, s) \/ Resume(t, s) \/ Delete(t, s)
    BY <1>1 DEF Request
  <2>2. CASE Create(t, s) BY <2>2 DEF Create, StatusWritten, Status
  <2> QED BY <2>1, <2>2
          DEF Update, Suspend, Resume, Delete, platformVars, rows, zone, StatusWritten
<1>2. CASE \/ CreateError(t) \/ UndoCommit(t) \/ SuspendCommit(t)
           \/ ResumeCommit(t) \/ ResumeUndoCommit(t) \/ DeleteCommit(t)
  <2>1. task[t].srv \in Server
    BY <1>2, AtServer DEF At, CreateError, UndoCommit, SuspendCommit, ResumeCommit,
       ResumeUndoCommit, DeleteCommit
  <2>2. UNCHANGED status \/ \E st \in Status, pc \in Pc : CommitStatus(t, st, pc)
    BY <1>2, PcMembers DEF CreateError, UndoCommit, SuspendCommit, ResumeCommit,
       ResumeUndoCommit, DeleteCommit, Status
  <2> QED BY <2>1, <2>2, CommitWritten DEF StatusWritten
<1>3. CASE UNCHANGED status BY <1>3 DEF StatusWritten
<1>4. CASE TaskStep(t) /\ ~(\/ CreateError(t) \/ UndoCommit(t) \/ SuspendCommit(t)
                           \/ ResumeCommit(t) \/ ResumeUndoCommit(t) \/ DeleteCommit(t))
  <2>1. UNCHANGED status
    BY <1>4
       DEF TaskStep, Provision, Undo, SuspendResume, Deprovision, rows,
           CreateConfig, CreateARecord, SaveDns, StartContainers, SaveIds,
           UndoStop, UndoRemove, UndoDns, UndoConfig, UndoRead, UpdateConfig,
           SuspendStop, ResumeStart, ResumeHealth, ResumeCreate, ResumeSave,
           ResumeUndoRead, DeleteConfig, DeleteStop, DeleteRemove, DeleteDns
  <2> QED BY <2>1, <1>3
<1> QED BY <1>1, <1>2, <1>4

LEMMA NextStatusWritten ==
    ASSUME Shape, [Next]_vars
    PROVE  StatusWritten
<1>1. Local BY DEF Shape, TypeOK, Local
<1>2. CASE \E t \in Task : (Request(t) \/ TaskStep(t)) /\ UNCHANGED <<stream, lsn>>
  BY <1>1, <1>2, TaskStatusWritten
<1>3. CASE ListenerCommit
  <2>1. lsn.srv \in Server /\ NewStatus(lsn.why) \in Status
    BY <1>3 DEF ListenerCommit, Shape, ListenerShape, NewStatus, Status
  <2> QED BY <1>3, <2>1 DEF ListenerCommit, StatusWritten
<1>4. CASE ListenerStep /\ ~ListenerCommit
  BY <1>4 DEF ListenerStep, RecoveryPass, Recover, RecoverCheck, RecoverFails,
     RecoverRecheck, RecoverDone, Subscribe, TakeEvent, ListenerCommitFails,
     StreamLost, platformVars, rows, zone, StatusWritten
<1>5. CASE DockerStep \/ StreamFails \/ StreamEnds \/ Restart
  BY <1>5 DEF DockerStep, HealthPass, Unhealthy, Crash, LeftReports, Vanish, StreamFails,
     StreamEnds, Restart, rows, StatusWritten
<1>6. CASE UNCHANGED vars BY <1>6 DEF vars, platformVars, rows, zone, StatusWritten
<1> QED BY <1>2, <1>3, <1>4, <1>5, <1>6 DEF Next

LEMMA IndexKeepsUnique ==
    ASSUME Shape, OneLivePerSubdomain, StatusWritten
    PROVE  OneLivePerSubdomain'
<1>1. CASE UNCHANGED status BY <1>1 DEF OneLivePerSubdomain, Live
<1>2. ASSUME NEW s \in Server, NEW st \in Status, SetStatus(s, st)
      PROVE  OneLivePerSubdomain'
  BY <1>2 DEF SetStatus, IndexAllows, OneLivePerSubdomain, Live, Shape, TypeOK,
     PlatformTypeOK
<1> QED BY <1>1, <1>2 DEF StatusWritten

\* At most one row that is not deleted has a given subdomain: what the index is
\* there for, and the fact other proofs need of it.
LEMMA UniqueSubdomain == Spec => []OneLivePerSubdomain
<1>1. Init => OneLivePerSubdomain
  BY DEF Init, PlatformInit, OneLivePerSubdomain, Live
<1>2. Shape /\ OneLivePerSubdomain /\ [Next]_vars => OneLivePerSubdomain'
  BY NextStatusWritten, IndexKeepsUnique
<1> QED BY <1>1, <1>2, ShapeAlways, PTL DEF Spec

-----------------------------------------------------------------------------
(***************************************************************************)
(* Ownership.  Ids only travel: from a row to the task that reads it, and  *)
(* from the task back to the row of its server.  A new container gets an   *)
(* id that nobody refers to, and a container that exists keeps its owner.  *)
(***************************************************************************)
OwnRows ==
    \A s \in Server, c \in Container :
       saved[s] = c /\ cstate[c] # "absent" => owner[c] = s
OwnTasks ==
    \A t \in Task, c \in Container :
       task[t].cid = c /\ cstate[c] # "absent" => owner[c] = task[t].srv

LEMMA OwnMeaning == ContainersAreOwn <=> OwnRows /\ OwnTasks
<1>1. ContainersAreOwn => OwnRows /\ OwnTasks
  BY DEF ContainersAreOwn, RefersTo, OwnRows, OwnTasks
<1>2. OwnRows /\ OwnTasks => ContainersAreOwn
  BY DEF ContainersAreOwn, RefersTo, OwnRows, OwnTasks
<1> QED BY <1>1, <1>2

OwnersKept ==
    \A c \in Container :
       cstate'[c] # "absent" => cstate[c] # "absent" /\ owner'[c] = owner[c]
RowIdsTravel ==
    \A s \in Server :
       \/ saved'[s] = saved[s]
       \/ \E t \in Task : task[t].srv = s /\ saved'[s] = task[t].cid
TaskIdsTravel ==
    \A t \in Task :
       \/ task'[t].cid = None
       \/ task'[t].cid = task[t].cid /\ task'[t].srv = task[t].srv
       \/ \E s \in Server : task'[t].cid = saved[s] /\ task'[t].srv = s

LEMMA TravelKeepsOwn ==
    ASSUME OwnRows, OwnTasks, OwnersKept, RowIdsTravel, TaskIdsTravel
    PROVE  OwnRows' /\ OwnTasks'
<1>1. OwnRows' BY DEF OwnRows, OwnTasks, OwnersKept, RowIdsTravel
<1>2. OwnTasks'
  BY NoneAssumption DEF OwnRows, OwnTasks, OwnersKept, TaskIdsTravel
<1> QED BY <1>1, <1>2

LEMMA StartKeepsOwn ==
    ASSUME Local, OwnRows, OwnTasks, NEW t \in Task, NEW pc \in Pc,
           Started(t, pc), UNCHANGED saved
    PROVE  OwnRows' /\ OwnTasks'
<1>1. PICK c \in Container \ InUse :
        /\ RunContainer(c, task[t].srv)
        /\ task' = [task EXCEPT ![t].pc = pc, ![t].cid = c]
  BY DEF Started
<1>2. /\ \A s \in Server : saved[s] # c
      /\ \A u \in Task : task[u].cid # c
  BY <1>1 DEF InUse
<1>3. /\ \A d \in Container \ {c} : cstate'[d] = cstate[d] /\ owner'[d] = owner[d]
      /\ owner'[c] = task[t].srv
  BY <1>1 DEF RunContainer, Local, PlatformTypeOK
<1>4. /\ \A u \in Task \ {t} : task'[u] = task[u]
      /\ task'[t].cid = c /\ task'[t].srv = task[t].srv
  BY <1>1 DEF Local, TasksTypeOK, TaskState
<1>5. OwnRows' BY <1>2, <1>3 DEF OwnRows
<1>6. OwnTasks' BY <1>2, <1>3, <1>4 DEF OwnTasks
<1> QED BY <1>5, <1>6

\* The moves of a task carry ids as they should.
LEMMA MovesTravel ==
    ASSUME Local, NEW t \in Task,
           \/ \E pc \in Pc : Goto(t, pc)
           \/ Finish(t)
           \/ \E cid, rec : Rollback(t, cid, rec)
           \/ task' = [task EXCEPT ![t].pc = "save_dns", ![t].rec = TRUE]
           \/ \E s \in Server, pc \in Pc : Begin(t, s, pc)
           \/ \E s \in Server : task' = [task EXCEPT ![t] =
                                    [Idle EXCEPT !.pc = "create_config", !.srv = s]]
    PROVE  TaskIdsTravel
<1>1. task \in [Task -> TaskState] BY DEF Local, TasksTypeOK
<1>2. CASE Finish(t) BY <1>1, <1>2 DEF Finish, Idle, TaskIdsTravel
<1>3. ASSUME NEW pc \in Pc, Goto(t, pc) PROVE TaskIdsTravel
  <2>1. CASE pc = "idle" BY <1>2, <1>3, <2>1 DEF Goto
  <2>2. CASE pc # "idle"
    <3>1. task' = [task EXCEPT ![t].pc = pc, ![t].seen = None] BY <1>3, <2>2 DEF Goto
    <3>2. \A u \in Task : task[u] \in TaskState BY <1>1
    <3>3. \A u \in Task :
             task'[u] = IF u = t THEN [task[t] EXCEPT !.pc = pc, !.seen = None] ELSE task[u]
      BY <1>1, <3>1
    <3>4. \A u \in Task : task'[u].cid = task[u].cid /\ task'[u].srv = task[u].srv
      BY <3>2, <3>3 DEF TaskState
    <3> QED BY <3>4 DEF TaskIdsTravel
  <2> QED BY <2>1, <2>2
<1>4. ASSUME NEW cid, NEW rec, Rollback(t, cid, rec) PROVE TaskIdsTravel
  <2> DEFINE pc == IF cid # None THEN "undo_stop" ELSE IF rec THEN "undo_dns" ELSE "undo_config"
  <2>1. task' = [task EXCEPT ![t].rec = rec, ![t].pc = pc] BY <1>4 DEF Rollback
  <2> HIDE DEF pc
  <2>2. \A u \in Task : task[u] \in TaskState BY <1>1
  <2>3. \A u \in Task :
           task'[u] = IF u = t THEN [task[t] EXCEPT !.rec = rec, !.pc = pc] ELSE task[u]
    BY <1>1, <2>1
  <2>4. \A u \in Task : task'[u].cid = task[u].cid /\ task'[u].srv = task[u].srv
    BY <2>2, <2>3 DEF TaskState
  <2> QED BY <2>4 DEF TaskIdsTravel
<1>5. CASE task' = [task EXCEPT ![t].pc = "save_dns", ![t].rec = TRUE]
  BY <1>1, <1>5 DEF TaskState, TaskIdsTravel
<1>6. ASSUME NEW s \in Server, NEW pc \in Pc, Begin(t, s, pc) PROVE TaskIdsTravel
  <2> DEFINE new == [pc |-> pc, srv |-> s, seen |-> status[s],
                     cid |-> saved[s], rec |-> s \in dnsSaved]
  <2>1. task' = [task EXCEPT ![t] = new] BY <1>6 DEF Begin
  <2>2. new.cid = saved[s] /\ new.srv = s OBVIOUS
  <2> HIDE DEF new
  <2> QED BY <1>1, <2>1, <2>2 DEF TaskIdsTravel
<1>7. CASE \E s \in Server : task' = [task EXCEPT ![t] =
                                    [Idle EXCEPT !.pc = "create_config", !.srv = s]]
  BY <1>1, <1>7 DEF Idle, TaskIdsTravel
<1> QED BY <1>2, <1>3, <1>4, <1>5, <1>6, <1>7

LEMMA OwnersUnchanged == ASSUME UNCHANGED docker PROVE OwnersKept
BY DEF docker, OwnersKept

LEMMA ContainerMovesKeepOwners ==
    ASSUME DockerTypeOK, NEW c \in Container,
           StopContainer(c) \/ StartContainer(c) \/ RemoveContainer(c)
    PROVE  OwnersKept
<1>1. CASE StopContainer(c)
  BY <1>1 DEF StopContainer, Up, OwnersKept, DockerTypeOK
<1>2. CASE StartContainer(c)
  BY <1>2 DEF StartContainer, OwnersKept, DockerTypeOK
<1>3. CASE RemoveContainer(c)
  BY <1>3 DEF RemoveContainer, OwnersKept, DockerTypeOK
<1> QED BY <1>1, <1>2, <1>3

\* The steps of a task that start no container.
LEMMA RequestTravels ==
    ASSUME Local, NEW t \in Task, Request(t)
    PROVE  TaskIdsTravel /\ UNCHANGED <<saved, docker>>
<1>1. PICK s \in Server :
        Create(t, s) \/ Update(t, s) \/ Suspend(t, s) \/ Resume(t, s) \/ Delete(t, s)
  BY DEF Request
<1>2. CASE Create(t, s) BY <1>2, MovesTravel DEF Create
<1>3. CASE Update(t, s) \/ Suspend(t, s) \/ Resume(t, s) \/ Delete(t, s)
  <2>1. PICK pc \in Pc : Begin(t, s, pc)
    BY <1>3, PcMembers DEF Update, Suspend, Resume, Delete
  <2>2. UNCHANGED platformVars BY <1>3 DEF Update, Suspend, Resume, Delete
  <2> QED BY <2>1, <2>2, MovesTravel DEF platformVars, rows, zone
<1> QED BY <1>1, <1>2, <1>3

LEMMA CommitTravels ==
    ASSUME Local, NEW t \in Task,
           \/ CreateError(t) \/ UndoCommit(t) \/ SuspendCommit(t)
           \/ ResumeCommit(t) \/ ResumeUndoCommit(t) \/ DeleteCommit(t)
    PROVE  TaskIdsTravel /\ UNCHANGED <<saved, docker>>
<1>1. Finish(t) \/ \E pc \in Pc : Goto(t, pc)
  BY PcMembers DEF CreateError, UndoCommit, SuspendCommit, ResumeCommit,
     ResumeUndoCommit, DeleteCommit, CommitStatus
<1>2. UNCHANGED <<saved, docker>>
  BY DEF CreateError, UndoCommit, SuspendCommit, ResumeCommit, ResumeUndoCommit,
     DeleteCommit
<1> QED BY <1>1, <1>2, MovesTravel

LEMMA OtherTravels ==
    ASSUME Local, NEW t \in Task,
           \/ CreateConfig(t) \/ CreateARecord(t) \/ SaveDns(t) \/ UndoDns(t)
           \/ UndoConfig(t) \/ UndoRead(t) \/ UpdateConfig(t) \/ ResumeHealth(t)
           \/ ResumeUndoRead(t) \/ DeleteConfig(t) \/ DeleteDns(t)
    PROVE  TaskIdsTravel /\ UNCHANGED <<saved, docker>>
<1>1. UNCHANGED <<saved, docker>>
  BY DEF CreateConfig, CreateARecord, SaveDns, UndoDns, UndoConfig, UndoRead,
     UpdateConfig, ResumeHealth, ResumeUndoRead, DeleteConfig, DeleteDns, rows
<1>2. \/ \E pc \in Pc : Goto(t, pc)
      \/ Finish(t)
      \/ \E cid, rec : Rollback(t, cid, rec)
      \/ task' = [task EXCEPT ![t].pc = "save_dns", ![t].rec = TRUE]
  <2>1. CASE DeleteConfig(t) BY <2>1, PcMembers DEF DeleteConfig, DropDns
  <2>2. CASE CreateARecord(t) BY <2>2 DEF CreateARecord
  <2>3. CASE SaveDns(t) BY <2>3, PcMembers DEF SaveDns
  <2> QED BY <2>1, <2>2, <2>3, PcMembers
          DEF CreateConfig, UndoDns, UndoConfig, UndoRead, UpdateConfig,
              ResumeHealth, ResumeUndoRead, DeleteDns
<1> QED BY <1>1, <1>2, MovesTravel

LEMMA ContainerTravels ==
    ASSUME Local, NEW t \in Task,
           \/ UndoStop(t) \/ UndoRemove(t) \/ SuspendStop(t)
           \/ ResumeStart(t) \/ DeleteStop(t) \/ DeleteRemove(t)
    PROVE  TaskIdsTravel /\ OwnersKept /\ UNCHANGED saved
<1>1. task[t].cid \in Container
  BY AtServer DEF At, UndoStop, UndoRemove, SuspendStop, ResumeStart, DeleteStop,
     DeleteRemove, WithContainers
<1>2. DockerTypeOK BY DEF Local, PlatformTypeOK, DockerTypeOK
<1>3. OwnersKept
  BY <1>1, <1>2, ContainerMovesKeepOwners, OwnersUnchanged
     DEF UndoStop, UndoRemove, SuspendStop, ResumeStart, DeleteStop, DeleteRemove,
         StopRaises
<1>4. Finish(t) \/ \E pc \in Pc : Goto(t, pc)
  BY PcMembers DEF UndoStop, UndoRemove, SuspendStop, ResumeStart, DeleteStop,
     DeleteRemove, DropDns
<1>5. UNCHANGED saved
  BY DEF UndoStop, UndoRemove, SuspendStop, ResumeStart, DeleteStop, DeleteRemove, rows
<1> QED BY <1>3, <1>4, <1>5, MovesTravel

LEMMA SaveTravels ==
    ASSUME Local, NEW t \in Task, SaveIds(t) \/ ResumeSave(t)
    PROVE  TaskIdsTravel /\ RowIdsTravel /\ UNCHANGED docker
<1>1. RowIdsTravel
  BY DEF SaveIds, ResumeSave, RowIdsTravel, Local, PlatformTypeOK
<1>2. Finish(t) \/ (\E pc \in Pc : Goto(t, pc)) \/ \E cid, rec : Rollback(t, cid, rec)
  BY PcMembers DEF SaveIds, ResumeSave
<1> QED BY <1>1, <1>2, MovesTravel DEF SaveIds, ResumeSave

\* What a failed start leaves got an id that nobody refers to.
LEMMA StartFailKeepsOwn ==
    ASSUME Local, OwnRows, OwnTasks, NEW t \in Task, StartFails(t),
           TaskIdsTravel, UNCHANGED saved
    PROVE  OwnRows' /\ OwnTasks'
<1>1. RowIdsTravel BY DEF RowIdsTravel
<1>2. CASE UNCHANGED <<cstate, owner>>
  <2>1. OwnersKept BY <1>2 DEF OwnersKept
  <2> QED BY <1>1, <2>1, TravelKeepsOwn
<1>3. ASSUME NEW c \in Container \ InUse, LeaveContainer(c, task[t].srv)
      PROVE  OwnRows' /\ OwnTasks'
  <2>1. /\ \A s \in Server : saved[s] # c
        /\ \A u \in Task : task[u].cid # c
    BY DEF InUse
  <2>2. \A d \in Container \ {c} : cstate'[d] = cstate[d] /\ owner'[d] = owner[d]
    BY <1>3 DEF LeaveContainer, Local, PlatformTypeOK
  <2>3. OwnRows' BY <2>1, <2>2 DEF OwnRows
  <2>4. \A u \in Task : task'[u].cid # c
    BY <2>1, NoneAssumption DEF TaskIdsTravel
  <2>5. OwnTasks'
    BY <2>2, <2>4, NoneAssumption DEF OwnRows, OwnTasks, TaskIdsTravel
  <2> QED BY <2>3, <2>5
<1> QED BY <1>2, <1>3 DEF StartFails, RunUndone, docker

LEMMA TaskKeepsOwn ==
    ASSUME Local, OwnRows, OwnTasks, NEW t \in Task, Request(t) \/ TaskStep(t)
    PROVE  OwnRows' /\ OwnTasks'
<1>1. ASSUME TaskIdsTravel, UNCHANGED <<saved, docker>> PROVE OwnRows' /\ OwnTasks'
  <2>1. RowIdsTravel BY <1>1 DEF RowIdsTravel
  <2> QED BY <1>1, <2>1, OwnersUnchanged, TravelKeepsOwn
<1>2. CASE Request(t) BY <1>1, <1>2, RequestTravels
<1>3. CASE StartContainers(t) \/ ResumeCreate(t)
  <2>1. CASE \E pc \in Pc : Started(t, pc)
    BY <1>3, <2>1, StartKeepsOwn DEF StartContainers, ResumeCreate, rows
  <2>2. CASE /\ StartFails(t) \/ UNCHANGED docker
             /\ Rollback(t, None, TRUE) \/ Goto(t, "resume_undo_read")
    <3>1. TaskIdsTravel BY <2>2, PcMembers, MovesTravel
    <3>2. UNCHANGED saved BY <1>3 DEF StartContainers, ResumeCreate, rows
    <3> QED BY <1>1, <2>2, <3>1, <3>2, StartFailKeepsOwn
  <2> QED BY <1>3, <2>1, <2>2, PcMembers DEF StartContainers, ResumeCreate
<1>4. CASE \/ UndoStop(t) \/ UndoRemove(t) \/ SuspendStop(t)
           \/ ResumeStart(t) \/ DeleteStop(t) \/ DeleteRemove(t)
  <2>1. TaskIdsTravel /\ OwnersKept /\ UNCHANGED saved BY <1>4, ContainerTravels
  <2>2. RowIdsTravel BY <2>1 DEF RowIdsTravel
  <2> QED BY <2>1, <2>2, TravelKeepsOwn
<1>5. CASE SaveIds(t) \/ ResumeSave(t)
  BY <1>5, SaveTravels, OwnersUnchanged, TravelKeepsOwn
<1>6. CASE \/ CreateError(t) \/ UndoCommit(t) \/ SuspendCommit(t)
           \/ ResumeCommit(t) \/ ResumeUndoCommit(t) \/ DeleteCommit(t)
  BY <1>1, <1>6, CommitTravels
<1>7. CASE \/ CreateConfig(t) \/ CreateARecord(t) \/ SaveDns(t) \/ UndoDns(t)
           \/ UndoConfig(t) \/ UndoRead(t) \/ UpdateConfig(t) \/ ResumeHealth(t)
           \/ ResumeUndoRead(t) \/ DeleteConfig(t) \/ DeleteDns(t)
  BY <1>1, <1>7, OtherTravels
<1> QED BY <1>2, <1>3, <1>4, <1>5, <1>6, <1>7
        DEF TaskStep, Provision, Undo, SuspendResume, Deprovision

LEMMA NextKeepsOwn ==
    ASSUME Shape, OwnRows, OwnTasks, [Next]_vars
    PROVE  OwnRows' /\ OwnTasks'
<1>1. Local BY DEF Shape, TypeOK, Local
<1>2. CASE \E t \in Task : (Request(t) \/ TaskStep(t)) /\ UNCHANGED <<stream, lsn>>
  BY <1>1, <1>2, TaskKeepsOwn
<1>3. CASE OwnersKept /\ UNCHANGED saved
           /\ (UNCHANGED task \/ task' = [t \in Task |-> Idle])
  <2>1. RowIdsTravel BY <1>3 DEF RowIdsTravel
  <2>2. TaskIdsTravel BY <1>3 DEF TaskIdsTravel, Idle
  <2> QED BY <1>3, <2>1, <2>2, TravelKeepsOwn
<1>4. CASE ListenerStep /\ UNCHANGED task
  <2>1. UNCHANGED <<saved, cstate, owner>>
    BY <1>4 DEF ListenerStep, RecoveryPass, Recover, RecoverCheck, RecoverFails,
       RecoverRecheck, RecoverDone, Subscribe, TakeEvent, ListenerCommit,
       ListenerCommitFails, StreamLost, platformVars, rows, zone, docker
  <2> QED BY <1>3, <1>4, <2>1 DEF OwnersKept
<1>5. CASE DockerStep /\ UNCHANGED <<lsn, task>>
  <2>1. PICK c \in Container : HealthPass(c) \/ Unhealthy(c) \/ Crash(c)
                            \/ LeftReports(c) \/ Vanish(c)
    BY <1>5 DEF DockerStep
  <2>2. OwnersKept
    BY <1>1, <2>1 DEF HealthPass, Unhealthy, Crash, LeftReports, Vanish, Up, OwnersKept, Local,
       PlatformTypeOK
  <2>3. UNCHANGED saved BY <2>1 DEF HealthPass, Unhealthy, Crash, LeftReports, Vanish, rows
  <2> QED BY <1>3, <1>5, <2>2, <2>3
<1>6. CASE (StreamFails \/ StreamEnds) /\ UNCHANGED <<lsn, task>>
  BY <1>3, <1>6, OwnersUnchanged DEF StreamFails, StreamEnds, rows
<1>7. CASE Restart BY <1>3, <1>7 DEF Restart, rows, OwnersKept
<1>8. CASE UNCHANGED vars
  BY <1>3, <1>8, OwnersUnchanged DEF vars, platformVars, rows, zone
<1> QED BY <1>2, <1>4, <1>5, <1>6, <1>7, <1>8 DEF Next

\* Suspending, resuming or deleting a server never touches another server's
\* containers, whatever is interleaved, fails or restarts.
THEOREM Ownership == Spec => []ContainersAreOwn
<1>1. Init => OwnRows /\ OwnTasks
  BY DEF Init, PlatformInit, TasksInit, Idle, OwnRows, OwnTasks
<1>2. Shape /\ OwnRows /\ OwnTasks /\ [Next]_vars => OwnRows' /\ OwnTasks'
  BY NextKeepsOwn
<1>3. OwnRows /\ OwnTasks => ContainersAreOwn BY OwnMeaning
<1> QED BY <1>1, <1>2, <1>3, ShapeAlways, PTL DEF Spec
=============================================================================
