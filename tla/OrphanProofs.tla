----------------------------- MODULE OrphanProofs -----------------------------
(***************************************************************************)
(* Nothing is created that cannot be found again: the theorems behind      *)
(* NoOrphanDns and NoOrphanContainer, for every value of the constants     *)
(* that leaves out the failures under which the code does lose track.      *)
(***************************************************************************)
EXTENDS ProvisioningProofs

(* A step of a task is its own: what the other tasks hold stays.           *)
OthersKept(t) == \A u \in Task \ {t} : task'[u] = task[u]

LEMMA MovesAlone ==
    ASSUME Local, NEW t \in Task,
           \/ \E pc \in Pc : Goto(t, pc)
           \/ Finish(t)
           \/ \E cid, rec : Rollback(t, cid, rec)
           \/ \E pc \in Pc : Started(t, pc)
           \/ task' = [task EXCEPT ![t].pc = "save_dns", ![t].rec = TRUE]
           \/ \E s \in Server, pc \in Pc : Begin(t, s, pc)
           \/ \E s \in Server : task' = [task EXCEPT ![t] =
                                    [Idle EXCEPT !.pc = "create_config", !.srv = s]]
    PROVE  OthersKept(t)
BY DEF Goto, Finish, Rollback, Started, Begin, OthersKept, Local, TasksTypeOK

LEMMA RequestAlone ==
    ASSUME Local, NEW t \in Task, Request(t)
    PROVE  OthersKept(t)
BY PcMembers, MovesAlone DEF Request, Create, Update, Suspend, Resume, Delete

LEMMA StepAlone ==
    ASSUME Local, NEW t \in Task, TaskStep(t)
    PROVE  OthersKept(t)
<1>1. CASE Provision(t)
  BY <1>1, PcMembers, MovesAlone DEF Provision, CreateConfig, CreateError,
     CreateARecord, SaveDns, StartContainers, SaveIds, CommitStatus
<1>2. CASE Undo(t)
  BY <1>2, PcMembers, MovesAlone DEF Undo, UndoStop, UndoRemove, UndoDns,
     UndoConfig, UndoRead, UndoCommit, CommitStatus
<1>3. CASE UpdateConfig(t) BY <1>3, MovesAlone DEF UpdateConfig
<1>4. CASE SuspendResume(t)
  BY <1>4, PcMembers, MovesAlone DEF SuspendResume, SuspendCommit, SuspendStop,
     ResumeCommit, ResumeStart, ResumeHealth, ResumeCreate, ResumeSave,
     ResumeUndoRead, ResumeUndoCommit, CommitStatus
<1>5. CASE Deprovision(t)
  BY <1>5, PcMembers, MovesAlone DEF Deprovision, DeleteCommit, DeleteConfig,
     DeleteStop, DeleteRemove, DeleteDns, DropDns, CommitStatus
<1> QED BY <1>1, <1>2, <1>3, <1>4, <1>5 DEF TaskStep

LEMMA GotoGives ==
    ASSUME Local, NEW t \in Task, NEW pc \in Pc \ {"idle"}, Goto(t, pc)
    PROVE  /\ task'[t].pc = pc
           /\ task'[t].srv = task[t].srv
           /\ task'[t].cid = task[t].cid
<1>1. task[t] \in TaskState BY DEF Local, TasksTypeOK
<1>2. task'[t] = [task[t] EXCEPT !.pc = pc, !.seen = None]
  BY DEF Goto, Local, TasksTypeOK
<1> QED BY <1>1, <1>2 DEF TaskState

LEMMA RollbackGives ==
    ASSUME Local, NEW t \in Task, NEW cid, NEW rec \in BOOLEAN, Rollback(t, cid, rec)
    PROVE  /\ task'[t].pc = IF cid # None THEN "undo_stop"
                            ELSE IF rec THEN "undo_dns" ELSE "undo_config"
           /\ task'[t].srv = task[t].srv
           /\ task'[t].cid = task[t].cid
<1> DEFINE pc == IF cid # None THEN "undo_stop" ELSE IF rec THEN "undo_dns" ELSE "undo_config"
<1>1. task[t] \in TaskState BY DEF Local, TasksTypeOK
<1>2. task'[t] = [task[t] EXCEPT !.rec = rec, !.pc = pc]
  BY DEF Rollback, Local, TasksTypeOK
<1> HIDE DEF pc
<1>3. task'[t].pc = pc /\ task'[t].srv = task[t].srv /\ task'[t].cid = task[t].cid
  BY <1>1, <1>2 DEF TaskState
<1> QED BY <1>3 DEF pc

-----------------------------------------------------------------------------
(* DNS records.                                                            *)

DnsHolding == {"save_dns", "undo_stop", "undo_remove", "undo_dns"}
DnsHeld(t, s) == task[t].srv = s /\ task[t].pc \in DnsHolding

LEMMA DnsMeaning ==
    NoOrphanDns <=> \A s \in dns : s \in dnsSaved \/ \E t \in Task : DnsHeld(t, s)
BY DEF NoOrphanDns, DnsHeld, DnsHolding

\* A step keeps the records found when it makes no new one and its task does
\* not let go of one before it is saved or gone.
LEMMA DnsStepKeeps ==
    ASSUME NoOrphanDns, NEW t \in Task, OthersKept(t),
           dnsSaved \subseteq dnsSaved',
           \A s \in dns' : \/ s \in dns /\ ~DnsHeld(t, s)
                           \/ s \in dnsSaved'
                           \/ DnsHeld(t, s)'
    PROVE  NoOrphanDns'
<1>1. SUFFICES ASSUME NEW s \in dns'
               PROVE  s \in dnsSaved' \/ \E u \in Task : DnsHeld(u, s)'
  BY DEF NoOrphanDns, DnsHeld, DnsHolding
<1>2. CASE s \in dns /\ ~DnsHeld(t, s)
  <2>1. s \in dnsSaved \/ \E u \in Task \ {t} : DnsHeld(u, s) BY <1>2, DnsMeaning
  <2> QED BY <2>1 DEF OthersKept, DnsHeld
<1> QED BY <1>1, <1>2

\* The steps that have no record in hand.
LEMMA DnsFree ==
    ASSUME Local, NEW t \in Task, Request(t) \/ TaskStep(t),
           task[t].pc \notin DnsHolding \cup {"create_a_record"}
    PROVE  dns' \subseteq dns /\ UNCHANGED dnsSaved
<1>1. CASE Request(t)
  BY <1>1 DEF Request, Create, Update, Suspend, Resume, Delete, platformVars, rows, zone
<1>2. CASE Provision(t)
  BY <1>2 DEF Provision, CreateConfig, CreateError, CreateARecord, SaveDns,
     StartContainers, SaveIds, DnsHolding, At, rows, zone
<1>3. CASE Undo(t)
  BY <1>3 DEF Undo, UndoStop, UndoRemove, UndoDns, UndoConfig, UndoRead,
     UndoCommit, DnsHolding, At, rows, zone
<1>4. CASE UpdateConfig(t) BY <1>4 DEF UpdateConfig, rows, zone
<1>5. CASE SuspendResume(t)
  BY <1>5 DEF SuspendResume, SuspendCommit, SuspendStop, ResumeCommit,
     ResumeStart, ResumeHealth, ResumeCreate, ResumeSave, ResumeUndoRead,
     ResumeUndoCommit, rows, zone
<1>6. CASE Deprovision(t)
  BY <1>6 DEF Deprovision, DeleteCommit, DeleteConfig, DeleteStop, DeleteRemove,
     DeleteDns, rows, zone
<1> QED BY <1>1, <1>2, <1>3, <1>4, <1>5, <1>6 DEF TaskStep

LEMMA TaskKeepsDns ==
    ASSUME "delete_record" \notin Faults,
           Local, NoOrphanDns, NEW t \in Task, Request(t) \/ TaskStep(t)
    PROVE  NoOrphanDns'
<1>1. OthersKept(t) BY RequestAlone, StepAlone
<1>2. CASE task[t].pc \notin DnsHolding \cup {"create_a_record"}
  BY <1>1, <1>2, DnsFree, DnsStepKeeps DEF DnsHeld
<1>3. CASE CreateARecord(t)
  <2>1. CASE /\ dns' = dns \cup {task[t].srv}
             /\ task' = [task EXCEPT ![t].pc = "save_dns", ![t].rec = TRUE]
    <3>1. task[t] \in TaskState BY DEF Local, TasksTypeOK
    <3>2. task'[t].pc = "save_dns" /\ task'[t].srv = task[t].srv
      BY <2>1, <3>1 DEF Local, TasksTypeOK, TaskState
    <3>3. task[t].pc \notin DnsHolding BY <1>3 DEF CreateARecord, At, DnsHolding
    <3> QED BY <1>1, <1>3, <2>1, <3>2, <3>3, DnsStepKeeps
            DEF CreateARecord, DnsHeld, DnsHolding, rows, zone
  <2>2. CASE UNCHANGED dns
    BY <1>1, <1>3, <2>2, DnsStepKeeps DEF CreateARecord, At, DnsHeld, DnsHolding, rows, zone
  <2> QED BY <1>3, <2>1, <2>2 DEF CreateARecord
<1>4. CASE SaveDns(t)
  <2>1. CASE dnsSaved' = dnsSaved \cup {task[t].srv}
    BY <1>1, <1>4, <2>1, DnsStepKeeps DEF SaveDns, DnsHeld, zone
  <2>2. CASE Rollback(t, None, TRUE) /\ UNCHANGED dnsSaved
    <3>1. task'[t].pc = "undo_dns" /\ task'[t].srv = task[t].srv
      BY <2>2, RollbackGives
    <3> QED BY <1>1, <1>4, <2>2, <3>1, DnsStepKeeps DEF SaveDns, DnsHeld, DnsHolding, zone
  <2> QED BY <1>4, <2>1, <2>2 DEF SaveDns
<1>5. CASE UndoStop(t) \/ UndoRemove(t)
  <2>1. \E pc \in {"undo_remove", "undo_dns"} : Goto(t, pc)
    BY <1>5 DEF UndoStop, UndoRemove
  <2>2. task'[t].pc \in DnsHolding /\ task'[t].srv = task[t].srv
    BY <2>1, PcMembers, GotoGives DEF DnsHolding
  <2> QED BY <1>1, <1>5, <2>2, DnsStepKeeps DEF UndoStop, UndoRemove, DnsHeld, rows, zone
<1>6. CASE UndoDns(t)
  BY <1>1, <1>6, DnsStepKeeps DEF UndoDns, DnsHeld, rows, zone
<1>7. ~Request(t) \/ task[t].pc = "idle"
  BY DEF Request, Create, Update, Suspend, Resume, Delete, At
<1>8. CASE task[t].pc \in DnsHolding \cup {"create_a_record"}
  <2>1. TaskStep(t) BY <1>7, <1>8 DEF DnsHolding
  <2>2. Provision(t) \/ Undo(t)
    BY <1>8, <2>1 DEF TaskStep, DnsHolding, UpdateConfig, SuspendResume,
       SuspendCommit, SuspendStop, ResumeCommit, ResumeStart, ResumeHealth,
       ResumeCreate, ResumeSave, ResumeUndoRead, ResumeUndoCommit, Deprovision,
       DeleteCommit, DeleteConfig, DeleteStop, DeleteRemove, DeleteDns, At
  <2>3. CreateARecord(t) \/ SaveDns(t) \/ UndoStop(t) \/ UndoRemove(t) \/ UndoDns(t)
    BY <1>8, <2>2 DEF DnsHolding, Provision, CreateConfig, CreateError,
       StartContainers, SaveIds, Undo, UndoConfig, UndoRead, UndoCommit, At
  <2> QED BY <1>3, <1>4, <1>5, <1>6, <2>3
<1> QED BY <1>2, <1>8

LEMMA NextKeepsDns ==
    ASSUME "delete_record" \notin Faults, ~Restarts,
           Shape, NoOrphanDns, [Next]_vars
    PROVE  NoOrphanDns'
<1>1. Local BY DEF Shape, TypeOK, Local
<1>2. CASE \E t \in Task : (Request(t) \/ TaskStep(t)) /\ UNCHANGED <<stream, lsn>>
  BY <1>1, <1>2, TaskKeepsDns
<1>3. CASE UNCHANGED <<dns, dnsSaved, task>> BY <1>3 DEF NoOrphanDns
<1>4. CASE ListenerStep /\ UNCHANGED task
  BY <1>3, <1>4 DEF ListenerStep, RecoveryPass, Recover, RecoverCheck,
     RecoverFails, RecoverRecheck, RecoverDone, Subscribe, TakeEvent,
     ListenerCommit, ListenerCommitFails, StreamLost, platformVars, rows, zone
<1>5. CASE (DockerStep \/ StreamFails \/ StreamEnds) /\ UNCHANGED <<lsn, task>>
  BY <1>3, <1>5 DEF DockerStep, HealthPass, Unhealthy, Crash, LeftReports, Vanish, StreamFails,
     StreamEnds, rows, zone
<1>6. CASE UNCHANGED vars BY <1>3, <1>6 DEF vars, platformVars, rows, zone
<1>7. ~Restart BY DEF Restart
<1> QED BY <1>2, <1>4, <1>5, <1>6, <1>7 DEF Next

\* A record whose creation was answered is in a row, or in the hands of the task
\* that rolls it back, whatever else fails before its id is committed, as long
\* as Cloudflare takes the delete and the process does not die.  (A record whose
\* creation got no answer is in "lost": its id was never known to anybody.)
THEOREM DnsFindable ==
    ASSUME "delete_record" \notin Faults, ~Restarts
    PROVE  Spec => []NoOrphanDns
<1>1. Init => NoOrphanDns BY DEF Init, PlatformInit, NoOrphanDns
<1>2. Shape /\ NoOrphanDns /\ [Next]_vars => NoOrphanDns' BY NextKeepsDns
<1> QED BY <1>1, <1>2, ShapeAlways, PTL DEF Spec

-----------------------------------------------------------------------------
(***************************************************************************)
(* Containers.  NoOrphanContainer is not inductive: saving an id must not  *)
(* overwrite the only reference to another container, and a rollback must  *)
(* remove what it stopped.  Both need that nobody else knows an id before  *)
(* it is saved.                                                            *)
(***************************************************************************)
Exclusive ==
    \A t \in Task : task[t].pc \in Holding =>
       /\ \A s \in Server : saved[s] # task[t].cid
       /\ \A u \in Task \ {t} : task[u].cid # task[t].cid

HeldState ==
    \A t \in Task :
       /\ task[t].pc \in {"save_ids", "resume_save"} => cstate[task[t].cid] # "absent"
       /\ task[t].pc = "undo_remove" => ~Up(task[t].cid)

OneUnitPerSubdomain ==
    \A b, c \in Container :
       /\ cstate[b] # "absent" /\ cstate[c] # "absent"
       /\ SubOf[owner[b]] = SubOf[owner[c]]
       => b = c

ContainerHeld(t, c) ==
    task[t].cid = c /\ task[t].srv = owner[c] /\ task[t].pc \in Holding

Findable == Exclusive /\ HeldState /\ OneUnitPerSubdomain /\ NoOrphanContainer

NoTrackLost ==
    /\ Faults \cap {"stop_containers", "save_resumed_ids", "vanish"} = {}
    /\ ~Restarts

MadeKept == \A c \in Container : Made(c)' => Made(c)

LEMMA ContainerMovesKeepMade ==
    ASSUME DockerTypeOK, NEW c \in Container,
           StopContainer(c) \/ StartContainer(c) \/ RemoveContainer(c) \/ UNCHANGED docker
    PROVE  MadeKept
<1>1. CASE StopContainer(c)
  BY <1>1 DEF StopContainer, Up, Made, MadeKept, DockerTypeOK
<1>2. CASE StartContainer(c) BY <1>2 DEF StartContainer, Made, MadeKept, DockerTypeOK
<1>3. CASE RemoveContainer(c) BY <1>3 DEF RemoveContainer, Made, MadeKept, DockerTypeOK
<1>4. CASE UNCHANGED docker BY <1>4 DEF docker, Made, MadeKept
<1> QED BY <1>1, <1>2, <1>3, <1>4

LEMMA HoldingCid ==
    ASSUME Local, NEW t \in Task, task[t].pc \in Holding
    PROVE  task[t].cid \in Container /\ task[t].cid # None
BY NoneAssumption DEF Local, TaskShape, Holding, WithContainers

LEMMA OwnersKeptUnits ==
    ASSUME OneUnitPerSubdomain, OwnersKept
    PROVE  OneUnitPerSubdomain'
BY DEF OneUnitPerSubdomain, OwnersKept

\* A task that holds nothing after its step, of what is still there, and that
\* changes no container but the one whose id it has, disturbs nobody.
LEMMA EmptyHanded ==
    ASSUME Local, Findable, NEW t \in Task, OthersKept(t), TaskIdsTravel,
           OwnersKept, MadeKept, UNCHANGED saved,
           task[t].pc \in Holding => \A c \in Container : c = task[t].cid => ~Made(c)',
           task'[t].pc \notin Holding,
           \A c \in Container : cstate'[c] = cstate[c] \/ c = task[t].cid
    PROVE  Findable'
<1>1. OneUnitPerSubdomain' BY OwnersKeptUnits DEF Findable
<1>2. ASSUME NEW u \in Task, task'[u].pc \in Holding
      PROVE  u # t /\ task'[u] = task[u] /\ task[u].cid \in Container
             /\ cstate'[task[u].cid] = cstate[task[u].cid]
  <2>1. u # t /\ task'[u] = task[u] BY <1>2 DEF OthersKept
  <2>2. task[u].cid \in Container BY <1>2, <2>1, HoldingCid
  <2>3. task[t].cid # task[u].cid BY <1>2, <2>1 DEF Findable, Exclusive
  <2> QED BY <2>1, <2>2, <2>3
<1>3. Exclusive'
  <2>1. SUFFICES ASSUME NEW u \in Task, task'[u].pc \in Holding
                 PROVE  /\ \A s \in Server : saved'[s] # task'[u].cid
                        /\ \A v \in Task \ {u} : task'[v].cid # task'[u].cid
    BY DEF Exclusive
  <2>2. /\ \A s \in Server : saved[s] # task[u].cid
        /\ \A v \in Task \ {u} : task[v].cid # task[u].cid
    BY <1>2, <2>1 DEF Findable, Exclusive
  <2>3. task[u].cid # None BY <1>2, <2>1, HoldingCid
  <2>4. task'[t].cid # task[u].cid
    BY <1>2, <2>1, <2>2, <2>3 DEF TaskIdsTravel
  <2>5. \A v \in Task \ {t} : task'[v] = task[v] BY DEF OthersKept
  <2> QED BY <1>2, <2>1, <2>2, <2>4, <2>5
<1>4. HeldState' BY <1>2 DEF Findable, HeldState, Holding, Up
<1>5. NoOrphanContainer'
  <2>1. SUFFICES ASSUME NEW c \in Container, Made(c)'
                 PROVE  \/ saved'[owner'[c]] = c
                        \/ \E u \in Task : ContainerHeld(u, c)'
    BY DEF NoOrphanContainer, ContainerHeld
  <2>2. Made(c) /\ owner'[c] = owner[c] BY <2>1 DEF OwnersKept, MadeKept, Made
  <2>3. saved[owner[c]] = c \/ \E u \in Task \ {t} : ContainerHeld(u, c)
    <3>1. saved[owner[c]] = c \/ \E u \in Task : ContainerHeld(u, c)
      BY <2>2 DEF Findable, NoOrphanContainer, ContainerHeld
    <3>2. ContainerHeld(t, c) => ~Made(c)' BY DEF ContainerHeld
    <3> QED BY <2>1, <3>1, <3>2
  <2> QED BY <2>2, <2>3 DEF ContainerHeld, OthersKept
<1> QED BY <1>1, <1>3, <1>4, <1>5 DEF Findable

\* What a failed start leaves holds a name that was free, and is nobody's.
LEMMA StartFailFindable ==
    ASSUME Local, Findable, NEW t \in Task, StartFails(t), OthersKept(t), TaskIdsTravel,
           UNCHANGED saved, task[t].pc \notin Holding, task'[t].pc \notin Holding
    PROVE  Findable'
<1>1. CASE UNCHANGED <<cstate, owner>>
  BY <1>1, EmptyHanded DEF OwnersKept, MadeKept, Made
<1>2. ASSUME NEW c \in Container \ InUse, LeaveContainer(c, task[t].srv),
             ~NameTaken(task[t].srv)
      PROVE  Findable'
  <2>1. /\ \A s \in Server : saved[s] # c
        /\ \A u \in Task : task[u].cid # c
    BY DEF InUse
  <2>2. /\ \A d \in Container \ {c} : cstate'[d] = cstate[d] /\ owner'[d] = owner[d]
        /\ cstate'[c] = "left" /\ owner'[c] = task[t].srv
        /\ \A d \in Container : cstate[d] # "absent" => SubOf[owner[d]] # SubOf[task[t].srv]
    BY <1>2 DEF LeaveContainer, NameTaken, Local, PlatformTypeOK
  <2>3. \A u \in Task : task'[u].pc \in Holding => u # t /\ task'[u] = task[u]
    BY DEF OthersKept
  <2>4. Exclusive'
    <3>1. SUFFICES ASSUME NEW u \in Task, task'[u].pc \in Holding
                   PROVE  /\ \A s \in Server : saved'[s] # task'[u].cid
                          /\ \A v \in Task \ {u} : task'[v].cid # task'[u].cid
      BY DEF Exclusive
    <3>2. u # t /\ task'[u] = task[u] BY <2>3, <3>1
    <3>3. /\ \A s \in Server : saved[s] # task[u].cid
          /\ \A v \in Task \ {u} : task[v].cid # task[u].cid
      BY <3>1, <3>2 DEF Findable, Exclusive
    <3>4. task[u].cid # None BY <3>1, <3>2, HoldingCid
    <3>5. task'[t].cid # task[u].cid BY <3>2, <3>3, <3>4 DEF TaskIdsTravel
    <3> QED BY <3>2, <3>3, <3>5 DEF OthersKept
  <2>5. HeldState'
    <3>1. ASSUME NEW u \in Task, task'[u].pc \in Holding
          PROVE  u # t /\ task'[u] = task[u] /\ cstate'[task[u].cid] = cstate[task[u].cid]
      BY <2>1, <2>2, <2>3, <3>1, HoldingCid
    <3> QED BY <3>1 DEF Findable, HeldState, Holding, Up
  <2>6. OneUnitPerSubdomain' BY <2>2 DEF Findable, OneUnitPerSubdomain
  <2>7. NoOrphanContainer'
    <3>1. SUFFICES ASSUME NEW d \in Container, Made(d)'
                   PROVE  saved'[owner'[d]] = d \/ \E u \in Task : ContainerHeld(u, d)'
      BY DEF NoOrphanContainer, ContainerHeld
    <3>2. d # c /\ Made(d) /\ owner'[d] = owner[d] BY <2>2, <3>1 DEF Made
    <3>3. saved[owner[d]] = d \/ \E u \in Task \ {t} : ContainerHeld(u, d)
      BY <3>2 DEF Findable, NoOrphanContainer, ContainerHeld
    <3> QED BY <3>2, <3>3 DEF ContainerHeld, OthersKept
  <2> QED BY <2>4, <2>5, <2>6, <2>7 DEF Findable
<1> QED BY <1>1, <1>2 DEF StartFails, RunUndone, docker

\* A new container gets an id nobody knows, and its name was free.
LEMMA StartFindable ==
    ASSUME Local, Findable, NEW t \in Task, task[t].pc \notin Holding,
           NEW pc \in {"save_ids", "resume_save"}, Started(t, pc), UNCHANGED saved
    PROVE  Findable'
<1>1. PICK c \in Container \ InUse :
        /\ RunContainer(c, task[t].srv)
        /\ task' = [task EXCEPT ![t].pc = pc, ![t].cid = c]
  BY DEF Started
<1>2. /\ \A s \in Server : saved[s] # c
      /\ \A u \in Task : task[u].cid # c
  BY <1>1 DEF InUse
<1>3. /\ \A d \in Container \ {c} : cstate'[d] = cstate[d] /\ owner'[d] = owner[d]
      /\ cstate'[c] = "running" /\ owner'[c] = task[t].srv
      /\ \A d \in Container : cstate[d] # "absent" => SubOf[owner[d]] # SubOf[task[t].srv]
  BY <1>1 DEF RunContainer, NameTaken, Local, PlatformTypeOK
<1>4. /\ \A u \in Task \ {t} : task'[u] = task[u]
      /\ task'[t].cid = c /\ task'[t].srv = task[t].srv /\ task'[t].pc = pc
  BY <1>1 DEF Local, TasksTypeOK, TaskState
<1>5. Exclusive' BY <1>2, <1>4 DEF Findable, Exclusive
<1>6. HeldState'
  <2>1. ASSUME NEW u \in Task \ {t}, task[u].pc \in Holding
        PROVE  cstate'[task[u].cid] = cstate[task[u].cid]
    BY <1>2, <1>3, <2>1, HoldingCid
  <2> QED BY <1>3, <1>4, <2>1 DEF Findable, HeldState, Holding, Up
<1>7. OneUnitPerSubdomain' BY <1>3 DEF Findable, OneUnitPerSubdomain
<1>8. NoOrphanContainer'
  <2>1. ContainerHeld(t, c)' BY <1>3, <1>4 DEF ContainerHeld, Holding
  <2>2. ASSUME NEW d \in Container \ {c}, Made(d)'
        PROVE  saved'[owner'[d]] = d \/ \E u \in Task : ContainerHeld(u, d)'
    <3>1. saved[owner[d]] = d \/ \E u \in Task \ {t} : ContainerHeld(u, d)
      BY <1>3, <2>2 DEF Findable, NoOrphanContainer, ContainerHeld, Made
    <3> QED BY <1>3, <1>4, <3>1 DEF ContainerHeld
  <2> QED BY <2>1, <2>2 DEF NoOrphanContainer, ContainerHeld
<1> QED BY <1>5, <1>6, <1>7, <1>8 DEF Findable

\* The ids reach the row: the one container of the server is the one saved.
LEMMA SaveFindable ==
    ASSUME Local, Findable, OwnTasks, NEW t \in Task,
           task[t].pc \in {"save_ids", "resume_save"}, task[t].srv \in Server,
           saved' = [saved EXCEPT ![task[t].srv] = task[t].cid],
           Finish(t), UNCHANGED docker
    PROVE  Findable'
<1> DEFINE c == task[t].cid
           s == task[t].srv
<1>1. c \in Container /\ c # None /\ task[t].pc \in Holding
  BY HoldingCid DEF Holding
<1>2. cstate[c] # "absent" /\ owner[c] = s
  BY <1>1 DEF Findable, HeldState, OwnTasks
<1>3. OthersKept(t) /\ task'[t].cid = None /\ task'[t].pc = "idle"
  BY DEF Finish, Idle, OthersKept, Local, TasksTypeOK
<1>4. /\ saved'[s] = c
      /\ \A r \in Server \ {s} : saved'[r] = saved[r]
  BY DEF Local, PlatformTypeOK
<1>5. Exclusive'
  <2>1. SUFFICES ASSUME NEW u \in Task \ {t}, task[u].pc \in Holding
                 PROVE  /\ \A r \in Server : saved'[r] # task[u].cid
                        /\ \A v \in Task \ {u} : task'[v].cid # task[u].cid
    BY <1>3 DEF Exclusive, OthersKept, Holding
  <2>2. /\ \A r \in Server : saved[r] # task[u].cid
        /\ \A v \in Task \ {u} : task[v].cid # task[u].cid
    BY <2>1 DEF Findable, Exclusive
  <2>3. task[u].cid # None BY <2>1, HoldingCid
  <2>4. c # task[u].cid BY <2>1, <2>2
  <2> QED BY <1>3, <1>4, <2>2, <2>3, <2>4 DEF OthersKept
<1>6. HeldState' BY <1>3 DEF Findable, HeldState, OthersKept, docker, Up
<1>7. OneUnitPerSubdomain' BY DEF Findable, OneUnitPerSubdomain, docker
<1>8. NoOrphanContainer'
  <2>1. SUFFICES ASSUME NEW d \in Container, Made(d)
                 PROVE  saved'[owner[d]] = d \/ \E u \in Task : ContainerHeld(u, d)'
    BY DEF NoOrphanContainer, ContainerHeld, Made, docker
  <2>2. owner[d] \in Server BY <2>1 DEF Local, OwnerShape, Made
  <2>3. CASE owner[d] = s
    <3>1. d = c BY <1>1, <1>2, <2>1, <2>3 DEF Findable, OneUnitPerSubdomain, Made
    <3> QED BY <1>4, <2>3, <3>1
  <2>4. CASE owner[d] # s
    <3>1. saved[owner[d]] = d \/ \E u \in Task : ContainerHeld(u, d)
      BY <2>1 DEF Findable, NoOrphanContainer, ContainerHeld
    <3>2. ~ContainerHeld(t, d) BY <2>4 DEF ContainerHeld
    <3> QED BY <1>3, <1>4, <2>2, <2>4, <3>1, <3>2 DEF ContainerHeld, OthersKept, docker
  <2> QED BY <2>3, <2>4
<1> QED BY <1>5, <1>6, <1>7, <1>8 DEF Findable

\* A rollback that goes on holding what it is about to remove.
LEMMA HoldsOn ==
    ASSUME Local, Findable, NEW t \in Task, OthersKept(t), OwnersKept, MadeKept,
           UNCHANGED saved, task[t].pc \in Holding,
           task'[t].pc \in {"undo_stop", "undo_remove"},
           task'[t].cid = task[t].cid, task'[t].srv = task[t].srv,
           \A c \in Container : cstate'[c] = cstate[c] \/ c = task[t].cid,
           task'[t].pc = "undo_remove" => cstate'[task[t].cid] \notin {"running", "healthy"}
    PROVE  Findable'
<1>1. OneUnitPerSubdomain' BY OwnersKeptUnits DEF Findable
<1>2. \A u \in Task : /\ task'[u].cid = task[u].cid /\ task'[u].srv = task[u].srv
                      /\ task'[u].pc \in Holding <=> task[u].pc \in Holding
  BY DEF OthersKept, Holding
<1>3. Exclusive' BY <1>2 DEF Findable, Exclusive
<1>4. ASSUME NEW u \in Task \ {t}, task[u].pc \in Holding
      PROVE  cstate'[task[u].cid] = cstate[task[u].cid]
  BY <1>4, HoldingCid DEF Findable, Exclusive
<1>5. HeldState' BY <1>4 DEF Findable, HeldState, OthersKept, Holding, Up
<1>6. NoOrphanContainer'
  <2>1. SUFFICES ASSUME NEW c \in Container, Made(c)'
                 PROVE  saved[owner'[c]] = c \/ \E u \in Task : ContainerHeld(u, c)'
    BY DEF NoOrphanContainer, ContainerHeld
  <2>2. Made(c) /\ owner'[c] = owner[c] BY <2>1 DEF OwnersKept, MadeKept, Made
  <2> QED BY <1>2, <2>2 DEF Findable, NoOrphanContainer, ContainerHeld
<1> QED BY <1>1, <1>3, <1>5, <1>6 DEF Findable

\* Steps that leave rows and tasks alone, and no container is made or removed.
LEMMA Breathing ==
    ASSUME Findable, UNCHANGED <<saved, owner, task>>,
           \A c \in Container : /\ cstate'[c] = "absent" <=> cstate[c] = "absent"
                                /\ Made(c)' <=> Made(c)
                                /\ cstate'[c] \in {"running", "healthy"}
                                     <=> cstate[c] \in {"running", "healthy"},
           Local
    PROVE  Findable'
<1>1. \A t \in Task : task[t].pc \in Holding => task[t].cid \in Container
  BY HoldingCid
<1>2. HeldState' BY <1>1 DEF Findable, HeldState, Holding, Up
<1>3. Exclusive' BY DEF Findable, Exclusive
<1>4. OneUnitPerSubdomain' BY DEF Findable, OneUnitPerSubdomain
<1>5. NoOrphanContainer' BY DEF Findable, NoOrphanContainer
<1> QED BY <1>2, <1>3, <1>4, <1>5 DEF Findable

-----------------------------------------------------------------------------
(* The steps of a task, grouped by what they do to containers.             *)

\* A move to an action that holds nothing.
LEMMA MovesAway ==
    ASSUME Local, NEW t \in Task,
           \/ Finish(t)
           \/ \E pc \in Pc \ Holding : Goto(t, pc)
           \/ \E s \in Server, pc \in Pc \ Holding : Begin(t, s, pc)
           \/ \E rec \in BOOLEAN : Rollback(t, None, rec)
           \/ task' = [task EXCEPT ![t].pc = "save_dns", ![t].rec = TRUE]
           \/ \E s \in Server : task' = [task EXCEPT ![t] =
                                    [Idle EXCEPT !.pc = "create_config", !.srv = s]]
    PROVE  task'[t].pc \notin Holding
<1>1. task \in [Task -> TaskState] BY DEF Local, TasksTypeOK
<1>2. CASE Finish(t) BY <1>1, <1>2 DEF Finish, Idle, Holding
<1>3. ASSUME NEW pc \in Pc \ Holding, Goto(t, pc) PROVE task'[t].pc \notin Holding
  BY <1>2, <1>3, GotoGives DEF Goto
<1>4. ASSUME NEW s \in Server, NEW pc \in Pc \ Holding, Begin(t, s, pc)
      PROVE  task'[t].pc \notin Holding
  BY <1>1, <1>4 DEF Begin
<1>5. ASSUME NEW rec \in BOOLEAN, Rollback(t, None, rec) PROVE task'[t].pc \notin Holding
  BY <1>5, RollbackGives DEF Holding
<1>6. CASE task' = [task EXCEPT ![t].pc = "save_dns", ![t].rec = TRUE]
  BY <1>1, <1>6 DEF TaskState, Holding
<1>7. CASE \E s \in Server : task' = [task EXCEPT ![t] =
                                    [Idle EXCEPT !.pc = "create_config", !.srv = s]]
  BY <1>1, <1>7 DEF Idle, Holding
<1> QED BY <1>2, <1>3, <1>4, <1>5, <1>6, <1>7

LEMMA FreePcMembers ==
    {"idle", "create_config", "create_error", "update_config", "suspend_commit",
     "suspend_stop", "create_a_record", "save_dns", "start_containers",
     "undo_dns", "undo_config", "undo_read", "undo_commit", "resume_commit",
     "resume_start", "resume_health", "resume_create", "resume_undo_read",
     "resume_undo_commit", "delete_commit", "delete_config", "delete_stop",
     "delete_remove", "delete_dns"} \subseteq Pc \ Holding
BY PcMembers DEF Holding

\* Requests and the steps that leave Docker alone.
LEMMA BystandersFindable ==
    ASSUME Local, Findable, NEW t \in Task,
           \/ Request(t)
           \/ CreateError(t) \/ UndoCommit(t) \/ SuspendCommit(t)
           \/ ResumeCommit(t) \/ ResumeUndoCommit(t) \/ DeleteCommit(t)
           \/ CreateConfig(t) \/ CreateARecord(t) \/ SaveDns(t) \/ UndoDns(t)
           \/ UndoConfig(t) \/ UndoRead(t) \/ UpdateConfig(t) \/ ResumeHealth(t)
           \/ ResumeUndoRead(t) \/ DeleteConfig(t) \/ DeleteDns(t)
    PROVE  Findable'
<1>1. OthersKept(t)
  BY RequestAlone, StepAlone DEF TaskStep, Provision, Undo, SuspendResume, Deprovision
<1>2. TaskIdsTravel /\ UNCHANGED <<saved, docker>>
  BY RequestTravels, CommitTravels, OtherTravels
<1>3. task[t].pc \notin Holding
  BY DEF Holding, At, Request, Create, Update, Suspend, Resume, Delete,
     CreateError, UndoCommit, SuspendCommit, ResumeCommit, ResumeUndoCommit,
     DeleteCommit, CreateConfig, CreateARecord, SaveDns, UndoDns, UndoConfig,
     UndoRead, UpdateConfig, ResumeHealth, ResumeUndoRead, DeleteConfig, DeleteDns
<1>4. task'[t].pc \notin Holding
  <2>1. CASE Request(t)
    BY <2>1, FreePcMembers, MovesAway
       DEF Request, Create, Update, Suspend, Resume, Delete
  <2>2. CASE \/ CreateError(t) \/ UndoCommit(t) \/ SuspendCommit(t)
             \/ ResumeCommit(t) \/ ResumeUndoCommit(t) \/ DeleteCommit(t)
    BY <2>2, FreePcMembers, MovesAway
       DEF CreateError, UndoCommit, SuspendCommit, ResumeCommit,
           ResumeUndoCommit, DeleteCommit, CommitStatus
  <2>3. CASE \/ CreateConfig(t) \/ CreateARecord(t) \/ SaveDns(t) \/ UndoDns(t)
             \/ UndoConfig(t) \/ UndoRead(t) \/ UpdateConfig(t)
    BY <2>3, FreePcMembers, MovesAway
       DEF CreateConfig, CreateARecord, SaveDns, UndoDns, UndoConfig, UndoRead,
           UpdateConfig
  <2>4. CASE ResumeHealth(t) \/ ResumeUndoRead(t) \/ DeleteConfig(t) \/ DeleteDns(t)
    BY <2>4, FreePcMembers, MovesAway
       DEF ResumeHealth, ResumeUndoRead, DeleteConfig, DeleteDns, DropDns
  <2> QED BY <2>1, <2>2, <2>3, <2>4
<1> QED BY <1>1, <1>2, <1>3, <1>4, OwnersUnchanged, EmptyHanded DEF docker, MadeKept, Made

\* A container that a handler reads from its row is stopped, started or removed.
LEMMA RowContainersFindable ==
    ASSUME Local, Findable, NEW t \in Task,
           SuspendStop(t) \/ ResumeStart(t) \/ DeleteStop(t) \/ DeleteRemove(t)
    PROVE  Findable'
<1>1. OthersKept(t) BY StepAlone DEF TaskStep, SuspendResume, Deprovision
<1>2. TaskIdsTravel /\ OwnersKept /\ UNCHANGED saved BY ContainerTravels
<1>3. task[t].pc \notin Holding
  BY DEF Holding, At, SuspendStop, ResumeStart, DeleteStop, DeleteRemove
<1>4. task'[t].pc \notin Holding
  BY FreePcMembers, MovesAway
     DEF SuspendStop, ResumeStart, DeleteStop, DeleteRemove, DropDns
<1>5. \A c \in Container : cstate'[c] = cstate[c] \/ c = task[t].cid
  BY DEF SuspendStop, ResumeStart, DeleteStop, DeleteRemove, StopRaises, StopContainer,
     StartContainer, RemoveContainer, docker, zone, Local, PlatformTypeOK
<1>6. MadeKept
  <2>1. task[t].cid \in Container
    BY AtServer DEF At, SuspendStop, ResumeStart, DeleteStop, DeleteRemove, WithContainers
  <2> QED BY <2>1, ContainerMovesKeepMade
          DEF SuspendStop, ResumeStart, DeleteStop, DeleteRemove, StopRaises, Local,
              PlatformTypeOK, DockerTypeOK
<1> QED BY <1>1, <1>2, <1>3, <1>4, <1>5, <1>6, EmptyHanded

LEMMA UndoFindable ==
    ASSUME NoTrackLost, Local, Findable, NEW t \in Task, UndoStop(t) \/ UndoRemove(t)
    PROVE  Findable'
<1>1. OthersKept(t) BY StepAlone DEF TaskStep, Undo
<1>2. TaskIdsTravel /\ OwnersKept /\ UNCHANGED saved BY ContainerTravels
<1>3. task[t].pc \in Holding BY DEF Holding, At, UndoStop, UndoRemove
<1>4. task[t].cid \in Container BY <1>3, HoldingCid
<1>5. CASE UndoStop(t)
  <2>1. StopContainer(task[t].cid) /\ Goto(t, "undo_remove")
    BY <1>5 DEF UndoStop, StopRaises, NoTrackLost
  <2>2. /\ task'[t].pc = "undo_remove"
        /\ task'[t].cid = task[t].cid /\ task'[t].srv = task[t].srv
    BY <2>1, PcMembers, GotoGives
  <2>3. /\ \A c \in Container : cstate'[c] = cstate[c] \/ c = task[t].cid
        /\ cstate'[task[t].cid] \notin {"running", "healthy"}
    BY <1>4, <2>1 DEF StopContainer, Up, Local, PlatformTypeOK
  <2>4. MadeKept
    BY <1>4, <2>1, ContainerMovesKeepMade DEF Local, PlatformTypeOK, DockerTypeOK
  <2> QED BY <1>1, <1>2, <1>3, <2>2, <2>3, <2>4, HoldsOn
<1>6. CASE UndoRemove(t)
  <2>1. RemoveContainer(task[t].cid) /\ Goto(t, "undo_dns") BY <1>6 DEF UndoRemove
  <2>2. cstate[task[t].cid] \notin {"running", "healthy"}
    BY <1>4, <1>6 DEF UndoRemove, At, Findable, HeldState, Up
  <2>3. /\ \A c \in Container : cstate'[c] = cstate[c] \/ c = task[t].cid
        /\ \A c \in Container : c = task[t].cid => ~Made(c)'
    BY <1>4, <2>1, <2>2 DEF RemoveContainer, Made, Local, PlatformTypeOK
  <2>5. MadeKept
    BY <1>4, <2>1, ContainerMovesKeepMade DEF Local, PlatformTypeOK, DockerTypeOK
  <2>4. task'[t].pc \notin Holding BY <2>1, FreePcMembers, MovesAway
  <2> QED BY <1>1, <1>2, <2>3, <2>4, <2>5, EmptyHanded
<1> QED BY <1>5, <1>6

LEMMA StartsFindable ==
    ASSUME Local, Findable, NEW t \in Task, StartContainers(t) \/ ResumeCreate(t)
    PROVE  Findable'
<1>1. UNCHANGED saved BY DEF StartContainers, ResumeCreate, rows
<1>2. task[t].pc \notin Holding BY DEF Holding, At, StartContainers, ResumeCreate
<1>3. CASE Started(t, "save_ids") \/ Started(t, "resume_save")
  BY <1>1, <1>2, <1>3, StartFindable
<1>4. CASE /\ StartFails(t) \/ UNCHANGED docker
           /\ Rollback(t, None, TRUE) \/ Goto(t, "resume_undo_read")
  <2>1. OthersKept(t) /\ TaskIdsTravel BY <1>4, PcMembers, MovesAlone, MovesTravel
  <2>2. task'[t].pc \notin Holding BY <1>4, FreePcMembers, MovesAway
  <2>3. CASE UNCHANGED docker
    BY <1>1, <1>2, <2>1, <2>2, <2>3, OwnersUnchanged, EmptyHanded DEF docker, MadeKept, Made
  <2> QED BY <1>1, <1>2, <1>4, <2>1, <2>2, <2>3, StartFailFindable
<1> QED BY <1>3, <1>4 DEF StartContainers, ResumeCreate

LEMMA SavesFindable ==
    ASSUME NoTrackLost, Local, Findable, OwnTasks, NEW t \in Task,
           SaveIds(t) \/ ResumeSave(t)
    PROVE  Findable'
<1>1. task[t].srv \in Server /\ task[t].pc \in {"save_ids", "resume_save"}
      /\ UNCHANGED docker
  BY AtServer DEF At, SaveIds, ResumeSave
<1>2. CASE saved' = [saved EXCEPT ![task[t].srv] = task[t].cid] /\ Finish(t)
  BY <1>1, <1>2, SaveFindable
<1>3. CASE UNCHANGED saved /\ Rollback(t, task[t].cid, TRUE)
  <2>1. task[t].pc \in Holding /\ task[t].cid # None BY <1>1, HoldingCid DEF Holding
  <2>2. /\ task'[t].pc = "undo_stop"
        /\ task'[t].cid = task[t].cid /\ task'[t].srv = task[t].srv
    BY <1>3, <2>1, RollbackGives
  <2>3. OthersKept(t) BY <1>3, MovesAlone
  <2> QED BY <1>1, <1>3, <2>1, <2>2, <2>3, OwnersUnchanged, HoldsOn DEF docker, MadeKept, Made
<1> QED BY <1>2, <1>3 DEF SaveIds, ResumeSave, NoTrackLost

LEMMA NextFindable ==
    ASSUME NoTrackLost, Shape, OwnTasks, Findable, [Next]_vars
    PROVE  Findable'
<1>1. Local BY DEF Shape, TypeOK, Local
<1>2. CASE \E t \in Task : (Request(t) \/ TaskStep(t)) /\ UNCHANGED <<stream, lsn>>
  BY <1>1, <1>2, BystandersFindable, RowContainersFindable, UndoFindable,
     StartsFindable, SavesFindable
     DEF TaskStep, Provision, Undo, SuspendResume, Deprovision
<1>3. CASE UNCHANGED <<saved, cstate, owner, task>> BY <1>1, <1>3, Breathing DEF Made
<1>4. CASE ListenerStep /\ UNCHANGED task
  BY <1>3, <1>4 DEF ListenerStep, RecoveryPass, Recover, RecoverCheck,
     RecoverFails, RecoverRecheck, RecoverDone, Subscribe, TakeEvent,
     ListenerCommit, ListenerCommitFails, StreamLost, platformVars, rows, zone, docker
<1>5. CASE DockerStep /\ UNCHANGED <<lsn, task>>
  <2>1. PICK c \in Container : HealthPass(c) \/ Unhealthy(c) \/ Crash(c) \/ LeftReports(c)
    BY <1>5 DEF DockerStep, Vanish, NoTrackLost
  <2>2. UNCHANGED <<saved, owner>> BY <2>1 DEF HealthPass, Unhealthy, Crash, LeftReports, rows
  <2>3. \A d \in Container :
           /\ cstate'[d] = "absent" <=> cstate[d] = "absent"
           /\ Made(d)' <=> Made(d)
           /\ cstate'[d] \in {"running", "healthy"} <=> cstate[d] \in {"running", "healthy"}
    BY <1>1, <2>1 DEF HealthPass, Unhealthy, Crash, LeftReports, Up, Made, Local, PlatformTypeOK
  <2> QED BY <1>1, <1>5, <2>2, <2>3, Breathing
<1>6. CASE (StreamFails \/ StreamEnds) /\ UNCHANGED <<lsn, task>>
  BY <1>3, <1>6 DEF StreamFails, StreamEnds, rows, docker
<1>7. CASE UNCHANGED vars BY <1>3, <1>7 DEF vars, platformVars, rows, zone, docker
<1>8. ~Restart BY DEF Restart, NoTrackLost
<1> QED BY <1>2, <1>4, <1>5, <1>6, <1>7, <1>8 DEF Next

\* A container whose start succeeded can be found again, whatever requests are
\* interleaved and whatever else fails, as long as Docker stops what it is
\* asked to, a resume can save its ids, nobody removes containers behind the
\* API's back and the process does not die.  (What a start that failed could not
\* clean up is "left": it is not Made, and its id was never known to anybody.)
THEOREM ContainersFindable ==
    ASSUME NoTrackLost
    PROVE  Spec => []NoOrphanContainer
<1>1. Init => Findable /\ OwnRows /\ OwnTasks
  BY DEF Init, PlatformInit, TasksInit, Idle, Holding, Findable, Exclusive,
     HeldState, OneUnitPerSubdomain, NoOrphanContainer, OwnRows, OwnTasks, Made
<1>2. Shape /\ OwnRows /\ OwnTasks /\ Findable /\ [Next]_vars
        => Findable' /\ OwnRows' /\ OwnTasks'
  BY NextKeepsOwn, NextFindable
<1>3. Findable => NoOrphanContainer BY DEF Findable
<1> QED BY <1>1, <1>2, <1>3, ShapeAlways, PTL DEF Spec
=============================================================================
