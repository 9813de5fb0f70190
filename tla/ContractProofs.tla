---------------------------- MODULE ContractProofs ----------------------------
(***************************************************************************)
(* The Docker operations implement the safety of ContainerUnit: proved for *)
(* any set of subdomains and any number of creations and faults.           *)
(***************************************************************************)
EXTENDS DockerProofs

None(s)       == \A r \in Role : ~Own(s, r)
Whole(s, st)  == \A r \in Role :
                    docker[Name(s, r)] = [srv |-> s, role |-> r, gen |-> ids[s], st |-> st]

\* The unit of a server, in terms of its three containers.
LEMMA UnitCases ==
    ASSUME Typed, NEW s \in Server
    PROVE  /\ None(s) => Unit(s) = "absent"
           /\ Whole(s, "up") => Unit(s) = "up"
           /\ Whole(s, "exited") => Unit(s) = "down"
           /\ Unit(s) = "absent" => None(s)
           /\ Unit(s) = "up" => Whole(s, "up")
           /\ Unit(s) = "down" => Whole(s, "exited")
<1> DEFINE own == {docker[n] : n \in Mine(s)}
           full(st) == [srv : {s}, role : Role, gen : {ids[s]}, st : {st}]
<1>1. ASSUME NEW n \in Mine(s)
      PROVE  n = Name(s, docker[n].role) /\ docker[n].role \in Role /\ Own(s, docker[n].role)
  <2>1. n \in Names /\ docker[n].srv = s /\ docker[n] # Free
    BY IdleAssumption DEF Mine, Free
  <2>2. docker[n] \in Container
    BY <2>1 DEF Typed, TypeOK
  <2> QED BY <2>1, <2>2 DEF Typed, WellNamed, Container, Own
<1>2. ASSUME NEW r \in Role, Own(s, r) PROVE Name(s, r) \in Mine(s)
  BY <1>2, NamesOf DEF Own, Mine
<1>3. own = {} <=> None(s)
  BY <1>1, <1>2 DEF None
<1>4. ASSUME NEW st, Whole(s, st) PROVE own = full(st)
  <2>1. ASSUME NEW r \in Role
        PROVE  /\ Own(s, r) /\ Name(s, r) \in Mine(s)
               /\ docker[Name(s, r)] = [srv |-> s, role |-> r, gen |-> ids[s], st |-> st]
    <3>1. docker[Name(s, r)] = [srv |-> s, role |-> r, gen |-> ids[s], st |-> st]
      BY <1>4, <2>1 DEF Whole
    <3>2. Own(s, r)
      BY <3>1 DEF Own
    <3> QED BY <1>2, <2>1, <3>1, <3>2
  <2>2. ASSUME NEW n \in Mine(s) PROVE docker[n] \in full(st)
    <3>1. PICK r \in Role : n = Name(s, r)
      BY <1>1, <2>2
    <3>2. docker[n] = [srv |-> s, role |-> r, gen |-> ids[s], st |-> st]
      BY <2>1, <3>1
    <3>3. [srv |-> s, role |-> r, gen |-> ids[s], st |-> st] \in full(st)
      OBVIOUS
    <3> QED BY <3>2, <3>3
  <2>3. ASSUME NEW x \in full(st) PROVE x \in own
    <3>1. PICK r \in Role : x = [srv |-> s, role |-> r, gen |-> ids[s], st |-> st]
      BY <2>3
    <3> QED BY <2>1, <3>1
  <2>4. own \subseteq full(st)
    BY <2>2
  <2>5. full(st) \subseteq own
    BY <2>3
  <2> QED BY <2>4, <2>5
<1>5. ASSUME NEW st, own = full(st) PROVE Whole(s, st)
  <2> SUFFICES ASSUME NEW r \in Role
               PROVE  docker[Name(s, r)] = [srv |-> s, role |-> r, gen |-> ids[s], st |-> st]
    BY DEF Whole
  <2>1. [srv |-> s, role |-> r, gen |-> ids[s], st |-> st] \in full(st)
    OBVIOUS
  <2>2. PICK n \in Mine(s) : docker[n] = [srv |-> s, role |-> r, gen |-> ids[s], st |-> st]
    BY <1>5, <2>1
  <2> QED BY <1>1, <2>2
<1>6. \A st : full(st) # {}
  <2>1. \A st : [srv |-> s, role |-> "server", gen |-> ids[s], st |-> st] \in full(st)
    BY DEF Role
  <2> QED BY <2>1
<1>7. full("up") # full("exited")
  <2>1. [srv |-> s, role |-> "server", gen |-> ids[s], st |-> "up"] \in full("up")
    BY DEF Role
  <2>2. [srv |-> s, role |-> "server", gen |-> ids[s], st |-> "up"] \notin full("exited")
    OBVIOUS
  <2> QED BY <2>1, <2>2
<1>8. /\ own = {} => Unit(s) = "absent"
      /\ own = full("up") => Unit(s) = "up"
      /\ own = full("exited") => Unit(s) = "down"
      /\ Unit(s) = "absent" => own = {}
      /\ Unit(s) = "up" => own = full("up")
      /\ Unit(s) = "down" => own = full("exited")
  BY <1>6, <1>7 DEF Unit
<1> QED BY <1>3, <1>4, <1>5, <1>8

(***************************************************************************)
(* How far an undisturbed call has come: the containers of its server are  *)
(* as the steps it has done left them.                                     *)
(***************************************************************************)
Has(s, r, st)    == docker[Name(s, r)] = [srv |-> s, role |-> r, gen |-> call[s].gen, st |-> st]
Left(s, verb, r) == <<verb, r>> \in call[s].todo

Starting(s) == call[s].prog = "start" =>
    /\ \A r \in Role : Left(s, "run", r) => ~Own(s, r)
    /\ \A r \in Role : ~Left(s, "run", r) => Has(s, r, "up")
    /\ call[s].todo = {} => ids[s] = call[s].gen
    /\ call[s].todo # {} => call[s].held = {r \in Role : ~Left(s, "run", r)}

Undoing(s) == call[s].prog = "undo" => \A r \in Role :
    /\ Left(s, "remove", r) /\ Left(s, "stop", r) => Has(s, r, "up")
    /\ Left(s, "remove", r) /\ ~Left(s, "stop", r) => Has(s, r, "exited")
    /\ ~Left(s, "remove", r) => ~Own(s, r)

Stopping(s) == call[s].prog = "stop" =>
    /\ \A r \in Role : Own(s, r) =>
          /\ Left(s, "remove", r)
          /\ Has(s, r, "exited") \/ (Left(s, "stop", r) /\ Has(s, r, "up"))
    /\ Left(s, "look", "proxy") /\ Own(s, "proxy") => Own(s, "server")

Suspending(s) == call[s].prog = "suspend" =>
    \/ call[s].was = "absent" /\ None(s)
    \/ /\ call[s].was \in {"up", "down"}
       /\ \A r \in Role : Has(s, r, "exited") \/ (Left(s, "stop", r) /\ Has(s, r, "up"))

Resuming(s) == call[s].prog = "resume" =>
    \/ call[s].was = "absent" /\ None(s)
    \/ /\ call[s].was \in {"up", "down"}
       /\ \A r \in Role : Has(s, r, "up") \/ (Left(s, "start", r) /\ Has(s, r, "exited"))

Ensuring(s) == call[s].prog = "ensure" =>
    call[s].was = "up" /\ \A r \in Role : Has(s, r, "up")

\* Only where there was nothing is anything created.
Fresh(s) == (call[s].op = "create" \/ call[s].prog \in {"start", "undo"}) => call[s].was = "absent"

Progress(s) ==
    /\ Starting(s) /\ Undoing(s) /\ Stopping(s) /\ Suspending(s) /\ Resuming(s)
    /\ Ensuring(s) /\ Fresh(s)

Undisturbed(s) == call[s] # Idle /\ ~call[s].hurt /\ call[s].was # "broken"
PInv == \A s \in Server : Undisturbed(s) => Progress(s)

LEMMA HasFinds ==
    ASSUME NEW s, NEW r \in Role, NEW st, Has(s, r, st)
    PROVE  Finds(s, r) /\ Own(s, r) /\ docker[Name(s, r)].st = st
BY DEF Has, Finds, Own

\* The containers of a server no step concerns stay what they are to it.
LEMMA UntouchedProgress ==
    ASSUME NEW t \in Server, Progress(t), Untouched(t)
    PROVE  Progress(t)'
<1>1. call'[t] = call[t] /\ ids'[t] = ids[t]
  BY DEF Untouched
<1>2. \A r \in Role : Own(t, r)' <=> Own(t, r)
  BY DEF Untouched, Own
<1>3. \A r \in Role : \A st : Has(t, r, st) => Has(t, r, st)'
  BY <1>1 DEF Untouched, Own, Has
<1>4. None(t) => None(t)'
  BY <1>2 DEF None
<1>5. Starting(t)' /\ Undoing(t)' /\ Stopping(t)'
  BY <1>1, <1>2, <1>3 DEF Progress, Starting, Undoing, Stopping, Left, Role
<1>6. Suspending(t)' /\ Resuming(t)'
  BY <1>1, <1>3, <1>4 DEF Progress, Suspending, Resuming, Left
<1>7. Ensuring(t)' /\ Fresh(t)'
  BY <1>1, <1>3 DEF Progress, Ensuring, Fresh
<1> QED BY <1>5, <1>6, <1>7 DEF Progress

\* A block that ends at a container that is not there.
LEMMA Passed ==
    ASSUME NEW s \in Server, Progress(s), call[s] \in Calls, call[s].prog # "start",
           NEW role \in Role, NEW c, call'[s] = c,
           c.op = call[s].op, c.prog = call[s].prog, c.gen = call[s].gen, c.was = call[s].was,
           c.todo = {st \in call[s].todo : st[2] # role}, UNCHANGED docker,
           call[s].prog \in {"undo", "stop"} => ~Own(s, role),
           call[s].prog \in {"suspend", "resume"} => call[s].was = "absent" /\ None(s)
    PROVE  Progress(s)'
<1>1. \A r \in Role : Own(s, r)' <=> Own(s, r)
  BY DEF Own
<1>2. \A r \in Role : \A st : Has(s, r, st) <=> Has(s, r, st)'
  BY DEF Has
<1>3. \A v : \A r \in Role \ {role} : Left(s, v, r)' <=> Left(s, v, r)
  BY DEF Left
<1>4. \A v : Left(s, v, role)' <=> FALSE
  BY DEF Left
<1>5. Starting(s)' /\ Ensuring(s)' /\ Fresh(s)'
  BY <1>2 DEF Progress, Starting, Ensuring, Fresh
<1>6. Suspending(s)' /\ Resuming(s)'
  BY <1>1 DEF Suspending, Resuming, None
<1>7. Undoing(s)'
  <2> SUFFICES ASSUME call[s].prog = "undo", NEW r \in Role
               PROVE  /\ Left(s, "remove", r)' /\ Left(s, "stop", r)' => Has(s, r, "up")'
                      /\ Left(s, "remove", r)' /\ ~Left(s, "stop", r)' => Has(s, r, "exited")'
                      /\ ~Left(s, "remove", r)' => ~Own(s, r)'
    BY DEF Undoing
  <2>1. CASE r = role
    BY <1>1, <1>4, <2>1
  <2>2. CASE r # role
    BY <1>1, <1>2, <1>3, <2>2 DEF Progress, Undoing
  <2> QED BY <2>1, <2>2
<1>8. Stopping(s)'
  <2>1. ASSUME call[s].prog = "stop", NEW r \in Role, Own(s, r)'
        PROVE  /\ Left(s, "remove", r)'
               /\ Has(s, r, "exited")' \/ (Left(s, "stop", r)' /\ Has(s, r, "up")')
    BY <1>1, <1>2, <1>3, <2>1 DEF Progress, Stopping
  <2>2. ASSUME call[s].prog = "stop", Left(s, "look", "proxy")', Own(s, "proxy")'
        PROVE  Own(s, "server")'
    BY <1>1, <2>2 DEF Progress, Stopping, Left, Role
  <2> QED BY <2>1, <2>2 DEF Stopping
<1> QED BY <1>5, <1>6, <1>7, <1>8 DEF Progress

LEMMA LookProgress ==
    ASSUME IInv, NEW s \in Server, call[s] # Idle, Progress(s),
           <<"look", "proxy">> \in call[s].todo, UNCHANGED <<ids, gen, active>>, Look(s)
    PROVE  Progress(s)'
<1>1. /\ call[s] \in Calls /\ Shape(s) /\ <<"look", "proxy">> \in Step
      /\ call[s].prog \in {"stop", "suspend", "resume"}
      /\ "server" \in Role /\ "proxy" \in Role /\ call \in [Server -> Calls \cup {Idle}]
  BY Verbs DEF IInv, Local, Typed, TypeOK, Role
<1>2. UNCHANGED docker
  BY DEF Look
<1>3. CASE ~Finds(s, "server")
  <2>1. PICK c : c = Skip(call[s], "proxy")
    OBVIOUS
  <2>2. /\ c.op = call[s].op /\ c.prog = call[s].prog /\ c.gen = call[s].gen
        /\ c.was = call[s].was /\ c.todo = {st \in call[s].todo : st[2] # "proxy"}
    BY <1>1, <2>1, SkipForm
  <2>3. call'[s] = c
    BY <1>1, <1>3, <2>1 DEF Look, Proceed
  <2>4. \A st : ~Has(s, "server", st)
    BY <1>1, <1>3, HasFinds
  <2>5. call[s].prog = "stop" => ~Own(s, "proxy")
    BY <1>1, <2>4 DEF Progress, Stopping, Left
  <2>6. call[s].prog \in {"suspend", "resume"} => call[s].was = "absent" /\ None(s)
    BY <1>1, <2>4 DEF Progress, Suspending, Resuming
  <2> QED BY <1>1, <1>2, <2>2, <2>3, <2>5, <2>6, Passed
<1>4. CASE Finds(s, "server")
  <2>1. PICK c : c = Done(call[s], <<"look", "proxy">>)
    OBVIOUS
  <2>2. /\ c.op = call[s].op /\ c.prog = call[s].prog /\ c.gen = call[s].gen
        /\ c.was = call[s].was /\ c.todo = call[s].todo \ {<<"look", "proxy">>}
    BY <1>1, <2>1, DoneForm
  <2>3. call'[s] = c
    BY <1>1, <1>4, <2>1 DEF Look, Proceed
  <2>4. /\ \A r \in Role : Own(s, r)' <=> Own(s, r)
        /\ \A r \in Role : \A st : Has(s, r, st)' <=> Has(s, r, st)
        /\ \A v : v # "look" => \A r \in Role : Left(s, v, r)' <=> Left(s, v, r)
    BY <1>2, <2>2, <2>3 DEF Own, Has, Left
  <2>5. ~Left(s, "look", "proxy")'
    BY <2>2, <2>3 DEF Left
  <2>6. Starting(s)' /\ Undoing(s)' /\ Ensuring(s)' /\ Fresh(s)'
    BY <1>1, <2>2, <2>3 DEF Progress, Starting, Undoing, Ensuring, Fresh
  <2>7. Stopping(s)'
    BY <2>2, <2>3, <2>4, <2>5 DEF Progress, Stopping
  <2>8. Suspending(s)' /\ Resuming(s)'
    BY <2>2, <2>3, <2>4 DEF Progress, Suspending, Resuming, None
  <2> QED BY <2>6, <2>7, <2>8 DEF Progress
<1> QED BY <1>3, <1>4

LEMMA NameStep ==
    ASSUME Typed, NEW s \in Server, NEW r \in Role, NEW v,
           docker' = [docker EXCEPT ![Name(s, r)] = v]
    PROVE  /\ docker'[Name(s, r)] = v
           /\ \A q \in Role \ {r} : docker'[Name(s, q)] = docker[Name(s, q)]
BY NamesDiffer, NamesOf DEF Typed, TypeOK

\* The state a request leaves a container of the call's own in.
LEMMA FoundProgress ==
    ASSUME IInv, NEW s \in Server, call[s] # Idle, Progress(s),
           NEW verb \in {"stop", "remove", "start"}, NEW role,
           <<verb, role>> \in call[s].todo, Due(call[s], <<verb, role>>),
           UNCHANGED <<ids, gen, active>>,
           Finds(s, role), verb = "remove" => docker[Name(s, role)].st # "up",
           Proceed(s, Done(call[s], <<verb, role>>)),
           \/ verb = "start" /\ Becomes(Name(s, role), "up")
           \/ verb = "stop" /\ Becomes(Name(s, role), IF docker[Name(s, role)].st = "up" THEN "exited"
                                                       ELSE docker[Name(s, role)].st)
           \/ verb = "remove" /\ docker' = [docker EXCEPT ![Name(s, role)] = Free]
    PROVE  Progress(s)'
<1>1. /\ Typed /\ call[s] \in Calls /\ Shape(s) /\ <<verb, role>> \in Step
      /\ verb = "start" => call[s].prog \in {"resume", "ensure"}
      /\ verb = "stop" => call[s].prog \in {"undo", "stop", "suspend"}
      /\ verb = "remove" => call[s].prog \in {"undo", "stop"}
      /\ role \in Role /\ call \in [Server -> Calls \cup {Idle}]
  BY Verbs DEF IInv, Local, Typed, TypeOK
<1>2. Own(s, role)
  BY FoundIsOwn
<1>3. docker[Name(s, role)] \in Container /\ docker[Name(s, role)].role = role
  BY <1>1, <1>2, OwnTyped
<1>4. PICK c : c = Done(call[s], <<verb, role>>)
  OBVIOUS
<1>5. /\ c.op = call[s].op /\ c.prog = call[s].prog /\ c.gen = call[s].gen
      /\ c.was = call[s].was /\ c.todo = call[s].todo \ {<<verb, role>>}
  BY <1>1, <1>4, DoneForm
<1>6. call'[s] = c
  BY <1>1, <1>4 DEF Proceed
<1>7. \A v : \A r \in Role : Left(s, v, r)' <=> (Left(s, v, r) /\ (v # verb \/ r # role))
  BY <1>5, <1>6 DEF Left
<1>8. /\ docker[Name(s, role)] = Free \/ Own(s, role)
      /\ Name(s, role) \in Names
  BY <1>1, <1>2, NamesOf
<1>9. Left(s, verb, role)
  BY DEF Left
<1>10. CASE verb = "remove"
  <2>1. docker' = [docker EXCEPT ![Name(s, role)] = Free]
    BY <1>10
  <2>2. /\ docker'[Name(s, role)] = Free
        /\ \A q \in Role \ {role} : docker'[Name(s, q)] = docker[Name(s, q)]
    BY <1>1, <1>2, <2>1, DockerStep
  <2>3. /\ ~Own(s, role)' /\ (\A r \in Role \ {role} : Own(s, r)' <=> Own(s, r))
        /\ \A r \in Role \ {role} : \A st : Has(s, r, st)' <=> Has(s, r, st)
    BY <1>5, <1>6, <2>2, IdleAssumption DEF Own, Has, Free
  <2>4. Starting(s)' /\ Ensuring(s)' /\ Fresh(s)' /\ Suspending(s)' /\ Resuming(s)'
    BY <1>1, <1>5, <1>6, <1>10
       DEF Progress, Starting, Ensuring, Fresh, Suspending, Resuming
  <2>5. Undoing(s)'
    <3> SUFFICES ASSUME call[s].prog = "undo", NEW r \in Role
                 PROVE  /\ Left(s, "remove", r)' /\ Left(s, "stop", r)' => Has(s, r, "up")'
                        /\ Left(s, "remove", r)' /\ ~Left(s, "stop", r)' => Has(s, r, "exited")'
                        /\ ~Left(s, "remove", r)' => ~Own(s, r)'
      BY <1>5, <1>6 DEF Undoing
    <3>1. CASE r = role
      BY <1>7, <1>10, <2>3, <3>1
    <3>2. CASE r # role
      BY <1>7, <2>3, <3>2 DEF Progress, Undoing
    <3> QED BY <3>1, <3>2
  <2>6. Stopping(s)'
    <3>1. ASSUME call[s].prog = "stop" PROVE ~Left(s, "look", "proxy")
      BY <1>1, <1>10, <3>1, Orders DEF Due, Left
    <3>2. ASSUME call[s].prog = "stop", NEW r \in Role, Own(s, r)'
          PROVE  /\ Left(s, "remove", r)'
                 /\ Has(s, r, "exited")' \/ (Left(s, "stop", r)' /\ Has(s, r, "up")')
      <4>1. r # role
        BY <2>3, <3>2
      <4> QED BY <1>7, <2>3, <3>2, <4>1 DEF Progress, Stopping
    <3>3. call[s].prog = "stop" => ~Left(s, "look", "proxy")'
      BY <1>5, <1>6, <3>1 DEF Left
    <3> QED BY <1>5, <1>6, <3>2, <3>3 DEF Stopping
  <2> QED BY <2>4, <2>5, <2>6 DEF Progress
<1>11. ASSUME NEW state, verb \in {"start", "stop"}, state \in {"created", "up", "exited"},
              verb = "start" => state = "up",
              verb = "stop" /\ docker[Name(s, role)].st \in {"up", "exited"} => state = "exited",
              docker' = [docker EXCEPT ![Name(s, role)].st = state]
       PROVE  Progress(s)'
  <2>1. PICK v : v = [docker[Name(s, role)] EXCEPT !.st = state]
    OBVIOUS
  <2>2. v \in Container /\ v.srv = s /\ v.role = role /\ v.gen = docker[Name(s, role)].gen
    BY <1>2, <1>3, <1>11, <2>1 DEF Container, Own
  <2>3. /\ docker'[Name(s, role)] = v
        /\ \A q \in Role \ {role} : docker'[Name(s, q)] = docker[Name(s, q)]
    <3>1. docker' = [docker EXCEPT ![Name(s, role)] = v]
      BY <1>11, <2>1
    <3>2. Typed /\ role \in Role
      BY <1>1
    <3> QED BY ONLY <3>1, <3>2, s \in Server, NameStep
  <2>4. /\ \A r \in Role : Own(s, r)' <=> Own(s, r)
        /\ \A r \in Role \ {role} : \A st : Has(s, r, st)' <=> Has(s, r, st)
    BY <1>2, <1>5, <1>6, <2>2, <2>3 DEF Own, Has
  <2>5. \A st : Has(s, role, st) => Has(s, role, state)' /\ docker[Name(s, role)].st = st
    BY <1>5, <1>6, <2>1, <2>3 DEF Has
  <2>6. Starting(s)' /\ Fresh(s)'
    BY <1>1, <1>5, <1>6, <1>11 DEF Progress, Starting, Fresh
  <2>7. Undoing(s)'
    <3> SUFFICES ASSUME call[s].prog = "undo", NEW r \in Role
                 PROVE  /\ Left(s, "remove", r)' /\ Left(s, "stop", r)' => Has(s, r, "up")'
                        /\ Left(s, "remove", r)' /\ ~Left(s, "stop", r)' => Has(s, r, "exited")'
                        /\ ~Left(s, "remove", r)' => ~Own(s, r)'
      BY <1>5, <1>6 DEF Undoing
    <3>1. verb = "stop"
      BY <1>1, <1>11
    <3>2. CASE r = role
      <4>1. Left(s, "remove", r) /\ Has(s, r, "up")
        BY <1>2, <1>9, <3>1, <3>2 DEF Progress, Undoing
      <4>2. Has(s, r, "exited")' /\ ~Left(s, "stop", r)' /\ Left(s, "remove", r)'
        BY <1>7, <1>11, <2>5, <3>1, <3>2, <4>1
      <4> QED BY <4>2
    <3>3. CASE r # role
      BY <1>7, <2>4, <3>3 DEF Progress, Undoing
    <3> QED BY <3>2, <3>3
  <2>8. Stopping(s)'
    <3>1. ASSUME call[s].prog = "stop", NEW r \in Role, Own(s, r)'
          PROVE  /\ Left(s, "remove", r)'
                 /\ Has(s, r, "exited")' \/ (Left(s, "stop", r)' /\ Has(s, r, "up")')
      <4>1. /\ Left(s, "remove", r) /\ verb = "stop"
            /\ Has(s, r, "exited") \/ (Left(s, "stop", r) /\ Has(s, r, "up"))
        BY <1>1, <1>11, <2>4, <3>1 DEF Progress, Stopping
      <4>2. CASE r = role
        BY <1>7, <1>11, <2>5, <4>1, <4>2
      <4>3. CASE r # role
        BY <1>7, <2>4, <4>1, <4>3
      <4> QED BY <4>2, <4>3
    <3>2. ASSUME call[s].prog = "stop", Left(s, "look", "proxy")', Own(s, "proxy")'
          PROVE  Own(s, "server")'
      BY <1>7, <2>4, <3>2, "proxy" \in Role, "server" \in Role DEF Progress, Stopping, Role
    <3> QED BY <1>5, <1>6, <3>1, <3>2 DEF Stopping
  <2>9. Suspending(s)'
    <3> SUFFICES ASSUME call[s].prog = "suspend"
                 PROVE  /\ call[s].was \in {"up", "down"}
                        /\ \A r \in Role : Has(s, r, "exited")' \/ (Left(s, "stop", r)' /\ Has(s, r, "up")')
      BY <1>5, <1>6 DEF Suspending
    <3>1. /\ call[s].was \in {"up", "down"} /\ verb = "stop"
          /\ \A r \in Role : Has(s, r, "exited") \/ (Left(s, "stop", r) /\ Has(s, r, "up"))
      BY <1>1, <1>2, <1>11 DEF Progress, Suspending, None
    <3>2. Has(s, role, "exited")'
      BY <1>1, <1>11, <2>5, <3>1
    <3> QED BY <1>7, <2>4, <3>1, <3>2
  <2>10. Resuming(s)'
    <3> SUFFICES ASSUME call[s].prog = "resume"
                 PROVE  /\ call[s].was \in {"up", "down"}
                        /\ \A r \in Role : Has(s, r, "up")' \/ (Left(s, "start", r)' /\ Has(s, r, "exited")')
      BY <1>5, <1>6 DEF Resuming
    <3>1. /\ call[s].was \in {"up", "down"} /\ verb = "start"
          /\ \A r \in Role : Has(s, r, "up") \/ (Left(s, "start", r) /\ Has(s, r, "exited"))
      BY <1>1, <1>2, <1>11 DEF Progress, Resuming, None
    <3>2. Has(s, role, "up")'
      BY <1>1, <1>11, <2>5, <3>1
    <3> QED BY <1>7, <2>4, <3>1, <3>2
  <2>11. Ensuring(s)'
    BY <1>1, <1>5, <1>6, <1>11, <2>4, <2>5 DEF Progress, Ensuring
  <2> QED BY <2>6, <2>7, <2>8, <2>9, <2>10, <2>11 DEF Progress
<1>12. CASE verb = "start"
  BY <1>11, <1>12 DEF Becomes
<1>13. CASE verb = "stop"
  BY <1>3, <1>11, <1>13 DEF Becomes, Container
<1> QED BY <1>10, <1>12, <1>13

LEMMA ManageProgress ==
    ASSUME IInv, NEW s \in Server, call[s] # Idle, Progress(s),
           NEW verb \in {"stop", "remove", "start"}, NEW role,
           <<verb, role>> \in call[s].todo, Due(call[s], <<verb, role>>),
           UNCHANGED <<ids, gen, active>>, Manage(s, verb, role)
    PROVE  Progress(s)'
<1>1. /\ call[s] \in Calls /\ call[s].prog # "start" /\ role \in Role
      /\ verb = "start" => call[s].prog \in {"resume", "ensure"}
      /\ verb = "stop" => call[s].prog \in {"undo", "stop", "suspend"}
      /\ verb = "remove" => call[s].prog \in {"undo", "stop"}
      /\ call \in [Server -> Calls \cup {Idle}]
  BY Verbs DEF IInv, Local, Typed, TypeOK
<1>2. CASE Finds(s, role) /\ ~(verb = "remove" /\ docker[Name(s, role)].st = "up")
  BY <1>2, FoundProgress DEF Manage
<1>3. CASE ~(Finds(s, role) /\ ~(verb = "remove" /\ docker[Name(s, role)].st = "up"))
  <2>1. PICK c : c = Skip(call[s], role)
    OBVIOUS
  <2>2. /\ c.op = call[s].op /\ c.prog = call[s].prog /\ c.gen = call[s].gen
        /\ c.was = call[s].was /\ c.todo = {st \in call[s].todo : st[2] # role}
    BY <1>1, <2>1, SkipForm
  <2>3. call'[s] = c /\ UNCHANGED docker
    BY <1>1, <1>3, <2>1 DEF Manage, Proceed
  <2>4. \A st : Has(s, role, st) => verb = "remove" /\ st = "up"
    BY <1>1, <1>3, HasFinds
  <2>5. verb = "remove" => ~Left(s, "stop", role)
    BY <1>1, Orders DEF Due, Left
  <2>6. ~Has(s, role, "exited") /\ ~(Left(s, "stop", role) /\ Has(s, role, "up"))
    BY <2>4, <2>5
  <2>7. Left(s, verb, role)
    BY DEF Left
  <2>8. call[s].prog = "undo" => ~Own(s, role)
    BY <1>1, <2>6 DEF Progress, Undoing
  <2>9. call[s].prog = "stop" => ~Own(s, role)
    BY <1>1, <2>6 DEF Progress, Stopping
  <2>10. call[s].prog = "suspend" => call[s].was = "absent" /\ None(s)
    BY <1>1, <2>6 DEF Progress, Suspending
  <2>11. call[s].prog = "resume" => call[s].was = "absent" /\ None(s)
    BY <1>1, <2>4, <2>6 DEF Progress, Resuming
  <2> QED BY <1>1, <2>2, <2>3, <2>8, <2>9, <2>10, <2>11, Passed
<1> QED BY <1>2, <1>3

LEMMA RunProgress ==
    ASSUME IInv, NEW s \in Server, call[s] # Idle, Progress(s), NEW role \in Role,
           <<"run", role>> \in call[s].todo,
           UNCHANGED <<ids, gen, active>>, Run(s, role), ~call'[s].hurt
    PROVE  Progress(s)'
<1>1. /\ Typed /\ Local(s) /\ call[s] \in Calls /\ call[s].prog = "start" /\ <<"run", role>> \in Step
      /\ call \in [Server -> Calls \cup {Idle}]
  BY Verbs DEF IInv, Local, Typed, TypeOK
<1>2. /\ \A r \in Role : Left(s, "run", r) => ~Own(s, r)
      /\ \A r \in Role : ~Left(s, "run", r) => Has(s, r, "up")
      /\ call[s].held = {r \in Role : ~Left(s, "run", r)}
      /\ call[s].was = "absent" /\ <<"save", "row">> \in call[s].todo
  BY <1>1 DEF Progress, Starting, Fresh, Local, Creating
<1>3. PICK made : made = [call[s] EXCEPT !.held = @ \cup {role}]
  OBVIOUS
<1>4. /\ made \in Calls /\ made.todo = call[s].todo /\ made.prog = "start"
      /\ made.op = call[s].op /\ made.gen = call[s].gen /\ made.was = "absent"
      /\ made.held = call[s].held \cup {role}
  BY <1>1, <1>2, <1>3, HeldForm
<1>5. ASSUME docker' = [docker EXCEPT ![Name(s, role)] =
                   [srv |-> s, role |-> role, gen |-> call[s].gen, st |-> "up"]],
             call'[s].gen = call[s].gen
      PROVE  /\ Has(s, role, "up")'
             /\ \A r \in Role \ {role} : Own(s, r)' <=> Own(s, r)
             /\ \A r \in Role \ {role} : Has(s, r, "up")' <=> Has(s, r, "up")
  <2>1. /\ docker'[Name(s, role)] = [srv |-> s, role |-> role, gen |-> call[s].gen, st |-> "up"]
        /\ \A r \in Role \ {role} : docker'[Name(s, r)] = docker[Name(s, r)]
    BY <1>1, <1>5, NameStep
  <2> QED BY <1>5, <2>1 DEF Own, Has
<1>6. ASSUME NEW c, call'[s] = c, c.prog = "undo", c.op = call[s].op, c.was = "absent",
             c.todo = {st \in StepsOf["undo"] : st[2] \in c.held},
             \A r \in Role : r \in c.held => Has(s, r, "up")',
             \A r \in Role : r \notin c.held => ~Own(s, r)'
      PROVE  Progress(s)'
  <2>1. \A v \in {"stop", "remove"} : \A r \in Role : Left(s, v, r)' <=> r \in c.held
    BY <1>6, Programs DEF Left
  <2>2. Undoing(s)'
    BY <1>6, <2>1 DEF Undoing
  <2> QED BY <1>6, <2>2
      DEF Progress, Starting, Stopping, Suspending, Resuming, Ensuring, Fresh
<1>7. CASE /\ docker' = [docker EXCEPT ![Name(s, role)] =
                   [srv |-> s, role |-> role, gen |-> call[s].gen, st |-> "up"]]
           /\ Proceed(s, Done(made, <<"run", role>>))
  <2>1. PICK c : c = Done(made, <<"run", role>>)
    OBVIOUS
  <2>2. /\ c.todo = call[s].todo \ {<<"run", role>>} /\ c.prog = "start" /\ c.op = call[s].op
        /\ c.gen = call[s].gen /\ c.was = "absent" /\ c.held = call[s].held \cup {role}
    BY <1>1, <1>4, <2>1, DoneForm
  <2>3. call'[s] = c
    BY <1>1, <1>7, <2>1 DEF Proceed
  <2>4. \A r \in Role : Left(s, "run", r)' <=> (Left(s, "run", r) /\ r # role)
    BY <2>2, <2>3 DEF Left
  <2>5. call'[s].todo # {}
    BY <1>2, <2>2, <2>3
  <2>6. /\ Has(s, role, "up")'
        /\ \A r \in Role \ {role} : Own(s, r)' <=> Own(s, r)
        /\ \A r \in Role \ {role} : Has(s, r, "up")' <=> Has(s, r, "up")
    BY <1>5, <1>7, <2>2, <2>3
  <2>7. Starting(s)'
    <3>1. \A r \in Role : Left(s, "run", r)' => ~Own(s, r)'
      BY <1>2, <2>4, <2>6
    <3>2. \A r \in Role : ~Left(s, "run", r)' => Has(s, r, "up")'
      BY <1>2, <2>4, <2>6
    <3>3. call'[s].held = {r \in Role : ~Left(s, "run", r)'}
      BY <1>2, <2>2, <2>3, <2>4
    <3> QED BY <2>5, <3>1, <3>2, <3>3 DEF Starting
  <2> QED BY <2>2, <2>3, <2>7
      DEF Progress, Undoing, Stopping, Suspending, Resuming, Ensuring, Fresh
<1>8. CASE /\ docker' = [docker EXCEPT ![Name(s, role)] =
                   [srv |-> s, role |-> role, gen |-> call[s].gen, st |-> "up"]]
           /\ Proceed(s, Undo(made))
  <2>1. PICK c : c = Undo(made)
    OBVIOUS
  <2>2. /\ c.prog = "undo" /\ c.op = call[s].op /\ c.gen = call[s].gen /\ c.was = "absent"
        /\ c.held = call[s].held \cup {role}
        /\ c.todo = {st \in StepsOf["undo"] : st[2] \in c.held}
    BY <1>4, <2>1, UndoForm
  <2>3. call'[s] = c
    BY <1>1, <1>8, <2>1 DEF Proceed
  <2>4. /\ Has(s, role, "up")'
        /\ \A r \in Role \ {role} : Own(s, r)' <=> Own(s, r)
        /\ \A r \in Role \ {role} : Has(s, r, "up")' <=> Has(s, r, "up")
    BY <1>5, <1>8, <2>2, <2>3
  <2>5. \A r \in Role : /\ r \in c.held => Has(s, r, "up")'
                        /\ r \notin c.held => ~Own(s, r)'
    BY <1>2, <2>2, <2>4
  <2> QED BY <1>6, <2>2, <2>3, <2>5
<1>9. CASE Proceed(s, Undo(call[s])) /\ UNCHANGED docker
  <2>1. PICK c : c = Undo(call[s])
    OBVIOUS
  <2>2. /\ c.prog = "undo" /\ c.op = call[s].op /\ c.gen = call[s].gen /\ c.was = "absent"
        /\ c.held = call[s].held
        /\ c.todo = {st \in StepsOf["undo"] : st[2] \in c.held}
    BY <1>1, <1>2, <2>1, UndoForm
  <2>3. call'[s] = c
    BY <1>1, <1>9, <2>1 DEF Proceed
  <2>4. \A r \in Role : /\ r \in c.held => Has(s, r, "up")'
                        /\ r \notin c.held => ~Own(s, r)'
    BY <1>2, <1>9, <2>2, <2>3 DEF Has, Own
  <2> QED BY <1>6, <2>2, <2>3, <2>4
<1>10. CASE Proceed(s, Hurt(Undo(call[s])))
  <2>1. PICK c : c = Undo(call[s])
    OBVIOUS
  <2>2. c \in Calls /\ call'[s] = Hurt(c)
    BY <1>1, <1>10, <2>1, UndoForm DEF Proceed
  <2> QED BY <2>2, HurtForm
<1> QED BY <1>3, <1>7, <1>8, <1>9, <1>10 DEF Run

LEMMA SaveProgress ==
    ASSUME IInv, NEW s \in Server, call[s] # Idle, Progress(s),
           <<"save", "row">> \in call[s].todo, Due(call[s], <<"save", "row">>),
           UNCHANGED active, Save(s), ~call'[s].hurt
    PROVE  Progress(s)'
<1>1. /\ Local(s) /\ call[s] \in Calls /\ <<"save", "row">> \in Step
      /\ call[s].prog = "start" /\ call[s].todo = {<<"save", "row">>}
      /\ UNCHANGED <<docker, gen>>
      /\ call \in [Server -> Calls \cup {Idle}] /\ ids \in [Server -> Nat]
  BY SaveDue, Verbs DEF IInv, Local, Typed, TypeOK, Save
<1>2. call[s].was = "absent" /\ \A r \in Role : Has(s, r, "up")
  BY <1>1 DEF Progress, Starting, Fresh, Left
<1>3. PICK saved : saved = Done(call[s], <<"save", "row">>)
  OBVIOUS
<1>4. /\ saved \in Calls /\ saved.todo = {} /\ saved.prog = "start"
      /\ saved.op = call[s].op /\ saved.gen = call[s].gen /\ saved.was = "absent"
  BY <1>1, <1>2, <1>3, DoneForm
<1>5. CASE ids' = [ids EXCEPT ![s] = call[s].gen] /\ Proceed(s, saved)
  <2>1. call'[s] = saved /\ ids'[s] = call[s].gen
    BY <1>1, <1>5 DEF Proceed
  <2>2. \A r \in Role : Has(s, r, "up")'
    BY <1>1, <1>2, <1>4, <2>1 DEF Has
  <2>3. Starting(s)'
    BY <1>4, <2>1, <2>2 DEF Starting, Left
  <2> QED BY <1>4, <2>1, <2>3
      DEF Progress, Undoing, Stopping, Suspending, Resuming, Ensuring, Fresh
<1>6. CASE Proceed(s, [Begin(call[s], "stop") EXCEPT !.held = {}])
  <2>1. PICK d : d = Begin(call[s], "stop")
    OBVIOUS
  <2>2. PICK c : c = [d EXCEPT !.held = {}]
    OBVIOUS
  <2>3. /\ d \in Calls /\ d.todo = StepsOf["stop"] /\ d.prog = "stop"
        /\ d.op = call[s].op /\ d.gen = call[s].gen /\ d.was = "absent"
    BY <1>1, <1>2, <2>1, Programs, BeginForm
  <2>4. /\ c.todo = StepsOf["stop"] /\ c.prog = "stop"
        /\ c.op = call[s].op /\ c.gen = call[s].gen /\ c.was = "absent"
    BY <2>2, <2>3 DEF Calls
  <2>5. call'[s] = c
    BY <1>1, <1>6, <2>1, <2>2 DEF Proceed
  <2>6. \A r \in Role : Has(s, r, "up")' /\ Own(s, r)'
    BY <1>1, <1>2, <2>4, <2>5 DEF Has, Own
  <2>7. \A r \in Role : Left(s, "stop", r)' /\ Left(s, "remove", r)'
    BY <2>4, <2>5, Programs DEF Left
  <2>8. Stopping(s)'
    BY <2>6, <2>7 DEF Stopping, Role
  <2> QED BY <2>4, <2>5, <2>8
      DEF Progress, Starting, Undoing, Suspending, Resuming, Ensuring, Fresh
<1>7. CASE Proceed(s, Hurt(saved))
  BY <1>1, <1>4, <1>7, HurtForm DEF Proceed
<1> QED BY <1>3, <1>5, <1>6, <1>7 DEF Save

LEMMA HealthProgress ==
    ASSUME IInv, NEW s \in Server, call[s] # Idle, Progress(s),
           <<"health", "row">> \in call[s].todo, UNCHANGED active, Health(s)
    PROVE  Progress(s)'
<1>1. /\ Local(s) /\ call[s] \in Calls /\ <<"health", "row">> \in Step
      /\ call[s].prog = "resume" /\ call[s].held = {} /\ UNCHANGED <<docker, ids>>
      /\ call \in [Server -> Calls \cup {Idle}]
      /\ "server" \in Role
  BY Verbs DEF IInv, Local, Shape, Typed, TypeOK, Health, Role
<1>2. CASE /\ ~Finds(s, "server")
           /\ Proceed(s, [Begin(call[s], "start") EXCEPT !.gen = gen'[s]])
  <2>1. PICK d : d = Begin(call[s], "start")
    OBVIOUS
  <2>2. PICK c : c = [d EXCEPT !.gen = gen'[s]]
    OBVIOUS
  <2>3. /\ d \in Calls /\ d.todo = StepsOf["start"] /\ d.prog = "start"
        /\ d.held = {} /\ d.was = call[s].was
    BY <1>1, <2>1, Programs, BeginForm
  <2>4. /\ c.todo = StepsOf["start"] /\ c.prog = "start"
        /\ c.held = {} /\ c.was = call[s].was
    BY <2>2, <2>3 DEF Calls
  <2>5. call'[s] = c
    BY <1>1, <1>2, <2>1, <2>2 DEF Proceed
  <2>6. c.was = "absent" /\ None(s)
    BY <1>1, <1>2, <2>4, HasFinds DEF Progress, Resuming
  <2>7. \A r \in Role : Left(s, "run", r)' /\ ~Own(s, r)'
    BY <1>1, <2>4, <2>5, <2>6, Programs DEF Left, None, Own, Role
  <2>8. StepsOf["start"] # {}
    BY Programs
  <2>9. call'[s].held = {r \in Role : ~Left(s, "run", r)'}
    BY <2>4, <2>5, <2>7
  <2>10. Starting(s)'
    BY <2>4, <2>5, <2>7, <2>8, <2>9 DEF Starting
  <2> QED BY <2>4, <2>5, <2>6, <2>10
      DEF Progress, Undoing, Stopping, Suspending, Resuming, Ensuring, Fresh
<1>3. CASE Proceed(s, Done(call[s], <<"health", "row">>))
  <2>1. PICK c : c = Done(call[s], <<"health", "row">>)
    OBVIOUS
  <2>2. /\ c.op = call[s].op /\ c.prog = "resume" /\ c.gen = call[s].gen
        /\ c.was = call[s].was /\ c.todo = call[s].todo \ {<<"health", "row">>}
    BY <1>1, <2>1, DoneForm
  <2>3. call'[s] = c
    BY <1>1, <1>3, <2>1 DEF Proceed
  <2>4. /\ \A r \in Role : Left(s, "start", r)' <=> Left(s, "start", r)
        /\ \A r \in Role : \A st : Has(s, r, st)' <=> Has(s, r, st)
        /\ None(s)' <=> None(s)
    BY <1>1, <2>2, <2>3 DEF Left, Has, None, Own
  <2>5. Resuming(s)'
    BY <1>1, <2>2, <2>3, <2>4 DEF Progress, Resuming
  <2> QED BY <2>2, <2>3, <2>5
      DEF Progress, Starting, Undoing, Stopping, Suspending, Ensuring, Fresh
<1> QED BY <1>2, <1>3 DEF Health

(***************************************************************************)
(* A call stays the same call from its first step to its return.           *)
(***************************************************************************)
Same(c, d) == d \in Calls /\ d.op = c.op /\ d.was = c.was /\ (c.hurt => d.hurt)

LEMMA SameForms ==
    ASSUME NEW c \in Calls
    PROVE  /\ \A st \in Step : Same(c, Done(c, st))
           /\ \A r : Same(c, Skip(c, r))
           /\ Same(c, Undo(c)) /\ Same(c, Hurt(c))
           /\ \A p \in DOMAIN Program : Same(c, Begin(c, p))
           /\ \A r \in Role : Same(c, [c EXCEPT !.held = @ \cup {r}])
           /\ Same(c, [c EXCEPT !.held = {}])
           /\ \A g \in Nat : Same(c, [c EXCEPT !.gen = g])
<1>1. \A st \in Step : Same(c, Done(c, st))
  BY DoneForm DEF Same
<1>2. \A r : Same(c, Skip(c, r))
  BY SkipForm DEF Same
<1>3. Same(c, Undo(c)) /\ Same(c, Hurt(c))
  BY UndoForm, HurtForm DEF Same
<1>4. \A p \in DOMAIN Program : Same(c, Begin(c, p))
  BY BeginForm DEF Same
<1>5. \A r \in Role : Same(c, [c EXCEPT !.held = @ \cup {r}])
  BY HeldForm DEF Same
<1>6. Same(c, [c EXCEPT !.held = {}])
  BY DEF Calls, Same
<1>7. \A g \in Nat : Same(c, [c EXCEPT !.gen = g])
  BY DEF Calls, Same
<1> QED BY <1>1, <1>2, <1>3, <1>4, <1>5, <1>6, <1>7

LEMMA SameCall ==
    ASSUME IInv, NEW s \in Server, Advance(s)
    PROVE  /\ call'[s] # Idle /\ Same(call[s], call'[s])
           /\ \A t \in Server \ {s} : /\ call'[t] = call[t] /\ ids'[t] = ids[t] /\ gen'[t] = gen[t]
                                      /\ t \in active' <=> t \in active
<1>1. /\ call[s] # Idle /\ UNCHANGED active /\ call[s] \in Calls /\ Local(s)
      /\ call \in [Server -> Calls \cup {Idle}]
      /\ ids \in [Server -> Nat] /\ gen \in [Server -> Nat]
  BY DEF Advance, IInv, Typed, TypeOK
<1>2. PICK st \in call[s].todo :
         \/ st[1] = "health" /\ Health(s)
         \/ st[1] = "save" /\ Save(s)
         \/ /\ UNCHANGED <<ids, gen>>
            /\ \/ st[1] = "run" /\ Run(s, st[2])
               \/ st[1] = "look" /\ Look(s)
               \/ st[1] \in {"stop", "remove", "start"} /\ Manage(s, st[1], st[2])
               \/ ApiError(s, st[1], st[2])
  BY DEF Advance
<1>3. /\ st \in Step /\ st = <<st[1], st[2]>>
      /\ st[1] = "run" => st[2] \in Role
      /\ st[1] = "save" => st = <<"save", "row">>
      /\ st[1] = "health" => st = <<"health", "row">>
      /\ st[1] = "look" => st = <<"look", "proxy">>
  BY <1>1, Verbs DEF Local, Step
<1>4. \A c, d, e : Same(c, d) /\ Same(d, e) => Same(c, e)
  BY DEF Same
<1>5. \E c : Proceed(s, c) /\ Same(call[s], c)
  <2>1. CASE st[1] = "health" /\ Health(s)
    <3>1. "start" \in DOMAIN Program
      BY Programs
    <3>2. PICK d : d = Begin(call[s], "start")
      OBVIOUS
    <3>3. PICK e : e = [d EXCEPT !.gen = gen[s] + 1]
      OBVIOUS
    <3>4. Same(call[s], d) /\ Same(d, e) /\ gen[s] + 1 \in Nat
      <4>1. Same(call[s], d) /\ d \in Calls
        BY <1>1, <3>1, <3>2, SameForms DEF Same
      <4>2. gen[s] + 1 \in Nat
        BY <1>1
      <4>3. Same(d, e)
        BY <3>3, <4>1, <4>2, SameForms
      <4> QED BY <4>1, <4>2, <4>3
    <3>5. CASE ~Finds(s, "server") /\ gen[s] < MaxGen[s]
      <4>1. gen'[s] = gen[s] + 1
        BY <1>1, <2>1, <3>5 DEF Health
      <4>2. Proceed(s, e)
        BY <2>1, <3>2, <3>3, <3>5, <4>1 DEF Health
      <4> QED BY <1>4, <3>4, <4>2
    <3>6. CASE ~(~Finds(s, "server") /\ gen[s] < MaxGen[s])
      <4>1. Proceed(s, Done(call[s], <<"health", "row">>))
        BY <2>1, <3>6 DEF Health
      <4> QED BY <1>1, <1>3, <2>1, <4>1, SameForms
    <3> QED BY <3>5, <3>6
  <2>2. CASE st[1] = "save" /\ Save(s)
    <3>1. "stop" \in DOMAIN Program
      BY Programs
    <3>2. PICK d : d = Begin(call[s], "stop")
      OBVIOUS
    <3>3. PICK e : e = [d EXCEPT !.held = {}]
      OBVIOUS
    <3>4. PICK saved : saved = Done(call[s], <<"save", "row">>)
      OBVIOUS
    <3>5. Same(call[s], d) /\ d \in Calls /\ Same(call[s], saved) /\ saved \in Calls
      <4>1. Same(call[s], d)
        BY <1>1, <3>1, <3>2, SameForms
      <4>2. Same(call[s], saved)
        BY <1>1, <1>3, <2>2, <3>4, SameForms
      <4> QED BY <4>1, <4>2 DEF Same
    <3>6. Same(d, e) /\ Same(saved, Hurt(saved))
      BY <3>3, <3>5, SameForms
    <3>7. Proceed(s, saved) \/ Proceed(s, e) \/ Proceed(s, Hurt(saved))
      BY <2>2, <3>2, <3>3, <3>4 DEF Save
    <3> QED BY <1>4, <3>5, <3>6, <3>7
  <2>3. CASE st[1] = "run" /\ Run(s, st[2])
    <3>1. PICK made : made = [call[s] EXCEPT !.held = @ \cup {st[2]}]
      OBVIOUS
    <3>2. PICK undo : undo = Undo(call[s])
      OBVIOUS
    <3>3. /\ Same(call[s], made) /\ made \in Calls /\ Same(call[s], undo) /\ undo \in Calls
      BY <1>1, <1>3, <2>3, <3>1, <3>2, SameForms DEF Same
    <3>4. /\ Same(made, Done(made, <<"run", st[2]>>)) /\ Same(made, Undo(made))
          /\ Same(undo, Hurt(undo))
      BY <1>3, <2>3, <3>3, SameForms
    <3>5. \/ Proceed(s, Done(made, <<"run", st[2]>>)) \/ Proceed(s, Undo(made))
          \/ Proceed(s, undo) \/ Proceed(s, Hurt(undo))
      BY <2>3, <3>1, <3>2 DEF Run
    <3> QED BY <1>4, <3>3, <3>4, <3>5
  <2>4. CASE st[1] = "look" /\ Look(s)
    <3>1. \/ Proceed(s, Done(call[s], <<"look", "proxy">>)) \/ Proceed(s, Skip(call[s], "proxy"))
      BY <2>4 DEF Look
    <3> QED BY <1>1, <1>3, <2>4, <3>1, SameForms
  <2>5. CASE st[1] \in {"stop", "remove", "start"} /\ Manage(s, st[1], st[2])
    <3>1. Proceed(s, Done(call[s], st)) \/ Proceed(s, Skip(call[s], st[2]))
      BY <1>3, <2>5 DEF Manage
    <3> QED BY <1>1, <1>3, <3>1, SameForms
  <2>6. CASE ApiError(s, st[1], st[2])
    <3>1. PICK d : d = Skip(call[s], st[2])
      OBVIOUS
    <3>2. Same(call[s], d) /\ d \in Calls
      <4>1. Same(call[s], d)
        BY <1>1, <3>1, SameForms
      <4> QED BY <4>1 DEF Same
    <3>3. Proceed(s, Hurt(d)) /\ Same(d, Hurt(d))
      BY <2>6, <3>1, <3>2, SameForms DEF ApiError
    <3> QED BY <1>4, <3>2, <3>3
  <2> QED BY <1>2, <2>1, <2>2, <2>3, <2>4, <2>5, <2>6
<1>6. \A t \in Server \ {s} : ids'[t] = ids[t] /\ gen'[t] = gen[t]
  BY <1>1, <1>2 DEF Health, Save
<1> QED BY <1>1, <1>5, <1>6, IdleAssumption DEF Proceed, Same

LEMMA AdvanceProgress ==
    ASSUME IInv, NEW s \in Server, Advance(s), Progress(s), ~call'[s].hurt
    PROVE  Progress(s)'
<1>1. call[s] # Idle /\ UNCHANGED active
  BY DEF Advance
<1>2. PICK st \in call[s].todo :
         /\ Due(call[s], st)
         /\ \/ st[1] = "health" /\ Health(s)
            \/ st[1] = "save" /\ Save(s)
            \/ /\ UNCHANGED <<ids, gen>>
               /\ \/ st[1] = "run" /\ Run(s, st[2])
                  \/ st[1] = "look" /\ Look(s)
                  \/ st[1] \in {"stop", "remove", "start"} /\ Manage(s, st[1], st[2])
                  \/ ApiError(s, st[1], st[2])
  BY DEF Advance
<1>3. /\ st = <<st[1], st[2]>>
      /\ st[1] = "run" => st[2] \in Role
      /\ st[1] = "save" => st = <<"save", "row">>
      /\ st[1] = "health" => st = <<"health", "row">>
      /\ st[1] = "look" => st = <<"look", "proxy">>
  BY <1>1, Verbs DEF IInv, Local, Typed, TypeOK, Step
<1>4. CASE st[1] = "health" /\ Health(s)
  BY <1>1, <1>3, <1>4, HealthProgress
<1>5. CASE st[1] = "save" /\ Save(s)
  BY <1>1, <1>2, <1>3, <1>5, SaveProgress
<1>6. CASE UNCHANGED <<ids, gen>> /\ st[1] = "run" /\ Run(s, st[2])
  BY <1>1, <1>3, <1>6, RunProgress
<1>7. CASE UNCHANGED <<ids, gen>> /\ st[1] = "look" /\ Look(s)
  BY <1>1, <1>3, <1>7, LookProgress
<1>8. CASE UNCHANGED <<ids, gen>> /\ st[1] \in {"stop", "remove", "start"} /\ Manage(s, st[1], st[2])
  BY <1>1, <1>2, <1>3, <1>8, ManageProgress
<1>9. CASE ApiError(s, st[1], st[2])
  <2>1. PICK d : d = Skip(call[s], st[2])
    OBVIOUS
  <2>2. call[s] \in Calls /\ call \in [Server -> Calls \cup {Idle}]
    BY <1>1 DEF IInv, Typed, TypeOK
  <2>3. d \in Calls
    BY <2>1, <2>2, SkipForm
  <2>4. call'[s] = Hurt(d)
    BY <1>9, <2>1, <2>2 DEF ApiError, Proceed
  <2> QED BY <2>3, <2>4, HurtForm
<1> QED BY <1>2, <1>4, <1>5, <1>6, <1>7, <1>8, <1>9

\* No step of the one server concerns another.
LEMMA Aside ==
    ASSUME IInv, NEW s \in Server,
           \/ Create(s) \/ Suspend(s) \/ Resume(s) \/ Delete(s)
           \/ Advance(s) \/ Return(s) \/ Vanish(s)
    PROVE  /\ Reach(s)
           /\ \A t \in Server \ {s} : /\ call'[t] = call[t] /\ ids'[t] = ids[t] /\ gen'[t] = gen[t]
                                      /\ t \in active' <=> t \in active
<1>1. /\ Typed /\ call \in [Server -> Calls \cup {Idle}]
      /\ ids \in [Server -> Nat] /\ gen \in [Server -> Nat]
  BY DEF IInv, Typed, TypeOK
<1>2. ASSUME NEW op, Anew(s, op)
      PROVE  /\ Reach(s)
             /\ \A t \in Server \ {s} : /\ call'[t] = call[t] /\ ids'[t] = ids[t] /\ gen'[t] = gen[t]
                                        /\ t \in active' <=> t \in active
  BY <1>1, <1>2 DEF Anew, Reach
<1>3. ASSUME NEW op, NEW prog, NEW row, Request(s, op, prog, row)
      PROVE  /\ Reach(s)
             /\ \A t \in Server \ {s} : /\ call'[t] = call[t] /\ ids'[t] = ids[t] /\ gen'[t] = gen[t]
                                        /\ t \in active' <=> t \in active
  BY <1>1, <1>3 DEF Request, Reach
<1>4. CASE Advance(s)
  BY <1>4, SameCall, AdvanceStep
<1>5. CASE Return(s)
  <2>1. active' \subseteq active \cup {s} /\ active \subseteq active'
    BY <1>5 DEF Return
  <2> QED BY <1>1, <1>5, <2>1 DEF Return, Reach
<1>6. CASE Vanish(s)
  BY <1>1, <1>6 DEF Vanish, Reach, Free, Mine
<1> QED BY <1>2, <1>3, <1>4, <1>5, <1>6 DEF Create, Suspend, Resume, Delete

LEMMA AnewProgress ==
    ASSUME IInv, NEW s \in Server, NEW op \in {"create", "resume"}, Anew(s, op), Undisturbed(s)'
    PROVE  Progress(s)'
<1>1. /\ Typed /\ ids[s] = 0 /\ gen[s] \in Nat /\ UNCHANGED docker
      /\ call \in [Server -> Calls \cup {Idle}]
  BY DEF IInv, Anew, Typed, TypeOK
<1>2. PICK c : c = Call(op, "start", gen[s] + 1, s)
  OBVIOUS
<1>3. /\ c.prog = "start" /\ c.held = {} /\ c.todo = StepsOf["start"] /\ c.was = Unit(s)
  <2>1. op \in Operation /\ "start" \in DOMAIN Program /\ gen[s] + 1 \in Nat
    BY <1>1, Programs DEF Operation
  <2> QED BY <1>2, <2>1, CallForm
<1>4. call'[s] = c
  BY <1>1, <1>2 DEF Anew
<1>5. \A st : ~Whole(s, st)
  <2> SUFFICES ASSUME NEW st, Whole(s, st) PROVE FALSE
    OBVIOUS
  <2>1. "server" \in Role
    BY DEF Role
  <2>2. docker[Name(s, "server")].srv = s /\ docker[Name(s, "server")].gen = 0
    <3>1. docker[Name(s, "server")] = [srv |-> s, role |-> "server", gen |-> ids[s], st |-> st]
      BY <2>1 DEF Whole
    <3> QED BY <1>1, <3>1
  <2>3. docker[Name(s, "server")] \in Container
    BY <1>1, <2>1, <2>2, OwnTyped DEF Own
  <2> QED BY <2>2, <2>3 DEF Container
<1>6. Unit(s) = "absent" /\ None(s)
  BY <1>1, <1>3, <1>4, <1>5, UnitCases, UnitTyped DEF Undisturbed
<1>7. \A r \in Role : Left(s, "run", r)' /\ ~Own(s, r)'
  BY <1>1, <1>3, <1>4, <1>6, Programs DEF Left, None, Own, Role
<1>8. StepsOf["start"] # {}
  BY Programs
<1>9. call'[s].held = {r \in Role : ~Left(s, "run", r)'}
  BY <1>3, <1>4, <1>7
<1>10. Starting(s)'
  BY <1>3, <1>4, <1>7, <1>8, <1>9 DEF Starting
<1> QED BY <1>3, <1>4, <1>6, <1>10
    DEF Progress, Undoing, Stopping, Suspending, Resuming, Ensuring, Fresh

LEMMA RequestProgress ==
    ASSUME IInv, NEW s \in Server, NEW op, NEW prog, NEW row, Request(s, op, prog, row),
           \/ op = "suspend" /\ prog = "suspend"
           \/ op = "resume" /\ prog = "resume"
           \/ op = "delete" /\ prog = "stop",
           Undisturbed(s)'
    PROVE  Progress(s)'
<1>1. /\ Typed /\ ids[s] # 0 /\ ids[s] \in Nat /\ UNCHANGED docker
      /\ call \in [Server -> Calls \cup {Idle}]
  BY DEF IInv, Request, Typed, TypeOK
<1>2. PICK c : c = Call(op, prog, ids[s], s)
  OBVIOUS
<1>3. /\ c.op = op /\ c.prog = prog /\ c.todo = StepsOf[prog] /\ c.was = Unit(s) /\ c.gen = ids[s]
  <2>1. op \in Operation /\ prog \in DOMAIN Program
    BY Programs DEF Operation
  <2> QED BY <1>1, <1>2, <2>1, CallForm
<1>4. call'[s] = c
  BY <1>1, <1>2 DEF Request
<1>5. \/ c.was = "absent" /\ None(s)
      \/ c.was = "up" /\ (\A r \in Role : Has(s, r, "up")')
      \/ c.was = "down" /\ (\A r \in Role : Has(s, r, "exited")')
  <2>1. Unit(s) \in {"absent", "up", "down"}
    BY <1>3, <1>4, UnitTyped DEF Undisturbed
  <2> QED BY <1>1, <1>3, <1>4, <2>1, UnitCases DEF Whole, Has
<1>6. /\ (\A r \in Role : Own(s, r)' <=> Own(s, r))
      /\ \A r \in Role : \A st : Has(s, r, st)' => Own(s, r)'
      /\ None(s)' <=> None(s)
  BY <1>1 DEF Own, None, Has
<1>7. \A r \in Role : /\ prog = "stop" => Left(s, "stop", r)' /\ Left(s, "remove", r)'
                      /\ prog = "suspend" => Left(s, "stop", r)'
                      /\ prog = "resume" => Left(s, "start", r)'
  BY <1>3, <1>4, Programs DEF Left
<1>8. Stopping(s)'
  BY <1>3, <1>4, <1>5, <1>6, <1>7, "server" \in Role DEF Stopping, None, Role
<1>9. Suspending(s)' /\ Resuming(s)'
  BY <1>3, <1>4, <1>5, <1>6, <1>7 DEF Suspending, Resuming
<1> QED BY <1>3, <1>4, <1>8, <1>9
    DEF Progress, Starting, Undoing, Ensuring, Fresh

LEMMA RestartProgress ==
    ASSUME IInv, Restart, NEW s \in Server, Undisturbed(s)'
    PROVE  Progress(s)'
<1>1. /\ Typed /\ Local(s) /\ ids[s] \in Nat /\ UNCHANGED <<docker, ids>>
  BY DEF IInv, Restart, Typed, TypeOK
<1>2. PICK c : c = Call("ensure", "ensure", ids[s], s)
  OBVIOUS
<1>3. /\ c.op = "ensure" /\ c.prog = "ensure" /\ c.was = Unit(s) /\ c.gen = ids[s]
  <2>1. "ensure" \in Operation /\ "ensure" \in DOMAIN Program
    BY Programs DEF Operation
  <2> QED BY <1>1, <1>2, <2>1, CallForm
<1>4. s \in active /\ call'[s] = c
  BY <1>2 DEF Restart, Undisturbed
<1>5. docker[Name(s, "server")] = [srv |-> s, role |-> "server", gen |-> ids[s], st |-> "up"]
      /\ "server" \in Role
  BY <1>1, <1>4 DEF Local, Active, ServerUp, Role
<1>6. ~None(s) /\ ~Whole(s, "exited")
  <2>1. docker[Name(s, "server")].srv = s /\ docker[Name(s, "server")].st = "up"
    BY <1>5
  <2>2. Whole(s, "exited") => docker[Name(s, "server")].st = "exited"
    <3>1. Whole(s, "exited") => docker[Name(s, "server")] =
              [srv |-> s, role |-> "server", gen |-> ids[s], st |-> "exited"]
      BY <1>5 DEF Whole
    <3> QED BY <3>1
  <2> QED BY <1>5, <2>1, <2>2 DEF None, Own
<1>7. Unit(s) = "up" /\ Whole(s, "up")
  BY <1>1, <1>3, <1>4, <1>6, UnitCases, UnitTyped DEF Undisturbed
<1>8. \A r \in Role : Has(s, r, "up")'
  BY <1>1, <1>3, <1>4, <1>7 DEF Has, Whole
<1> QED BY <1>3, <1>4, <1>7, <1>8
    DEF Progress, Starting, Undoing, Stopping, Suspending, Resuming, Ensuring, Fresh

LEMMA InitPInv == Init => PInv
BY DEF Init, PInv, Undisturbed

LEMMA StepPInv == ASSUME IInv, PInv, [Next]_vars PROVE PInv'
<1>1. ASSUME NEW s \in Server, Create(s) \/ Suspend(s) \/ Resume(s) \/ Delete(s), Undisturbed(s)'
      PROVE  Progress(s)'
  BY <1>1, AnewProgress, RequestProgress DEF Create, Suspend, Resume, Delete
<1>2. ASSUME NEW s \in Server, Advance(s), Undisturbed(s)' PROVE Progress(s)'
  <2>1. Undisturbed(s)
    BY <1>2, SameCall DEF Advance, Undisturbed, Same
  <2> QED BY <1>2, <2>1, AdvanceProgress DEF PInv, Undisturbed
<1>3. ASSUME NEW s \in Server, Return(s) \/ Vanish(s) PROVE ~Undisturbed(s)'
  BY <1>3 DEF Return, Vanish, Undisturbed, IInv, Typed, TypeOK
<1>4. ASSUME NEW s \in Server,
             \/ Create(s) \/ Suspend(s) \/ Resume(s) \/ Delete(s)
             \/ Advance(s) \/ Return(s) \/ Vanish(s)
      PROVE  PInv'
  <2>1. \A t \in Server \ {s} : Untouched(t)
    BY <1>4, Aside, Elsewhere
  <2>2. ASSUME NEW t \in Server \ {s}, Undisturbed(t)' PROVE Progress(t)'
    <3>1. Undisturbed(t) /\ Untouched(t)
      BY <2>1, <2>2 DEF Untouched, Undisturbed
    <3> QED BY <3>1, UntouchedProgress DEF PInv
  <2>3. Undisturbed(s)' => Progress(s)'
    BY <1>1, <1>2, <1>3, <1>4
  <2> QED BY <2>2, <2>3 DEF PInv
<1>5. CASE UNCHANGED vars
  <2>1. \A t \in Server : Untouched(t) /\ (Undisturbed(t)' => Undisturbed(t))
    BY <1>5 DEF Untouched, Own, Undisturbed, vars
  <2> QED BY <2>1, UntouchedProgress DEF PInv
<1>6. CASE Restart
  BY <1>6, RestartProgress DEF PInv
<1> QED BY <1>4, <1>5, <1>6 DEF Next

(***************************************************************************)
(* The refinement: what the contract sees of a state, and of a step.       *)
(***************************************************************************)
SeenUnit    == [s \in Server |-> IF call[s] = Idle THEN Unit(s) ELSE call[s].was]
SeenCalling == [s \in Server |-> IF call[s] = Idle THEN Idle ELSE call[s].op]
SeenSpoilt  == {s \in Server : call[s] # Idle /\ call[s].hurt}

\* The unit of a server depends on its containers and on its row alone.
LEMMA UnitElsewhere ==
    ASSUME NEW s \in Server, NEW t \in Server, t # s, Reach(s), ids'[t] = ids[t]
    PROVE  Unit(t)' = Unit(t)
<1>1. \A n \in Names : /\ docker'[n].srv = t <=> docker[n].srv = t
                       /\ docker[n].srv = t => docker'[n] = docker[n]
  BY IdleAssumption DEF Reach
<1>2. Mine(t)' = Mine(t)
  BY <1>1 DEF Mine
<1>3. {docker'[n] : n \in Mine(t)'} = {docker[n] : n \in Mine(t)}
  BY <1>1, <1>2 DEF Mine
<1> QED BY <1>3 DEF Unit

LEMMA UnitStays ==
    ASSUME NEW s \in Server, UNCHANGED docker, ids'[s] = ids[s]
    PROVE  Unit(s)' = Unit(s)
BY DEF Unit, Mine

LEMMA ContractInit == Init => Contract!Init
<1> SUFFICES ASSUME Init PROVE Contract!Init
  OBVIOUS
<1>1. Typed
  BY InitIInv DEF IInv
<1>2. ASSUME NEW s \in Server PROVE None(s)
  BY NamesOf, IdleAssumption DEF Init, None, Own, Free
<1>3. \A s \in Server : Unit(s) = "absent"
  BY <1>1, <1>2, UnitCases
<1> QED BY <1>3 DEF Contract!Init, Init

LEMMA ContractInvoke ==
    ASSUME IInv, NEW s \in Server, NEW op \in Operation, NEW p \in DOMAIN Program, NEW g \in Nat,
           call[s] = Idle, call' = [call EXCEPT ![s] = Call(op, p, g, s)],
           Reach(s), \A t \in Server \ {s} : ids'[t] = ids[t]
    PROVE  Contract!Invoke(s)
<1>1. PICK c : c = Call(op, p, g, s)
  OBVIOUS
<1>2. c # Idle /\ c.op = op /\ c.was = Unit(s) /\ ~c.hurt
  BY <1>1, CallForm
<1>3. /\ call'[s] = c /\ \A t \in Server \ {s} : call'[t] = call[t]
  BY <1>1 DEF IInv, Typed, TypeOK
<1>4. \A t \in Server \ {s} : Unit(t)' = Unit(t)
  BY UnitElsewhere
<1>5. SeenCalling[s] = Idle /\ SeenCalling' = [SeenCalling EXCEPT ![s] = op]
  <2>1. SeenCalling[s] = Idle
    BY DEF SeenCalling
  <2>2. \A t \in Server : SeenCalling'[t] = IF t = s THEN op ELSE SeenCalling[t]
    BY <1>2, <1>3 DEF SeenCalling
  <2>3. SeenCalling' = [t \in Server |-> SeenCalling'[t]] /\ DOMAIN SeenCalling = Server
    BY DEF SeenCalling
  <2>4. SeenCalling' = [t \in Server |-> IF t = s THEN op ELSE SeenCalling[t]]
    BY <2>2, <2>3
  <2>5. [t \in Server |-> IF t = s THEN op ELSE SeenCalling[t]] = [SeenCalling EXCEPT ![s] = op]
    BY <2>3
  <2> QED BY <2>1, <2>4, <2>5
<1>6. SeenUnit' = SeenUnit
  BY <1>2, <1>3, <1>4 DEF SeenUnit
<1>7. SeenSpoilt' = SeenSpoilt
  BY <1>2, <1>3 DEF SeenSpoilt
<1>8. op \in Contract!Op
  BY DEF Operation, Contract!Op
<1> QED BY <1>5, <1>6, <1>7, <1>8 DEF Contract!Invoke, SeenCalling, SeenUnit, SeenSpoilt

LEMMA ContractAdvance ==
    ASSUME IInv, NEW s \in Server, Advance(s)
    PROVE  Contract!Disturb(s) \/ UNCHANGED Contract!vars
<1>1. /\ call[s] # Idle /\ call'[s] # Idle
      /\ call'[s].op = call[s].op /\ call'[s].was = call[s].was /\ (call[s].hurt => call'[s].hurt)
      /\ \A t \in Server \ {s} : call'[t] = call[t] /\ Unit(t)' = Unit(t)
  BY SameCall, AdvanceStep, UnitElsewhere DEF Advance, Same
<1>2. SeenCalling' = SeenCalling /\ SeenCalling[s] # Idle
  BY <1>1, IdleAssumption DEF SeenCalling, IInv, Typed, TypeOK, Calls
<1>3. SeenUnit' = SeenUnit
  BY <1>1 DEF SeenUnit
<1>4. SeenSpoilt' = SeenSpoilt \/ SeenSpoilt' = SeenSpoilt \cup {s}
  BY <1>1 DEF SeenSpoilt
<1> QED BY <1>2, <1>3, <1>4 DEF Contract!Disturb, Contract!vars, SeenCalling, SeenUnit, SeenSpoilt

\* What an undisturbed call that has done all its steps has made of its unit.
LEMMA Outcome ==
    ASSUME IInv, PInv, NEW s \in Server, call[s] # Idle, call[s].todo = {}
    PROVE  Unit(s) \in IF call[s].hurt THEN Contract!Unit
                                       ELSE Contract!Outcomes(call[s].op, call[s].was)
<1>1. /\ Typed /\ Local(s) /\ call[s] \in Calls /\ Unit(s) \in {"absent", "up", "down", "broken"}
  BY UnitTyped DEF IInv, Typed, TypeOK
<1>2. CASE call[s].hurt
  BY <1>1, <1>2 DEF Contract!Unit
<1>3. CASE ~call[s].hurt /\ call[s].was = "broken"
  BY <1>1, <1>3 DEF Contract!Unit, Contract!Outcomes
<1>4. CASE ~call[s].hurt /\ call[s].was # "broken"
  <2>1. Progress(s)
    BY <1>4 DEF PInv, Undisturbed
  <2>2. \A v : \A r \in Role : ~Left(s, v, r)
    BY DEF Left
  <2>3. call[s].prog \in Runs[call[s].op] /\ call[s].op \in Operation /\ call[s].prog \in DOMAIN Program
    BY <1>1 DEF Local, Shape, Calls
  <2>4. \A st : call[s].gen = ids[s] /\ (\A r \in Role : Has(s, r, st)) => Whole(s, st)
    BY DEF Has, Whole
  <2>5. /\ None(s) => Unit(s) = "absent"
        /\ Whole(s, "up") => Unit(s) = "up"
        /\ Whole(s, "exited") => Unit(s) = "down"
    BY <1>1, UnitCases
  <2>6. CASE call[s].prog = "start"
    <3>1. Unit(s) = "up" /\ call[s].was = "absent"
      BY <2>1, <2>2, <2>4, <2>5, <2>6 DEF Progress, Starting, Fresh
    <3>2. call[s].op \in {"create", "resume"}
      BY <2>3, <2>6 DEF Runs, Operation
    <3> QED BY <1>4, <3>1, <3>2 DEF Contract!Outcomes
  <2>7. CASE call[s].prog = "undo"
    <3>1. Unit(s) = "absent" /\ call[s].was = "absent"
      BY <2>1, <2>2, <2>5, <2>7 DEF Progress, Undoing, Fresh, None
    <3>2. call[s].op \in {"create", "resume"}
      BY <2>3, <2>7 DEF Runs, Operation
    <3> QED BY <1>4, <3>1, <3>2 DEF Contract!Outcomes
  <2>8. CASE call[s].prog = "stop"
    <3>1. Unit(s) = "absent" /\ (call[s].op = "create" => call[s].was = "absent")
      BY <2>1, <2>2, <2>5, <2>8 DEF Progress, Stopping, Fresh, None
    <3>2. call[s].op \in {"create", "delete"}
      BY <2>3, <2>8 DEF Runs, Operation
    <3> QED BY <1>4, <3>1, <3>2 DEF Contract!Outcomes
  <2>9. CASE call[s].prog = "suspend"
    <3>1. /\ call[s].was = "absent" => Unit(s) = "absent"
          /\ call[s].was # "absent" => Unit(s) = "down"
      BY <1>1, <2>1, <2>2, <2>4, <2>5, <2>9 DEF Progress, Suspending, Local, Given
    <3>2. call[s].op = "suspend"
      BY <2>3, <2>9 DEF Runs, Operation
    <3> QED BY <1>4, <3>1, <3>2 DEF Contract!Outcomes
  <2>10. CASE call[s].prog = "resume"
    <3>1. /\ call[s].was = "absent" => Unit(s) = "absent"
          /\ call[s].was # "absent" => Unit(s) = "up"
      BY <1>1, <2>1, <2>2, <2>4, <2>5, <2>10 DEF Progress, Resuming, Local, Given
    <3>2. call[s].op = "resume"
      BY <2>3, <2>10 DEF Runs, Operation
    <3> QED BY <1>4, <3>1, <3>2 DEF Contract!Outcomes
  <2>11. CASE call[s].prog = "ensure"
    <3>1. call[s].was = "up" /\ Unit(s) = "up"
      BY <1>1, <2>1, <2>4, <2>5, <2>11 DEF Progress, Ensuring, Local, Given
    <3>2. call[s].op = "ensure"
      BY <2>3, <2>11 DEF Runs, Operation
    <3> QED BY <1>4, <3>1, <3>2 DEF Contract!Outcomes
  <2> QED BY <2>3, <2>6, <2>7, <2>8, <2>9, <2>10, <2>11, Programs
<1> QED BY <1>2, <1>3, <1>4

LEMMA Updated ==
    ASSUME NEW S, NEW f, NEW g, NEW s \in S, NEW v, f = [t \in S |-> f[t]], g = [t \in S |-> g[t]],
           g[s] = v, \A t \in S \ {s} : g[t] = f[t]
    PROVE  g = [f EXCEPT ![s] = v]
<1>1. DOMAIN f = S
  OBVIOUS
<1>2. g = [t \in S |-> IF t = s THEN v ELSE f[t]]
  OBVIOUS
<1> QED BY <1>1, <1>2

LEMMA ContractReturn ==
    ASSUME IInv, PInv, NEW s \in Server, Return(s)
    PROVE  Contract!Return(s)
<1>1. /\ call[s] # Idle /\ call[s].todo = {} /\ call'[s] = Idle /\ call[s].op \in Operation
      /\ \A t \in Server \ {s} : call'[t] = call[t]
      /\ UNCHANGED <<docker, ids>>
  BY DEF Return, IInv, Typed, TypeOK, Calls
<1>2. \A t \in Server : Unit(t)' = Unit(t)
  BY <1>1, UnitStays
<1>3. SeenCalling[s] = call[s].op /\ SeenCalling[s] # Idle
  BY <1>1, IdleAssumption DEF SeenCalling
<1>4. SeenCalling' = [SeenCalling EXCEPT ![s] = Idle]
  <2>1. SeenCalling'[s] = Idle /\ \A t \in Server \ {s} : SeenCalling'[t] = SeenCalling[t]
    BY <1>1 DEF SeenCalling
  <2>2. SeenCalling = [t \in Server |-> SeenCalling[t]] /\ SeenCalling' = [t \in Server |-> SeenCalling'[t]]
    BY DEF SeenCalling
  <2> QED BY <2>1, <2>2, Updated
<1>5. SeenSpoilt' = SeenSpoilt \ {s} /\ (s \in SeenSpoilt <=> call[s].hurt)
  BY <1>1 DEF SeenSpoilt
<1>6. SeenUnit' = [SeenUnit EXCEPT ![s] = Unit(s)] /\ SeenUnit[s] = call[s].was
  <2>1. SeenUnit'[s] = Unit(s) /\ \A t \in Server \ {s} : SeenUnit'[t] = SeenUnit[t]
    BY <1>1, <1>2 DEF SeenUnit
  <2>2. SeenUnit = [t \in Server |-> SeenUnit[t]] /\ SeenUnit' = [t \in Server |-> SeenUnit'[t]]
    BY DEF SeenUnit
  <2>3. SeenUnit[s] = call[s].was
    BY <1>1 DEF SeenUnit
  <2> QED BY <2>1, <2>2, <2>3, Updated
<1>7. Unit(s) \in IF s \in SeenSpoilt THEN Contract!Unit
                                      ELSE Contract!Outcomes(SeenCalling[s], SeenUnit[s])
  BY <1>1, <1>3, <1>5, <1>6, Outcome
<1> QED BY <1>3, <1>4, <1>5, <1>6, <1>7 DEF Contract!Return, SeenCalling, SeenUnit, SeenSpoilt

LEMMA ContractVanish ==
    ASSUME IInv, NEW s \in Server, Vanish(s)
    PROVE  Contract!Vanish(s)
<1>1. call[s] = Idle /\ UNCHANGED <<ids, call>>
  BY DEF Vanish
<1>2. \A t \in Server \ {s} : Unit(t)' = Unit(t)
  BY <1>1, Aside, UnitElsewhere
<1>3. Unit(s)' = "absent"
  <2>1. \A n \in Names : docker'[n].srv # s
    BY IdleAssumption DEF Vanish, Mine, Free
  <2>2. Mine(s)' = {}
    BY <2>1 DEF Mine
  <2>3. {docker'[n] : n \in Mine(s)'} = {}
    BY <2>2
  <2>4. \A st : [srv |-> s, role |-> "server", gen |-> ids'[s], st |-> st]
                   \in [srv : {s}, role : Role, gen : {ids'[s]}, st : {st}]
    BY DEF Role
  <2>5. \A st : [srv : {s}, role : Role, gen : {ids'[s]}, st : {st}] # {}
    BY <2>4
  <2> QED BY <2>3, <2>5 DEF Unit
<1>4. SeenUnit' = [SeenUnit EXCEPT ![s] = "absent"]
  <2>1. SeenUnit'[s] = "absent" /\ \A t \in Server \ {s} : SeenUnit'[t] = SeenUnit[t]
    BY <1>1, <1>2, <1>3 DEF SeenUnit
  <2>2. SeenUnit = [t \in Server |-> SeenUnit[t]] /\ SeenUnit' = [t \in Server |-> SeenUnit'[t]]
    BY DEF SeenUnit
  <2> QED BY <2>1, <2>2, Updated
<1>5. SeenCalling' = SeenCalling /\ SeenCalling[s] = Idle /\ SeenSpoilt' = SeenSpoilt
  BY <1>1 DEF SeenCalling, SeenSpoilt
<1> QED BY <1>4, <1>5 DEF Contract!Vanish, SeenCalling, SeenUnit, SeenSpoilt

LEMMA ContractRestart == ASSUME IInv, Restart PROVE Contract!Restart
<1>1. UNCHANGED <<docker, ids>>
  BY DEF Restart
<1>2. ASSUME NEW s \in Server
      PROVE  \/ s \notin active /\ call'[s] = Idle
             \/ /\ s \in active /\ call'[s] # Idle /\ call'[s].op = "ensure"
                /\ call'[s].was = Unit(s) /\ ~call'[s].hurt
  <2>1. "ensure" \in Operation /\ "ensure" \in DOMAIN Program /\ ids[s] \in Nat
    BY Programs DEF Operation, IInv, Typed, TypeOK
  <2>2. PICK c : c = Call("ensure", "ensure", ids[s], s)
    OBVIOUS
  <2>3. c # Idle /\ c.op = "ensure" /\ c.was = Unit(s) /\ ~c.hurt
    BY <2>1, <2>2, CallForm
  <2>4. call'[s] = IF s \in active THEN c ELSE Idle
    BY <2>2 DEF Restart
  <2> QED BY <2>3, <2>4
<1>3. \A s \in Server : Unit(s)' = Unit(s) /\ Unit(s) \in Contract!Unit
  BY <1>1, UnitStays, UnitTyped DEF Contract!Unit
<1>4. SeenCalling' = [s \in Server |-> IF s \in active THEN "ensure" ELSE Idle]
  BY <1>2 DEF SeenCalling
<1>5. active \in SUBSET Server
  BY DEF IInv, Typed, TypeOK
<1>6. SeenSpoilt' = {}
  BY <1>2 DEF SeenSpoilt
<1>7. PICK u \in [Server -> Contract!Unit] : u = [s \in Server |-> Unit(s)]
  BY <1>3
<1>8. \A s \in Server : SeenCalling[s] = Idle => SeenUnit[s] = Unit(s)
  BY IdleAssumption DEF SeenCalling, SeenUnit, IInv, Typed, TypeOK, Calls
<1>9. SeenUnit' = [s \in Server |-> IF SeenCalling[s] = Idle THEN SeenUnit[s] ELSE u[s]]
  <2>1. \A s \in Server : SeenUnit'[s] = Unit(s)
    BY <1>2, <1>3 DEF SeenUnit
  <2>2. SeenUnit' = [s \in Server |-> SeenUnit'[s]]
    BY DEF SeenUnit
  <2> QED BY <1>7, <1>8, <2>1, <2>2
<1> QED BY <1>4, <1>5, <1>6, <1>7, <1>9 DEF Contract!Restart, SeenCalling, SeenUnit, SeenSpoilt

LEMMA ContractStep == ASSUME IInv, PInv, [Next]_vars PROVE [Contract!Next]_Contract!vars
<1>1. ASSUME NEW s \in Server, NEW op \in {"create", "resume"}, Anew(s, op)
      PROVE  Contract!Invoke(s)
  <2>1. gen[s] + 1 \in Nat /\ op \in Operation /\ "start" \in DOMAIN Program
    BY Programs DEF IInv, Typed, TypeOK, Operation
  <2>2. /\ call[s] = Idle /\ call' = [call EXCEPT ![s] = Call(op, "start", gen[s] + 1, s)]
        /\ UNCHANGED <<docker, ids>>
    BY <1>1 DEF Anew
  <2>3. Reach(s)
    BY <2>2 DEF Reach
  <2> QED BY <2>1, <2>2, <2>3, ContractInvoke
<1>2. ASSUME NEW s \in Server, NEW op, NEW prog, NEW row, Request(s, op, prog, row),
             op \in Operation, prog \in DOMAIN Program
      PROVE  Contract!Invoke(s)
  <2>1. ids[s] \in Nat /\ ids \in [Server -> Nat]
    BY DEF IInv, Typed, TypeOK
  <2>2. /\ call[s] = Idle /\ call' = [call EXCEPT ![s] = Call(op, prog, ids[s], s)]
        /\ UNCHANGED docker /\ \A t \in Server \ {s} : ids'[t] = ids[t]
    BY <1>2, <2>1 DEF Request
  <2>3. Reach(s)
    BY <2>2 DEF Reach
  <2> QED BY <1>2, <2>1, <2>2, <2>3, ContractInvoke
<1>3. ASSUME NEW s \in Server, Create(s) \/ Suspend(s) \/ Resume(s) \/ Delete(s)
      PROVE  Contract!Invoke(s)
  BY <1>1, <1>2, <1>3, Programs DEF Create, Suspend, Resume, Delete, Operation
<1>4. CASE UNCHANGED vars
  <2>1. call' = call /\ \A s \in Server : Unit(s)' = Unit(s)
    BY <1>4, UnitStays DEF vars
  <2>2. SeenUnit' = SeenUnit /\ SeenCalling' = SeenCalling /\ SeenSpoilt' = SeenSpoilt
    BY <2>1 DEF SeenUnit, SeenCalling, SeenSpoilt
  <2> QED BY <2>2 DEF Contract!vars, SeenUnit, SeenCalling, SeenSpoilt
<1>5. ASSUME NEW s \in Server, Advance(s) \/ Return(s) \/ Vanish(s)
      PROVE  [Contract!Next]_Contract!vars
  BY <1>5, ContractAdvance, ContractReturn, ContractVanish DEF Contract!Next
<1>6. CASE Restart
  BY <1>6, ContractRestart DEF Contract!Next
<1> QED BY <1>3, <1>4, <1>5, <1>6 DEF Next, Contract!Next

\* The Docker operations implement the contract: a call that no fault of Docker
\* disturbed, on a server whose containers were not broken before, moves all
\* three of them or, when a creation fails at any of its steps, none; and what
\* a call does shows on no other server, whatever calls are under way there.
THEOREM ContractKept == Spec => KeepsContract
<1>1. Init => IInv /\ PInv /\ Contract!Init
  BY InitIInv, InitPInv, ContractInit
<1>2. IInv /\ PInv /\ [Next]_vars => IInv' /\ PInv' /\ [Contract!Next]_Contract!vars
  BY StepIInv, StepPInv, ContractStep
<1> QED BY <1>1, <1>2, PTL DEF Spec, KeepsContract, Contract!Safe
=============================================================================
