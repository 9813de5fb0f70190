---------------------------- MODULE DockerProofs ----------------------------
(***************************************************************************)
(* Proofs about the Docker operations, for any set of subdomains, names    *)
(* that meet included, and any number of creations and faults.             *)
(***************************************************************************)
EXTENDS DockerService, TLAPS, SequenceTheorems

(***************************************************************************)
(* Names.                                                                  *)
(***************************************************************************)
LEMMA Prefixed ==
    ASSUME NEW S, NEW a \in S, NEW b \in S, NEW s \in Seq(S)
    PROVE  /\ <<a>> \in Seq(S) /\ <<a, b>> \in Seq(S)
           /\ Len(<<a>> \o s) = 1 + Len(s) /\ (<<a>> \o s)[1] = a
           /\ Len(<<a, b>> \o s) = 2 + Len(s) /\ (<<a, b>> \o s)[1] = a
<1>1. <<a>> \in Seq(S) /\ Len(<<a>>) = 1 /\ <<a>>[1] = a
  OBVIOUS
<1>2. <<a, b>> \in Seq(S) /\ Len(<<a, b>>) = 2 /\ <<a, b>>[1] = a
  OBVIOUS
<1>3. Len(s) \in Nat
  BY LenProperties
<1> QED BY <1>1, <1>2, <1>3, ConcatProperties

\* (The provers do not know that a string literal is in STRING.)
Word == STRING \cup {"server", "preview", "proxy"}

LEMMA Words == \A s \in Server : s \in Seq(Word)
BY ServerAssumption, SeqMonotonic DEF Word

LEMMA Named ==
    ASSUME NEW s
    PROVE  /\ Name(s, "server") = <<"server">> \o s
           /\ Name(s, "preview") = <<"preview">> \o s
           /\ Name(s, "proxy") = <<"preview", "proxy">> \o s
BY DEF Name

\* The three containers of a server have three names.
LEMMA NamesDiffer ==
    ASSUME NEW s \in Server, NEW r \in Role, NEW q \in Role, Name(s, r) = Name(s, q)
    PROVE  r = q
<1>1. s \in Seq(Word) /\ Len(s) \in Nat /\ {"server", "preview", "proxy"} \subseteq Word
  BY Words, LenProperties DEF Word
<1>2. ASSUME NEW a \in Word, NEW b \in Word
      PROVE  /\ (<<a>> \o s)[1] = a /\ Len(<<a>> \o s) = 1 + Len(s)
             /\ (<<a, b>> \o s)[1] = a /\ Len(<<a, b>> \o s) = 2 + Len(s)
  BY <1>1, Prefixed
<1>3. Name(s, "server")[1] = "server"
  BY <1>1, <1>2, Named
<1>4. Name(s, "preview")[1] = "preview" /\ Len(Name(s, "preview")) = 1 + Len(s)
  BY <1>1, <1>2, Named
<1>5. Name(s, "proxy")[1] = "preview" /\ Len(Name(s, "proxy")) = 2 + Len(s)
  <2>1. "preview" \in Word /\ "proxy" \in Word
    BY <1>1
  <2>2. (<<"preview", "proxy">> \o s)[1] = "preview" /\ Len(<<"preview", "proxy">> \o s) = 2 + Len(s)
    BY <1>2, <2>1
  <2> QED BY <2>2, Named
<1> QED BY <1>1, <1>3, <1>4, <1>5 DEF Role

\* No two servers have a name in common for the same role.
LEMMA NamesApart ==
    ASSUME NEW s \in Server, NEW t \in Server, NEW r \in Role, Name(s, r) = Name(t, r)
    PROVE  s = t
<1>1. /\ s \in Seq(Word) /\ t \in Seq(Word)
      /\ {"server", "preview", "proxy"} \subseteq Word
  BY Words DEF Word
<1>2. <<"server">> \in Seq(Word) /\ <<"preview">> \in Seq(Word)
      /\ <<"preview", "proxy">> \in Seq(Word)
  BY <1>1, Prefixed
<1>3. ASSUME NEW p \in Seq(Word), p \o s = p \o t PROVE s = t
  BY <1>1, <1>3, ConcatSimplifications
<1> QED BY <1>2, <1>3, Named DEF Role

(***************************************************************************)
(* The programs as sets of steps, and the order of the steps.              *)
(***************************************************************************)
LEMMA Programs ==
    /\ DOMAIN Program = {"start", "undo", "stop", "suspend", "resume", "ensure"}
    /\ StepsOf["start"] = {<<"run", "server">>, <<"run", "preview">>, <<"run", "proxy">>,
                           <<"save", "row">>}
    /\ StepsOf["undo"] = {"stop", "remove"} \X Role
    /\ StepsOf["stop"] = ({"stop", "remove"} \X Role) \cup {<<"look", "proxy">>}
    /\ StepsOf["suspend"] = ({"stop"} \X Role) \cup {<<"look", "proxy">>}
    /\ StepsOf["resume"] = ({"start"} \X Role) \cup {<<"look", "proxy">>, <<"health", "row">>}
    /\ StepsOf["ensure"] = {<<"start", "proxy">>}
<1>1. DOMAIN Program = {"start", "undo", "stop", "suspend", "resume", "ensure"}
  BY DEF Program
<1>2. StepsOf["start"] = {<<"run", "server">>, <<"run", "preview">>, <<"run", "proxy">>,
                           <<"save", "row">>}
  BY <1>1 DEF StepsOf, Program, StartSteps
<1>3. StepsOf["undo"] = {"stop", "remove"} \X Role
  BY <1>1 DEF StepsOf, Program, UndoSteps, Role
<1>4. StepsOf["stop"] = ({"stop", "remove"} \X Role) \cup {<<"look", "proxy">>}
  BY <1>1 DEF StepsOf, Program, StopSteps, Role
<1>5. StepsOf["suspend"] = ({"stop"} \X Role) \cup {<<"look", "proxy">>}
  BY <1>1 DEF StepsOf, Program, SuspendSteps, Role
<1>6. StepsOf["resume"] = ({"start"} \X Role) \cup {<<"look", "proxy">>, <<"health", "row">>}
  BY <1>1 DEF StepsOf, Program, ResumeSteps, Role
<1>7. StepsOf["ensure"] = {<<"start", "proxy">>}
  BY <1>1 DEF StepsOf, Program, EnsureSteps
<1> QED BY <1>1, <1>2, <1>3, <1>4, <1>5, <1>6, <1>7

\* The order the proofs need: the save comes last; a container is stopped
\* before it is removed; the sidecar is looked for before it is touched, and
\* in a stop before the server container is removed; the health comes last.
LEMMA Orders ==
    ASSUME NEW r \in Role
    PROVE  /\ <<<<"run", r>>, <<"save", "row">>>> \in Order["start"]
           /\ <<<<"stop", r>>, <<"remove", r>>>> \in Order["undo"] \cap Order["stop"]
           /\ <<<<"look", "proxy">>, <<"stop", r>>>> \in Order["stop"]
           /\ <<<<"look", "proxy">>, <<"remove", r>>>> \in Order["stop"]
           /\ <<<<"look", "proxy">>, <<"stop", r>>>> \in Order["suspend"]
           /\ <<<<"look", "proxy">>, <<"start", "proxy">>>> \in Order["resume"]
           /\ <<<<"start", r>>, <<"health", "row">>>> \in Order["resume"]
<1>1. ASSUME NEW p \in DOMAIN Program, NEW a \in Step, NEW b \in Step,
             NEW i \in DOMAIN Program[p], NEW j \in DOMAIN Program[p],
             i < j, Program[p][i] = a, Program[p][j] = b
      PROVE  <<a, b>> \in Order[p]
  BY <1>1 DEF Order
<1>2. DOMAIN Program = {"start", "undo", "stop", "suspend", "resume", "ensure"}
  BY DEF Program
<1>3. /\ \A v \in Verb : <<v, r>> \in Step
      /\ <<"save", "row">> \in Step /\ <<"health", "row">> \in Step
      /\ <<"look", "proxy">> \in Step /\ <<"start", "proxy">> \in Step
  BY DEF Step, Verb, Role
<1>4. <<<<"run", r>>, <<"save", "row">>>> \in Order["start"]
  <2>1. Program["start"] = StartSteps /\ "start" \in DOMAIN Program
    BY DEF Program
  <2>2. PICK i \in 1..3 : Program["start"][i] = <<"run", r>>
    BY <2>1 DEF StartSteps, Role
  <2>3. Program["start"][4] = <<"save", "row">> /\ DOMAIN Program["start"] = 1..4
    BY <2>1 DEF StartSteps
  <2> QED BY <1>1, <1>3, <2>1, <2>2, <2>3 DEF Verb
<1>5. <<<<"stop", r>>, <<"remove", r>>>> \in Order["undo"]
  <2>1. Program["undo"] = UndoSteps /\ "undo" \in DOMAIN Program
    BY DEF Program
  <2>2. PICK i \in 1..5 : /\ Program["undo"][i] = <<"stop", r>>
                          /\ Program["undo"][i + 1] = <<"remove", r>>
    BY <2>1 DEF UndoSteps, Role
  <2>3. DOMAIN Program["undo"] = 1..6
    BY <2>1 DEF UndoSteps
  <2> QED BY <1>1, <1>3, <2>1, <2>2, <2>3 DEF Verb
<1>6. /\ <<<<"stop", r>>, <<"remove", r>>>> \in Order["stop"]
      /\ <<<<"look", "proxy">>, <<"stop", r>>>> \in Order["stop"]
      /\ <<<<"look", "proxy">>, <<"remove", r>>>> \in Order["stop"]
  <2>1. Program["stop"] = StopSteps /\ "stop" \in DOMAIN Program
    BY DEF Program
  <2>2. PICK i \in 2..6 : /\ Program["stop"][i] = <<"stop", r>>
                          /\ Program["stop"][i + 1] = <<"remove", r>>
    BY <2>1 DEF StopSteps, Role
  <2>3. DOMAIN Program["stop"] = 1..7 /\ Program["stop"][1] = <<"look", "proxy">>
    BY <2>1 DEF StopSteps
  <2> QED BY <1>1, <1>3, <2>1, <2>2, <2>3 DEF Verb
<1>7. <<<<"look", "proxy">>, <<"stop", r>>>> \in Order["suspend"]
  <2>1. Program["suspend"] = SuspendSteps /\ "suspend" \in DOMAIN Program
    BY DEF Program
  <2>2. PICK i \in 2..4 : Program["suspend"][i] = <<"stop", r>>
    BY <2>1 DEF SuspendSteps, Role
  <2>3. DOMAIN Program["suspend"] = 1..4 /\ Program["suspend"][1] = <<"look", "proxy">>
    BY <2>1 DEF SuspendSteps
  <2> QED BY <1>1, <1>3, <2>1, <2>2, <2>3 DEF Verb
<1>8. /\ <<<<"look", "proxy">>, <<"start", "proxy">>>> \in Order["resume"]
      /\ <<<<"start", r>>, <<"health", "row">>>> \in Order["resume"]
  <2>1. Program["resume"] = ResumeSteps /\ "resume" \in DOMAIN Program
    BY DEF Program
  <2>2. PICK i \in 1..4 : Program["resume"][i] = <<"start", r>>
    BY <2>1 DEF ResumeSteps, Role
  <2>3. /\ DOMAIN Program["resume"] = 1..5 /\ Program["resume"][3] = <<"look", "proxy">>
        /\ Program["resume"][4] = <<"start", "proxy">> /\ Program["resume"][5] = <<"health", "row">>
    BY <2>1 DEF ResumeSteps
  <2> QED BY <1>1, <1>3, <2>1, <2>2, <2>3 DEF Verb
<1> QED BY <1>4, <1>5, <1>6, <1>7, <1>8

(***************************************************************************)
(* The inductive invariant of the types and of whose containers a call     *)
(* reaches.                                                                *)
(***************************************************************************)
Own(s, r)      == docker[Name(s, r)].srv = s
Known(s, r, g) == Own(s, r) /\ docker[Name(s, r)].gen = g

\* A container has the name that was formed for it.
WellNamed == \A n \in Names : docker[n] # Free => n = Name(docker[n].srv, docker[n].role)

\* The functions a call of each operation may be in.
Runs == [create  |-> {"start", "undo", "stop"}, resume |-> {"resume", "start", "undo"},
         suspend |-> {"suspend"}, delete |-> {"stop"}, ensure |-> {"ensure"}]

Shape(s) ==
    call[s] # Idle =>
        /\ call[s].prog \in Runs[call[s].op]
        /\ call[s].todo \subseteq StepsOf[call[s].prog]
        /\ call[s].prog \in {"stop", "suspend", "resume", "ensure"} => call[s].held = {}

\* A server whose row knows its server container has its own sidecar.
Sidecar(s) == ids[s] # 0 /\ Known(s, "server", ids[s]) => Own(s, "proxy")

Active(s) == s \in active => ServerUp(s) /\ (call[s] = Idle \/ call[s].op = "ensure")

Creating(s) == call[s] # Idle /\ call[s].prog = "start" /\ call[s].todo # {} =>
    /\ <<"save", "row">> \in call[s].todo
    /\ \A r \in Role : <<"run", r>> \notin call[s].todo => Own(s, r)

\* Until its ids are saved, a creation has nothing to do with the old ones.
Unsaved(s) ==
    (/\ call[s] # Idle
     /\ call[s].prog = "undo" \/ (call[s].prog = "start" /\ call[s].todo # {})) =>
    /\ ids[s] < call[s].gen /\ ~Known(s, "server", ids[s])
    /\ call[s].op = "create" => ids[s] = 0
    /\ call[s].prog = "undo" => \A st \in call[s].todo : st[2] \in call[s].held

Given(s) == call[s] # Idle =>
    /\ call[s].gen <= gen[s]
    /\ call[s].prog = "stop" => ids[s] = 0
    /\ call[s].prog \in {"suspend", "resume", "ensure"} => call[s].gen = ids[s] /\ ids[s] # 0
    /\ call[s].prog = "ensure" => s \in active

\* A call that goes by the sidecar's name has first found its own server.
Looked(s) == call[s] # Idle /\ call[s].prog \in {"stop", "suspend", "resume"} =>
    IF <<"look", "proxy">> \in call[s].todo
    THEN Known(s, "server", call[s].gen) => Own(s, "proxy")
    ELSE \A st \in call[s].todo : st[2] = "proxy" => Own(s, "proxy")

Local(s) ==
    /\ Shape(s) /\ Sidecar(s) /\ Active(s) /\ Creating(s) /\ Unsaved(s) /\ Given(s) /\ Looked(s)

Typed == TypeOK /\ WellNamed
IInv  == Typed /\ \A s \in Server : Local(s)

\* A step on behalf of s leaves the containers of the others alone.
Reach(s) == \A n \in Names : docker'[n] # docker[n] =>
                docker[n].srv \in {s, Idle} /\ docker'[n].srv \in {s, Idle}

\* At most one fault, within the bound.
Paced == UNCHANGED faults \/ (faults < MaxFaults /\ faults' = faults + 1)

\* Nothing that concerns t has changed.
Untouched(t) ==
    /\ call'[t] = call[t] /\ ids'[t] = ids[t] /\ gen'[t] = gen[t] /\ (t \in active' <=> t \in active)
    /\ \A r \in Role : \/ Own(t, r) /\ docker'[Name(t, r)] = docker[Name(t, r)]
                       \/ ~Own(t, r) /\ docker'[Name(t, r)].srv # t

LEMMA NamesOf == \A s \in Server, r \in Role : Name(s, r) \in Names
BY DEF Names

LEMMA UntouchedKeeps ==
    ASSUME NEW t \in Server, Local(t), Untouched(t)
    PROVE  Local(t)'
<1>1. \A r \in Role : Own(t, r)' <=> Own(t, r)
  BY DEF Untouched, Own
<1>2. \A r \in Role : \A g : Known(t, r, g)' <=> Known(t, r, g)
  BY DEF Untouched, Own, Known
<1>3. ServerUp(t) => ServerUp(t)'
  BY DEF Untouched, Own, ServerUp, Role
<1>4. "server" \in Role /\ "proxy" \in Role
  BY DEF Role
<1>5. Shape(t)'
  BY DEF Local, Shape, Untouched
<1>6. Sidecar(t)'
  BY <1>1, <1>2, <1>4 DEF Local, Sidecar, Untouched
<1>7. Active(t)'
  BY <1>3 DEF Local, Active, Untouched
<1>8. Creating(t)'
  BY <1>1 DEF Local, Creating, Untouched
<1>9. Unsaved(t)'
  BY <1>2, <1>4 DEF Local, Unsaved, Untouched
<1>10. Given(t)'
  BY DEF Local, Given, Untouched
<1>11. Looked(t)'
  BY <1>1, <1>2, <1>4 DEF Local, Looked, Untouched
<1> QED BY <1>5, <1>6, <1>7, <1>8, <1>9, <1>10, <1>11 DEF Local

LEMMA Elsewhere ==
    ASSUME NEW s \in Server, NEW t \in Server, t # s, Reach(s),
           call'[t] = call[t], ids'[t] = ids[t], gen'[t] = gen[t], t \in active' <=> t \in active
    PROVE  Untouched(t)
BY NamesOf, IdleAssumption DEF Reach, Untouched, Own

\* What a step on behalf of s has to establish.
LEMMA Compose ==
    ASSUME IInv, NEW s \in Server, Typed', Reach(s), Local(s)',
           \A t \in Server \ {s} : /\ call'[t] = call[t] /\ ids'[t] = ids[t] /\ gen'[t] = gen[t]
                                   /\ t \in active' <=> t \in active
    PROVE  IInv'
BY Elsewhere, UntouchedKeeps DEF IInv

(***************************************************************************)
(* One step of a call.                                                     *)
(***************************************************************************)
\* What the operators on calls keep of a call.
LEMMA DoneForm ==
    ASSUME NEW c \in Calls, NEW st \in Step
    PROVE  /\ Done(c, st) \in Calls /\ Done(c, st).todo = c.todo \ {st}
           /\ Done(c, st).op = c.op /\ Done(c, st).prog = c.prog /\ Done(c, st).gen = c.gen
           /\ Done(c, st).held = c.held /\ Done(c, st).was = c.was /\ Done(c, st).hurt = c.hurt
BY DEF Calls, Done

LEMMA SkipForm ==
    ASSUME NEW c \in Calls, NEW r
    PROVE  /\ Skip(c, r) \in Calls /\ Skip(c, r).todo = {st \in c.todo : st[2] # r}
           /\ Skip(c, r).op = c.op /\ Skip(c, r).prog = c.prog /\ Skip(c, r).gen = c.gen
           /\ Skip(c, r).held = c.held /\ Skip(c, r).was = c.was /\ Skip(c, r).hurt = c.hurt
BY DEF Calls, Skip

LEMMA UndoForm ==
    ASSUME NEW c \in Calls
    PROVE  /\ Undo(c) \in Calls /\ Undo(c).todo = {st \in StepsOf["undo"] : st[2] \in c.held}
           /\ Undo(c).op = c.op /\ Undo(c).prog = "undo" /\ Undo(c).gen = c.gen
           /\ Undo(c).held = c.held /\ Undo(c).was = c.was /\ Undo(c).hurt = c.hurt
<1>1. {st \in StepsOf["undo"] : st[2] \in c.held} \in SUBSET Step /\ "undo" \in DOMAIN Program
  BY Programs DEF Step, Verb
<1> QED BY <1>1 DEF Calls, Undo

LEMMA HurtForm ==
    ASSUME NEW c \in Calls
    PROVE  /\ Hurt(c) \in Calls /\ Hurt(c).todo = c.todo /\ Hurt(c).hurt
           /\ Hurt(c).op = c.op /\ Hurt(c).prog = c.prog /\ Hurt(c).gen = c.gen
           /\ Hurt(c).held = c.held /\ Hurt(c).was = c.was
BY DEF Calls, Hurt

LEMMA BeginForm ==
    ASSUME NEW c \in Calls, NEW p \in DOMAIN Program
    PROVE  /\ Begin(c, p) \in Calls /\ Begin(c, p).todo = StepsOf[p] /\ Begin(c, p).prog = p
           /\ Begin(c, p).op = c.op /\ Begin(c, p).gen = c.gen
           /\ Begin(c, p).held = c.held /\ Begin(c, p).was = c.was /\ Begin(c, p).hurt = c.hurt
<1>1. StepsOf[p] \in SUBSET Step
  BY Programs DEF Step, Verb, Role
<1> QED BY <1>1 DEF Calls, Begin

LEMMA HeldForm ==
    ASSUME NEW c \in Calls, NEW r \in Role, NEW d, d = [c EXCEPT !.held = @ \cup {r}]
    PROVE  /\ d \in Calls /\ d.todo = c.todo /\ d.held = c.held \cup {r}
           /\ d.op = c.op /\ d.prog = c.prog /\ d.gen = c.gen /\ d.was = c.was /\ d.hurt = c.hurt
BY DEF Calls

\* A container changes under a name of its server.
LEMMA DockerStep ==
    ASSUME Typed, NEW s \in Server, NEW r \in Role, NEW v,
           v = Free \/ (v \in Container /\ v.srv = s /\ v.role = r),
           docker[Name(s, r)] = Free \/ Own(s, r),
           docker' = [docker EXCEPT ![Name(s, r)] = v]
    PROVE  /\ docker' \in [Names -> Container \cup {Free}] /\ WellNamed' /\ Reach(s)
           /\ docker'[Name(s, r)] = v
           /\ \A q \in Role \ {r} : docker'[Name(s, q)] = docker[Name(s, q)]
<1>1. Name(s, r) \in Names
  BY NamesOf
<1>2. docker' \in [Names -> Container \cup {Free}]
  BY <1>1 DEF Typed, TypeOK
<1>3. WellNamed'
  BY <1>1 DEF Typed, TypeOK, WellNamed
<1>4. Reach(s)
  BY <1>1 DEF Typed, TypeOK, Reach, Own, Free
<1>5. \A q \in Role \ {r} : docker'[Name(s, q)] = docker[Name(s, q)]
  BY NamesDiffer, NamesOf DEF Typed, TypeOK
<1>6. docker'[Name(s, r)] = v
  BY <1>1 DEF Typed, TypeOK
<1> QED BY <1>2, <1>3, <1>4, <1>5, <1>6

LEMMA DockerStays ==
    ASSUME Typed, NEW s \in Server, UNCHANGED docker
    PROVE  /\ docker' \in [Names -> Container \cup {Free}] /\ WellNamed' /\ Reach(s)
           /\ \A r \in Role : Own(s, r)' <=> Own(s, r)
           /\ \A r \in Role, g \in Nat : Known(s, r, g)' <=> Known(s, r, g)
BY DEF Typed, TypeOK, WellNamed, Reach, Own, Known

\* What s owns is in Container.
LEMMA OwnTyped ==
    ASSUME Typed, NEW s \in Server, NEW r \in Role, Own(s, r)
    PROVE  docker[Name(s, r)] \in Container /\ docker[Name(s, r)].role = r
<1>1. docker[Name(s, r)] \in Container \cup {Free} /\ docker[Name(s, r)] # Free
  BY NamesOf, IdleAssumption DEF Typed, TypeOK, Own, Free
<1>2. docker[Name(s, r)].role \in Role
  BY <1>1 DEF Container
<1>3. Name(s, r) = Name(s, docker[Name(s, r)].role)
  BY <1>1, NamesOf DEF Typed, WellNamed, Own
<1> QED BY <1>1, <1>2, <1>3, NamesDiffer

LEMMA CallTyped ==
    ASSUME Typed, NEW s \in Server, NEW c \in Calls, Proceed(s, c), UNCHANGED <<ids, gen, active>>,
           Paced,
           docker' \in [Names -> Container \cup {Free}], WellNamed'
    PROVE  /\ Typed' /\ call'[s] = c
           /\ \A t \in Server \ {s} : /\ call'[t] = call[t] /\ ids'[t] = ids[t] /\ gen'[t] = gen[t]
                                      /\ t \in active' <=> t \in active
<1>1. faults' \in 0..MaxFaults
  BY BoundsAssumption DEF Typed, TypeOK, Paced
<1> QED BY <1>1 DEF Typed, TypeOK, Proceed

\* The verb tells the function.
LEMMA Verbs ==
    ASSUME NEW s \in Server, Shape(s), call[s] # Idle, call[s] \in Calls,
           NEW st \in call[s].todo
    PROVE  /\ st \in Step
           /\ st[1] = "run" => call[s].prog = "start" /\ st[2] \in Role
           /\ st[1] = "save" => call[s].prog = "start" /\ st = <<"save", "row">>
           /\ st[1] = "health" => call[s].prog = "resume" /\ st = <<"health", "row">>
           /\ st[1] = "look" => call[s].prog \in {"stop", "suspend", "resume"} /\ st = <<"look", "proxy">>
           /\ st[1] = "start" => call[s].prog \in {"resume", "ensure"} /\ st[2] \in Role
           /\ st[1] = "stop" => call[s].prog \in {"undo", "stop", "suspend"} /\ st[2] \in Role
           /\ st[1] = "remove" => call[s].prog \in {"undo", "stop"} /\ st[2] \in Role
<1>1. st \in StepsOf[call[s].prog] /\ call[s].prog \in DOMAIN Program /\ st \in Step
  BY DEF Shape, Calls
<1> QED BY <1>1, Programs DEF Role

\* A creation that fails is undone: the containers it has created.
LEMMA Undone ==
    ASSUME IInv, NEW s \in Server, call[s] # Idle, call[s].prog = "start", call[s].todo # {},
           NEW c \in Calls, call'[s] = c, c.prog = "undo", c.op = call[s].op, c.gen = call[s].gen,
           c.todo = {st \in StepsOf["undo"] : st[2] \in c.held},
           ids'[s] = ids[s], gen'[s] = gen[s], s \in active' <=> s \in active,
           ~Known(s, "server", ids[s])'
    PROVE  Local(s)'
<1>1. Local(s) /\ ids[s] < call[s].gen
  BY DEF IInv, Local, Unsaved
<1>2. c # Idle /\ s \notin active
  BY <1>1, IdleAssumption DEF Local, Active, Shape, Runs, Calls, Operation
<1>3. Shape(s)'
  BY <1>1, <1>2 DEF Local, Shape, Runs, Calls, Operation
<1>4. Sidecar(s)'
  BY DEF Sidecar, Known
<1>5. Active(s)' /\ Creating(s)' /\ Given(s)' /\ Looked(s)'
  BY <1>1, <1>2 DEF Local, Active, Creating, Given, Looked
<1>6. Unsaved(s)'
  BY <1>1, <1>2 DEF Local, Unsaved
<1> QED BY <1>3, <1>4, <1>5, <1>6 DEF Local

LEMMA RunStep ==
    ASSUME IInv, NEW s \in Server, call[s] # Idle, NEW role \in Role,
           <<"run", role>> \in call[s].todo,
           UNCHANGED <<ids, gen, active>>, Run(s, role)
    PROVE  IInv' /\ Reach(s)
<1> DEFINE Made(st) == docker' = [docker EXCEPT ![Name(s, role)] =
                           [srv |-> s, role |-> role, gen |-> call[s].gen, st |-> st]]
<1>1. /\ Typed /\ Local(s) /\ call[s] \in Calls
      /\ call[s].prog = "start" /\ <<"run", role>> \in Step
  BY Verbs DEF IInv, Local, Typed, TypeOK
<1>2. /\ ids[s] < call[s].gen /\ ~Known(s, "server", ids[s]) /\ ids[s] \in Nat
      /\ call[s].op = "create" => ids[s] = 0
  BY <1>1 DEF Local, Unsaved, Typed, TypeOK
<1>3. PICK made : made = [call[s] EXCEPT !.held = @ \cup {role}]
  OBVIOUS
<1>4. /\ made \in Calls /\ made.todo = call[s].todo /\ made.prog = "start"
      /\ made.op = call[s].op /\ made.gen = call[s].gen
  BY <1>1, <1>3, HeldForm
<1>5. ASSUME NEW st \in {"up", "created"}, docker[Name(s, role)] = Free, Made(st)
      PROVE  /\ docker' \in [Names -> Container \cup {Free}] /\ WellNamed' /\ Reach(s)
             /\ Own(s, role)' /\ ~Known(s, "server", ids[s])'
             /\ \A q \in Role : Own(s, q) => Own(s, q)'
  <2> DEFINE v == [srv |-> s, role |-> role, gen |-> call[s].gen, st |-> st]
  <2>1. v \in Container
    BY <1>1, <1>2 DEF Container, Calls
  <2>2. /\ docker' \in [Names -> Container \cup {Free}] /\ WellNamed' /\ Reach(s)
        /\ docker'[Name(s, role)] = v
        /\ \A q \in Role \ {role} : docker'[Name(s, q)] = docker[Name(s, q)]
    BY <1>1, <1>5, <2>1, DockerStep
  <2> QED BY <1>1, <1>2, <2>2 DEF Own, Known, Role, Typed, TypeOK
<1>6. ASSUME NEW c \in Calls, Proceed(s, c), c.prog = "undo", c.op = call[s].op, c.gen = call[s].gen,
             c.todo = {st \in StepsOf["undo"] : st[2] \in c.held},
             docker' \in [Names -> Container \cup {Free}], WellNamed', Reach(s),
             ~Known(s, "server", ids[s])',
             Paced
      PROVE  IInv' /\ Reach(s)
  <2>1. Typed' /\ call'[s] = c
        /\ \A t \in Server \ {s} : /\ call'[t] = call[t] /\ ids'[t] = ids[t] /\ gen'[t] = gen[t]
                                   /\ t \in active' <=> t \in active
    BY <1>1, <1>6, CallTyped
  <2>2. Local(s)'
    BY <1>1, <1>6, <2>1, Undone
  <2> QED BY <1>6, <2>1, <2>2, Compose
<1>7. CASE /\ docker[Name(s, role)] = Free /\ Made("up")
           /\ Proceed(s, Done(made, <<"run", role>>)) /\ UNCHANGED faults
  <2>1. PICK c : c = Done(made, <<"run", role>>)
    OBVIOUS
  <2>2. c \in Calls /\ c.todo = call[s].todo \ {<<"run", role>>} /\ c.prog = "start"
        /\ c.op = call[s].op /\ c.gen = call[s].gen /\ c # Idle
    BY <1>1, <1>4, <2>1, DoneForm, IdleAssumption
  <2>3. Typed' /\ call'[s] = c
        /\ \A t \in Server \ {s} : /\ call'[t] = call[t] /\ ids'[t] = ids[t] /\ gen'[t] = gen[t]
                                   /\ t \in active' <=> t \in active
    <3>1. Proceed(s, c)
      BY <1>7, <2>1
    <3>2. docker' \in [Names -> Container \cup {Free}] /\ WellNamed' /\ Paced
      BY <1>5, <1>7 DEF Paced
    <3> QED BY <1>1, <2>2, <3>1, <3>2, CallTyped
  <2>4. s \notin active
    BY <1>1 DEF Local, Active, Shape, Runs, Calls, Operation
  <2>5. Shape(s)'
    BY <1>1, <2>2, <2>3 DEF Local, Shape
  <2>6. Sidecar(s)' /\ Active(s)' /\ Given(s)' /\ Looked(s)'
    BY <1>1, <1>5, <1>7, <2>2, <2>3, <2>4 DEF Local, Sidecar, Known, Active, Given, Looked
  <2>7. Creating(s)'
    BY <1>1, <1>5, <1>7, <2>2, <2>3 DEF Local, Creating
  <2>8. Unsaved(s)'
    BY <1>1, <1>2, <1>5, <1>7, <2>2, <2>3 DEF Unsaved
  <2> QED BY <1>5, <1>7, <2>3, <2>5, <2>6, <2>7, <2>8, Compose DEF Local
<1>8. CASE /\ docker[Name(s, role)] = Free /\ Made("up")
           /\ Proceed(s, Undo(made)) /\ Fault("connect")
  BY <1>4, <1>5, <1>6, <1>8, UndoForm DEF Fault, Paced
<1>9. CASE Proceed(s, Undo(call[s])) /\ UNCHANGED docker /\ (UNCHANGED faults \/ Fault("refused"))
  <2>1. /\ docker' \in [Names -> Container \cup {Free}] /\ WellNamed' /\ Reach(s)
        /\ ~Known(s, "server", ids[s])'
    BY <1>1, <1>2, <1>9, DockerStays DEF Known, Own
  <2>2. PICK c : c = Undo(call[s])
    OBVIOUS
  <2>3. /\ c \in Calls /\ c.prog = "undo" /\ c.op = call[s].op /\ c.gen = call[s].gen
        /\ c.todo = {st \in StepsOf["undo"] : st[2] \in c.held}
    BY <1>1, <2>2, UndoForm
  <2>4. Proceed(s, c) /\ Paced
    BY <1>9, <2>2 DEF Fault, Paced
  <2> QED BY <1>6, <2>1, <2>3, <2>4
<1>10. CASE /\ docker[Name(s, role)] = Free /\ Made("created")
            /\ Proceed(s, Hurt(Undo(call[s]))) /\ Fault("half")
  <2>1. /\ docker' \in [Names -> Container \cup {Free}] /\ WellNamed' /\ Reach(s)
        /\ ~Known(s, "server", ids[s])'
    BY <1>5, <1>10
  <2>2. PICK c : c = Hurt(Undo(call[s]))
    OBVIOUS
  <2>3. /\ c \in Calls /\ c.prog = "undo" /\ c.op = call[s].op /\ c.gen = call[s].gen
        /\ c.todo = {st \in StepsOf["undo"] : st[2] \in c.held}
    <3>1. PICK d : d = Undo(call[s])
      OBVIOUS
    <3>2. /\ d \in Calls /\ d.prog = "undo" /\ d.op = call[s].op /\ d.gen = call[s].gen
          /\ d.todo = {st \in StepsOf["undo"] : st[2] \in d.held}
      BY <1>1, <3>1, UndoForm
    <3> QED BY <2>2, <3>1, <3>2, HurtForm
  <2>4. Proceed(s, c) /\ Paced
    BY <1>10, <2>2 DEF Fault, Paced
  <2> QED BY <1>6, <2>1, <2>3, <2>4
<1> QED BY <1>3, <1>7, <1>8, <1>9, <1>10 DEF Run

\* The row of a server is active only while no call but ensure is on it.
LEMMA NotActive ==
    ASSUME NEW s \in Server, Local(s), call[s] # Idle, call[s] \in Calls, call[s].prog # "ensure"
    PROVE  s \notin active
BY DEF Local, Active, Shape, Runs, Calls, Operation

\* A step that leaves whose containers are whose, and does not save.
LEMMA Onward ==
    ASSUME IInv, NEW s \in Server, call[s] # Idle, call[s].prog # "start",
           NEW c \in Calls, call'[s] = c, c.op = call[s].op, c.prog = call[s].prog,
           c.gen = call[s].gen, c.held = call[s].held, c.todo \subseteq call[s].todo,
           ids'[s] = ids[s], gen'[s] = gen[s], s \in active' <=> s \in active,
           \A r \in Role : Own(s, r)' <=> Own(s, r),
           \A r \in Role : \A g \in Nat : Known(s, r, g)' <=> Known(s, r, g),
           s \in active => ServerUp(s)',
           \/ <<"look", "proxy">> \in c.todo <=> <<"look", "proxy">> \in call[s].todo
           \/ Own(s, "proxy")
           \/ \A st \in c.todo : st[2] # "proxy"
    PROVE  Local(s)'
<1>1. Local(s) /\ c # Idle /\ ids[s] \in Nat /\ call[s].gen \in Nat /\ call[s] \in Calls
  BY IdleAssumption DEF IInv, Typed, TypeOK, Calls
<1>2. "server" \in Role /\ "proxy" \in Role
  BY DEF Role
<1>3. Shape(s)'
  BY <1>1 DEF Local, Shape
<1>4. Sidecar(s)'
  BY <1>1, <1>2 DEF Local, Sidecar
<1>5. Active(s)'
  BY <1>1 DEF Local, Active
<1>6. Creating(s)'
  BY <1>1 DEF Creating
<1>7. Unsaved(s)'
  BY <1>1, <1>2 DEF Local, Unsaved
<1>8. Given(s)'
  BY <1>1 DEF Local, Given
<1>9. Looked(s)'
  <2>1. ASSUME c.prog \in {"stop", "suspend", "resume"}, <<"look", "proxy">> \in c.todo,
               Known(s, "server", c.gen)'
        PROVE  Own(s, "proxy")'
    BY <1>1, <1>2, <2>1 DEF Local, Looked
  <2>2. ASSUME c.prog \in {"stop", "suspend", "resume"}, <<"look", "proxy">> \notin c.todo,
               NEW st \in c.todo, st[2] = "proxy"
        PROVE  Own(s, "proxy")'
    BY <1>1, <1>2, <2>2 DEF Local, Looked
  <2> QED BY <2>1, <2>2 DEF Looked
<1> QED BY <1>3, <1>4, <1>5, <1>6, <1>7, <1>8, <1>9 DEF Local

\* A request that finds nothing or fails ends its block.
LEMMA Skipped ==
    ASSUME IInv, NEW s \in Server, call[s] # Idle, call[s].prog # "start", NEW r \in Role,
           NEW c \in Calls, Proceed(s, c), c.op = call[s].op, c.prog = call[s].prog,
           c.gen = call[s].gen, c.held = call[s].held,
           c.todo = {st \in call[s].todo : st[2] # r},
           UNCHANGED <<docker, ids, gen, active>>, Paced
    PROVE  IInv' /\ Reach(s)
<1>1. /\ docker' \in [Names -> Container \cup {Free}] /\ WellNamed' /\ Reach(s)
      /\ \A q \in Role : Own(s, q)' <=> Own(s, q)
      /\ \A q \in Role : \A g \in Nat : Known(s, q, g)' <=> Known(s, q, g)
  BY DockerStays DEF IInv
<1>2. Typed' /\ call'[s] = c
      /\ \A t \in Server \ {s} : /\ call'[t] = call[t] /\ ids'[t] = ids[t] /\ gen'[t] = gen[t]
                                 /\ t \in active' <=> t \in active
  BY <1>1, CallTyped DEF IInv
<1>3. s \in active => ServerUp(s)'
  BY DEF IInv, Local, Active, ServerUp
<1>4. \/ <<"look", "proxy">> \in c.todo <=> <<"look", "proxy">> \in call[s].todo
      \/ \A st \in c.todo : st[2] # "proxy"
  OBVIOUS
<1>5. Local(s)'
  BY <1>1, <1>2, <1>3, <1>4, Onward
<1> QED BY <1>1, <1>2, <1>5, Compose

LEMMA LookStep ==
    ASSUME IInv, NEW s \in Server, call[s] # Idle, <<"look", "proxy">> \in call[s].todo,
           UNCHANGED <<ids, gen, active>>, Look(s)
    PROVE  IInv' /\ Reach(s)
<1>1. /\ Typed /\ Local(s) /\ call[s] \in Calls /\ <<"look", "proxy">> \in Step
      /\ call[s].prog \in {"stop", "suspend", "resume"}
  BY Verbs DEF IInv, Local, Typed, TypeOK
<1>2. CASE ~Finds(s, "server")
  <2>1. PICK c : c = Skip(call[s], "proxy")
    OBVIOUS
  <2> QED BY <1>1, <1>2, <2>1, SkipForm, Skipped DEF Look, Paced, Role
<1>3. CASE Finds(s, "server")
  <2>1. PICK c : c = Done(call[s], <<"look", "proxy">>)
    OBVIOUS
  <2>2. /\ c \in Calls /\ c.op = call[s].op /\ c.prog = call[s].prog /\ c.gen = call[s].gen
        /\ c.held = call[s].held /\ c.todo \subseteq call[s].todo
    BY <1>1, <2>1, DoneForm
  <2>3. Proceed(s, c) /\ UNCHANGED docker /\ Paced
    BY <1>3, <2>1 DEF Look, Paced
  <2>4. /\ docker' \in [Names -> Container \cup {Free}] /\ WellNamed' /\ Reach(s)
        /\ \A q \in Role : Own(s, q)' <=> Own(s, q)
        /\ \A q \in Role : \A g \in Nat : Known(s, q, g)' <=> Known(s, q, g)
    BY <1>1, <2>3, DockerStays
  <2>5. Typed' /\ call'[s] = c
        /\ \A t \in Server \ {s} : /\ call'[t] = call[t] /\ ids'[t] = ids[t] /\ gen'[t] = gen[t]
                                   /\ t \in active' <=> t \in active
    BY <1>1, <2>2, <2>3, <2>4, CallTyped
  <2>6. Own(s, "proxy")
    BY <1>1, <1>3 DEF Local, Looked, Finds, Known, Own
  <2>7. s \in active => ServerUp(s)'
    BY <1>1, <2>3 DEF Local, Active, ServerUp
  <2>8. Local(s)'
    BY <1>1, <2>2, <2>4, <2>5, <2>6, <2>7, Onward
  <2> QED BY <2>4, <2>5, <2>8, Compose
<1> QED BY <1>2, <1>3

LEMMA ApiErrorStep ==
    ASSUME IInv, NEW s \in Server, call[s] # Idle, NEW st \in call[s].todo,
           UNCHANGED <<ids, gen, active>>, ApiError(s, st[1], st[2])
    PROVE  IInv' /\ Reach(s)
<1>1. /\ Typed /\ Local(s) /\ call[s] \in Calls /\ call[s].prog # "start" /\ st[2] \in Role
  BY Verbs DEF IInv, Local, Typed, TypeOK, ApiError, Role
<1>2. PICK d : d = Skip(call[s], st[2])
  OBVIOUS
<1>3. PICK c : c = Hurt(d)
  OBVIOUS
<1>4. /\ d \in Calls /\ d.op = call[s].op /\ d.prog = call[s].prog /\ d.gen = call[s].gen
      /\ d.held = call[s].held /\ d.todo = {other \in call[s].todo : other[2] # st[2]}
  BY <1>1, <1>2, SkipForm
<1>5. /\ c \in Calls /\ c.op = call[s].op /\ c.prog = call[s].prog /\ c.gen = call[s].gen
      /\ c.held = call[s].held /\ c.todo = {other \in call[s].todo : other[2] # st[2]}
  BY <1>3, <1>4, HurtForm
<1>6. Proceed(s, c) /\ UNCHANGED docker /\ Paced
  BY <1>2, <1>3 DEF ApiError, Fault, Paced
<1> QED BY <1>1, <1>5, <1>6, Skipped

\* What stop, remove and start find is the server's own container: by its id,
\* or, for the sidecar, because the server's own container was found before.
LEMMA FoundIsOwn ==
    ASSUME IInv, NEW s \in Server, call[s] # Idle, NEW verb \in {"stop", "remove", "start"},
           NEW role, <<verb, role>> \in call[s].todo, Due(call[s], <<verb, role>>),
           Finds(s, role)
    PROVE  Own(s, role)
<1>1. /\ Local(s) /\ call[s] \in Calls /\ role \in Role
      /\ verb = "start" => call[s].prog \in {"resume", "ensure"}
      /\ verb = "stop" => call[s].prog \in {"undo", "stop", "suspend"}
      /\ verb = "remove" => call[s].prog \in {"undo", "stop"}
  BY Verbs DEF IInv, Local, Typed, TypeOK
<1>2. CASE role # "proxy" \/ role \in call[s].held
  BY <1>2 DEF Finds, Own
<1>3. CASE call[s].prog = "undo"
  BY <1>1, <1>3 DEF Finds, Own, Local, Unsaved
<1>4. CASE call[s].prog = "ensure"
  BY <1>1, <1>4, Programs, "server" \in Role, ids[s] \in Nat
     DEF Local, Shape, Given, Active, Sidecar, ServerUp, Known, Own, Role, IInv, Typed, TypeOK
<1>5. CASE call[s].prog \in {"stop", "suspend", "resume"} /\ role = "proxy"
  <2>1. <<"look", "proxy">> \notin call[s].todo
    BY <1>1, <1>5, Orders DEF Due
  <2> QED BY <1>1, <1>5, <2>1 DEF Local, Looked
<1> QED BY <1>1, <1>2, <1>3, <1>4, <1>5

LEMMA ManageStep ==
    ASSUME IInv, NEW s \in Server, call[s] # Idle, NEW verb \in {"stop", "remove", "start"},
           NEW role, <<verb, role>> \in call[s].todo, Due(call[s], <<verb, role>>),
           UNCHANGED <<ids, gen, active>>, Manage(s, verb, role)
    PROVE  IInv' /\ Reach(s)
<1>1. /\ Typed /\ Local(s) /\ call[s] \in Calls /\ call[s].prog # "start" /\ role \in Role
      /\ <<verb, role>> \in Step
      /\ verb = "start" => call[s].prog \in {"resume", "ensure"}
      /\ verb = "stop" => call[s].prog \in {"undo", "stop", "suspend"}
      /\ verb = "remove" => call[s].prog \in {"undo", "stop"}
  BY Verbs DEF IInv, Local, Typed, TypeOK
<1>2. CASE Proceed(s, Skip(call[s], role)) /\ UNCHANGED <<docker, faults>>
  <2>1. PICK c : c = Skip(call[s], role)
    OBVIOUS
  <2> QED BY <1>1, <1>2, <2>1, SkipForm, Skipped DEF Paced
<1>3. CASE /\ Finds(s, role) /\ Proceed(s, Done(call[s], <<verb, role>>)) /\ UNCHANGED faults
           /\ \/ verb = "start" /\ Becomes(Name(s, role), "up")
              \/ verb = "stop" /\ Becomes(Name(s, role), IF docker[Name(s, role)].st = "up" THEN "exited"
                                                          ELSE docker[Name(s, role)].st)
              \/ verb = "remove" /\ docker' = [docker EXCEPT ![Name(s, role)] = Free]
  <2>1. PICK c : c = Done(call[s], <<verb, role>>)
    OBVIOUS
  <2>2. /\ c \in Calls /\ c.op = call[s].op /\ c.prog = call[s].prog /\ c.gen = call[s].gen
        /\ c.held = call[s].held /\ c.todo = call[s].todo \ {<<verb, role>>} /\ c # Idle
    BY <1>1, <2>1, DoneForm, IdleAssumption
  <2>3. Proceed(s, c) /\ Paced
    BY <1>3, <2>1 DEF Paced
  <2>4. Own(s, role)
    BY <1>3, FoundIsOwn
  <2>5. docker[Name(s, role)] \in Container /\ docker[Name(s, role)].role = role
    BY <1>1, <2>4, OwnTyped
  <2>6. CASE verb = "remove" /\ docker' = [docker EXCEPT ![Name(s, role)] = Free]
    <3>1. /\ docker' \in [Names -> Container \cup {Free}] /\ WellNamed' /\ Reach(s)
          /\ docker'[Name(s, role)] = Free
          /\ \A q \in Role \ {role} : docker'[Name(s, q)] = docker[Name(s, q)]
      BY <1>1, <2>4, <2>6, DockerStep
    <3>2. /\ ~Own(s, role)'
          /\ \A q \in Role \ {role} : Own(s, q)' <=> Own(s, q)
          /\ \A q \in Role : \A g \in Nat : Known(s, q, g)' => Known(s, q, g)
      BY <3>1, IdleAssumption DEF Own, Known, Free
    <3>3. Typed' /\ call'[s] = c
          /\ \A t \in Server \ {s} : /\ call'[t] = call[t] /\ ids'[t] = ids[t] /\ gen'[t] = gen[t]
                                     /\ t \in active' <=> t \in active
      BY <1>1, <2>2, <2>3, <3>1, CallTyped
    <3>4. /\ ids'[s] = ids[s] /\ ids[s] \in Nat /\ c.prog \in {"undo", "stop"} /\ "server" \in Role
          /\ s \notin active'
      BY <1>1, <2>2, <2>6, NotActive DEF Typed, TypeOK, Role
    <3>5. Shape(s)'
      BY <1>1, <2>2, <3>3 DEF Local, Shape
    <3>6. Sidecar(s)'
      BY <1>1, <2>2, <3>2, <3>4 DEF Local, Sidecar, Unsaved, Given
    <3>7. Active(s)' /\ Creating(s)'
      BY <3>3, <3>4 DEF Active, Creating
    <3>8. Unsaved(s)'
      BY <1>1, <2>2, <3>2, <3>3, <3>4 DEF Local, Unsaved
    <3>9. Given(s)'
      BY <1>1, <2>2, <3>3, <3>4 DEF Local, Given
    <3>10. Looked(s)'
      <4>1. CASE c.prog = "stop"
        <5>1. <<"look", "proxy">> \notin call[s].todo /\ <<"stop", role>> \notin call[s].todo
          BY <1>1, <2>2, <2>6, <4>1, Orders DEF Due
        <5>2. ASSUME NEW st \in c.todo, st[2] = "proxy" PROVE Own(s, "proxy")'
          <6>1. st \in StepsOf["stop"] /\ st # <<"remove", role>> /\ st # <<"stop", role>>
                /\ st # <<"look", "proxy">>
            BY <1>1, <2>2, <2>6, <4>1, <5>1, <5>2 DEF Local, Shape
          <6>2. role # "proxy"
            BY <5>2, <6>1, Programs
          <6> QED BY <1>1, <2>2, <3>2, <4>1, <5>1, <5>2, <6>2 DEF Local, Looked, Role
        <5> QED BY <2>2, <3>3, <5>1, <5>2 DEF Looked
      <4>2. CASE c.prog = "undo"
        BY <3>3, <4>2 DEF Looked
      <4> QED BY <3>4, <4>1, <4>2
    <3> QED BY <3>1, <3>3, <3>5, <3>6, <3>7, <3>8, <3>9, <3>10, Compose DEF Local
  <2>7. ASSUME NEW state \in {"created", "up", "exited"}, verb \in {"start", "stop"},
               docker' = [docker EXCEPT ![Name(s, role)].st = state]
        PROVE  IInv' /\ Reach(s)
    <3>1. PICK v : v = [docker[Name(s, role)] EXCEPT !.st = state]
      OBVIOUS
    <3>2. v \in Container /\ v.srv = s /\ v.role = role /\ v.gen = docker[Name(s, role)].gen
      BY <2>4, <2>5, <3>1 DEF Container, Own
    <3>3. /\ docker' \in [Names -> Container \cup {Free}] /\ WellNamed' /\ Reach(s)
          /\ docker'[Name(s, role)] = v
          /\ \A q \in Role \ {role} : docker'[Name(s, q)] = docker[Name(s, q)]
      BY <1>1, <2>4, <2>7, <3>1, <3>2, DockerStep
    <3>4. /\ \A q \in Role : Own(s, q)' <=> Own(s, q)
          /\ \A q \in Role : \A g \in Nat : Known(s, q, g)' <=> Known(s, q, g)
      BY <2>4, <3>2, <3>3 DEF Own, Known
    <3>5. Typed' /\ call'[s] = c
          /\ \A t \in Server \ {s} : /\ call'[t] = call[t] /\ ids'[t] = ids[t] /\ gen'[t] = gen[t]
                                     /\ t \in active' <=> t \in active
      BY <1>1, <2>2, <2>3, <3>3, CallTyped
    <3>6. s \in active => ServerUp(s)'
      <4>1. SUFFICES ASSUME s \in active PROVE ServerUp(s)'
        OBVIOUS
      <4>2. call[s].prog = "ensure" /\ role = "proxy" /\ ServerUp(s)
        BY <1>1, <4>1, NotActive, Programs DEF Local, Shape, Active
      <4> QED BY <3>3, <4>2 DEF ServerUp, Role
    <3>7. <<"look", "proxy">> \in c.todo <=> <<"look", "proxy">> \in call[s].todo
      BY <2>2
    <3>8. Local(s)'
      BY <1>1, <2>2, <3>4, <3>5, <3>6, <3>7, Onward
    <3> QED BY <3>3, <3>5, <3>8, Compose
  <2>8. CASE verb = "start" /\ Becomes(Name(s, role), "up")
    BY <2>7, <2>8 DEF Becomes
  <2>9. CASE verb = "stop" /\ Becomes(Name(s, role), IF docker[Name(s, role)].st = "up" THEN "exited"
                                                     ELSE docker[Name(s, role)].st)
    BY <2>5, <2>7, <2>9 DEF Becomes, Container
  <2> QED BY <1>3, <2>6, <2>8, <2>9
<1> QED BY <1>2, <1>3 DEF Manage

\* When the save is due, everything has been created and nothing else is left.
LEMMA SaveDue ==
    ASSUME NEW s \in Server, Local(s), call[s] # Idle, call[s] \in Calls,
           <<"save", "row">> \in call[s].todo, Due(call[s], <<"save", "row">>)
    PROVE  /\ call[s].prog = "start" /\ call[s].todo = {<<"save", "row">>}
           /\ \A r \in Role : Own(s, r)
<1>1. call[s].prog = "start" /\ call[s].todo \subseteq StepsOf["start"]
  BY Verbs DEF Local, Shape
<1>2. \A r \in Role : <<"run", r>> \notin call[s].todo
  BY <1>1, Orders DEF Due
<1>3. call[s].todo = {<<"save", "row">>}
  BY <1>1, <1>2, Programs DEF Role
<1> QED BY <1>1, <1>2, <1>3 DEF Local, Creating

LEMMA SaveStep ==
    ASSUME IInv, NEW s \in Server, call[s] # Idle,
           <<"save", "row">> \in call[s].todo, Due(call[s], <<"save", "row">>),
           UNCHANGED active, Save(s)
    PROVE  IInv' /\ Reach(s)
<1>1. /\ Typed /\ Local(s) /\ call[s] \in Calls /\ <<"save", "row">> \in Step
      /\ call[s].prog = "start" /\ call[s].todo = {<<"save", "row">>}
      /\ Own(s, "proxy")
      /\ UNCHANGED <<docker, gen>> /\ ids[s] \in Nat /\ gen[s] \in Nat
  BY SaveDue, Verbs DEF IInv, Local, Typed, TypeOK, Save, Role
<1>2. PICK saved : saved = Done(call[s], <<"save", "row">>)
  OBVIOUS
<1>3. /\ saved \in Calls /\ saved.todo = {} /\ saved.prog = "start"
      /\ saved.op = call[s].op /\ saved.gen = call[s].gen
  BY <1>1, <1>2, DoneForm
<1>4. /\ docker' \in [Names -> Container \cup {Free}] /\ WellNamed' /\ Reach(s) /\ Own(s, "proxy")'
      /\ \A q \in Role : \A g \in Nat : Known(s, q, g)' <=> Known(s, q, g)
  BY <1>1, DockerStays DEF Role
<1>5. /\ s \notin active /\ call[s].gen \in Nat /\ call[s].gen <= gen[s]
      /\ call[s].op = "create" => ids[s] = 0
  BY <1>1, NotActive DEF Local, Unsaved, Given, Calls
<1>6. ASSUME NEW c \in Calls, Proceed(s, c), c.todo = {}, c.prog = "start", c.op = call[s].op,
             c.gen = call[s].gen, Paced, NEW v \in {ids[s], call[s].gen}, ids' = [ids EXCEPT ![s] = v]
      PROVE  IInv' /\ Reach(s)
  <2>1. Typed' /\ call'[s] = c
        /\ \A t \in Server \ {s} : /\ call'[t] = call[t] /\ ids'[t] = ids[t] /\ gen'[t] = gen[t]
                                   /\ t \in active' <=> t \in active
    BY <1>1, <1>4, <1>5, <1>6, BoundsAssumption DEF Typed, TypeOK, Paced, Proceed
  <2>2. Local(s)'
    BY <1>1, <1>4, <1>5, <1>6, <2>1
       DEF Local, Shape, Sidecar, Active, Creating, Unsaved, Given, Looked
  <2> QED BY <1>4, <2>1, <2>2, Compose
<1>7. CASE ids' = [ids EXCEPT ![s] = call[s].gen] /\ Proceed(s, saved) /\ UNCHANGED faults
  BY <1>3, <1>6, <1>7 DEF Paced
<1>8. CASE Fault("save") /\ UNCHANGED ids /\ Proceed(s, Hurt(saved))
  <2>1. ids' = [ids EXCEPT ![s] = ids[s]] /\ Paced
    BY <1>1, <1>8 DEF Typed, TypeOK, Fault, Paced
  <2>2. PICK c : c = Hurt(saved)
    OBVIOUS
  <2>3. c \in Calls /\ c.todo = {} /\ c.prog = "start" /\ c.op = call[s].op /\ c.gen = call[s].gen
    BY <1>3, <2>2, HurtForm
  <2> QED BY <1>6, <1>8, <2>1, <2>2, <2>3
<1>9. CASE /\ Fault("save") /\ UNCHANGED ids /\ call[s].op = "create"
           /\ Proceed(s, [Begin(call[s], "stop") EXCEPT !.held = {}])
  <2>1. PICK c : c = [Begin(call[s], "stop") EXCEPT !.held = {}]
    OBVIOUS
  <2>2. PICK d : d = Begin(call[s], "stop")
    OBVIOUS
  <2>3. /\ d \in Calls /\ d.todo = StepsOf["stop"] /\ d.prog = "stop"
        /\ d.op = call[s].op /\ d.gen = call[s].gen
    BY <1>1, <2>2, Programs, BeginForm
  <2>4. /\ c \in Calls /\ c.todo = StepsOf["stop"] /\ c.prog = "stop" /\ c.held = {}
        /\ c.op = "create" /\ c.gen = call[s].gen /\ c # Idle
    BY <1>9, <2>1, <2>2, <2>3, IdleAssumption DEF Calls
  <2>5. Proceed(s, c) /\ Paced
    BY <1>9, <2>1 DEF Fault, Paced
  <2>6. Typed' /\ call'[s] = c
        /\ \A t \in Server \ {s} : /\ call'[t] = call[t] /\ ids'[t] = ids[t] /\ gen'[t] = gen[t]
                                   /\ t \in active' <=> t \in active
    BY <1>1, <1>4, <1>9, <2>4, <2>5, CallTyped
  <2>7. <<"look", "proxy">> \in StepsOf["stop"]
    BY Programs
  <2>8. Shape(s)'
    BY <2>4, <2>6 DEF Shape, Runs
  <2>9. Sidecar(s)' /\ Active(s)' /\ Creating(s)' /\ Unsaved(s)' /\ Looked(s)'
    BY <1>4, <1>5, <1>1, <2>4, <2>6, <2>7 DEF Sidecar, Active, Creating, Unsaved, Looked
  <2>10. Given(s)'
    BY <1>1, <1>5, <1>9, <2>4, <2>6 DEF Given
  <2> QED BY <1>4, <2>6, <2>8, <2>9, <2>10, Compose DEF Local
<1> QED BY <1>2, <1>7, <1>8, <1>9 DEF Save

LEMMA HealthStep ==
    ASSUME IInv, NEW s \in Server, call[s] # Idle,
           <<"health", "row">> \in call[s].todo, UNCHANGED active, Health(s)
    PROVE  IInv' /\ Reach(s)
<1>1. /\ Typed /\ Local(s) /\ call[s] \in Calls /\ <<"health", "row">> \in Step
      /\ call[s].prog = "resume" /\ UNCHANGED <<docker, ids, faults>> /\ ids[s] \in Nat /\ gen[s] \in Nat
  BY Verbs DEF IInv, Local, Typed, TypeOK, Health
<1>2. /\ docker' \in [Names -> Container \cup {Free}] /\ WellNamed' /\ Reach(s)
      /\ \A q \in Role : Own(s, q)' <=> Own(s, q)
      /\ \A q \in Role : \A g \in Nat : Known(s, q, g)' <=> Known(s, q, g)
  BY <1>1, DockerStays
<1>3. /\ s \notin active /\ call[s].op = "resume" /\ call[s].gen = ids[s] /\ "server" \in Role
      /\ call[s].held = {}
  BY <1>1, NotActive DEF Local, Shape, Given, Runs, Calls, Operation, Role
<1>4. CASE /\ ~Finds(s, "server") /\ gen[s] < MaxGen[s] /\ gen' = [gen EXCEPT ![s] = @ + 1]
           /\ Proceed(s, [Begin(call[s], "start") EXCEPT !.gen = gen'[s]])
  <2>1. gen'[s] = gen[s] + 1 /\ gen'[s] \in Nat
    BY <1>1, <1>4 DEF Typed, TypeOK
  <2>2. PICK d : d = Begin(call[s], "start")
    OBVIOUS
  <2>3. PICK c : c = [d EXCEPT !.gen = gen'[s]]
    OBVIOUS
  <2>4. /\ d \in Calls /\ d.todo = StepsOf["start"] /\ d.prog = "start"
        /\ d.op = "resume"
    BY <1>1, <1>3, <2>2, Programs, BeginForm
  <2>5. /\ c \in Calls /\ c.todo = StepsOf["start"] /\ c.prog = "start"
        /\ c.op = "resume" /\ c.gen = gen[s] + 1 /\ c # Idle
    BY <2>1, <2>3, <2>4, IdleAssumption DEF Calls
  <2>6. Proceed(s, c)
    BY <1>4, <2>2, <2>3
  <2>7. Typed' /\ call'[s] = c
        /\ \A t \in Server \ {s} : /\ call'[t] = call[t] /\ ids'[t] = ids[t] /\ gen'[t] = gen[t]
                                   /\ t \in active' <=> t \in active
    <3>1. call' \in [Server -> Calls \cup {Idle}] /\ call'[s] = c
      BY <1>1, <2>5, <2>6 DEF Typed, TypeOK, Proceed
    <3>2. gen' \in [Server -> Nat] /\ \A t \in Server \ {s} : gen'[t] = gen[t]
      BY <1>1, <1>4, <2>1 DEF Typed, TypeOK
    <3>3. \A t \in Server : ids'[t] <= gen'[t] /\ gen'[t] <= MaxGen[t]
      <4>1. \A t \in Server : ids[t] <= gen[t] /\ gen[t] <= MaxGen[t]
                               /\ ids[t] \in Nat /\ gen[t] \in Nat /\ MaxGen[t] \in Nat
        BY <1>1, BoundsAssumption DEF Typed, TypeOK
      <4> QED BY <1>1, <1>4, <2>1, <3>2, <4>1
    <3>4. \A t \in Server \ {s} : /\ call'[t] = call[t] /\ ids'[t] = ids[t]
                                  /\ t \in active' <=> t \in active
      BY <1>1, <2>6 DEF Typed, TypeOK, Proceed
    <3>5. TypeOK'
      BY <1>1, <1>2, <3>1, <3>2, <3>3 DEF Typed, TypeOK
    <3> QED BY <1>2, <3>1, <3>2, <3>4, <3>5 DEF Typed
  <2>8. ~Known(s, "server", ids[s]) /\ ids[s] < gen[s] + 1
    <3>1. ids[s] <= gen[s]
      BY <1>1 DEF Typed, TypeOK
    <3>2. Known(s, "server", ids[s]) => docker[Name(s, "server")].role = "server"
      BY <1>1, <1>3, OwnTyped DEF Known
    <3> QED BY <1>1, <1>3, <1>4, <3>1, <3>2 DEF Finds, Known, Own
  <2>9. /\ <<"save", "row">> \in StepsOf["start"]
        /\ \A r \in Role : <<"run", r>> \in StepsOf["start"]
    BY Programs DEF Role
  <2>10. Shape(s)' /\ Active(s)' /\ Creating(s)' /\ Looked(s)'
    BY <1>1, <1>3, <2>5, <2>7, <2>9 DEF Shape, Active, Creating, Looked, Runs
  <2>11. Sidecar(s)' /\ Unsaved(s)'
    BY <1>1, <1>2, <1>3, <2>5, <2>7, <2>8 DEF Sidecar, Unsaved
  <2>12. Given(s)'
    BY <2>1, <2>5, <2>7 DEF Given
  <2> QED BY <1>2, <2>7, <2>10, <2>11, <2>12, Compose DEF Local
<1>5. CASE gen' = [gen EXCEPT ![s] = @] /\ Proceed(s, Done(call[s], <<"health", "row">>))
  <2>1. PICK c : c = Done(call[s], <<"health", "row">>)
    OBVIOUS
  <2>2. /\ c \in Calls /\ c.op = call[s].op /\ c.prog = call[s].prog /\ c.gen = call[s].gen
        /\ c.held = call[s].held /\ c.todo = call[s].todo \ {<<"health", "row">>}
    BY <1>1, <2>1, DoneForm
  <2>3. Proceed(s, c) /\ Paced /\ UNCHANGED gen
    BY <1>1, <1>5, <2>1 DEF Paced, Typed, TypeOK
  <2>4. Typed' /\ call'[s] = c
        /\ \A t \in Server \ {s} : /\ call'[t] = call[t] /\ ids'[t] = ids[t] /\ gen'[t] = gen[t]
                                   /\ t \in active' <=> t \in active
    BY <1>1, <1>2, <2>2, <2>3, CallTyped
  <2>5. <<"look", "proxy">> \in c.todo <=> <<"look", "proxy">> \in call[s].todo
    BY <2>2
  <2>6. Local(s)'
    BY <1>1, <1>2, <1>3, <2>2, <2>3, <2>4, <2>5, Onward
  <2> QED BY <1>2, <2>4, <2>6, Compose
<1> QED BY <1>4, <1>5 DEF Health

LEMMA AdvanceStep ==
    ASSUME IInv, NEW s \in Server, Advance(s)
    PROVE  IInv' /\ Reach(s)
<1>1. call[s] # Idle /\ UNCHANGED active
  BY DEF Advance
<1>2. PICK st \in call[s].todo :
         /\ Due(call[s], st)
         /\ \/ st[1] = "health" /\ Health(s)
            \/ st[1] = "save" /\ Save(s)
            \/ /\ UNCHANGED <<ids, gen>>
               /\ \/ st[1] = "run" /\ Run(s, st[2])
                  \/ st[1] = "look" /\ Look(s)
                  \/ st[1] \in {"stop", "remove", "start"} /\ Manage(s, st[1], st[2])
                  \/ ApiError(s, st[1], st[2])
  BY DEF Advance
<1>3. /\ st = <<st[1], st[2]>>
      /\ st[1] = "run" => st[2] \in Role
      /\ st[1] = "save" => st = <<"save", "row">>
      /\ st[1] = "health" => st = <<"health", "row">>
      /\ st[1] = "look" => st = <<"look", "proxy">>
  BY <1>1, Verbs DEF IInv, Local, Typed, TypeOK, Step
<1>4. CASE st[1] = "health" /\ Health(s)
  BY <1>1, <1>3, <1>4, HealthStep
<1>5. CASE st[1] = "save" /\ Save(s)
  BY <1>1, <1>2, <1>3, <1>5, SaveStep
<1>6. CASE UNCHANGED <<ids, gen>> /\ st[1] = "run" /\ Run(s, st[2])
  BY <1>1, <1>3, <1>6, RunStep
<1>7. CASE UNCHANGED <<ids, gen>> /\ st[1] = "look" /\ Look(s)
  BY <1>1, <1>3, <1>7, LookStep
<1>8. CASE UNCHANGED <<ids, gen>> /\ st[1] \in {"stop", "remove", "start"} /\ Manage(s, st[1], st[2])
  BY <1>1, <1>2, <1>3, <1>8, ManageStep
<1>9. CASE UNCHANGED <<ids, gen>> /\ ApiError(s, st[1], st[2])
  BY <1>1, <1>9, ApiErrorStep
<1> QED BY <1>2, <1>4, <1>5, <1>6, <1>7, <1>8, <1>9

(***************************************************************************)
(* The beginning and the end of a call, an operator, a restart.            *)
(***************************************************************************)
LEMMA UnitTyped == \A s \in Server : Unit(s) \in {"absent", "up", "down", "broken"}
BY DEF Unit

LEMMA CallForm ==
    ASSUME NEW s \in Server, NEW op \in Operation, NEW p \in DOMAIN Program, NEW g \in Nat,
           NEW c, c = Call(op, p, g, s)
    PROVE  /\ c \in Calls /\ c # Idle /\ c.op = op /\ c.prog = p /\ c.todo = StepsOf[p]
           /\ c.gen = g /\ c.held = {} /\ c.was = Unit(s) /\ ~c.hurt
<1>1. StepsOf[p] \in SUBSET Step
  BY Programs DEF Step, Verb, Role
<1>2. Unit(s) \in {"absent", "up", "down", "broken"}
  BY UnitTyped
<1>3. c \in Calls
  BY <1>1, <1>2 DEF Calls, Call
<1> QED BY <1>3, IdleAssumption DEF Call

LEMMA ServerUpKnown ==
    ASSUME Typed, NEW s \in Server, ServerUp(s)
    PROVE  Known(s, "server", ids[s]) /\ ids[s] # 0
<1>1. "server" \in Role /\ Own(s, "server")
  BY DEF Role, Own, ServerUp
<1> QED BY <1>1, OwnTyped DEF Known, ServerUp, Container

LEMMA ReturnStep == ASSUME IInv, NEW s \in Server, Return(s) PROVE IInv'
<1>1. /\ Typed /\ Local(s) /\ UNCHANGED <<docker, ids, gen, faults>>
      /\ call' = [call EXCEPT ![s] = Idle]
      /\ active' \subseteq active \cup {s} /\ active \subseteq active'
      /\ s \in active' => ServerUp(s)
  BY DEF IInv, Local, Active, Return
<1>2. Typed' /\ call'[s] = Idle
  BY <1>1 DEF Typed, TypeOK, WellNamed
<1>3. Reach(s)
  BY <1>1, DockerStays
<1>4. Local(s)'
  BY <1>1, <1>2 DEF Local, Shape, Sidecar, Known, Own, Active, ServerUp, Creating, Unsaved, Given, Looked
<1>5. \A t \in Server \ {s} : /\ call'[t] = call[t] /\ ids'[t] = ids[t] /\ gen'[t] = gen[t]
                              /\ t \in active' <=> t \in active
  BY <1>1 DEF Typed, TypeOK
<1> QED BY <1>2, <1>3, <1>4, <1>5, Compose

LEMMA AnewStep ==
    ASSUME IInv, NEW s \in Server, NEW op \in {"create", "resume"}, Anew(s, op)
    PROVE  IInv'
<1>1. /\ Typed /\ Local(s) /\ ids[s] = 0 /\ gen[s] \in Nat /\ gen[s] < MaxGen[s]
      /\ UNCHANGED <<docker, ids, active, faults>> /\ gen' = [gen EXCEPT ![s] = @ + 1]
  BY DEF IInv, Anew, Typed, TypeOK
<1>2. PICK c : c = Call(op, "start", gen[s] + 1, s)
  OBVIOUS
<1>3. /\ c \in Calls /\ c # Idle /\ c.op = op /\ c.prog = "start" /\ c.held = {}
      /\ c.todo = StepsOf["start"] /\ c.gen = gen[s] + 1
  <2>1. op \in Operation /\ "start" \in DOMAIN Program /\ gen[s] + 1 \in Nat
    BY <1>1, Programs DEF Operation
  <2> QED BY <1>2, <2>1, CallForm
<1>4. call' = [call EXCEPT ![s] = c]
  BY <1>2 DEF Anew
<1>5. gen'[s] = gen[s] + 1 /\ gen' \in [Server -> Nat] /\ \A t \in Server \ {s} : gen'[t] = gen[t]
  BY <1>1 DEF Typed, TypeOK
<1>6. \A t \in Server : ids'[t] <= gen'[t] /\ gen'[t] <= MaxGen[t]
  <2>1. \A t \in Server : /\ ids[t] <= gen[t] /\ gen[t] <= MaxGen[t]
                          /\ ids[t] \in Nat /\ gen[t] \in Nat /\ MaxGen[t] \in Nat
    BY <1>1, BoundsAssumption DEF Typed, TypeOK
  <2> QED BY <1>1, <1>5, <2>1
<1>7. TypeOK' /\ call'[s] = c
  BY <1>1, <1>3, <1>4, <1>5, <1>6 DEF Typed, TypeOK
<1>8. WellNamed' /\ Reach(s)
  BY <1>1, DockerStays
<1>9. "server" \in Role /\ s \notin active
  BY <1>1, ServerUpKnown DEF Local, Active, Role
<1>10. ~Known(s, "server", ids[s])
  BY <1>1, <1>9, OwnTyped DEF Known, Container
<1>11. /\ <<"save", "row">> \in StepsOf["start"]
       /\ \A r \in Role : <<"run", r>> \in StepsOf["start"]
  BY Programs DEF Role
<1>12. Shape(s)' /\ Active(s)' /\ Creating(s)' /\ Looked(s)'
  BY <1>1, <1>3, <1>7, <1>9, <1>11 DEF Shape, Active, Creating, Looked, Runs
<1>13. Sidecar(s)' /\ Unsaved(s)' /\ Given(s)'
  BY <1>1, <1>3, <1>5, <1>7, <1>10 DEF Sidecar, Unsaved, Given, Known, Own
<1>14. \A t \in Server \ {s} : /\ call'[t] = call[t] /\ ids'[t] = ids[t] /\ gen'[t] = gen[t]
                               /\ t \in active' <=> t \in active
  BY <1>1, <1>4, <1>5 DEF Typed, TypeOK
<1> QED BY <1>7, <1>8, <1>12, <1>13, <1>14, Compose DEF Typed, Local

LEMMA RequestStep ==
    ASSUME IInv, NEW s \in Server, NEW op, NEW prog, NEW row, Request(s, op, prog, row),
           \/ op = "suspend" /\ prog = "suspend" /\ row = ids[s]
           \/ op = "resume" /\ prog = "resume" /\ row = ids[s]
           \/ op = "delete" /\ prog = "stop" /\ row = 0
    PROVE  IInv'
<1>1. /\ Typed /\ Local(s) /\ ids[s] # 0 /\ ids[s] \in Nat /\ gen[s] \in Nat /\ ids[s] <= gen[s]
      /\ UNCHANGED <<docker, gen, faults>> /\ ids' = [ids EXCEPT ![s] = row]
      /\ active' = active \ {s} /\ row \in {ids[s], 0}
  BY DEF IInv, Request, Typed, TypeOK
<1>2. PICK c : c = Call(op, prog, ids[s], s)
  OBVIOUS
<1>3. /\ c \in Calls /\ c # Idle /\ c.op = op /\ c.prog = prog /\ c.held = {}
      /\ c.todo = StepsOf[prog] /\ c.gen = ids[s]
  <2>1. op \in Operation /\ prog \in DOMAIN Program
    BY Programs DEF Operation
  <2> QED BY <1>1, <1>2, <2>1, CallForm
<1>4. call' = [call EXCEPT ![s] = c]
  BY <1>2 DEF Request
<1>5. Typed' /\ call'[s] = c /\ ids'[s] = row /\ gen'[s] = gen[s]
  <2>1. \A t \in Server : ids'[t] <= gen'[t] /\ gen'[t] <= MaxGen[t]
    BY <1>1 DEF Typed, TypeOK
  <2> QED BY <1>1, <1>3, <1>4, <2>1 DEF Typed, TypeOK, WellNamed
<1>6. Reach(s)
  BY <1>1, DockerStays
<1>7. <<"look", "proxy">> \in StepsOf[prog]
  BY Programs
<1>8. Shape(s)' /\ Active(s)' /\ Creating(s)' /\ Unsaved(s)' /\ Given(s)'
  BY <1>1, <1>3, <1>5 DEF Shape, Active, Creating, Unsaved, Given, Runs
<1>9. Sidecar(s)' /\ Looked(s)'
  BY <1>1, <1>3, <1>5, <1>7 DEF Local, Sidecar, Looked, Known, Own
<1>10. \A t \in Server \ {s} : /\ call'[t] = call[t] /\ ids'[t] = ids[t] /\ gen'[t] = gen[t]
                               /\ t \in active' <=> t \in active
  BY <1>1, <1>4 DEF Typed, TypeOK
<1> QED BY <1>5, <1>6, <1>8, <1>9, <1>10, Compose DEF Local

LEMMA VanishStep == ASSUME IInv, NEW s \in Server, Vanish(s) PROVE IInv'
<1>1. /\ Typed /\ Local(s) /\ call[s] = Idle /\ active' = active \ {s} /\ UNCHANGED <<ids, gen, call>>
      /\ docker' = [n \in Names |-> IF docker[n].srv = s THEN Free ELSE docker[n]]
      /\ faults < MaxFaults /\ faults' = faults + 1
  BY DEF IInv, Vanish, Fault, Mine
<1>2. Typed'
  BY <1>1, BoundsAssumption DEF Typed, TypeOK, WellNamed
<1>3. Reach(s)
  BY <1>1 DEF Reach, Free
<1>4. ~Own(s, "server")'
  BY <1>1, NamesOf, IdleAssumption DEF Own, Free, Role
<1>5. Local(s)'
  BY <1>1, <1>4 DEF Local, Shape, Sidecar, Known, Active, Creating, Unsaved, Given, Looked
<1> QED BY <1>1, <1>2, <1>3, <1>5, Compose

LEMMA RestartStep == ASSUME IInv, Restart PROVE IInv'
<1>1. /\ Typed /\ UNCHANGED <<docker, ids, gen>> /\ active \subseteq active' /\ active' \subseteq Server
      /\ \A s \in Server : s \in active' => ServerUp(s) /\ (s \in active \/ call[s] # Idle)
      /\ faults < MaxFaults /\ faults' = faults + 1
  BY DEF IInv, Restart, Fault, Local, Active, Typed, TypeOK
<1>2. ASSUME NEW s \in Server
      PROVE  \E c \in Calls : /\ c = Call("ensure", "ensure", ids[s], s)
                              /\ c # Idle /\ c.op = "ensure" /\ c.prog = "ensure"
                              /\ c.todo = StepsOf["ensure"] /\ c.gen = ids[s] /\ c.held = {}
  <2>1. "ensure" \in Operation /\ "ensure" \in DOMAIN Program /\ ids[s] \in Nat
    BY <1>1, Programs DEF Operation, Typed, TypeOK
  <2>2. PICK c : c = Call("ensure", "ensure", ids[s], s)
    OBVIOUS
  <2> QED BY <2>1, <2>2, CallForm
<1>3. call' = [s \in Server |-> IF s \in active THEN Call("ensure", "ensure", ids[s], s) ELSE Idle]
  BY DEF Restart
<1>4. Typed'
  BY <1>1, <1>2, <1>3, BoundsAssumption DEF Typed, TypeOK, WellNamed
<1>5. ASSUME NEW s \in Server PROVE Local(s)'
  <2>1. Local(s) /\ ids[s] \in Nat /\ gen[s] \in Nat /\ ids[s] <= gen[s]
    BY DEF IInv, Typed, TypeOK
  <2>2. \/ call'[s] = Idle
        \/ s \in active /\ call'[s] = Call("ensure", "ensure", ids[s], s)
    BY <1>3
  <2>3. s \in active => ids[s] # 0
    BY <1>1, ServerUpKnown
  <2>4. Shape(s)' /\ Creating(s)' /\ Unsaved(s)' /\ Looked(s)'
    BY <1>2, <2>2 DEF Shape, Creating, Unsaved, Looked, Runs
  <2>5. Given(s)'
    BY <1>1, <1>2, <2>1, <2>2, <2>3 DEF Given
  <2>6. Active(s)'
    BY <1>1, <1>2, <2>2 DEF Active, ServerUp
  <2>7. Sidecar(s)'
    BY <1>1, <2>1 DEF Local, Sidecar, Known, Own
  <2> QED BY <2>4, <2>5, <2>6, <2>7 DEF Local
<1> QED BY <1>4, <1>5 DEF IInv

LEMMA InitIInv == Init => IInv
<1> SUFFICES ASSUME Init PROVE IInv
  OBVIOUS
<1>1. Typed
  BY BoundsAssumption DEF Init, Typed, TypeOK, WellNamed
<1>2. ASSUME NEW s \in Server PROVE Local(s)
  BY DEF Init, Local, Shape, Sidecar, Active, Creating, Unsaved, Given, Looked
<1> QED BY <1>1, <1>2 DEF IInv

LEMMA StutterIInv == ASSUME IInv, UNCHANGED vars PROVE IInv'
<1>1. Typed'
  BY DEF IInv, Typed, TypeOK, WellNamed, vars
<1>2. ASSUME NEW s \in Server PROVE Local(s)'
  <2>1. Untouched(s)
    BY DEF Untouched, Own, vars
  <2> QED BY <2>1, UntouchedKeeps DEF IInv
<1> QED BY <1>1, <1>2 DEF IInv

LEMMA StepIInv == IInv /\ [Next]_vars => IInv'
<1> SUFFICES ASSUME IInv, [Next]_vars PROVE IInv'
  OBVIOUS
<1>1. ASSUME NEW s \in Server, Create(s) \/ Suspend(s) \/ Resume(s) \/ Delete(s) PROVE IInv'
  BY <1>1, AnewStep, RequestStep DEF Create, Suspend, Resume, Delete
<1>2. ASSUME NEW s \in Server, Advance(s) \/ Return(s) \/ Vanish(s) PROVE IInv'
  BY <1>2, AdvanceStep, ReturnStep, VanishStep
<1> QED BY <1>1, <1>2, RestartStep, StutterIInv DEF Next

\* Types: no generation beyond the bound, and no row with ids of a generation
\* that was never created, although a resume creates containers again.
THEOREM TypesHold == Spec => []TypeOK
<1>1. IInv => TypeOK
  BY DEF IInv, Typed
<1> QED BY InitIInv, StepIInv, <1>1, PTL DEF Spec

\* No call reaches a container made for another server, whatever subdomains
\* there are and however their names meet: a call that goes by the sidecar's
\* name does so only while its server has a sidecar of its own.
THEOREM OnlyOwnTouched == Spec => TouchesOnlyOwn
<1>1. IInv /\ [Next]_vars =>
          [\A s \in Server : Advance(s) =>
              \A n \in Names : docker'[n] # docker[n] =>
                  docker[n].srv \in {s, Idle} /\ docker'[n].srv \in {s, Idle}]_vars
  BY AdvanceStep DEF Reach
<1> QED BY InitIInv, StepIInv, <1>1, PTL DEF Spec, TouchesOnlyOwn
=============================================================================
