---------------------- MODULE ContainerLifecycleProofs ----------------------
(***************************************************************************)
(* Proofs about the life of a container, for every number of sessions,     *)
(* jobs, overlapping invocations and nodes, and for all upsets.            *)
(***************************************************************************)
EXTENDS ContainerLifecycle, JobQueueProofs

USE JobQueueAssumption, LifecycleAssumption DEF JobIds

-----------------------------------------------------------------------------
(****************************** The queue **********************************)

LEMMA QueueStep == [LifeNext]_lifeVars => [Next]_vars
<1> SUFFICES ASSUME [LifeNext]_lifeVars PROVE [Next]_vars
  OBVIOUS
<1>1. CASE UNCHANGED lifeVars
  BY <1>1 DEF lifeVars
<1>2. ASSUME NEW s \in Sessions, Page(s) PROVE [Next]_vars
  <2>1. CASE AddJob(s)
    <3>1. PICK j \in JobIds : InsertJob(j, Home, Veid, "normal")
      BY <2>1 DEF AddJob
    <3>2. Backend
      BY <3>1 DEF Backend
    <3> QED
      BY <3>2 DEF Next
  <2>2. CASE CancelJobs(s)
    <3>1. Backend
      BY <2>2 DEF CancelJobs, Backend
    <3> QED
      BY <3>1 DEF Next
  <2>3. CASE ~AddJob(s) /\ ~CancelJobs(s)
    BY <1>2, <2>3 DEF Page, OpenPage, CancelLate, SetPageStatus, Submit, SubmitSet
  <2> QED
    BY <2>1, <2>2, <2>3
<1>3. ASSUME NEW j \in JobIds, Due(j) PROVE [Next]_vars
  BY <1>3 DEF Due, Next, Backend
<1>4. ASSUME NEW a \in Agents, Crash(a) PROVE [Next]_vars
  BY <1>4 DEF Crash, Next, Fail
<1>5. ASSUME NEW a \in Agents, Handle(a) PROVE [Next]_vars
  <2>1. Proceed(a) \/ Fail(a) \/ UNCHANGED vars
    <3>1. CASE Queue(a)
      BY <3>1 DEF Queue, Proceed
    <3>2. CASE Begin(a)
      BY <3>2 DEF Begin, Proceed
    <3>3. CASE Command(a) \/ HaltFails(a) \/ SetGoal(a)
      BY <3>3 DEF Command, HaltFails, SetGoal
    <3>4. CASE CommandFails(a) \/ Report(a) \/ WaitForDump(a)
      BY <3>4 DEF CommandFails, Report, WaitForDump, Proceed
    <3>5. CASE DestroyGoesOn(a) \/ NewRollsBack(a) \/ RollbackFails(a)
      BY <3>5 DEF DestroyGoesOn, NewRollsBack, RollbackFails, Fail
    <3>6. CASE RolledBack(a)
      BY <3>6 DEF RolledBack, Proceed
    <3> QED
      BY <1>5, <3>1, <3>2, <3>3, <3>4, <3>5, <3>6 DEF Handle
  <2> QED
    BY <2>1 DEF Next
<1> QED
  BY <1>1, <1>2, <1>3, <1>4, <1>5 DEF LifeNext

(* The rows of tJob and the invocations that run them behave as JobQueue   *)
(* says, whatever pages and handlers do: every page and handler acts on    *)
(* them by the queue's own operations, or leaves them alone.               *)
THEOREM QueueImplemented == LifeSpec => QueueSpec
<1>1. LifeInit => Init
  BY DEF LifeInit
<1> QED
  BY <1>1, QueueStep, PTL DEF LifeSpec, QueueSpec, Spec

(* So what is proved of the queue is true here.                            *)
LEMMA QueueAlways == LifeSpec => [](TypeOK /\ LockInv /\ HandsInv)
  BY QueueImplemented, HandsAlways, PTL DEF QueueSpec

-----------------------------------------------------------------------------
(***************************** The handlers ********************************)

Hands == [todo : Seq(Commands), goal : Settled, mode : {"ahead", "back", "done"}, failed : BOOLEAN]

(* The record, the container, the pages and what the handlers have in hand *)
(* have their types; every job is one for this container, on its node.     *)
ShapesOK ==
    /\ uStatus \in Status
    /\ ct \in {"absent", "stopped", "running"}
    /\ cJobName \in [JobIds -> Ops \cup {"none"}]
    /\ page \in [Sessions -> Pages]
    /\ hand \in [Agents -> Hands]
    /\ \A a \in Agents : ~Running(a) => hand[a] = NoHand
    /\ load = [n \in Nodes |-> "normal"]
    /\ \A j \in JobIds : tJob[j].uJobStatus # "none" => cJobName[j] \in Ops /\ tJob[j].uNode = Home

(* How far a handler of each name has come, and what that says of the      *)
(* container: h is what it has in hand, c the state of the container.      *)
At(h, todo, goal) == h.mode = "ahead" /\ h.todo = todo /\ h.goal = goal

StopStage(h, c) ==
    \/ At(h, <<"stop", "set">>, "STOPPED")
    \/ At(h, <<"set">>, "STOPPED") /\ c = "stopped"
    \/ At(h, <<>>, "STOPPED") /\ c = "stopped"

StartStage(h, c) ==
    \/ At(h, <<"restart", "set">>, "ACTIVE")
    \/ At(h, <<"set">>, "ACTIVE") /\ c = "running"
    \/ At(h, <<>>, "ACTIVE") /\ c = "running"

RestartStage(h, c) ==
    \/ At(h, <<"restart">>, "ACTIVE")
    \/ At(h, <<>>, "ACTIVE") /\ c = "running"

DestroyStage(h, c) ==
    \/ At(h, <<"stop", "destroy">>, "INITSETUP")
    \/ At(h, <<"destroy">>, "INITSETUP")
    \/ At(h, <<>>, "INITSETUP") /\ c = "absent"

(* Deployed to run: with or without a second set, for the veth interface.  *)
DeployStage(h, c) ==
    \/ At(h, <<"create", "set", "start">>, "ACTIVE")
    \/ At(h, <<"create", "set", "start", "set">>, "ACTIVE")
    \/ At(h, <<"set", "start">>, "ACTIVE")
    \/ At(h, <<"set", "start", "set">>, "ACTIVE")
    \/ At(h, <<"start">>, "ACTIVE")
    \/ At(h, <<"start", "set">>, "ACTIVE")
    \/ At(h, <<"set">>, "ACTIVE") /\ c = "running"
    \/ At(h, <<>>, "ACTIVE") /\ c = "running"

(* Deployed to be stopped: never started, or stopped in the end.           *)
ParkStage(h, c) ==
    \/ At(h, <<"create", "set">>, "STOPPED")
    \/ At(h, <<"create", "set", "start", "set", "halt">>, "STOPPED")
    \/ At(h, <<"set", "start", "set", "halt">>, "STOPPED")
    \/ At(h, <<"start", "set", "halt">>, "STOPPED")
    \/ At(h, <<"set", "halt">>, "STOPPED")
    \/ At(h, <<"halt">>, "STOPPED")
    \/ At(h, <<"set">>, "STOPPED") /\ c = "stopped"
    \/ At(h, <<>>, "STOPPED") /\ (c = "stopped" \/ h.failed)

BackStage(h, c) ==
    /\ h.mode = "back"
    /\ \/ h.todo \in {<<"stop", "destroy">>, <<"destroy">>}
       \/ h.todo = <<>> /\ (c = "absent" \/ h.failed)

InStage(name, h, c) ==
    \/ h.mode = "done" /\ h.todo = <<>>
    \/ name = "StopContainer" /\ StopStage(h, c)
    \/ name = "StartContainer" /\ StartStage(h, c)
    \/ name = "RestartContainer" /\ RestartStage(h, c)
    \/ name = "DestroyContainer" /\ DestroyStage(h, c)
    \/ name = "NewContainer" /\ (DeployStage(h, c) \/ ParkStage(h, c) \/ BackStage(h, c))

StagesOK == \A a \in Agents : Running(a) => InStage(Name(a), hand[a], ct)

IndLife == TypeOK /\ LockInv /\ HandsInv /\ ShapesOK /\ StagesOK


Works == {"absent", "stopped", "running"}

LEMMA LifeStarts == LifeInit => ShapesOK /\ StagesOK
<1> SUFFICES ASSUME LifeInit PROVE ShapesOK /\ StagesOK
  OBVIOUS
<1>1. NoHand \in Hands /\ Closed \in Pages
  BY DEF NoHand, Hands, Settled, Closed, Pages, Ops, Status
<1>2. \A a \in Agents : ~Running(a)
  BY DEF LifeInit, Init, Running
<1>3. ShapesOK
  BY <1>1, <1>2 DEF LifeInit, Init, ShapesOK, NoRow, Settled, Status
<1> QED
  BY <1>2, <1>3 DEF StagesOK

(* A command that succeeds: g is what the handler has in hand after it, d  *)
(* the state of the container.                                             *)
Runs(h, g, c, d) ==
    /\ h.todo # <<>>
    /\ Head(h.todo) \in {"create", "stop", "halt"} => d = "stopped"
    /\ Head(h.todo) \in {"start", "restart"} => d = "running"
    /\ Head(h.todo) = "destroy" => d = "absent"
    /\ Head(h.todo) = "set" => d = c
    /\ g.todo = Tail(h.todo) /\ g.goal = h.goal /\ g.mode = h.mode /\ g.failed = h.failed

LEMMA StopAdvances ==
  ASSUME NEW h, NEW g, NEW c, NEW d, Runs(h, g, c, d), StopStage(h, c)
  PROVE  StopStage(g, d)
<1>1. CASE h.todo = <<"stop", "set">>
  <2>1. Head(h.todo) = "stop" /\ g.todo = <<"set">>
    BY <1>1 DEF Runs
  <2> QED
    BY <2>1, <1>1 DEF Runs, StopStage, At
<1>2. CASE h.todo = <<"set">>
  <2>1. Head(h.todo) = "set" /\ g.todo = <<>>
    BY <1>2 DEF Runs
  <2> QED
    BY <2>1, <1>2 DEF Runs, StopStage, At
<1> QED
  BY <1>1, <1>2 DEF Runs, StopStage, At

LEMMA StartAdvances ==
  ASSUME NEW h, NEW g, NEW c, NEW d, Runs(h, g, c, d), StartStage(h, c)
  PROVE  StartStage(g, d)
<1>1. CASE h.todo = <<"restart", "set">>
  <2>1. Head(h.todo) = "restart" /\ g.todo = <<"set">>
    BY <1>1 DEF Runs
  <2> QED
    BY <2>1, <1>1 DEF Runs, StartStage, At
<1>2. CASE h.todo = <<"set">>
  <2>1. Head(h.todo) = "set" /\ g.todo = <<>>
    BY <1>2 DEF Runs
  <2> QED
    BY <2>1, <1>2 DEF Runs, StartStage, At
<1> QED
  BY <1>1, <1>2 DEF Runs, StartStage, At

LEMMA RestartAdvances ==
  ASSUME NEW h, NEW g, NEW c, NEW d, Runs(h, g, c, d), RestartStage(h, c)
  PROVE  RestartStage(g, d)
<1>1. CASE h.todo = <<"restart">>
  <2>1. Head(h.todo) = "restart" /\ g.todo = <<>>
    BY <1>1 DEF Runs
  <2> QED
    BY <2>1, <1>1 DEF Runs, RestartStage, At
<1> QED
  BY <1>1 DEF Runs, RestartStage, At

LEMMA DestroyAdvances ==
  ASSUME NEW h, NEW g, NEW c, NEW d, Runs(h, g, c, d), DestroyStage(h, c)
  PROVE  DestroyStage(g, d)
<1>1. CASE h.todo = <<"stop", "destroy">>
  <2>1. Head(h.todo) = "stop" /\ g.todo = <<"destroy">>
    BY <1>1 DEF Runs
  <2> QED
    BY <2>1, <1>1 DEF Runs, DestroyStage, At
<1>2. CASE h.todo = <<"destroy">>
  <2>1. Head(h.todo) = "destroy" /\ g.todo = <<>>
    BY <1>2 DEF Runs
  <2> QED
    BY <2>1, <1>2 DEF Runs, DestroyStage, At
<1> QED
  BY <1>1, <1>2 DEF Runs, DestroyStage, At

LEMMA DeployAdvances ==
  ASSUME NEW h, NEW g, NEW c, NEW d, Runs(h, g, c, d), DeployStage(h, c)
  PROVE  DeployStage(g, d)
<1>1. CASE h.todo = <<"create", "set", "start">>
  <2>1. Head(h.todo) = "create" /\ g.todo = <<"set", "start">>
    BY <1>1 DEF Runs
  <2> QED
    BY <2>1, <1>1 DEF Runs, DeployStage, At
<1>2. CASE h.todo = <<"create", "set", "start", "set">>
  <2>1. Head(h.todo) = "create" /\ g.todo = <<"set", "start", "set">>
    BY <1>2 DEF Runs
  <2> QED
    BY <2>1, <1>2 DEF Runs, DeployStage, At
<1>3. CASE h.todo = <<"set", "start">>
  <2>1. Head(h.todo) = "set" /\ g.todo = <<"start">>
    BY <1>3 DEF Runs
  <2> QED
    BY <2>1, <1>3 DEF Runs, DeployStage, At
<1>4. CASE h.todo = <<"set", "start", "set">>
  <2>1. Head(h.todo) = "set" /\ g.todo = <<"start", "set">>
    BY <1>4 DEF Runs
  <2> QED
    BY <2>1, <1>4 DEF Runs, DeployStage, At
<1>5. CASE h.todo = <<"start">>
  <2>1. Head(h.todo) = "start" /\ g.todo = <<>>
    BY <1>5 DEF Runs
  <2> QED
    BY <2>1, <1>5 DEF Runs, DeployStage, At
<1>6. CASE h.todo = <<"start", "set">>
  <2>1. Head(h.todo) = "start" /\ g.todo = <<"set">>
    BY <1>6 DEF Runs
  <2> QED
    BY <2>1, <1>6 DEF Runs, DeployStage, At
<1>7. CASE h.todo = <<"set">>
  <2>1. Head(h.todo) = "set" /\ g.todo = <<>>
    BY <1>7 DEF Runs
  <2> QED
    BY <2>1, <1>7 DEF Runs, DeployStage, At
<1> QED
  BY <1>1, <1>2, <1>3, <1>4, <1>5, <1>6, <1>7 DEF Runs, DeployStage, At

LEMMA ParkAdvances ==
  ASSUME NEW h, NEW g, NEW c, NEW d, Runs(h, g, c, d), ParkStage(h, c)
  PROVE  ParkStage(g, d)
<1>1. CASE h.todo = <<"create", "set">>
  <2>1. Head(h.todo) = "create" /\ g.todo = <<"set">>
    BY <1>1 DEF Runs
  <2> QED
    BY <2>1, <1>1 DEF Runs, ParkStage, At
<1>2. CASE h.todo = <<"create", "set", "start", "set", "halt">>
  <2>1. Head(h.todo) = "create" /\ g.todo = <<"set", "start", "set", "halt">>
    BY <1>2 DEF Runs
  <2> QED
    BY <2>1, <1>2 DEF Runs, ParkStage, At
<1>3. CASE h.todo = <<"set", "start", "set", "halt">>
  <2>1. Head(h.todo) = "set" /\ g.todo = <<"start", "set", "halt">>
    BY <1>3 DEF Runs
  <2> QED
    BY <2>1, <1>3 DEF Runs, ParkStage, At
<1>4. CASE h.todo = <<"start", "set", "halt">>
  <2>1. Head(h.todo) = "start" /\ g.todo = <<"set", "halt">>
    BY <1>4 DEF Runs
  <2> QED
    BY <2>1, <1>4 DEF Runs, ParkStage, At
<1>5. CASE h.todo = <<"set", "halt">>
  <2>1. Head(h.todo) = "set" /\ g.todo = <<"halt">>
    BY <1>5 DEF Runs
  <2> QED
    BY <2>1, <1>5 DEF Runs, ParkStage, At
<1>6. CASE h.todo = <<"halt">>
  <2>1. Head(h.todo) = "halt" /\ g.todo = <<>>
    BY <1>6 DEF Runs
  <2> QED
    BY <2>1, <1>6 DEF Runs, ParkStage, At
<1>7. CASE h.todo = <<"set">>
  <2>1. Head(h.todo) = "set" /\ g.todo = <<>>
    BY <1>7 DEF Runs
  <2> QED
    BY <2>1, <1>7 DEF Runs, ParkStage, At
<1> QED
  BY <1>1, <1>2, <1>3, <1>4, <1>5, <1>6, <1>7 DEF Runs, ParkStage, At

LEMMA BackAdvances ==
  ASSUME NEW h, NEW g, NEW c, NEW d, Runs(h, g, c, d), BackStage(h, c)
  PROVE  BackStage(g, d)
<1>1. CASE h.todo = <<"stop", "destroy">>
  <2>1. Head(h.todo) = "stop" /\ g.todo = <<"destroy">>
    BY <1>1 DEF Runs
  <2> QED
    BY <2>1, <1>1 DEF Runs, BackStage
<1>2. CASE h.todo = <<"destroy">>
  <2>1. Head(h.todo) = "destroy" /\ g.todo = <<>>
    BY <1>2 DEF Runs
  <2> QED
    BY <2>1, <1>2 DEF Runs, BackStage
<1> QED
  BY <1>1, <1>2 DEF Runs, BackStage

(* A command that succeeds takes a handler to its next stage.              *)
LEMMA Advances ==
  ASSUME NEW n, NEW h, NEW g, NEW c, NEW d, Runs(h, g, c, d), InStage(n, h, c)
  PROVE  InStage(n, g, d)
<1>1. h.mode = "done" /\ h.todo = <<>> => FALSE
  BY DEF Runs
<1> QED
  BY <1>1, StopAdvances, StartAdvances, RestartAdvances, DestroyAdvances, DeployAdvances,
     ParkAdvances, BackAdvances DEF InStage

(* A command that fails is passed over by a destroy that goes on ...        *)
Skips(h, g) ==
    /\ h.todo # <<>>
    /\ g.todo = Tail(h.todo) /\ g.goal = h.goal /\ g.mode = h.mode /\ g.failed

LEMMA DestroySkips ==
  ASSUME NEW h, NEW g, NEW c, Skips(h, g), InStage("DestroyContainer", h, c),
         Head(h.todo) = "destroy" => c = "absent"
  PROVE  InStage("DestroyContainer", g, c)
<1>1. DestroyStage(h, c)
  BY DEF InStage, Skips
<1>2. CASE h.todo = <<"stop", "destroy">>
  <2>1. g.todo = <<"destroy">>
    BY <1>2 DEF Skips
  <2> QED
    BY <2>1, <1>1, <1>2 DEF Skips, DestroyStage, At, InStage
<1>3. CASE h.todo = <<"destroy">>
  <2>1. g.todo = <<>> /\ Head(h.todo) = "destroy"
    BY <1>3 DEF Skips
  <2> QED
    BY <2>1, <1>1, <1>3 DEF Skips, DestroyStage, At, InStage
<1> QED
  BY <1>1, <1>2, <1>3 DEF Skips, DestroyStage, At

(* ... by the unchecked stop of a deployment ...                            *)
LEMMA HaltLast ==
  ASSUME NEW n, NEW h, NEW c, InStage(n, h, c), h.todo # <<>>, Head(h.todo) = "halt"
  PROVE  n = "NewContainer" /\ At(h, <<"halt">>, "STOPPED")
<1>1. CASE StopStage(h, c)
  BY <1>1 DEF StopStage, At
<1>2. CASE StartStage(h, c)
  BY <1>2 DEF StartStage, At
<1>3. CASE RestartStage(h, c)
  BY <1>3 DEF RestartStage, At
<1>4. CASE DestroyStage(h, c)
  BY <1>4 DEF DestroyStage, At
<1>5. CASE DeployStage(h, c)
  BY <1>5 DEF DeployStage, At
<1>6. CASE ParkStage(h, c) /\ n = "NewContainer"
  BY <1>6 DEF ParkStage, At
<1>7. CASE BackStage(h, c)
  BY <1>7 DEF BackStage
<1> QED
  BY <1>1, <1>2, <1>3, <1>4, <1>5, <1>6, <1>7 DEF InStage

LEMMA HaltSkips ==
  ASSUME NEW n, NEW h, NEW g, NEW c, Skips(h, g), InStage(n, h, c), Head(h.todo) = "halt"
  PROVE  InStage(n, g, c)
<1>1. n = "NewContainer" /\ At(h, <<"halt">>, "STOPPED")
  BY HaltLast DEF Skips
<1>2. g.todo = <<>>
  BY <1>1 DEF At, Skips
<1> QED
  BY <1>1, <1>2 DEF At, Skips, InStage, ParkStage

(* ... and by a rollback.                                                   *)
LEMMA BackIsNew ==
  ASSUME NEW n, NEW h, NEW c, InStage(n, h, c), h.mode = "back"
  PROVE  n = "NewContainer" /\ BackStage(h, c)
  BY DEF InStage, StopStage, StartStage, RestartStage, DestroyStage, DeployStage, ParkStage, At

LEMMA BackSkips ==
  ASSUME NEW n, NEW h, NEW g, NEW c, Skips(h, g), InStage(n, h, c), h.mode = "back"
  PROVE  InStage(n, g, c)
<1>1. n = "NewContainer" /\ BackStage(h, c)
  BY BackIsNew
<1>2. CASE h.todo = <<"stop", "destroy">>
  <2>1. g.todo = <<"destroy">>
    BY <1>2 DEF Skips
  <2> QED
    BY <2>1, <1>1 DEF Skips, BackStage, InStage
<1>3. CASE h.todo = <<"destroy">>
  <2>1. g.todo = <<>>
    BY <1>3 DEF Skips
  <2> QED
    BY <2>1, <1>1 DEF Skips, BackStage, InStage
<1> QED
  BY <1>1, <1>2, <1>3 DEF Skips, BackStage

(* The first stage of every plan asks nothing of the container; the last    *)
(* one says what its goal does.                                             *)
LEMMA PlanShape ==
  ASSUME NEW t \in Seq(Commands), NEW s \in Settled
  PROVE  /\ Plan(t, s) \in Hands /\ At(Plan(t, s), t, s)
  BY DEF Plan, NoHand, Hands, At

LEMMA PlanStarts ==
  ASSUME NEW n \in Ops, NEW h \in Plans[n], NEW c
  PROVE  InStage(n, h, c) /\ h \in Hands /\ h.mode = "ahead"
<1> USE DEF Commands, Settled
<1>1. CASE n = "StopContainer"
  <2>1. h = Plan(<<"stop", "set">>, "STOPPED")
    BY <1>1 DEF Plans, StopPlan
  <2>2. <<"stop", "set">> \in Seq(Commands)
    OBVIOUS
  <2>3. h \in Hands /\ At(h, <<"stop", "set">>, "STOPPED")
    BY <2>1, <2>2, PlanShape
  <2> QED
    BY <1>1, <2>3 DEF InStage, StopStage, At
<1>2. CASE n = "StartContainer"
  <2>1. h = Plan(<<"restart", "set">>, "ACTIVE")
    BY <1>2 DEF Plans, StartPlan
  <2>2. <<"restart", "set">> \in Seq(Commands)
    OBVIOUS
  <2>3. h \in Hands /\ At(h, <<"restart", "set">>, "ACTIVE")
    BY <2>1, <2>2, PlanShape
  <2> QED
    BY <1>2, <2>3 DEF InStage, StartStage, At
<1>3. CASE n = "RestartContainer"
  <2>1. h = Plan(<<"restart">>, "ACTIVE")
    BY <1>3 DEF Plans, RestartPlan
  <2>2. <<"restart">> \in Seq(Commands)
    OBVIOUS
  <2>3. h \in Hands /\ At(h, <<"restart">>, "ACTIVE")
    BY <2>1, <2>2, PlanShape
  <2> QED
    BY <1>3, <2>3 DEF InStage, RestartStage, At
<1>4. CASE n = "DestroyContainer"
  <2>1. h = Plan(<<"stop", "destroy">>, "INITSETUP")
    BY <1>4 DEF Plans, DestroyPlan
  <2>2. <<"stop", "destroy">> \in Seq(Commands)
    OBVIOUS
  <2>3. h \in Hands /\ At(h, <<"stop", "destroy">>, "INITSETUP")
    BY <2>1, <2>2, PlanShape
  <2> QED
    BY <1>4, <2>3 DEF InStage, DestroyStage, At
<1>5. CASE n = "NewContainer"
  <2>1. h \in NewPlans
    BY <1>5 DEF Plans
  <2>2. CASE h = Plan(<<"create", "set", "start">>, "ACTIVE")
    <3>1. <<"create", "set", "start">> \in Seq(Commands)
      OBVIOUS
    <3>2. h \in Hands /\ At(h, <<"create", "set", "start">>, "ACTIVE")
      BY <2>2, <3>1, PlanShape
    <3> QED
      BY <1>5, <3>2 DEF InStage, DeployStage, At
  <2>3. CASE h = Plan(<<"create", "set">>, "STOPPED")
    <3>1. <<"create", "set">> \in Seq(Commands)
      OBVIOUS
    <3>2. h \in Hands /\ At(h, <<"create", "set">>, "STOPPED")
      BY <2>3, <3>1, PlanShape
    <3> QED
      BY <1>5, <3>2 DEF InStage, ParkStage, At
  <2>4. CASE h = Plan(<<"create", "set", "start", "set">>, "ACTIVE")
    <3>1. <<"create", "set", "start", "set">> \in Seq(Commands)
      OBVIOUS
    <3>2. h \in Hands /\ At(h, <<"create", "set", "start", "set">>, "ACTIVE")
      BY <2>4, <3>1, PlanShape
    <3> QED
      BY <1>5, <3>2 DEF InStage, DeployStage, At
  <2>5. CASE h = Plan(<<"create", "set", "start", "set", "halt">>, "STOPPED")
    <3>1. <<"create", "set", "start", "set", "halt">> \in Seq(Commands)
      OBVIOUS
    <3>2. h \in Hands /\ At(h, <<"create", "set", "start", "set", "halt">>, "STOPPED")
      BY <2>5, <3>1, PlanShape
    <3> QED
      BY <1>5, <3>2 DEF InStage, ParkStage, At
  <2> QED
    BY <2>1, <2>2, <2>3, <2>4, <2>5 DEF NewPlans
<1> QED
  BY <1>1, <1>2, <1>3, <1>4, <1>5 DEF Ops

LEMMA PlanTells ==
  ASSUME NEW n, NEW h, NEW c, InStage(n, h, c), h.mode = "ahead", h.todo = <<>>
  PROVE  Tells(h.goal, c) \/ (n = "NewContainer" /\ h.failed)
<1>1. CASE StopStage(h, c) \/ StartStage(h, c) \/ RestartStage(h, c)
  BY <1>1 DEF StopStage, StartStage, RestartStage, At, Tells
<1>2. CASE DestroyStage(h, c)
  BY <1>2 DEF DestroyStage, At, Tells
<1>3. CASE DeployStage(h, c)
  BY <1>3 DEF DeployStage, At, Tells
<1>4. CASE ParkStage(h, c) /\ n = "NewContainer"
  BY <1>4 DEF ParkStage, At, Tells
<1> QED
  BY <1>1, <1>2, <1>3, <1>4 DEF InStage, BackStage

-----------------------------------------------------------------------------
(******************************* The steps *********************************)

(* All jobs are the node's own, so only one invocation has jobs in hand.    *)
LEMMA Alone ==
  ASSUME TypeOK, LockInv, HandsInv, ShapesOK, NEW a \in Agents, NEW b \in Agents,
         NEW i \in JobIds, NEW j \in JobIds, Held(a, i), Held(b, j)
  PROVE  a = b
<1>1. tJob[i].uJobStatus # "none" /\ tJob[j].uJobStatus # "none"
  BY DEF HandsInv
<1>2. tJob[i].uNode = Home /\ tJob[j].uNode = Home
  BY <1>1 DEF ShapesOK
<1>3. NodeOf[a] = Home /\ NodeOf[b] = Home
  BY <1>2 DEF HandsInv, Targets
<1>4. HasLock(a) /\ HasLock(b)
  BY DEF HandsInv, Held, TypeOK, HasLock, LockedPoints
<1> QED
  BY <1>3, <1>4 DEF LockInv, OneLoopPerNode

LEMMA InHandler ==
  ASSUME TypeOK, HandsInv, ShapesOK, NEW a \in Agents, Running(a)
  PROVE  cur[a] \in JobIds /\ Held(a, cur[a]) /\ Name(a) \in Ops
<1>1. cur[a] \in JobIds
  BY DEF TypeOK, Running
<1>2. Held(a, cur[a])
  BY DEF Held
<1>3. tJob[cur[a]].uJobStatus # "none"
  BY <1>1, <1>2 DEF HandsInv
<1> QED
  BY <1>1, <1>2, <1>3 DEF ShapesOK, Name

(* What the steps of an invocation share: its own handler may move, and the *)
(* container with it; b stands for the others.                              *)
Moves(a) ==
    /\ \A b \in Agents : b # a => pc'[b] = pc[b] /\ cur'[b] = cur[b] /\ hand'[b] = hand[b]
    /\ hand' \in [Agents -> Hands]
    /\ ~Running(a)' => hand'[a] = NoHand
    /\ Running(a)' => InStage(Name(a)', hand'[a], ct')
    /\ ct' \in Works /\ (ct' = ct \/ Running(a))
    /\ UNCHANGED <<cJobName, load>>

LEMMA StagesMove ==
  ASSUME TypeOK, LockInv, HandsInv, ShapesOK, StagesOK, NEW a \in Agents, Moves(a)
  PROVE  StagesOK'
<1> SUFFICES ASSUME NEW b \in Agents, Running(b)' PROVE InStage(Name(b), hand[b], ct)'
  BY DEF StagesOK
<1>1. CASE b = a
  BY <1>1 DEF Moves
<1>2. CASE b # a
  <2>1. Running(b) /\ Name(b)' = Name(b) /\ hand'[b] = hand[b]
    BY <1>2 DEF Moves, Running, Name
  <2>2. ~Running(a)
    BY <2>1, <1>2, Alone, InHandler
  <2>3. ct' = ct
    BY <2>2 DEF Moves
  <2> QED
    BY <2>1, <2>3 DEF StagesOK, InStage
<1> QED
  BY <1>1, <1>2

(* The invocation loses what it has in hand, and the container stays.       *)
LEMMA DropMoves ==
  ASSUME ShapesOK, NEW a \in Agents, NEW p, pc' = [pc EXCEPT ![a] = p], p \notin {"run", "told"},
         TypeOK, cur' = [cur EXCEPT ![a] = 0] \/ cur' = cur,
         hand' = [hand EXCEPT ![a] = NoHand] \/ (hand' = hand /\ hand[a] = NoHand),
         ct' \in Works, ct' = ct \/ Running(a),
         UNCHANGED <<cJobName, load>>
  PROVE  Moves(a)
<1>1. NoHand \in Hands
  BY DEF NoHand, Hands, Settled
<1>2. hand' \in [Agents -> Hands] /\ hand'[a] = NoHand
  BY <1>1 DEF ShapesOK
<1>3. ~Running(a)'
  BY DEF Running, TypeOK
<1>4. \A b \in Agents : b # a => pc'[b] = pc[b] /\ cur'[b] = cur[b] /\ hand'[b] = hand[b]
  BY DEF TypeOK, ShapesOK
<1> QED
  BY <1>1, <1>2, <1>3, <1>4 DEF Moves

(* The handler goes on with g in hand.                                      *)
LEMMA GoesOn ==
  ASSUME TypeOK, ShapesOK, NEW a \in Agents, Running(a), NEW g \in Hands,
         hand' = [hand EXCEPT ![a] = g],
         UNCHANGED cur, UNCHANGED pc \/ Goto(a, "told"),
         ct' \in Works, InStage(Name(a), g, ct'), UNCHANGED <<cJobName, load>>
  PROVE  Moves(a)
<1>1. hand' \in [Agents -> Hands] /\ hand'[a] = g
  BY DEF ShapesOK
<1>2. Running(a)' /\ Name(a)' = Name(a)
  BY DEF Running, Name, Goto, TypeOK
<1>3. \A b \in Agents : b # a => pc'[b] = pc[b] /\ cur'[b] = cur[b] /\ hand'[b] = hand[b]
  BY DEF TypeOK, ShapesOK, Goto
<1> QED
  BY <1>1, <1>2, <1>3 DEF Moves

(* The queue's own steps leave a handler and its job where they are.        *)
LEMMA QueueMoves ==
  ASSUME TypeOK, ShapesOK, NEW a \in Agents, Queue(a)
  PROVE  Moves(a)
<1>1. pc[a] \notin {"run", "told"} /\ hand[a] = NoHand
  BY DEF Queue, CronStart, TakeLock, LockBusy, SelectJobs, Finish, ShapesOK, Running
<1>2. UNCHANGED <<hand, ct, cJobName, load>> /\ ct \in Works
  BY DEF Queue, CronStart, TakeLock, LockBusy, SelectJobs, Finish, ShapesOK, Works
<1>3. PICK p \in {"idle", "started", "select", "loop"} : pc' = [pc EXCEPT ![a] = p]
  BY DEF Queue, CronStart, TakeLock, LockBusy, SelectJobs, Finish, Exit, Goto
<1>4. cur' = [cur EXCEPT ![a] = 0] \/ cur' = cur
  BY DEF Queue, CronStart, TakeLock, LockBusy, SelectJobs, Finish, Exit
<1> QED
  BY <1>1, <1>2, <1>3, <1>4, DropMoves

LEMMA Skipped ==
  ASSUME NEW h \in Hands, h.todo # <<>>
  PROVE  /\ [h EXCEPT !.todo = Tail(h.todo), !.failed = TRUE] \in Hands
         /\ Skips(h, [h EXCEPT !.todo = Tail(h.todo), !.failed = TRUE])
         /\ [h EXCEPT !.todo = Tail(h.todo)] \in Hands
         /\ [h EXCEPT !.todo = Tail(h.todo)].mode = h.mode
<1>1. Tail(h.todo) \in Seq(Commands)
  BY DEF Hands
<1> DEFINE t == Tail(h.todo)
<1> HIDE DEF t
<1>2. /\ [h EXCEPT !.todo = t, !.failed = TRUE] \in Hands
      /\ [h EXCEPT !.todo = t, !.failed = TRUE].todo = t
      /\ [h EXCEPT !.todo = t, !.failed = TRUE].goal = h.goal
      /\ [h EXCEPT !.todo = t, !.failed = TRUE].mode = h.mode
      /\ [h EXCEPT !.todo = t, !.failed = TRUE].failed = TRUE
      /\ [h EXCEPT !.todo = t] \in Hands
      /\ [h EXCEPT !.todo = t].mode = h.mode
  BY <1>1 DEF Hands, t
<1> QED
  BY <1>2 DEF Skips, t

LEMMA BeginMoves ==
  ASSUME TypeOK, LockInv, HandsInv, ShapesOK, NEW a \in Agents, Begin(a)
  PROVE  Moves(a) /\ hand'[a].mode = "ahead"
<1>1. PICK j \in rows[a] : cur' = [cur EXCEPT ![a] = j] /\ Goto(a, "run")
  <2>1. load[NodeOf[a]] = "normal"
    BY DEF ShapesOK
  <2> QED
    BY <2>1 DEF Begin, NextJob
<1>2. j \in JobIds /\ Held(a, j)
  BY DEF TypeOK, Held
<1>3. tJob[j].uJobStatus # "none"
  BY <1>2 DEF HandsInv
<1>4. cJobName[j] \in Ops /\ cur'[a] = j
  BY <1>1, <1>2, <1>3 DEF ShapesOK, TypeOK
<1>5. PICK plan \in Plans[cJobName[j]] : hand' = [hand EXCEPT ![a] = plan]
  BY <1>4 DEF Begin
<1>6. plan \in Hands /\ plan.mode = "ahead" /\ InStage(cJobName[j], plan, ct)
  BY <1>4, PlanStarts
<1>7. UNCHANGED <<ct, cJobName, load>> /\ ct \in Works
  BY DEF Begin, NextJob, ShapesOK, Works
<1>8. hand' \in [Agents -> Hands] /\ hand'[a] = plan
  BY <1>5, <1>6 DEF ShapesOK
<1>9. Running(a)' /\ Name(a)' = cJobName[j]
  BY <1>1, <1>4, <1>7 DEF Running, Name, Goto, TypeOK
<1>10. \A b \in Agents : b # a => pc'[b] = pc[b] /\ cur'[b] = cur[b] /\ hand'[b] = hand[b]
  BY <1>1, <1>5 DEF TypeOK, ShapesOK, Goto
<1> QED
  BY <1>6, <1>7, <1>8, <1>9, <1>10 DEF Moves

LEMMA CommandMoves ==
  ASSUME TypeOK, LockInv, HandsInv, ShapesOK, StagesOK, NEW a \in Agents, Command(a)
  PROVE  Moves(a) /\ hand'[a].mode = hand[a].mode
<1> DEFINE h == hand[a]
           g == [h EXCEPT !.todo = Tail(h.todo)]
<1>1. Running(a) /\ h \in Hands /\ h.todo # <<>> /\ InStage(Name(a), h, ct)
  BY DEF Command, ShapesOK, StagesOK
<1>2. hand' = [hand EXCEPT ![a] = g]
  BY DEF Command, ShapesOK
<1>3. g \in Hands /\ g.mode = h.mode
  BY <1>1, Skipped
<1>4. Head(h.todo) \in Commands
  BY <1>1 DEF Hands
<1>5. /\ ct' \in Works
      /\ Head(h.todo) \in {"create", "stop", "halt"} => ct' = "stopped"
      /\ Head(h.todo) \in {"start", "restart"} => ct' = "running"
      /\ Head(h.todo) = "destroy" => ct' = "absent"
      /\ Head(h.todo) = "set" => ct' = ct
  BY <1>4 DEF Command, VzRuns, Effect, Commands, ShapesOK, Works
<1>6. Runs(h, g, ct, ct')
  BY <1>1, <1>5 DEF Runs, Hands
<1>7. InStage(Name(a), g, ct')
  BY <1>1, <1>6, Advances
<1>8. UNCHANGED <<pc, cur, cJobName, load>>
  BY DEF Command, vars
<1>9. hand'[a] = g
  BY <1>2 DEF ShapesOK
<1> HIDE DEF h, g
<1> QED
  BY <1>1, <1>2, <1>3, <1>5, <1>7, <1>8, <1>9, GoesOn DEF h

(* A step that ends the handler: in error, done, returned, or dead.         *)
LEMMA EndMoves ==
  ASSUME TypeOK, ShapesOK, NEW a \in Agents,
         CommandFails(a) \/ RolledBack(a) \/ Report(a) \/ WaitForDump(a) \/ Crash(a)
  PROVE  Moves(a) /\ hand'[a].mode = "ahead"
<1>1. PICK p \in {"idle", "loop"} : pc' = [pc EXCEPT ![a] = p]
  BY DEF CommandFails, RolledBack, Report, WaitForDump, Crash, EndJob, Return, DieLocked, Exit, Goto
<1>2. cur' = [cur EXCEPT ![a] = 0]
  BY DEF CommandFails, RolledBack, Report, WaitForDump, Crash, EndJob, Return, DieLocked, Exit
<1>3. hand' = [hand EXCEPT ![a] = NoHand]
  BY DEF CommandFails, RolledBack, Report, WaitForDump, Crash, Drop
<1>4. UNCHANGED <<cJobName, load>>
  BY DEF CommandFails, RolledBack, Report, WaitForDump, Crash, EndJob, Return, DieLocked
<1>5. ct' \in Works /\ (ct' = ct \/ Running(a))
  BY DEF CommandFails, StopsShort, RolledBack, Report, WaitForDump, Crash, ShapesOK, Works
<1>6. hand'[a].mode = "ahead"
  BY <1>3 DEF ShapesOK, NoHand
<1>7. /\ p \notin {"run", "told"}
      /\ cur' = [cur EXCEPT ![a] = 0] \/ cur' = cur
      /\ hand' = [hand EXCEPT ![a] = NoHand] \/ (hand' = hand /\ hand[a] = NoHand)
  BY <1>2, <1>3
<1>8. Moves(a)
  BY <1>1, <1>4, <1>5, <1>7, DropMoves
<1> QED
  BY <1>6, <1>8

LEMMA DestroyMoves ==
  ASSUME TypeOK, HandsInv, ShapesOK, StagesOK, NEW a \in Agents, DestroyGoesOn(a)
  PROVE  Moves(a) /\ hand'[a].mode = hand[a].mode
<1> DEFINE h == hand[a]
           g == [h EXCEPT !.todo = Tail(h.todo), !.failed = TRUE]
<1>1. /\ Running(a) /\ h \in Hands /\ h.todo # <<>> /\ InStage("DestroyContainer", h, ct)
      /\ Name(a) = "DestroyContainer" /\ ~GivesUp(a, Head(h.todo))
  BY DEF DestroyGoesOn, ShapesOK, StagesOK
<1>2. hand' = [hand EXCEPT ![a] = g]
  BY DEF DestroyGoesOn, ShapesOK
<1>3. g \in Hands /\ Skips(h, g)
  BY <1>1, Skipped
<1>4. Head(h.todo) = "destroy" => ct = "absent"
  BY <1>1 DEF GivesUp
<1>5. InStage(Name(a), g, ct)
  BY <1>1, <1>3, <1>4, DestroySkips
<1>6. UNCHANGED <<ct, cur, cJobName, load>> /\ Goto(a, "told") /\ ct \in Works
  BY DEF DestroyGoesOn, ReportStatus, ShapesOK, Works
<1>7. hand'[a] = g
  BY <1>2 DEF ShapesOK
<1> HIDE DEF h, g
<1> QED
  BY <1>1, <1>2, <1>3, <1>5, <1>6, <1>7, GoesOn DEF h, Skips

LEMMA UndoMoves ==
  ASSUME TypeOK, HandsInv, ShapesOK, StagesOK, NEW a \in Agents, NewRollsBack(a)
  PROVE  Moves(a) /\ hand'[a].mode = "back"
<1> DEFINE h == hand[a]
           t == Undo(a)
           g == [h EXCEPT !.todo = t, !.mode = "back"]
<1>1. Running(a) /\ h \in Hands /\ Name(a) = "NewContainer"
  BY DEF NewRollsBack, ShapesOK
<1>2. hand' = [hand EXCEPT ![a] = g]
  BY DEF NewRollsBack, ShapesOK
<1>3. t \in {<<"stop", "destroy">>, <<"destroy">>}
  BY DEF Undo
<1>4. t \in Seq(Commands)
  <2>1. <<"stop", "destroy">> \in Seq(Commands) /\ <<"destroy">> \in Seq(Commands)
    BY DEF Commands
  <2> HIDE DEF t
  <2> QED
    BY <1>3, <2>1
<1> HIDE DEF t, h
<1>5. g \in Hands /\ g.todo = t /\ g.mode = "back"
  BY <1>1, <1>4 DEF Hands
<1>6. InStage(Name(a), g, ct)
  BY <1>1, <1>3, <1>5 DEF InStage, BackStage
<1>7. UNCHANGED <<ct, cur, cJobName, load>> /\ Goto(a, "told") /\ ct \in Works
  BY DEF NewRollsBack, ReportStatus, ShapesOK, Works
<1>8. hand'[a] = g
  BY <1>2 DEF ShapesOK
<1> HIDE DEF g
<1> QED
  BY <1>1, <1>2, <1>5, <1>6, <1>7, <1>8, GoesOn

LEMMA SkipMoves ==
  ASSUME TypeOK, HandsInv, ShapesOK, StagesOK, NEW a \in Agents, HaltFails(a) \/ RollbackFails(a)
  PROVE  Moves(a) /\ hand'[a].mode = hand[a].mode
<1> DEFINE h == hand[a]
           g == [h EXCEPT !.todo = Tail(h.todo), !.failed = TRUE]
<1>1. /\ Running(a) /\ h \in Hands /\ h.todo # <<>> /\ InStage(Name(a), h, ct)
      /\ Head(h.todo) = "halt" \/ h.mode = "back"
  BY DEF HaltFails, RollbackFails, ShapesOK, StagesOK
<1>2. hand' = [hand EXCEPT ![a] = g]
  BY DEF HaltFails, RollbackFails, ShapesOK
<1>3. g \in Hands /\ Skips(h, g)
  BY <1>1, Skipped
<1>4. InStage(Name(a), g, ct)
  BY <1>1, <1>3, HaltSkips, BackSkips
<1>5. UNCHANGED <<ct, cur, cJobName, load>> /\ ct \in Works
  BY DEF HaltFails, RollbackFails, ReportStatus, ShapesOK, Works, vars
<1>6. UNCHANGED pc \/ Goto(a, "told")
  BY DEF HaltFails, RollbackFails, ReportStatus, vars
<1>7. hand'[a] = g
  BY <1>2 DEF ShapesOK
<1> HIDE DEF h, g
<1> QED
  BY <1>1, <1>2, <1>3, <1>4, <1>5, <1>6, <1>7, GoesOn DEF h, Skips

LEMMA GoalMoves ==
  ASSUME TypeOK, HandsInv, ShapesOK, StagesOK, NEW a \in Agents, SetGoal(a)
  PROVE  /\ Moves(a) /\ hand'[a].mode = "done"
         /\ Tells(uStatus', ct') \/ (Name(a) = "NewContainer" /\ hand[a].failed)
<1> DEFINE h == hand[a]
           g == [h EXCEPT !.mode = "done"]
<1>1. /\ Running(a) /\ h \in Hands /\ h.todo = <<>> /\ h.mode = "ahead"
      /\ InStage(Name(a), h, ct)
  BY DEF SetGoal, ShapesOK, StagesOK
<1>2. hand' = [hand EXCEPT ![a] = g]
  BY DEF SetGoal, ShapesOK
<1>3. g \in Hands /\ g.todo = <<>> /\ g.mode = "done"
  BY <1>1 DEF Hands
<1>4. InStage(Name(a), g, ct)
  BY <1>3 DEF InStage
<1>5. UNCHANGED <<ct, pc, cur, cJobName, load>> /\ ct \in Works
  BY DEF SetGoal, ShapesOK, Works, vars
<1>6. hand'[a] = g
  BY <1>2 DEF ShapesOK
<1>7. uStatus' = h.goal
  BY DEF SetGoal, SetContainerStatus
<1>8. Tells(h.goal, ct) \/ (Name(a) = "NewContainer" /\ h.failed)
  BY <1>1, PlanTells
<1>9. Tells(uStatus', ct') \/ (Name(a) = "NewContainer" /\ h.failed)
  BY <1>5, <1>7, <1>8
<1> HIDE DEF g
<1> QED
  BY <1>1, <1>2, <1>3, <1>4, <1>5, <1>6, <1>9, GoesOn

LEMMA HandleMoves ==
  ASSUME TypeOK, LockInv, HandsInv, ShapesOK, StagesOK, NEW a \in Agents, Handle(a) \/ Crash(a)
  PROVE  Moves(a)
  BY QueueMoves, BeginMoves, CommandMoves, EndMoves, DestroyMoves, UndoMoves, SkipMoves, GoalMoves
     DEF Handle

(* Handlers change the status of the jobs they have in hand only.           *)
LEMMA HandleRows ==
  ASSUME TypeOK, HandsInv, NEW a \in Agents, Handle(a) \/ Crash(a)
  PROVE  \/ UNCHANGED tJob
         \/ \E j \in JobIds, s \in JobStatus \ {"none"} : Held(a, j) /\ SetStatus(j, s)
<1>1. CASE Queue(a) \/ Command(a) \/ HaltFails(a) \/ SetGoal(a) \/ RolledBack(a) \/ Crash(a)
  BY <1>1 DEF Queue, CronStart, TakeLock, LockBusy, SelectJobs, Finish, Command, HaltFails,
     SetGoal, RolledBack, Return, Crash, DieLocked, vars
<1>2. CASE Begin(a)
  <2>1. PICK j \in rows[a] : SetStatus(j, "RUNNING") \/ UNCHANGED tJob
    BY <1>2 DEF Begin, NextJob
  <2>2. j \in JobIds /\ Held(a, j)
    BY DEF TypeOK, Held
  <2> QED
    BY <2>1, <2>2 DEF JobStatus
<1>3. CASE CommandFails(a) \/ Report(a) \/ WaitForDump(a) \/ DestroyGoesOn(a) \/ NewRollsBack(a)
           \/ RollbackFails(a)
  <2>1. PICK s \in {"DONEOK", "ERROR", "WAITING"} : SetStatus(cur[a], s) /\ pc[a] \in {"run", "told"}
    BY <1>3 DEF CommandFails, Report, WaitForDump, DestroyGoesOn, NewRollsBack, RollbackFails,
       EndJob, ReportStatus
  <2>2. cur[a] \in JobIds /\ Held(a, cur[a])
    BY <2>1 DEF TypeOK, Held
  <2> QED
    BY <2>1, <2>2 DEF JobStatus
<1> QED
  BY <1>1, <1>2, <1>3 DEF Handle

LEMMA HandleNone ==
  ASSUME TypeOK, HandsInv, NEW a \in Agents, Handle(a) \/ Crash(a),
         NEW i \in JobIds, tJob[i].uJobStatus = "none"
  PROVE  tJob'[i].uJobStatus = "none"
<1>1. CASE UNCHANGED tJob
  BY <1>1
<1>2. ASSUME NEW j \in JobIds, NEW s \in JobStatus, Held(a, j), SetStatus(j, s)
      PROVE  tJob'[i].uJobStatus = "none"
  <2>1. j # i
    BY <1>2 DEF HandsInv
  <2> QED
    BY <1>2, <2>1, SetStatusType
<1> QED
  BY <1>1, <1>2, HandleRows

(* The status of the record and what the pages have of it stay of their     *)
(* types.                                                                   *)
LEMMA StatusSet ==
  ASSUME NEW st \in Status, NEW P \in [Sessions -> Pages], SetContainerStatus(st, P)
  PROVE  /\ uStatus' = st /\ page' \in [Sessions -> Pages]
         /\ \A s \in Sessions : /\ page'[s].at = P[s].at /\ page'[s].op = P[s].op
                                /\ page'[s].to = P[s].to /\ page'[s].job = P[s].job
<1>1. CASE page' = P
  BY <1>1 DEF SetContainerStatus
<1>2. CASE page' = [s \in Sessions |-> [P[s] EXCEPT !.fresh = (P[s].at # "form")]]
  <2>1. ASSUME NEW p \in Pages, NEW v \in BOOLEAN
        PROVE  /\ [p EXCEPT !.fresh = v] \in Pages
               /\ [p EXCEPT !.fresh = v].at = p.at /\ [p EXCEPT !.fresh = v].op = p.op
               /\ [p EXCEPT !.fresh = v].to = p.to /\ [p EXCEPT !.fresh = v].job = p.job
    BY DEF Pages
  <2>2. ASSUME NEW s \in Sessions
        PROVE  /\ page'[s] \in Pages
               /\ page'[s].at = P[s].at /\ page'[s].op = P[s].op
               /\ page'[s].to = P[s].to /\ page'[s].job = P[s].job
    <3> DEFINE v == (P[s].at # "form")
    <3>1. v \in BOOLEAN /\ P[s] \in Pages
      OBVIOUS
    <3>2. page'[s] = [P[s] EXCEPT !.fresh = v]
      BY <1>2, Zenon
    <3> HIDE DEF v
    <3> QED
      BY <2>1, <3>1, <3>2
  <2>3. page' \in [Sessions -> Pages]
    <3>1. page' = [s \in Sessions |-> page'[s]]
      BY <1>2, Zenon
    <3> QED
      BY <2>2, <3>1
  <2> QED
    BY <2>2, <2>3 DEF SetContainerStatus
<1> QED
  BY <1>1, <1>2 DEF SetContainerStatus

LEMMA ClosedPage == Closed \in Pages
  BY DEF Closed, Pages, Settled, Ops, Status

LEMMA FormEdits ==
  ASSUME NEW p \in Pages, NEW st \in Status
  PROVE  /\ [p EXCEPT !.at = "form", !.st = st] \in Pages
         /\ [p EXCEPT !.at = "form", !.st = st].at = "form"
  BY DEF Pages

LEMMA SubmitEdits ==
  ASSUME NEW p \in Pages, NEW o \in Ops \cup {"Cancel", "CancelSet"}
  PROVE  /\ [p EXCEPT !.at = "checked", !.op = o] \in Pages
         /\ [p EXCEPT !.at = "checked", !.op = o].at = "checked"
  BY DEF Pages

LEMMA CheckedEdits ==
  ASSUME NEW p \in Pages, NEW st \in Status, NEW o \in Ops \cup {"Cancel", "CancelSet"}
  PROVE  /\ [p EXCEPT !.at = "checked", !.op = o, !.st = st] \in Pages
         /\ [p EXCEPT !.at = "checked", !.op = o, !.st = st].at = "checked"
  BY DEF Pages

LEMMA SetEdits ==
  ASSUME NEW p \in Pages, NEW st \in Status
  PROVE  /\ [p EXCEPT !.at = "set", !.to = st] \in Pages
         /\ [p EXCEPT !.at = "set", !.to = st].at = "set"
         /\ [p EXCEPT !.at = "set", !.to = st].to = st
  BY DEF Pages

LEMMA Replaced ==
  ASSUME ShapesOK, NEW s \in Sessions, NEW q \in Pages, page' = [page EXCEPT ![s] = q]
  PROVE  /\ page' \in [Sessions -> Pages] /\ page'[s] = q
         /\ \A t \in Sessions : t # s => page'[t] = page[t]
  BY DEF ShapesOK

Others(s) == \A t \in Sessions : t # s => page'[t] = page[t]

LEMMA OpenMoves ==
  ASSUME ShapesOK, NEW s \in Sessions, OpenPage(s)
  PROVE  /\ page' \in [Sessions -> Pages] /\ Others(s)
         /\ page[s].at # "set" /\ page'[s].at # "set"
<1> DEFINE q == [Closed EXCEPT !.at = "form", !.st = uStatus]
<1>1. q \in Pages /\ q.at = "form"
  BY FormEdits, ClosedPage DEF ShapesOK, OpenPage
<1>2. page' = [page EXCEPT ![s] = q] /\ page[s].at # "set"
  BY DEF OpenPage
<1> HIDE DEF q
<1> QED
  BY <1>1, <1>2, Replaced DEF Others

LEMMA SubmitMoves ==
  ASSUME ShapesOK, NEW s \in Sessions, NEW op \in Ops \cup {"Cancel"}, Submit(s, op)
  PROVE  /\ page' \in [Sessions -> Pages] /\ Others(s)
         /\ page[s].at # "set" /\ page'[s].at # "set"
<1> DEFINE p == page[s]
           q == [p EXCEPT !.at = "checked", !.op = op]
<1>1. p \in Pages /\ p.at # "set"
  BY DEF ShapesOK, Submit
<1>2. q \in Pages /\ q.at = "checked" /\ Closed \in Pages /\ Closed.at = "closed"
  BY <1>1, SubmitEdits, ClosedPage DEF Closed
<1>3. page' = [page EXCEPT ![s] = q] \/ page' = [page EXCEPT ![s] = Closed]
  BY DEF Submit, ShapesOK
<1> HIDE DEF q
<1>4. PICK r \in Pages : page' = [page EXCEPT ![s] = r] /\ r.at # "set"
  BY <1>2, <1>3
<1> QED
  BY <1>1, <1>4, Replaced DEF Others

LEMMA SubmitSetMoves ==
  ASSUME ShapesOK, NEW s \in Sessions, NEW op \in Ops \cup {"CancelSet"}, SubmitSet(s, op)
  PROVE  /\ page' \in [Sessions -> Pages] /\ Others(s)
         /\ page[s].at # "set" /\ page'[s].at # "set"
<1> DEFINE q == [Closed EXCEPT !.at = "checked", !.op = op, !.st = uStatus]
<1>1. q \in Pages /\ q.at = "checked"
  BY CheckedEdits, ClosedPage DEF ShapesOK, SubmitSet
<1>2. page' = [page EXCEPT ![s] = q] /\ page[s].at # "set"
  BY DEF SubmitSet
<1> HIDE DEF q
<1> QED
  BY <1>1, <1>2, Replaced DEF Others

(* A page that inserts a job is left to set its status.                     *)
LEMMA AddMoves ==
  ASSUME ShapesOK, NEW s \in Sessions, AddJob(s)
  PROVE  \E j \in JobIds :
            /\ InsertJob(j, Home, Veid, "normal")
            /\ cJobName' = [cJobName EXCEPT ![j] = page[s].op] /\ page[s].op \in Ops
            /\ page' \in [Sessions -> Pages] /\ Others(s)
            /\ page'[s].at = "set" /\ page'[s].job = j
<1>1. PICK j \in JobIds :
          /\ InsertJob(j, Home, Veid, "normal")
          /\ cJobName' = [cJobName EXCEPT ![j] = page[s].op]
          /\ page' = [page EXCEPT ![s].at = "set", ![s].to = Awaits[page[s].op], ![s].job = j]
  BY DEF AddJob
<1> DEFINE st == Awaits[page[s].op]
           p == page[s]
           q == [p EXCEPT !.at = "set", !.to = st, !.job = j]
<1>2. p \in Pages /\ st \in Status /\ p.op \in Ops
  BY DEF AddJob, ShapesOK, Awaits, Ops, Status, Settled, CancelFrom
<1>3. page' = [page EXCEPT ![s] = q]
  BY <1>1 DEF ShapesOK
<1> HIDE DEF st, p
<1>4. q \in Pages /\ q.at = "set" /\ q.job = j
  BY <1>2 DEF Pages
<1> HIDE DEF q
<1>5. page' \in [Sessions -> Pages] /\ Others(s) /\ page'[s] = q
  BY <1>3, <1>4, Replaced DEF Others
<1> QED
  BY <1>1, <1>2, <1>4, <1>5 DEF p

(* One that cancels is left to settle the record, or does nothing.          *)
LEMMA CancelMoves ==
  ASSUME ShapesOK, NEW s \in Sessions, CancelJobs(s) \/ CancelLate(s)
  PROVE  /\ page' \in [Sessions -> Pages] /\ Others(s) /\ page[s].at # "set"
         /\ page'[s].at = "set" => page'[s].to \in Settled
         /\ CancelJobs(s) => page'[s].at = "set"
<1> DEFINE p == page[s]
<1>1. p \in Pages /\ p.at # "set"
  BY DEF ShapesOK, CancelJobs, CancelLate
<1>2. /\ CancelTo(p.st) \in Settled /\ CancelTo("AWAITACT") \in Settled /\ Settled \subseteq Status
      /\ Closed \in Pages /\ Closed.at = "closed"
  BY ClosedPage DEF CancelTo, Settled, Status, Closed
<1>3. \E st \in Settled : \/ page' = [page EXCEPT ![s] = [p EXCEPT !.at = "set", !.to = st]]
                          \/ page' = [page EXCEPT ![s] = Closed] /\ CancelLate(s)
  <2>1. CASE CancelJobs(s)
    <3> DEFINE st == CancelTo(p.st)
    <3>1. page' = [page EXCEPT ![s].at = "set", ![s].to = st]
      BY <2>1 DEF CancelJobs
    <3>2. st \in Settled
      BY <1>2
    <3> HIDE DEF st
    <3>3. page' = [page EXCEPT ![s] = [p EXCEPT !.at = "set", !.to = st]]
      BY <3>1 DEF ShapesOK
    <3> WITNESS st \in Settled
    <3> QED
      BY <3>3
  <2>2. CASE CancelLate(s)
    <3> DEFINE st == CancelTo("AWAITACT")
    <3>1. \/ page' = [page EXCEPT ![s] = [p EXCEPT !.at = "set", !.to = st]]
          \/ page' = [page EXCEPT ![s] = Closed]
      BY <2>2 DEF CancelLate, ShapesOK
    <3>2. st \in Settled
      BY <1>2
    <3> HIDE DEF st
    <3> QED
      BY <2>2, <3>1, <3>2
  <2> QED
    BY <2>1, <2>2
<1>4. CancelJobs(s) => ~CancelLate(s)
  BY DEF CancelJobs, CancelLate, CancelContainerJob
<1>5. PICK st \in Settled : \/ page' = [page EXCEPT ![s] = [p EXCEPT !.at = "set", !.to = st]]
                            \/ page' = [page EXCEPT ![s] = Closed] /\ CancelLate(s)
  BY <1>3
<1> DEFINE q == [p EXCEPT !.at = "set", !.to = st]
<1>6. q \in Pages /\ q.at = "set" /\ q.to = st
  BY <1>1, <1>2, SetEdits
<1> HIDE DEF p
<1>7. CASE page' = [page EXCEPT ![s] = q]
  <2> HIDE DEF q
  <2> QED
    BY <1>1, <1>6, <1>7, Replaced DEF Others, p
<1>8. CASE page' = [page EXCEPT ![s] = Closed] /\ CancelLate(s)
  BY <1>1, <1>2, <1>4, <1>8, Replaced DEF Others, p
<1> QED
  BY <1>5, <1>7, <1>8

LEMMA StatusMoves ==
  ASSUME ShapesOK, NEW s \in Sessions, SetPageStatus(s)
  PROVE  /\ uStatus' = page[s].to /\ uStatus' \in Status /\ page' \in [Sessions -> Pages]
         /\ page[s].at = "set" /\ page'[s].at = "closed"
<1> DEFINE P == [page EXCEPT ![s] = Closed]
<1>1. SetContainerStatus(page[s].to, P) /\ page[s].at = "set"
  BY DEF SetPageStatus
<1>2. page[s].to \in Status /\ P \in [Sessions -> Pages] /\ P[s].at = "closed"
  <2>1. Closed \in Pages /\ Closed.at = "closed"
    BY ClosedPage DEF Closed
  <2>2. page[s] \in Pages
    BY DEF ShapesOK
  <2> QED
    BY <2>1, <2>2 DEF ShapesOK, Pages
<1> HIDE DEF P
<1> QED
  BY <1>1, <1>2, StatusSet

LEMMA PageLeaves ==
  ASSUME NEW s \in Sessions, Page(s)
  PROVE  /\ UNCHANGED <<ct, hand, load, lock, pc, rows, cur>>
         /\ (UNCHANGED <<tJob, cJobName>> \/ AddJob(s) \/ CancelJobs(s))
         /\ (UNCHANGED uStatus \/ SetPageStatus(s))
<1>1. CASE AddJob(s)
  BY <1>1 DEF AddJob, InsertJob
<1>2. CASE CancelJobs(s)
  BY <1>2 DEF CancelJobs, CancelContainerJob
<1>3. CASE OpenPage(s) \/ CancelLate(s) \/ SetPageStatus(s)
  BY <1>3 DEF OpenPage, CancelLate, SetPageStatus, vars
<1>4. ASSUME NEW op, Submit(s, op) \/ SubmitSet(s, op)
      PROVE  UNCHANGED <<vars, ct, hand, cJobName, uStatus>>
  BY <1>4 DEF Submit, SubmitSet
<1> QED
  BY <1>1, <1>2, <1>3, <1>4 DEF Page, vars

LEMMA PageTypes ==
  ASSUME ShapesOK, NEW s \in Sessions, Page(s)
  PROVE  uStatus' \in Status /\ page' \in [Sessions -> Pages]
<1>1. uStatus' \in Status
  BY PageLeaves, StatusMoves DEF ShapesOK
<1>2. page' \in [Sessions -> Pages]
  BY OpenMoves, SubmitMoves, SubmitSetMoves, AddMoves, CancelMoves, StatusMoves DEF Page
<1> QED
  BY <1>1, <1>2

(* A row that is in no handler's hands is there or not, and where it is,    *)
(* only by a page's insert.                                                 *)
LEMMA PageRows ==
  ASSUME TypeOK, ShapesOK, NEW s \in Sessions, Page(s), NEW i \in JobIds
  PROVE  /\ tJob[i].uJobStatus # "none" => cJobName'[i] = cJobName[i]
         /\ tJob'[i].uJobStatus # "none" => cJobName'[i] \in Ops /\ tJob'[i].uNode = Home
<1>1. CASE UNCHANGED <<tJob, cJobName>>
  BY <1>1 DEF ShapesOK
<1>2. CASE AddJob(s)
  <2>1. PICK j \in JobIds :
            /\ InsertJob(j, Home, Veid, "normal")
            /\ cJobName' = [cJobName EXCEPT ![j] = page[s].op] /\ page[s].op \in Ops
    BY <1>2, AddMoves
  <2>2. CASE i = j
    BY <2>1, <2>2 DEF InsertJob, TypeOK, ShapesOK
  <2>3. CASE i # j
    BY <2>1, <2>3 DEF InsertJob, TypeOK, ShapesOK
  <2> QED
    BY <2>2, <2>3
<1>3. CASE CancelJobs(s)
  <2>1. UNCHANGED cJobName /\ CancelContainerJob(Home, Veid)
    BY <1>3 DEF CancelJobs
  <2>2. \/ tJob'[i] = tJob[i]
        \/ i \in CancelSet(Home, Veid) /\ tJob'[i] = [tJob[i] EXCEPT !.uJobStatus = "CANCELED"]
    BY <2>1 DEF CancelContainerJob
  <2>3. i \in CancelSet(Home, Veid) => tJob[i].uJobStatus # "none"
    BY DEF CancelSet, Cancelable
  <2>4. tJob[i] \in JobRow
    BY DEF TypeOK
  <2>5. [tJob[i] EXCEPT !.uJobStatus = "CANCELED"].uNode = tJob[i].uNode
    BY <2>4, RowUpdate DEF JobStatus
  <2> QED
    BY <2>1, <2>2, <2>3, <2>5 DEF ShapesOK
<1> QED
  BY <1>1, <1>2, <1>3, PageLeaves

LEMMA DueLeaves ==
  ASSUME TypeOK, NEW j \in JobIds, Due(j), NEW i \in JobIds
  PROVE  /\ UNCHANGED <<uStatus, ct, cJobName, page, hand, load, lock, pc, rows, cur>>
         /\ tJob'[i].uNode = tJob[i].uNode /\ tJob'[i].uJobStatus = tJob[i].uJobStatus
         /\ i # j => tJob'[i] = tJob[i]
<1>1. tJob[j] \in JobRow /\ "WAITING" \in JobStatus
  BY DEF TypeOK, JobStatus
<1>2. tJob' = [tJob EXCEPT ![j] = [tJob[j] EXCEPT !.due = TRUE]]
  BY DEF Due, JobDue, TypeOK
<1>3. /\ [tJob[j] EXCEPT !.due = TRUE].uNode = tJob[j].uNode
      /\ [tJob[j] EXCEPT !.due = TRUE].uJobStatus = tJob[j].uJobStatus
  BY <1>1, RowUpdate
<1> QED
  BY <1>2, <1>3 DEF Due, JobDue, TypeOK

LEMMA LifeStep ==
  ASSUME TypeOK, LockInv, HandsInv, ShapesOK, StagesOK, [LifeNext]_lifeVars
  PROVE  ShapesOK' /\ StagesOK'
<1>1. CASE UNCHANGED lifeVars
  BY <1>1 DEF lifeVars, vars, ShapesOK, StagesOK, Running, Name
<1>2. ASSUME NEW s \in Sessions, Page(s) PROVE ShapesOK' /\ StagesOK'
  <2>1. UNCHANGED <<ct, hand, load, pc, cur>>
    BY <1>2, PageLeaves
  <2>2. uStatus' \in Status /\ page' \in [Sessions -> Pages]
    BY <1>2, PageTypes
  <2>3. \A i \in JobIds :
            /\ tJob[i].uJobStatus # "none" => cJobName'[i] = cJobName[i]
            /\ tJob'[i].uJobStatus # "none" => cJobName'[i] \in Ops /\ tJob'[i].uNode = Home
    BY <1>2, PageRows
  <2>4. cJobName' \in [JobIds -> Ops \cup {"none"}]
    <3>1. CASE UNCHANGED cJobName
      BY <3>1 DEF ShapesOK
    <3>2. CASE AddJob(s)
      BY <3>2, AddMoves DEF ShapesOK
    <3> QED
      BY <1>2, <3>1, <3>2, PageLeaves DEF CancelJobs
  <2>5. ASSUME NEW a \in Agents, Running(a)' PROVE InStage(Name(a), hand[a], ct)'
    <3>1. Running(a)
      BY <2>1, <2>5 DEF Running
    <3>2. cur[a] \in JobIds /\ tJob[cur[a]].uJobStatus # "none"
      BY <3>1, InHandler DEF HandsInv
    <3>3. Name(a)' = Name(a)
      BY <2>1, <2>3, <3>2 DEF Name
    <3> QED
      BY <2>1, <3>1, <3>3 DEF StagesOK, InStage
  <2>6. ShapesOK'
    BY <2>1, <2>2, <2>3, <2>4 DEF ShapesOK, Running
  <2> QED
    BY <2>5, <2>6 DEF StagesOK
<1>3. ASSUME NEW j \in JobIds, Due(j) PROVE ShapesOK' /\ StagesOK'
  <2>1. /\ UNCHANGED <<uStatus, ct, cJobName, page, hand, load, pc, cur>>
        /\ \A i \in JobIds : tJob'[i].uNode = tJob[i].uNode /\ tJob'[i].uJobStatus = tJob[i].uJobStatus
    BY <1>3, DueLeaves
  <2> QED
    BY <2>1 DEF ShapesOK, StagesOK, Running, Name
<1>4. ASSUME NEW a \in Agents, Handle(a) \/ Crash(a) PROVE ShapesOK' /\ StagesOK'
  <2>1. Moves(a)
    BY <1>4, HandleMoves
  <2>2. uStatus' \in Status /\ page' \in [Sessions -> Pages]
    <3>1. CASE SetGoal(a)
      <4>1. hand[a].goal \in Status /\ SetContainerStatus(hand[a].goal, page) /\ page \in [Sessions -> Pages]
        BY <3>1 DEF SetGoal, ShapesOK, Hands, Status
      <4> QED
        BY <4>1, StatusSet
    <3>2. CASE ~SetGoal(a)
      <4>1. UNCHANGED <<uStatus, page>>
        BY <1>4, <3>2 DEF Handle, Queue, Begin, Command, CommandFails, DestroyGoesOn, NewRollsBack,
           HaltFails, RollbackFails, RolledBack, Report, WaitForDump, Crash
      <4> QED
        BY <4>1 DEF ShapesOK
    <3> QED
      BY <3>1, <3>2
  <2>3. ASSUME NEW i \in JobIds, tJob'[i].uJobStatus # "none"
        PROVE  cJobName'[i] \in Ops /\ tJob'[i].uNode = Home
    <3>1. tJob[i].uJobStatus # "none"
      BY <1>4, <2>3, HandleNone
    <3>2. tJob'[i].uNode = tJob[i].uNode
      <4>1. LifeNext
        BY <1>4 DEF LifeNext
      <4> QED
        BY <3>1, <4>1, QueueStep, RowStep
    <3> QED
      BY <2>1, <3>1, <3>2 DEF ShapesOK, Moves
  <2>4. \A b \in Agents : ~Running(b)' => hand'[b] = NoHand
    BY <2>1 DEF Moves, ShapesOK, Running
  <2>5. ShapesOK'
    BY <2>1, <2>2, <2>3, <2>4 DEF ShapesOK, Moves, Works
  <2> QED
    BY <2>1, <2>5, StagesMove
<1> QED
  BY <1>1, <1>2, <1>3, <1>4 DEF LifeNext

LEMMA LifeAlways == LifeSpec => []IndLife
<1>1. LifeInit => ShapesOK /\ StagesOK
  BY LifeStarts
<1>2. TypeOK /\ LockInv /\ HandsInv /\ ShapesOK /\ StagesOK /\ [LifeNext]_lifeVars
        => ShapesOK' /\ StagesOK'
  BY LifeStep
<1> QED
  BY <1>1, <1>2, QueueAlways, PTL DEF LifeSpec, IndLife

(* The record, the container, the pages and the handlers keep their shapes, *)
(* and an invocation has commands in hand only while it runs a job.         *)
THEOREM LifeTypeCorrect == LifeSpec => []LifeTypeOK
<1>1. IndLife => LifeTypeOK
  <2> SUFFICES ASSUME IndLife PROVE LifeTypeOK
    OBVIOUS
  <2>1. ASSUME NEW a \in Agents
        PROVE  /\ \A i \in 1 .. Len(hand[a].todo) : hand[a].todo[i] \in Commands
               /\ hand[a].goal \in Settled
               /\ hand[a].mode \in {"ahead", "back", "done"}
               /\ hand[a] # NoHand => Running(a)
    <3>1. hand[a] \in Hands
      BY DEF IndLife, ShapesOK
    <3>2. hand[a].todo \in Seq(Commands)
      BY <3>1 DEF Hands
    <3> QED
      BY <3>1, <3>2 DEF Hands, IndLife, ShapesOK
  <2> QED
    BY <2>1 DEF IndLife, ShapesOK, LifeTypeOK
<1> QED
  BY <1>1, LifeAlways, PTL

(* Where a handler sets the status it was to reach, the container is in it: *)
(* whatever commands failed before, whatever pages and cron did meanwhile;  *)
(* but the last stop of a deployment may have failed.                       *)
THEOREM TruthTold == LifeSpec => HandlerTellsTruth
<1> DEFINE Told == \A a \in Agents :
                      hand'[a].mode = "done" /\ hand[a].mode = "ahead" =>
                          \/ Tells(uStatus', ct')
                          \/ Name(a) = "NewContainer" /\ hand[a].failed
<1>1. ASSUME IndLife, LifeNext, NEW a \in Agents, hand'[a].mode = "done", hand[a].mode = "ahead"
      PROVE  Tells(uStatus', ct') \/ (Name(a) = "NewContainer" /\ hand[a].failed)
  <2> USE DEF IndLife
  <2>1. CASE UNCHANGED hand
    BY <1>1, <2>1
  <2>2. ASSUME NEW s \in Sessions, Page(s) PROVE UNCHANGED hand
    BY <2>2, PageLeaves
  <2>3. ASSUME NEW j \in JobIds, Due(j) PROVE UNCHANGED hand
    BY <2>3 DEF Due
  <2>4. ASSUME NEW b \in Agents, Handle(b) \/ Crash(b)
        PROVE  Tells(uStatus', ct') \/ (Name(a) = "NewContainer" /\ hand[a].failed)
    <3>1. Moves(b)
      BY <1>1, <2>4, HandleMoves
    <3>2. b = a
      BY <1>1, <3>1 DEF Moves
    <3>3. CASE Queue(a)
      BY <1>1, <3>3 DEF Queue
    <3>4. CASE Begin(a) \/ Command(a) \/ DestroyGoesOn(a) \/ NewRollsBack(a) \/ HaltFails(a) \/ RollbackFails(a)
      BY <1>1, <3>4, BeginMoves, CommandMoves, DestroyMoves, UndoMoves, SkipMoves
    <3>5. CASE CommandFails(a) \/ RolledBack(a) \/ Report(a) \/ WaitForDump(a) \/ Crash(a)
      BY <1>1, <3>5, EndMoves
    <3>6. CASE SetGoal(a)
      BY <1>1, <3>6, GoalMoves
    <3> QED
      BY <2>4, <3>2, <3>3, <3>4, <3>5, <3>6 DEF Handle
  <2> QED
    BY <1>1, <2>1, <2>2, <2>3, <2>4 DEF LifeNext
<1>2. IndLife /\ [LifeNext]_lifeVars => [Told]_lifeVars
  BY <1>1
<1> QED
  BY <1>2, LifeAlways, PTL DEF LifeSpec, HandlerTellsTruth

(* A deployment that returns from its rollback leaves no container, unless  *)
(* a step of the rollback failed.                                           *)
THEOREM DeploymentIsAtomic == LifeSpec => DeployIsAtomic
<1> DEFINE Clean == \A a \in Agents :
                      hand[a].mode = "back" /\ pc[a] = "told" /\ pc'[a] = "loop" =>
                          ct' = "absent" \/ hand[a].failed
<1>1. ASSUME IndLife, LifeNext, NEW a \in Agents,
             hand[a].mode = "back", pc[a] = "told", pc'[a] = "loop"
      PROVE  ct' = "absent" \/ hand[a].failed
  <2> USE DEF IndLife
  <2>1. pc' # pc
    BY <1>1
  <2>2. ~ \E s \in Sessions : Page(s)
    BY <2>1, PageLeaves
  <2>3. ~ \E j \in JobIds : Due(j)
    BY <2>1 DEF Due, JobDue
  <2>4. PICK b \in Agents : Handle(b) \/ Crash(b)
    BY <1>1, <2>2, <2>3 DEF LifeNext
  <2>5. Moves(b)
    BY <1>1, <2>4, HandleMoves
  <2>6. b = a
    BY <1>1, <2>5 DEF Moves
  <2>7. Running(a) /\ Running(a)' = FALSE /\ hand[a] \in Hands
    BY <1>1 DEF Running, ShapesOK
  <2>8. BackStage(hand[a], ct)
    BY <1>1, <2>7, BackIsNew DEF StagesOK
  <2>9. CASE RolledBack(a)
    BY <2>8, <2>9 DEF RolledBack, BackStage
  <2>10. CASE CommandFails(a) \/ Report(a)
    BY <1>1, <2>10 DEF CommandFails, Report
  <2>11. CASE WaitForDump(a)
    BY <2>8, <2>11 DEF WaitForDump, BackStage
  <2>12. CASE Queue(a) \/ Begin(a) \/ Crash(a)
    BY <1>1, <2>12 DEF Queue, CronStart, TakeLock, LockBusy, SelectJobs, Finish, Begin, NextJob,
       Crash, DieLocked, Exit, Goto, TypeOK
  <2>13. CASE Command(a) \/ HaltFails(a) \/ SetGoal(a)
    BY <1>1, <2>13 DEF Command, HaltFails, SetGoal, vars
  <2>14. CASE DestroyGoesOn(a) \/ NewRollsBack(a) \/ RollbackFails(a)
    BY <1>1, <2>14 DEF DestroyGoesOn, NewRollsBack, RollbackFails, ReportStatus, Goto, TypeOK
  <2> QED
    BY <2>4, <2>6, <2>9, <2>10, <2>11, <2>12, <2>13, <2>14 DEF Handle
<1>2. IndLife /\ [LifeNext]_lifeVars => [Clean]_lifeVars
  BY <1>1
<1> QED
  BY <1>2, LifeAlways, PTL DEF LifeSpec, DeployIsAtomic

(* The statuses handlers give their jobs leave them outstanding, but for    *)
(* the Done OK of a handler that has set the record.                        *)
LEMMA HandleKeeps ==
  ASSUME TypeOK, HandsInv, NEW a \in Agents, Handle(a) \/ Crash(a), NEW i \in JobIds, Outstanding(i)
  PROVE  Outstanding(i)' \/ (cur[a] = i /\ hand[a].mode = "done")
<1>1. CASE UNCHANGED tJob
  BY <1>1 DEF Outstanding
<1>2. CASE Queue(a) \/ Command(a) \/ HaltFails(a) \/ SetGoal(a) \/ RolledBack(a) \/ Crash(a)
  <2>1. UNCHANGED tJob
    BY <1>2 DEF Queue, CronStart, TakeLock, LockBusy, SelectJobs, Finish, Command, HaltFails,
       SetGoal, RolledBack, Return, Crash, DieLocked, vars
  <2> QED
    BY <1>1, <2>1
<1>3. ASSUME NEW j \in JobIds, NEW s \in {"RUNNING", "ERROR", "WAITING"}, SetStatus(j, s)
      PROVE  Outstanding(i)'
  <2>1. s \in JobStatus
    BY DEF JobStatus
  <2> QED
    BY <1>3, <2>1, SetStatusType DEF Outstanding
<1>4. CASE Begin(a)
  <2>1. PICK j \in rows[a] : SetStatus(j, "RUNNING") \/ UNCHANGED tJob
    BY <1>4 DEF Begin, NextJob
  <2>2. j \in JobIds
    BY DEF TypeOK
  <2> QED
    BY <1>1, <1>3, <2>1, <2>2
<1>5. CASE CommandFails(a) \/ WaitForDump(a) \/ DestroyGoesOn(a) \/ NewRollsBack(a) \/ RollbackFails(a)
  <2>1. PICK s \in {"ERROR", "WAITING"} : SetStatus(cur[a], s) /\ pc[a] \in {"run", "told"}
    BY <1>5 DEF CommandFails, WaitForDump, DestroyGoesOn, NewRollsBack, RollbackFails,
       EndJob, ReportStatus
  <2>2. cur[a] \in JobIds
    BY <2>1 DEF TypeOK
  <2> QED
    BY <1>3, <2>1, <2>2
<1>6. CASE Report(a)
  <2>1. SetStatus(cur[a], "DONEOK") /\ hand[a].mode = "done" /\ pc[a] \in {"run", "told"}
    BY <1>6 DEF Report, EndJob
  <2>2. cur[a] \in JobIds /\ "DONEOK" \in JobStatus
    BY <2>1 DEF TypeOK, JobStatus
  <2>3. CASE cur[a] # i
    BY <2>1, <2>2, <2>3, SetStatusType DEF Outstanding
  <2> QED
    BY <2>1, <2>3
<1> QED
  BY <1>2, <1>4, <1>5, <1>6 DEF Handle

(* Only setting the record makes a handler one that has.                    *)
LEMMA HandleDone ==
  ASSUME TypeOK, LockInv, HandsInv, ShapesOK, StagesOK, NEW a \in Agents, Handle(a) \/ Crash(a),
         ~SetGoal(a), NEW b \in Agents, hand'[b].mode = "done"
  PROVE  hand[b].mode = "done" /\ cur'[b] = cur[b]
<1>1. Moves(a)
  BY HandleMoves
<1>2. CASE b # a
  BY <1>1, <1>2 DEF Moves
<1>3. CASE b = a
  <2>1. CASE Queue(a)
    <3>1. hand[a] = NoHand
      BY <2>1 DEF Queue, CronStart, TakeLock, LockBusy, SelectJobs, Finish, ShapesOK, Running
    <3> QED
      BY <1>3, <2>1, <3>1 DEF Queue, NoHand
  <2>2. CASE Begin(a) \/ CommandFails(a) \/ RolledBack(a) \/ Report(a) \/ WaitForDump(a) \/ Crash(a)
             \/ NewRollsBack(a)
    BY <1>3, <2>2, BeginMoves, EndMoves, UndoMoves
  <2>3. CASE Command(a) \/ DestroyGoesOn(a) \/ HaltFails(a) \/ RollbackFails(a)
    <3>1. hand'[a].mode = hand[a].mode
      BY <2>3, CommandMoves, DestroyMoves, SkipMoves
    <3>2. UNCHANGED cur
      BY <2>3 DEF Command, DestroyGoesOn, HaltFails, RollbackFails, ReportStatus, vars
    <3> QED
      BY <1>3, <3>1, <3>2
  <2> QED
    BY <1>3, <2>1, <2>2, <2>3 DEF Handle
<1> QED
  BY <1>2, <1>3

(* An invocation has jobs in hand that are due.                             *)
DueInHand == \A a \in Agents, j \in JobIds : Held(a, j) => tJob[j].due

LEMMA DueKept ==
  ASSUME TypeOK, NEW i \in JobIds, tJob[i].due, tJob[i].uJobStatus # "none",
         \/ \E j \in JobIds : InsertJob(j, Home, Veid, "normal") \/ JobDue(j)
         \/ CancelContainerJob(Home, Veid)
         \/ \E j \in JobIds, s \in JobStatus : SetStatus(j, s)
  PROVE  tJob'[i].due
<1>0. ASSUME NEW r \in JobRow, NEW s \in JobStatus
      PROVE  r.due => [r EXCEPT !.uJobStatus = s].due
  BY DEF JobRow
<1>1. \A j \in JobIds : tJob[j] \in JobRow
  BY DEF TypeOK
<1>2. ASSUME NEW j \in JobIds, InsertJob(j, Home, Veid, "normal") PROVE tJob'[i].due
  <2>1. i # j
    BY <1>2 DEF InsertJob
  <2> QED
    BY <1>2, <2>1 DEF InsertJob, TypeOK
<1>3. ASSUME NEW j \in JobIds, JobDue(j) PROVE tJob'[i].due
  <2>1. i # j
    BY <1>3 DEF JobDue
  <2> QED
    BY <1>3, <2>1 DEF JobDue, TypeOK
<1>4. ASSUME CancelContainerJob(Home, Veid) PROVE tJob'[i].due
  <2>1. tJob'[i] = tJob[i] \/ tJob'[i] = [tJob[i] EXCEPT !.uJobStatus = "CANCELED"]
    BY <1>4 DEF CancelContainerJob
  <2>2. [tJob[i] EXCEPT !.uJobStatus = "CANCELED"].due
    BY <1>0, <1>1 DEF JobStatus
  <2> QED
    BY <2>1, <2>2
<1>5. ASSUME NEW j \in JobIds, NEW s \in JobStatus, SetStatus(j, s) PROVE tJob'[i].due
  <2>1. tJob'[i] = tJob[i] \/ tJob'[i] = [tJob[i] EXCEPT !.uJobStatus = s]
    BY <1>5 DEF SetStatus, TypeOK
  <2>2. [tJob[i] EXCEPT !.uJobStatus = s].due
    BY <1>0, <1>1
  <2> QED
    BY <2>1, <2>2
<1> QED
  BY <1>2, <1>3, <1>4, <1>5

LEMMA HeldFrom ==
  ASSUME TypeOK, ShapesOK, NEW a \in Agents, NEW j \in JobIds, Held(a, j)',
         NEW b \in Agents, Handle(b) \/ Crash(b)
  PROVE  Held(a, j) \/ (tJob[j].due /\ UNCHANGED tJob)
<1>1. CASE SelectJobs(b)
  <2>1. rows' = [rows EXCEPT ![b] = FirstRows(Eligible(NodeOf[b]))] /\ UNCHANGED <<tJob, cur>>
    BY <1>1 DEF SelectJobs
  <2>2. \A i \in FirstRows(Eligible(NodeOf[b])) : tJob[i].due
    BY DEF FirstRows, Eligible
  <2> QED
    BY <2>1, <2>2 DEF Held, TypeOK
<1>2. CASE Begin(b)
  <2>1. PICK i \in rows[b] : rows' = [rows EXCEPT ![b] = @ \ {i}] /\ cur' = [cur EXCEPT ![b] = i]
    BY <1>2 DEF Begin, NextJob
  <2> QED
    BY <2>1 DEF Held, TypeOK
<1>3. CASE (Queue(b) /\ ~SelectJobs(b)) \/ Crash(b)
  <2>1. /\ rows' = rows \/ rows' = [rows EXCEPT ![b] = {}]
        /\ cur' = cur \/ cur' = [cur EXCEPT ![b] = 0]
    BY <1>3 DEF Queue, CronStart, TakeLock, LockBusy, Finish, Crash, DieLocked, Exit
  <2> QED
    BY <2>1 DEF Held, TypeOK
<1>4. CASE CommandFails(b) \/ RolledBack(b) \/ Report(b) \/ WaitForDump(b)
  <2>1. UNCHANGED rows /\ cur' = [cur EXCEPT ![b] = 0]
    BY <1>4 DEF CommandFails, RolledBack, Report, WaitForDump, EndJob, Return
  <2> QED
    BY <2>1 DEF Held, TypeOK
<1>5. CASE Command(b) \/ HaltFails(b) \/ SetGoal(b) \/ DestroyGoesOn(b) \/ NewRollsBack(b) \/ RollbackFails(b)
  <2>1. UNCHANGED <<rows, cur>>
    BY <1>5 DEF Command, HaltFails, SetGoal, DestroyGoesOn, NewRollsBack, RollbackFails,
       ReportStatus, vars
  <2> QED
    BY <2>1 DEF Held
<1> QED
  BY <1>1, <1>2, <1>3, <1>4, <1>5 DEF Handle

LEMMA DueStep ==
  ASSUME IndLife, DueInHand, [LifeNext]_lifeVars
  PROVE  DueInHand'
<1> USE DEF IndLife
<1> SUFFICES ASSUME NEW a \in Agents, NEW j \in JobIds, Held(a, j)' PROVE tJob'[j].due
  BY DEF DueInHand
<1>1. Held(a, j) => tJob[j].due /\ tJob[j].uJobStatus # "none"
  BY DEF DueInHand, HandsInv
<1>2. CASE UNCHANGED lifeVars
  BY <1>1, <1>2 DEF lifeVars, vars, Held
<1>3. ASSUME NEW s \in Sessions, Page(s) PROVE tJob'[j].due
  <2>1. Held(a, j)
    BY <1>3, PageLeaves DEF Held
  <2>2. CASE UNCHANGED tJob
    BY <1>1, <2>1, <2>2
  <2>3. CASE AddJob(s)
    BY <1>1, <2>1, <2>3, DueKept DEF AddJob
  <2>4. CASE CancelJobs(s)
    BY <1>1, <2>1, <2>4, DueKept DEF CancelJobs
  <2> QED
    BY <1>3, <2>2, <2>3, <2>4, PageLeaves
<1>4. ASSUME NEW i \in JobIds, Due(i) PROVE tJob'[j].due
  <2>1. Held(a, j) /\ JobDue(i)
    BY <1>4 DEF Due, JobDue, Held
  <2> QED
    BY <1>1, <2>1, DueKept
<1>5. ASSUME NEW b \in Agents, Handle(b) \/ Crash(b) PROVE tJob'[j].due
  <2>1. Held(a, j) \/ (tJob[j].due /\ UNCHANGED tJob)
    BY <1>5, HeldFrom
  <2>2. CASE UNCHANGED tJob
    BY <1>1, <2>1, <2>2
  <2>3. CASE \E i \in JobIds, s \in JobStatus : SetStatus(i, s)
    BY <1>1, <2>1, <2>2, <2>3, DueKept
  <2> QED
    BY <1>5, <2>2, <2>3, HandleRows
<1> QED
  BY <1>2, <1>3, <1>4, <1>5 DEF LifeNext

-----------------------------------------------------------------------------
(******************************* The pages *********************************)

(* A job whose page is not done yet waits, and is in nobody's hands.       *)
Untouched(j, table) == j \in JobIds /\ table[j].uJobStatus = "WAITING" /\ ~table[j].due

(* A job in hand of a handler that has set the record is as good as done.  *)
Pending(j) == Outstanding(j) /\ \A a \in Agents : cur[a] = j => hand[a].mode # "done"

PagesOK ==
    /\ DueInHand
    /\ \A s \in Sessions : page[s].at = "set" => page[s].to \in Settled \/ Untouched(page[s].job, tJob)
    /\ uStatus \notin Settled /\ (\A s \in Sessions : page[s].at # "set")
         => \E j \in JobIds : Pending(j)

OneSession == \A s, t \in Sessions : s = t

(* No handler and no clock touches the job of a page that is not done.      *)
LEMMA UntouchedIsFree ==
  ASSUME IndLife, DueInHand, NEW j, Untouched(j, tJob)
  PROVE  \A a \in Agents : ~Held(a, j)
  BY DEF DueInHand, Untouched, JobIds

LEMMA UntouchedKept ==
  ASSUME IndLife, DueInHand, NEW j, Untouched(j, tJob),
         \/ \E a \in Agents : Handle(a) \/ Crash(a)
         \/ \E i \in JobIds : Due(i) /\ i # j
         \/ UNCHANGED tJob
  PROVE  Untouched(j, tJob')
<1> USE DEF IndLife
<1>1. j \in JobIds /\ \A a \in Agents : ~Held(a, j)
  BY UntouchedIsFree DEF Untouched
<1>2. CASE UNCHANGED tJob
  BY <1>2 DEF Untouched
<1>3. ASSUME NEW i \in JobIds, Due(i), i # j PROVE Untouched(j, tJob')
  BY <1>1, <1>3, DueLeaves DEF Untouched
<1>4. ASSUME NEW a \in Agents, Handle(a) \/ Crash(a) PROVE Untouched(j, tJob')
  <2>1. ASSUME NEW i \in JobIds, NEW s \in JobStatus, Held(a, i), SetStatus(i, s)
        PROVE  tJob'[j] = tJob[j]
    <3>1. i # j
      BY <1>1, <2>1
    <3> QED
      BY <1>1, <2>1, <3>1, SetStatusType
  <2>2. tJob'[j] = tJob[j]
    BY <1>4, <2>1, HandleRows
  <2> QED
    BY <2>2 DEF Untouched
<1> QED
  BY <1>2, <1>3, <1>4

LEMMA AwaitStep ==
  ASSUME IndLife, PagesOK, OneSession, LifeNext
  PROVE  PagesOK'
<1> USE DEF IndLife
<1> DEFINE Waits(s) == page[s].at = "set" => page[s].to \in Settled \/ Untouched(page[s].job, tJob)
           Waits2(s) == page'[s].at = "set" => page'[s].to \in Settled \/ Untouched(page'[s].job, tJob')
           Lost == uStatus \notin Settled /\ (\A s \in Sessions : page[s].at # "set")
           Lost2 == uStatus' \notin Settled /\ (\A s \in Sessions : page'[s].at # "set")
<1>1. DueInHand /\ DueInHand'
  BY DueStep DEF PagesOK
<1>2. (\A s \in Sessions : Waits(s)) /\ (Lost => \E j \in JobIds : Pending(j))
  BY DEF PagesOK
<1> SUFFICES (\A s \in Sessions : Waits2(s)) /\ (Lost2 => \E j \in JobIds : Pending(j)')
  BY <1>1 DEF PagesOK
<1>3. ASSUME NEW s \in Sessions, Page(s)
      PROVE  (\A t \in Sessions : Waits2(t)) /\ (Lost2 => \E j \in JobIds : Pending(j)')
  <2>1. \A t \in Sessions : t = s
    BY DEF OneSession
  <2>2. UNCHANGED <<hand, cur>>
    BY <1>3, PageLeaves
  <2>3. ASSUME NEW j \in JobIds, Pending(j), UNCHANGED tJob PROVE Pending(j)'
    BY <2>2, <2>3 DEF Pending, Outstanding
  <2>4. CASE AddJob(s)
    <3>1. PICK j \in JobIds : /\ InsertJob(j, Home, Veid, "normal")
                              /\ page'[s].at = "set" /\ page'[s].job = j
      BY <2>4, AddMoves
    <3>2. Untouched(j, tJob')
      BY <3>1 DEF InsertJob, Untouched, TypeOK
    <3> QED
      BY <2>1, <3>1, <3>2
  <2>5. CASE CancelJobs(s)
    BY <2>1, <2>5, CancelMoves
  <2>6. CASE SetPageStatus(s)
    <3>1. uStatus' = page[s].to /\ page[s].at = "set" /\ page'[s].at = "closed" /\ UNCHANGED tJob
      BY <2>6, StatusMoves DEF SetPageStatus, vars
    <3>2. CASE page[s].to \in Settled
      BY <2>1, <3>1, <3>2
    <3>3. CASE Untouched(page[s].job, tJob)
      <4>1. PICK j \in JobIds : j = page[s].job /\ Untouched(j, tJob)
        BY <3>3 DEF Untouched
      <4>2. \A a \in Agents : ~Held(a, j)
        BY <1>1, <4>1, UntouchedIsFree
      <4>3. Outstanding(j) /\ \A a \in Agents : cur[a] # j
        BY <4>1, <4>2 DEF Outstanding, Untouched, Held
      <4>4. Pending(j)'
        BY <3>1, <4>3, <2>2 DEF Pending, Outstanding
      <4> QED
        BY <2>1, <3>1, <4>4
    <3> QED
      BY <1>2, <3>1, <3>2, <3>3
  <2>7. CASE ~AddJob(s) /\ ~CancelJobs(s) /\ ~SetPageStatus(s)
    <3>1. UNCHANGED <<uStatus, tJob>>
      BY <1>3, <2>7, PageLeaves
    <3>2. page[s].at # "set" /\ (page'[s].at = "set" => page'[s].to \in Settled)
      BY <1>3, <2>7, OpenMoves, SubmitMoves, SubmitSetMoves, CancelMoves DEF Page
    <3>3. Lost2 => Lost
      BY <2>1, <3>1, <3>2
    <3> QED
      BY <1>2, <2>1, <2>3, <3>1, <3>2, <3>3
  <2> QED
    BY <2>4, <2>5, <2>6, <2>7
<1>4. ASSUME NEW i \in JobIds, Due(i)
      PROVE  (\A t \in Sessions : Waits2(t)) /\ (Lost2 => \E j \in JobIds : Pending(j)')
  <2>1. UNCHANGED <<uStatus, page, hand, cur>> /\ \A s \in Sessions : page[s].job # i
    BY <1>4 DEF Due, JobDue
  <2>2. ASSUME NEW t \in Sessions PROVE Waits2(t)
    BY <1>1, <1>2, <1>4, <2>1, UntouchedKept
  <2>3. ASSUME NEW j \in JobIds, Pending(j) PROVE Pending(j)'
    <3>1. tJob'[j].uJobStatus = tJob[j].uJobStatus
      BY <1>4, DueLeaves
    <3> QED
      BY <2>1, <2>3, <3>1 DEF Pending, Outstanding
  <2> QED
    BY <1>2, <2>1, <2>2, <2>3
<1>5. ASSUME NEW a \in Agents, Handle(a) \/ Crash(a)
      PROVE  (\A t \in Sessions : Waits2(t)) /\ (Lost2 => \E j \in JobIds : Pending(j)')
  <2>1. CASE SetGoal(a)
    <3>1. uStatus' \in Settled /\ UNCHANGED tJob
      BY <2>1 DEF SetGoal, SetContainerStatus, vars, ShapesOK, Hands
    <3>2. \A t \in Sessions : page'[t].at = page[t].at /\ page'[t].to = page[t].to /\ page'[t].job = page[t].job
      <4>1. hand[a].goal \in Status /\ SetContainerStatus(hand[a].goal, page) /\ page \in [Sessions -> Pages]
        BY <2>1 DEF SetGoal, ShapesOK, Hands, Status
      <4> QED
        BY <4>1, StatusSet
    <3>3. \A j : Untouched(j, tJob) => Untouched(j, tJob')
      BY <3>1 DEF Untouched
    <3> QED
      BY <1>2, <3>1, <3>2, <3>3
  <2>2. CASE ~SetGoal(a)
    <3>1. UNCHANGED <<uStatus, page>>
      BY <1>5, <2>2 DEF Handle, Queue, Begin, Command, CommandFails, DestroyGoesOn, NewRollsBack,
         HaltFails, RollbackFails, RolledBack, Report, WaitForDump, Crash
    <3>2. ASSUME NEW t \in Sessions PROVE Waits2(t)
      BY <1>1, <1>2, <1>5, <3>1, UntouchedKept
    <3>3. ASSUME NEW j \in JobIds, Pending(j) PROVE Pending(j)'
      <4>1. Outstanding(j)'
        BY <1>5, <3>3, HandleKeeps DEF Pending
      <4>2. ASSUME NEW b \in Agents, cur'[b] = j, hand'[b].mode = "done" PROVE FALSE
        BY <1>5, <2>2, <3>3, <4>2, HandleDone DEF Pending
      <4> QED
        BY <4>1, <4>2 DEF Pending
    <3> QED
      BY <1>2, <3>1, <3>2, <3>3
  <2> QED
    BY <2>1, <2>2
<1> QED
  BY <1>3, <1>4, <1>5 DEF LifeNext

LEMMA PagesAlways == LifeSpec /\ OneSession => [](IndLife /\ PagesOK)
<1>1. LifeInit => PagesOK
  <2> SUFFICES ASSUME LifeInit PROVE PagesOK
    OBVIOUS
  <2>1. \A a \in Agents, j \in JobIds : ~Held(a, j)
    BY DEF LifeInit, Init, Held
  <2>2. uStatus \in Settled
    BY DEF LifeInit, Settled
  <2>3. \A s \in Sessions : page[s].at # "set"
    BY DEF LifeInit, Closed
  <2> QED
    BY <2>1, <2>2, <2>3 DEF PagesOK, DueInHand
<1>2. IndLife /\ PagesOK /\ OneSession /\ [LifeNext]_lifeVars => PagesOK'
  <2>1. IndLife /\ PagesOK /\ UNCHANGED lifeVars => PagesOK'
    BY DEF lifeVars, vars, PagesOK, DueInHand, Held, Untouched, Pending, Outstanding
  <2> QED
    BY <2>1, AwaitStep
<1>3. LifeSpec /\ OneSession => []OneSession
  <2>1. OneSession /\ [LifeNext]_lifeVars => OneSession'
    BY DEF OneSession
  <2> QED
    BY <2>1, PTL DEF LifeSpec
<1> QED
  BY <1>1, <1>2, <1>3, LifeAlways, PTL DEF LifeSpec

(* With the pages of one session at a time, a record that waits has a job   *)
(* that is to end the wait or tells of an error: what a page inserts stays  *)
(* where it is until the page has set the record, and a handler that marks  *)
(* its job done has set the record before.  (Two sessions can undo this:    *)
(* one cancels the other's job before the other sets the record.)           *)
THEOREM AwaitedIsPending == LifeSpec /\ OneSession => []AwaitedHasJob
<1>1. PagesOK => AwaitedHasJob
  BY DEF PagesOK, AwaitedHasJob, Pending
<1> QED
  BY <1>1, PagesAlways, PTL
=============================================================================
