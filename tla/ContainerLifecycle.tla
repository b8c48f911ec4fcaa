------------------------- MODULE ContainerLifecycle -------------------------
(***************************************************************************)
(* One container between its record (tContainer.uStatus), the jobs that    *)
(* are to change it, and what vzctl has made of it on its node.            *)
(*                                                                         *)
(* A page of the web backend asks for a change: it compares its form with  *)
(* the record, inserts a job and sets an awaiting status, in this order    *)
(* and without a transaction.  The job's handler runs vzctl commands, sets *)
(* the resulting status and then marks the job done.  The job rows and the *)
(* invocations that run them are those of JobQueue, whose actions are      *)
(* conjuncts of the actions here.                                          *)
(***************************************************************************)
EXTENDS JobQueue, Sequences

CONSTANTS
    Veid,      \* the container
    Home,      \* the node its record names
    Sessions,  \* pages open in browsers
    Upsets     \* which of the upsets below may happen

\* "vzctl": a command fails; "rollback": so does one of a rollback; "halt": the
\* unchecked stop of a deployment fails; "crash": a handler exits; "second": two
\* changes of the record fall in one second
AllUpsets == {"vzctl", "rollback", "halt", "crash", "second"}

ASSUME LifecycleAssumption ==
    /\ Veid \in Containers /\ Home \in Nodes
    /\ "normal" \in Names
    /\ Upsets \subseteq AllUpsets

VARIABLES
    uStatus,  \* of the record
    ct,       \* the container on its node
    cJobName, \* the name of each job; JobQueue tells them apart by load only
    page,     \* the state of each session
    hand      \* the handler an invocation is in

lifeVars == <<vars, uStatus, ct, cJobName, page, hand>>

Settled == {"INITSETUP", "ACTIVE", "STOPPED"}

Ops == {"NewContainer", "StartContainer", "StopContainer", "RestartContainer",
        "DestroyContainer"}

\* The status an operation leaves the container waiting in
Awaits ==
    [NewContainer |-> "AWAITACT", StartContainer |-> "AWAITACT", StopContainer |-> "AWAITSTOP",
     RestartContainer |-> "AWAITRESTART", DestroyContainer |-> "AWAITDEL"]

\* The statuses the container's own page accepts an operation in
PageFrom ==
    [NewContainer |-> {"INITSETUP"}, StartContainer |-> {"STOPPED"}, StopContainer |-> {"ACTIVE"},
     RestartContainer |-> {}, DestroyContainer |-> {"ACTIVE", "STOPPED"}]

\* ... and the page of container sets, which may also start an active one
SetFrom == [PageFrom EXCEPT !.StartContainer = {"STOPPED", "ACTIVE"},
                            !.RestartContainer = {"ACTIVE"}]

CancelFrom == {"AWAITACT", "AWAITDEL", "AWAITSTOP"}

Status == Settled \cup CancelFrom \cup {"AWAITRESTART"}

\* What Cancel Job puts in the place of an awaiting status
CancelTo(st) == IF st = "AWAITACT" THEN "INITSETUP" ELSE "ACTIVE"

\* fresh: uModDate of the record is still the one of the form; to: the status
\* still to be set; job: the job inserted for it
Closed == [at |-> "closed", op |-> "none", st |-> "INITSETUP", fresh |-> TRUE,
           to |-> "INITSETUP", job |-> 0]

Pages == [at : {"closed", "form", "checked", "set"}, op : Ops \cup {"none", "Cancel", "CancelSet"},
          st : Status, fresh : BOOLEAN, to : Status, job : JobIds \cup {0}]

Commands == {"create", "start", "restart", "stop", "halt", "destroy", "set"}

\* todo: the vzctl commands to come; goal: the status for the end; mode:
\* "ahead", "back" in a rollback, "done" when the status is set; failed: a
\* command that does not end the handler has failed (uStopFailed)
NoHand == [todo |-> <<>>, goal |-> "ACTIVE", mode |-> "ahead", failed |-> FALSE]

Plan(todo, goal) == [NoHand EXCEPT !.todo = todo, !.goal = goal]

\* The ways through the handlers; the optional scripts at their ends change
\* nothing the model has
StopPlan == Plan(<<"stop", "set">>, "STOPPED")
\* start, and if that fails restart
StartPlan == Plan(<<"restart", "set">>, "ACTIVE")
RestartPlan == Plan(<<"restart">>, "ACTIVE")
DestroyPlan == Plan(<<"stop", "destroy">>, "INITSETUP")
\* Deployed started or stopped, without or with a veth interface
NewPlans == {Plan(<<"create", "set", "start">>, "ACTIVE"),
             Plan(<<"create", "set">>, "STOPPED"),
             Plan(<<"create", "set", "start", "set">>, "ACTIVE"),
             Plan(<<"create", "set", "start", "set", "halt">>, "STOPPED")}

Plans == [StopContainer |-> {StopPlan}, StartContainer |-> {StartPlan},
          RestartContainer |-> {RestartPlan}, DestroyContainer |-> {DestroyPlan},
          NewContainer |-> NewPlans]

-----------------------------------------------------------------------------
(********************************* vzctl ***********************************)

\* In which states of the container a command can succeed
Ready == [create |-> {"absent"}, destroy |-> {"stopped"}, start |-> {"stopped"},
          restart |-> {"running", "stopped"}, stop |-> {"running", "stopped"},
          halt |-> {"running", "stopped"}, set |-> {"running", "stopped"}]

Effect(cmd) ==
    CASE cmd \in {"create", "stop", "halt"} -> "stopped"
      [] cmd \in {"start", "restart"} -> "running"
      [] cmd = "destroy" -> "absent"
      [] cmd = "set" -> ct

VzRuns(cmd) == ct \in Ready[cmd] /\ ct' = Effect(cmd)

VzFails(cmd, upset) == ct \notin Ready[cmd] \/ upset \in Upsets

-----------------------------------------------------------------------------
LifeInit ==
    /\ Init
    /\ \E start \in {<<"INITSETUP", "absent">>, <<"STOPPED", "stopped">>, <<"ACTIVE", "running">>} :
            uStatus = start[1] /\ ct = start[2]
    /\ cJobName = [j \in JobIds |-> "none"]
    /\ page = [s \in Sessions |-> Closed]
    /\ hand = [a \in Agents |-> NoHand]

\* SetContainerStatus, by a session whose page becomes one of P or a handler:
\* the forms read before it no longer match, unless it falls in the second of
\* the change they have read
SetContainerStatus(st, P) ==
    /\ uStatus' = st
    /\ \/ page' = [s \in Sessions |-> [P[s] EXCEPT !.fresh = (P[s].at # "form")]]
       \/ "second" \in Upsets /\ page' = P

(******************************** The pages ********************************)

\* The container's page is loaded
OpenPage(s) ==
    /\ page[s].at = "closed"
    /\ page' = [page EXCEPT ![s] = [Closed EXCEPT !.at = "form", !.st = uStatus]]
    /\ UNCHANGED <<vars, uStatus, ct, cJobName, hand>>

Accepts(from, op, st) == IF op \in Ops THEN st \in from[op] ELSE st \in CancelFrom

\* A button of the form: its status and its uModDate are compared
Submit(s, op) ==
    /\ page[s].at = "form" /\ Accepts(PageFrom, op, page[s].st)
    /\ page' = [page EXCEPT ![s] = IF @.fresh THEN [@ EXCEPT !.at = "checked", !.op = op]
                                              ELSE Closed]
    /\ UNCHANGED <<vars, uStatus, ct, cJobName, hand>>

\* The container is checked in a container set: the record is read now
SubmitSet(s, op) ==
    /\ page[s].at = "closed" /\ Accepts(SetFrom, op, uStatus)
    /\ page' = [page EXCEPT ![s] = [Closed EXCEPT !.at = "checked", !.op = op, !.st = uStatus]]
    /\ UNCHANGED <<vars, uStatus, ct, cJobName, hand>>

\* StopContainerJob and the like
AddJob(s) ==
    /\ page[s].at = "checked" /\ page[s].op \in Ops
    /\ \E j \in JobIds :
        /\ InsertJob(j, Home, Veid, "normal")
        /\ cJobName' = [cJobName EXCEPT ![j] = page[s].op]
        /\ page' = [page EXCEPT ![s].at = "set", ![s].to = Awaits[page[s].op], ![s].job = j]
    /\ UNCHANGED <<uStatus, ct, hand>>

\* Mutant: the jobs are cancelled and the status is not set
CancelJobsOnly(s) ==
    /\ page[s].at = "checked" /\ page[s].op \in {"Cancel", "CancelSet"}
    /\ CancelContainerJob(Home, Veid)
    /\ page' = [page EXCEPT ![s] = Closed]
    /\ UNCHANGED <<uStatus, ct, cJobName, hand>>

\* CancelContainerJob finds something to cancel
CancelJobs(s) ==
    /\ page[s].at = "checked" /\ page[s].op \in {"Cancel", "CancelSet"}
    /\ CancelContainerJob(Home, Veid)
    /\ page' = [page EXCEPT ![s].at = "set", ![s].to = CancelTo(page[s].st)]
    /\ UNCHANGED <<uStatus, ct, cJobName, hand>>

\* ... or nothing: "Late?", but a container set resets Awaiting Activation
CancelLate(s) ==
    /\ page[s].at = "checked" /\ page[s].op \in {"Cancel", "CancelSet"}
    /\ CancelSet(Home, Veid) = {}
    /\ page' = [page EXCEPT ![s] =
                    IF @.op = "CancelSet" /\ @.st = "AWAITACT"
                    THEN [@ EXCEPT !.at = "set", !.to = CancelTo("AWAITACT")] ELSE Closed]
    /\ UNCHANGED <<vars, uStatus, ct, cJobName, hand>>

SetPageStatus(s) ==
    /\ page[s].at = "set"
    /\ SetContainerStatus(page[s].to, [page EXCEPT ![s] = Closed])
    /\ UNCHANGED <<vars, ct, cJobName, hand>>

(******************************* The handlers ******************************)

Running(a) == pc[a] \in {"run", "told"}
Name(a) == cJobName[cur[a]]
Drop(a) == hand' = [hand EXCEPT ![a] = NoHand]

\* ProcessJob calls the handler (that its update to Running fails is left to
\* JobQueue)
Begin(a) ==
    /\ NextJob(a) /\ tJob' # tJob
    /\ \E plan \in Plans[cJobName[cur'[a]]] : hand' = [hand EXCEPT ![a] = plan]
    /\ UNCHANGED <<uStatus, ct, cJobName, page>>

\* Waiting for vzdump.lock to go away
WaitForDump(a) ==
    /\ Running(a) /\ hand[a].todo # <<>> /\ Head(hand[a].todo) = "create"
    /\ EndJob(a, "WAITING") /\ Drop(a)
    /\ UNCHANGED <<uStatus, ct, cJobName, page>>

Command(a) ==
    /\ Running(a) /\ hand[a].todo # <<>>
    /\ VzRuns(Head(hand[a].todo)) /\ hand' = [hand EXCEPT ![a].todo = Tail(@)]
    /\ UNCHANGED <<vars, uStatus, cJobName, page>>

\* Mutant: a destroy that fails after a failing stop is always survived
GivesUpLess(a, cmd) ==
    \/ Name(a) \in {"StopContainer", "StartContainer", "RestartContainer"}
    \/ Name(a) = "NewContainer" /\ cmd = "create"
    \/ Name(a) = "DestroyContainer" /\ cmd = "destroy" /\ ~hand[a].failed

\* A handler whose failing command simply ends it in error
GivesUp(a, cmd) ==
    \/ Name(a) \in {"StopContainer", "StartContainer", "RestartContainer"}
    \/ Name(a) = "NewContainer" /\ cmd = "create"
    \/ Name(a) = "DestroyContainer" /\ cmd = "destroy" /\ (~hand[a].failed \/ ct # "absent")

\* A restart may fail between its stop and its start
StopsShort(cmd) == cmd = "restart" /\ ct = "running" /\ ct' = "stopped"

\* Mutant: the handler returns without its tJobErrorUpdate
CommandFailsUntold(a) ==
    /\ Running(a) /\ hand[a].mode = "ahead" /\ hand[a].todo # <<>>
    /\ VzFails(Head(hand[a].todo), "vzctl") /\ GivesUp(a, Head(hand[a].todo))
    /\ cur' = [cur EXCEPT ![a] = 0] /\ Goto(a, "loop") /\ Drop(a)
    /\ UNCHANGED <<tJob, load, lock, rows, uStatus, ct, cJobName, page>>

CommandFails(a) ==
    /\ Running(a) /\ hand[a].mode = "ahead" /\ hand[a].todo # <<>>
    /\ LET cmd == Head(hand[a].todo) IN
        /\ VzFails(cmd, "vzctl") /\ GivesUp(a, cmd)
        /\ UNCHANGED ct \/ StopsShort(cmd)
        /\ EndJob(a, "ERROR") /\ Drop(a)
    /\ UNCHANGED <<uStatus, cJobName, page>>

\* DestroyContainer reports a failing stop and goes on; it then also survives
\* a failing destroy if /vz/private has nothing of the container
DestroyGoesOn(a) ==
    /\ Running(a) /\ Name(a) = "DestroyContainer" /\ hand[a].todo # <<>>
    /\ LET cmd == Head(hand[a].todo) IN
        /\ VzFails(cmd, "vzctl") /\ ~GivesUp(a, cmd)
        /\ ReportStatus(a, "ERROR")
        /\ hand' = [hand EXCEPT ![a].todo = Tail(@), ![a].failed = TRUE]
    /\ UNCHANGED <<uStatus, ct, cJobName, page>>

\* Mutant: a failing deployment is not undone
UndoNothing(a) == <<>>

\* What a failing deployment undoes: a container that runs is stopped first
Undo(a) == IF ct = "running" THEN <<"stop", "destroy">> ELSE <<"destroy">>

NewRollsBack(a) ==
    /\ Running(a) /\ Name(a) = "NewContainer" /\ hand[a].mode = "ahead" /\ hand[a].todo # <<>>
    /\ LET cmd == Head(hand[a].todo) IN
        /\ cmd \notin {"create", "halt"} /\ VzFails(cmd, "vzctl")
        /\ ReportStatus(a, "ERROR")
        /\ hand' = [hand EXCEPT ![a].todo = Undo(a), ![a].mode = "back"]
    /\ UNCHANGED <<uStatus, ct, cJobName, page>>

\* The stop of a container deployed stopped: its failure is only logged
HaltFails(a) ==
    /\ Running(a) /\ hand[a].todo # <<>> /\ Head(hand[a].todo) = "halt"
    /\ VzFails("halt", "halt")
    /\ hand' = [hand EXCEPT ![a].todo = Tail(@), ![a].failed = TRUE]
    /\ UNCHANGED <<vars, uStatus, ct, cJobName, page>>

RollbackFails(a) ==
    /\ Running(a) /\ hand[a].mode = "back" /\ hand[a].todo # <<>>
    /\ VzFails(Head(hand[a].todo), "rollback")
    /\ ReportStatus(a, "ERROR")
    /\ hand' = [hand EXCEPT ![a].todo = Tail(@), ![a].failed = TRUE]
    /\ UNCHANGED <<uStatus, ct, cJobName, page>>

RolledBack(a) ==
    /\ hand[a].mode = "back" /\ hand[a].todo = <<>>
    /\ Return(a) /\ Drop(a)
    /\ UNCHANGED <<uStatus, ct, cJobName, page>>

\* "Everything ok": the record first
SetGoal(a) ==
    /\ Running(a) /\ hand[a].mode = "ahead" /\ hand[a].todo = <<>>
    /\ SetContainerStatus(hand[a].goal, page)
    /\ hand' = [hand EXCEPT ![a].mode = "done"]
    /\ UNCHANGED <<vars, ct, cJobName>>

\* Mutant: what the handler had in hand outlives it
ReportHolding(a) ==
    /\ hand[a].mode = "done"
    /\ EndJob(a, "DONEOK")
    /\ UNCHANGED <<uStatus, ct, cJobName, page, hand>>

\* ... then the job
Report(a) ==
    /\ hand[a].mode = "done"
    /\ EndJob(a, "DONEOK") /\ Drop(a)
    /\ UNCHANGED <<uStatus, ct, cJobName, page>>

-----------------------------------------------------------------------------
Crash(a) ==
    /\ "crash" \in Upsets
    /\ DieLocked(a) /\ Drop(a)
    /\ UNCHANGED <<uStatus, ct, cJobName, page>>

\* A job is due 60 seconds after it is inserted, when its page is done
Due(j) ==
    /\ JobDue(j)
    /\ \A s \in Sessions : page[s].job # j
    /\ UNCHANGED <<uStatus, ct, cJobName, page, hand>>

\* The steps of the queue that are none of a handler
Queue(a) ==
    /\ CronStart(a) \/ TakeLock(a) \/ LockBusy(a) \/ SelectJobs(a) \/ Finish(a)
    /\ UNCHANGED <<uStatus, ct, cJobName, page, hand>>

Page(s) ==
    \/ OpenPage(s) \/ AddJob(s) \/ CancelJobs(s) \/ CancelLate(s) \/ SetPageStatus(s)
    \/ \E op \in Ops \cup {"Cancel"} : Submit(s, op)
    \/ \E op \in Ops \cup {"CancelSet"} : SubmitSet(s, op)

Handle(a) ==
    \/ Queue(a) \/ Begin(a) \/ Command(a) \/ CommandFails(a) \/ DestroyGoesOn(a)
    \/ NewRollsBack(a) \/ HaltFails(a) \/ RollbackFails(a) \/ RolledBack(a)
    \/ SetGoal(a) \/ Report(a) \/ WaitForDump(a)

LifeNext ==
    \/ \E s \in Sessions : Page(s)
    \/ \E j \in JobIds : Due(j)
    \/ \E a \in Agents : Handle(a) \/ Crash(a)

LifeSpec == LifeInit /\ [][LifeNext]_lifeVars

\* A page that has inserted or cancelled a job finishes; cron and the queue as
\* in JobQueue; vzdump.lock is not there for ever
LifeFair ==
    /\ \A s \in Sessions : WF_lifeVars(SetPageStatus(s))
    /\ \A j \in JobIds : WF_lifeVars(Due(j))
    /\ \A a \in Agents : WF_lifeVars(Handle(a)) /\ SF_lifeVars(Command(a) \/ CommandFails(a))

FairLifeSpec == LifeSpec /\ LifeFair
-----------------------------------------------------------------------------
(******************************* Properties ********************************)

\* The variables have their shapes, and an invocation is in a handler exactly
\* while it has a job in hand.
LifeTypeOK ==
    /\ uStatus \in Status
    /\ ct \in {"absent", "stopped", "running"}
    /\ cJobName \in [JobIds -> Ops \cup {"none"}]
    /\ page \in [Sessions -> Pages]
    /\ \A a \in Agents :
        /\ \A i \in 1 .. Len(hand[a].todo) : hand[a].todo[i] \in Commands
        /\ hand[a].goal \in Settled
        /\ hand[a].mode \in {"ahead", "back", "done"}
        /\ hand[a] # NoHand => Running(a)

Outstanding(j) == tJob[j].uJobStatus \in {"WAITING", "RUNNING", "ERROR"}

\* A record left in an awaiting status has a job that can still resolve it or
\* that an operator can still find in error, whatever the handlers meet and
\* however late a cancellation comes ("Keeps job container from staying stuck
\* in an awaiting state", tcontainerfunc.h:7228).
AwaitedHasJob ==
    uStatus \notin Settled /\ (\A s \in Sessions : page[s].at # "set")
        => \E j \in JobIds : Outstanding(j)

\* What a status a handler settles on says of the container
Tells(st, state) ==
    \/ st = "ACTIVE" /\ state = "running"
    \/ st = "STOPPED" /\ state = "stopped"
    \/ st = "INITSETUP" /\ state = "absent"

\* Where a handler says "Everything ok" (jobqueue.c:1141, 1655, 1764, 5403) the
\* status it sets is true of the container on the node; only the stop at the
\* end of a deployment (855) may have failed unnoticed.
HandlerTellsTruth ==
    [][\A a \in Agents :
          hand'[a].mode = "done" /\ hand[a].mode = "ahead" =>
              \/ Tells(uStatus', ct')
              \/ Name(a) = "NewContainer" /\ hand[a].failed]_lifeVars

\* A deployment that returns after a failure has left nothing on the node
\* ("Roll back step 1-.", jobqueue.c:777), unless the rollback failed too.
DeployIsAtomic ==
    [][\A a \in Agents :
          hand[a].mode = "back" /\ pc[a] = "told" /\ pc'[a] = "loop" =>
              ct' = "absent" \/ hand[a].failed]_lifeVars

\* An awaiting status ends: the container settles, or a job is in error, or
\* the node's queue is dead behind a leaked lock.
AwaitEnds ==
    uStatus \notin Settled ~>
        \/ uStatus \in Settled
        \/ \E j \in JobIds : tJob[j].uJobStatus = "ERROR"
        \/ Leaked(Home)

\* A page that reports "CancelContainerJob() Done" and not "Unexpected no jobs
\* canceled! Late?" (tcontainerfunc.h:1534-1551) has come before the job: no
\* handler of the container is at work.
CancelMeansNotBegun ==
    [][\A s \in Sessions :
          page[s].at = "checked" /\ page'[s].at = "set" /\ page[s].op = "Cancel" =>
              \A a \in Agents : ~Running(a)]_lifeVars

\* The rows of tJob and the invocations behave as the queue says, whatever
\* pages and handlers do: what holds of JobQueue holds here.
QueueSpec == Spec
=============================================================================
