------------------------------ MODULE JobQueue ------------------------------
(***************************************************************************)
(* The job queue of unxsVZ.  The web backend inserts rows into the MySQL   *)
(* table tJob; on every hardware node cron starts ProcessJobQueue          *)
(* (jobqueue.c), which takes a node-local lock directory, selects the      *)
(* waiting jobs of the node once, and runs them in uJob order.             *)
(*                                                                         *)
(* A job is a row of tJob.  What a handler does to containers, addresses   *)
(* and firewalls is the subject of other modules; here a handler is the    *)
(* status it leaves in tJob, or the exit(2) it takes instead.              *)
(***************************************************************************)
EXTENDS Integers, FiniteSets

CONSTANTS
    Nodes,        \* hardware nodes (tNode)
    AllNodes,     \* the uNode=0 of a job every node may pick up
    Agents,       \* ProcessJobQueue invocations; cron may overlap them
    NodeOf,       \* the node an invocation runs on
    Containers,   \* containers (tContainer)
    uSource,      \* the container a clone is a clone of, or NoContainer
    NoContainer,
    Names,        \* the job names the backend inserts
    Bands,        \* the load bands a node can be in
    MaxJob,       \* bound: uJob is at most MaxJob
    LIMIT         \* LIMIT of the SELECT (128 in the code)

\* "priority" names are dispatched under high load too; "unknown" is a name
\* ProcessJob has no branch for (FailoverToDEBUG, for one)
JobNames == {"priority", "normal", "unknown"}

\* "high" is above JOBQUEUE_NORMAL_MAXLOAD, "over" above JOBQUEUE_MASTER_MAXLOAD
LoadBands == {"normal", "high", "over"}

ASSUME JobQueueAssumption ==
    /\ AllNodes \notin Nodes
    /\ NodeOf \in [Agents -> Nodes]
    /\ NoContainer \notin Containers
    /\ uSource \in [Containers -> Containers \cup {NoContainer}]
    /\ Names \subseteq JobNames
    /\ Bands \subseteq LoadBands /\ "normal" \in Bands
    /\ MaxJob \in Nat /\ LIMIT \in Nat \ {0}

VARIABLES
    tJob,   \* the table, by uJob; rows not inserted yet have status "none"
    load,   \* load average band of each node
    lock,   \* does /var/run/unxsvz.lock exist on the node
    pc,     \* where each invocation is
    rows,   \* the rows of its SELECT it has not reached yet
    cur     \* the job it is running, 0 if none

vars == <<tJob, load, lock, pc, rows, cur>>

JobIds == 1 .. MaxJob

JobStatus == {"none", "WAITING", "RUNNING", "DONEOK", "ERROR", "CANCELED"}

JobRow == [uNode : Nodes \cup {AllNodes}, uContainer : Containers \cup {NoContainer},
           cJobName : JobNames, uJobStatus : JobStatus, due : BOOLEAN]

NoRow == [uNode |-> AllNodes, uContainer |-> NoContainer, cJobName |-> "normal",
          uJobStatus |-> "none", due |-> FALSE]

\* "idle": not started or exited; "started": not locked yet; the other
\* points are between the mkdir and the rmdir of the lock directory.  "run" is
\* inside a handler, "told" inside one that has already set the job's status
LockedPoints == {"select", "loop", "run", "told", "postpone"}
Points == {"idle", "started"} \cup LockedPoints

HasLock(a) == pc[a] \in LockedPoints

\* The nodes whose SELECT returns job j
Targets(j) == IF tJob[j].uNode = AllNodes THEN Nodes ELSE {tJob[j].uNode}

SetStatus(j, s) == tJob' = [tJob EXCEPT ![j].uJobStatus = s]

\* The lock directory outlives the invocation that made it
Leaked(n) == lock[n] /\ \A a \in Agents : NodeOf[a] = n => ~HasLock(a)

-----------------------------------------------------------------------------
Init ==
    /\ tJob = [j \in JobIds |-> NoRow]
    /\ load = [n \in Nodes |-> "normal"]
    /\ lock = [n \in Nodes |-> FALSE]
    /\ pc = [a \in Agents |-> "idle"]
    /\ rows = [a \in Agents |-> {}]
    /\ cur = [a \in Agents |-> 0]

(***************************** The web backend *****************************)

\* INSERT INTO tJob ... uJobStatus=1, uJobDate=NOW()+60 or a later date
InsertJob(j, n, c, name) ==
    /\ tJob[j].uJobStatus = "none"
    /\ \A i \in JobIds : i < j => tJob[i].uJobStatus # "none"
    /\ tJob' = [tJob EXCEPT ![j] = [uNode |-> n, uContainer |-> c, cJobName |-> name,
                                    uJobStatus |-> "WAITING", due |-> FALSE]]
    /\ UNCHANGED <<load, lock, pc, rows, cur>>

\* uJobDate<=UNIX_TIMESTAMP(NOW()) becomes true
JobDue(j) ==
    /\ tJob[j].uJobStatus # "none" /\ ~tJob[j].due
    /\ tJob' = [tJob EXCEPT ![j].due = TRUE]
    /\ UNCHANGED <<load, lock, pc, rows, cur>>

\* Mutant: the cancel forgets that a finished job is not an outstanding one
CancelableAny(j) == tJob[j].uJobStatus \notin {"none", "RUNNING"}

Cancelable(j) == tJob[j].uJobStatus \in {"WAITING", "ERROR"}

\* CancelContainerJob: the jobs of c on the node n its record names, and the
\* jobs of the clones of c on whatever node
CancelSet(n, c) ==
    {j \in JobIds : /\ Cancelable(j)
                    /\ \/ tJob[j].uNode = n /\ tJob[j].uContainer = c
                       \/ uSource[tJob[j].uContainer] = c}

CancelContainerJob(n, c) ==
    /\ CancelSet(n, c) # {}
    /\ tJob' = [j \in JobIds |-> IF j \in CancelSet(n, c)
                                 THEN [tJob[j] EXCEPT !.uJobStatus = "CANCELED"]
                                 ELSE tJob[j]]
    /\ UNCHANGED <<load, lock, pc, rows, cur>>

\* One checked row of "Group Cancel" on the job page
GroupCancel(j) ==
    /\ Cancelable(j)
    /\ SetStatus(j, "CANCELED")
    /\ UNCHANGED <<load, lock, pc, rows, cur>>

LoadChanges(n, band) ==
    /\ load' = [load EXCEPT ![n] = band]
    /\ UNCHANGED <<tJob, lock, pc, rows, cur>>

(**************************** ProcessJobQueue ******************************)

Goto(a, p) == pc' = [pc EXCEPT ![a] = p]

\* Leaving the process: what it held in memory is gone
Exit(a) ==
    /\ Goto(a, "idle")
    /\ rows' = [rows EXCEPT ![a] = {}]
    /\ cur' = [cur EXCEPT ![a] = 0]

RmdirLock(a) == lock' = [lock EXCEPT ![NodeOf[a]] = FALSE]

\* Started by cron; above the master load the process exits at once
CronStart(a) ==
    /\ pc[a] = "idle" /\ load[NodeOf[a]] # "over"
    /\ Goto(a, "started")
    /\ UNCHANGED <<tJob, load, lock, rows, cur>>

\* exit(1), exit(2) of the start-up phase and of AlwaysRunTheseJobs
StartupFails(a) ==
    /\ pc[a] = "started"
    /\ Exit(a)
    /\ UNCHANGED <<tJob, load, lock>>

\* Mutant: the result of mkdir is not tested
TakeLockBlind(a) ==
    /\ pc[a] = "started"
    /\ lock' = [lock EXCEPT ![NodeOf[a]] = TRUE]
    /\ Goto(a, "select")
    /\ UNCHANGED <<tJob, load, rows, cur>>

\* mkdir("/var/run/unxsvz.lock")
TakeLock(a) ==
    /\ pc[a] = "started" /\ ~lock[NodeOf[a]]
    /\ lock' = [lock EXCEPT ![NodeOf[a]] = TRUE]
    /\ Goto(a, "select")
    /\ UNCHANGED <<tJob, load, rows, cur>>

\* mkdir fails: exit(127)
LockBusy(a) ==
    /\ pc[a] = "started" /\ lock[NodeOf[a]]
    /\ Exit(a)
    /\ UNCHANGED <<tJob, load, lock>>

\* Mutant: the SELECT without its uNode condition
EligibleAnywhere(n) == {j \in JobIds : tJob[j].uJobStatus = "WAITING" /\ tJob[j].due}

Eligible(n) == {j \in JobIds : /\ tJob[j].uJobStatus = "WAITING" /\ tJob[j].due
                               /\ n \in Targets(j)}

\* Mutant: one row short
FirstRowsShort(S) == {j \in S : Cardinality({i \in S : i < j}) + 1 < LIMIT}

\* ORDER BY uJob LIMIT 128
FirstRows(S) == {j \in S : Cardinality({i \in S : i < j}) < LIMIT}

SelectJobs(a) ==
    /\ pc[a] = "select"
    /\ rows' = [rows EXCEPT ![a] = FirstRows(Eligible(NodeOf[a]))]
    /\ Goto(a, "loop")
    /\ UNCHANGED <<tJob, load, lock, cur>>

\* An error of the SELECT removes the lock before exit(2)
SelectFails(a) ==
    /\ pc[a] = "select"
    /\ RmdirLock(a) /\ Exit(a)
    /\ UNCHANGED <<tJob, load>>

\* Mutant: the row is fetched again after its job
NextJobAgain(a) ==
    /\ pc[a] = "loop" /\ load[NodeOf[a]] # "over"
    /\ \E j \in rows[a] :
        /\ cur' = [cur EXCEPT ![a] = j]
        /\ SetStatus(j, "RUNNING")
        /\ Goto(a, "run")
    /\ UNCHANGED <<load, lock, rows>>

\* The next row: ProcessJob marks it RUNNING, whatever its status is by now
\* (an error of that UPDATE is only logged), and under high load branches
\* on the job name
NextJob(a) ==
    /\ pc[a] = "loop" /\ load[NodeOf[a]] # "over"
    /\ \E j \in rows[a] :
        /\ \A i \in rows[a] : j <= i
        /\ rows' = [rows EXCEPT ![a] = @ \ {j}]
        /\ cur' = [cur EXCEPT ![a] = j]
        /\ SetStatus(j, "RUNNING") \/ UNCHANGED tJob
        /\ Goto(a, IF load[NodeOf[a]] = "high" /\ tJob[j].cJobName # "priority"
                   THEN "postpone" ELSE "run")
    /\ UNCHANGED <<load, lock>>

\* tJobWaitingUpdate of a job that high load does not let run
PostponeJob(a) ==
    /\ pc[a] = "postpone"
    /\ SetStatus(cur[a], "WAITING")
    /\ cur' = [cur EXCEPT ![a] = 0]
    /\ Goto(a, "loop")
    /\ UNCHANGED <<load, lock, rows>>

\* A handler ends with tJobDoneUpdate, tJobErrorUpdate or tJobWaitingUpdate
Outcomes(name) == IF name = "unknown" THEN {"ERROR"} ELSE {"DONEOK", "ERROR", "WAITING"}

\* A status update in the middle of a handler, which then goes on: an error it
\* reports before it rolls back or in spite of which it continues, or Done OK
\* ahead of an optional script or of the Waiting of a recurring job
ReportStatus(a, s) ==
    /\ pc[a] \in {"run", "told"}
    /\ s \in Outcomes(tJob[cur[a]].cJobName) /\ tJob[cur[a]].cJobName # "unknown"
    /\ s = "ERROR" => tJob[cur[a]].uJobStatus # "DONEOK"
    /\ SetStatus(cur[a], s)
    /\ Goto(a, "told")
    /\ UNCHANGED <<load, lock, rows, cur>>

\* Mutant: the invocation keeps the job in hand
EndJobHolding(a, s) ==
    /\ pc[a] \in {"run", "told"}
    /\ s \in Outcomes(tJob[cur[a]].cJobName)
    /\ s = "ERROR" => tJob[cur[a]].uJobStatus # "DONEOK"
    /\ SetStatus(cur[a], s)
    /\ Goto(a, "loop")
    /\ UNCHANGED <<load, lock, rows, cur>>

EndJob(a, s) ==
    /\ pc[a] \in {"run", "told"}
    /\ s \in Outcomes(tJob[cur[a]].cJobName)
    /\ s = "ERROR" => tJob[cur[a]].uJobStatus # "DONEOK"
    /\ SetStatus(cur[a], s)
    /\ cur' = [cur EXCEPT ![a] = 0]
    /\ Goto(a, "loop")
    /\ UNCHANGED <<load, lock, rows>>

\* The end of a handler that has set the status before
Return(a) ==
    /\ pc[a] = "told"
    /\ cur' = [cur EXCEPT ![a] = 0]
    /\ Goto(a, "loop")
    /\ UNCHANGED <<tJob, load, lock, rows>>

\* Mutant: an exit in the middle of a job takes the lock along
DieUnlocked(a) ==
    /\ HasLock(a)
    /\ RmdirLock(a) /\ Exit(a)
    /\ UNCHANGED <<tJob, load>>

\* exit(2) of a handler or of a status update, sysinfo() failing in the
\* loop, the process being killed, or a failing rmdir (only logged): the lock
\* directory stays
DieLocked(a) ==
    /\ HasLock(a)
    /\ Exit(a)
    /\ UNCHANGED <<tJob, load, lock>>

MasterOverload(a) ==
    /\ pc[a] = "loop" /\ rows[a] # {} /\ load[NodeOf[a]] = "over"
    /\ RmdirLock(a) /\ Exit(a)
    /\ UNCHANGED <<tJob, load>>

\* The last row is done: rmdir and exit(0)
Finish(a) ==
    /\ pc[a] = "loop" /\ rows[a] = {}
    /\ RmdirLock(a) /\ Exit(a)
    /\ UNCHANGED <<tJob, load>>

-----------------------------------------------------------------------------
Backend ==
    \/ \E j \in JobIds, n \in Nodes \cup {AllNodes}, c \in Containers, name \in Names :
            InsertJob(j, n, c, name)
    \/ \E j \in JobIds : JobDue(j)
    \/ \E n \in Nodes, c \in Containers : CancelContainerJob(n, c)
    \/ \E j \in JobIds : GroupCancel(j)
    \/ \E n \in Nodes, band \in Bands : LoadChanges(n, band)

\* What a healthy invocation does
Proceed(a) ==
    \/ CronStart(a) \/ TakeLock(a) \/ LockBusy(a) \/ SelectJobs(a) \/ NextJob(a)
    \/ PostponeJob(a) \/ Return(a) \/ MasterOverload(a) \/ Finish(a)
    \/ \E s \in {"DONEOK", "ERROR", "WAITING"} : EndJob(a, s)

\* What may also happen to one
Fail(a) ==
    \/ StartupFails(a) \/ SelectFails(a) \/ DieLocked(a)
    \/ \E s \in {"DONEOK", "ERROR"} : ReportStatus(a, s)

Next == Backend \/ \E a \in Agents : Proceed(a) \/ Fail(a)

Spec == Init /\ [][Next]_vars

\* cron starts an invocation every minute and the operating system schedules
\* it; a start-up or a SELECT that is tried for ever succeeds at last
Fairness ==
    /\ \A j \in JobIds : WF_vars(JobDue(j))
    /\ \A a \in Agents : WF_vars(Proceed(a)) /\ SF_vars(TakeLock(a)) /\ SF_vars(SelectJobs(a))

FairSpec == Spec /\ Fairness
-----------------------------------------------------------------------------
(******************************* Properties ********************************)

\* Every variable has the shape of its table, file or process state; an
\* invocation holds a job exactly while it runs one.
TypeOK ==
    /\ tJob \in [JobIds -> JobRow]
    /\ load \in [Nodes -> Bands]
    /\ lock \in [Nodes -> BOOLEAN]
    /\ pc \in [Agents -> Points]
    /\ rows \in [Agents -> SUBSET JobIds]
    /\ cur \in [Agents -> JobIds \cup {0}]
    /\ \A a \in Agents : cur[a] # 0 <=> pc[a] \in {"run", "told", "postpone"}

\* The lock directory keeps overlapping invocations of one node out of the
\* main loop, whatever way any of them leaves it ("only allow one to run at
\* the same time", jobqueue.c:312).
OneLoopPerNode ==
    \A a, b \in Agents :
        NodeOf[a] = NodeOf[b] /\ HasLock(a) /\ HasLock(b) => a = b

Addressed(j) == tJob[j].uNode \in Nodes

\* A job addressed to one node is never in the hands of two invocations,
\* on the same node or on another, and is run on its own node only.
NoDoubleRun ==
    \A a, b \in Agents :
        cur[a] # 0 /\ Addressed(cur[a]) =>
            /\ tJob[cur[a]].uNode = NodeOf[a]
            /\ cur[a] = cur[b] => a = b

\* Invocation a has job j in hand and has not set its status yet
Owes(a, j) == cur[a] = j /\ pc[a] \in {"run", "postpone"}

\* A row that says Running without an invocation that is still to set its
\* status was left behind by one that died, and then the lock of a node that
\* could run the job is leaked: nothing else strands a job.
RunningIsAccounted ==
    \A j \in JobIds :
        tJob[j].uJobStatus = "RUNNING" =>
            \/ \E a \in Agents : Owes(a, j)
            \/ \E n \in Targets(j) : Leaked(n)

\* A row waiting in a snapshot of its node has not been run since the SELECT:
\* it may have been cancelled, but it is not done, not in error, not running.
SnapshotIsFresh ==
    \A a \in Agents : \A j \in rows[a] :
        Addressed(j) => tJob[j].uJobStatus \in {"WAITING", "CANCELED"}

InHand(j) == \E a \in Agents : cur[a] = j

\* "we need to make sure we don't run again" (jobqueue.c:377): once the
\* handler of an addressed job has left it Done OK no later step, of any
\* snapshot, changes its status; one left in error is only ever cancelled.
FinalStaysFinal ==
    [][\A j \in JobIds : Addressed(j) /\ ~InHand(j) =>
          /\ tJob[j].uJobStatus = "DONEOK" => tJob'[j].uJobStatus = "DONEOK"
          /\ tJob[j].uJobStatus = "ERROR" => tJob'[j].uJobStatus \in {"ERROR", "CANCELED"}]_vars

\* Once a lock has leaked, the node's queue is dead: no step of the code ever
\* runs another job there.
LeakIsForEver == [][\A n \in Nodes : Leaked(n) => Leaked(n)']_vars

\* "Cancel any jobs for uContainer" (tcontainerfunc.h:7238): what a node has
\* not begun when it is cancelled stays cancelled.
CanceledStaysCanceled ==
    [][\A j \in JobIds : tJob[j].uJobStatus = "CANCELED" => tJob'[j].uJobStatus = "CANCELED"]_vars

\* Rows the SELECT of node n returns before j
Ahead(j, n) == {i \in Eligible(n) : i < j}

\* Once the node's load stays normal, every waiting due job of it reaches its
\* handler, or is cancelled, or the node's lock leaks, or LIMIT older jobs
\* that keep going back to waiting fill every snapshot.
EveryDueJobRuns ==
    \A n \in Nodes, j \in JobIds :
        <>[](load[n] = "normal") =>
            ((tJob[j].uNode = n /\ tJob[j].uJobStatus = "WAITING" /\ tJob[j].due) ~>
                \/ \E a \in Agents : pc[a] = "run" /\ cur[a] = j
                \/ tJob[j].uJobStatus = "CANCELED"
                \/ Leaked(n)
                \/ Cardinality(Ahead(j, n)) >= LIMIT)
=============================================================================
