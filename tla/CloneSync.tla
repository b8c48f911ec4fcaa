------------------------------ MODULE CloneSync ------------------------------
(***************************************************************************)
(* The upkeep of clones.  A clone is a container with a source (uSource)   *)
(* and a period (its property cuSyncPeriod).  Each invocation of the       *)
(* program on a node selects the clones of the containers of its node      *)
(* (jobqueue.c, AlwaysRunTheseJobs) and, one after the other, runs the     *)
(* script that copies a source over a clone that is due                    *)
(* (ProcessCloneSyncJob).  It does so before it takes the lock of the job  *)
(* queue, so that invocations overlap, and for as long as the scripts      *)
(* take.  Meanwhile the queue may exchange a clone and its source: of the  *)
(* switchover (module Failover) there is here what a clone sync reads.     *)
(***************************************************************************)
EXTENDS Integers

CONSTANTS
    Containers,
    Nodes,
    uNode,       \* of each container
    Agents,      \* the invocations that may overlap
    Prod, Clone, \* the container in use at first, and its clone
    None,
    MaxEvent     \* bound: switchovers, statuses lifted, settings of a period, dates
                 \* that come due, schedules, failures, exits, times of high load

ASSUME CloneAssumption ==
    /\ uNode \in [Containers -> Nodes]
    /\ Prod \in Containers /\ Clone \in Containers /\ Prod # Clone
    /\ None \notin Containers /\ MaxEvent \in Nat

VARIABLES
    uSource, uStatus,
    cuSyncPeriod,   \* "0", also for none, or set
    uBackupDate,    \* due: a period or more ago; fresh; moved into the schedule
    agent,          \* each invocation
    job,            \* the two jobs of a switchover
    events,
    prod,           \* history: the container in use
    era,            \* history: the switchovers that have begun
    synced,         \* history: a copy has come since the date was last due
    kept,           \* history: a source of before, nobody has set its period
    doubt           \* history: what the code does not guard against

data == <<uSource, uStatus, cuSyncPeriod, uBackupDate>>
history == <<prod, era, synced, kept, doubt>>
vars == <<data, agent, job, events, history>>

Sources == Containers \cup {None}
Status == {"Active", "Stopped", "AwaitFail"}
Settled == {"Active", "Stopped"}
Dates == {"due", "fresh", "moved"}

Rows == [clone : Containers, source : Containers, status : Status]
NoRow == [clone |-> None, source |-> None, status |-> "AwaitFail"]

Idle == [pc |-> "idle", rows |-> {}, row |-> NoRow, last |-> "due", era |-> 0]

\* In the order of ProcessCloneSyncJob
Points == {"idle", "loop", "date", "last", "set", "config", "script", "restore"}

\* From the page to the end of FailoverTo (rest) and of FailoverFrom (period);
\* second: FailoverFrom is waiting or has begun
NoJob == [at |-> "none", to |-> None, from |-> None, uStatus |-> "Stopped", second |-> FALSE]
Steps == {"none", "unset", "start", "rest", "stop", "source", "period"}

\* config: an error between the new date and the script; exit: an end of the
\* program there; overlap: a failing script puts back the date another
\* invocation has set for its own copy; restore: the old date is not put back;
\* window: a clone sync of the old source between its uSource and its
\* cuSyncPeriod; period: its cuSyncPeriod stays; fallthrough: FailoverTo makes
\* its container a clone again, and goes on
Doubts == {"config", "exit", "overlap", "restore", "window", "period", "fallthrough"}

-----------------------------------------------------------------------------
Init ==
    /\ uSource = [k \in Containers |-> IF k = Clone THEN Prod ELSE None]
    /\ uStatus \in {[k \in Containers |-> IF k = Clone THEN s ELSE "Active"] : s \in Settled}
    /\ cuSyncPeriod = [k \in Containers |-> IF k = Clone THEN "set" ELSE "0"]
    /\ uBackupDate = [k \in Containers |-> "due"]
    /\ agent = [a \in Agents |-> Idle]
    /\ job = NoJob
    /\ events = 0
    /\ prod = Prod /\ era = 0
    /\ synced = [k \in Containers |-> FALSE]
    /\ kept = [k \in Containers |-> FALSE]
    /\ doubt = {}

Count == events < MaxEvent /\ events' = events + 1
Note(why) == doubt' = doubt \cup {why}

(****************************** The clone sync ******************************)

Running(s) == s \in Settled

\* SELECT of the clones of the settled containers of the node; era dates it
Selected(n) == {[clone |-> k, source |-> uSource[k], status |-> uStatus[k]] :
    k \in {k \in Containers : /\ uSource[k] # None
                              /\ uNode[uSource[k]] = n /\ Running(uStatus[uSource[k]])}}

Start(a, n) ==
    /\ agent[a].pc = "idle" /\ Selected(n) # {}
    /\ agent' = [agent EXCEPT ![a] = [Idle EXCEPT !.pc = "loop", !.rows = Selected(n), !.era = era]]
    /\ UNCHANGED <<data, job, events, history>>

\* On to the next row
Done(a) == agent' = [agent EXCEPT ![a] =
    IF @.rows = {} THEN Idle ELSE [@ EXCEPT !.pc = "loop", !.row = NoRow, !.last = "due"]]

\* Mutant: a clone that is stopped is left out
SupportedActive(status) == status = "Active"

\* The status is that of the SELECT
Supported(status) == status \in Settled

\* Mutant: a period of 0 is a period
HasPeriodAny(k) == cuSyncPeriod[k] \in {"0", "set"}

HasPeriod(k) == cuSyncPeriod[k] # "0"

\* The period is read again, and 0 for none ends it
ReadPeriod(a) ==
    /\ agent[a].pc = "loop"
    /\ \E r \in agent[a].rows :
        LET rest == [agent[a] EXCEPT !.rows = @ \ {r}] IN
        IF Supported(r.status) /\ HasPeriod(r.clone)
        THEN /\ agent' = [agent EXCEPT ![a] = [rest EXCEPT !.pc = "date", !.row = r]]
             /\ IF job.at = "period" /\ job.from = r.clone THEN Note("window") ELSE doubt' = doubt
        ELSE /\ agent' = [agent EXCEPT ![a] = IF rest.rows = {} THEN Idle ELSE rest]
             /\ doubt' = doubt
    /\ UNCHANGED <<data, job, events, prod, era, synced, kept>>

MyClone(a) == agent[a].row.clone
At(a, pc) == agent[a].pc = pc
GoTo(a, pc) == agent' = [agent EXCEPT ![a].pc = pc]

\* uBackupDate+uPeriod<=NOW
ReadDate(a) ==
    /\ At(a, "date")
    /\ IF uBackupDate[MyClone(a)] = "due" THEN GoTo(a, "last") ELSE Done(a)
    /\ UNCHANGED <<data, job, events, history>>

\* Outside the hours of cJob_RemoteCloneSchedule: a date to come due in them
MoveDate(a) ==
    /\ At(a, "last") /\ Count
    /\ uBackupDate' = [uBackupDate EXCEPT ![MyClone(a)] = "moved"]
    /\ Done(a)
    /\ UNCHANGED <<uSource, uStatus, cuSyncPeriod, job, history>>

ReadLast(a) ==
    /\ At(a, "last")
    /\ agent' = [agent EXCEPT ![a].pc = "set", ![a].last = uBackupDate[MyClone(a)]]
    /\ UNCHANGED <<data, job, events, history>>

\* uBackupDate=NOW, before the script
SetDate(a) ==
    /\ At(a, "set") /\ GoTo(a, "config")
    /\ uBackupDate' = [uBackupDate EXCEPT ![MyClone(a)] = "fresh"]
    /\ UNCHANGED <<uSource, uStatus, cuSyncPeriod, job, events, history>>

\* return(8) to return(12)
Misconfigured(a) ==
    /\ At(a, "config") /\ Count /\ Done(a) /\ Note("config")
    /\ UNCHANGED <<data, job, prod, era, synced, kept>>

StartScript(a) ==
    /\ At(a, "config") /\ GoTo(a, "script")
    /\ UNCHANGED <<data, job, events, history>>

ScriptEnds(a) ==
    /\ At(a, "script") /\ Done(a)
    /\ synced' = [synced EXCEPT ![MyClone(a)] = TRUE]
    /\ UNCHANGED <<data, job, events, prod, era, kept, doubt>>

\* Mutant: the new date stays
ScriptFailsUntold(a) ==
    /\ At(a, "script") /\ Count /\ Done(a)
    /\ UNCHANGED <<data, job, history>>

ScriptFails(a) ==
    /\ At(a, "script") /\ Count /\ GoTo(a, "restore")
    /\ UNCHANGED <<data, job, history>>

Restore(a) ==
    /\ At(a, "restore") /\ Done(a)
    /\ uBackupDate' = [uBackupDate EXCEPT ![MyClone(a)] = agent[a].last]
    /\ IF agent[a].last = "fresh" THEN Note("overlap") ELSE doubt' = doubt
    /\ UNCHANGED <<uSource, uStatus, cuSyncPeriod, job, events, prod, era, synced, kept>>

\* return(7)
RestoreFails(a) ==
    /\ At(a, "restore") /\ Count /\ Done(a) /\ Note("restore")
    /\ UNCHANGED <<data, job, prod, era, synced, kept>>

\* The load is above JOBQUEUE_CLONE_MAXLOAD, at the next row
TooBusy(a) ==
    /\ At(a, "loop") /\ Count
    /\ agent' = [agent EXCEPT ![a] = Idle]
    /\ UNCHANGED <<data, job, history>>

\* exit() of LogError or a kill
Exit(a) ==
    /\ agent[a].pc \notin {"idle", "loop"} /\ Count
    /\ agent' = [agent EXCEPT ![a] = Idle]
    /\ IF agent[a].pc \in {"config", "script", "restore"} THEN Note("exit") ELSE doubt' = doubt
    /\ UNCHANGED <<data, job, prod, era, synced, kept>>

\* A period passes, or BackupDate Adjust
ComesDue(k) ==
    /\ uBackupDate[k] # "due" /\ Count
    /\ uBackupDate' = [uBackupDate EXCEPT ![k] = "due"]
    /\ synced' = [synced EXCEPT ![k] = FALSE]
    /\ UNCHANGED <<uSource, uStatus, cuSyncPeriod, agent, job, prod, era, kept, doubt>>

\* The administrator wants the clone kept in sync (again)
SetPeriod(k) ==
    /\ cuSyncPeriod[k] = "0" /\ uSource[k] # None /\ Count
    /\ cuSyncPeriod' = [cuSyncPeriod EXCEPT ![k] = "set"]
    /\ kept' = [kept EXCEPT ![k] = FALSE]
    /\ UNCHANGED <<uSource, uStatus, uBackupDate, agent, job, prod, era, synced, doubt>>

(****************************** The switchover ******************************)

Proceed(step) == job' = [job EXCEPT !.at = step]

\* Nobody notices an UPDATE that fails
SetContainerStatus(k, s) ==
    \/ uStatus' = [uStatus EXCEPT ![k] = s] /\ events' = events
    \/ uStatus' = uStatus /\ Count

\* Both jobs and both statuses, for the clone k
Switchover(k) ==
    LET q == uSource[k] IN
    /\ job.at = "none" /\ uStatus[k] \in Settled /\ q # None /\ Count
    /\ job' = [at |-> "unset", to |-> k, from |-> q, uStatus |-> uStatus[k], second |-> TRUE]
    /\ uStatus' = [uStatus EXCEPT ![k] = "AwaitFail", ![q] = "AwaitFail"]
    /\ UNCHANGED <<uSource, cuSyncPeriod, uBackupDate, agent, history>>

\* The page of the clone also looks at its source, the one of a group does not
ConfirmSwitchover(k) == Switchover(k) /\ uStatus[uSource[k]] \in Settled
GroupSwitchover(k) == Switchover(k)

\* FailoverFrom is canceled before it begins
SecondCanceled == IF job.at = "stop" THEN NoJob ELSE [job EXCEPT !.second = FALSE]

\* "Status Stopped" and "Status Active" of a group
GroupStatus(k, s) ==
    /\ uStatus[k] = "AwaitFail" /\ Count
    /\ uStatus' = [uStatus EXCEPT ![k] = s]
    /\ IF job.from = k /\ job.at \in {"unset", "start", "rest", "stop"}
       THEN job' \in {job, SecondCanceled} ELSE job' = job
    /\ UNCHANGED <<uSource, cuSyncPeriod, uBackupDate, agent, history>>

\* Mutant: the new container in use stays a clone
ToUnsetNot ==
    /\ job.at = "unset" /\ Proceed("start")
    /\ era' = era + 1
    /\ UNCHANGED <<data, agent, events, prod, synced, kept, doubt>>

\* "Now we quickly unset to avoid failed clon sync jobs"
ToUnset ==
    /\ job.at = "unset" /\ Proceed("start")
    /\ uSource' = [uSource EXCEPT ![job.to] = None]
    /\ era' = era + 1
    /\ UNCHANGED <<uStatus, cuSyncPeriod, uBackupDate, agent, events, prod, synced, kept, doubt>>

\* The clone runs
ToStart ==
    /\ job.at = "start" /\ Proceed("rest")
    /\ SetContainerStatus(job.to, "Active")
    /\ UNCHANGED <<uSource, cuSyncPeriod, uBackupDate, agent, history>>

\* The first levels of the rollback, which are best effort
Rollback ==
    /\ uSource' \in {uSource, [uSource EXCEPT ![job.to] = job.from]}
    /\ uStatus' \in (IF job.at = "rest" THEN {uStatus, [uStatus EXCEPT ![job.to] = "AwaitFail"]}
                     ELSE {uStatus})

\* A step fails; the other job waits for ever
ToFails ==
    /\ job.at \in {"start", "rest"} /\ Count
    /\ job' = NoJob /\ Rollback
    /\ UNCHANGED <<cuSyncPeriod, uBackupDate, agent, history>>

\* After the rollback of --ipadd and of SetContainerIP there is no return: the
\* job goes on to its end
ToFallsThrough ==
    /\ job.at = "rest" /\ Count
    /\ Rollback /\ Note("fallthrough")
    /\ UNCHANGED <<cuSyncPeriod, uBackupDate, agent, job, prod, era, synced, kept>>

ToDone ==
    /\ job.at = "rest"
    /\ IF job.second THEN Proceed("stop") ELSE job' = NoJob
    /\ prod' = job.to
    /\ UNCHANGED <<data, agent, events, era, synced, kept, doubt>>

\* FailoverFrom: the old source gets the status the clone had
FromStop ==
    /\ job.at = "stop" /\ Proceed("source")
    /\ SetContainerStatus(job.from, job.uStatus)
    /\ UNCHANGED <<uSource, cuSyncPeriod, uBackupDate, agent, history>>

FromSource ==
    /\ job.at = "source" /\ Proceed("period")
    /\ uSource' = [uSource EXCEPT ![job.from] = job.to]
    /\ UNCHANGED <<uStatus, cuSyncPeriod, uBackupDate, agent, events, history>>

FromFails ==
    /\ job.at = "source" /\ Count
    /\ job' = NoJob
    /\ uStatus' \in {uStatus, [uStatus EXCEPT ![job.from] = "AwaitFail"]}
    /\ UNCHANGED <<uSource, cuSyncPeriod, uBackupDate, agent, history>>

\* "To play it safe for now we remove any cuSyncPeriod property"
FromPeriod ==
    /\ job.at = "period"
    /\ job' = NoJob
    /\ cuSyncPeriod' = [cuSyncPeriod EXCEPT ![job.from] = "0"]
    /\ kept' = [kept EXCEPT ![job.from] = TRUE]
    /\ UNCHANGED <<uSource, uStatus, uBackupDate, agent, events, prod, era, synced, doubt>>

\* Its result is not looked at: the job is done all the same
FromPeriodFails ==
    /\ job.at = "period" /\ Count
    /\ job' = NoJob
    /\ kept' = [kept EXCEPT ![job.from] = TRUE]
    /\ Note("period")
    /\ UNCHANGED <<data, agent, prod, era, synced>>

\* Canceled on the page of the jobs, stopped by an error before anything is
\* changed, or the handler dies
JobLost ==
    /\ job.at # "none" /\ Count
    /\ job' = NoJob
    /\ UNCHANGED <<data, agent, history>>

-----------------------------------------------------------------------------
Sync(a) == \/ ReadPeriod(a) \/ ReadDate(a) \/ ReadLast(a) \/ SetDate(a)
           \/ StartScript(a) \/ ScriptEnds(a) \/ Restore(a)

Fault(a) == \/ MoveDate(a) \/ Misconfigured(a) \/ ScriptFails(a) \/ RestoreFails(a)
            \/ TooBusy(a) \/ Exit(a)

Page(k) == \/ ComesDue(k) \/ SetPeriod(k) \/ ConfirmSwitchover(k) \/ GroupSwitchover(k)
           \/ \E s \in Settled : GroupStatus(k, s)

SwitchFails == ToFails \/ ToFallsThrough \/ FromFails \/ FromPeriodFails \/ JobLost

Switch == ToUnset \/ ToStart \/ ToDone \/ FromStop \/ FromSource \/ FromPeriod

Next ==
    \/ \E a \in Agents : \/ Sync(a) \/ Fault(a)
                         \/ \E n \in Nodes : Start(a, n)
    \/ \E k \in Containers : Page(k)
    \/ Switch \/ SwitchFails

Spec == Init /\ [][Next]_vars

\* cron starts an invocation on every node each minute, whatever those on other
\* nodes do (of Agents, the bound, none may be free: strong), and scripts end
FairSpec == /\ Spec
            /\ \A a \in Agents : WF_vars(Sync(a))
            /\ \A n \in Nodes : SF_vars(\E a \in Agents : Start(a, n))
            /\ WF_vars(Switch)

-----------------------------------------------------------------------------
(******************************* Properties ********************************)

\* Every variable has the shape of its table or process state.
TypeOK ==
    /\ uSource \in [Containers -> Sources] /\ uStatus \in [Containers -> Status]
    /\ cuSyncPeriod \in [Containers -> {"0", "set"}]
    /\ uBackupDate \in [Containers -> Dates]
    /\ agent \in [Agents -> [pc : Points, rows : SUBSET Rows, row : Rows \cup {NoRow},
                             last : Dates, era : 0 .. MaxEvent]]
    /\ job \in [at : Steps, to : Sources, from : Sources, uStatus : Settled,
               second : BOOLEAN]
    /\ events \in 0 .. MaxEvent /\ era \in 0 .. MaxEvent /\ prod \in Containers
    /\ synced \in [Containers -> BOOLEAN] /\ kept \in [Containers -> BOOLEAN]
    /\ doubt \subseteq Doubts

\* An invocation that has not seen a switchover begin that has begun
Stale(a) == agent[a].era < era

Copies(a) == At(a, "config") /\ agent'[a].pc = "script"

\* Nothing is copied over the container in use, unless by an invocation that
\* selected its rows before the last switchover began: an old source never
\* overwrites the data that have come since.  But a FailoverTo that fell through
\* leaves both containers clones of each other, and only an AWAITFAIL, which an
\* operator may lift, keeps the data from a copy.
NotIntoProduction == [][\A a \in Agents : Copies(a) /\ MyClone(a) = prod =>
                                              Stale(a) \/ "fallthrough" \in doubt]_vars

\* A source of before is not copied over until somebody sets its period, what
\* FailoverFrom promises: unless by such an invocation, by one that read the
\* period between the last two steps of the switchover, when the UPDATE of the
\* period failed, or after a FailoverTo that fell through.
SafeKeeping == [][\A a \in Agents : Copies(a) /\ kept[MyClone(a)] =>
    Stale(a) \/ doubt \cap {"window", "period", "fallthrough"} # {}]_vars

InProgress(k) == \E a \in Agents :
    agent[a].pc \in {"config", "script", "restore"} /\ MyClone(a) = k

\* A fresh date tells of a copy that has come, or is on the way: no failing
\* script leaves its date behind, unless two copies of one clone overlap, or the
\* date is not put back because its UPDATE fails or the program ends; nor does a
\* call without a script, but for an error that is found after the date is set.
DateTellsOfCopy == \A k \in Containers : uBackupDate[k] = "fresh" =>
    \/ synced[k] \/ InProgress(k)
    \/ doubt \cap {"config", "exit", "overlap", "restore"} # {}

Wanted(k) == /\ uSource[k] # None /\ cuSyncPeriod[k] # "0" /\ uStatus[k] \in Settled
             /\ uStatus[uSource[k]] \in Settled

\* Again and again no clone to be kept in sync is due: one that comes due is
\* copied, though scripts fail, the load is high and invocations end.
DueIsCopied == []<>(\A k \in Containers : Wanted(k) => uBackupDate[k] # "due")
=============================================================================
