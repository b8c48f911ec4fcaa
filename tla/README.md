# unxsVZ in TLA+

unxsVZ manages OpenVZ containers over many hardware nodes. A web backend (CGI
programs over one MySQL database) changes records and inserts jobs; on every node cron
starts `unxsVZ ProcessJobQueue`, which runs the jobs of its node and reports in the
same database. There is no other channel: the tables *are* the messages, no code opens a
transaction, and every handler is a sequence of shell
commands and single-row UPDATEs any of which may fail, with the process able to exit
between any two. That is what these modules are about.

References such as `jobqueue.c:313` are to files of the repository.

## 1. Inventory

| part | state | operations | interacts through |
|---|---|---|---|
| job queue: `ProcessJobQueue`, `ProcessJob` (jobqueue.c 172-680), job page (tjobfunc.h) | rows of `tJob`; lock directory `/var/run/unxsvz.lock` of a node; the snapshot, current row and load of each invocation | insert, come due, cancel (of a container, of a checked row), lock, select, run, postpone, report, exit, crash | `tJob`, read by every node, written by pages and nodes |
| container life cycle: pages (tcontainerfunc.h 1395-1560, 3838-4910), handlers `NewContainer`, `StartContainer`, `StopContainer`, `RestartContainer`, `DestroyContainer` | `tContainer.uStatus` and `uModDate`; the container vzctl made; a form in a browser | deploy, start, stop, restart, destroy, cancel; the commands of a handler and its rollback | `SetContainerStatus`, `tJob` |
| switchover: `FailoverToJob`/`FailoverFromJob` (tcontainerfunc.h), `FailoverTo`, `FailoverFrom` (jobqueue.c 3127-4083) | two records (`uSource`, `uIPv4`, `cLabel`, `uStatus`), two containers on two nodes, a pair of jobs with `cJobData` | confirm (a clone's page, a group's), status set by an operator, 15 + 10 steps of the two handlers, two rollbacks, crash and boot of either node | the second handler polls the first one's row |
| firewall jobs: `BlockAccess`, `UndoBlockAccess`, `AllowAllAccess`, `RemoveDrop...`, `RemoveAccept...` (jobqueue.c 6228-6864) | `tIP.uFWStatus`, iptables of every node, jobs of one `uMasterJob` | block, undo, allow, remove, last-one-updates | `tJob.uMasterJob`; created by tipfunc.h, tdatacenterfunc.h, the snort agent |
| login firewall: `LoginFirewallJob`, `LogoutFirewallJob` (6867-7297), `StartIptables`, sessions in `tProperty` | sessions, chains | log in, log out, start-up, expiry | `tJob`, `tProperty` |
| clone synchronisation: `AlwaysRunTheseJobs` (7410-7682), `ProcessCloneSyncJob` (4091-4416), `RecurringJob` | sync time of a clone, rsync under way | sync when due, before and outside the lock | `tContainer.uSource`, `tProperty` |
| changes of a container: address, hostname, swap, migrate, DNS move (pages tcontainerfunc.h 1865-2700, handlers jobqueue.c 1148-1971, 4678-4850) | record, the node a container is on and its addresses there, `tIP.uAvailable` | confirm; one handler each, without a rollback; jobs of one page may be for two nodes | `tJob`, `SetContainerStatus`, `SetContainerNode` |
| container resources, templates, executed commands | files and UBC values | one-shot | `tJob` |
| backend framework (main.c, mainfunc.h, the `t*.c` pages) and libunxsvz.c | one row at a time | forms, searches, permissions | MySQL |
| node agents (openvz, ubc, autonomics, nodeqos, mcs), SIP agents, snort agent | measurements | copy into `tProperty`; snort creates block jobs | MySQL |
| customer interfaces (Org, OneLogin, Portal, ...) | sessions | a subset of the pages; login jobs | MySQL |
| unxsBind, unxsMail, unxsRadius, unxsISP, unxsApache, unxsBlog, unxsSMS, unxsRAD, uSIPSwitch, dtAuth | their own databases | independent sibling programs | - |

What is hard in it: invocations that overlap, on a node and across nodes; a snapshot of
the queue that is worked off for hours while pages change the rows; exits that leave the
lock, a row, a record and a container in four different ages; pages that compare a
form with a record and act later; a pair of jobs on two nodes, one of which may be down; rollbacks
that can fail or that fall through. `PROJECT.json` lists each such place at its line with the
property that watches it.

What makes each part correct:

- *queue*: one runner per node and per job; a finished job is not run again; a due job is
  run; a row never claims a runner it has not got, unless a lock leaked.
- *life cycle*: a waiting container has a job that resolves it; a status a handler sets is
  true; a failed deployment leaves nothing; a cancellation that reports success was in time.
- *switchover*: the production address is always somewhere; the source gives it up only
  after the clone has it; afterwards the two, if they were in order, have exchanged everything; nothing is a
  clone of its own clone.
- *firewall*: the status of an address is changed after the last node is done, and then all nodes
  have the rules it says.
- *login firewall*: a session and its rules come and go together.
- *clone sync*: nothing is copied over the container in use, nor over a source that a switchover
  keeps; a fresh date means a copy.
- *changes*: the address of a container is changed on the node it is on, after it came and not
  while it is under way; an available address is nobody's; a change ends.

## 2. Modules

| module | what it is |
|---|---|
| `JobQueue` | `tJob`, the lock and the invocations. A handler is the statuses it writes. |
| `MCJobQueue` | its functions (`NodeOf`, `uSource`) for TLC |
| `JobQueueProofs` | the theorems about it |
| `ContainerLifecycle` | one container's record, the pages and the five handlers, command by command. Its actions have actions of `JobQueue` as conjuncts, so both move together. |
| `MCContainerLifecycle` | its instance |
| `ContainerLifecycleProofs` | the theorems about it, on top of those about `JobQueue` |
| `Handover` | abstract: an address moves between two containers and always has a holder |
| `Failover` | the switchover; implements `Handover` twice, on the nodes and in the records |
| `MCFailover` | its trials: which faults may happen in how many switchovers |
| `FailoverProofs` | its types and what each step leaves alone; its safety and its refinements |
| `FirewallGroup` (`MC...`) | orders to block or admit an address, a job per node, the last one of which publishes |
| `FirewallGroupProofs`, `FirewallAgreementProofs` | types, groups and waiting statuses; the agreement of status and chains |
| `LoginSession` (`MC...`) | logins, logouts, the jobs that open and close the firewall, the sweep |
| `LoginProofs` | the theorems about it |
| `CloneSync` (`MC...`) | the copying of sources over clones, by invocations that overlap, during switchovers |
| `CloneSyncProofs` | the theorems about it |
| `Relocation` (`MC...`) | migration, change of address and name, exchange of addresses |
| `RelocationProofs` | the theorems about it |

### JobQueue

`tJob[j]` is the row with `uJob = j`; `uJobDate<=NOW()` is its flag `due`; status "none" is
a row not inserted yet. `lock[n]` is the directory on node n. `pc[a]` is where invocation
a is: "idle", "started" (before `mkdir`, 308), "select" (319), "loop" (333), "run" inside a
handler, "told" inside a handler that already wrote a status and goes on (DestroyContainer after
a failing stop, 1047; NewContainer before its rollback, 775; RecurringJob before its
Waiting, 4649), "postpone" (load shedding, 393-440). `rows[a]` is what is left of its
result set and `cur[a]` the row in hand. Jobs are told apart by name only as far as dispatch does: names
that run under high load, the others, and one `ProcessJob` does not know.

`DieLocked` is every way out that leaves the directory: `exit(2)` of a handler or of
`tJob...Update`, `sysinfo()` failing in the loop, a signal, `rmdir` failing (only logged). That the update to
Running may fail unnoticed (381) is the second alternative in `NextJob`.

Not in it: `uJobStatus` RemoteWaiting (only an unused job type writes it), Destroy
Container Offline and root's free edit of `tJob`, the DELETE that archives old rows, the third
UPDATE of `CancelContainerJob` (it is about CloneContainer jobs of a source), the data center
of a row (one data center), and a lock directory removed by hand or by the node's boot.

### ContainerLifecycle

`uStatus` is the record, `ct` what exists on the node, `page[s]` a session: "form" (the
page was loaded; `st` is its hidden status, `fresh` says that `uModDate` still matches),
"checked" (the comparison is behind it), "set" (the job is inserted or
cancelled, the status not yet set). `Submit` is a button of the container's page, `SubmitSet`
a group operation, which reads the record itself. `hand[a]` is the handler of an
invocation as the list of vzctl commands it has still to run; `StopPlan`, `StartPlan`, ... give the list of each handler,
taken from the code's branches (veth or not, deployed stopped or started). Tested failures
are `CommandFails`, `DestroyGoesOn`, `NewRollsBack` and `RollbackFails`; the
stop whose failure is only logged is `HaltFails`. Load shedding, failing start-ups
and two invocations of a node are left to `JobQueue`. vzctl is external: `Ready` and
`Effect` say when a command can succeed and what it then does.

A job comes due only when its page is done: the default `uJobDate` is 60 seconds ahead
(tcontainerfunc.h:7209), and a page takes less. A start date in the past, which breaks this, and
Group Cancel on the job page, which leaves the record waiting, are listed as hazards.
`SetContainerStatus` whose UPDATE fails is only printed by the code and not modelled; nor are the
administrator's Initial Setup, DNS jobs, and the restored status of a clone's source.

### Failover

`db` has both records, `vz` both containers, `up` the nodes, `job` the pair of rows with the
second one's `cJobData`, `to` and `from` the handlers with their locals (`orig` is `cOrigIP`,
`ip` is `cIP`, `at` the step that failed). Each step is an action named after what it does; `AfterTo`,
`AfterFrom` give the order and the branches; `ToLevel`, `FromLevel` how far the rollback of a
step goes. A behaviour belongs to one `trial`, chosen in the initial state: how many switchovers there are and what
may fail (`Faults`): a tested step by its name, "silent" for every
call whose result nobody tests, "insert" for the backend's second INSERT, "crash" for nodes and handlers.
An address or a name is called after the container that started with it; a name counts the `.fo`
appended to it.

`ConfirmSwitchover` is the page of the clone, which asks that the source be active, stopped or about to be stopped (41, which counts as active
here); `GroupSwitchover` (tcontainerfunc.h:5459-5509) makes the same two jobs and does not look at the source.
`GroupStatus` is Status Active and Stopped of a group (5719-5826): it lifts AWAITFAIL, after a failed switchover or in the middle of one, and
cancels a FailoverFrom that still waits, which is one of the ends `PairCompletes` knows. So a switchover can be tried again after a rollback that
did not bring everything back, or on top of a handler that died. `job.inOrder` remembers
whether the two were in order when the pair was made: the nodes agreed with the records, and neither had the other's address, or name but for `.fo`.
A second pair is made only when the FailoverTo before it is over; the FailoverFrom that waits for one that failed then leaves the
model (it waits for ever, for a row whose status is final).

Merged or left out: the check of `cIP` is part of the ipadd step; arpsend, the sync period (it is in `CloneSync`) and the DEBUG
variant, the only one the clone panel of a node makes, and whose jobs have no handler, are out. The
fifth rollback level of `FailoverTo` reads the names after they were changed and so restores nothing; it
is a level that changes nothing.

### Doubts

The remaining modules are about tables that several programs write with nothing between a test and
the write that depends on it. For some races the code has no protection at all, and a
property stated without them would fail at once and hide everything else. So these modules have
a history variable `doubt`: at the step where such a race is lost, a word for it is added and is never taken out. It
guards no action. Every property names the doubts it excuses, and is therefore about everything that can go
wrong *without* one of those races. What each word means is at the definition of `Doubts`; each was seen in a TLC
counterexample, and is a hazard in `PROJECT.json`. In two of the instances TLC does
not continue from a state with a doubt (`CONSTRAINT Undoubted`): their properties excuse all
their doubts, and a doubt stays, so nothing that could violate them is cut off. The exception is `WaitHasAJob`, which
excuses failures only; its theorem has no such limit, and it was checked with the other doubts on one node and four events. The instance of
`CloneSync`, whose properties excuse some doubts each, continues from states with one doubt.

### FirewallGroup

`tJob[n]` are the rows of node n in `uJob` order, each with the number of its order; `page[s]` an
order that is being placed, one INSERT per node and then the waiting status (tipfunc.h 1555-1600);
`chain[n]` the rules of the address. The runner of a node takes a snapshot, changes the chain (`Deletes`, `Inserts` are what
the shell commands of a handler do, and which exit status is lost), marks its row, looks for unfinished rows of its group and, if
there is none, publishes: three statements, between which the other nodes run. `alone` are the
jobs without a master, of `--block-ip`. StartIptables builds the chain anew from the status `tIP` shows. Left out:
AllowAccess and DenyAccess, which have no group, the /24 form, secure templates. Not here but in `LoginSession`: the
login jobs and the sweep, which write the same `tIP.uFWStatus` (`ConditionalAddIPAndFWStatus`, jobqueue.c:6566), and the page of a login (main.c:2938); the
results are about an address nobody logs in from. Excused: "crossed" (orders that overlap in
opposite ways on two nodes), a partly inserted group, a failure nobody notices.

### LoginSession

`tProperty` are the sessions (user, address); the record of a user has `uOTPExpire` and `cIPMask`; `tJob[n]` the login and
logout jobs, `rules[n]` the accepting rules of the chains UnxsVZ-HTTP and UnxsVZ-SSH.
`page[u]` is a login or logout statement by statement: a logout deletes the session, looks for another of the
same address, and inserts the reverse jobs node by node. A logout is also what a refused login makes (`LoginRefused`: a wrong password, or a one time
password that is past and not renewed, main.c 2075-2140): it takes the session and the rules of the user away,
but only the logout the user asked for clears `cIPMask` and `uOTPExpire` (`LoggedOut`). A login whose one time password is still to come does
not renew it (2101). The page of a cookie whose password has expired has not read its user yet and logs out client 0; unknown users are that client, too. The
comment at main.c:3153 says that a logout removes the login jobs that wait. Its DELETE (3154-3158) asks for the label of the login
and the name of the logout, which no row has: the login jobs stay, run before the logout's, and the model keeps them. The DELETE of a login (3064) does
match. Which users have a one time password (`OTPUsers`) matters because only they get sessions and login jobs.
`run[n]` is the queue's runner; `sweep[n]` the sweep every
invocation makes outside the lock: the expired sessions, then rules whose address has no session, chain after chain.
Left out: the copies in the customer interfaces, StartIptables' section for HTTP, exits between two statements.
Excused: a login in the middle of a logout or of a sweep (main.c:3131, jobqueue.c:7625); two nodes that find the same expired session, where
the slower one's count of 1 is somebody else's; a login job run before an earlier logout's; a login that adds no job because one of
an earlier login still waits (3072), though another user's logout has put its own behind it ("kept").

### CloneSync

`uSource`, `uStatus`, `cuSyncPeriod` and `uBackupDate` are the tables; `agent[a]` an invocation that has selected pairs
and works them off: it reads the period and the date, puts the new date in, runs the
script, and puts the old one back if that fails. `job` is a switchover, of which there is here what a clone sync reads, in
its order (`Failover` has the rest): the exchange of sources, the statuses, and at its end the period
of the old source, which is to be kept; with the failures that end it (and roll back as far as they get), the jobs that are cancelled or die
(`JobLost`), an UPDATE of a status that fails and that nobody notices, and an operator who lifts AWAITFAIL (`GroupStatus`). `era` counts switchovers, so that a property can tell an invocation that selected
its rows before one.

What is excused, and happens:

- a stale invocation copies an old source over the container now in use (7450);
- "fallthrough": the failures of FailoverTo that roll back and go on (3288-3333) leave the clone recorded as a clone, and FailoverFrom then makes
  its source one too. What then keeps an invocation from copying the old source over the container in use is the AWAITFAIL of
  that one, which an operator may lift (tcontainerfunc.h:5773);
- "window": an invocation reads the old source's period between two steps of FailoverFrom, 3793 and 3825, despite its comment;
- "period": the UPDATE of the period fails (SetContainerProperty, libunxsvz.c:1207-1237), and FailoverFrom, which does not look at the
  result (3825), is done all the same;
- "overlap": a script that fails puts back the date it read, which was the new one of another invocation's copy: if that fails as well nothing was copied;
- "config", "exit", "restore": an error between the new date and the script (returns 8 to 12), an end of the program there, an UPDATE that should put
  the old date back and fails (return 7, 4390-4394).

`NotIntoProduction` excuses the first two, `SafeKeeping` the first four, `DateTellsOfCopy` those of the last two; each was taken out once, and TLC then found
the counterexample. `DueIsCopied` excuses none.
Left out: ApplianceSync, the script, and `tNode.uStatus=1` (4130).

### Relocation

`tContainer[c]` has the status, node and address of the record, `place[c]` and `ips[c]` where the container is and the
addresses it has there, `available` the free ones of `tIP`. `page[s]` is a confirmed form: what it saw and what
it wants; `Confirm` makes the checks of the page, the second step of the same session (`MigrateContainer`, `RemoteMigration`, `HostnameChange`,
`IPChange`, `Swap`) its updates and INSERTs, with whatever has happened in between. The statements of that
second step are one action: jobs are due a minute later. `run[n]` is the invocation of a node with the rows of
its snapshot and the point its handler has reached: Check 1 (vzlist), Check 2 (other jobs), then command by command. While vzmigrate
runs, the target's vzlist and vzctl may or may not know the container (`Coming`). Both uNode and uDatacenter are `SetNode`.
Doubts, per container: a page that takes an address which is no longer available ("shared"); addresses exchanged across nodes ("swap"):
each of two ChangeIP jobs releases an address the other container has now; two jobs of a name that wait for each other, the first of
which takes the second one's address ("twice"): reachable without any race, for a migration sets the old status while its change of
address still waits; a job for a node the container has left ("stray"), which waits for ever, or takes a later migration back for the one
it waits for; a record that has changed since the page compared it ("stale"); a migrated clone's hostname job, which is told to restore the
status Awaiting Migration ("status"); a failed or killed job ("failed").
`AddressesApart` excuses the first three and "stale" of *any* container (`Orderly`): the address a job releases in the end is the one its page
read, and after such an overlap it can be that of a third container which has been given it meanwhile. `AfterMove`
excuses those of the container itself. Two events are too few for either to matter; the induction needs them, and simulation with seven events finds
the counterexamples without them.
Left out: the veth variant, DNS and NAT jobs, scripts, the group migration, capacity counts, Cancel Job, DNSMoveContainer.

## 3. Runs

| run | question | bounds | states |
|---|---|---|---|
| `jobqueue_nodes` | who may run a job, and what does a row say | 2 nodes, 3 invocations (2 overlapping), 2 containers (one the clone of the other), 2 jobs, LIMIT 2 | 340 thousand |
| `jobqueue_live` | is a due job run | 1 node, 2 invocations, all three kinds of job, all load bands, 2 jobs, LIMIT 1 | 107 thousand |
| `jobqueue_cancel` | does a cancelled job stay cancelled | violated | - |
| `lifecycle_jobs` | do record, jobs and node stay in step | 1 container, 1 node, 1 session, 3 jobs, every upset | 490 thousand |
| `lifecycle_cancel` | was a successful cancellation in time | violated | - |
| `failover_faults` | is the address kept, are the roles exchanged, what does a failed switchover leave, does the pair end | 2 switchovers with all tested failures but the two that fall through, and with untested ones, or half-inserted pairs and an operator who sets statuses; 1 with these and crashes; 2 with three failures, crashes and the operator | 408 thousand |
| `failover_done` | is "Everything ok" ok | violated | - |
| `failover_boot` | may the crashed node come back | violated | - |
| `firewall_orders` | do status, chains and groups agree | 2 nodes, 1 session at a time, 3 events (orders, starts, failures, cancellations, exits, load) | 497 thousand |
| `login_nat` | do sessions, rules and status agree, does an address that waits have a job | 2 users behind 1 address, one with ssh, 2 nodes, 3 events, the first a login | 849 thousand |
| `clone_overlap` | what is copied over what | a container and its clone, 2 nodes, 2 invocations, 3 events (switchovers, failures, dates, settings), or 4 with a second switchover | 579 thousand |
| `relocation_pages` | is an address nobody's or somebody's, has a waiting container a job, does a change end | 2 containers (one a clone), 3 nodes in 2 data centers, 4 addresses, 2 sessions, 2 events (pages, status corrections, failures, deaths) | 447 thousand |

Why the bounds are enough. Two invocations on a node and one on another are all pairs
that can meet; a second job is one behind the first, in the snapshot or not, and LIMIT 1
or 2 is both reached and not. In the life cycle a third job is one inserted after a
cancelled or failed one and an outstanding one. The second switchover is the switch back, which starts with
the roles exchanged and both names changed. Load, faults and sessions are sets, and every value is in some passing
run. Two nodes show "the last of several"; an order, the one that overlaps it and a firewall start or failure
are three events. Two users of one address are what the login code counts. Three events are too few
for a login that meets the waiting job of an earlier one behind which another user has logged out ("kept"). The induction
found it, and five events on one node confirm that it is real, and is the only one: with it excused, `SessionIsLetIn` and `StatusTellsSessions`
hold there too (734 thousand states, not kept as a run, for the theorems say so without a bound). In `login_nat` the first
event is a login of alice, since before a login there is nothing to sweep or to log out (`AliceFirst`; that it is alice who has ssh loses the
behaviours in which bob is the first, two of whose events are left), and nobody is refused who has no address of a last login
(`KnownOnly`); client 0 is only in the theorems. Three events of the clone sync
are two scripts that fail on top of each other and a date that comes due, or a switchover with a failure and a lifted status; the fourth
is for the switch back and for what happens in and after it without a doubt (`Retried`). States with two
doubts are not continued (`Doubted`): what each of them lets happen is seen alone. Without these constraints the run has 4.6 million states and passes in 20 minutes. The last
trial of `failover_faults` has the failures whose rollback leaves something behind, to confirm a second switchover of two that are not in order. Two pages of two sessions
are all overlaps of a check with another page's change, and a page with a failure all partial ones; with one session and three events
`AddressesApart` and `AfterMove` hold as well, in a run too long to be kept.

`lifecycle_jobs` checks with its `QueueSpec` that the composed system implements
`JobQueue`'s `Spec`: what is proved about the queue therefore applies to it.

The violated properties are things the code's own comments or messages say:

- `CanceledStaysCanceled`: `ProcessJob` marks a selected row Running without looking at it again
  (378), so a job cancelled after the SELECT is run.
- `CancelMeansNotBegun`: DestroyContainer marks its row in error after a failing stop and goes on
  to destroy (1047-1053); Error is a status Cancel Job cancels, so it reports success, sets Active,
  and the container is destroyed.
- `DoneMeansTaken`: two failing steps of FailoverTo roll back and then go on (3309, 3331), to "Everything ok".
- `BootsWithoutConflict`: nothing keeps a source whose node boots before FailoverFrom from
  coming up with the production address.

The code calls its rollback best effort, and it is. A failure behind `foName` leaves the names as they are (3454 reads them after they were changed), a handler that
dies leaves everything; group Status lifts AWAITFAIL, and a switchover confirmed again can end Done with names that were not exchanged, or, on top of a
dead handler, with the production address recorded for both. `DoneMeansSwapped` and `RolledBack` therefore are about pairs that are in order when
they are confirmed (`job.inOrder`); `RolledBack` also is about trials without "silent". The other properties have no such condition.

## 4. Fairness

cron starts an invocation every minute and the system schedules it: weak fairness of `Proceed(a)`
(healthy steps of an invocation), of `JobDue`, and of a handler's next command. `TakeLock` and
`SelectJobs` have strong fairness: between two attempts the process may
exit, so they are not continuously enabled, and an attempt made every minute for ever
once meets a free lock and a working database. In the life cycle a command of a handler has strong fairness against
`vzdump.lock`, whose dump ends. In the switchover `StartFrom` and `CheckDone` are strong for the same reason (the
node may crash again and again, the SELECT may fail), and a crashed node is booted again.
In the later modules a page that has begun goes on (`Page`, `Acts`: its statements follow each other in one
request), and so do the runner of each node, its sweep, the clone sync of each invocation (`Sync`) and the jobs of a switchover (`Switch`): weak
fairness for each, since nothing disables them but their own step. cron starts an invocation on each node every minute; in `CloneSync` this is strong fairness, for
`Agents` bounds how many there are, and those of the other node could be all of them each time. In `LoginSession` the pages, and the runners, are fair together only; its events are
finite, so that each of them ends. No fairness is assumed of users, of failures, or of load.

`EveryDueJobRuns` names what the code really needs: normal load from some time on, and it lists the
exceptions: cancelled, a leaked lock, or LIMIT older jobs that keep returning to Waiting
(their handlers wait for something) and fill every snapshot. `AwaitEnds`, `PairCompletes`, `WaitingEnds` and `ChangesEnd` likewise
end in error or in a dead process as well. `DueIsCopied`, `SweptClean` and `WaitEnds` say "again and again": new
copies and sessions keep coming.

## 5. Proofs

`JobQueueProofs` proves for any nodes, invocations, containers, names, bounds and LIMIT, from
`JobQueueAssumption` alone:

| theorem | property | argument |
|---|---|---|
| `TypeCorrect` | `TypeOK` | inductive; one step per action |
| `Exclusion` | `OneLoopPerNode` | with `LockInv`: whoever is past `mkdir` on n finds `lock[n]` true, and is the only one there |
| `LeakPersists` | `LeakIsForEver` (no run) | a step of the code that removes a lock is one of its holder, and there is none |
| `SingleRunner` | `NoDoubleRun` | from `HandsInv` |
| `FreshSnapshots` | `SnapshotIsFresh` | from `HandsInv` |
| `FinalIsFinal` | `FinalStaysFinal` | a row that is final and in no hand is in no snapshot |
| `RunningAccounted` | `RunningIsAccounted` | inductive relative to the three above |

The properties are not inductive. Exclusion needs that a point behind `mkdir` implies the
directory exists (`LockInv`). That a job is not run twice needs to know what is in the
snapshots: `HandsInv` says that the rows of a snapshot and the row in hand of a node's
invocation belong to that node, that the row in hand is not in the snapshot it came from, and that an
addressed row still in a snapshot is Waiting or Cancelled. It is preserved because only
the lock's holder of that node can change an addressed row otherwise, which is exclusion again.
`RunningIsAccounted` adds a case split on who leaves: a handler that ends writes a
status; one that dies leaves the lock.

`CloneSyncProofs` proves for any containers, nodes, invocations and any number of events, from `CloneAssumption`:

| theorem | property | argument |
|---|---|---|
| `TypeCorrect` | `TypeOK` (no run) | inductive with `EraInv`: the invocations and the rest apart, for a step changes one of the two |
| `ProductionIsSafe` | `NotIntoProduction` | from `RolesInv` and `FreshInv` |
| `OldSourceIsSafe` | `SafeKeeping` | `KeptInv`, relative to the other two |
| `FreshDateIsTold` | `DateTellsOfCopy` | inductive with the types |

`NotIntoProduction` compares what an invocation selected long ago with the roles now. `RolesInv` says what the roles are at every point
of a switchover, as long as no FailoverTo has fallen through: there is at most one clone, its source is the container in use, and between the two halves of the exchange
there is none. `FreshInv` says that an invocation of the present era then never has a row whose clone is the
container in use: when a switchover begins every invocation becomes stale, and as no clone exists while the
roles are half exchanged, none that starts then selects anything wrong. `KeptInv` adds, until one of the doubts the property excuses, that the old source has no
period while it is kept, and that no invocation of the present era has it in hand.

`ContainerLifecycleProofs` proves for any sessions, jobs, invocations, nodes and upsets, from `JobQueueAssumption` and `LifecycleAssumption`:

| theorem | property | argument |
|---|---|---|
| `QueueImplemented` | `QueueSpec` | each action is one of `JobQueue`, or leaves its variables alone |
| `LifeTypeCorrect` | `LifeTypeOK` | from `IndLife` |
| `TruthTold` | `HandlerTellsTruth` | from `IndLife` |
| `DeploymentIsAtomic` | `DeployIsAtomic` | from `IndLife` |
| `AwaitedIsPending` | `AwaitedHasJob` | `PagesOK`, assuming `OneSession` |

By `QueueImplemented` the invariants of the queue hold here, and that no two invocations of the container's node are past the lock is what
everything else rests on. `IndLife` says for each handler at which commands it can be and what the container then is (`InStage`): that a stopped container
is what `<<"set">>` finds after `<<"stop", "set">>` holds only because no other handler acts on it. `AwaitedIsPending` adds that the job of a page which is
not done is due to nobody. `OneSession` is needed: with two pages at once, TLC finds the one that cancels the other's job just before it sets
the awaiting status.

`FailoverProofs` proves for any set of faults, any number of switchovers, crashes and boots, from `FailoverAssumption`:

| theorem | property | assuming |
|---|---|---|
| `TypeCorrect` | `TypeOK` | - |
| `SourceIsUntouched` | `SourceUntouched` | `RollsBack` |
| `RecordsAreApart` | `RecordsStayApart` | `RollsBack` |
| `AddressNeverLost`, `RecordNeverLost` | `AddressIsHandedOver`, `RecordIsHandedOver` (the refinements of `Handover`) | `RollsBack` |
| `DoneIsSwapped` | `DoneMeansSwapped` | `RollsBack` |
| `RollbackRestores` | `RolledBack` | `RollsBack` |

`RollsBack` says that the two steps whose failure rolls back and then goes on (3309, 3331) do not fail: with them the properties are false, which is the
finding `DoneMeansTaken`. The argument is a chain of invariants. `IndHolds`: one of the two containers *holds* production (address on the node, address in the record, nobody's clone), the source
until the first row is done and the clone from then on, though in between neither the node nor the record alone would say so; what each handler has changed is
said by its point (`ToPointOK`, `FromPointOK`). `IndSwaps` adds what the clone and the source have been given, point by point, and, for a pair in order, that
the second row remembers the clone's address and a name that is not the source's; `IndBack` what each level of the rollback of such a pair still has to undo.

`FirewallGroupProofs` and `FirewallAgreementProofs` prove for any nodes, sessions and number of events, from `FirewallAssumption`:

| theorem | property | argument |
|---|---|---|
| `TypesKept` | `TypeOK` | inductive with the numbers of orders and the rows in hand (`IndType`) |
| `PlacedHolds` | (`IndPlaced`) | an order has a row wherever its page has been, and who found a group done is right |
| `LastPublishes` | `PublishedByLast` | from `IndPlaced` |
| `WaitHasAnOrder` | `WaitIsForAnOrder` | `IndWait`; assuming there is a node |
| `QuietAgrees` | `QuietAgreement` | `IndTurns`, `IndStatus`, `IndQuiet`; assuming there is a node |

`PublishedByLast` looks at one moment, but the handler counts the unfinished rows in one statement and publishes in another: `FoundDone` in `IndPlaced` keeps what was
found true in between, because no page adds a row to an order that a runner has looked at. That the status a waiting order ends with is the newest one's
(`IndStatus`) needs the order of the rows on every node, and that a node works them off in it (`IndTurns`).
The chain then is that of the last row (`IndQuiet`); RemoveDropFromIPTables, which would leave an ACCEPT rule alone, follows only on BlockAccess.

`RelocationProofs` proves for any containers, nodes, data centers, addresses, sessions and number of events, from `RelocationAssumption`:

| theorem | property | argument |
|---|---|---|
| `TypesKept` | `TypeOK` (no run) | inductive with `JobsOK`: rows are numbered once, what runs is in the hand of its node, an open page compared what it says |
| `AddressesStayApart` | `AddressesApart` | `IndHeld`: a container *holds* the address of its record, those it has, and those its unfinished jobs are to release; what is held is not available and nobody else's |
| `AddressesAfterMoves` | `AfterMove` | `IndMove`: where the migrations of a container stand decides which of its jobs can find it |
| `AwaitsHaveJobs` | `AwaitsAJob` | `IndAwait`: a row stays until it has set the status of all its containers; the status a row is to set is not an awaiting one, but for "status" |

Nothing links the two jobs of a remote migration: the change of address waits on the other node until vzlist there shows the container, which it may do
during the migration, and until no other job of the container is left. `MoveOK`, the part of `IndMove` about one container, says why this is enough:
a migration that has not moved it starts where it is (`MigrationOK`); a waiting job is for the node it is on or for another data center (`WaiterOK`), so
that no migration within a data center brings the container to it; a job past Check 2 is alone but for migrations that do not come to its
node (`AloneOK`); and the recorded address belongs to the data center of the job that will add it (`CenterOK`).

`LoginProofs` proves for any finite sets of users and nodes (at least one node), any addresses and number of events, from `LoginAssumption`:

| theorem | property | argument |
|---|---|---|
| `TypeCorrect` | `TypeOK` | `TypeInv`; a row's number is bounded because a page counts as a row of each node it has still to visit (`Numbered`) |
| `SessionsAreLetIn` | `SessionIsLetIn` | `LetInv` |
| `StatusTells` | `StatusTellsSessions` | `TellInv`, with `LetInv` |
| `WaitIsWorkedOn` | `WaitHasAJob` | inductive with the types |

`SessionIsLetIn` looks at a moment of rest, which says nothing of the way there. `LetInv` says for each session and node, at every moment, why the
session will be let in: its page has still to come to the node, or a login's job is there behind every logout's, or the rules are there and no
logout's job is, or a sweep is about to delete the session as expired. What a page that found no other session of its address may rely on
(`NoneLeft`), that a login's job that runs is older than every logout's (`LoginFirst`), and which sweep may drop what (`SweepsOwn`) are further
parts of it. `TellInv` relates the status to those: a status that shows no access belongs to an address without a session or with a job that will change it (`Shown`), and a
status that shows access is accounted for by a session, a job or a rule (`Accounted`).

Only model-checked: liveness (`EveryDueJobRuns`, `AwaitEnds`, `PairCompletes`, `WaitingEnds`, `SweptClean`, `WaitEnds`, `DueIsCopied`, `ChangesEnd`),
since the prover does not treat fairness. Every invariant and action property of a passing run is stated by a theorem; where a run would
only repeat a theorem about types (`CloneSync`, `Relocation`), it leaves it out.

## 6. Plan

1. `JobQueue`, `Failover` with `Handover`, `ContainerLifecycle`, `FirewallGroup`, `LoginSession`, `CloneSync`, `Relocation`: done.
2. Proofs: the safety properties, refinements and action properties of all of them: done.
3. Models. The status of a node in `ContainerLifecycle` and Destroy Container Offline; `TemplateContainer` (jobqueue.c 2354-2643);
   `ApplianceSync`; the veth variant and the group migration in `Relocation`.

## 7. Not modelled

Page layout, permissions, reports and the measurements of the agents have no state that two parties share. The sibling
programs (unxsBind, unxsMail, unxsISP and the others) are most of the repository's lines, each with
its own database and the same page framework; they share no table with the container system, but for the DNS jobs that
unxsVZ inserts into unxsBind's. Vendored sources, generated page code and images are not the program's logic. What
the modules leave out of the parts they do model is said under each of them, and in the notes of `PROJECT.json`.
