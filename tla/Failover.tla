------------------------------ MODULE Failover ------------------------------
(***************************************************************************)
(* Switching production over to a clone.  The backend inserts a pair of    *)
(* jobs: FailoverTo, run on the node of the clone, gives the clone the     *)
(* address and the names of its source; FailoverFrom, run on the node of   *)
(* the source, waits for it and gives the source what the clone had.       *)
(*                                                                         *)
(* Both handlers (jobqueue.c) are sequences of vzctl commands and UPDATEs, *)
(* each its own step here.  A tested one may fail and start a rollback; an *)
(* untested one may fail unnoticed; the node may crash between any two.    *)
(***************************************************************************)
EXTENDS Integers

CONSTANTS
    Prod, Clone0,   \* the two containers, by the role they start in
    None,
    Trials,         \* what a behaviour may suffer: its faults, see FaultPoints, and
                    \* its rounds, a bound on the switchovers confirmed
    MaxRound        \* bound: the most rounds of a trial

Pair == {Prod, Clone0}
Other(c) == IF c = Prod THEN Clone0 ELSE Prod

\* An address is called by the container that starts with it, and so is a
\* name, with the number of times .fo was appended to it
Names == [of : Pair, fo : 0 .. MaxRound]
Name(c) == [of |-> c, fo |-> 0]
NoName == [of |-> None, fo |-> 0]
Fo(name) == [name EXCEPT !.fo = @ + 1]

ToFaults == {"getSource", "unsetSource", "nodeStatus", "start", "onboot", "ipdel", "getIP",
             "ipadd", "setIP", "getNames", "foName", "setName", "vzName", "scripts"}
FromFaults == {"fromIpdel", "stop", "fromName", "fromVzName", "fromSetIP", "fromIpadd",
               "fromScripts", "setSource"}
\* "silent": a call whose result nobody tests; "insert": the second INSERT of
\* the backend; "crash": a node or a handler dies; "lift": an operator sets the
\* status of a container that awaits a switchover
FaultPoints == ToFaults \cup FromFaults \cup {"silent", "insert", "crash", "lift"}

ASSUME FailoverAssumption ==
    /\ Prod # Clone0 /\ None \notin Pair
    /\ MaxRound \in Nat
    /\ Trials \subseteq [faults : SUBSET FaultPoints, rounds : 0 .. MaxRound]

VARIABLES
    db,     \* tContainer: uSource, uStatus, the address uIPv4 names, cLabel
    vz,     \* OpenVZ on the node of each container: addresses, name, running, onboot
    up,     \* is the node of the container up
    job,    \* the newest pair of tJob rows, the cJobData of the second, and for the
            \* properties whether the two containers were InOrder at its confirmation
    to,     \* FailoverTo in progress: point and locals
    from,   \* FailoverFrom in progress
    round,  \* switchovers confirmed so far
    trial   \* what may fail in this behaviour; it does not change

vars == <<db, vz, up, job, to, from, round>>

\* Of the awaiting statuses only AWAITFAIL: a source that awaits the end of
\* another job may be switched too, and is then like an active one here
Status == {"ACTIVE", "STOPPED", "AWAITFAIL"}
JobStatus == {"none", "WAITING", "RUNNING", "DONEOK", "ERROR", "CANCELED"}

Faults == trial.faults

Clone == job.clone

DbSet(c, field, x) == [db EXCEPT ![c][field] = x]
VzSet(c, field, x) == [vz EXCEPT ![c][field] = x]

\* An untested call that should turn x into y
Attempt(x, y) == {y} \cup (IF "silent" \in Faults THEN {x} ELSE {})

Idle == [pc |-> "off", src |-> None, stopped |-> FALSE, orig |-> None, ip |-> None,
         name |-> NoName, at |-> "off"]

Init ==
    /\ \E s \in {"ACTIVE", "STOPPED"} :
        /\ db = [c \in Pair |->
                    [uSource |-> IF c = Clone0 THEN Prod ELSE None,
                     uStatus |-> IF c = Clone0 THEN s ELSE "ACTIVE",
                     ip |-> c, name |-> Name(c)]]
        /\ vz = [c \in Pair |->
                    [ips |-> {c}, name |-> Name(c), running |-> db[c].uStatus = "ACTIVE",
                     onboot |-> db[c].uStatus = "ACTIVE"]]
    /\ up = [c \in Pair |-> TRUE]
    /\ job = [clone |-> Clone0, to |-> "none", from |-> "none", inOrder |-> TRUE,
              data |-> [ip |-> None, name |-> NoName, uStatus |-> "ACTIVE"]]
    /\ to = Idle /\ from = Idle
    /\ round = 0
    /\ trial \in Trials

(**************************** The web backend ******************************)

\* The nodes agree with the records, and the containers do not go by the same
\* address or name, with or without .fo
InOrder ==
    /\ \A c \in Pair : vz[c].ips = {db[c].ip} /\ vz[c].name = db[c].name
    /\ db[Prod].ip # db[Clone0].ip /\ db[Prod].name.of # db[Clone0].name.of

\* The pair of jobs for the clone c, whose FailoverTo before has ended.  When
\* only the first INSERT succeeds the statuses stay as they are.  A FailoverFrom
\* that still waits for one that failed waits for ever: it leaves the model.
Switchover(c, second) ==
    /\ round < trial.rounds
    /\ to.pc \in {"off", "dead"} /\ from.pc \in {"off", "dead"} /\ job.to # "WAITING"
    /\ db[c].uStatus \in {"ACTIVE", "STOPPED"}
    /\ db[c].uSource # None
    /\ second \/ "insert" \in Faults
    /\ job' = [clone |-> c, to |-> "WAITING",
               from |-> IF second THEN "WAITING" ELSE "none", inOrder |-> InOrder,
               data |-> [ip |-> db[c].ip, name |-> db[c].name, uStatus |-> db[c].uStatus]]
    /\ db' = IF second
             THEN [d \in Pair |-> IF d \in {c, db[c].uSource}
                                  THEN [db[d] EXCEPT !.uStatus = "AWAITFAIL"] ELSE db[d]]
             ELSE db
    /\ round' = round + 1
    /\ UNCHANGED <<vz, up, to, from>>

\* "Confirm Switchover" on the page of the clone also looks at its source
ConfirmSwitchover(c, second) ==
    /\ Switchover(c, second)
    /\ db[db[c].uSource].uStatus \in {"ACTIVE", "STOPPED"}

\* "Switchover" of a group of containers does not
GroupSwitchover(c, second) == Switchover(c, second)

\* "Status Stopped" and "Status Active" of a group lift AWAITFAIL, and cancel
\* the container's waiting FailoverFrom, whatever FailoverTo has done
GroupStatus(c, s) ==
    /\ "lift" \in Faults /\ db[c].uStatus = "AWAITFAIL"
    /\ db' = DbSet(c, "uStatus", s)
    /\ job' \in (IF c # Clone /\ job.from = "WAITING"
                 THEN Attempt(job, [job EXCEPT !.from = "CANCELED"]) ELSE {job})
    /\ UNCHANGED <<vz, up, to, from, round>>

\* Group Cancel on the job page; "to" and "from" name the rows
GroupCancel(row) ==
    /\ job[row] \in {"WAITING", "ERROR"}
    /\ job' = [job EXCEPT ![row] = "CANCELED"]
    /\ UNCHANGED <<db, vz, up, to, from, round>>

(******************************* The nodes *********************************)

Die(h) == IF h.pc = "off" THEN h ELSE [h EXCEPT !.pc = "dead"]

\* FailoverTo runs on the node of the clone, FailoverFrom on the other one
NodeCrash(c) ==
    /\ "crash" \in Faults /\ up[c]
    /\ up' = [up EXCEPT ![c] = FALSE]
    /\ vz' = VzSet(c, "running", FALSE)
    /\ to' = IF c = Clone THEN Die(to) ELSE to
    /\ from' = IF c # Clone THEN Die(from) ELSE from
    /\ UNCHANGED <<db, job, round>>

\* OpenVZ starts the containers whose onboot is yes
NodeBoot(c) ==
    /\ ~up[c]
    /\ up' = [up EXCEPT ![c] = TRUE]
    /\ vz' = VzSet(c, "running", vz[c].onboot)
    /\ UNCHANGED <<db, job, to, from, round>>

\* The handler's process exits (exit(2) of a status update) or is killed
HandlerDies ==
    /\ "crash" \in Faults
    /\ \/ to.pc # "off" /\ to' = Die(to) /\ from' = from
       \/ from.pc # "off" /\ from' = Die(from) /\ to' = to
    /\ UNCHANGED <<db, vz, up, job, round>>

(****************************** FailoverTo *********************************)

StartTo ==
    /\ job.to = "WAITING" /\ up[Clone]
    /\ job' = [job EXCEPT !.to = "RUNNING"]
    /\ to' = [Idle EXCEPT !.pc = "getSource"]
    /\ UNCHANGED <<db, vz, up, from, round>>

\* The step after s
AfterTo(s) ==
    CASE s = "getSource" -> "unsetSource"
      [] s = "unsetSource" -> "nodeStatus"
      [] s = "nodeStatus" -> IF vz[Clone].running THEN "active" ELSE "start"
      [] s = "start" -> "onboot"
      [] s = "onboot" -> "active"
      [] s = "active" -> "ipdel"
      [] s = "ipdel" -> "getIP"
      [] s = "getIP" -> "ipadd"
      [] s = "ipadd" -> "setIP"
      [] s = "setIP" -> "getNames"
      [] s = "getNames" -> "foName"
      [] s = "foName" -> "setName"
      [] s = "setName" -> "vzName"
      [] s = "vzName" -> "scripts"
      [] s = "scripts" -> "done"

\* Step s succeeds with the tables d, the containers v and the locals m
To(s, d, v, m) ==
    /\ to.pc = s
    /\ db' = d /\ vz' = v
    /\ to' = [m EXCEPT !.pc = AfterTo(s)]
    /\ UNCHANGED <<up, job, from, round>>

\* Mutant: the source is not kept
GetSourceLost == To("getSource", db, vz, to)
GetSource == To("getSource", db, vz, [to EXCEPT !.src = db[Clone].uSource])
\* Mutant: the clone stays recorded as a clone
UnsetSourceSkipped == To("unsetSource", db, vz, to)
UnsetSource == To("unsetSource", DbSet(Clone, "uSource", None), vz, to)
NodeStatus == To("nodeStatus", db, vz, [to EXCEPT !.stopped = ~vz[Clone].running])
StartClone == To("start", db, VzSet(Clone, "running", TRUE), to)
OnbootClone == To("onboot", db, VzSet(Clone, "onboot", TRUE), to)
ActiveClone == \E d \in Attempt(db, DbSet(Clone, "uStatus", "ACTIVE")) : To("active", d, vz, to)
\* The address to go back to is read without a test
IpdelClone ==
    \E ip \in Attempt(None, db[Clone].ip) :
        To("ipdel", db, VzSet(Clone, "ips", {}), [to EXCEPT !.orig = ip])
GetIP == To("getIP", db, vz, [to EXCEPT !.ip = db[to.src].ip])
\* Mutant: cOrigIP for cIP
IpaddCloneOrig == To("ipadd", db, VzSet(Clone, "ips", vz[Clone].ips \cup {to.orig}), to)
IpaddClone == To("ipadd", db, VzSet(Clone, "ips", vz[Clone].ips \cup {to.ip}), to)
\* Mutant: the record keeps its address
SetCloneIPSkipped == To("setIP", db, vz, to)
SetCloneIP == To("setIP", DbSet(Clone, "ip", to.ip), vz, to)
GetNames == To("getNames", db, vz, [to EXCEPT !.name = db[to.src].name])
\* Mutant: the source keeps its name until the sister job runs
FoNameSkipped == To("foName", db, vz, to)
\* "needed until the sister job runs, due to unique index on cLabel"
FoName == To("foName", DbSet(to.src, "name", Fo(to.name)), vz, to)
SetCloneName == To("setName", DbSet(Clone, "name", to.name), vz, to)
VzCloneName == To("vzName", db, VzSet(Clone, "name", to.name), to)
ActionScripts == To("scripts", db, vz, to)

\* Mutant: the names' failures roll back one level less
ToLevelShort(s) ==
    CASE s \in {"getSource", "unsetSource"} -> 0
      [] s \in {"nodeStatus", "start", "onboot"} -> 1
      [] s = "ipdel" -> 2
      [] s \notin {"getSource", "unsetSource", "nodeStatus", "start", "onboot", "ipdel"} -> 3

\* How far the rollback of a failing step goes.  The code has a level 5, which
\* reads the names it should restore after they changed and so restores nothing.
ToLevel(s) ==
    CASE s \in {"getSource", "unsetSource"} -> 0
      [] s \in {"nodeStatus", "start", "onboot"} -> 1
      [] s = "ipdel" -> 2
      [] s \in {"getIP", "ipadd", "setIP"} -> 3
      [] s \in {"getNames", "foName", "setName", "vzName", "scripts"} -> 4

\* The failing steps whose rollback has no return after it
FallThrough == {"ipadd", "setIP"}

Undo(k) == CASE k = 1 -> "undo1" [] k = 2 -> "undo2" [] k = 3 -> "undo3" [] k = 4 -> "undo4"

ToFails(s) ==
    /\ s \in Faults /\ to.pc = s
    /\ job' = [job EXCEPT !.to = "ERROR"]
    /\ to' = [to EXCEPT !.pc = IF ToLevel(s) = 0 THEN "off" ELSE "undo1", !.at = s]
    /\ UNCHANGED <<db, vz, up, from, round>>

\* Level k of the rollback ends with the tables d and the containers v
ToUndo(k, d, v) ==
    /\ to.pc = Undo(k)
    /\ db' = d /\ vz' = v
    /\ to' = [to EXCEPT !.pc = IF k < ToLevel(to.at) THEN Undo(k + 1)
                               ELSE IF to.at \in FallThrough THEN AfterTo(to.at) ELSE "off"]
    /\ UNCHANGED <<up, job, from, round>>

\* vzctl set --ipadd ip, of the containers v; an ip that could not be read adds none
Ipadd(v, c, ip) == Attempt(v, [v EXCEPT ![c].ips = @ \cup ({ip} \ {None})])
\* vzctl set --ipdel all; vzctl set --ipadd ip
Readdress(c, ip) == UNION {Ipadd(v, c, ip) : v \in Attempt(vz, VzSet(c, "ips", {}))}

\* SetContainerIP refuses an empty address
RestoreIP(c, ip) == IF ip = None THEN {db} ELSE Attempt(db, DbSet(c, "ip", ip))

UndoSource == \E d \in Attempt(db, DbSet(Clone, "uSource", to.src)) : ToUndo(1, d, vz)
UndoStart ==
    \E d \in Attempt(db, DbSet(Clone, "uStatus", "AWAITFAIL")),
       v \in (IF to.stopped THEN Attempt(vz, VzSet(Clone, "running", FALSE)) ELSE {vz}) :
        ToUndo(2, d, v)
UndoIps == \E v \in Readdress(Clone, to.orig) : ToUndo(3, db, v)
UndoIP == \E d \in RestoreIP(Clone, to.orig) : ToUndo(4, d, vz)

ToDone ==
    /\ to.pc = "done"
    /\ job' = [job EXCEPT !.to = "DONEOK"]
    /\ to' = [to EXCEPT !.pc = "off"]
    /\ UNCHANGED <<db, vz, up, from, round>>

(***************************** FailoverFrom ********************************)

StartFrom ==
    /\ job.from = "WAITING" /\ up[Other(Clone)]
    /\ job' = [job EXCEPT !.from = "RUNNING"]
    /\ from' = [Idle EXCEPT !.pc = "check"]
    /\ UNCHANGED <<db, vz, up, to, round>>

\* Mutants: any end of FailoverTo will do; the status of an error is asked for
FailToJobBegun == job.to # "WAITING"
FailToJobError == job.to = "ERROR"

FailToJobDone == job.to = "DONEOK"

\* The source is the container of the second job
Source == Other(Clone)

CheckDone ==
    /\ from.pc = "check" /\ FailToJobDone
    /\ \E ip \in Attempt(None, db[Source].ip) :
            from' = [from EXCEPT !.pc = "fromIpdel", !.orig = ip]
    /\ UNCHANGED <<db, vz, up, job, to, round>>

\* Not done, or the SELECT fails: tJobWaitingUpdate
KeepWaiting ==
    /\ from.pc = "check" /\ (~FailToJobDone \/ "silent" \in Faults)
    /\ job' = [job EXCEPT !.from = "WAITING"]
    /\ from' = Idle
    /\ UNCHANGED <<db, vz, up, to, round>>

\* The status the clone had says whether the source keeps running
StopsSource == job.data.uStatus = "STOPPED"

AfterFrom(s) ==
    CASE s = "fromIpdel" -> IF StopsSource THEN "stop" ELSE "status"
      [] s = "stop" -> "status"
      [] s = "status" -> "fromName"
      [] s = "fromName" -> "fromVzName"
      [] s = "fromVzName" -> "fromSetIP"
      [] s = "fromSetIP" -> "fromIpadd"
      [] s = "fromIpadd" -> "fromScripts"
      [] s = "fromScripts" -> "setSource"
      [] s = "setSource" -> "done"

From(s, d, v, m) ==
    /\ from.pc = s
    /\ db' = d /\ vz' = v
    /\ from' = [m EXCEPT !.pc = AfterFrom(s)]
    /\ UNCHANGED <<up, to, round>>

IpdelSource == From("fromIpdel", db, VzSet(Source, "ips", {}), from) /\ UNCHANGED job
\* vzctl stop may report an error although the container did stop: the job
\* is marked in error, and goes on
StopSource ==
    /\ From("stop", db, VzSet(Source, "running", FALSE), from)
    /\ \/ UNCHANGED job
       \/ "stop" \in Faults /\ job' = [job EXCEPT !.from = "ERROR"]
SourceStatus ==
    /\ \E d \in Attempt(db, DbSet(Source, "uStatus", IF StopsSource THEN "STOPPED" ELSE "ACTIVE")),
          v \in (IF StopsSource THEN Attempt(vz, VzSet(Source, "onboot", FALSE)) ELSE {vz}) :
            From("status", d, v, [from EXCEPT !.name = db[Source].name])
    /\ UNCHANGED job
SetSourceName == From("fromName", DbSet(Source, "name", job.data.name), vz, from) /\ UNCHANGED job
VzSourceName == From("fromVzName", db, VzSet(Source, "name", job.data.name), from) /\ UNCHANGED job
SetSourceIP == From("fromSetIP", DbSet(Source, "ip", job.data.ip), vz, from) /\ UNCHANGED job
\* Mutant: cOrigIP for cIP
IpaddSourceOrig ==
    From("fromIpadd", db, VzSet(Source, "ips", vz[Source].ips \cup {from.orig}), from)
    /\ UNCHANGED job
IpaddSource ==
    From("fromIpadd", db, VzSet(Source, "ips", vz[Source].ips \cup {job.data.ip}), from)
    /\ UNCHANGED job
RemoveScripts == From("fromScripts", db, vz, from) /\ UNCHANGED job
SetSource == From("setSource", DbSet(Source, "uSource", Clone), vz, from) /\ UNCHANGED job

FromLevel(s) ==
    CASE s = "fromIpdel" -> 0
      [] s = "stop" -> 1
      [] s = "fromName" -> 2
      [] s \in {"fromVzName", "fromSetIP"} -> 3
      [] s \in {"fromIpadd", "fromScripts", "setSource"} -> 4

FromFails(s) ==
    /\ s \in Faults /\ from.pc = s
    /\ job' = [job EXCEPT !.from = "ERROR"]
    /\ from' = [from EXCEPT !.pc = IF FromLevel(s) = 0 THEN "off" ELSE "undo1", !.at = s]
    /\ UNCHANGED <<db, vz, up, to, round>>

FromUndo(k, d, v) ==
    /\ from.pc = Undo(k)
    /\ db' = d /\ vz' = v
    /\ from' = [from EXCEPT !.pc = IF k < FromLevel(from.at) THEN Undo(k + 1) ELSE "off"]
    /\ UNCHANGED <<up, job, to, round>>

\* Only the last two failures remove the clone's address again
FromUndoIps ==
    \E v \in (IF from.at \in {"fromScripts", "setSource"} THEN Readdress(Source, from.orig)
              ELSE Ipadd(vz, Source, from.orig)) :
        FromUndo(1, db, v)
FromUndoStop ==
    \E d \in Attempt(db, DbSet(Source, "uStatus", "AWAITFAIL")),
       v \in (IF StopsSource
              THEN UNION {Attempt(w, [w EXCEPT ![Source].onboot = TRUE]) :
                          w \in Attempt(vz, VzSet(Source, "running", TRUE))}
              ELSE {vz}) :
        FromUndo(2, d, v)
FromUndoName == \E d \in Attempt(db, DbSet(Source, "name", from.name)) : FromUndo(3, d, vz)
FromUndoIP == \E d \in RestoreIP(Source, from.orig) : FromUndo(4, d, vz)

FromDone ==
    /\ from.pc = "done"
    /\ job' = [job EXCEPT !.from = "DONEOK"]
    /\ from' = [from EXCEPT !.pc = "off"]
    /\ UNCHANGED <<db, vz, up, to, round>>

-----------------------------------------------------------------------------
Backend ==
    \/ \E c \in Pair, second \in BOOLEAN : ConfirmSwitchover(c, second) \/ GroupSwitchover(c, second)
    \/ \E c \in Pair, s \in {"ACTIVE", "STOPPED"} : GroupStatus(c, s)
    \/ \E row \in {"to", "from"} : GroupCancel(row)

ToSucceeds ==
    \/ GetSource \/ UnsetSource \/ NodeStatus \/ StartClone \/ OnbootClone \/ ActiveClone
    \/ IpdelClone \/ GetIP \/ IpaddClone \/ SetCloneIP \/ GetNames \/ FoName
    \/ SetCloneName \/ VzCloneName \/ ActionScripts
    \/ UndoSource \/ UndoStart \/ UndoIps \/ UndoIP \/ ToDone

FromSucceeds ==
    \/ CheckDone \/ IpdelSource \/ StopSource \/ SourceStatus \/ SetSourceName
    \/ VzSourceName \/ SetSourceIP \/ IpaddSource \/ RemoveScripts \/ SetSource
    \/ FromUndoIps \/ FromUndoStop \/ FromUndoName \/ FromUndoIP \/ FromDone

Fail ==
    \/ \E s \in ToFaults : ToFails(s)
    \/ \E s \in FromFaults : FromFails(s)
    \/ \E c \in Pair : NodeCrash(c)
    \/ HandlerDies

Next ==
    \/ Backend \/ Fail
    \/ StartTo \/ ToSucceeds
    \/ StartFrom \/ FromSucceeds \/ KeepWaiting
    \/ \E c \in Pair : NodeBoot(c)

Spec == Init /\ [][Next /\ UNCHANGED trial]_<<vars, trial>>

\* cron starts the handlers on every node that is up, the operating system
\* schedules them, and a node that crashed is booted again
Fairness ==
    /\ WF_vars(StartTo) /\ WF_vars(ToSucceeds)
    /\ SF_vars(StartFrom) /\ WF_vars(FromSucceeds \/ KeepWaiting) /\ SF_vars(CheckDone)
    /\ \A c \in Pair : WF_vars(NodeBoot(c))

FairSpec == Spec /\ Fairness
-----------------------------------------------------------------------------
(******************************* Properties ********************************)

Points == {"off", "dead", "active", "done", "undo1", "undo2", "undo3", "undo4", "check", "status"}
          \cup ToFaults \cup FromFaults

Locals == [pc : Points, src : Pair \cup {None}, stopped : BOOLEAN, orig : Pair \cup {None},
           ip : Pair \cup {None}, name : Names \cup {NoName}, at : Points]

\* Rows, container configurations and handler locals have their shapes, and
\* FailoverTo has a source from the moment it has read it.
TypeOK ==
    /\ db \in [Pair -> [uSource : Pair \cup {None}, uStatus : Status, ip : Pair, name : Names]]
    /\ vz \in [Pair -> [ips : SUBSET Pair, name : Names, running : BOOLEAN, onboot : BOOLEAN]]
    /\ up \in [Pair -> BOOLEAN]
    /\ job \in [clone : Pair, to : JobStatus, from : JobStatus, inOrder : BOOLEAN,
                data : [ip : Pair \cup {None}, name : Names \cup {NoName}, uStatus : Status]]
    /\ to \in Locals /\ from \in Locals
    /\ round \in 0 .. MaxRound /\ trial \in Trials
    /\ to.pc \notin {"off", "dead", "getSource"} => to.src = Other(Clone)

\* The production address passes from one container to the other, on the
\* nodes, without a moment in which neither has it: FailoverFrom gives it up
\* only after FailoverTo has it, and every rollback keeps it somewhere.
Configured == INSTANCE Handover WITH holders <- {c \in Pair : Prod \in vz[c].ips}
AddressIsHandedOver == Configured!Spec

\* The same of the records in tContainer.
Recorded == INSTANCE Handover WITH holders <- {c \in Pair : db[c].ip = Prod}
RecordIsHandedOver == Recorded!Spec

\* "Does this job have to run AFTER FailoverTo()? yes!" (jobqueue.c:3563):
\* until FailoverTo is done, the source keeps its address, on its node and in
\* its record, and is nobody's clone.
SourceUntouched ==
    round > 0 /\ job.to # "DONEOK" =>
        /\ vz[Source].ips = {db[Source].ip}
        /\ db[Source].uSource = None

\* When both jobs of two containers in order are done, these have exchanged
\* addresses, names and roles, and the nodes agree with the records.  After a
\* rollback that did not restore the names (see ToLevel), or a handler that died,
\* group Status lets a switchover be confirmed of two that are not in order.
DoneMeansSwapped ==
    job.to = "DONEOK" /\ job.from = "DONEOK" /\ job.inOrder =>
        /\ db[Source].ip = job.data.ip /\ db[Clone].ip = Other(job.data.ip)
        /\ db[Source].name = job.data.name /\ db[Clone].name.of = Other(job.data.name.of)
        /\ \A c \in Pair : vz[c].ips = {db[c].ip} /\ vz[c].name = db[c].name
        /\ db[Clone].uSource = None /\ db[Source].uSource = Clone

\* "we quickly unset to avoid failed clon sync jobs" (jobqueue.c:3164), and
\* "needed until the sister job runs, due to unique index on cLabel"
\* (jobqueue.c:3361): no order of steps and rollbacks records two containers as
\* clones of each other, which would have their sync jobs overwrite both, or
\* under one name, which the index would refuse.
RecordsStayApart ==
    /\ \A c \in Pair : db[c].uSource = None \/ db[Other(c)].uSource = None
    /\ db[Prod].name # db[Clone0].name

\* A FailoverTo of two containers in order that failed, and whose rollback ran
\* to its end with no failure that nobody tests, leaves the clone a clone with
\* its own address, in its record and on its node, also when its pair was
\* inserted by half or its AWAITFAIL was lifted before.
RolledBack ==
    round > 0 /\ job.inOrder /\ "silent" \notin Faults
    /\ to.pc = "off" /\ job.to \in {"ERROR", "CANCELED"} =>
        /\ db[Clone].uSource = Source
        /\ db[Clone].ip = job.data.ip /\ vz[Clone].ips = {job.data.ip}

\* Once FailoverTo is done, a waiting FailoverFrom comes to an end, however
\* long the node of the source was down.
PairCompletes ==
    (job.to = "DONEOK" /\ job.from = "WAITING") ~>
        (job.from \in {"DONEOK", "ERROR", "CANCELED"} \/ from.pc = "dead")

\* "Everything ok" (jobqueue.c:3476): a FailoverTo that is done has given the
\* clone the address it took.
DoneMeansTaken == job.to = "DONEOK" => job.data.ip \notin vz[Clone].ips

\* "When node is fixed and boots we must avoid the source container coming up
\* with same IP as the new production container" (tcontainerfunc.h:8191).
Serves(c) == IF vz[c].running THEN vz[c].ips ELSE {}
BootsWithoutConflict ==
    [][\A c \in Pair : ~up[c] /\ up'[c] => (Serves(c)' \cap Serves(Other(c))') = {}]_vars
=============================================================================
