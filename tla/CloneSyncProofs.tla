-------------------------- MODULE CloneSyncProofs --------------------------
(* The safety properties of CloneSync, for any containers and invocations. *)
EXTENDS CloneSync, TLAPS

-----------------------------------------------------------------------------
(* era counts switchovers that have begun, each of which was an event. *)
EraInv == era + (IF job.at = "unset" THEN 1 ELSE 0) <= events

\* The types, split in two: the invocations, each with a row when it has a
\* clone in hand, and the rest
AgentRec == [pc : Points, rows : SUBSET Rows, row : Rows \cup {NoRow}, last : Dates, era : 0 .. MaxEvent]

HasRow(g) == g.pc \notin {"idle", "loop"} => g.row \in Rows

AgentOK == agent \in [Agents -> AgentRec] /\ \A a \in Agents : HasRow(agent[a])

JobRec == [at : Steps, to : Sources, from : Sources, uStatus : Settled, second : BOOLEAN]

RestOK ==
    /\ uSource \in [Containers -> Sources] /\ uStatus \in [Containers -> Status]
    /\ cuSyncPeriod \in [Containers -> {"0", "set"}]
    /\ uBackupDate \in [Containers -> Dates]
    /\ job \in JobRec
    /\ job.at # "none" => job.to \in Containers /\ job.from \in Containers
    /\ events \in 0 .. MaxEvent /\ era \in 0 .. MaxEvent /\ prod \in Containers
    /\ synced \in [Containers -> BOOLEAN] /\ kept \in [Containers -> BOOLEAN]
    /\ doubt \subseteq Doubts
    /\ EraInv

IndType == AgentOK /\ RestOK

(* There is one clone at most, of the container in use, and none from the   *)
(* first step of a switchover to the last but one, as long as no FailoverTo *)
(* has fallen through.                                                      *)
Halfway == {"start", "rest", "stop", "source"}

Fell == "fallthrough" \in doubt

Roles ==
    /\ \A k \in Containers : uSource[k] # None => uSource[k] = prod /\ k # prod
    /\ \A k, l \in Containers : uSource[k] # None /\ uSource[l] # None => k = l
    /\ job.at \in Halfway => \A k \in Containers : uSource[k] = None
    /\ job.at # "none" => job.to # job.from
    /\ job.at = "unset" => uSource[job.to] = job.from
    /\ job.at \in {"start", "rest"} => job.from = prod
    /\ job.at \in {"stop", "source", "period"} => job.to = prod

RolesInv == ~Fell => Roles

(* An invocation that is not stale began before the switchover (and then    *)
(* none has) or after it selected clones again: neither its rows nor the    *)
(* clone it has in hand is the container in use.                            *)
FreshAgent(g) == g.pc # "idle" /\ g.era = era =>
    /\ job.at \notin Halfway
    /\ \A r \in g.rows : r.clone # prod
    /\ g.pc # "loop" => g.row.clone # prod

EraOrder == \A a \in Agents : agent[a].era <= era

AllFresh == \A a \in Agents : FreshAgent(agent[a])

FreshInv == EraOrder /\ (~Fell => AllFresh)

(* A source of before has no period, and no such invocation has it in hand; *)
(* nor the one that is about to lose its period, without a doubt.           *)
KeptAgent(g) == g.pc \notin {"idle", "loop"} /\ g.era = era =>
    ~kept[g.row.clone] /\ ~(job.at = "period" /\ job.from = g.row.clone)

Unkept == doubt \cap {"window", "period", "fallthrough"} # {}

KeptInv == ~Unkept =>
    /\ \A k \in Containers : kept[k] => cuSyncPeriod[k] = "0"
    /\ \A a \in Agents : KeptAgent(agent[a])

-----------------------------------------------------------------------------
(* What becomes of an invocation.                                           *)

(* It ends, or goes on with no more than it had: its rows, its clone.       *)
Onward(a) == \E g \in AgentRec :
    /\ HasRow(g)
    /\ agent' = [agent EXCEPT ![a] = g]
    /\ \/ g = Idle
       \/ /\ agent[a].pc # "idle" /\ g.pc # "idle"
          /\ g.era = agent[a].era /\ g.rows = agent[a].rows
          /\ \/ g.pc = "loop"
             \/ agent[a].pc # "loop" /\ g.row = agent[a].row

LEMMA AgentStep ==
  ASSUME AgentOK, NEW a \in Agents, NEW g \in AgentRec, HasRow(g),
         agent' = [agent EXCEPT ![a] = g]
  PROVE  AgentOK'
  BY DEF AgentOK, HasRow

LEMMA IdleIsAgent == Idle \in AgentRec /\ HasRow(Idle)
  BY CloneAssumption DEF Idle, AgentRec, HasRow, Points, Dates, NoRow

LEMMA GoToAgent ==
  ASSUME AgentOK, NEW a \in Agents, NEW pc \in Points \ {"idle"}, GoTo(a, pc),
         agent[a].pc \notin {"idle", "loop"}
  PROVE  Onward(a)
<1> DEFINE g == [agent[a] EXCEPT !.pc = pc]
<1>1. g \in AgentRec /\ HasRow(g)
  BY DEF AgentOK, AgentRec, HasRow
<1>2. agent' = [agent EXCEPT ![a] = g]
  BY DEF GoTo, AgentOK
<1>3. g.pc = pc /\ g.era = agent[a].era /\ g.rows = agent[a].rows /\ g.row = agent[a].row
  BY DEF AgentOK, AgentRec
<1> HIDE DEF g
<1> QED
  BY <1>1, <1>2, <1>3 DEF Onward

LEMMA DoneAgent ==
  ASSUME AgentOK, NEW a \in Agents, Done(a), agent[a].pc # "idle"
  PROVE  Onward(a)
<1> DEFINE g == [agent[a] EXCEPT !.pc = "loop", !.row = NoRow, !.last = "due"]
<1>1. g \in AgentRec /\ HasRow(g)
  BY DEF AgentOK, AgentRec, HasRow, Points, Dates
<1>2. agent' = [agent EXCEPT ![a] = Idle] \/ agent' = [agent EXCEPT ![a] = g]
  BY DEF Done, AgentOK
<1>3. g.pc = "loop" /\ g.era = agent[a].era /\ g.rows = agent[a].rows
  BY DEF AgentOK, AgentRec
<1> HIDE DEF g
<1> QED
  BY <1>1, <1>2, <1>3, IdleIsAgent DEF Onward

LEMMA ReadLastAgent ==
  ASSUME AgentOK, RestOK, NEW a \in Agents, ReadLast(a)
  PROVE  Onward(a)
<1> DEFINE g == [agent[a] EXCEPT !.pc = "set", !.last = uBackupDate[MyClone(a)]]
<1>1. agent[a] \in AgentRec /\ agent[a].pc = "last" /\ agent[a].row \in Rows
  BY DEF AgentOK, AgentRec, HasRow, ReadLast, At
<1>2. uBackupDate[MyClone(a)] \in Dates
  BY <1>1 DEF RestOK, MyClone, Rows
<1>3. g \in AgentRec /\ HasRow(g)
  BY <1>1, <1>2 DEF AgentRec, HasRow, Points
<1>4. agent' = [agent EXCEPT ![a] = g]
  BY DEF ReadLast, AgentOK
<1>5. g.pc = "set" /\ g.era = agent[a].era /\ g.rows = agent[a].rows /\ g.row = agent[a].row
  BY <1>1 DEF AgentRec
<1> HIDE DEF g
<1> QED
  BY <1>1, <1>3, <1>4, <1>5 DEF Onward

(* All its steps but its start and the choice of the next row are such.     *)
LEMMA AgentOnward ==
  ASSUME AgentOK, RestOK, NEW a \in Agents,
         \/ ReadDate(a) \/ ReadLast(a) \/ SetDate(a) \/ StartScript(a)
         \/ ScriptEnds(a) \/ Restore(a) \/ Fault(a)
  PROVE  Onward(a)
<1>1. CASE ReadDate(a)
  BY <1>1, GoToAgent, DoneAgent DEF ReadDate, At, Points
<1>2. CASE ReadLast(a)
  BY <1>2, ReadLastAgent
<1>3. CASE SetDate(a)
  BY <1>3, GoToAgent DEF SetDate, At, Points
<1>4. CASE StartScript(a)
  BY <1>4, GoToAgent DEF StartScript, At, Points
<1>5. CASE ScriptEnds(a)
  BY <1>5, DoneAgent DEF ScriptEnds, At
<1>6. CASE Restore(a)
  BY <1>6, DoneAgent DEF Restore, At
<1>7. CASE MoveDate(a)
  BY <1>7, DoneAgent DEF MoveDate, At
<1>8. CASE Misconfigured(a)
  BY <1>8, DoneAgent DEF Misconfigured, At
<1>9. CASE ScriptFails(a)
  BY <1>9, GoToAgent DEF ScriptFails, At, Points
<1>10. CASE TooBusy(a) \/ Exit(a)
  BY <1>10, IdleIsAgent DEF TooBusy, Exit, Onward
<1>11. CASE RestoreFails(a)
  BY <1>11, DoneAgent DEF RestoreFails, At
<1> QED
  BY <1>1, <1>2, <1>3, <1>4, <1>5, <1>6, <1>7, <1>8, <1>9, <1>10, <1>11 DEF Fault

LEMMA ReadPeriodAgent ==
  ASSUME AgentOK, NEW a \in Agents, ReadPeriod(a)
  PROVE  AgentOK'
<1>1. PICK r \in agent[a].rows :
        LET rest == [agent[a] EXCEPT !.rows = @ \ {r}] IN
        \/ agent' = [agent EXCEPT ![a] = [rest EXCEPT !.pc = "date", !.row = r]]
        \/ agent' = [agent EXCEPT ![a] = IF rest.rows = {} THEN Idle ELSE rest]
  BY DEF ReadPeriod
<1> DEFINE rest == [agent[a] EXCEPT !.rows = @ \ {r}]
           date == [rest EXCEPT !.pc = "date", !.row = r]
<1>2. agent[a] \in AgentRec /\ r \in Rows /\ agent[a].pc = "loop"
  BY DEF AgentOK, AgentRec, ReadPeriod
<1>3. rest \in AgentRec /\ HasRow(rest)
  BY <1>2 DEF AgentRec, HasRow
<1>4. date \in AgentRec /\ HasRow(date)
  BY <1>2 DEF AgentRec, HasRow, Points
<1> QED
  BY <1>1, <1>3, <1>4, AgentStep, IdleIsAgent

LEMMA StartAgent ==
  ASSUME AgentOK, RestOK, NEW a \in Agents, NEW n \in Nodes, Start(a, n)
  PROVE  AgentOK'
<1> DEFINE g == [Idle EXCEPT !.pc = "loop", !.rows = Selected(n), !.era = era]
<1>1. Selected(n) \subseteq Rows
  BY DEF RestOK, Selected, Rows, Sources, Running
<1>2. g \in AgentRec /\ HasRow(g)
  BY <1>1 DEF RestOK, Idle, AgentRec, HasRow, Points, Dates
<1>3. agent' = [agent EXCEPT ![a] = g]
  BY DEF Start
<1> QED
  BY <1>2, <1>3, AgentStep

LEMMA TypeInit == Init => IndType
<1> SUFFICES ASSUME Init PROVE IndType
  OBVIOUS
<1>2. AgentOK
  BY IdleIsAgent DEF Init, AgentOK
<1>3. RestOK
  BY CloneAssumption DEF Init, RestOK, JobRec, EraInv, Sources, Status, Settled, Dates, Steps, Doubts, NoJob
<1> QED
  BY <1>2, <1>3 DEF IndType

(* The rest, action by action: those of an invocation,                      *)

LEMMA RestAgent ==
  ASSUME AgentOK, RestOK, NEW a \in Agents, Sync(a) \/ Fault(a) PROVE RestOK'
<1> USE CloneAssumption DEF RestOK, EraInv, Dates, Doubts
<1>1. CASE ReadPeriod(a)
  BY <1>1 DEF ReadPeriod, Note, data
<1>2. CASE ReadDate(a)
  BY <1>2 DEF ReadDate, data, history
<1>3. CASE ReadLast(a)
  BY <1>3 DEF ReadLast, data, history
<1>4. CASE SetDate(a)
  BY <1>4 DEF SetDate, history
<1>5. CASE StartScript(a)
  BY <1>5 DEF StartScript, data, history
<1>6. CASE ScriptEnds(a)
  BY <1>6 DEF ScriptEnds, data
<1>7. CASE Restore(a)
  BY <1>7 DEF Restore, Note, AgentOK, AgentRec
<1>8. CASE MoveDate(a)
  <2>1. uBackupDate' \in [Containers -> Dates]
    BY <1>8 DEF MoveDate
  <2>2. events' \in 0 .. MaxEvent /\ EraInv'
    BY <1>8 DEF MoveDate, Count, history
  <2> QED
    BY <1>8, <2>1, <2>2 DEF MoveDate, history
<1>9. CASE Misconfigured(a) \/ RestoreFails(a)
  <2>1. events' = events + 1 /\ events < MaxEvent /\ UNCHANGED <<job, era>>
        /\ doubt' \in {doubt \cup {"config"}, doubt \cup {"restore"}}
    BY <1>9 DEF Misconfigured, RestoreFails, Count, Note
  <2> QED
    BY <1>9, <2>1 DEF Misconfigured, RestoreFails, data
<1>10. CASE ScriptFails(a) \/ TooBusy(a)
  <2>1. events' \in 0 .. MaxEvent /\ EraInv'
    BY <1>10 DEF ScriptFails, TooBusy, Count, history
  <2> QED
    BY <1>10, <2>1 DEF ScriptFails, TooBusy, data, history
<1>11. CASE Exit(a)
  <2>1. events' \in 0 .. MaxEvent /\ EraInv'
    BY <1>11 DEF Exit, Count
  <2>2. doubt' \subseteq Doubts
    BY <1>11 DEF Exit, Note
  <2> QED
    BY <1>11, <2>1, <2>2 DEF Exit, data
<1> QED
  BY <1>1, <1>2, <1>3, <1>4, <1>5, <1>6, <1>7, <1>8, <1>9, <1>10, <1>11 DEF Sync, Fault

(* of the pages,                                                            *)

LEMMA RestPage ==
  ASSUME RestOK, NEW k \in Containers, Page(k) PROVE RestOK'
<1> USE CloneAssumption DEF RestOK, JobRec, EraInv, Sources, Status, Settled, Dates, Steps
<1>1. CASE ComesDue(k)
  BY <1>1 DEF ComesDue, Count
<1>2. CASE SetPeriod(k)
  BY <1>2 DEF SetPeriod, Count
<1>3. CASE Switchover(k)
  <2>1. job'.at = "unset" /\ job' \in JobRec /\ job'.to \in Containers /\ job'.from \in Containers
    BY <1>3 DEF Switchover
  <2>2. events' = events + 1 /\ events' \in 0 .. MaxEvent /\ era' = era /\ job.at # "unset"
    BY <1>3 DEF Switchover, Count, history
  <2> QED
    BY <1>3, <2>1, <2>2 DEF Switchover, history
<1>4. ASSUME NEW s \in Settled, GroupStatus(k, s) PROVE RestOK'
  <2>1. uStatus' \in [Containers -> Status]
    BY <1>4 DEF GroupStatus
  <2>2. events' = events + 1 /\ events' \in 0 .. MaxEvent
    BY <1>4 DEF GroupStatus, Count
  <2>3. job' \in {job, NoJob, [job EXCEPT !.second = FALSE]}
    BY <1>4 DEF GroupStatus, SecondCanceled
  <2>4. job' \in JobRec /\ job'.at \in {"none", job.at}
        /\ (job'.at # "none" => job'.to = job.to /\ job'.from = job.from)
    <3>1. NoJob \in JobRec /\ NoJob.at = "none"
      BY DEF NoJob
    <3> DEFINE j == [job EXCEPT !.second = FALSE]
    <3>2. j \in JobRec /\ j.at = job.at /\ j.to = job.to /\ j.from = job.from
      OBVIOUS
    <3> HIDE DEF j
    <3> QED
      BY <2>3, <3>1, <3>2 DEF j
  <2> QED
    BY <1>4, <2>1, <2>2, <2>4 DEF GroupStatus, history
<1> QED
  BY <1>1, <1>2, <1>3, <1>4 DEF Page, ConfirmSwitchover, GroupSwitchover

(* and of the switchover.                                                   *)

LEMMA RestSwitch ==
  ASSUME RestOK, Switch \/ SwitchFails PROVE RestOK'
<1> USE CloneAssumption DEF RestOK, JobRec, EraInv, Sources, Status, Settled, Steps, Doubts
<1>1. CASE ToUnset
  <2>1. job.at = "unset" /\ era + 1 <= events /\ era + 1 \in 0 .. MaxEvent
    BY <1>1 DEF ToUnset
  <2>2. job' \in JobRec /\ job'.at = "start" /\ job'.to = job.to /\ job'.from = job.from
    BY <1>1 DEF ToUnset, Proceed
  <2>3. uSource' \in [Containers -> Sources]
    BY <1>1 DEF ToUnset
  <2> QED
    BY <1>1, <2>1, <2>2, <2>3 DEF ToUnset
<1>2. CASE ToStart \/ FromStop
  <2>1. job' \in JobRec /\ job'.at \in {"rest", "source"} /\ job'.to = job.to /\ job'.from = job.from
        /\ job.at # "none"
    BY <1>2 DEF ToStart, FromStop, Proceed
  <2>2. uStatus' \in [Containers -> Status] /\ events' \in 0 .. MaxEvent /\ events <= events'
    BY <1>2 DEF ToStart, FromStop, SetContainerStatus, Count
  <2>3. UNCHANGED <<uSource, cuSyncPeriod, uBackupDate, prod, era, synced, kept, doubt>>
    BY <1>2 DEF ToStart, FromStop, history
  <2>4. EraInv'
    BY <2>1, <2>2, <2>3
  <2> QED
    BY <2>1, <2>2, <2>3, <2>4
<1>3. CASE ToDone
  <2>1. job' \in JobRec /\ job'.at \in {"stop", "none"} /\ job.at = "rest"
        /\ (job'.at # "none" => job'.to = job.to /\ job'.from = job.from)
    <3>1. NoJob \in JobRec /\ NoJob.at = "none"
      BY DEF NoJob
    <3> DEFINE j == [job EXCEPT !.at = "stop"]
    <3>2. j \in JobRec /\ j.at = "stop" /\ j.to = job.to /\ j.from = job.from
      OBVIOUS
    <3>3. job' \in {NoJob, j} /\ job.at = "rest"
      BY <1>3 DEF ToDone, Proceed
    <3> HIDE DEF j
    <3> QED
      BY <3>1, <3>2, <3>3
  <2> QED
    BY <1>3, <2>1 DEF ToDone, data
<1>4. CASE FromSource
  <2>1. job' \in JobRec /\ job'.at = "period" /\ job'.to = job.to /\ job'.from = job.from
        /\ job.at = "source"
    BY <1>4 DEF FromSource, Proceed
  <2>2. uSource' \in [Containers -> Sources]
    BY <1>4 DEF FromSource
  <2> QED
    BY <1>4, <2>1, <2>2 DEF FromSource, history
<1>5. CASE FromPeriod
  BY <1>5 DEF FromPeriod, NoJob
<1>6. CASE ToFails \/ FromFails
  <2>1. uSource' \in [Containers -> Sources] /\ uStatus' \in [Containers -> Status]
    BY <1>6 DEF ToFails, FromFails, Rollback
  <2>2. events' \in 0 .. MaxEvent /\ era <= events' /\ job' = NoJob
    BY <1>6 DEF ToFails, FromFails, Count
  <2>3. UNCHANGED <<cuSyncPeriod, uBackupDate, prod, era, synced, kept, doubt>>
    BY <1>6 DEF ToFails, FromFails, history
  <2> QED
    BY <2>1, <2>2, <2>3 DEF NoJob
<1>7. CASE ToFallsThrough
  <2>1. uSource' \in [Containers -> Sources] /\ uStatus' \in [Containers -> Status]
    BY <1>7 DEF ToFallsThrough, Rollback
  <2>2. events' \in 0 .. MaxEvent /\ era <= events' /\ job' = job /\ doubt' \subseteq Doubts
        /\ job.at = "rest"
    BY <1>7 DEF ToFallsThrough, Count, Note
  <2> QED
    BY <1>7, <2>1, <2>2 DEF ToFallsThrough
<1>8. CASE FromPeriodFails
  BY <1>8 DEF FromPeriodFails, Count, Note, NoJob, data
<1>9. CASE JobLost
  BY <1>9 DEF JobLost, Count, NoJob, data, history
<1> QED
  BY <1>1, <1>2, <1>3, <1>4, <1>5, <1>6, <1>7, <1>8, <1>9 DEF Switch, SwitchFails

LEMMA RestStep == IndType /\ [Next]_vars => RestOK'
<1> SUFFICES ASSUME AgentOK, RestOK, [Next]_vars PROVE RestOK'
  BY DEF IndType
<1>1. ASSUME NEW a \in Agents, NEW n \in Nodes, Start(a, n) PROVE RestOK'
  BY <1>1 DEF RestOK, EraInv, Start, data, history
<1>2. CASE UNCHANGED vars
  BY <1>2 DEF RestOK, EraInv, vars, data, history
<1> QED
  BY <1>1, <1>2, RestAgent, RestPage, RestSwitch DEF Next

(* The switchover and the pages leave the invocations alone.                *)
LEMMA SwitchLeaves ==
  ASSUME Switch \/ SwitchFails PROVE UNCHANGED <<agent, uBackupDate, synced>>
  BY DEF Switch, SwitchFails, ToUnset, ToStart, ToDone, FromStop, FromSource, FromPeriod, ToFails,
     ToFallsThrough, FromFails, FromPeriodFails, JobLost, data, history

LEMMA PageLeaves ==
  ASSUME NEW k \in Containers, Page(k)
  PROVE  UNCHANGED <<uSource, agent, prod, era, doubt>>
  BY DEF Page, ComesDue, SetPeriod, ConfirmSwitchover, GroupSwitchover, Switchover, GroupStatus, history

LEMMA TypeStep == IndType /\ [Next]_vars => IndType'
<1> SUFFICES ASSUME AgentOK, RestOK, [Next]_vars PROVE AgentOK' /\ RestOK'
  BY DEF IndType
<1>1. RestOK'
  BY RestStep DEF IndType
<1>2. ASSUME NEW a \in Agents, Sync(a) \/ Fault(a) PROVE AgentOK'
  <2>1. CASE ReadPeriod(a)
    BY <2>1, ReadPeriodAgent
  <2>2. CASE Onward(a)
    BY <2>2, AgentStep DEF Onward
  <2> QED
    BY <1>2, <2>1, <2>2, AgentOnward DEF Sync
<1>3. ASSUME NEW a \in Agents, NEW n \in Nodes, Start(a, n) PROVE AgentOK'
  BY <1>3, StartAgent
<1>4. ASSUME UNCHANGED agent PROVE AgentOK'
  BY <1>4 DEF AgentOK, HasRow
<1>5. ASSUME NEW k \in Containers, Page(k) PROVE AgentOK'
  BY <1>4, <1>5, PageLeaves
<1>6. CASE Switch \/ SwitchFails
  <2>1. UNCHANGED agent
    BY <1>6, SwitchLeaves
  <2> QED
    BY <1>1, <1>4, <2>1
<1>7. CASE UNCHANGED vars
  BY <1>1, <1>4, <1>7 DEF vars
<1> QED
  BY <1>1, <1>2, <1>3, <1>4, <1>5, <1>6, <1>7 DEF Next

(* Every reachable state has the types of the tables and of the processes,  *)
(* for any containers, nodes, invocations and number of events: era too,    *)
(* since every switchover that has begun is one of the events counted.      *)
THEOREM TypeCorrect == Spec => []TypeOK
<1>1. IndType => TypeOK
  BY DEF IndType, AgentOK, AgentRec, RestOK, JobRec, TypeOK
<1> QED
  BY <1>1, TypeInit, TypeStep, PTL DEF Spec

-----------------------------------------------------------------------------
(* The switchover moves the roles, and nothing else does.                   *)

LEMMA AgentLeaves ==
  ASSUME NEW a \in Agents, NEW n \in Nodes, Sync(a) \/ Fault(a) \/ Start(a, n)
  PROVE  UNCHANGED <<uSource, cuSyncPeriod, job, prod, era, kept>>
  BY DEF Sync, Fault, Start, ReadPeriod, ReadDate, ReadLast, SetDate, StartScript, ScriptEnds,
         Restore, MoveDate, Misconfigured, ScriptFails, RestoreFails, TooBusy, Exit, data, history

LEMMA DoubtStays == [Next]_vars => doubt \subseteq doubt'
<1> SUFFICES ASSUME [Next]_vars PROVE doubt \subseteq doubt'
  OBVIOUS
<1>1. ASSUME NEW a \in Agents, NEW n \in Nodes, Sync(a) \/ Fault(a) \/ Start(a, n)
      PROVE  doubt \subseteq doubt'
  BY <1>1 DEF Sync, Fault, Start, ReadPeriod, ReadDate, ReadLast, SetDate, StartScript, ScriptEnds,
     Restore, MoveDate, Misconfigured, ScriptFails, RestoreFails, TooBusy, Exit, Note, history
<1>2. ASSUME NEW k \in Containers, Page(k) PROVE doubt \subseteq doubt'
  BY <1>2, PageLeaves
<1>3. CASE Switch \/ SwitchFails
  BY <1>3 DEF Switch, SwitchFails, ToUnset, ToStart, ToDone, FromStop, FromSource, FromPeriod, ToFails,
     ToFallsThrough, FromFails, FromPeriodFails, JobLost, Note, history
<1>4. CASE UNCHANGED vars
  BY <1>4 DEF vars, history
<1> QED
  BY <1>1, <1>2, <1>3, <1>4, CloneAssumption DEF Next

LEMMA RolesInit == Init => RolesInv
  BY CloneAssumption DEF Init, RolesInv, Roles, Halfway, NoJob

LEMMA RolesSwitch ==
  ASSUME RestOK, Roles, Switch \/ SwitchFails, ~Fell'
  PROVE  Roles'
<1> USE CloneAssumption DEF Roles, Halfway
<1>0. /\ uSource \in [Containers -> Sources] /\ job \in JobRec
      /\ job.at # "none" => job.to \in Containers /\ job.from \in Containers
  BY DEF RestOK
<1>1. ASSUME UNCHANGED <<uSource, prod>>, job' = NoJob PROVE Roles'
  BY <1>1 DEF NoJob
<1>2. CASE ToUnset
  <2>1. job.at = "unset" /\ uSource[job.to] = job.from /\ job.from # None
    BY <1>0, <1>2 DEF ToUnset
  <2>2. \A k \in Containers : k # job.to => uSource[k] = None
    BY <1>0, <2>1
  <2>3. \A k \in Containers : uSource'[k] = None
    BY <1>0, <1>2, <2>2 DEF ToUnset
  <2>4. job'.at = "start" /\ job'.to = job.to /\ job'.from = job.from /\ job.from = prod /\ prod' = prod
    BY <1>0, <1>2, <2>1 DEF ToUnset, Proceed, JobRec
  <2> QED
    BY <1>0, <2>1, <2>3, <2>4
<1>3. CASE ToStart
  BY <1>0, <1>3 DEF ToStart, Proceed, history, JobRec
<1>4. CASE ToFails
  <2>1. job' = NoJob /\ prod' = prod /\ job.to # prod /\ job.from = prod
        /\ \A k \in Containers : uSource[k] = None
    BY <1>0, <1>4 DEF ToFails, history
  <2>2. uSource' \in {uSource, [uSource EXCEPT ![job.to] = prod]}
    BY <1>4, <2>1 DEF ToFails, Rollback
  <2>3. \A k \in Containers : uSource'[k] # None => k = job.to /\ uSource'[k] = prod
    BY <1>0, <2>1, <2>2
  <2> QED
    BY <2>1, <2>3 DEF NoJob
<1>5. CASE ToDone
  <2>1. UNCHANGED uSource /\ prod' = job.to /\ \A k \in Containers : uSource[k] = None
    BY <1>5 DEF ToDone, data
  <2>2. job' = NoJob \/ (job'.at = "stop" /\ job'.to = job.to /\ job'.from = job.from)
    BY <1>0, <1>5 DEF ToDone, Proceed, JobRec
  <2>3. job.to # job.from
    BY <1>5 DEF ToDone
  <2> QED
    BY <2>1, <2>2, <2>3 DEF NoJob
<1>6. CASE FromStop
  BY <1>0, <1>6 DEF FromStop, Proceed, history, JobRec
<1>7. CASE FromSource
  <2>1. prod' = prod /\ uSource' = [uSource EXCEPT ![job.from] = prod] /\ job.from # prod
        /\ job.to = prod /\ \A k \in Containers : uSource[k] = None
    BY <1>0, <1>7 DEF FromSource, history
  <2>2. \A k \in Containers : uSource'[k] # None => k = job.from /\ uSource'[k] = prod
    BY <1>0, <2>1
  <2>3. job'.at = "period" /\ job'.to = job.to /\ job'.from = job.from
    BY <1>0, <1>7 DEF FromSource, Proceed, JobRec
  <2> QED
    BY <2>1, <2>2, <2>3
<1>8. CASE FromPeriod \/ FromFails \/ FromPeriodFails \/ JobLost
  BY <1>1, <1>8 DEF FromPeriod, FromFails, FromPeriodFails, JobLost, data, history
<1>9. CASE ToFallsThrough
  BY <1>9 DEF ToFallsThrough, Note, Fell
<1> QED
  BY <1>2, <1>3, <1>4, <1>5, <1>6, <1>7, <1>8, <1>9 DEF Switch, SwitchFails

LEMMA RolesStep == RestOK /\ RolesInv /\ [Next]_vars => RolesInv'
<1> SUFFICES ASSUME RestOK, Roles, [Next]_vars, ~Fell' PROVE Roles'
  BY DoubtStays DEF RolesInv, Fell
<1> USE CloneAssumption DEF Roles, Halfway
<1>1. ASSUME UNCHANGED <<uSource, job, prod>> PROVE Roles'
  BY <1>1
<1>2. ASSUME NEW k \in Containers, Switchover(k) PROVE Roles'
  <2>1. /\ job'.at = "unset" /\ job'.to = k /\ job'.from = uSource[k]
        /\ uSource[k] # None /\ UNCHANGED <<uSource, prod>>
    BY <1>2 DEF Switchover, history
  <2>2. uSource[k] = prod /\ k # prod
    BY <2>1
  <2> QED
    BY <2>1, <2>2
<1>3. ASSUME NEW k \in Containers, NEW s \in Settled, GroupStatus(k, s) PROVE Roles'
  <2>1. UNCHANGED <<uSource, prod>> /\ job' \in {job, NoJob, [job EXCEPT !.second = FALSE]}
    BY <1>3 DEF GroupStatus, SecondCanceled, history
  <2>2. job'.at = "none" \/ (job'.at = job.at /\ job'.to = job.to /\ job'.from = job.from)
    BY <2>1 DEF RestOK, JobRec, NoJob
  <2> QED
    BY <2>1, <2>2
<1>4. ASSUME NEW k \in Containers, ComesDue(k) \/ SetPeriod(k) PROVE Roles'
  BY <1>1, <1>4 DEF ComesDue, SetPeriod
<1>5. ASSUME NEW a \in Agents, NEW n \in Nodes, Sync(a) \/ Fault(a) \/ Start(a, n) PROVE Roles'
  BY <1>1, <1>5, AgentLeaves
<1>6. CASE UNCHANGED vars
  BY <1>1, <1>6 DEF vars, data, history
<1> QED
  BY <1>2, <1>3, <1>4, <1>5, <1>6, RolesSwitch DEF Next, Page, ConfirmSwitchover, GroupSwitchover

-----------------------------------------------------------------------------
(* No clone sync that may still copy has the container in use.              *)

LEMMA FreshInit == Init => FreshInv
  BY CloneAssumption DEF Init, FreshInv, EraOrder, AllFresh, FreshAgent, Idle

LEMMA EraStep == IndType /\ EraOrder /\ [Next]_vars => EraOrder'
<1> SUFFICES ASSUME AgentOK, RestOK, EraOrder, [Next]_vars PROVE EraOrder'
  BY DEF IndType
<1>1. era \in Int /\ \A a \in Agents : agent[a] \in AgentRec /\ agent[a].era \in Int
  BY DEF RestOK, AgentOK, AgentRec
<1>2. ASSUME UNCHANGED agent, era' \in {era, era + 1} PROVE EraOrder'
  BY <1>1, <1>2 DEF EraOrder
<1>3. ASSUME NEW a \in Agents, NEW g \in AgentRec, agent' = [agent EXCEPT ![a] = g], era' = era, g.era <= era
      PROVE  EraOrder'
  BY <1>1, <1>3 DEF EraOrder, AgentOK
<1>4. ASSUME NEW a \in Agents, Sync(a) \/ Fault(a) PROVE EraOrder'
  <2>1. era' = era
    BY <1>4, AgentLeaves, CloneAssumption
  <2>2. CASE Onward(a)
    BY <1>3, <2>1, <2>2 DEF Onward, EraOrder, Idle, RestOK
  <2>3. CASE ReadPeriod(a)
    <3>1. PICK r \in agent[a].rows :
            LET rest == [agent[a] EXCEPT !.rows = @ \ {r}] IN
            \/ agent' = [agent EXCEPT ![a] = [rest EXCEPT !.pc = "date", !.row = r]]
            \/ agent' = [agent EXCEPT ![a] = IF rest.rows = {} THEN Idle ELSE rest]
      BY <2>3 DEF ReadPeriod
    <3> DEFINE rest == [agent[a] EXCEPT !.rows = @ \ {r}]
               date == [rest EXCEPT !.pc = "date", !.row = r]
    <3>2. agent[a] \in AgentRec /\ r \in Rows
      BY <1>1 DEF AgentRec
    <3>3. rest \in AgentRec /\ rest.era = agent[a].era /\ date \in AgentRec /\ date.era = agent[a].era
      BY <3>2 DEF AgentRec, Points
    <3>4. Idle \in AgentRec /\ Idle.era <= era
      BY IdleIsAgent DEF Idle, RestOK
    <3> HIDE DEF rest, date
    <3>5. agent' = [agent EXCEPT ![a] = rest] \/ agent' = [agent EXCEPT ![a] = date]
          \/ agent' = [agent EXCEPT ![a] = Idle]
      BY <3>1 DEF rest, date
    <3> QED
      BY <1>3, <2>1, <3>3, <3>4, <3>5 DEF EraOrder
  <2> QED
    BY <1>4, <2>2, <2>3, AgentOnward DEF Sync
<1>5. ASSUME NEW a \in Agents, NEW n \in Nodes, Start(a, n) PROVE EraOrder'
  <2>1. era' = era /\ \A b \in Agents : b # a => agent'[b] = agent[b]
    BY <1>5 DEF Start, history, AgentOK
  <2>2. agent'[a].era = era
    BY <1>5 DEF Start, AgentOK, Idle
  <2> QED
    BY <1>1, <2>1, <2>2 DEF EraOrder
<1>6. ASSUME NEW k \in Containers, Page(k) PROVE EraOrder'
  BY <1>2, <1>6, PageLeaves
<1>7. CASE Switch \/ SwitchFails
  <2>1. era' \in {era, era + 1}
    BY <1>7 DEF Switch, SwitchFails, ToUnset, ToStart, ToDone, FromStop, FromSource, FromPeriod, ToFails,
       ToFallsThrough, FromFails, FromPeriodFails, JobLost, history
  <2> QED
    BY <1>2, <1>7, <2>1, SwitchLeaves
<1>8. CASE UNCHANGED vars
  BY <1>2, <1>8 DEF vars, history
<1> QED
  BY <1>4, <1>5, <1>6, <1>7, <1>8 DEF Next

LEMMA FreshStep == IndType /\ RolesInv /\ FreshInv /\ [Next]_vars => FreshInv'
<1> SUFFICES ASSUME IndType, Roles, EraOrder, AllFresh, [Next]_vars, ~Fell' PROVE AllFresh'
  BY EraStep, DoubtStays DEF FreshInv, RolesInv, Fell, AllFresh
<1>1. AgentOK /\ RestOK /\ AgentOK' /\ RestOK'
  BY TypeStep DEF IndType
<1>2. \A a \in Agents : agent[a].era <= era /\ FreshAgent(agent[a])
  BY DEF EraOrder, AllFresh
<1>3. era \in Nat /\ era' \in Nat
  BY <1>1 DEF RestOK
<1>4. ASSUME NEW a \in Agents, NEW g \in AgentRec, agent' = [agent EXCEPT ![a] = g],
             UNCHANGED <<job, prod, era>>, FreshAgent(g)
      PROVE  AllFresh'
  BY <1>1, <1>2, <1>4 DEF AgentOK, FreshAgent, AllFresh
<1>5. Idle.era <= era /\ FreshAgent(Idle)
  BY <1>3 DEF Idle, FreshAgent
<1>6. ASSUME NEW a \in Agents, Sync(a) \/ Fault(a)
      PROVE  AllFresh'
  <2>1. UNCHANGED <<job, prod, era>>
    BY <1>6, AgentLeaves, CloneAssumption
  <2>2. CASE Onward(a)
    BY <1>2, <1>4, <1>5, <2>1, <2>2 DEF Onward, FreshAgent
  <2>3. CASE ReadPeriod(a)
    <3>1. PICK r \in agent[a].rows :
            LET rest == [agent[a] EXCEPT !.rows = @ \ {r}] IN
            \/ agent' = [agent EXCEPT ![a] = [rest EXCEPT !.pc = "date", !.row = r]]
            \/ agent' = [agent EXCEPT ![a] = IF rest.rows = {} THEN Idle ELSE rest]
      BY <2>3 DEF ReadPeriod
    <3> DEFINE rest == [agent[a] EXCEPT !.rows = @ \ {r}]
               date == [rest EXCEPT !.pc = "date", !.row = r]
    <3>2. agent[a] \in AgentRec /\ agent[a].pc = "loop" /\ r \in Rows
      BY <1>1, <2>3 DEF AgentOK, AgentRec, ReadPeriod
    <3>3. /\ rest \in AgentRec /\ rest.pc = "loop" /\ rest.era = agent[a].era
          /\ rest.rows \subseteq agent[a].rows
      BY <3>2 DEF AgentRec
    <3>4. /\ date \in AgentRec /\ date.pc = "date" /\ date.era = agent[a].era
          /\ date.rows \subseteq agent[a].rows /\ date.row = r
      BY <3>2 DEF AgentRec, Points
    <3>5. (rest.era <= era /\ FreshAgent(rest)) /\ (date.era <= era /\ FreshAgent(date))
      BY <1>2, <3>2, <3>3, <3>4 DEF FreshAgent
    <3> HIDE DEF rest, date
    <3>6. agent' = [agent EXCEPT ![a] = rest] \/ agent' = [agent EXCEPT ![a] = date]
          \/ agent' = [agent EXCEPT ![a] = Idle]
      BY <3>1 DEF rest, date
    <3> QED
      BY <1>4, <1>5, <2>1, <3>3, <3>4, <3>5, <3>6, IdleIsAgent
  <2> QED
    BY <1>1, <1>6, <2>2, <2>3, AgentOnward DEF Sync
<1>7. ASSUME NEW a \in Agents, NEW n \in Nodes, Start(a, n)
      PROVE  AllFresh'
  <2> DEFINE g == [Idle EXCEPT !.pc = "loop", !.rows = Selected(n), !.era = era]
  <2>1. agent' = [agent EXCEPT ![a] = g] /\ UNCHANGED <<job, prod, era>> /\ Selected(n) # {}
    BY <1>7 DEF Start, history
  <2>2. \A r \in Selected(n) : r.clone \in Containers /\ uSource[r.clone] # None
    BY DEF Selected
  <2>3. job.at \notin Halfway /\ \A r \in Selected(n) : r.clone # prod
    BY <2>1, <2>2 DEF Roles
  <2>4. Selected(n) \subseteq Rows
    BY <1>1 DEF RestOK, Selected, Rows, Sources, Running
  <2>5. g \in AgentRec /\ g.era = era /\ g.pc = "loop" /\ g.rows = Selected(n)
    BY <1>1, <2>4, CloneAssumption DEF RestOK, Idle, AgentRec, Points, Dates, NoRow
  <2>6. FreshAgent(g) /\ g.era <= era
    BY <1>3, <2>3, <2>5 DEF FreshAgent
  <2>7. g \in AgentRec /\ agent' = [agent EXCEPT ![a] = g] /\ UNCHANGED <<job, prod, era>>
    BY <2>1, <2>5
  <2> HIDE DEF g
  <2> QED
    BY <1>4, <2>6, <2>7
<1>8. ASSUME UNCHANGED <<agent, prod, era>>, job'.at \in Halfway => job.at \in Halfway
      PROVE  AllFresh'
  BY <1>2, <1>8 DEF FreshAgent, AllFresh
<1>9. CASE ToUnset
  <2>1. UNCHANGED agent /\ era' = era + 1
    BY <1>9 DEF ToUnset
  <2>2. \A b \in Agents : agent[b].era \in Int /\ agent[b].era <= era
    BY <1>1, <1>2 DEF AgentOK, AgentRec
  <2> QED
    BY <1>3, <2>1, <2>2 DEF FreshAgent, AllFresh
<1>10. CASE ToDone
  <2>1. UNCHANGED <<agent, era>> /\ job.at \in Halfway
    BY <1>10 DEF ToDone, Halfway
  <2> QED
    BY <1>2, <2>1 DEF FreshAgent, AllFresh
<1>11. CASE ToStart \/ FromStop
  <2>1. UNCHANGED <<agent, prod, era>> /\ job.at \in Halfway
    BY <1>11 DEF ToStart, FromStop, Halfway, history
  <2> QED
    BY <1>8, <2>1
<1>12. CASE ToFails \/ ToFallsThrough \/ FromSource \/ FromPeriod \/ FromFails \/ FromPeriodFails \/ JobLost
  <2>1. UNCHANGED <<agent, prod, era>> /\ (job' = job \/ job'.at \in {"none", "period"})
    BY <1>1, <1>12 DEF RestOK, JobRec, ToFails, ToFallsThrough, FromSource, FromPeriod, FromFails,
       FromPeriodFails, JobLost, Proceed, NoJob, history
  <2> QED
    BY <1>8, <2>1 DEF Halfway
<1>13. ASSUME NEW k \in Containers, Page(k) PROVE AllFresh'
  <2>1. UNCHANGED <<agent, prod, era>>
    BY <1>13, PageLeaves
  <2>2. job'.at \in {job.at, "none", "unset"}
    BY <1>1, <1>13 DEF Page, ComesDue, SetPeriod, ConfirmSwitchover, GroupSwitchover, Switchover, GroupStatus,
       SecondCanceled, NoJob, RestOK, JobRec
  <2> QED
    BY <1>8, <2>1, <2>2 DEF Halfway
<1>14. CASE UNCHANGED vars
  BY <1>8, <1>14 DEF vars, history
<1> QED
  BY <1>6, <1>7, <1>9, <1>10, <1>11, <1>12, <1>13, <1>14 DEF Next, Switch, SwitchFails

(* What makes every state good: types, roles, and what invocations hold.    *)
IInv == IndType /\ RolesInv /\ FreshInv

LEMMA AlwaysIInv == Spec => []IInv
<1>1. Init => IInv
  BY TypeInit, RolesInit, FreshInit DEF IInv
<1>2. IInv /\ [Next]_vars => IInv'
  BY TypeStep, RolesStep, FreshStep DEF IInv, IndType
<1> QED
  BY <1>1, <1>2, PTL DEF Spec

(* FailoverTo and FailoverFrom, one step at a time, while invocations of    *)
(* ProcessCloneSyncJob run with what they selected before: no interleaving  *)
(* lets one that began after the last switchover did copy over the          *)
(* container in use, until a FailoverTo has fallen through.                  *)
THEOREM ProductionIsSafe == Spec => NotIntoProduction
<1>1. ASSUME IInv, NEW a \in Agents, Copies(a), MyClone(a) = prod
      PROVE  Stale(a) \/ Fell
  <2>1. agent[a].era \in Int /\ era \in Int /\ agent[a].era <= era
    BY <1>1 DEF IInv, IndType, AgentOK, AgentRec, RestOK, FreshInv, EraOrder
  <2>2. ~Fell => agent[a].era # era
    BY <1>1 DEF IInv, FreshInv, AllFresh, FreshAgent, Copies, At, MyClone
  <2> QED
    BY <2>1, <2>2 DEF Stale
<1>2. IInv /\ [Next]_vars =>
        [\A a \in Agents : Copies(a) /\ MyClone(a) = prod => Stale(a) \/ "fallthrough" \in doubt]_vars
  BY <1>1 DEF Fell
<1> QED
  BY <1>2, AlwaysIInv, PTL DEF Spec, NotIntoProduction

-----------------------------------------------------------------------------
(* No clone sync that may still copy has a source of before.                *)

AllKept ==
    /\ \A k \in Containers : kept[k] => cuSyncPeriod[k] = "0"
    /\ \A a \in Agents : KeptAgent(agent[a])

LEMMA KeptInit == Init => KeptInv
  BY DEF Init, KeptInv, KeptAgent, Idle

LEMMA KeptStep == IInv /\ KeptInv /\ [Next]_vars => KeptInv'
<1> SUFFICES ASSUME IndType, FreshInv, AllKept, ~Unkept, [Next]_vars, ~Unkept' PROVE AllKept'
  BY DoubtStays DEF IInv, KeptInv, AllKept, Unkept
<1>0. ~Fell /\ "window" \notin doubt'
  BY DEF Unkept, Fell
<1>1. AgentOK /\ RestOK
  BY DEF IndType
<1>2. \A k \in Containers : kept[k] => cuSyncPeriod[k] = "0"
  BY DEF AllKept
<1>3. \A a \in Agents : KeptAgent(agent[a])
  BY DEF AllKept
<1>4. ASSUME NEW a \in Agents, NEW g \in AgentRec, agent' = [agent EXCEPT ![a] = g],
             UNCHANGED <<cuSyncPeriod, job, era, kept>>, KeptAgent(g)
      PROVE  AllKept'
  BY <1>1, <1>2, <1>3, <1>4 DEF AgentOK, KeptAgent, AllKept
<1>5. KeptAgent(Idle)
  BY DEF Idle, KeptAgent
<1>6. ASSUME NEW a \in Agents, Sync(a) \/ Fault(a) PROVE AllKept'
  <2>1. UNCHANGED <<cuSyncPeriod, job, era, kept>>
    BY <1>6, AgentLeaves, CloneAssumption
  <2>2. CASE Onward(a)
    BY <1>3, <1>4, <1>5, <2>1, <2>2 DEF Onward, KeptAgent
  <2>3. CASE ReadPeriod(a)
    <3>1. PICK r \in agent[a].rows :
            LET rest == [agent[a] EXCEPT !.rows = @ \ {r}] IN
            \/ /\ agent' = [agent EXCEPT ![a] = [rest EXCEPT !.pc = "date", !.row = r]]
               /\ cuSyncPeriod[r.clone] # "0"
               /\ job.at = "period" /\ job.from = r.clone => Note("window")
            \/ agent' = [agent EXCEPT ![a] = IF rest.rows = {} THEN Idle ELSE rest]
      BY <2>3 DEF ReadPeriod, HasPeriod
    <3> DEFINE rest == [agent[a] EXCEPT !.rows = @ \ {r}]
               date == [rest EXCEPT !.pc = "date", !.row = r]
    <3>2. agent[a] \in AgentRec /\ agent[a].pc = "loop" /\ r \in Rows /\ r.clone \in Containers
      BY <1>1, <2>3 DEF AgentOK, AgentRec, ReadPeriod, Rows
    <3>3. rest \in AgentRec /\ rest.pc = "loop"
      BY <3>2 DEF AgentRec
    <3>4. date \in AgentRec /\ date.row = r
      BY <3>2 DEF AgentRec, Points
    <3>5. KeptAgent(rest)
      BY <3>3 DEF KeptAgent
    <3> HIDE DEF rest, date
    <3>6. CASE agent' = [agent EXCEPT ![a] = rest] \/ agent' = [agent EXCEPT ![a] = Idle]
      BY <1>4, <1>5, <2>1, <3>3, <3>5, <3>6, IdleIsAgent
    <3>7. CASE /\ agent' = [agent EXCEPT ![a] = date]
               /\ cuSyncPeriod[r.clone] # "0"
               /\ job.at = "period" /\ job.from = r.clone => Note("window")
      <4>1. KeptAgent(date)
        BY <1>0, <1>2, <3>2, <3>4, <3>7 DEF KeptAgent, Note
      <4> QED
        BY <1>4, <2>1, <3>4, <3>7, <4>1
    <3> QED
      BY <3>1, <3>6, <3>7 DEF rest, date
  <2> QED
    BY <1>1, <1>6, <2>2, <2>3, AgentOnward DEF Sync
<1>7. ASSUME NEW a \in Agents, NEW n \in Nodes, Start(a, n) PROVE AllKept'
  <2> DEFINE g == [Idle EXCEPT !.pc = "loop", !.rows = Selected(n), !.era = era]
  <2>1. agent' = [agent EXCEPT ![a] = g] /\ UNCHANGED <<cuSyncPeriod, job, era, kept>>
    BY <1>7 DEF Start, data, history
  <2>2. g.pc = "loop"
    BY DEF Idle
  <2> HIDE DEF g
  <2> QED
    BY <1>1, <1>2, <1>3, <2>1, <2>2 DEF AgentOK, KeptAgent, AllKept
<1>8. ASSUME UNCHANGED <<agent, cuSyncPeriod, era, kept>>,
             \/ job'.at # "period"
             \/ job'.at = job.at /\ job'.from = job.from
      PROVE  AllKept'
  BY <1>2, <1>3, <1>8 DEF KeptAgent, AllKept
<1>9. ASSUME NEW k \in Containers, SetPeriod(k) PROVE AllKept'
  <2>1. UNCHANGED <<agent, job, era>>
    BY <1>9 DEF SetPeriod
  <2>2. kept' = [kept EXCEPT ![k] = FALSE] /\ cuSyncPeriod' = [cuSyncPeriod EXCEPT ![k] = "set"]
    BY <1>9 DEF SetPeriod
  <2>3. \A l \in Containers : kept'[l] => kept[l] /\ cuSyncPeriod'[l] = cuSyncPeriod[l]
    BY <1>1, <2>2 DEF RestOK
  <2>4. ASSUME NEW a \in Agents PROVE KeptAgent(agent[a])'
    <3>1. agent[a].pc \notin {"idle", "loop"} => agent[a].row.clone \in Containers
      BY <1>1 DEF AgentOK, HasRow, Rows
    <3> QED
      BY <1>3, <2>1, <2>3, <3>1 DEF KeptAgent
  <2> QED
    BY <1>2, <2>3, <2>4 DEF AllKept
<1>10. CASE ToUnset
  <2>1. UNCHANGED <<agent, cuSyncPeriod, kept>> /\ era' = era + 1
    BY <1>10 DEF ToUnset
  <2>2. \A a \in Agents : agent[a].era \in Int /\ agent[a].era <= era /\ era \in Int
    BY <1>1 DEF AgentOK, AgentRec, RestOK, FreshInv, EraOrder
  <2> QED
    BY <1>2, <2>1, <2>2 DEF KeptAgent, AllKept
<1>11. CASE FromSource
  <2>1. UNCHANGED <<agent, cuSyncPeriod, era, kept>> /\ job.at \in Halfway
    BY <1>11 DEF FromSource, history, Halfway
  <2> QED
    BY <1>0, <1>2, <2>1 DEF FreshInv, AllFresh, FreshAgent, KeptAgent, AllKept
<1>12. CASE FromPeriod
  <2>1. UNCHANGED <<agent, era>> /\ job.at = "period" /\ job'.at = "none" /\ job.from \in Containers
        /\ cuSyncPeriod' = [cuSyncPeriod EXCEPT ![job.from] = "0"]
        /\ kept' = [kept EXCEPT ![job.from] = TRUE]
    BY <1>1, <1>12 DEF FromPeriod, NoJob, RestOK
  <2>2. \A k \in Containers : kept'[k] => cuSyncPeriod'[k] = "0"
    BY <1>1, <1>2, <2>1 DEF RestOK
  <2>3. ASSUME NEW a \in Agents PROVE KeptAgent(agent[a])'
    <3>1. agent[a].pc \notin {"idle", "loop"} => agent[a].row.clone \in Containers
      BY <1>1 DEF AgentOK, HasRow, Rows
    <3> QED
      BY <1>1, <1>3, <2>1, <3>1 DEF KeptAgent, RestOK
  <2> QED
    BY <2>2, <2>3 DEF AllKept
<1>13. CASE FromPeriodFails \/ ToFallsThrough
  BY <1>13 DEF FromPeriodFails, ToFallsThrough, Note, Unkept
<1>14. CASE ToStart \/ ToDone \/ ToFails \/ FromStop \/ FromFails \/ JobLost
  <2>1. UNCHANGED <<agent, cuSyncPeriod, era, kept>> /\ job'.at # "period"
    BY <1>1, <1>14 DEF RestOK, JobRec, ToStart, ToDone, ToFails, FromStop, FromFails, JobLost, Proceed, NoJob,
       data, history
  <2> QED
    BY <1>8, <2>1
<1>15. ASSUME NEW k \in Containers, Page(k), ~SetPeriod(k) PROVE AllKept'
  <2>1. UNCHANGED <<agent, cuSyncPeriod, era, kept>>
    BY <1>15 DEF Page, ComesDue, ConfirmSwitchover, GroupSwitchover, Switchover, GroupStatus, history
  <2>2. \/ job'.at # "period"
        \/ job'.at = job.at /\ job'.from = job.from
    BY <1>1, <1>15 DEF Page, ComesDue, ConfirmSwitchover, GroupSwitchover, Switchover, GroupStatus,
       SecondCanceled, NoJob, RestOK, JobRec
  <2> QED
    BY <1>8, <2>1, <2>2
<1>16. CASE UNCHANGED vars
  BY <1>8, <1>16 DEF vars, data, history
<1> QED
  BY <1>6, <1>7, <1>9, <1>10, <1>11, <1>12, <1>13, <1>14, <1>15, <1>16 DEF Next, Switch, SwitchFails

(* What FailoverFrom promises with "To play it safe": once it is done,      *)
(* nothing is copied over the old source until the administrator sets its   *)
(* period, but by an invocation of before the switchover; unless one read   *)
(* the period between the last two steps, the UPDATE of the period failed,  *)
(* or a FailoverTo fell through.                                            *)
THEOREM OldSourceIsSafe == Spec => SafeKeeping
<1>1. Init => KeptInv
  BY KeptInit
<1>2. IInv /\ KeptInv /\ [Next]_vars => KeptInv'
  BY KeptStep
<1>3. ASSUME IInv, KeptInv, NEW a \in Agents, Copies(a), kept[MyClone(a)]
      PROVE  Stale(a) \/ Unkept
  <2>1. agent[a].era \in Int /\ era \in Int /\ agent[a].era <= era
    BY <1>3 DEF IInv, IndType, AgentOK, AgentRec, RestOK, FreshInv, EraOrder
  <2>2. ~Unkept => agent[a].era # era
    BY <1>3 DEF KeptInv, KeptAgent, Copies, At, MyClone
  <2> QED
    BY <2>1, <2>2 DEF Stale
<1>4. IInv /\ KeptInv /\ [Next]_vars =>
        [\A a \in Agents : Copies(a) /\ kept[MyClone(a)] =>
             Stale(a) \/ doubt \cap {"window", "period", "fallthrough"} # {}]_vars
  BY <1>3 DEF Unkept
<1> QED
  BY <1>1, <1>2, <1>4, AlwaysIInv, PTL DEF Spec, SafeKeeping

-----------------------------------------------------------------------------
(* A fresh date tells of a copy.                                            *)

InHands == {"config", "script", "restore"}

Excused == doubt \cap {"config", "exit", "overlap", "restore"} # {}

LEMMA StillInProgress ==
  ASSUME AgentOK, NEW a \in Agents, NEW k \in Containers, InProgress(k),
         \A b \in Agents : b # a => agent'[b] = agent[b],
         agent[a].pc \in InHands /\ MyClone(a) = k =>
             agent'[a].pc \in InHands /\ agent'[a].row = agent[a].row
  PROVE  InProgress(k)'
<1>1. PICK b \in Agents : agent[b].pc \in InHands /\ MyClone(b) = k
  BY DEF InProgress, InHands
<1>2. agent'[b].pc \in InHands /\ agent'[b].row = agent[b].row
  BY <1>1
<1> QED
  BY <1>1, <1>2 DEF InProgress, InHands, MyClone

(* A step of an invocation that sets no date, and drops no clone of which   *)
(* the date is fresh, keeps it so.                                          *)
LEMMA DateKept ==
  ASSUME AgentOK, DateTellsOfCopy, NEW a \in Agents,
         \A b \in Agents : b # a => agent'[b] = agent[b],
         doubt \subseteq doubt', synced' = synced,
         \A k \in Containers : uBackupDate'[k] = "fresh" =>
             \/ Excused'
             \/ /\ uBackupDate[k] = "fresh"
                /\ agent[a].pc \in InHands /\ MyClone(a) = k =>
                       agent'[a].pc \in InHands /\ agent'[a].row = agent[a].row
  PROVE  DateTellsOfCopy'
<1> SUFFICES ASSUME NEW k \in Containers, uBackupDate'[k] = "fresh", ~Excused'
             PROVE  synced'[k] \/ InProgress(k)'
  BY DEF DateTellsOfCopy, Excused
<1>1. uBackupDate[k] = "fresh" /\ ~Excused
  BY DEF Excused
<1>2. synced[k] \/ InProgress(k)
  BY <1>1 DEF DateTellsOfCopy, Excused
<1> QED
  BY <1>2, StillInProgress

LEMMA DateStep == IndType /\ DateTellsOfCopy /\ [Next]_vars => DateTellsOfCopy'
<1> SUFFICES ASSUME AgentOK, RestOK, DateTellsOfCopy, [Next]_vars PROVE DateTellsOfCopy'
  BY DEF IndType
<1>1. uBackupDate \in [Containers -> Dates] /\ synced \in [Containers -> BOOLEAN]
  BY DEF RestOK
<1>2. ASSUME NEW a \in Agents PROVE agent[a] \in AgentRec /\ HasRow(agent[a])
  BY DEF AgentOK
<1>3. ASSUME UNCHANGED <<agent, uBackupDate, synced, doubt>> PROVE DateTellsOfCopy'
  BY <1>3 DEF DateTellsOfCopy, InProgress, MyClone
<1>4. ASSUME NEW a \in Agents, NEW n \in Nodes,
             ReadPeriod(a) \/ ReadDate(a) \/ ReadLast(a) \/ TooBusy(a) \/ Start(a, n)
      PROVE  DateTellsOfCopy'
  <2>1. agent[a].pc \notin InHands /\ \A b \in Agents : b # a => agent'[b] = agent[b]
    BY <1>4 DEF ReadPeriod, ReadDate, ReadLast, TooBusy, Start, At, Done, GoTo, InHands, AgentOK
  <2>2. UNCHANGED <<uBackupDate, synced>> /\ doubt \subseteq doubt'
    BY <1>4 DEF ReadPeriod, ReadDate, ReadLast, TooBusy, Start, Note, data, history
  <2> QED
    BY <2>1, <2>2, DateKept
<1>5. ASSUME NEW a \in Agents, MoveDate(a) PROVE DateTellsOfCopy'
  <2>1. agent[a].pc \notin InHands /\ \A b \in Agents : b # a => agent'[b] = agent[b]
    BY <1>5 DEF MoveDate, At, Done, InHands, AgentOK
  <2>2. uBackupDate' = [uBackupDate EXCEPT ![MyClone(a)] = "moved"] /\ UNCHANGED <<synced, doubt>>
    BY <1>5 DEF MoveDate, history
  <2>3. \A k \in Containers : uBackupDate'[k] = "fresh" => uBackupDate[k] = "fresh"
    BY <1>1, <2>2
  <2> QED
    BY <2>1, <2>2, <2>3, DateKept
<1>6. ASSUME NEW a \in Agents, SetDate(a) PROVE DateTellsOfCopy'
  <2>1. agent[a].pc = "set" /\ agent' = [agent EXCEPT ![a].pc = "config"]
    BY <1>6 DEF SetDate, At, GoTo
  <2>2. uBackupDate' = [uBackupDate EXCEPT ![MyClone(a)] = "fresh"] /\ UNCHANGED <<synced, doubt>>
    BY <1>6 DEF SetDate, history
  <2>3. agent'[a].pc = "config" /\ agent'[a].row = agent[a].row
        /\ \A b \in Agents : b # a => agent'[b] = agent[b]
    BY <1>2, <2>1 DEF AgentOK, AgentRec
  <2>4. ASSUME NEW k \in Containers, k = MyClone(a) PROVE InProgress(k)'
    BY <2>3, <2>4 DEF InProgress, MyClone
  <2>5. ASSUME NEW k \in Containers, k # MyClone(a), InProgress(k) PROVE InProgress(k)'
    BY <2>1, <2>3, <2>5, StillInProgress DEF InHands
  <2> QED
    BY <1>1, <2>2, <2>4, <2>5 DEF DateTellsOfCopy
<1>7. ASSUME NEW a \in Agents, StartScript(a) \/ ScriptFails(a) PROVE DateTellsOfCopy'
  <2>1. agent' = [agent EXCEPT ![a].pc = "script"] \/ agent' = [agent EXCEPT ![a].pc = "restore"]
    BY <1>7 DEF StartScript, ScriptFails, GoTo
  <2>2. agent'[a].pc \in InHands /\ agent'[a].row = agent[a].row
        /\ \A b \in Agents : b # a => agent'[b] = agent[b]
    BY <1>2, <2>1 DEF AgentOK, AgentRec, InHands
  <2>3. UNCHANGED <<uBackupDate, synced, doubt>>
    BY <1>7 DEF StartScript, ScriptFails, data, history
  <2> QED
    BY <2>2, <2>3, DateKept
<1>8. ASSUME NEW a \in Agents, ScriptEnds(a) PROVE DateTellsOfCopy'
  <2>1. MyClone(a) \in Containers /\ \A b \in Agents : b # a => agent'[b] = agent[b]
    BY <1>2, <1>8 DEF ScriptEnds, At, Done, AgentOK, HasRow, MyClone, Rows
  <2>2. synced' = [synced EXCEPT ![MyClone(a)] = TRUE] /\ UNCHANGED <<uBackupDate, doubt>>
    BY <1>8 DEF ScriptEnds, data
  <2>3. ASSUME NEW k \in Containers, k # MyClone(a), InProgress(k) PROVE InProgress(k)'
    BY <2>1, <2>3, StillInProgress
  <2> QED
    BY <1>1, <2>1, <2>2, <2>3 DEF DateTellsOfCopy
<1>9. ASSUME NEW a \in Agents, Restore(a) PROVE DateTellsOfCopy'
  <2>1. MyClone(a) \in Containers /\ \A b \in Agents : b # a => agent'[b] = agent[b]
    BY <1>2, <1>9 DEF Restore, At, Done, AgentOK, HasRow, MyClone, Rows
  <2>2. uBackupDate' = [uBackupDate EXCEPT ![MyClone(a)] = agent[a].last] /\ synced' = synced
        /\ doubt \subseteq doubt' /\ (agent[a].last = "fresh" => Excused')
    BY <1>9 DEF Restore, Note, Excused
  <2>3. \A k \in Containers : uBackupDate'[k] = "fresh" =>
          Excused' \/ (uBackupDate[k] = "fresh" /\ k # MyClone(a))
    BY <1>1, <2>1, <2>2
  <2> QED
    BY <2>1, <2>2, <2>3, DateKept
<1>10. ASSUME NEW a \in Agents, Misconfigured(a) \/ RestoreFails(a) \/ Exit(a) PROVE DateTellsOfCopy'
  <2>1. \A b \in Agents : b # a => agent'[b] = agent[b]
    BY <1>10 DEF Misconfigured, RestoreFails, Exit, At, Done, AgentOK
  <2>2. UNCHANGED <<uBackupDate, synced>> /\ doubt \subseteq doubt'
        /\ (agent[a].pc \in InHands => Excused')
    BY <1>10 DEF Misconfigured, RestoreFails, Exit, At, Note, Excused, InHands, data
  <2> QED
    BY <2>1, <2>2, DateKept
<1>11. ASSUME NEW k \in Containers, ComesDue(k) PROVE DateTellsOfCopy'
  BY <1>1, <1>11 DEF ComesDue, DateTellsOfCopy, InProgress, MyClone
<1>12. ASSUME NEW k \in Containers, Page(k), ~ComesDue(k) PROVE DateTellsOfCopy'
  <2>1. UNCHANGED <<agent, uBackupDate, synced, doubt>>
    BY <1>12 DEF Page, SetPeriod, ConfirmSwitchover, GroupSwitchover, Switchover, GroupStatus, history
  <2> QED
    BY <1>3, <2>1
<1>13. CASE Switch \/ SwitchFails
  <2>1. UNCHANGED <<agent, uBackupDate, synced>> /\ doubt \subseteq doubt'
    BY <1>13, SwitchLeaves, DoubtStays
  <2> QED
    BY <2>1 DEF DateTellsOfCopy, InProgress, MyClone
<1>14. CASE UNCHANGED vars
  BY <1>3, <1>14 DEF vars, data, history
<1> QED
  BY <1>3, <1>4, <1>5, <1>6, <1>7, <1>8, <1>9, <1>10, <1>11, <1>12, <1>13, <1>14, CloneAssumption
     DEF Next, Sync, Fault

(* ProcessCloneSyncJob writes the new uBackupDate before the script and     *)
(* puts the old one back when it fails: a date that says the clone is fresh *)
(* is followed by a copy, unless the configuration, an exit or an UPDATE    *)
(* that fails has lost it, or a failing script has put back the date of     *)
(* another invocation's copy.                                               *)
THEOREM FreshDateIsTold == Spec => []DateTellsOfCopy
<1>1. Init => DateTellsOfCopy
  BY DEF Init, DateTellsOfCopy
<1>2. IInv /\ DateTellsOfCopy /\ [Next]_vars => DateTellsOfCopy'
  BY DateStep DEF IInv
<1> QED
  BY <1>1, <1>2, AlwaysIInv, PTL DEF Spec
=============================================================================
