--------------------------- MODULE JobQueueProofs ---------------------------
(***************************************************************************)
(* Proofs about the job queue, for every set of nodes, overlapping         *)
(* invocations, jobs and LIMIT.                                            *)
(***************************************************************************)
EXTENDS JobQueue, TLAPS

USE JobQueueAssumption DEF JobIds

\* The ways out of the process
Leave(a) == \/ StartupFails(a) \/ LockBusy(a) \/ SelectFails(a) \/ DieLocked(a)
            \/ MasterOverload(a) \/ Finish(a)

LEMMA NoRowType == NoRow \in JobRow
  BY DEF NoRow, JobRow, JobNames, JobStatus

(* A row stays a row when its status or its due time changes. *)
LEMMA RowUpdate ==
  ASSUME NEW r \in JobRow, NEW s \in JobStatus
  PROVE  /\ [r EXCEPT !.uJobStatus = s] \in JobRow
         /\ [r EXCEPT !.uJobStatus = s].uJobStatus = s
         /\ [r EXCEPT !.uJobStatus = s].uNode = r.uNode
         /\ [r EXCEPT !.uJobStatus = s].cJobName = r.cJobName
         /\ [r EXCEPT !.due = TRUE] \in JobRow
         /\ [r EXCEPT !.due = TRUE].uJobStatus = r.uJobStatus
         /\ [r EXCEPT !.due = TRUE].uNode = r.uNode
  BY DEF JobRow

(* Changing the status of one row keeps the table a table and leaves every *)
(* other column and row alone.                                             *)
LEMMA SetStatusType ==
  ASSUME TypeOK, NEW j \in JobIds, NEW s \in JobStatus, SetStatus(j, s)
  PROVE  /\ tJob' \in [JobIds -> JobRow]
         /\ tJob'[j].uJobStatus = s
         /\ \A i \in JobIds : /\ i # j => tJob'[i] = tJob[i]
                              /\ tJob'[i].uNode = tJob[i].uNode
                              /\ tJob'[i].cJobName = tJob[i].cJobName
<1> DEFINE r == [tJob[j] EXCEPT !.uJobStatus = s]
<1>1. tJob[j] \in JobRow
  BY DEF TypeOK
<1>2. /\ r \in JobRow /\ r.uJobStatus = s
      /\ r.uNode = tJob[j].uNode /\ r.cJobName = tJob[j].cJobName
  BY <1>1, RowUpdate
<1>3. tJob' = [tJob EXCEPT ![j] = r]
  BY DEF SetStatus
<1> HIDE DEF r
<1> QED BY <1>2, <1>3 DEF TypeOK

LEMMA InitType == Init => TypeOK
  BY NoRowType DEF Init, TypeOK, Points

LEMMA NextType ==
  ASSUME TypeOK, [Next]_vars
  PROVE  TypeOK'
<1> USE DEF TypeOK
<1>1. ASSUME NEW j \in JobIds, NEW n \in Nodes \cup {AllNodes}, NEW c \in Containers,
             NEW name \in Names, InsertJob(j, n, c, name)
      PROVE  TypeOK'
  <2>1. [uNode |-> n, uContainer |-> c, cJobName |-> name,
         uJobStatus |-> "WAITING", due |-> FALSE] \in JobRow
    BY DEF JobRow, JobStatus
  <2> QED BY <1>1, <2>1 DEF InsertJob
<1>2. ASSUME NEW j \in JobIds, JobDue(j) PROVE TypeOK'
  <2> DEFINE r == [tJob[j] EXCEPT !.due = TRUE]
  <2>1. tJob[j] \in JobRow
    OBVIOUS
  <2>3. r \in JobRow
    BY <2>1, RowUpdate DEF JobStatus
  <2>2. tJob' = [tJob EXCEPT ![j] = r]
    BY <1>2 DEF JobDue
  <2> HIDE DEF r
  <2>4. tJob' \in [JobIds -> JobRow]
    BY <2>2, <2>3
  <2>5. UNCHANGED <<load, lock, pc, rows, cur>>
    BY <1>2 DEF JobDue
  <2> QED BY <2>4, <2>5
<1>3. ASSUME NEW n \in Nodes, NEW c \in Containers, CancelContainerJob(n, c) PROVE TypeOK'
  <2>1. ASSUME NEW j \in JobIds PROVE [tJob[j] EXCEPT !.uJobStatus = "CANCELED"] \in JobRow
    <3>1. tJob[j] \in JobRow
      OBVIOUS
    <3>2. "CANCELED" \in JobStatus
      BY DEF JobStatus
    <3> QED BY <3>1, <3>2, RowUpdate
  <2>2. tJob' \in [JobIds -> JobRow]
    BY <1>3, <2>1 DEF CancelContainerJob
  <2>3. UNCHANGED <<load, lock, pc, rows, cur>>
    BY <1>3 DEF CancelContainerJob
  <2> QED BY <2>2, <2>3
<1>4. ASSUME NEW j \in JobIds, GroupCancel(j) PROVE TypeOK'
  BY <1>4, SetStatusType DEF GroupCancel, JobStatus
<1>5. ASSUME NEW n \in Nodes, NEW band \in Bands, LoadChanges(n, band) PROVE TypeOK'
  BY <1>5 DEF LoadChanges
<1>6. ASSUME NEW a \in Agents, NextJob(a) PROVE TypeOK'
  <2>1. PICK j \in rows[a] : /\ rows' = [rows EXCEPT ![a] = @ \ {j}]
                             /\ cur' = [cur EXCEPT ![a] = j]
                             /\ SetStatus(j, "RUNNING") \/ UNCHANGED tJob
                             /\ Goto(a, IF load[NodeOf[a]] = "high" /\ tJob[j].cJobName # "priority"
                                        THEN "postpone" ELSE "run")
    BY <1>6 DEF NextJob
  <2>2. j \in JobIds
    OBVIOUS
  <2>3. tJob' \in [JobIds -> JobRow]
    BY <2>1, <2>2, SetStatusType DEF JobStatus
  <2> QED BY <1>6, <2>1, <2>2, <2>3 DEF NextJob, Goto, Points, LockedPoints
<1>7. ASSUME NEW a \in Agents, PostponeJob(a) PROVE TypeOK'
  <2>1. cur[a] \in JobIds
    BY <1>7 DEF PostponeJob
  <2> QED BY <1>7, <2>1, SetStatusType DEF PostponeJob, Goto, Points, LockedPoints, JobStatus
<1>8. ASSUME NEW a \in Agents, NEW s \in {"DONEOK", "ERROR", "WAITING"}, EndJob(a, s) PROVE TypeOK'
  <2>1. cur[a] \in JobIds
    BY <1>8 DEF EndJob
  <2> QED BY <1>8, <2>1, SetStatusType DEF EndJob, Goto, Points, LockedPoints, JobStatus
<1>13. ASSUME NEW a \in Agents, NEW s \in {"DONEOK", "ERROR"}, ReportStatus(a, s) PROVE TypeOK'
  <2>1. cur[a] \in JobIds
    BY <1>13 DEF ReportStatus
  <2> QED BY <1>13, <2>1, SetStatusType DEF ReportStatus, Goto, Points, LockedPoints, JobStatus
<1>14. ASSUME NEW a \in Agents, Return(a) PROVE TypeOK'
  BY <1>14 DEF Return, Goto, Points, LockedPoints
<1>9. ASSUME NEW a \in Agents, CronStart(a) \/ TakeLock(a) PROVE TypeOK'
  BY <1>9 DEF CronStart, TakeLock, Goto, Points, LockedPoints
<1>11. ASSUME NEW a \in Agents, SelectJobs(a) PROVE TypeOK'
  <2>1. FirstRows(Eligible(NodeOf[a])) \subseteq JobIds
    BY DEF FirstRows, Eligible
  <2> QED BY <1>11, <2>1 DEF SelectJobs, Goto, Points, LockedPoints
<1>12. ASSUME NEW a \in Agents, Leave(a) PROVE TypeOK'
  <2>1. /\ pc' = [pc EXCEPT ![a] = "idle"] /\ rows' = [rows EXCEPT ![a] = {}]
        /\ cur' = [cur EXCEPT ![a] = 0] /\ UNCHANGED <<tJob, load>>
    BY <1>12 DEF Leave, StartupFails, LockBusy, SelectFails, DieLocked, MasterOverload,
       Finish, Exit, Goto
  <2>2. lock' \in [Nodes -> BOOLEAN]
    BY <1>12 DEF Leave, StartupFails, LockBusy, SelectFails, DieLocked, MasterOverload,
       Finish, RmdirLock
  <2> QED BY <2>1, <2>2 DEF Points
<1>10. CASE UNCHANGED vars
  BY <1>10 DEF vars
<1> QED
  BY <1>1, <1>2, <1>3, <1>4, <1>5, <1>6, <1>7, <1>8, <1>9, <1>10,
     <1>11, <1>12, <1>13, <1>14
  DEF Next, Backend, Proceed, Fail, Leave

(* Every variable keeps its type for ever. *)
THEOREM TypeCorrect == Spec => []TypeOK
  BY InitType, NextType, PTL DEF Spec

-----------------------------------------------------------------------------
(***************************** The lock ************************************)

\* An invocation past the mkdir has its node's lock, and has it alone.
LockInv ==
    /\ \A a \in Agents : HasLock(a) => lock[NodeOf[a]]
    /\ OneLoopPerNode

\* A step of an invocation that does not touch the lock keeps it where it
\* was: either side of the mkdir.
LEMMA LockStep ==
  ASSUME TypeOK, LockInv, [Next]_vars
  PROVE  LockInv'
<1> USE DEF TypeOK, LockInv, OneLoopPerNode, HasLock, LockedPoints
<1>1. ASSUME UNCHANGED <<lock, pc>> PROVE LockInv'
  BY <1>1
<1>2. ASSUME NEW a \in Agents, TakeLock(a) PROVE LockInv'
  BY <1>2 DEF TakeLock, Goto
<1>3. ASSUME NEW a \in Agents, Leave(a) PROVE LockInv'
  <2>1. pc' = [pc EXCEPT ![a] = "idle"]
    BY <1>3 DEF Leave, StartupFails, LockBusy, SelectFails, DieLocked, MasterOverload,
       Finish, Exit, Goto
  <2>2. \/ lock' = lock
        \/ HasLock(a) /\ lock' = [lock EXCEPT ![NodeOf[a]] = FALSE]
    BY <1>3 DEF Leave, StartupFails, LockBusy, SelectFails, DieLocked, MasterOverload,
       Finish, RmdirLock
  <2> QED BY <2>1, <2>2
<1>4. ASSUME NEW a \in Agents,
             CronStart(a) \/ SelectJobs(a) \/ NextJob(a) \/ PostponeJob(a) \/ Return(a)
               \/ (\E s \in {"DONEOK", "ERROR", "WAITING"} : EndJob(a, s) \/ ReportStatus(a, s))
      PROVE  LockInv'
  <2>1. lock' = lock
    BY <1>4 DEF CronStart, SelectJobs, NextJob, PostponeJob, EndJob, ReportStatus, Return
  <2>2. /\ pc' = [pc EXCEPT ![a] = pc'[a]]
        /\ HasLock(a)' <=> HasLock(a)
    BY <1>4 DEF CronStart, SelectJobs, NextJob, PostponeJob, EndJob, ReportStatus, Return, Goto
  <2> QED BY <2>1, <2>2
<1>5. ASSUME Backend PROVE UNCHANGED <<lock, pc>>
  BY <1>5 DEF Backend, InsertJob, JobDue, CancelContainerJob, GroupCancel, LoadChanges
<1>6. ASSUME UNCHANGED vars PROVE UNCHANGED <<lock, pc>>
  BY <1>6 DEF vars
<1> QED
  BY <1>1, <1>2, <1>3, <1>4, <1>5, <1>6 DEF Next, Proceed, Fail, Leave

LEMMA LockAlways == Spec => [](TypeOK /\ LockInv)
<1>1. Init => TypeOK /\ LockInv
  BY InitType DEF Init, LockInv, OneLoopPerNode, HasLock, LockedPoints
<1>2. TypeOK /\ LockInv /\ [Next]_vars => (TypeOK /\ LockInv)'
  BY NextType, LockStep
<1> QED BY <1>1, <1>2, PTL DEF Spec

(* Overlapping invocations of one node never are in the main loop together. *)
THEOREM Exclusion == Spec => []OneLoopPerNode
  BY LockAlways, PTL DEF LockInv

\* Only its holder removes a lock, so a leaked one stays.
LEMMA LeakStep ==
  ASSUME TypeOK, LockInv, [Next]_vars, NEW n \in Nodes, Leaked(n)
  PROVE  Leaked(n)'
<1> USE DEF TypeOK, LockInv, OneLoopPerNode, HasLock, LockedPoints, Leaked
<1>1. ASSUME UNCHANGED <<lock, pc>> PROVE Leaked(n)'
  BY <1>1
<1>2. ASSUME NEW a \in Agents, TakeLock(a) PROVE Leaked(n)'
  BY <1>2 DEF TakeLock, Goto
<1>3. ASSUME NEW a \in Agents, Leave(a) PROVE Leaked(n)'
  <2>1. pc' = [pc EXCEPT ![a] = "idle"]
    BY <1>3 DEF Leave, StartupFails, LockBusy, SelectFails, DieLocked, MasterOverload,
       Finish, Exit, Goto
  <2>2. \/ lock' = lock
        \/ HasLock(a) /\ lock' = [lock EXCEPT ![NodeOf[a]] = FALSE]
    BY <1>3 DEF Leave, StartupFails, LockBusy, SelectFails, DieLocked, MasterOverload,
       Finish, RmdirLock
  <2> QED BY <2>1, <2>2
<1>4. ASSUME NEW a \in Agents,
             CronStart(a) \/ SelectJobs(a) \/ NextJob(a) \/ PostponeJob(a) \/ Return(a)
               \/ (\E s \in {"DONEOK", "ERROR", "WAITING"} : EndJob(a, s) \/ ReportStatus(a, s))
      PROVE  Leaked(n)'
  <2>1. lock' = lock
    BY <1>4 DEF CronStart, SelectJobs, NextJob, PostponeJob, EndJob, ReportStatus, Return
  <2>2. /\ pc' = [pc EXCEPT ![a] = pc'[a]]
        /\ HasLock(a)' <=> HasLock(a)
    BY <1>4 DEF CronStart, SelectJobs, NextJob, PostponeJob, EndJob, ReportStatus, Return, Goto
  <2> QED BY <2>1, <2>2
<1>5. ASSUME Backend PROVE UNCHANGED <<lock, pc>>
  BY <1>5 DEF Backend, InsertJob, JobDue, CancelContainerJob, GroupCancel, LoadChanges
<1>6. ASSUME UNCHANGED vars PROVE UNCHANGED <<lock, pc>>
  BY <1>6 DEF vars
<1> QED
  BY <1>1, <1>2, <1>3, <1>4, <1>5, <1>6 DEF Next, Proceed, Fail, Leave

(* A leaked lock is leaked for good: nothing in the code removes it. *)
THEOREM LeakPersists == Spec => LeakIsForEver
<1>1. TypeOK /\ LockInv /\ [Next]_vars => [\A n \in Nodes : Leaked(n) => Leaked(n)']_vars
  BY LeakStep
<1> QED BY <1>1, LockAlways, PTL DEF Spec, LeakIsForEver

-----------------------------------------------------------------------------
(************************ The jobs in an agent's hands *********************)

Held(a, j) == j \in rows[a] \/ cur[a] = j

\* A job an invocation has selected and not reached yet can have been cancelled
\* since, but nothing says it was run before.
HandsInv ==
    /\ \A a \in Agents : ~HasLock(a) \/ pc[a] = "select" => rows[a] = {}
    /\ \A a \in Agents : cur[a] \notin rows[a]
    /\ \A a \in Agents, j \in JobIds : Held(a, j) =>
          /\ NodeOf[a] \in Targets(j)
          /\ tJob[j].uJobStatus # "none"
          /\ Addressed(j) /\ j \in rows[a] => tJob[j].uJobStatus \in {"WAITING", "CANCELED"}

\* An addressed job is in the hands of one invocation at most.
LEMMA OneHolder ==
  ASSUME TypeOK, LockInv, HandsInv, NEW a \in Agents, NEW b \in Agents, NEW j \in JobIds,
         Addressed(j), Held(a, j), Held(b, j)
  PROVE  a = b /\ tJob[j].uNode = NodeOf[a]
<1>1. tJob[j].uNode = NodeOf[a] /\ tJob[j].uNode = NodeOf[b]
  BY DEF HandsInv, Targets, Addressed
<1>2. ASSUME NEW x \in Agents, Held(x, j) PROVE HasLock(x)
  BY <1>2 DEF HandsInv, Held, TypeOK, HasLock, LockedPoints
<1> QED BY <1>1, <1>2 DEF LockInv, OneLoopPerNode

\* What the web backend does to a row: insert it, cancel it, or let it be.
LEMMA BackendRow ==
  ASSUME TypeOK, Backend, NEW i \in JobIds
  PROVE  \/ tJob[i].uJobStatus = "none" /\ tJob'[i].uJobStatus \in {"none", "WAITING"}
         \/ /\ tJob'[i].uNode = tJob[i].uNode
            /\ \/ tJob'[i].uJobStatus = tJob[i].uJobStatus
               \/ /\ tJob[i].uJobStatus \in {"WAITING", "ERROR"}
                  /\ tJob'[i].uJobStatus = "CANCELED"
<1>1. tJob[i] \in JobRow
  BY DEF TypeOK
<1>2. ASSUME NEW j \in JobIds, NEW n \in Nodes \cup {AllNodes}, NEW c \in Containers,
             NEW name \in Names, InsertJob(j, n, c, name)
      PROVE  \/ tJob'[i] = tJob[i]
             \/ tJob[i].uJobStatus = "none" /\ tJob'[i].uJobStatus = "WAITING"
  BY <1>2 DEF InsertJob, TypeOK
<1>3. ASSUME NEW j \in JobIds, JobDue(j)
      PROVE  tJob'[i] = tJob[i] \/ tJob'[i] = [tJob[i] EXCEPT !.due = TRUE]
  BY <1>3 DEF JobDue, TypeOK
<1>4. ASSUME NEW n \in Nodes, NEW c \in Containers, CancelContainerJob(n, c)
      PROVE  \/ tJob'[i] = tJob[i]
             \/ /\ tJob[i].uJobStatus \in {"WAITING", "ERROR"}
                /\ tJob'[i] = [tJob[i] EXCEPT !.uJobStatus = "CANCELED"]
  BY <1>4 DEF CancelContainerJob, CancelSet, Cancelable
<1>5. ASSUME NEW j \in JobIds, GroupCancel(j)
      PROVE  \/ tJob'[i] = tJob[i]
             \/ /\ tJob[i].uJobStatus \in {"WAITING", "ERROR"}
                /\ tJob'[i] = [tJob[i] EXCEPT !.uJobStatus = "CANCELED"]
  BY <1>5 DEF GroupCancel, Cancelable, SetStatus, TypeOK
<1>6. ASSUME NEW n \in Nodes, NEW band \in Bands, LoadChanges(n, band) PROVE tJob'[i] = tJob[i]
  BY <1>6 DEF LoadChanges
<1>7. "CANCELED" \in JobStatus
  BY DEF JobStatus
<1>8. /\ [tJob[i] EXCEPT !.due = TRUE].uJobStatus = tJob[i].uJobStatus
      /\ [tJob[i] EXCEPT !.due = TRUE].uNode = tJob[i].uNode
      /\ [tJob[i] EXCEPT !.uJobStatus = "CANCELED"].uJobStatus = "CANCELED"
      /\ [tJob[i] EXCEPT !.uJobStatus = "CANCELED"].uNode = tJob[i].uNode
  BY <1>1, <1>7, RowUpdate
<1> QED BY <1>2, <1>3, <1>4, <1>5, <1>6, <1>8 DEF Backend

LEMMA BackendHands ==
  ASSUME TypeOK, LockInv, HandsInv, Backend
  PROVE  HandsInv'
<1>1. UNCHANGED <<lock, pc, rows, cur>>
  BY DEF Backend, InsertJob, JobDue, CancelContainerJob, GroupCancel, LoadChanges
<1>2. ASSUME NEW a \in Agents, NEW j \in JobIds, Held(a, j)
      PROVE  /\ tJob'[j].uNode = tJob[j].uNode
             /\ \/ tJob'[j].uJobStatus = tJob[j].uJobStatus
                \/ tJob'[j].uJobStatus = "CANCELED"
  BY <1>2, BackendRow DEF HandsInv
<1> QED BY <1>1, <1>2 DEF HandsInv, Held, HasLock, Targets, Addressed

\* A step that takes nothing new into its hands and touches no row
LEMMA QuietHands ==
  ASSUME TypeOK, HandsInv, UNCHANGED tJob, NEW a \in Agents,
         pc' = [pc EXCEPT ![a] = pc'[a]],
         \/ rows' = rows /\ cur' \in {cur, [cur EXCEPT ![a] = 0]}
         \/ rows' = [rows EXCEPT ![a] = {}] /\ cur' = [cur EXCEPT ![a] = 0],
         (~HasLock(a) \/ pc[a] = "select")' => rows'[a] = {}
  PROVE  HandsInv'
<1>1. \A b \in Agents : /\ rows'[b] \subseteq rows[b]
                        /\ cur'[b] = cur[b] \/ cur'[b] = 0
                        /\ b # a => pc'[b] = pc[b]
  BY DEF TypeOK
<1>2. \A b \in Agents : (~HasLock(b) \/ pc[b] = "select")' => rows'[b] = {}
  BY <1>1 DEF HandsInv, HasLock, TypeOK
<1>3. \A b \in Agents : cur'[b] \notin rows'[b]
  BY <1>1 DEF HandsInv, TypeOK
<1>4. \A b \in Agents, j \in JobIds :
        /\ j \in rows'[b] => j \in rows[b]
        /\ cur'[b] = j => cur[b] = j
        /\ tJob'[j] = tJob[j]
  BY <1>1
<1> QED BY <1>2, <1>3, <1>4 DEF HandsInv, Held, Targets, Addressed

\* A step that gives the job in the hands of a status s, and lets it go or not
LEMMA EndHands ==
  ASSUME TypeOK, LockInv, HandsInv, NEW a \in Agents, NEW s \in JobStatus \ {"none"},
         pc[a] \in {"run", "told", "postpone"}, SetStatus(cur[a], s), UNCHANGED rows,
         \/ cur' = [cur EXCEPT ![a] = 0] /\ Goto(a, "loop")
         \/ UNCHANGED cur /\ Goto(a, "told")
  PROVE  HandsInv'
<1> DEFINE j == cur[a]
<1>1. j \in JobIds /\ Held(a, j) /\ j \notin rows[a]
  BY DEF TypeOK, Held, HandsInv
<1>2. /\ tJob'[j].uJobStatus = s
      /\ \A i \in JobIds : (i # j => tJob'[i] = tJob[i]) /\ tJob'[i].uNode = tJob[i].uNode
  BY <1>1, SetStatusType
<1>6. \A b \in Agents : cur'[b] \in {cur[b], 0}
  BY DEF TypeOK
<1>3. \A b \in Agents : (~HasLock(b) \/ pc[b] = "select")' => rows'[b] = {}
  <2>1. CASE Goto(a, "loop")
    BY <2>1 DEF HandsInv, HasLock, TypeOK, Goto, LockedPoints
  <2>2. CASE Goto(a, "told")
    BY <2>2 DEF HandsInv, HasLock, TypeOK, Goto, LockedPoints
  <2> QED BY <2>1, <2>2
<1>4. \A b \in Agents : cur'[b] \notin rows'[b]
  BY <1>6 DEF HandsInv, TypeOK
<1>5. ASSUME NEW b \in Agents, NEW i \in JobIds, Held(b, i)'
      PROVE  /\ NodeOf[b] \in Targets(i)'
             /\ tJob'[i].uJobStatus # "none"
             /\ Addressed(i)' /\ i \in rows'[b] => tJob'[i].uJobStatus \in {"WAITING", "CANCELED"}
  <2>4. i # 0 /\ tJob'[i].uNode = tJob[i].uNode
    BY <1>2
  <2>5. cur'[b] = i => cur[b] = i
    BY <2>4, <1>6
  <2>1. /\ Held(b, i)
        /\ Addressed(i)' <=> Addressed(i)
        /\ Targets(i)' = Targets(i)
    BY <2>4, <2>5, <1>5 DEF Held, Addressed, Targets
  <2>2. CASE i = j
    <3>1. Addressed(i) => b = a
      BY <2>1, <2>2, <1>1, OneHolder
    <3> QED BY <2>1, <2>2, <3>1, <1>1, <1>2 DEF HandsInv
  <2>3. CASE i # j
    BY <2>1, <2>3, <1>2 DEF HandsInv
  <2> QED BY <2>2, <2>3
<1> QED BY <1>3, <1>4, <1>5 DEF HandsInv

\* The next row moves from the snapshot of a to its hands.
LEMMA NextHands ==
  ASSUME TypeOK, LockInv, HandsInv, NEW a \in Agents, NextJob(a)
  PROVE  HandsInv'
<1>1. PICK j \in rows[a] : /\ rows' = [rows EXCEPT ![a] = @ \ {j}]
                           /\ cur' = [cur EXCEPT ![a] = j]
                           /\ SetStatus(j, "RUNNING") \/ UNCHANGED tJob
                           /\ Goto(a, IF load[NodeOf[a]] = "high" /\ tJob[j].cJobName # "priority"
                                      THEN "postpone" ELSE "run")
  BY DEF NextJob
<1>2. j \in JobIds /\ Held(a, j) /\ pc[a] = "loop" /\ j # 0
  BY <1>1 DEF TypeOK, Held, NextJob
<1>3. /\ tJob'[j].uJobStatus \in {"RUNNING", tJob[j].uJobStatus}
      /\ \A i \in JobIds : (i # j => tJob'[i] = tJob[i]) /\ tJob'[i].uNode = tJob[i].uNode
  BY <1>1, <1>2, SetStatusType DEF JobStatus
<1>4. \A b \in Agents : (~HasLock(b) \/ pc[b] = "select")' => rows'[b] = {}
  BY <1>1 DEF HandsInv, HasLock, TypeOK, Goto, LockedPoints
<1>5. \A b \in Agents : cur'[b] \notin rows'[b]
  BY <1>1 DEF HandsInv, TypeOK
<1>6. ASSUME NEW b \in Agents, NEW i \in JobIds, Held(b, i)'
      PROVE  /\ NodeOf[b] \in Targets(i)'
             /\ tJob'[i].uJobStatus # "none"
             /\ Addressed(i)' /\ i \in rows'[b] => tJob'[i].uJobStatus \in {"WAITING", "CANCELED"}
  <2>1. /\ Held(b, i)
        /\ i \in rows'[b] => i \in rows[b]
        /\ b # a => cur'[b] = cur[b] /\ rows'[b] = rows[b]
        /\ b = a => cur'[b] = j /\ j \notin rows'[b]
        /\ Addressed(i)' <=> Addressed(i)
        /\ Targets(i)' = Targets(i)
    BY <1>1, <1>2, <1>3, <1>6 DEF Held, TypeOK, Addressed, Targets
  <2>2. CASE i = j
    <3>1. Addressed(i) => b = a
      BY <2>1, <2>2, <1>2, OneHolder
    <3>2. tJob[j].uJobStatus # "none"
          /\ (Addressed(j) => tJob[j].uJobStatus \in {"WAITING", "CANCELED"})
      BY <1>1, <1>2 DEF HandsInv
    <3> QED BY <2>1, <2>2, <3>1, <3>2, <1>2, <1>3 DEF HandsInv
  <2>3. CASE i # j
    BY <2>1, <2>3, <1>2, <1>3 DEF HandsInv, Held
  <2> QED BY <2>2, <2>3
<1> QED BY <1>4, <1>5, <1>6 DEF HandsInv

\* The SELECT returns waiting rows of the invocation's own node.
LEMMA SelectHands ==
  ASSUME TypeOK, HandsInv, NEW a \in Agents, SelectJobs(a)
  PROVE  HandsInv'
<1>1. /\ pc[a] = "select" /\ pc' = [pc EXCEPT ![a] = "loop"]
      /\ rows' = [rows EXCEPT ![a] = FirstRows(Eligible(NodeOf[a]))]
      /\ UNCHANGED <<tJob, cur>>
  BY DEF SelectJobs, Goto
<1>2. cur[a] = 0
  BY <1>1 DEF TypeOK
<1>3. \A i \in FirstRows(Eligible(NodeOf[a])) :
        i \in JobIds /\ tJob[i].uJobStatus = "WAITING" /\ NodeOf[a] \in Targets(i)
  BY DEF FirstRows, Eligible
<1>4. \A b \in Agents : (~HasLock(b) \/ pc[b] = "select")' => rows'[b] = {}
  BY <1>1 DEF HandsInv, HasLock, TypeOK, LockedPoints
<1>5. \A b \in Agents : cur'[b] \notin rows'[b]
  BY <1>1, <1>2, <1>3 DEF HandsInv, TypeOK
<1>6. \A b \in Agents, i \in JobIds :
        /\ b # a => rows'[b] = rows[b]
        /\ rows'[a] = FirstRows(Eligible(NodeOf[a]))
        /\ cur'[b] = cur[b] /\ tJob'[i] = tJob[i]
  BY <1>1 DEF TypeOK
<1> QED BY <1>2, <1>3, <1>4, <1>5, <1>6 DEF HandsInv, Held, Targets, Addressed

LEMMA HandsStep ==
  ASSUME TypeOK, LockInv, HandsInv, [Next]_vars
  PROVE  HandsInv'
<1>1. CASE Backend
  BY <1>1, BackendHands
<1>2. ASSUME NEW a \in Agents, Leave(a) PROVE HandsInv'
  <2>1. /\ pc' = [pc EXCEPT ![a] = "idle"] /\ rows' = [rows EXCEPT ![a] = {}]
        /\ cur' = [cur EXCEPT ![a] = 0] /\ UNCHANGED tJob
    BY <1>2 DEF Leave, StartupFails, LockBusy, SelectFails, DieLocked, MasterOverload,
       Finish, Exit, Goto
  <2>2. pc'[a] = "idle" /\ rows'[a] = {}
    BY <2>1 DEF TypeOK
  <2> QED BY <2>1, <2>2, QuietHands
<1>3. ASSUME NEW a \in Agents, CronStart(a) \/ TakeLock(a) PROVE HandsInv'
  <2>1. /\ pc' = [pc EXCEPT ![a] = pc'[a]] /\ UNCHANGED <<tJob, rows, cur>>
        /\ ~HasLock(a)
    BY <1>3 DEF CronStart, TakeLock, Goto, TypeOK, HasLock, LockedPoints
  <2>2. rows'[a] = {}
    BY <2>1 DEF HandsInv
  <2> QED BY <2>1, <2>2, QuietHands
<1>4. ASSUME NEW a \in Agents, SelectJobs(a) PROVE HandsInv'
  BY <1>4, SelectHands
<1>5. ASSUME NEW a \in Agents, NextJob(a) PROVE HandsInv'
  BY <1>5, NextHands
<1>6. ASSUME NEW a \in Agents, PostponeJob(a) PROVE HandsInv'
  BY <1>6, EndHands DEF PostponeJob, JobStatus
<1>7. ASSUME NEW a \in Agents, NEW s \in {"DONEOK", "ERROR", "WAITING"}, EndJob(a, s)
      PROVE  HandsInv'
  BY <1>7, EndHands DEF EndJob, JobStatus
<1>9. ASSUME NEW a \in Agents, NEW s \in {"DONEOK", "ERROR"}, ReportStatus(a, s)
      PROVE  HandsInv'
  BY <1>9, EndHands DEF ReportStatus, JobStatus
<1>10. ASSUME NEW a \in Agents, Return(a) PROVE HandsInv'
  <2>1. /\ pc' = [pc EXCEPT ![a] = "loop"] /\ cur' = [cur EXCEPT ![a] = 0]
        /\ UNCHANGED <<tJob, rows>> /\ pc[a] = "told"
    BY <1>10 DEF Return, Goto
  <2>2. (HasLock(a) /\ pc[a] # "select")'
    BY <2>1 DEF TypeOK, HasLock, LockedPoints
  <2>3. pc' = [pc EXCEPT ![a] = pc'[a]]
    BY <2>1 DEF TypeOK
  <2> QED BY <2>1, <2>2, <2>3, QuietHands
<1>8. CASE UNCHANGED vars
  BY <1>8 DEF vars, HandsInv, Held, HasLock, Targets, Addressed
<1> QED
  BY <1>1, <1>2, <1>3, <1>4, <1>5, <1>6, <1>7, <1>8, <1>9, <1>10 DEF Next, Proceed, Fail, Leave

LEMMA HandsAlways == Spec => [](TypeOK /\ LockInv /\ HandsInv)
<1>1. Init => HandsInv
  BY DEF Init, HandsInv, Held, HasLock, LockedPoints
<1>2. TypeOK /\ LockInv /\ HandsInv /\ [Next]_vars => HandsInv'
  BY HandsStep
<1> QED BY <1>1, <1>2, LockAlways, PTL DEF Spec

(* A job addressed to one node is run there only, by one invocation only.  *)
THEOREM SingleRunner == Spec => []NoDoubleRun
<1>1. TypeOK /\ LockInv /\ HandsInv => NoDoubleRun
  <2> SUFFICES ASSUME TypeOK, LockInv, HandsInv, NEW a \in Agents, NEW b \in Agents,
                      cur[a] # 0, Addressed(cur[a])
               PROVE  /\ tJob[cur[a]].uNode = NodeOf[a]
                      /\ cur[a] = cur[b] => a = b
    BY DEF NoDoubleRun
  <2>1. cur[a] \in JobIds
    BY DEF TypeOK
  <2> QED BY <2>1, OneHolder DEF Held
<1> QED BY <1>1, HandsAlways, PTL

(* What is left of a snapshot was not run since it was taken.              *)
THEOREM FreshSnapshots == Spec => []SnapshotIsFresh
<1>1. TypeOK /\ HandsInv => SnapshotIsFresh
  BY DEF HandsInv, SnapshotIsFresh, Held, TypeOK
<1> QED BY <1>1, HandsAlways, PTL

(* Every step's effect on one row, as far as Done, Error and Running go.   *)
LEMMA RowStep ==
  ASSUME TypeOK, LockInv, HandsInv, [Next]_vars, NEW i \in JobIds,
         tJob[i].uJobStatus # "none"
  PROVE  /\ tJob'[i].uNode = tJob[i].uNode
         /\ \/ tJob'[i].uJobStatus = tJob[i].uJobStatus
            \/ /\ tJob[i].uJobStatus \in {"WAITING", "ERROR"}
               /\ tJob'[i].uJobStatus = "CANCELED"
            \/ /\ \E a \in Agents : Held(a, i) /\ Owes(a, i)'
               /\ tJob'[i].uJobStatus = "RUNNING"
            \/ /\ \E a \in Agents : cur[a] = i
               /\ tJob'[i].uJobStatus \in {"DONEOK", "ERROR", "WAITING"}
<1>1. CASE Backend
  BY <1>1, BackendRow
<1>2. ASSUME NEW a \in Agents,
             Leave(a) \/ CronStart(a) \/ TakeLock(a) \/ SelectJobs(a) \/ Return(a)
      PROVE  UNCHANGED tJob
  BY <1>2 DEF Leave, StartupFails, LockBusy, SelectFails, DieLocked, MasterOverload,
     Finish, CronStart, TakeLock, SelectJobs, Return
<1>3. ASSUME NEW a \in Agents, NextJob(a)
      PROVE  /\ tJob'[i].uNode = tJob[i].uNode
             /\ \/ tJob'[i].uJobStatus = tJob[i].uJobStatus
                \/ Held(a, i) /\ Owes(a, i)' /\ tJob'[i].uJobStatus = "RUNNING"
  <2>1. PICK j \in rows[a] : /\ cur' = [cur EXCEPT ![a] = j]
                             /\ SetStatus(j, "RUNNING") \/ UNCHANGED tJob
                             /\ pc'[a] \in {"run", "postpone"}
    BY <1>3 DEF NextJob, Goto, TypeOK
  <2>2. j \in JobIds /\ Held(a, j) /\ Owes(a, j)'
    BY <2>1 DEF TypeOK, Held, Owes
  <2>3. "RUNNING" \in JobStatus
    BY DEF JobStatus
  <2> QED BY <2>1, <2>2, <2>3, SetStatusType
<1>4. ASSUME NEW a \in Agents, NEW s \in {"DONEOK", "ERROR", "WAITING"},
             pc[a] \in {"run", "told", "postpone"}, SetStatus(cur[a], s)
      PROVE  /\ tJob'[i].uNode = tJob[i].uNode
             /\ \/ tJob'[i].uJobStatus = tJob[i].uJobStatus
                \/ cur[a] = i /\ tJob'[i].uJobStatus \in {"DONEOK", "ERROR", "WAITING"}
  <2>1. cur[a] \in JobIds
    BY <1>4 DEF TypeOK
  <2>2. s \in JobStatus
    BY DEF JobStatus
  <2> QED BY <1>4, <2>1, <2>2, SetStatusType
<1>5. CASE UNCHANGED vars
  BY <1>5 DEF vars
<1> QED
  BY <1>1, <1>2, <1>3, <1>4, <1>5 DEF Next, Proceed, Fail, Leave, PostponeJob, EndJob, ReportStatus

(* A job left done is never touched again, one left in error only cancelled. *)
THEOREM FinalIsFinal == Spec => FinalStaysFinal
<1>1. ASSUME TypeOK, LockInv, HandsInv, [Next]_vars, NEW j \in JobIds, Addressed(j), ~InHand(j),
             tJob[j].uJobStatus \in {"DONEOK", "ERROR"}
      PROVE  \/ tJob'[j].uJobStatus = tJob[j].uJobStatus
             \/ tJob[j].uJobStatus = "ERROR" /\ tJob'[j].uJobStatus = "CANCELED"
  <2>1. ~ \E a \in Agents : Held(a, j)
    BY <1>1 DEF HandsInv, Held, InHand
  <2>2. ~ \E a \in Agents : cur[a] = j
    BY <2>1 DEF Held
  <2> QED BY <1>1, <2>1, <2>2, RowStep
<1>2. TypeOK /\ LockInv /\ HandsInv /\ [Next]_vars =>
        [\A j \in JobIds : Addressed(j) /\ ~InHand(j) =>
          /\ tJob[j].uJobStatus = "DONEOK" => tJob'[j].uJobStatus = "DONEOK"
          /\ tJob[j].uJobStatus = "ERROR" => tJob'[j].uJobStatus \in {"ERROR", "CANCELED"}]_vars
  BY <1>1
<1> QED BY <1>2, HandsAlways, PTL DEF Spec, FinalStaysFinal

-----------------------------------------------------------------------------
(**************************** Running jobs *********************************)

\* An invocation that owes a job its status sets one other than Running, or
\* dies and leaks the lock.
LEMMA OwesStep ==
  ASSUME TypeOK, LockInv, HandsInv, [Next]_vars, NEW a \in Agents, NEW i \in JobIds,
         Owes(a, i)
  PROVE  \/ Owes(a, i)'
         \/ tJob'[i].uJobStatus \in {"DONEOK", "ERROR", "WAITING"}
         \/ Leaked(NodeOf[a])'
<1>1. pc[a] \in {"run", "postpone"} /\ cur[a] = i /\ i # 0
  BY DEF Owes
<1>2. ASSUME UNCHANGED <<pc, cur>> PROVE Owes(a, i)'
  BY <1>1, <1>2 DEF Owes
<1>3. ASSUME NEW b \in Agents, Leave(b) PROVE Owes(a, i)' \/ Leaked(NodeOf[a])'
  <2>1. /\ pc' = [pc EXCEPT ![b] = "idle"] /\ cur' = [cur EXCEPT ![b] = 0]
    BY <1>3 DEF Leave, StartupFails, LockBusy, SelectFails, DieLocked, MasterOverload,
       Finish, Exit, Goto
  <2>2. CASE b # a
    BY <1>1, <2>1, <2>2 DEF TypeOK, Owes
  <2>3. CASE b = a
    <3>1. lock' = lock
      BY <1>1, <1>3, <2>3 DEF Leave, StartupFails, LockBusy, SelectFails, DieLocked,
         MasterOverload, Finish
    <3> QED
      BY <1>1, <2>1, <2>3, <3>1 DEF Leaked, LockInv, OneLoopPerNode, HasLock, LockedPoints, TypeOK
  <2> QED BY <2>2, <2>3
<1>4. ASSUME NEW b \in Agents,
             CronStart(b) \/ TakeLock(b) \/ SelectJobs(b) \/ NextJob(b) \/ Return(b)
      PROVE  Owes(a, i)'
  <2>1. b # a
    BY <1>1, <1>4 DEF CronStart, TakeLock, SelectJobs, NextJob, Return
  <2>2. pc'[a] = pc[a] /\ cur'[a] = cur[a]
    BY <1>4, <2>1 DEF CronStart, TakeLock, SelectJobs, NextJob, Return, Goto, TypeOK
  <2> QED BY <1>1, <2>2 DEF Owes
<1>5. ASSUME NEW b \in Agents, NEW s \in {"DONEOK", "ERROR", "WAITING"},
             (PostponeJob(b) /\ s = "WAITING") \/ EndJob(b, s) \/ ReportStatus(b, s)
      PROVE  Owes(a, i)' \/ tJob'[i].uJobStatus \in {"DONEOK", "ERROR", "WAITING"}
  <2>1. CASE b # a
    <3>1. pc'[a] = pc[a] /\ cur'[a] = cur[a]
      BY <1>5, <2>1 DEF PostponeJob, EndJob, ReportStatus, Goto, TypeOK
    <3> QED BY <1>1, <3>1 DEF Owes
  <2>2. CASE b = a
    <3>1. s \in JobStatus
      BY DEF JobStatus
    <3>2. SetStatus(i, s)
      BY <1>1, <1>5, <2>2 DEF PostponeJob, EndJob, ReportStatus
    <3> QED BY <3>1, <3>2, SetStatusType
  <2> QED BY <2>1, <2>2
<1>6. CASE UNCHANGED vars
  BY <1>2, <1>6 DEF vars
<1>7. CASE Backend
  BY <1>2, <1>7 DEF Backend, InsertJob, JobDue, CancelContainerJob, GroupCancel, LoadChanges
<1> QED
  BY <1>3, <1>4, <1>5, <1>6, <1>7 DEF Next, Proceed, Fail, Leave

LEMMA NoneStep ==
  ASSUME TypeOK, LockInv, HandsInv, [Next]_vars, NEW i \in JobIds,
         tJob[i].uJobStatus = "none"
  PROVE  tJob'[i].uJobStatus # "RUNNING"
<1>1. \A a \in Agents : ~Held(a, i)
  BY DEF HandsInv
<1>2. CASE Backend
  BY <1>2, BackendRow
<1>3. ASSUME NEW a \in Agents,
             Leave(a) \/ CronStart(a) \/ TakeLock(a) \/ SelectJobs(a) \/ Return(a)
      PROVE  UNCHANGED tJob
  BY <1>3 DEF Leave, StartupFails, LockBusy, SelectFails, DieLocked, MasterOverload,
     Finish, CronStart, TakeLock, SelectJobs, Return
<1>4. ASSUME NEW a \in Agents, NEW s \in JobStatus, NEW j \in JobIds, Held(a, j), SetStatus(j, s)
      PROVE  tJob'[i] = tJob[i]
  BY <1>1, <1>4, SetStatusType
<1>5. ASSUME NEW a \in Agents, NextJob(a) PROVE tJob'[i] = tJob[i]
  <2>1. PICK j \in rows[a] : SetStatus(j, "RUNNING") \/ UNCHANGED tJob
    BY <1>5 DEF NextJob
  <2>2. j \in JobIds /\ Held(a, j) /\ "RUNNING" \in JobStatus
    BY <2>1 DEF TypeOK, Held, JobStatus
  <2> QED BY <2>1, <2>2, <1>4
<1>6. ASSUME NEW a \in Agents, NEW s \in {"DONEOK", "ERROR", "WAITING"},
             pc[a] \in {"run", "told", "postpone"}, SetStatus(cur[a], s)
      PROVE  tJob'[i] = tJob[i]
  <2>1. cur[a] \in JobIds /\ Held(a, cur[a]) /\ s \in JobStatus
    BY <1>6 DEF TypeOK, Held, JobStatus
  <2> QED BY <1>6, <2>1, <1>4
<1>7. CASE UNCHANGED vars
  BY <1>7 DEF vars
<1> QED
  BY <1>2, <1>3, <1>5, <1>6, <1>7 DEF Next, Proceed, Fail, Leave, PostponeJob, EndJob, ReportStatus

LEMMA AccountedStep ==
  ASSUME TypeOK, LockInv, HandsInv, RunningIsAccounted, [Next]_vars
  PROVE  RunningIsAccounted'
<1> SUFFICES ASSUME NEW i \in JobIds, tJob'[i].uJobStatus = "RUNNING"
             PROVE  \/ \E a \in Agents : Owes(a, i)'
                    \/ \E n \in Targets(i)' : Leaked(n)'
  BY DEF RunningIsAccounted
<1>1. tJob[i].uJobStatus # "none"
  BY NoneStep
<1>2. /\ tJob'[i].uNode = tJob[i].uNode
      /\ \/ tJob[i].uJobStatus = "RUNNING"
         \/ \E a \in Agents : Owes(a, i)'
  BY <1>1, RowStep
<1>3. Targets(i)' = Targets(i) /\ Targets(i) \subseteq Nodes
  BY <1>2 DEF Targets, TypeOK, JobRow
<1>4. CASE tJob[i].uJobStatus = "RUNNING"
  <2>1. CASE \E n \in Targets(i) : Leaked(n)
    BY <2>1, <1>3, LeakStep
  <2>2. ASSUME NEW a \in Agents, Owes(a, i)
        PROVE  Owes(a, i)' \/ \E n \in Targets(i)' : Leaked(n)'
    <3>1. NodeOf[a] \in Targets(i)
      BY <2>2 DEF HandsInv, Held, Owes
    <3> QED BY <2>2, <3>1, <1>3, OwesStep
  <2> QED BY <1>4, <2>1, <2>2 DEF RunningIsAccounted
<1> QED BY <1>2, <1>4

(* A job is left Running by an invocation that died, and then its node's   *)
(* lock is leaked: the two always come together.                           *)
THEOREM RunningAccounted == Spec => []RunningIsAccounted
<1>1. Init => RunningIsAccounted
  BY DEF Init, RunningIsAccounted, NoRow
<1>2. TypeOK /\ LockInv /\ HandsInv /\ RunningIsAccounted /\ [Next]_vars => RunningIsAccounted'
  BY AccountedStep
<1> QED BY <1>1, <1>2, HandsAlways, PTL DEF Spec
=============================================================================
