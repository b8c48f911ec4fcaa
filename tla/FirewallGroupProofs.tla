------------------------ MODULE FirewallGroupProofs ------------------------
(***************************************************************************)
(* Proofs about the firewall jobs of a customer address, for every set of  *)
(* nodes and sessions and every number of events.                          *)
(***************************************************************************)
EXTENDS FirewallGroup, FiniteSetTheorems, TLAPS

USE FirewallAssumption

-----------------------------------------------------------------------------
(******************************* Invariants ********************************)

JobStatus == {"WAITING", "RUNNING", "DONEOK", "ERROR", "CANCELED"}

\* The points at which a runner has a job in hand
Busy == {"rules", "done", "check", "publish", "drops", "accepts", "started"}

\* Events number the orders and the starts of firewalls: two rows of a node
\* never have one number, rows with one number have one name, and a page still
\* to insert at a node has the number of no row there.
OrdersOK ==
    /\ \A n \in Nodes : \A j \in DOMAIN tJob[n] : tJob[n][j].order \in 1 .. events
    /\ \A n \in Nodes : \A i, j \in DOMAIN tJob[n] : tJob[n][i].order = tJob[n][j].order => i = j
    /\ \A n, k \in Nodes : \A i \in DOMAIN tJob[n], j \in DOMAIN tJob[k] :
            tJob[n][i].order = tJob[k][j].order => tJob[n][i].cJobName = tJob[k][j].cJobName
    /\ \A s \in Sessions : IF page[s].who = "none" THEN page[s] = NoOrder
                           ELSE page[s].order \in 1 .. events
    /\ \A s, t \in Sessions : page[s].order = page[t].order /\ page[s].who # "none" => s = t
    /\ \A s \in Sessions, n \in Nodes : \A j \in DOMAIN tJob[n] :
            tJob[n][j].order = page[s].order =>
                tJob[n][j].cJobName = page[s].cJobName /\ n \notin page[s].left

\* What a runner has to do is there, and has not been done since it looked;
\* what it has in hand is running until it is marked done.
RunOK(n) ==
    /\ run[n].rows \subseteq DOMAIN tJob[n]
    /\ \A j \in run[n].rows : tJob[n][j].uJobStatus \in {"WAITING", "CANCELED"}
    /\ run[n].pc \in {"idle", "dead"} => run[n].rows = {}
    /\ run[n].pc \notin Busy => run[n].cur = 0
    /\ run[n].pc \in Busy =>
          /\ run[n].cur \in DOMAIN tJob[n] /\ run[n].cur \notin run[n].rows
          /\ tJob[n][run[n].cur].uJobStatus =
                IF run[n].pc \in {"check", "publish"} THEN "DONEOK" ELSE "RUNNING"
    /\ run[n].pc \in {"done", "check", "publish"} => tJob[n][run[n].cur].cJobName \in GroupJobs
    /\ run[n].pc \in {"drops", "accepts", "started"} => tJob[n][run[n].cur].cJobName = "StartIptables"

RunsOK == \A n \in Nodes : RunOK(n)

IndType == TypeOK /\ OrdersOK /\ RunsOK

\* The group rows of node n
Group(n) == {j \in DOMAIN tJob[n] : tJob[n][j].cJobName \in GroupJobs}

IsOpen(s) == page[s].who # "none"

\* An order has a row on every node its page has come to
EveryNode == \A n, k \in Nodes : \A j \in Group(n) :
    \/ \E i \in Group(k) : tJob[k][i].order = tJob[n][j].order
    \/ \E s \in Sessions : page[s].order = tJob[n][j].order /\ k \in page[s].left

PageRows == \A s \in Sessions, k \in Nodes : IsOpen(s) /\ k \notin page[s].left =>
    \E i \in Group(k) : tJob[k][i].order = page[s].order

\* No runner has looked at the rows of an order that is still being placed
Untouched == \A s \in Sessions, n \in Nodes : \A j \in Group(n) : tJob[n][j].order = page[s].order =>
    /\ j \notin run[n].rows /\ j # run[n].cur
    /\ tJob[n][j].uJobStatus \in {"WAITING", "CANCELED"}

\* Who found its group done still finds it done
FoundDone == \A n \in Nodes : run[n].pc = "publish" /\ run[n].uAllJobsDone => GroupDone(Cur(n))

PlacedOK == EveryNode /\ PageRows /\ Untouched /\ FoundDone

\* The last job of its group looks at it, or has found it done
Closing(n, j) == /\ run[n].cur = j
                 /\ run[n].pc = "check" \/ (run[n].pc = "publish" /\ run[n].uAllJobsDone)

\* A waiting status has a row that is not done, or whose runner is about to
\* publish the final one, or a runner is dead.
WaitOK ==
    uFWStatus \in Waiting =>
        \/ \E n \in Nodes : run[n].pc = "dead"
        \/ \E n \in Nodes : \E j \in Group(n) :
              /\ Awaits[tJob[n][j].cJobName] = uFWStatus
              /\ tJob[n][j].uJobStatus # "DONEOK" \/ Closing(n, j)

IndPlaced == IndType /\ (doubt = {} => PlacedOK)
IndWait == IndPlaced /\ (doubt = {} => WaitOK)

\* Nothing has failed for good
Failed(n, j) == \/ tJob[n][j].uJobStatus = "ERROR"
                \/ tJob[n][j].uJobStatus = "CANCELED" /\ j \notin run[n].rows

Broken == \E n \in Nodes : run[n].pc = "dead" \/ \E j \in DOMAIN tJob[n] : Failed(n, j)

Executed(n, j) == tJob[n][j].uJobStatus = "DONEOK" \/ (run[n].cur = j /\ run[n].pc = "done")
Through(n, j) == tJob[n][j].uJobStatus = "DONEOK" /\ run[n].cur # j

OnePage == \A s, t \in Sessions : IsOpen(s) /\ IsOpen(t) => s = t

Sorted == \A n \in Nodes : \A i, j \in Group(n) : i < j => tJob[n][i].order < tJob[n][j].order

PageLast == \A s \in Sessions, n \in Nodes : \A i \in Group(n) :
                IsOpen(s) => tJob[n][i].order <= page[s].order

RunningInHand == \A n \in Nodes : \A j \in DOMAIN tJob[n] :
                     tJob[n][j].uJobStatus = "RUNNING" => run[n].cur = j

\* What waits and is not in the snapshot came after it
Behind == \A n \in Nodes : \A j \in run[n].rows, i \in Group(n) :
              tJob[n][i].uJobStatus = "WAITING" /\ i \notin run[n].rows => j < i

InTurn == \A n \in Nodes : \A i, j \in Group(n) :
              i < j /\ ~Through(n, i) => tJob[n][j].uJobStatus \in {"WAITING", "CANCELED"}

\* One page is open at a time and places its order after all others; a node
\* works its group jobs off in the order they were given.
TurnsOK == OnePage /\ Sorted /\ PageLast /\ RunningInHand /\ Behind /\ InTurn

Sound == doubt = {} /\ ~Broken
IndTurns == IndPlaced /\ (Sound => TurnsOK)

-----------------------------------------------------------------------------
(***************************** Rows and runners ****************************)

USE DEF JobStatus

LEMMA Tables ==
  ASSUME TypeOK, NEW n \in Nodes
  PROVE  /\ tJob[n] \in Seq(JobRow) /\ Len(tJob[n]) \in Nat
         /\ DOMAIN tJob[n] = 1 .. Len(tJob[n])
         /\ \A j \in DOMAIN tJob[n] : tJob[n][j] \in JobRow
  BY DEF TypeOK

(* A step that changes the status of one row.                               *)
StatusOnly(n, j, st) ==
    /\ tJob' \in [Nodes -> Seq(JobRow)]
    /\ \A k \in Nodes : DOMAIN tJob'[k] = DOMAIN tJob[k]
    /\ \A k \in Nodes : \A i \in DOMAIN tJob[k] :
          /\ tJob'[k][i].order = tJob[k][i].order
          /\ tJob'[k][i].cJobName = tJob[k][i].cJobName
          /\ tJob'[k][i].alone = tJob[k][i].alone
          /\ ~(k = n /\ i = j) => tJob'[k][i].uJobStatus = tJob[k][i].uJobStatus
    /\ \A k \in Nodes : k # n => tJob'[k] = tJob[k]
    /\ tJob'[n][j].uJobStatus = st

LEMMA SetJobEffect ==
  ASSUME TypeOK, NEW n \in Nodes, NEW j \in DOMAIN tJob[n], NEW st \in JobStatus, SetJob(n, j, st)
  PROVE  StatusOnly(n, j, st)
<1> DEFINE r == [tJob[n][j] EXCEPT !.uJobStatus = st]
           q == [tJob[n] EXCEPT ![j] = r]
<1>1. tJob' = [tJob EXCEPT ![n] = q]
  BY DEF SetJob, TypeOK
<1>2. tJob[n][j] \in JobRow
  BY Tables
<1>3. /\ r \in JobRow /\ r.order = tJob[n][j].order /\ r.cJobName = tJob[n][j].cJobName
      /\ r.alone = tJob[n][j].alone /\ r.uJobStatus = st
  BY <1>2 DEF JobRow
<1> HIDE DEF r
<1>4. /\ q \in Seq(JobRow) /\ DOMAIN q = DOMAIN tJob[n] /\ q[j] = r
      /\ \A i \in DOMAIN tJob[n] : i # j => q[i] = tJob[n][i]
  BY <1>3, Tables
<1> HIDE DEF q
<1>5. /\ tJob' \in [Nodes -> Seq(JobRow)] /\ tJob'[n] = q
      /\ \A k \in Nodes : k # n => tJob'[k] = tJob[k]
  BY <1>1, <1>4 DEF TypeOK
<1> QED
  BY <1>3, <1>4, <1>5 DEF StatusOnly

(* A step that adds a row to a node.                                        *)
Added(n, r) ==
    /\ tJob' \in [Nodes -> Seq(JobRow)]
    /\ \A k \in Nodes : k # n => tJob'[k] = tJob[k]
    /\ DOMAIN tJob'[n] = DOMAIN tJob[n] \cup {Len(tJob[n]) + 1}
    /\ Len(tJob[n]) + 1 \notin DOMAIN tJob[n]
    /\ \A i \in DOMAIN tJob[n] : tJob'[n][i] = tJob[n][i]
    /\ tJob'[n][Len(tJob[n]) + 1] = r

LEMMA AppendEffect ==
  ASSUME TypeOK, NEW n \in Nodes, NEW r \in JobRow, tJob' = [tJob EXCEPT ![n] = Append(@, r)]
  PROVE  Added(n, r)
<1> DEFINE q == Append(tJob[n], r)
<1>1. tJob' = [tJob EXCEPT ![n] = q]
  BY DEF TypeOK
<1>2. /\ q \in Seq(JobRow) /\ Len(q) = Len(tJob[n]) + 1
      /\ \A i \in 1 .. Len(tJob[n]) : q[i] = tJob[n][i]
      /\ q[Len(tJob[n]) + 1] = r
  BY Tables
<1>3. DOMAIN q = 1 .. Len(tJob[n]) + 1
  BY <1>2
<1> HIDE DEF q
<1>4. /\ tJob' \in [Nodes -> Seq(JobRow)] /\ tJob'[n] = q
      /\ \A k \in Nodes : k # n => tJob'[k] = tJob[k]
  BY <1>1, <1>2 DEF TypeOK
<1> QED
  BY <1>2, <1>3, <1>4, Tables DEF Added

RunnerStates == [pc : Points, rows : SUBSET Nat, cur : Nat, uAllJobsDone : BOOLEAN]

(* The next state of a runner.                                              *)
RunIs(n, p, R, c, u) ==
    /\ run' \in [Nodes -> RunnerStates]
    /\ \A k \in Nodes : k # n => run'[k] = run[k]
    /\ run'[n].pc = p /\ run'[n].rows = R /\ run'[n].cur = c /\ run'[n].uAllJobsDone = u

LEMMA RunEffect ==
  ASSUME TypeOK, NEW n \in Nodes, NEW p, NEW R, NEW c, NEW u,
         NEW x \in RunnerStates, run' = [run EXCEPT ![n] = x],
         x.pc = p, x.rows = R, x.cur = c, x.uAllJobsDone = u
  PROVE  RunIs(n, p, R, c, u)
<1>1. run \in [Nodes -> RunnerStates]
  <2>1. Runners \subseteq RunnerStates
    BY DEF Runners, RunnerStates, OrderIds
  <2> QED
    BY <2>1 DEF TypeOK
<1>3. run' \in [Nodes -> RunnerStates] /\ run'[n] = x /\ \A k \in Nodes : k # n => run'[k] = run[k]
  BY <1>1
<1> QED
  BY <1>3 DEF RunIs

LEMMA RunnerType ==
  ASSUME TypeOK, NEW n \in Nodes
  PROVE  /\ run[n] \in RunnerStates /\ run[n].pc \in Points /\ run[n].rows \in SUBSET Nat
         /\ run[n].cur \in Nat /\ run[n].uAllJobsDone \in BOOLEAN
<1>1. run[n] \in Runners
  BY DEF TypeOK
<1> QED
  BY <1>1 DEF Runners, RunnerStates, OrderIds

LEMMA GotoEffect ==
  ASSUME TypeOK, NEW n \in Nodes, NEW p \in Points, Goto(n, p)
  PROVE  RunIs(n, p, run[n].rows, run[n].cur, run[n].uAllJobsDone)
<1> DEFINE x == [run[n] EXCEPT !.pc = p]
<1>1. run' = [run EXCEPT ![n] = x]
  BY DEF Goto, TypeOK
<1>2. /\ x \in RunnerStates
      /\ x.pc = p /\ x.rows = run[n].rows
      /\ x.cur = run[n].cur /\ x.uAllJobsDone = run[n].uAllJobsDone
  BY RunnerType DEF RunnerStates
<1> HIDE DEF x
<1> QED
  BY <1>1, <1>2, RunnerType, RunEffect

LEMMA LeaveEffect ==
  ASSUME TypeOK, NEW n \in Nodes, Leave(n)
  PROVE  RunIs(n, IF run[n].rows = {} THEN "idle" ELSE "loop", run[n].rows, 0, FALSE)
<1> DEFINE p == IF run[n].rows = {} THEN "idle" ELSE "loop"
           x == [Idle EXCEPT !.pc = p, !.rows = run[n].rows]
<1>1. run' = [run EXCEPT ![n] = x]
  BY DEF Leave, TypeOK
<1>2. p \in Points
  BY DEF Points
<1> HIDE DEF p
<1>3. /\ x \in RunnerStates
      /\ x.pc = p /\ x.rows = run[n].rows
      /\ x.cur = 0 /\ x.uAllJobsDone = FALSE
  BY <1>2, RunnerType DEF Idle, RunnerStates
<1> HIDE DEF x
<1> QED
  BY <1>1, <1>2, <1>3, RunnerType, RunEffect DEF p

LEMMA SelectEffect ==
  ASSUME TypeOK, RunsOK, NEW n \in Nodes, Select(n)
  PROVE  RunIs(n, "loop", Due(n), 0, run[n].uAllJobsDone)
<1> DEFINE x == [run[n] EXCEPT !.pc = "loop", !.rows = Due(n)]
<1>1. run' = [run EXCEPT ![n] = x]
  BY DEF Select, TypeOK
<1>2. run[n].cur = 0 /\ Due(n) \in SUBSET Nat /\ "loop" \in Points
  BY Tables DEF Select, RunsOK, RunOK, Busy, Due, Points
<1>3. /\ x \in RunnerStates
      /\ x.pc = "loop" /\ x.rows = Due(n)
      /\ x.cur = 0 /\ x.uAllJobsDone = run[n].uAllJobsDone
  BY <1>2, RunnerType DEF RunnerStates
<1> HIDE DEF x
<1> QED
  BY <1>1, <1>2, <1>3, RunnerType, RunEffect

LEMMA BeginEffect ==
  ASSUME TypeOK, RunsOK, NEW n \in Nodes, Begin(n)
  PROVE  \E j \in run[n].rows :
            /\ j \in DOMAIN tJob[n] /\ StatusOnly(n, j, "RUNNING")
            /\ RunIs(n, "rules", run[n].rows \ {j}, j, run[n].uAllJobsDone)
<1>1. PICK j \in run[n].rows :
          /\ SetJob(n, j, "RUNNING")
          /\ run' = [run EXCEPT ![n].pc = "rules", ![n].rows = @ \ {j}, ![n].cur = j]
  BY DEF Begin
<1> DEFINE x == [run[n] EXCEPT !.pc = "rules", !.rows = @ \ {j}, !.cur = j]
<1>2. run' = [run EXCEPT ![n] = x]
  BY <1>1 DEF TypeOK
<1>3. j \in DOMAIN tJob[n] /\ j \in Nat
  BY Tables DEF RunsOK, RunOK
<1>4. "rules" \in Points /\ run[n].rows \ {j} \in SUBSET Nat /\ "RUNNING" \in JobStatus
  BY RunnerType DEF Points
<1>5. /\ x \in RunnerStates
      /\ x.pc = "rules" /\ x.rows = run[n].rows \ {j}
      /\ x.cur = j /\ x.uAllJobsDone = run[n].uAllJobsDone
  BY <1>3, <1>4, RunnerType DEF RunnerStates
<1> HIDE DEF x
<1>6. RunIs(n, "rules", run[n].rows \ {j}, j, run[n].uAllJobsDone)
  BY <1>2, <1>3, <1>4, <1>5, RunnerType, RunEffect
<1> QED
  BY <1>1, <1>3, <1>4, <1>6, SetJobEffect

LEMMA PostponeEffect ==
  ASSUME TypeOK, RunsOK, NEW n \in Nodes, Postpone(n)
  PROVE  \E j \in run[n].rows :
            /\ j \in DOMAIN tJob[n] /\ StatusOnly(n, j, "WAITING")
            /\ RunIs(n, IF run[n].rows = {j} THEN "idle" ELSE "loop", run[n].rows \ {j}, 0,
                     run[n].uAllJobsDone)
<1>1. PICK j \in run[n].rows :
          /\ SetJob(n, j, "WAITING")
          /\ run' = [run EXCEPT ![n].rows = @ \ {j},
                                ![n].pc = IF run[n].rows = {j} THEN "idle" ELSE "loop"]
  BY DEF Postpone
<1> DEFINE p == IF run[n].rows = {j} THEN "idle" ELSE "loop"
           x == [run[n] EXCEPT !.rows = @ \ {j}, !.pc = p]
<1>2. run' = [run EXCEPT ![n] = x]
  BY <1>1 DEF TypeOK
<1>3. j \in DOMAIN tJob[n] /\ run[n].cur = 0
  BY DEF RunsOK, RunOK, Postpone, Busy
<1>4. p \in Points /\ run[n].rows \ {j} \in SUBSET Nat /\ "WAITING" \in JobStatus
  BY RunnerType DEF Points
<1> HIDE DEF p
<1>5. /\ x \in RunnerStates
      /\ x.pc = p /\ x.rows = run[n].rows \ {j}
      /\ x.cur = 0 /\ x.uAllJobsDone = run[n].uAllJobsDone
  BY <1>3, <1>4, RunnerType DEF RunnerStates
<1> HIDE DEF x
<1>6. RunIs(n, p, run[n].rows \ {j}, 0, run[n].uAllJobsDone)
  BY <1>2, <1>4, <1>5, RunnerType, RunEffect
<1> QED
  BY <1>1, <1>3, <1>4, <1>6, SetJobEffect DEF p

LEMMA DieEffect ==
  ASSUME TypeOK, NEW n \in Nodes, Die(n)
  PROVE  RunIs(n, "dead", {}, 0, FALSE)
<1> DEFINE x == [Idle EXCEPT !.pc = "dead"]
<1>1. run' = [run EXCEPT ![n] = x]
  BY DEF Die, TypeOK
<1>2. /\ x \in RunnerStates
      /\ x.pc = "dead" /\ x.rows = {}
      /\ x.cur = 0 /\ x.uAllJobsDone = FALSE
  BY DEF Idle, RunnerStates, Points
<1>3. "dead" \in Points /\ {} \in SUBSET Nat
  BY DEF Points
<1> HIDE DEF x
<1> QED
  BY <1>1, <1>2, <1>3, RunEffect

LEMMA CheckEffect ==
  ASSUME TypeOK, NEW n \in Nodes, Check(n)
  PROVE  \E all \in BOOLEAN :
            /\ RunIs(n, "publish", run[n].rows, run[n].cur, all)
            /\ all \in {GroupDone(Cur(n)), TRUE}
            /\ Note("check", all # GroupDone(Cur(n)))
<1>1. PICK all \in {GroupDone(Cur(n)), TRUE} :
          /\ run' = [run EXCEPT ![n].pc = "publish", ![n].uAllJobsDone = all]
          /\ Note("check", all # GroupDone(Cur(n)))
  BY DEF Check
<1>2. all \in BOOLEAN
  BY DEF GroupDone
<1> DEFINE x == [run[n] EXCEPT !.pc = "publish", !.uAllJobsDone = all]
<1>3. run' = [run EXCEPT ![n] = x]
  BY <1>1 DEF TypeOK
<1>4. "publish" \in Points
  BY DEF Points
<1>5. /\ x \in RunnerStates
      /\ x.pc = "publish" /\ x.rows = run[n].rows
      /\ x.cur = run[n].cur /\ x.uAllJobsDone = all
  BY <1>2, <1>4, RunnerType DEF RunnerStates
<1> HIDE DEF x
<1>6. RunIs(n, "publish", run[n].rows, run[n].cur, all)
  BY <1>2, <1>3, <1>4, <1>5, RunnerType, RunEffect
<1> QED
  BY <1>1, <1>2, <1>6

(* A step of the pages.                                                     *)
PagesKept ==
    /\ page' \in [Sessions -> Orders]
    /\ \A s \in Sessions :
          \/ page'[s] = page[s]
          \/ page'[s] = NoOrder
          \/ /\ page'[s].who = page[s].who /\ page[s].who # "none"
             /\ page'[s].cJobName = page[s].cJobName /\ page'[s].order = page[s].order
             /\ page'[s].left \subseteq page[s].left

LEMMA NoOrderType == NoOrder \in Orders /\ NoOrder.who = "none" /\ NoOrder.order = 0 /\ NoOrder.left = {}
  BY DEF NoOrder, Orders, OrderIds, GroupJobs

LEMMA PageType ==
  ASSUME TypeOK, NEW s \in Sessions
  PROVE  /\ page[s] \in Orders /\ page[s].who \in {"none", "page", "event", "command"}
         /\ page[s].cJobName \in GroupJobs /\ page[s].left \in SUBSET Nodes
         /\ page[s].order \in OrderIds /\ page[s].order \in Nat
<1>1. page[s] \in Orders
  BY DEF TypeOK
<1> QED
  BY <1>1 DEF Orders, OrderIds

LEMMA InsertEffect ==
  ASSUME TypeOK, NEW s \in Sessions, NEW n \in Nodes, InsertJob(s, n)
  PROVE  /\ IsOpen(s) /\ n \in page[s].left
         /\ \E r \in JobRow : /\ Added(n, r) /\ r.uJobStatus = "WAITING"
                              /\ r.cJobName = page[s].cJobName /\ r.order = page[s].order
         /\ page' \in [Sessions -> Orders]
         /\ \A t \in Sessions : t # s => page'[t] = page[t]
         /\ page'[s].who = page[s].who /\ page'[s].cJobName = page[s].cJobName
         /\ page'[s].order = page[s].order /\ page'[s].left = page[s].left \ {n}
<1> DEFINE a == page[s].who = "command"
           r == NewRow(s, a)
           x == [page[s] EXCEPT !.left = @ \ {n}]
<1>1. /\ IsOpen(s) /\ n \in page[s].left
      /\ tJob' = [tJob EXCEPT ![n] = Append(@, r)]
      /\ page' = [page EXCEPT ![s].left = @ \ {n}]
  BY DEF InsertJob, InsertRow, IsOpen
<1>2. page' = [page EXCEPT ![s] = x]
  BY <1>1 DEF TypeOK
<1>3. a \in BOOLEAN
  OBVIOUS
<1> HIDE DEF a
<1>4. /\ r \in JobRow /\ r.uJobStatus = "WAITING"
      /\ r.cJobName = page[s].cJobName /\ r.order = page[s].order
  BY <1>3, PageType DEF NewRow, JobRow, JobNames
<1> HIDE DEF r
<1>5. Added(n, r)
  BY <1>1, <1>4, AppendEffect
<1>6. /\ x \in Orders /\ x.who = page[s].who /\ x.cJobName = page[s].cJobName
      /\ x.order = page[s].order /\ x.left = page[s].left \ {n}
  BY PageType DEF Orders
<1> HIDE DEF x
<1>7. /\ page' \in [Sessions -> Orders] /\ page'[s] = x
      /\ \A t \in Sessions : t # s => page'[t] = page[t]
  BY <1>2, <1>6 DEF TypeOK
<1> QED
  BY <1>1, <1>4, <1>5, <1>6, <1>7

LEMMA CloseEffect ==
  ASSUME TypeOK, NEW s \in Sessions, IsOpen(s), page' = [page EXCEPT ![s] = NoOrder]
  PROVE  PagesKept /\ page'[s] = NoOrder /\ \A t \in Sessions : t # s => page'[t] = page[t]
BY NoOrderType DEF TypeOK, PagesKept

LEMMA FailEffect ==
  ASSUME TypeOK, NEW s \in Sessions, InsertFails(s)
  PROVE  /\ PagesKept /\ IsOpen(s) /\ \A t \in Sessions : t # s => page'[t] = page[t]
         /\ page[s].left = Nodes => page'[s] = NoOrder
         /\ page[s].left # Nodes => doubt' # {}
<1> DEFINE x == [page[s] EXCEPT !.left = {}]
<1>1. IsOpen(s) /\ (page[s].left # Nodes => doubt' # {})
  BY DEF InsertFails, IsOpen, Note
<1>2. \/ page' = [page EXCEPT ![s] = NoOrder]
      \/ page' = [page EXCEPT ![s] = x] /\ page[s].left # Nodes
  BY DEF InsertFails, TypeOK
<1>3. /\ x \in Orders /\ x.who = page[s].who /\ x.cJobName = page[s].cJobName
      /\ x.order = page[s].order /\ x.left = {}
  BY PageType DEF Orders
<1> HIDE DEF x
<1>4. CASE page' = [page EXCEPT ![s] = NoOrder]
  BY <1>1, <1>4, CloseEffect DEF PagesKept
<1>5. CASE page' = [page EXCEPT ![s] = x] /\ page[s].left # Nodes
  <2>1. /\ page' \in [Sessions -> Orders] /\ page'[s] = x
        /\ \A t \in Sessions : t # s => page'[t] = page[t]
    BY <1>3, <1>5 DEF TypeOK
  <2> QED
    BY <1>1, <1>3, <1>5, <2>1 DEF PagesKept, IsOpen
<1> QED
  BY <1>2, <1>4, <1>5

LEMMA OpenEffect ==
  ASSUME TypeOK, NEW s \in Sessions, NEW who \in {"page", "event", "command"}, NEW name \in GroupJobs,
         OpenOrder(s, who, name)
  PROVE  /\ ~IsOpen(s) /\ events' = events + 1 /\ events' \in OrderIds
         /\ Accepts(who, name, uFWStatus)
         /\ page' \in [Sessions -> Orders]
         /\ \A t \in Sessions : t # s => page'[t] = page[t]
         /\ page'[s].who = who /\ page'[s].cJobName = name
         /\ page'[s].order = events + 1 /\ page'[s].left = Nodes
         /\ doubt' = {} => doubt = {} /\ ~Hidden /\ \A t \in Sessions : ~IsOpen(t)
<1> DEFINE x == [who |-> who, cJobName |-> name, left |-> Nodes, order |-> events']
<1>1. /\ ~IsOpen(s) /\ events < MaxEvent /\ events' = events + 1 /\ Accepts(who, name, uFWStatus)
      /\ page' = [page EXCEPT ![s] = x]
      /\ doubt' = doubt \cup {d \in {"crossed", "hidden"} :
                            \/ d = "crossed" /\ \E t \in Sessions : page[t].who # "none"
                            \/ d = "hidden" /\ Hidden}
  BY DEF OpenOrder, Count, IsOpen
<1>2. events' \in OrderIds
  BY <1>1 DEF TypeOK, OrderIds
<1>3. x \in Orders /\ x.who = who /\ x.cJobName = name /\ x.order = events + 1 /\ x.left = Nodes
  BY <1>1, <1>2 DEF Orders
<1> HIDE DEF x
<1>4. /\ page' \in [Sessions -> Orders] /\ page'[s] = x
      /\ \A t \in Sessions : t # s => page'[t] = page[t]
  BY <1>1, <1>3 DEF TypeOK
<1>5. doubt' = {} => doubt = {} /\ ~Hidden /\ \A t \in Sessions : ~IsOpen(t)
  BY <1>1 DEF IsOpen
<1> QED
  BY <1>1, <1>2, <1>3, <1>4, <1>5

LEMMA ActivateEffect ==
  ASSUME TypeOK, NEW n \in Nodes, ActivateFirewall(n)
  PROVE  /\ events' = events + 1 /\ events' \in OrderIds
         /\ \E r \in JobRow : /\ Added(n, r) /\ r.uJobStatus = "WAITING"
                              /\ r.cJobName = "StartIptables" /\ r.order = events + 1
<1> DEFINE r == [cJobName |-> "StartIptables", order |-> events', alone |-> TRUE,
                 uJobStatus |-> "WAITING"]
<1>1. events < MaxEvent /\ events' = events + 1 /\ tJob' = [tJob EXCEPT ![n] = Append(@, r)]
  BY DEF ActivateFirewall, Count
<1>2. events' \in OrderIds
  BY <1>1 DEF TypeOK, OrderIds
<1>3. /\ r \in JobRow /\ r.uJobStatus = "WAITING" /\ r.cJobName = "StartIptables"
      /\ r.order = events + 1
  BY <1>1, <1>2 DEF JobRow, JobNames
<1> HIDE DEF r
<1> QED
  BY <1>1, <1>2, <1>3, AppendEffect
-----------------------------------------------------------------------------
(**************************** Type correctness *****************************)

\* The first e numbers are e.
LEMMA IntervalSize ==
  ASSUME NEW e \in Nat
  PROVE  IsFiniteSet(1 .. e) /\ Cardinality(1 .. e) = e
<1>1. 1 \in Int /\ e \in Int
  OBVIOUS
<1>2. IsFiniteSet(1 .. e) /\ Cardinality(1 .. e) = IF 1 > e THEN 0 ELSE e - 1 + 1
  BY ONLY <1>1, FS_Interval
<1> QED
  BY ONLY <1>2, e \in Nat

LEMMA LengthBound ==
  ASSUME NEW Q \in Seq(JobRow), NEW e \in Nat,
         \A j \in DOMAIN Q : Q[j].order \in 1 .. e,
         \A i, j \in DOMAIN Q : Q[i].order = Q[j].order => i = j
  PROVE  Len(Q) <= e
<1>1. Len(Q) \in Nat /\ DOMAIN Q = 1 .. Len(Q)
  OBVIOUS
<1>2. SUFFICES ASSUME e < Len(Q) PROVE FALSE
  BY <1>1
<1>3. /\ IsFiniteSet(1 .. Len(Q)) /\ IsFiniteSet(1 .. e)
      /\ Cardinality(1 .. e) < Cardinality(1 .. Len(Q))
  <2>1. IsFiniteSet(1 .. e) /\ Cardinality(1 .. e) = e
    BY IntervalSize
  <2>2. IsFiniteSet(1 .. Len(Q)) /\ Cardinality(1 .. Len(Q)) = Len(Q)
    BY <1>1, IntervalSize
  <2> QED
    BY <1>2, <2>1, <2>2
<1> DEFINE f == [j \in 1 .. Len(Q) |-> Q[j].order]
           S == 1 .. Len(Q)
           T == 1 .. e
<1>4. f \in [1 .. Len(Q) -> 1 .. e]
  BY <1>1
<1>5. PICK x, y \in 1 .. Len(Q) : x # y /\ f[x] = f[y]
  <2>1. IsFiniteSet(S) /\ IsFiniteSet(T) /\ Cardinality(T) < Cardinality(S) /\ f \in [S -> T]
    BY <1>3, <1>4
  <2> HIDE DEF f, S, T
  <2>2. \E x, y \in S : x # y /\ f[x] = f[y]
    BY <2>1, FS_PigeonHole
  <2> QED
    BY <2>2 DEF S
<1> QED
  BY <1>1, <1>5

(* What has the right shape but for its bounds has them too.                *)
LEMMA WithinBounds ==
  ASSUME tJob' \in [Nodes -> Seq(JobRow)], events' \in OrderIds, OrdersOK', RunsOK',
         run' \in [Nodes -> RunnerStates]
  PROVE  run' \in [Nodes -> Runners]
<1>1. ASSUME NEW n \in Nodes PROVE run'[n] \in Runners
  <2>1. /\ tJob'[n] \in Seq(JobRow) /\ Len(tJob'[n]) \in Nat
        /\ DOMAIN tJob'[n] = 1 .. Len(tJob'[n])
    OBVIOUS
  <2>2. events' \in Nat /\ events' <= MaxEvent
    BY DEF OrderIds
  <2>3. /\ \A j \in DOMAIN tJob'[n] : tJob'[n][j].order \in 1 .. events'
        /\ \A i, j \in DOMAIN tJob'[n] : tJob'[n][i].order = tJob'[n][j].order => i = j
    BY DEF OrdersOK
  <2>4. Len(tJob'[n]) <= events'
    BY <2>1, <2>2, <2>3, LengthBound
  <2>5. DOMAIN tJob'[n] \subseteq 1 .. MaxEvent /\ 0 \in OrderIds
    BY <2>1, <2>2, <2>4 DEF OrderIds
  <2>6. run'[n].rows \subseteq DOMAIN tJob'[n]
    BY DEF RunsOK, RunOK
  <2>7. run'[n].cur = 0 \/ run'[n].cur \in DOMAIN tJob'[n]
    BY DEF RunsOK, RunOK
  <2>8. run'[n].cur \in OrderIds /\ run'[n].rows \in SUBSET (1 .. MaxEvent)
    BY <2>5, <2>6, <2>7 DEF OrderIds
  <2>9. run'[n] \in RunnerStates
    OBVIOUS
  <2> QED
    BY <2>8, <2>9 DEF Runners, RunnerStates
<1> QED
  BY <1>1

SameOrders ==
    \A k \in Nodes :
        /\ DOMAIN tJob'[k] = DOMAIN tJob[k]
        /\ \A i \in DOMAIN tJob[k] : /\ tJob'[k][i].order = tJob[k][i].order
                                     /\ tJob'[k][i].cJobName = tJob[k][i].cJobName
                                     /\ tJob'[k][i].alone = tJob[k][i].alone

LEMMA OrdersOfPages ==
  ASSUME TypeOK, OrdersOK, SameOrders, PagesKept, events' \in Nat, events <= events'
  PROVE  OrdersOK'
<1>0. events \in Nat
  BY DEF TypeOK, OrderIds
<1>1. /\ \A n \in Nodes : \A j \in DOMAIN tJob'[n] : tJob'[n][j].order \in 1 .. events'
      /\ \A n \in Nodes : \A i, j \in DOMAIN tJob'[n] : tJob'[n][i].order = tJob'[n][j].order => i = j
      /\ \A n, k \in Nodes : \A i \in DOMAIN tJob'[n], j \in DOMAIN tJob'[k] :
            tJob'[n][i].order = tJob'[k][j].order => tJob'[n][i].cJobName = tJob'[k][j].cJobName
  BY <1>0 DEF SameOrders, OrdersOK
<1>2. \A s \in Sessions : IF page'[s].who = "none" THEN page'[s] = NoOrder
                          ELSE page'[s].order \in 1 .. events'
  BY <1>0, NoOrderType DEF PagesKept, OrdersOK
<1>3. \A s, t \in Sessions : page'[s].order = page'[t].order /\ page'[s].who # "none" => s = t
  BY <1>0, NoOrderType DEF PagesKept, OrdersOK
<1>4. \A s \in Sessions, n \in Nodes : \A j \in DOMAIN tJob'[n] :
            tJob'[n][j].order = page'[s].order =>
                tJob'[n][j].cJobName = page'[s].cJobName /\ n \notin page'[s].left
  BY <1>1, NoOrderType DEF PagesKept, OrdersOK, SameOrders
<1> QED
  BY <1>1, <1>2, <1>3, <1>4 DEF OrdersOK

LEMMA OrdersOfInsert ==
  ASSUME TypeOK, OrdersOK, NEW s \in Sessions, NEW n \in Nodes, InsertJob(s, n), events' = events
  PROVE  OrdersOK'
<1>1. /\ IsOpen(s) /\ n \in page[s].left
      /\ page' \in [Sessions -> Orders]
      /\ \A t \in Sessions : t # s => page'[t] = page[t]
      /\ page'[s].who = page[s].who /\ page'[s].cJobName = page[s].cJobName
      /\ page'[s].order = page[s].order /\ page'[s].left = page[s].left \ {n}
  BY InsertEffect
<1>2. PICK r \in JobRow : Added(n, r) /\ r.cJobName = page[s].cJobName /\ r.order = page[s].order
  BY InsertEffect
<1> DEFINE z == Len(tJob[n]) + 1
<1>3. /\ \A k \in Nodes : k # n => tJob'[k] = tJob[k]
      /\ DOMAIN tJob'[n] = DOMAIN tJob[n] \cup {z} /\ z \notin DOMAIN tJob[n]
      /\ \A i \in DOMAIN tJob[n] : tJob'[n][i] = tJob[n][i]
      /\ tJob'[n][z].cJobName = page[s].cJobName /\ tJob'[n][z].order = page[s].order
  BY <1>2 DEF Added
<1> HIDE DEF z
<1>4. page[s].order \in 1 .. events
  BY <1>1 DEF OrdersOK, IsOpen
<1>5. \A j \in DOMAIN tJob[n] : tJob[n][j].order # page[s].order
  BY <1>1 DEF OrdersOK
<1>6. \A k \in Nodes : \A j \in DOMAIN tJob[k] :
          tJob[k][j].order = page[s].order => tJob[k][j].cJobName = page[s].cJobName
  BY DEF OrdersOK
<1>7. \A k \in Nodes : \A j \in DOMAIN tJob'[k] :
         \/ j \in DOMAIN tJob[k] /\ tJob'[k][j] = tJob[k][j]
         \/ /\ k = n /\ j = z
            /\ tJob'[k][j].cJobName = page[s].cJobName /\ tJob'[k][j].order = page[s].order
  BY <1>3
<1>8. \A k \in Nodes : \A j \in DOMAIN tJob'[k] : tJob'[k][j].order \in 1 .. events
  BY <1>4, <1>7 DEF OrdersOK
<1>9. \A k \in Nodes : \A i, j \in DOMAIN tJob'[k] : tJob'[k][i].order = tJob'[k][j].order => i = j
  BY <1>5, <1>7 DEF OrdersOK
<1>10. \A m, k \in Nodes : \A i \in DOMAIN tJob'[m], j \in DOMAIN tJob'[k] :
            tJob'[m][i].order = tJob'[k][j].order => tJob'[m][i].cJobName = tJob'[k][j].cJobName
  BY <1>6, <1>7 DEF OrdersOK
<1>11. \A t \in Sessions : IF page'[t].who = "none" THEN page'[t] = NoOrder
                           ELSE page'[t].order \in 1 .. events
  BY <1>1, <1>4 DEF OrdersOK, IsOpen
<1>12. \A t, u \in Sessions : page'[t].order = page'[u].order /\ page'[t].who # "none" => t = u
  BY <1>1 DEF OrdersOK
<1>13. \A t \in Sessions, k \in Nodes : \A j \in DOMAIN tJob'[k] :
            tJob'[k][j].order = page'[t].order =>
                tJob'[k][j].cJobName = page'[t].cJobName /\ k \notin page'[t].left
  <2> SUFFICES ASSUME NEW t \in Sessions, NEW k \in Nodes, NEW j \in DOMAIN tJob'[k],
                      tJob'[k][j].order = page'[t].order
               PROVE  tJob'[k][j].cJobName = page'[t].cJobName /\ k \notin page'[t].left
    OBVIOUS
  <2>1. CASE j \in DOMAIN tJob[k] /\ tJob'[k][j] = tJob[k][j]
    BY <1>1, <2>1 DEF OrdersOK
  <2>2. CASE /\ k = n /\ j = z
             /\ tJob'[k][j].cJobName = page[s].cJobName /\ tJob'[k][j].order = page[s].order
    <3>1. page[s].order = page[t].order
      BY <1>1, <2>2
    <3>2. t = s
      BY <1>1, <3>1 DEF OrdersOK, IsOpen
    <3> QED
      BY <1>1, <2>2, <3>2
  <2> QED
    BY <1>7, <2>1, <2>2
<1> QED
  BY <1>8, <1>9, <1>10, <1>11, <1>12, <1>13 DEF OrdersOK

LEMMA OrdersOfOpen ==
  ASSUME TypeOK, OrdersOK, NEW s \in Sessions, NEW who \in {"page", "event", "command"},
         NEW name \in GroupJobs, OpenOrder(s, who, name), tJob' = tJob
  PROVE  OrdersOK'
<1>1. /\ ~IsOpen(s) /\ events' = events + 1 /\ events \in Nat
      /\ \A t \in Sessions : t # s => page'[t] = page[t]
      /\ page'[s].who = who /\ page'[s].cJobName = name
      /\ page'[s].order = events + 1 /\ page'[s].left = Nodes
  BY OpenEffect DEF TypeOK, OrderIds
<1>2. \A t \in Sessions : t # s => page[t].order # events + 1
  BY <1>1, NoOrderType DEF OrdersOK
<1>3. \A n \in Nodes : \A j \in DOMAIN tJob[n] : tJob[n][j].order # events + 1
  BY <1>1 DEF OrdersOK
<1>4. /\ \A n \in Nodes : \A j \in DOMAIN tJob[n] : tJob[n][j].order \in 1 .. events'
      /\ \A t \in Sessions : IF page'[t].who = "none" THEN page'[t] = NoOrder
                             ELSE page'[t].order \in 1 .. events'
  BY <1>1 DEF OrdersOK
<1>5. \A t, u \in Sessions : page'[t].order = page'[u].order /\ page'[t].who # "none" => t = u
  BY <1>1, <1>2 DEF OrdersOK
<1>6. \A t \in Sessions, n \in Nodes : \A j \in DOMAIN tJob[n] :
            tJob[n][j].order = page'[t].order =>
                tJob[n][j].cJobName = page'[t].cJobName /\ n \notin page'[t].left
  BY <1>1, <1>3 DEF OrdersOK
<1> QED
  BY <1>4, <1>5, <1>6 DEF OrdersOK

LEMMA OrdersOfActivate ==
  ASSUME TypeOK, OrdersOK, NEW n \in Nodes, ActivateFirewall(n), page' = page
  PROVE  OrdersOK'
<1>1. PICK r \in JobRow : Added(n, r) /\ r.order = events + 1
  BY ActivateEffect
<1> DEFINE z == Len(tJob[n]) + 1
<1>2. events \in Nat /\ events' = events + 1
  BY ActivateEffect DEF TypeOK, OrderIds
<1>3. /\ \A k \in Nodes : k # n => tJob'[k] = tJob[k]
      /\ DOMAIN tJob'[n] = DOMAIN tJob[n] \cup {z} /\ z \notin DOMAIN tJob[n]
      /\ \A i \in DOMAIN tJob[n] : tJob'[n][i] = tJob[n][i]
      /\ tJob'[n][z].order = events + 1
  BY <1>1 DEF Added
<1> HIDE DEF z
<1>4. \A k \in Nodes : \A j \in DOMAIN tJob'[k] :
         \/ j \in DOMAIN tJob[k] /\ tJob'[k][j] = tJob[k][j]
         \/ k = n /\ j = z /\ tJob'[k][j].order = events + 1
  BY <1>3
<1>5. /\ \A k \in Nodes : \A j \in DOMAIN tJob[k] : tJob[k][j].order # events + 1
      /\ \A t \in Sessions : page[t].order # events + 1
  BY <1>2, NoOrderType DEF OrdersOK
<1>6. /\ \A k \in Nodes : \A j \in DOMAIN tJob'[k] : tJob'[k][j].order \in 1 .. events'
      /\ \A t \in Sessions : IF page[t].who = "none" THEN page[t] = NoOrder
                             ELSE page[t].order \in 1 .. events'
  BY <1>2, <1>4 DEF OrdersOK
<1>7. \A k \in Nodes : \A i, j \in DOMAIN tJob'[k] : tJob'[k][i].order = tJob'[k][j].order => i = j
  BY <1>4, <1>5 DEF OrdersOK
<1>8. \A m, k \in Nodes : \A i \in DOMAIN tJob'[m], j \in DOMAIN tJob'[k] :
            tJob'[m][i].order = tJob'[k][j].order => tJob'[m][i].cJobName = tJob'[k][j].cJobName
  BY <1>4, <1>5 DEF OrdersOK
<1>9. \A t \in Sessions, k \in Nodes : \A j \in DOMAIN tJob'[k] :
            tJob'[k][j].order = page[t].order =>
                tJob'[k][j].cJobName = page[t].cJobName /\ k \notin page[t].left
  BY <1>4, <1>5 DEF OrdersOK
<1>10. \A s, t \in Sessions : page[s].order = page[t].order /\ page[s].who # "none" => s = t
  BY DEF OrdersOK
<1> QED
  BY <1>6, <1>7, <1>8, <1>9, <1>10 DEF OrdersOK

LEMMA RunsOfStep ==
  ASSUME TypeOK, RunsOK, NEW n \in Nodes, \A k \in Nodes : k # n => tJob'[k] = tJob[k],
         \A k \in Nodes : k # n => run'[k] = run[k], RunOK(n)'
  PROVE  RunsOK'
BY DEF RunsOK, RunOK

LEMMA RunsOfAdd ==
  ASSUME TypeOK, RunsOK, NEW n \in Nodes, NEW r, Added(n, r), run' = run
  PROVE  RunsOK'
<1>1. /\ \A k \in Nodes : k # n => tJob'[k] = tJob[k]
      /\ DOMAIN tJob[n] \subseteq DOMAIN tJob'[n]
      /\ \A i \in DOMAIN tJob[n] : tJob'[n][i] = tJob[n][i]
  BY DEF Added
<1>2. RunOK(n)
  BY DEF RunsOK
<1>3. RunOK(n)'
  BY <1>1, <1>2 DEF RunOK, Busy
<1> QED
  BY <1>1, <1>3, RunsOfStep

LEMMA RunsOfCancel ==
  ASSUME TypeOK, RunsOK, NEW n \in Nodes, NEW j \in DOMAIN tJob[n],
         tJob[n][j].uJobStatus \in {"WAITING", "ERROR"}, StatusOnly(n, j, "CANCELED"), run' = run
  PROVE  RunsOK'
<1>1. /\ \A k \in Nodes : k # n => tJob'[k] = tJob[k]
      /\ DOMAIN tJob'[n] = DOMAIN tJob[n]
      /\ \A i \in DOMAIN tJob[n] :
            /\ tJob'[n][i].cJobName = tJob[n][i].cJobName
            /\ tJob'[n][i].uJobStatus = IF i = j THEN "CANCELED" ELSE tJob[n][i].uJobStatus
  BY DEF StatusOnly
<1>2. RunOK(n)
  BY DEF RunsOK
<1>3. RunOK(n)'
  BY <1>1, <1>2 DEF RunOK, Busy
<1> QED
  BY <1>1, <1>3, RunsOfStep
-----------------------------------------------------------------------------
(************************ What a runner's step does ************************)

\* Only the chain of node n changes, and it becomes S
ChainIs(n, S) ==
    /\ chain' \in [Nodes -> SUBSET Rules]
    /\ chain'[n] = S /\ \A k \in Nodes : k # n => chain'[k] = chain[k]

LEMMA ChainEffect ==
  ASSUME TypeOK, NEW n \in Nodes, NEW S \in SUBSET Rules, chain' = [chain EXCEPT ![n] = S]
  PROVE  ChainIs(n, S)
BY DEF TypeOK, ChainIs

LEMMA Noted ==
  ASSUME TypeOK, NEW why \in Doubts, NEW holds \in BOOLEAN, Note(why, holds)
  PROVE  doubt' \in SUBSET Doubts /\ (doubt' = {} => doubt = {} /\ ~holds)
BY DEF TypeOK, Note

LEMMA Verdicts ==
  ASSUME NEW name \in GroupJobs
  PROVE  /\ Deletes[name] \in SUBSET Rules /\ Inserts[name] \in SUBSET Rules
         /\ Untested[name] \in SUBSET Rules /\ Final[name] \in FWStatus /\ Final[name] \notin Waiting
         /\ Awaits[name] \in Waiting /\ Final[name] \in DOMAIN Verdict
         /\ Verdict[Final[name]] \in SUBSET Rules
<1>1. Deletes[name] \in SUBSET Rules /\ Inserts[name] \in SUBSET Rules
  BY DEF GroupJobs, Deletes, Inserts, Rules
<1>2. Untested[name] \in SUBSET Rules
  <2>1. Untested[name] = IF name = "RemoveAcceptFromIPTables" THEN {"DROP"}
                         ELSE IF name = "RemoveDropFromIPTables" THEN {} ELSE Deletes[name]
    BY DEF GroupJobs, Deletes, Untested
  <2> QED
    BY <1>1, <2>1 DEF Rules
<1>3. Final[name] \in {"BLOCKED", "ACCESS", "REMOVED"} /\ Awaits[name] \in Waiting
  BY DEF GroupJobs, Final, Awaits, Waiting
<1>4. \A st \in {"BLOCKED", "ACCESS", "REMOVED"} :
         /\ st \in FWStatus /\ st \notin Waiting /\ st \in DOMAIN Verdict
         /\ Verdict[st] \in SUBSET Rules
  BY DEF FWStatus, Waiting, Verdict, Rules
<1> QED
  BY <1>1, <1>2, <1>3, <1>4

LEMMA CommandedType ==
  ASSUME NEW name \in GroupJobs, NEW S \in SUBSET Rules, NEW kept
  PROVE  Commanded(name, S, kept) \in SUBSET Rules
BY Verdicts DEF Commanded

LEMMA InHand ==
  ASSUME TypeOK, RunsOK, NEW n \in Nodes, run[n].pc \in Busy
  PROVE  /\ run[n].cur \in DOMAIN tJob[n] /\ run[n].cur \notin run[n].rows
         /\ Cur(n) = tJob[n][run[n].cur] /\ Cur(n) \in JobRow
         /\ Cur(n).uJobStatus = IF run[n].pc \in {"check", "publish"} THEN "DONEOK" ELSE "RUNNING"
         /\ run[n].pc \in {"done", "check", "publish"} => Cur(n).cJobName \in GroupJobs
         /\ run[n].pc \in {"drops", "accepts", "started"} => Cur(n).cJobName = "StartIptables"
BY Tables DEF RunsOK, RunOK, Cur

LEMMA IptablesEffect ==
  ASSUME TypeOK, RunsOK, NEW n \in Nodes, Iptables(n)
  PROVE  /\ run[n].pc = "rules" /\ Cur(n).cJobName \in GroupJobs
         /\ RunIs(n, "done", run[n].rows, run[n].cur, run[n].uAllJobsDone)
         /\ \E S \in SUBSET Rules :
               /\ ChainIs(n, S)
               /\ doubt' = {} => S = Commanded(Cur(n).cJobName, chain[n], {})
         /\ doubt' \in SUBSET Doubts /\ (doubt' = {} => doubt = {})
<1>1. /\ run[n].pc = "rules" /\ Cur(n).cJobName \in GroupJobs /\ Goto(n, "done")
      /\ \E kept \in SUBSET (Untested[Cur(n).cJobName] \cap chain[n]) :
            /\ chain' = [chain EXCEPT ![n] = Commanded(Cur(n).cJobName, @, kept)]
            /\ Note("unnoticed", kept # {})
  BY DEF Iptables, InGroupJob
<1>2. PICK kept \in SUBSET (Untested[Cur(n).cJobName] \cap chain[n]) :
            /\ chain' = [chain EXCEPT ![n] = Commanded(Cur(n).cJobName, @, kept)]
            /\ Note("unnoticed", kept # {})
  BY <1>1
<1>3. chain[n] \in SUBSET Rules
  BY DEF TypeOK
<1> DEFINE S == Commanded(Cur(n).cJobName, chain[n], kept)
<1>4. S \in SUBSET Rules
  BY <1>1, <1>3, CommandedType
<1>5. chain' = [chain EXCEPT ![n] = S]
  BY <1>2 DEF TypeOK
<1>6. (kept # {}) \in BOOLEAN /\ "unnoticed" \in Doubts
  BY DEF Doubts
<1>7. doubt' \in SUBSET Doubts /\ (doubt' = {} => doubt = {} /\ kept = {})
  BY <1>2, <1>6, Noted
<1>8. doubt' = {} => S = Commanded(Cur(n).cJobName, chain[n], {})
  BY <1>7
<1> HIDE DEF S
<1>9. ChainIs(n, S)
  BY <1>4, <1>5, ChainEffect
<1>10. RunIs(n, "done", run[n].rows, run[n].cur, run[n].uAllJobsDone)
  BY <1>1, GotoEffect DEF Points
<1> QED
  BY <1>1, <1>4, <1>7, <1>8, <1>9, <1>10

\* Where a runner goes that is through with a row
Next1(n) == IF run[n].rows = {} THEN "idle" ELSE "loop"

LEMMA IptablesFailsEffect ==
  ASSUME TypeOK, RunsOK, NEW n \in Nodes, IptablesFails(n)
  PROVE  /\ run[n].pc = "rules" /\ Cur(n).cJobName \in GroupJobs
         /\ StatusOnly(n, run[n].cur, "ERROR") /\ RunIs(n, Next1(n), run[n].rows, 0, FALSE)
         /\ \E S \in SUBSET Rules : ChainIs(n, S)
         /\ events' = events + 1 /\ events' \in OrderIds
<1>1. /\ run[n].pc = "rules" /\ Cur(n).cJobName \in GroupJobs /\ SetCur(n, "ERROR") /\ Leave(n)
      /\ chain' = [chain EXCEPT ![n] = @ \ Untested[Cur(n).cJobName]]
      /\ events < MaxEvent /\ events' = events + 1
  BY DEF IptablesFails, InGroupJob, Count
<1>2. events' \in OrderIds
  BY <1>1 DEF TypeOK, OrderIds
<1>3. run[n].cur \in DOMAIN tJob[n] /\ "ERROR" \in JobStatus
  BY <1>1, InHand DEF Busy
<1>4. StatusOnly(n, run[n].cur, "ERROR")
  BY <1>1, <1>3, SetJobEffect DEF SetCur
<1>5. RunIs(n, Next1(n), run[n].rows, 0, FALSE)
  BY <1>1, LeaveEffect DEF Next1
<1> DEFINE S == chain[n] \ Untested[Cur(n).cJobName]
<1>6. chain' = [chain EXCEPT ![n] = S] /\ S \in SUBSET Rules
  BY <1>1 DEF TypeOK
<1> HIDE DEF S
<1>7. ChainIs(n, S)
  BY <1>6, ChainEffect
<1> QED
  BY <1>1, <1>2, <1>4, <1>5, <1>6, <1>7

LEMMA DoneEffect ==
  ASSUME TypeOK, RunsOK, NEW n \in Nodes, Done(n)
  PROVE  /\ run[n].pc = "done" /\ Cur(n).cJobName \in GroupJobs
         /\ StatusOnly(n, run[n].cur, "DONEOK")
         /\ RunIs(n, "check", run[n].rows, run[n].cur, run[n].uAllJobsDone)
<1>1. run[n].pc = "done" /\ SetCur(n, "DONEOK") /\ Goto(n, "check")
  BY DEF Done
<1>2. run[n].cur \in DOMAIN tJob[n] /\ "DONEOK" \in JobStatus /\ Cur(n).cJobName \in GroupJobs
  BY <1>1, InHand DEF Busy
<1>3. StatusOnly(n, run[n].cur, "DONEOK")
  BY <1>1, <1>2, SetJobEffect DEF SetCur
<1> QED
  BY <1>1, <1>2, <1>3, GotoEffect DEF Points

LEMMA PublishEffect ==
  ASSUME TypeOK, RunsOK, NEW n \in Nodes, Publish(n)
  PROVE  /\ run[n].pc = "publish" /\ Cur(n).cJobName \in GroupJobs
         /\ RunIs(n, Next1(n), run[n].rows, 0, FALSE)
         /\ uFWStatus' \in FWStatus
         /\ doubt' \in SUBSET Doubts /\ (doubt' = {} => doubt = {})
         /\ ~run[n].uAllJobsDone => uFWStatus' = uFWStatus
         /\ doubt' = {} /\ run[n].uAllJobsDone => uFWStatus' = Final[Cur(n).cJobName]
<1>1. run[n].pc = "publish" /\ Leave(n)
  BY DEF Publish
<1>2. /\ run[n].uAllJobsDone => \/ uFWStatus' = Final[Cur(n).cJobName] /\ doubt' = doubt
                                \/ uFWStatus' = uFWStatus /\ Note("update", TRUE)
      /\ ~run[n].uAllJobsDone => uFWStatus' = uFWStatus /\ doubt' = doubt
  BY DEF Publish
<1>3. Cur(n).cJobName \in GroupJobs /\ Final[Cur(n).cJobName] \in FWStatus
  BY <1>1, InHand, Verdicts DEF Busy
<1>4. uFWStatus \in FWStatus /\ doubt \in SUBSET Doubts /\ "update" \in Doubts
  BY DEF TypeOK, Doubts
<1>5. Note("update", TRUE) => doubt' \in SUBSET Doubts /\ doubt' # {}
  BY <1>4 DEF Note
<1>6. RunIs(n, Next1(n), run[n].rows, 0, FALSE)
  BY <1>1, LeaveEffect DEF Next1
<1> QED
  BY <1>1, <1>2, <1>3, <1>4, <1>5, <1>6

LEMMA RestartEffect ==
  ASSUME TypeOK, RunsOK, NEW n \in Nodes, Restart(n)
  PROVE  /\ run[n].pc = "rules" /\ Cur(n).cJobName = "StartIptables" /\ ChainIs(n, {})
         /\ \/ /\ RunIs(n, "drops", run[n].rows, run[n].cur, run[n].uAllJobsDone)
               /\ tJob' = tJob /\ events' = events
            \/ /\ RunIs(n, Next1(n), run[n].rows, 0, FALSE)
               /\ StatusOnly(n, run[n].cur, "ERROR")
               /\ events' = events + 1 /\ events' \in OrderIds
<1>1. /\ run[n].pc = "rules" /\ Cur(n).cJobName = "StartIptables"
      /\ chain' = [chain EXCEPT ![n] = {}]
      /\ \/ Goto(n, "drops") /\ UNCHANGED <<tJob, events>>
         \/ Leave(n) /\ SetCur(n, "ERROR") /\ Count
  BY DEF Restart
<1>2. ChainIs(n, {})
  <2>1. {} \in SUBSET Rules
    OBVIOUS
  <2> QED
    BY <1>1, <2>1, ChainEffect
<1>3. run[n].cur \in DOMAIN tJob[n] /\ "ERROR" \in JobStatus
  BY <1>1, InHand DEF Busy
<1>4. CASE Goto(n, "drops") /\ UNCHANGED <<tJob, events>>
  BY <1>1, <1>2, <1>4, GotoEffect DEF Points
<1>5. CASE Leave(n) /\ SetCur(n, "ERROR") /\ Count
  <2>1. events' = events + 1 /\ events' \in OrderIds
    BY <1>5 DEF Count, TypeOK, OrderIds
  <2>2. StatusOnly(n, run[n].cur, "ERROR")
    BY <1>3, <1>5, SetJobEffect DEF SetCur
  <2>3. RunIs(n, Next1(n), run[n].rows, 0, FALSE)
    BY <1>5, LeaveEffect DEF Next1
  <2> QED
    BY <1>1, <1>2, <2>1, <2>2, <2>3
<1> QED
  BY <1>1, <1>4, <1>5

LEMMA RestoreEffect ==
  ASSUME TypeOK, RunsOK, NEW n \in Nodes, NEW at \in Points, NEW next \in Points, NEW rule \in Rules,
         Restore(n, at, next, rule)
  PROVE  /\ run[n].pc = at /\ RunIs(n, next, run[n].rows, run[n].cur, run[n].uAllJobsDone)
         /\ \E S \in SUBSET Rules :
               /\ ChainIs(n, S)
               /\ doubt' = {} => ~Hidden /\ S = chain[n] \cup Restored(rule, uFWStatus)
         /\ doubt' \in SUBSET Doubts /\ (doubt' = {} => doubt = {})
<1>1. /\ run[n].pc = at /\ Goto(n, next)
      /\ \/ /\ chain' = [chain EXCEPT ![n] = @ \cup Restored(rule, uFWStatus)]
            /\ Note("hidden", Hidden)
         \/ chain' = chain /\ Note("unnoticed", TRUE)
  BY DEF Restore
<1>2. RunIs(n, next, run[n].rows, run[n].cur, run[n].uAllJobsDone)
  BY <1>1, GotoEffect
<1>3. CASE /\ chain' = [chain EXCEPT ![n] = @ \cup Restored(rule, uFWStatus)]
           /\ Note("hidden", Hidden)
  <2> DEFINE S == chain[n] \cup Restored(rule, uFWStatus)
  <2>1. chain' = [chain EXCEPT ![n] = S] /\ S \in SUBSET Rules
    BY <1>3 DEF TypeOK, Restored
  <2>2. ChainIs(n, S)
    BY <2>1, ChainEffect
  <2>3. doubt' \in SUBSET Doubts /\ (doubt' = {} => doubt = {} /\ ~Hidden)
    BY <1>3 DEF Note, TypeOK, Doubts
  <2> QED
    BY <1>1, <1>2, <2>1, <2>2, <2>3
<1>4. CASE chain' = chain /\ Note("unnoticed", TRUE)
  <2>1. ChainIs(n, chain[n]) /\ chain[n] \in SUBSET Rules
    BY <1>4 DEF ChainIs, TypeOK
  <2>2. doubt' \in SUBSET Doubts /\ doubt' # {}
    BY <1>4 DEF Note, TypeOK, Doubts
  <2> QED
    BY <1>1, <1>2, <2>1, <2>2
<1> QED
  BY <1>1, <1>3, <1>4

LEMMA StartDoneEffect ==
  ASSUME TypeOK, RunsOK, NEW n \in Nodes, StartDone(n)
  PROVE  /\ run[n].pc = "started" /\ Cur(n).cJobName = "StartIptables"
         /\ StatusOnly(n, run[n].cur, "DONEOK") /\ RunIs(n, Next1(n), run[n].rows, 0, FALSE)
<1>1. run[n].pc = "started" /\ SetCur(n, "DONEOK") /\ Leave(n)
  BY DEF StartDone
<1>2. run[n].cur \in DOMAIN tJob[n] /\ "DONEOK" \in JobStatus /\ Cur(n).cJobName = "StartIptables"
  BY <1>1, InHand DEF Busy
<1>3. StatusOnly(n, run[n].cur, "DONEOK")
  BY <1>1, <1>2, SetJobEffect DEF SetCur
<1> QED
  BY <1>1, <1>2, <1>3, LeaveEffect DEF Next1
-----------------------------------------------------------------------------
(************************ The first invariant holds ************************)

LEMMA TypeParts ==
  ASSUME IndType
  PROVE  /\ TypeOK /\ OrdersOK /\ RunsOK /\ events \in OrderIds /\ events \in Nat
         /\ tJob \in [Nodes -> Seq(JobRow)] /\ uFWStatus \in FWStatus
         /\ chain \in [Nodes -> SUBSET Rules] /\ page \in [Sessions -> Orders]
         /\ run \in [Nodes -> Runners] /\ doubt \in SUBSET Doubts
BY DEF IndType, TypeOK, OrderIds

LEMMA SameOrdersOf ==
  ASSUME NEW n \in Nodes, NEW j, NEW st, StatusOnly(n, j, st) \/ tJob' = tJob
  PROVE  SameOrders
BY DEF StatusOnly, SameOrders

(* The steps of a runner, once its own state is known to be right.          *)
LEMMA IndOfRunner ==
  ASSUME IndType, NEW n \in Nodes, RunOK(n)', page' = page,
         \/ tJob' = tJob \/ \E j, st : StatusOnly(n, j, st),
         \E p, R, c, u : RunIs(n, p, R, c, u),
         events' \in OrderIds, events <= events', uFWStatus' \in FWStatus,
         chain' \in [Nodes -> SUBSET Rules], doubt' \in SUBSET Doubts
  PROVE  IndType'
<1>1. SameOrders
  BY SameOrdersOf
<1>2. PagesKept /\ page' \in [Sessions -> Orders] /\ events' \in Nat
  BY TypeParts DEF PagesKept, OrderIds
<1>3. OrdersOK'
  BY <1>1, <1>2, TypeParts, OrdersOfPages
<1>4. /\ tJob' \in [Nodes -> Seq(JobRow)]
      /\ \A k \in Nodes : k # n => tJob'[k] = tJob[k]
  BY TypeParts DEF StatusOnly
<1>5. /\ run' \in [Nodes -> RunnerStates]
      /\ \A k \in Nodes : k # n => run'[k] = run[k]
  BY DEF RunIs
<1>6. RunsOK'
  BY <1>4, <1>5, TypeParts, RunsOfStep
<1>7. run' \in [Nodes -> Runners]
  BY <1>3, <1>4, <1>5, <1>6, WithinBounds
<1> QED
  BY <1>2, <1>3, <1>4, <1>6, <1>7 DEF IndType, TypeOK

(* The steps of the pages.                                                  *)
LEMMA IndOfPage ==
  ASSUME IndType, OrdersOK', RunsOK', run' = run, tJob' \in [Nodes -> Seq(JobRow)],
         page' \in [Sessions -> Orders], events' \in OrderIds, uFWStatus' \in FWStatus,
         chain' = chain, doubt' \in SUBSET Doubts
  PROVE  IndType'
BY TypeParts DEF IndType, TypeOK

LEMMA InsertKeeps ==
  ASSUME IndType, NEW s \in Sessions, NEW n \in Nodes, InsertJob(s, n)
  PROVE  IndType'
<1>1. UNCHANGED <<events, uFWStatus, chain, run, doubt>>
  BY DEF InsertJob, InsertRow
<1>2. OrdersOK'
  BY <1>1, TypeParts, OrdersOfInsert
<1>3. PICK r \in JobRow : Added(n, r)
  BY TypeParts, InsertEffect
<1>4. RunsOK'
  BY <1>1, <1>3, TypeParts, RunsOfAdd
<1>5. page' \in [Sessions -> Orders] /\ tJob' \in [Nodes -> Seq(JobRow)]
  BY <1>3, TypeParts, InsertEffect DEF Added
<1> QED
  BY <1>1, <1>2, <1>4, <1>5, TypeParts, IndOfPage

LEMMA PageKeeps ==
  ASSUME IndType, PagesKept, UNCHANGED <<tJob, chain, run>>,
         events' \in OrderIds, events <= events', uFWStatus' \in FWStatus, doubt' \in SUBSET Doubts
  PROVE  IndType'
<1>1. SameOrders
  BY DEF SameOrders
<1>2. events' \in Nat /\ page' \in [Sessions -> Orders] /\ tJob' \in [Nodes -> Seq(JobRow)]
  BY TypeParts DEF OrderIds, PagesKept
<1>3. OrdersOK'
  BY <1>1, <1>2, TypeParts, OrdersOfPages
<1>4. RunsOK'
  BY TypeParts DEF RunsOK, RunOK
<1> QED
  BY <1>2, <1>3, <1>4, IndOfPage

LEMMA SetWaitingEffect ==
  ASSUME TypeOK, NEW s \in Sessions, SetWaiting(s)
  PROVE  /\ IsOpen(s) /\ page[s].left = {} /\ PagesKept /\ page'[s] = NoOrder
         /\ \A t \in Sessions : t # s => page'[t] = page[t]
         /\ UNCHANGED <<tJob, events, chain, run>>
         /\ uFWStatus' \in FWStatus /\ doubt' \in SUBSET Doubts
         /\ doubt' = {} => doubt = {} /\ uFWStatus' = Awaits[page[s].cJobName]
<1>1. /\ IsOpen(s) /\ page[s].left = {} /\ page' = [page EXCEPT ![s] = NoOrder]
      /\ UNCHANGED <<tJob, events, chain, run>>
  BY DEF SetWaiting, IsOpen
<1>2. \/ uFWStatus' = Awaits[page[s].cJobName] /\ doubt' = doubt
      \/ uFWStatus' = uFWStatus /\ Note("update", TRUE)
  BY DEF SetWaiting
<1>3. Awaits[page[s].cJobName] \in FWStatus
  BY PageType, Verdicts DEF FWStatus
<1>4. uFWStatus \in FWStatus /\ doubt \in SUBSET Doubts /\ "update" \in Doubts
  BY DEF TypeOK, Doubts
<1>5. Note("update", TRUE) => doubt' \in SUBSET Doubts /\ doubt' # {}
  BY <1>4 DEF Note
<1> QED
  BY <1>1, <1>2, <1>3, <1>4, <1>5, CloseEffect

LEMMA OrderKeeps ==
  ASSUME IndType, Order
  PROVE  IndType'
<1>1. ASSUME NEW s \in Sessions, NEW who \in {"page", "event", "command"}, NEW name \in GroupJobs,
             OpenOrder(s, who, name)
      PROVE  IndType'
  <2>1. UNCHANGED <<tJob, uFWStatus, chain, run>> /\ doubt' \in SUBSET Doubts
    BY <1>1, TypeParts DEF OpenOrder, Doubts
  <2>2. OrdersOK'
    BY <1>1, <2>1, TypeParts, OrdersOfOpen
  <2>3. page' \in [Sessions -> Orders] /\ events' \in OrderIds
    BY <1>1, TypeParts, OpenEffect
  <2>4. RunsOK' /\ tJob' \in [Nodes -> Seq(JobRow)]
    BY <2>1, TypeParts DEF RunsOK, RunOK
  <2> QED
    BY <2>1, <2>2, <2>3, <2>4, TypeParts, IndOfPage
<1>2. ASSUME NEW s \in Sessions, InsertFails(s) PROVE IndType'
  <2>1. /\ UNCHANGED <<tJob, uFWStatus, chain, run>> /\ events < MaxEvent /\ events' = events + 1
        /\ Note("partial", page[s].left # Nodes)
    BY <1>2 DEF InsertFails, Count
  <2>2. doubt' \in SUBSET Doubts
    BY <2>1, TypeParts DEF Note, Doubts
  <2>3. events' \in OrderIds /\ events <= events' /\ PagesKept
    BY <1>2, <2>1, TypeParts, FailEffect DEF OrderIds
  <2> QED
    BY <2>1, <2>2, <2>3, TypeParts, PageKeeps
<1>3. ASSUME NEW n \in Nodes, ActivateFirewall(n) PROVE IndType'
  <2>1. UNCHANGED <<uFWStatus, chain, page, run, doubt>>
    BY <1>3 DEF ActivateFirewall
  <2>2. PICK r \in JobRow : Added(n, r)
    BY <1>3, TypeParts, ActivateEffect
  <2>3. events' \in OrderIds /\ OrdersOK' /\ RunsOK' /\ tJob' \in [Nodes -> Seq(JobRow)]
    BY <1>3, <2>1, <2>2, TypeParts, ActivateEffect, OrdersOfActivate, RunsOfAdd DEF Added
  <2> QED
    BY <2>1, <2>3, TypeParts, IndOfPage
<1>4. ASSUME NEW n \in Nodes, NEW j \in DOMAIN tJob[n], GroupCancel(n, j) PROVE IndType'
  <2>1. /\ tJob[n][j].uJobStatus \in {"WAITING", "ERROR"} /\ SetJob(n, j, "CANCELED")
        /\ events < MaxEvent /\ events' = events + 1 /\ UNCHANGED <<uFWStatus, chain, page, run, doubt>>
    BY <1>4 DEF GroupCancel, Count
  <2>2. StatusOnly(n, j, "CANCELED")
    <3>1. "CANCELED" \in JobStatus
      OBVIOUS
    <3> QED
      BY <2>1, <3>1, TypeParts, SetJobEffect
  <2>3. events' \in OrderIds /\ events' \in Nat /\ events <= events'
    BY <2>1, TypeParts DEF OrderIds
  <2>4. SameOrders /\ PagesKept
    BY <2>1, <2>2, TypeParts, SameOrdersOf DEF PagesKept
  <2>5. OrdersOK'
    BY <2>3, <2>4, TypeParts, OrdersOfPages
  <2>6. RunsOK'
    BY <2>1, <2>2, TypeParts, RunsOfCancel
  <2> QED
    BY <2>1, <2>2, <2>3, <2>5, <2>6, TypeParts, IndOfPage DEF StatusOnly
<1> QED
  BY <1>1, <1>2, <1>3, <1>4 DEF Order

(* A runner that leaves a row, or goes on with it.                          *)
LEMMA RunOfLeave ==
  ASSUME TypeOK, RunsOK, NEW n \in Nodes, run[n].pc \in Busy, NEW st, NEW u,
         tJob' = tJob \/ StatusOnly(n, run[n].cur, st), RunIs(n, Next1(n), run[n].rows, 0, u)
  PROVE  RunOK(n)'
<1>1. RunOK(n) /\ run[n].cur \notin run[n].rows
  BY InHand DEF RunsOK
<1>2. /\ DOMAIN tJob'[n] = DOMAIN tJob[n]
      /\ \A i \in DOMAIN tJob[n] : i # run[n].cur => tJob'[n][i].uJobStatus = tJob[n][i].uJobStatus
  BY DEF StatusOnly
<1>3. /\ run'[n].pc = Next1(n) /\ run'[n].rows = run[n].rows /\ run'[n].cur = 0
  BY DEF RunIs
<1> QED
  BY <1>1, <1>2, <1>3 DEF RunOK, Busy, Next1

LEMMA RunOfGoto ==
  ASSUME TypeOK, RunsOK, NEW n \in Nodes, run[n].pc \in Busy, tJob' = tJob, NEW p, NEW u,
         RunIs(n, p, run[n].rows, run[n].cur, u),
         \/ run[n].pc = "rules" /\ Cur(n).cJobName \in GroupJobs /\ p = "done"
         \/ run[n].pc = "rules" /\ Cur(n).cJobName = "StartIptables" /\ p = "drops"
         \/ run[n].pc = "check" /\ p = "publish"
         \/ run[n].pc = "drops" /\ p = "accepts"
         \/ run[n].pc = "accepts" /\ p = "started"
  PROVE  RunOK(n)'
<1>1. RunOK(n) /\ Cur(n) = tJob[n][run[n].cur]
  BY InHand DEF RunsOK
<1>3. run'[n].pc = p /\ run'[n].rows = run[n].rows /\ run'[n].cur = run[n].cur
  BY DEF RunIs
<1> QED
  BY <1>1, <1>3 DEF RunOK, Busy

LEMMA ProceedKeeps ==
  ASSUME IndType, NEW n \in Nodes, Proceed(n)
  PROVE  IndType'
<1>0. events <= events /\ RunOK(n)
  BY TypeParts DEF RunsOK
<1>1. CASE Select(n)
  <2>1. UNCHANGED <<tJob, events, uFWStatus, chain, page>> /\ run[n].pc = "idle"
    BY <1>1 DEF Select
  <2>2. RunIs(n, "loop", Due(n), 0, run[n].uAllJobsDone)
    BY <1>1, TypeParts, SelectEffect
  <2>3. RunOK(n)'
    BY <2>1, <2>2 DEF RunIs, RunOK, Due, Busy
  <2>4. doubt' \in SUBSET Doubts
    BY <1>1, TypeParts DEF Select, Note, Doubts
  <2> QED
    BY <1>0, <2>1, <2>2, <2>3, <2>4, TypeParts, IndOfRunner
<1>2. CASE Begin(n)
  <2>1. UNCHANGED <<events, uFWStatus, chain, page, doubt>>
    BY <1>2 DEF Begin
  <2>2. PICK j \in run[n].rows :
            /\ j \in DOMAIN tJob[n] /\ StatusOnly(n, j, "RUNNING")
            /\ RunIs(n, "rules", run[n].rows \ {j}, j, run[n].uAllJobsDone)
    BY <1>2, TypeParts, BeginEffect
  <2>3. RunOK(n)'
    <3>1. /\ DOMAIN tJob'[n] = DOMAIN tJob[n] /\ tJob'[n][j].uJobStatus = "RUNNING"
          /\ \A i \in DOMAIN tJob[n] : i # j => tJob'[n][i].uJobStatus = tJob[n][i].uJobStatus
      BY <2>2 DEF StatusOnly
    <3>2. run'[n].pc = "rules" /\ run'[n].rows = run[n].rows \ {j} /\ run'[n].cur = j
      BY <2>2 DEF RunIs
    <3> QED
      BY <1>0, <2>2, <3>1, <3>2 DEF RunOK, Busy
  <2> QED
    BY <1>0, <2>1, <2>2, <2>3, TypeParts, IndOfRunner
<1>3. CASE Iptables(n)
  <2>1. UNCHANGED <<tJob, events, uFWStatus, page>>
    BY <1>3 DEF Iptables
  <2>2. /\ run[n].pc = "rules" /\ Cur(n).cJobName \in GroupJobs
        /\ RunIs(n, "done", run[n].rows, run[n].cur, run[n].uAllJobsDone)
        /\ chain' \in [Nodes -> SUBSET Rules] /\ doubt' \in SUBSET Doubts
    BY <1>3, TypeParts, IptablesEffect DEF ChainIs
  <2>3. RunOK(n)'
    BY <2>1, <2>2, TypeParts, RunOfGoto DEF Busy
  <2> QED
    BY <1>0, <2>1, <2>2, <2>3, TypeParts, IndOfRunner
<1>4. CASE Done(n)
  <2>1. UNCHANGED <<events, uFWStatus, chain, page, doubt>>
    BY <1>4 DEF Done
  <2>2. /\ run[n].pc = "done" /\ Cur(n).cJobName \in GroupJobs
        /\ StatusOnly(n, run[n].cur, "DONEOK")
        /\ RunIs(n, "check", run[n].rows, run[n].cur, run[n].uAllJobsDone)
    BY <1>4, TypeParts, DoneEffect
  <2>3. RunOK(n)'
    <3>1. run[n].cur \in DOMAIN tJob[n] /\ run[n].cur \notin run[n].rows /\ Cur(n) = tJob[n][run[n].cur]
      BY <2>2, TypeParts, InHand DEF Busy
    <3>2. /\ DOMAIN tJob'[n] = DOMAIN tJob[n] /\ tJob'[n][run[n].cur].uJobStatus = "DONEOK"
          /\ tJob'[n][run[n].cur].cJobName = tJob[n][run[n].cur].cJobName
          /\ \A i \in DOMAIN tJob[n] : i # run[n].cur => tJob'[n][i].uJobStatus = tJob[n][i].uJobStatus
      BY <2>2, <3>1 DEF StatusOnly
    <3>3. run'[n].pc = "check" /\ run'[n].rows = run[n].rows /\ run'[n].cur = run[n].cur
      BY <2>2 DEF RunIs
    <3> QED
      BY <1>0, <2>2, <3>1, <3>2, <3>3 DEF RunOK, Busy
  <2> QED
    BY <1>0, <2>1, <2>2, <2>3, TypeParts, IndOfRunner
<1>5. CASE Check(n)
  <2>1. UNCHANGED <<tJob, events, uFWStatus, chain, page>> /\ run[n].pc = "check"
    BY <1>5 DEF Check
  <2>2. PICK all \in BOOLEAN : /\ RunIs(n, "publish", run[n].rows, run[n].cur, all)
                               /\ Note("check", all # GroupDone(Cur(n)))
    BY <1>5, TypeParts, CheckEffect
  <2>3. doubt' \in SUBSET Doubts
    BY <2>2, TypeParts DEF Note, Doubts
  <2>4. RunOK(n)'
    BY <2>1, <2>2, TypeParts, RunOfGoto DEF Busy
  <2> QED
    BY <1>0, <2>1, <2>2, <2>3, <2>4, TypeParts, IndOfRunner
<1>6. CASE Publish(n)
  <2>1. UNCHANGED <<tJob, events, chain, page>>
    BY <1>6 DEF Publish
  <2>2. /\ run[n].pc = "publish" /\ RunIs(n, Next1(n), run[n].rows, 0, FALSE)
        /\ uFWStatus' \in FWStatus /\ doubt' \in SUBSET Doubts
    BY <1>6, TypeParts, PublishEffect
  <2>3. RunOK(n)'
    BY <2>1, <2>2, TypeParts, RunOfLeave DEF Busy
  <2> QED
    BY <1>0, <2>1, <2>2, <2>3, TypeParts, IndOfRunner
<1>7. CASE Restart(n)
  <2>1. UNCHANGED <<uFWStatus, page, doubt>>
    BY <1>7 DEF Restart
  <2>2. /\ run[n].pc = "rules" /\ Cur(n).cJobName = "StartIptables" /\ ChainIs(n, {})
        /\ \/ /\ RunIs(n, "drops", run[n].rows, run[n].cur, run[n].uAllJobsDone)
              /\ tJob' = tJob /\ events' = events
           \/ /\ RunIs(n, Next1(n), run[n].rows, 0, FALSE)
              /\ StatusOnly(n, run[n].cur, "ERROR")
              /\ events' = events + 1 /\ events' \in OrderIds
    BY <1>7, TypeParts, RestartEffect
  <2>3. RunOK(n)'
    BY <2>2, TypeParts, RunOfGoto, RunOfLeave DEF Busy
  <2>4. chain' \in [Nodes -> SUBSET Rules]
    BY <2>2 DEF ChainIs
  <2>5. events' \in OrderIds /\ events <= events'
    <3>1. (events' = events) \/ (events' = events + 1 /\ events' \in OrderIds)
      BY <2>2
    <3> QED
      BY <3>1, TypeParts
  <2> QED
    BY <2>1, <2>2, <2>3, <2>4, <2>5, TypeParts, IndOfRunner
<1>8. ASSUME NEW rule \in Rules, NEW at \in Points, NEW next \in Points, Restore(n, at, next, rule),
             \/ at = "drops" /\ next = "accepts"
             \/ at = "accepts" /\ next = "started"
      PROVE  IndType'
  <2>1. UNCHANGED <<tJob, events, uFWStatus, page>>
    BY <1>8 DEF Restore
  <2>2. /\ run[n].pc = at /\ RunIs(n, next, run[n].rows, run[n].cur, run[n].uAllJobsDone)
        /\ chain' \in [Nodes -> SUBSET Rules] /\ doubt' \in SUBSET Doubts
    BY <1>8, TypeParts, RestoreEffect DEF ChainIs
  <2>3. RunOK(n)'
    BY <1>8, <2>1, <2>2, TypeParts, RunOfGoto DEF Busy
  <2> QED
    BY <1>0, <2>1, <2>2, <2>3, TypeParts, IndOfRunner
<1>9. CASE RestoreDrops(n) \/ RestoreAccepts(n)
  BY <1>8, <1>9 DEF RestoreDrops, RestoreAccepts, Rules, Points
<1>10. CASE StartDone(n)
  <2>1. UNCHANGED <<events, uFWStatus, chain, page, doubt>>
    BY <1>10 DEF StartDone
  <2>2. /\ run[n].pc = "started" /\ StatusOnly(n, run[n].cur, "DONEOK")
        /\ RunIs(n, Next1(n), run[n].rows, 0, FALSE)
    BY <1>10, TypeParts, StartDoneEffect
  <2>3. RunOK(n)'
    BY <2>2, TypeParts, RunOfLeave DEF Busy
  <2> QED
    BY <1>0, <2>1, <2>2, <2>3, TypeParts, IndOfRunner
<1> QED
  BY <1>1, <1>2, <1>3, <1>4, <1>5, <1>6, <1>7, <1>9, <1>10 DEF Proceed

LEMMA FailKeeps ==
  ASSUME IndType, NEW n \in Nodes, Fail(n)
  PROVE  IndType'
<1>0. RunOK(n)
  BY TypeParts DEF RunsOK
<1>1. CASE Postpone(n)
  <2>1. UNCHANGED <<uFWStatus, chain, page, doubt>> /\ run[n].pc = "loop"
        /\ events < MaxEvent /\ events' = events + 1
    BY <1>1 DEF Postpone, Count
  <2>2. PICK j \in run[n].rows :
            /\ j \in DOMAIN tJob[n] /\ StatusOnly(n, j, "WAITING")
            /\ RunIs(n, IF run[n].rows = {j} THEN "idle" ELSE "loop", run[n].rows \ {j}, 0,
                     run[n].uAllJobsDone)
    BY <1>1, TypeParts, PostponeEffect
  <2>3. RunOK(n)'
    <3>1. /\ DOMAIN tJob'[n] = DOMAIN tJob[n]
          /\ \A i \in DOMAIN tJob[n] : i # j => tJob'[n][i].uJobStatus = tJob[n][i].uJobStatus
      BY <2>2 DEF StatusOnly
    <3>2. /\ run'[n].pc = IF run[n].rows = {j} THEN "idle" ELSE "loop"
          /\ run'[n].rows = run[n].rows \ {j} /\ run'[n].cur = 0
      BY <2>2 DEF RunIs
    <3> QED
      BY <1>0, <2>2, <3>1, <3>2 DEF RunOK, Busy
  <2>4. events' \in OrderIds /\ events <= events'
    BY <2>1, TypeParts DEF OrderIds
  <2> QED
    BY <2>1, <2>2, <2>3, <2>4, TypeParts, IndOfRunner
<1>2. CASE IptablesFails(n)
  <2>1. UNCHANGED <<uFWStatus, page, doubt>>
    BY <1>2 DEF IptablesFails
  <2>2. /\ run[n].pc = "rules" /\ StatusOnly(n, run[n].cur, "ERROR")
        /\ RunIs(n, Next1(n), run[n].rows, 0, FALSE) /\ chain' \in [Nodes -> SUBSET Rules]
        /\ events' \in OrderIds /\ events' = events + 1
    BY <1>2, TypeParts, IptablesFailsEffect DEF ChainIs
  <2>3. RunOK(n)'
    BY <2>2, TypeParts, RunOfLeave DEF Busy
  <2>4. events <= events'
    BY <2>2, TypeParts
  <2> QED
    BY <2>1, <2>2, <2>3, <2>4, TypeParts, IndOfRunner
<1>3. CASE Die(n)
  <2>1. /\ UNCHANGED <<tJob, uFWStatus, chain, page, doubt>>
        /\ events < MaxEvent /\ events' = events + 1
    BY <1>3 DEF Die, Count
  <2>2. RunIs(n, "dead", {}, 0, FALSE)
    BY <1>3, TypeParts, DieEffect
  <2>3. RunOK(n)'
    BY <2>1, <2>2 DEF RunIs, RunOK, Busy
  <2>4. events' \in OrderIds /\ events <= events'
    BY <2>1, TypeParts DEF OrderIds
  <2> QED
    BY <2>1, <2>2, <2>3, <2>4, TypeParts, IndOfRunner
<1> QED
  BY <1>1, <1>2, <1>3 DEF Fail

LEMMA StutterKeeps ==
  ASSUME IndType, UNCHANGED vars
  PROVE  IndType'
<1>1. UNCHANGED <<tJob, events, uFWStatus, chain, page, run, doubt>>
  BY DEF vars
<1>2. PagesKept /\ events <= events'
  BY <1>1, TypeParts DEF PagesKept
<1> QED
  BY <1>1, <1>2, TypeParts, PageKeeps

LEMMA StepKeeps ==
  ASSUME IndType, [Next]_vars
  PROVE  IndType'
<1>1. ASSUME NEW s \in Sessions, Page(s) PROVE IndType'
  <2>1. CASE SetWaiting(s)
    <3>1. events <= events' /\ events' \in OrderIds
      BY <2>1, TypeParts, SetWaitingEffect
    <3> QED
      BY <2>1, <3>1, TypeParts, SetWaitingEffect, PageKeeps
  <2> QED
    BY <1>1, <2>1, InsertKeeps DEF Page
<1> QED
  BY <1>1, OrderKeeps, ProceedKeeps, FailKeeps, StutterKeeps DEF Next

LEMMA InitHolds == Init => IndType
<1> SUFFICES ASSUME Init PROVE IndType
  OBVIOUS
<1>1. /\ tJob = [n \in Nodes |-> <<>>] /\ events = 0 /\ uFWStatus = "none"
      /\ chain = [n \in Nodes |-> {}] /\ page = [s \in Sessions |-> NoOrder]
      /\ run = [n \in Nodes |-> Idle] /\ doubt = {}
  BY DEF Init
<1>2. Idle \in Runners /\ Idle.pc = "idle" /\ Idle.rows = {} /\ Idle.cur = 0
  BY DEF Idle, Runners, Points, OrderIds
<1>3. \A n \in Nodes : tJob[n] = <<>> /\ DOMAIN tJob[n] = {}
  BY <1>1
<1>4. TypeOK
  <2>1. <<>> \in Seq(JobRow)
    OBVIOUS
  <2> QED
    BY <1>1, <1>2, <2>1, NoOrderType DEF TypeOK, OrderIds, FWStatus
<1>5. OrdersOK
  BY <1>1, <1>3, NoOrderType DEF OrdersOK
<1>6. RunsOK
  BY <1>1, <1>2, <1>3 DEF RunsOK, RunOK, Busy
<1> QED
  BY <1>4, <1>5, <1>6 DEF IndType

\* The rows, the status, the chains, the pages and the runners keep the shape of
\* their tables and processes, however many orders, failures and exits there are.
THEOREM TypesKept == Spec => []TypeOK
<1>1. IndType /\ [Next]_vars => IndType'
  BY StepKeeps
<1>2. IndType => TypeOK
  BY TypeParts
<1> QED
  BY <1>1, <1>2, InitHolds, PTL DEF Spec
-----------------------------------------------------------------------------
(***************** The rows of an order that is being placed ***************)

LEMMA DoubtsStay ==
  ASSUME [Next]_vars
  PROVE  doubt' = {} => doubt = {}
<1>1. ASSUME NEW s \in Sessions, Page(s) PROVE doubt' = {} => doubt = {}
  BY <1>1 DEF Page, InsertJob, InsertRow, SetWaiting, Note
<1>2. ASSUME Order PROVE doubt' = {} => doubt = {}
  BY <1>2 DEF Order, OpenOrder, InsertFails, ActivateFirewall, GroupCancel, Note
<1>3. ASSUME NEW n \in Nodes, Proceed(n) PROVE doubt' = {} => doubt = {}
  BY <1>3 DEF Proceed, Select, Begin, Iptables, Done, Check, Publish, Restart, RestoreDrops,
              RestoreAccepts, Restore, StartDone, Note
<1>4. ASSUME NEW n \in Nodes, Fail(n) PROVE doubt' = {} => doubt = {}
  BY <1>4 DEF Fail, Postpone, IptablesFails, Die
<1> QED
  BY <1>1, <1>2, <1>3, <1>4 DEF Next, vars

\* What a step of the runner of n that is not a snapshot leaves alone
Moves(n) ==
    /\ SameOrders /\ \A k \in Nodes : k # n => tJob'[k] = tJob[k]
    /\ \A i \in DOMAIN tJob[n] :
          \/ tJob'[n][i].uJobStatus = tJob[n][i].uJobStatus
          \/ (i \in run[n].rows \/ i = run[n].cur) /\ tJob[n][i].uJobStatus # "DONEOK"
    /\ \A k \in Nodes : k # n => run'[k] = run[k]
    /\ run'[n].rows \subseteq run[n].rows
    /\ run'[n].cur \in {0, run[n].cur} \cup run[n].rows
    /\ page' = page

LEMMA MovesOf ==
  ASSUME IndType, NEW n \in Nodes, page' = page, NEW j, NEW p, NEW R, NEW c, NEW u, NEW st,
         tJob' = tJob \/ (StatusOnly(n, j, st) /\ tJob[n][j].uJobStatus # "DONEOK"),
         tJob' # tJob => j \in run[n].rows \cup {run[n].cur},
         RunIs(n, p, R, c, u), R \subseteq run[n].rows, c \in {0, run[n].cur} \cup run[n].rows
  PROVE  Moves(n)
<1>1. SameOrders
  BY SameOrdersOf
<1>2. /\ \A k \in Nodes : k # n => tJob'[k] = tJob[k]
      /\ \A i \in DOMAIN tJob[n] : tJob' # tJob /\ i # j => tJob'[n][i].uJobStatus = tJob[n][i].uJobStatus
  BY DEF StatusOnly
<1>3. /\ \A k \in Nodes : k # n => run'[k] = run[k]
      /\ run'[n].rows = R /\ run'[n].cur = c
  BY DEF RunIs
<1> QED
  BY <1>1, <1>2, <1>3 DEF Moves

LEMMA RunnerMoves ==
  ASSUME IndType, NEW n \in Nodes, Proceed(n) \/ Fail(n), ~Select(n)
  PROVE  Moves(n)
<1>0. /\ RunOK(n) /\ TypeOK /\ RunsOK
      /\ \A j \in run[n].rows : j \in DOMAIN tJob[n] /\ tJob[n][j].uJobStatus # "DONEOK"
      /\ Cur(n) = tJob[n][run[n].cur]
  BY TypeParts DEF RunsOK, RunOK, Cur
<1>1. CASE Begin(n)
  <2>1. PICK j \in run[n].rows :
            /\ j \in DOMAIN tJob[n] /\ StatusOnly(n, j, "RUNNING")
            /\ RunIs(n, "rules", run[n].rows \ {j}, j, run[n].uAllJobsDone)
    BY <1>0, <1>1, BeginEffect
  <2>2. page' = page
    BY <1>1 DEF Begin
  <2> QED
    BY <1>0, <2>1, <2>2, MovesOf
<1>2. CASE Iptables(n)
  BY <1>0, <1>2, IptablesEffect, MovesOf DEF Iptables
<1>3. CASE Done(n)
  <2>1. /\ StatusOnly(n, run[n].cur, "DONEOK") /\ tJob[n][run[n].cur].uJobStatus # "DONEOK"
        /\ RunIs(n, "check", run[n].rows, run[n].cur, run[n].uAllJobsDone) /\ page' = page
    BY <1>0, <1>3, DoneEffect, InHand DEF Done, Busy
  <2> QED
    BY <2>1, MovesOf
<1>4. CASE Check(n)
  BY <1>0, <1>4, CheckEffect, MovesOf DEF Check
<1>5. CASE Publish(n)
  BY <1>0, <1>5, PublishEffect, MovesOf DEF Publish
<1>6. CASE Restart(n)
  <2>1. page' = page /\ tJob[n][run[n].cur].uJobStatus # "DONEOK"
    BY <1>0, <1>6, InHand DEF Restart, Busy
  <2>2. \/ RunIs(n, "drops", run[n].rows, run[n].cur, run[n].uAllJobsDone) /\ tJob' = tJob
        \/ RunIs(n, Next1(n), run[n].rows, 0, FALSE) /\ StatusOnly(n, run[n].cur, "ERROR")
    BY <1>0, <1>6, RestartEffect
  <2> QED
    BY <2>1, <2>2, MovesOf
<1>7. ASSUME NEW rule \in Rules, NEW at \in Points, NEW next \in Points, Restore(n, at, next, rule)
      PROVE  Moves(n)
  <2>1. page' = page /\ tJob' = tJob
    BY <1>7 DEF Restore
  <2>2. RunIs(n, next, run[n].rows, run[n].cur, run[n].uAllJobsDone)
    BY <1>0, <1>7, RestoreEffect
  <2> QED
    BY <2>1, <2>2, MovesOf
<1>8. CASE RestoreDrops(n) \/ RestoreAccepts(n)
  BY <1>7, <1>8 DEF RestoreDrops, RestoreAccepts, Rules, Points
<1>9. CASE StartDone(n)
  <2>1. /\ StatusOnly(n, run[n].cur, "DONEOK") /\ tJob[n][run[n].cur].uJobStatus # "DONEOK"
        /\ RunIs(n, Next1(n), run[n].rows, 0, FALSE) /\ page' = page
    BY <1>0, <1>9, StartDoneEffect, InHand DEF StartDone, Busy
  <2> QED
    BY <2>1, MovesOf
<1>10. CASE Postpone(n)
  <2>1. PICK j \in run[n].rows :
            /\ j \in DOMAIN tJob[n] /\ StatusOnly(n, j, "WAITING")
            /\ RunIs(n, IF run[n].rows = {j} THEN "idle" ELSE "loop", run[n].rows \ {j}, 0,
                     run[n].uAllJobsDone)
    BY <1>0, <1>10, PostponeEffect
  <2>2. page' = page
    BY <1>10 DEF Postpone
  <2> QED
    BY <1>0, <2>1, <2>2, MovesOf
<1>11. CASE IptablesFails(n)
  <2>1. /\ StatusOnly(n, run[n].cur, "ERROR") /\ tJob[n][run[n].cur].uJobStatus # "DONEOK"
        /\ RunIs(n, Next1(n), run[n].rows, 0, FALSE) /\ page' = page
    BY <1>0, <1>11, IptablesFailsEffect, InHand DEF IptablesFails, Busy
  <2> QED
    BY <2>1, MovesOf
<1>12. CASE Die(n)
  <2>1. RunIs(n, "dead", {}, 0, FALSE) /\ page' = page /\ tJob' = tJob
    BY <1>0, <1>12, DieEffect DEF Die
  <2> QED
    BY <2>1, MovesOf
<1> QED
  BY <1>1, <1>2, <1>3, <1>4, <1>5, <1>6, <1>8, <1>9, <1>10, <1>11, <1>12 DEF Proceed, Fail

LEMMA SameGroups ==
  ASSUME SameOrders
  PROVE  \A k \in Nodes : /\ Group(k)' = Group(k)
                          /\ \A i \in Group(k) : /\ tJob'[k][i].order = tJob[k][i].order
                                                 /\ tJob'[k][i].cJobName = tJob[k][i].cJobName
BY DEF SameOrders, Group

LEMMA PlacedOfMoves ==
  ASSUME IndType, PlacedOK, NEW n \in Nodes, Moves(n),
         run'[n].pc = "publish" /\ run'[n].uAllJobsDone =>
            tJob' = tJob /\ run'[n].cur = run[n].cur /\ GroupDone(Cur(n))
  PROVE  PlacedOK'
<1>1. \A k \in Nodes : /\ Group(k)' = Group(k) /\ Group(k) \subseteq DOMAIN tJob[k]
                       /\ \A i \in Group(k) : /\ tJob'[k][i].order = tJob[k][i].order
                                              /\ tJob'[k][i].cJobName = tJob[k][i].cJobName
  BY SameGroups DEF Moves, Group
<1>2. page' = page
  BY DEF Moves
<1>3. EveryNode'
  BY <1>1, <1>2 DEF PlacedOK, EveryNode
<1>4. PageRows'
  BY <1>1, <1>2 DEF PlacedOK, PageRows, IsOpen
<1>5. \A k \in Nodes : 0 \notin Group(k)
  BY <1>1, TypeParts, Tables
<1>6. Untouched'
  <2> SUFFICES ASSUME NEW s \in Sessions, NEW k \in Nodes, NEW j \in Group(k),
                      tJob[k][j].order = page[s].order
               PROVE  /\ j \notin run'[k].rows /\ j # run'[k].cur
                      /\ tJob'[k][j].uJobStatus \in {"WAITING", "CANCELED"}
    BY <1>1, <1>2 DEF Untouched
  <2>1. /\ j \notin run[k].rows /\ j # run[k].cur /\ j # 0
        /\ tJob[k][j].uJobStatus \in {"WAITING", "CANCELED"}
    BY <1>5 DEF PlacedOK, Untouched
  <2>2. CASE k = n
    BY <1>1, <2>1, <2>2 DEF Moves
  <2>3. CASE k # n
    BY <2>1, <2>3 DEF Moves
  <2> QED
    BY <2>2, <2>3
<1>7. \A k \in Nodes : \A i \in DOMAIN tJob[k] :
          tJob[k][i].uJobStatus = "DONEOK" => tJob'[k][i].uJobStatus = "DONEOK"
  BY DEF Moves
<1>8. FoundDone'
  <2> SUFFICES ASSUME NEW k \in Nodes, run'[k].pc = "publish", run'[k].uAllJobsDone,
                      NEW m \in Nodes, NEW i \in DOMAIN tJob'[m],
                      SameGroup(tJob'[k][run'[k].cur], tJob'[m][i])
               PROVE  tJob'[m][i].uJobStatus = "DONEOK"
    BY DEF FoundDone, GroupDone, Cur
  <2>1. /\ run'[k].cur = run[k].cur /\ GroupDone(Cur(k))
        /\ tJob'[k][run[k].cur].order = tJob[k][run[k].cur].order
        /\ tJob'[k][run[k].cur].alone = tJob[k][run[k].cur].alone
    <3>1. CASE k = n
      BY <3>1
    <3>2. CASE k # n
      <4>1. run'[k] = run[k] /\ tJob'[k] = tJob[k]
        BY <3>2 DEF Moves
      <4> QED
        BY <4>1 DEF PlacedOK, FoundDone
    <3> QED
      BY <3>1, <3>2
  <2>2. i \in DOMAIN tJob[m] /\ tJob'[m][i].order = tJob[m][i].order
    BY DEF Moves, SameOrders
  <2>3. SameGroup(tJob[k][run[k].cur], tJob[m][i])
    BY <2>1, <2>2 DEF SameGroup
  <2>4. tJob[m][i].uJobStatus = "DONEOK"
    BY <2>1, <2>2, <2>3 DEF GroupDone, Cur
  <2> QED
    BY <1>7, <2>2, <2>4
<1> QED
  BY <1>3, <1>4, <1>6, <1>8 DEF PlacedOK

(* The runner that looks, and the one that takes a snapshot.                *)
LEMMA PlacedOfRunner ==
  ASSUME IndType, PlacedOK, NEW n \in Nodes, Proceed(n) \/ Fail(n), doubt' = {}
  PROVE  PlacedOK'
<1>0. TypeOK /\ RunsOK
  BY TypeParts
<1>1. CASE Select(n)
  <2>1. /\ UNCHANGED <<tJob, page>>
        /\ \A s \in Sessions : ~(page[s].who # "none" /\ n \notin page[s].left)
    BY <1>1 DEF Select, Note
  <2>2. RunIs(n, "loop", Due(n), 0, run[n].uAllJobsDone)
    BY <1>0, <1>1, SelectEffect
  <2>3. \A k \in Nodes : Group(k)' = Group(k) /\ Group(k) \subseteq DOMAIN tJob[k] /\ 0 \notin Group(k)
    BY <1>0, <2>1, Tables DEF Group
  <2>4. EveryNode' /\ PageRows'
    BY <2>1, <2>3 DEF PlacedOK, EveryNode, PageRows, IsOpen
  <2>5. \A s \in Sessions : \A j \in Group(n) : tJob[n][j].order # page[s].order
    <3> SUFFICES ASSUME NEW s \in Sessions, NEW j \in Group(n), tJob[n][j].order = page[s].order
                 PROVE  FALSE
      OBVIOUS
    <3>1. tJob[n][j].order \in 1 .. events /\ n \notin page[s].left
      BY <2>3, TypeParts DEF OrdersOK
    <3>2. page[s].who = "none" => page[s].order = 0
      BY NoOrderType, TypeParts DEF OrdersOK
    <3> QED
      BY <2>1, <3>1, <3>2, TypeParts
  <2>6. Untouched'
    <3> SUFFICES ASSUME NEW s \in Sessions, NEW k \in Nodes, NEW j \in Group(k),
                        tJob[k][j].order = page[s].order
                 PROVE  /\ j \notin run'[k].rows /\ j # run'[k].cur
                        /\ tJob[k][j].uJobStatus \in {"WAITING", "CANCELED"}
      BY <2>1, <2>3 DEF Untouched
    <3>1. k # n /\ run'[k] = run[k]
      BY <2>2, <2>5 DEF RunIs
    <3> QED
      BY <3>1 DEF PlacedOK, Untouched
  <2>7. FoundDone'
    <3> SUFFICES ASSUME NEW k \in Nodes, run'[k].pc = "publish", run'[k].uAllJobsDone
                 PROVE  GroupDone(Cur(k))'
      BY DEF FoundDone
    <3>1. run'[k] = run[k]
      BY <2>2 DEF RunIs
    <3>2. GroupDone(Cur(k))
      BY <3>1 DEF PlacedOK, FoundDone
    <3> QED
      BY <2>1, <3>1, <3>2 DEF GroupDone, Cur, SameGroup
  <2> QED
    BY <2>4, <2>6, <2>7 DEF PlacedOK
<1>2. CASE ~Select(n)
  <2>1. Moves(n)
    BY <1>2, RunnerMoves
  <2>2. CASE Check(n)
    <3>1. PICK all \in BOOLEAN : /\ RunIs(n, "publish", run[n].rows, run[n].cur, all)
                                 /\ Note("check", all # GroupDone(Cur(n)))
      BY <1>0, <2>2, CheckEffect
    <3>2. all => GroupDone(Cur(n))
      BY <3>1 DEF Note
    <3>3. tJob' = tJob
      BY <2>2 DEF Check
    <3>4. run'[n].cur = run[n].cur /\ run'[n].uAllJobsDone = all
      BY <3>1 DEF RunIs
    <3> QED
      BY <2>1, <3>2, <3>3, <3>4, PlacedOfMoves
  <2>3. CASE ~Check(n)
    <3>1. run'[n].pc # "publish"
      <4>1. CASE Restart(n)
        BY <1>0, <4>1, RestartEffect DEF RunIs, Next1
      <4>2. CASE RestoreDrops(n) \/ RestoreAccepts(n)
        BY <1>0, <4>2, RestoreEffect DEF RunIs, RestoreDrops, RestoreAccepts, Rules, Points
      <4>3. CASE Begin(n) \/ Iptables(n) \/ Done(n) \/ Publish(n)
        BY <1>0, <4>3, BeginEffect, IptablesEffect, DoneEffect, PublishEffect DEF RunIs, Next1
      <4>4. CASE StartDone(n) \/ Fail(n)
        BY <1>0, <4>4, StartDoneEffect, PostponeEffect, IptablesFailsEffect, DieEffect
           DEF RunIs, Next1, Fail
      <4> QED
        BY <1>2, <2>3, <4>1, <4>2, <4>3, <4>4 DEF Proceed
    <3> QED
      BY <2>1, <3>1, PlacedOfMoves
  <2> QED
    BY <2>2, <2>3
<1> QED
  BY <1>1, <1>2

LEMMA SameName ==
  ASSUME OrdersOK
  PROVE  /\ \A n, k \in Nodes : \A i \in DOMAIN tJob[n], j \in DOMAIN tJob[k] :
              tJob[n][i].order = tJob[k][j].order => tJob[n][i].cJobName = tJob[k][j].cJobName
         /\ \A s \in Sessions, n \in Nodes : \A j \in Group(n) :
              tJob[n][j].order = page[s].order => tJob[n][j].cJobName = page[s].cJobName
<1>1. \A n, k \in Nodes : \A i \in DOMAIN tJob[n], j \in DOMAIN tJob[k] :
          tJob[n][i].order = tJob[k][j].order => tJob[n][i].cJobName = tJob[k][j].cJobName
  BY DEF OrdersOK
<1>2. \A s \in Sessions, n \in Nodes : \A j \in Group(n) :
          tJob[n][j].order = page[s].order => tJob[n][j].cJobName = page[s].cJobName
  BY DEF OrdersOK, Group
<1> QED
  BY <1>1, <1>2

LEMMA GroupFacts ==
  ASSUME TypeOK
  PROVE  \A k \in Nodes : /\ Group(k) \subseteq DOMAIN tJob[k] /\ 0 \notin Group(k) /\ Group(k) \subseteq Nat
                          /\ \A i \in Group(k) : tJob[k][i].cJobName \in GroupJobs
BY Tables DEF Group

(* Pages that close, with nothing else that matters.                        *)
LEMMA PlacedOfClose ==
  ASSUME IndType, PlacedOK, NEW s \in Sessions, UNCHANGED <<tJob, run>>,
         page'[s] = NoOrder, \A t \in Sessions : t # s => page'[t] = page[t],
         \/ page[s].left = {}
         \/ page[s].left = Nodes
  PROVE  PlacedOK'
<1>1. \A k \in Nodes : Group(k)' = Group(k)
  BY DEF Group
<1>2. \A k \in Nodes : \A j \in Group(k) : tJob[k][j].order \in 1 .. events
  BY TypeParts, GroupFacts DEF OrdersOK
<1>3. EveryNode'
  <2> SUFFICES ASSUME NEW n \in Nodes, NEW k \in Nodes, NEW j \in Group(n),
                      ~ \E i \in Group(k) : tJob[k][i].order = tJob[n][j].order
               PROVE  \E t \in Sessions : page'[t].order = tJob[n][j].order /\ k \in page'[t].left
    BY <1>1 DEF EveryNode
  <2>1. PICK t \in Sessions : page[t].order = tJob[n][j].order /\ k \in page[t].left
    BY DEF PlacedOK, EveryNode
  <2>2. n \notin page[t].left
    BY <2>1, TypeParts, GroupFacts DEF OrdersOK
  <2>3. t # s
    BY <2>1, <2>2
  <2> QED
    BY <2>1, <2>3
<1>4. PageRows'
  BY <1>1, NoOrderType DEF PlacedOK, PageRows, IsOpen
<1>5. Untouched'
  BY <1>1, <1>2, NoOrderType, TypeParts DEF PlacedOK, Untouched
<1>6. FoundDone'
  BY DEF PlacedOK, FoundDone, GroupDone, Cur, SameGroup
<1> QED
  BY <1>3, <1>4, <1>5, <1>6 DEF PlacedOK

LEMMA PlacedOfOpen ==
  ASSUME IndType, PlacedOK, NEW s \in Sessions, NEW who \in {"page", "event", "command"},
         NEW name \in GroupJobs, OpenOrder(s, who, name)
  PROVE  PlacedOK'
<1>0. UNCHANGED <<tJob, run>>
  BY DEF OpenOrder
<1>1. /\ ~IsOpen(s) /\ \A t \in Sessions : t # s => page'[t] = page[t]
      /\ page'[s].order = events + 1 /\ page'[s].left = Nodes
  BY TypeParts, OpenEffect
<1>2. \A k \in Nodes : Group(k)' = Group(k)
  BY <1>0 DEF Group
<1>3. \A k \in Nodes : \A j \in Group(k) : tJob[k][j].order \in 1 .. events
  BY TypeParts, GroupFacts DEF OrdersOK
<1>4. page[s].order = 0
  BY <1>1, NoOrderType, TypeParts DEF OrdersOK, IsOpen
<1>5. EveryNode'
  <2> SUFFICES ASSUME NEW n \in Nodes, NEW k \in Nodes, NEW j \in Group(n),
                      ~ \E i \in Group(k) : tJob[k][i].order = tJob[n][j].order
               PROVE  \E t \in Sessions : page'[t].order = tJob[n][j].order /\ k \in page'[t].left
    BY <1>0, <1>2 DEF EveryNode
  <2>1. PICK t \in Sessions : page[t].order = tJob[n][j].order /\ k \in page[t].left
    BY DEF PlacedOK, EveryNode
  <2>2. t # s
    BY <1>3, <1>4, <2>1
  <2> QED
    BY <1>1, <2>1, <2>2
<1>6. PageRows'
  BY <1>0, <1>1, <1>2 DEF PlacedOK, PageRows, IsOpen
<1>7. Untouched'
  BY <1>0, <1>1, <1>2, <1>3, TypeParts DEF PlacedOK, Untouched
<1>8. FoundDone'
  BY <1>0 DEF PlacedOK, FoundDone, GroupDone, Cur, SameGroup
<1> QED
  BY <1>5, <1>6, <1>7, <1>8 DEF PlacedOK

LEMMA PlacedOfActivate ==
  ASSUME IndType, PlacedOK, NEW n \in Nodes, ActivateFirewall(n)
  PROVE  PlacedOK'
<1>0. UNCHANGED <<page, run>>
  BY DEF ActivateFirewall
<1>1. PICK r \in JobRow : /\ Added(n, r) /\ r.cJobName = "StartIptables" /\ r.order = events + 1
  BY TypeParts, ActivateEffect
<1> DEFINE z == Len(tJob[n]) + 1
<1>2. /\ \A k \in Nodes : k # n => tJob'[k] = tJob[k]
      /\ DOMAIN tJob'[n] = DOMAIN tJob[n] \cup {z} /\ z \notin DOMAIN tJob[n]
      /\ \A i \in DOMAIN tJob[n] : tJob'[n][i] = tJob[n][i]
      /\ tJob'[n][z].cJobName = "StartIptables" /\ tJob'[n][z].order = events + 1
  BY <1>1 DEF Added
<1> HIDE DEF z
<1>3. \A k \in Nodes : Group(k)' = Group(k) /\ \A i \in Group(k) : tJob'[k][i] = tJob[k][i]
  BY <1>2 DEF Group, GroupJobs
<1>4. EveryNode' /\ PageRows'
  BY <1>0, <1>3 DEF PlacedOK, EveryNode, PageRows, IsOpen
<1>5. Untouched'
  BY <1>0, <1>3 DEF PlacedOK, Untouched
<1>6. FoundDone'
  <2> SUFFICES ASSUME NEW k \in Nodes, run[k].pc = "publish", run[k].uAllJobsDone,
                      NEW m \in Nodes, NEW i \in DOMAIN tJob'[m],
                      SameGroup(tJob'[k][run[k].cur], tJob'[m][i])
               PROVE  tJob'[m][i].uJobStatus = "DONEOK"
    BY <1>0 DEF FoundDone, GroupDone, Cur
  <2>1. run[k].cur \in DOMAIN tJob[k] /\ GroupDone(Cur(k))
    BY TypeParts, InHand DEF PlacedOK, FoundDone, Busy
  <2>2. tJob'[k][run[k].cur] = tJob[k][run[k].cur] /\ tJob[k][run[k].cur].order \in 1 .. events
    BY <1>2, <2>1, TypeParts DEF OrdersOK
  <2>3. tJob'[m][i].order # events + 1
    BY <2>2, TypeParts DEF SameGroup
  <2>4. i \in DOMAIN tJob[m] /\ tJob'[m][i] = tJob[m][i]
    BY <1>2, <2>3
  <2> QED
    BY <2>1, <2>2, <2>4 DEF GroupDone, Cur
<1> QED
  BY <1>4, <1>5, <1>6 DEF PlacedOK

LEMMA PlacedOfCancel ==
  ASSUME IndType, PlacedOK, NEW n \in Nodes, NEW j \in DOMAIN tJob[n], GroupCancel(n, j)
  PROVE  PlacedOK'
<1>0. /\ tJob[n][j].uJobStatus \in {"WAITING", "ERROR"} /\ SetJob(n, j, "CANCELED")
      /\ UNCHANGED <<page, run>>
  BY DEF GroupCancel
<1>1. StatusOnly(n, j, "CANCELED")
  <2>1. "CANCELED" \in JobStatus
    OBVIOUS
  <2> QED
    BY <1>0, <2>1, TypeParts, SetJobEffect
<1>2. SameOrders
  BY <1>1, SameOrdersOf
<1>3. \A k \in Nodes : /\ Group(k)' = Group(k) /\ Group(k) \subseteq DOMAIN tJob[k]
                       /\ \A i \in Group(k) : tJob'[k][i].order = tJob[k][i].order
  BY <1>2, SameGroups, TypeParts, GroupFacts
<1>4. \A k \in Nodes : \A i \in DOMAIN tJob[k] :
          \/ tJob'[k][i].uJobStatus = tJob[k][i].uJobStatus
          \/ tJob'[k][i].uJobStatus = "CANCELED" /\ tJob[k][i].uJobStatus # "DONEOK"
  BY <1>0, <1>1 DEF StatusOnly
<1>5. EveryNode' /\ PageRows'
  BY <1>0, <1>3 DEF PlacedOK, EveryNode, PageRows, IsOpen
<1>6. Untouched'
  BY <1>0, <1>3, <1>4 DEF PlacedOK, Untouched
<1>7. FoundDone'
  <2> SUFFICES ASSUME NEW k \in Nodes, run[k].pc = "publish", run[k].uAllJobsDone,
                      NEW m \in Nodes, NEW i \in DOMAIN tJob'[m],
                      SameGroup(tJob'[k][run[k].cur], tJob'[m][i])
               PROVE  tJob'[m][i].uJobStatus = "DONEOK"
    BY <1>0 DEF FoundDone, GroupDone, Cur
  <2>1. run[k].cur \in DOMAIN tJob[k] /\ GroupDone(Cur(k))
    BY TypeParts, InHand DEF PlacedOK, FoundDone, Busy
  <2>2. SameGroup(Cur(k), tJob[m][i]) /\ i \in DOMAIN tJob[m]
    BY <1>2, <2>1 DEF SameOrders, SameGroup, Cur
  <2>3. tJob[m][i].uJobStatus = "DONEOK"
    BY <2>1, <2>2 DEF GroupDone
  <2> QED
    BY <1>4, <2>2, <2>3
<1> QED
  BY <1>5, <1>6, <1>7 DEF PlacedOK

LEMMA PlacedOfInsert ==
  ASSUME IndType, PlacedOK, NEW s \in Sessions, NEW n \in Nodes, InsertJob(s, n)
  PROVE  PlacedOK'
<1>0. run' = run
  BY DEF InsertJob, InsertRow
<1>1. /\ IsOpen(s) /\ n \in page[s].left
      /\ \A t \in Sessions : t # s => page'[t] = page[t]
      /\ page'[s].who = page[s].who /\ page'[s].order = page[s].order
      /\ page'[s].left = page[s].left \ {n}
  BY TypeParts, InsertEffect
<1>2. PICK r \in JobRow : /\ Added(n, r) /\ r.uJobStatus = "WAITING"
                          /\ r.cJobName = page[s].cJobName /\ r.order = page[s].order
  BY TypeParts, InsertEffect
<1> DEFINE z == Len(tJob[n]) + 1
<1>3. /\ \A k \in Nodes : k # n => tJob'[k] = tJob[k]
      /\ DOMAIN tJob'[n] = DOMAIN tJob[n] \cup {z} /\ z \notin DOMAIN tJob[n] /\ z # 0
      /\ \A i \in DOMAIN tJob[n] : tJob'[n][i] = tJob[n][i]
      /\ tJob'[n][z].cJobName \in GroupJobs /\ tJob'[n][z].order = page[s].order
      /\ tJob'[n][z].uJobStatus = "WAITING"
  BY <1>2, TypeParts, PageType, Tables DEF Added
<1> HIDE DEF z
<1>4. /\ Group(n)' = Group(n) \cup {z} /\ \A k \in Nodes : k # n => Group(k)' = Group(k)
      /\ \A k \in Nodes : \A i \in Group(k) : tJob'[k][i] = tJob[k][i]
  BY <1>3 DEF Group
<1>5. EveryNode'
  <2> SUFFICES ASSUME NEW m \in Nodes, NEW k \in Nodes, NEW j \in Group(m)',
                      ~ \E i \in Group(k)' : tJob'[k][i].order = tJob'[m][j].order
               PROVE  \E t \in Sessions : page'[t].order = tJob'[m][j].order /\ k \in page'[t].left
    BY DEF EveryNode
  <2>1. CASE j \in Group(m)
    <3>1. /\ tJob'[m][j] = tJob[m][j]
          /\ ~ \E i \in Group(k) : tJob[k][i].order = tJob[m][j].order
      BY <1>4, <2>1
    <3>2. PICK t \in Sessions : page[t].order = tJob[m][j].order /\ k \in page[t].left
      BY <2>1, <3>1 DEF PlacedOK, EveryNode
    <3>3. ~(t = s /\ k = n)
      BY <1>3, <1>4, <3>1, <3>2
    <3> QED
      BY <1>1, <3>1, <3>2, <3>3
  <2>2. CASE m = n /\ j = z
    <3>1. ~ \E i \in Group(k) : tJob[k][i].order = page[s].order
      BY <1>3, <1>4, <2>2
    <3>2. k \in page[s].left
      BY <1>1, <3>1 DEF PlacedOK, PageRows
    <3>3. k # n
      BY <2>2
    <3> QED
      BY <1>1, <1>3, <2>2, <3>2, <3>3
  <2> QED
    BY <1>4, <2>1, <2>2
<1>6. PageRows'
  <2> SUFFICES ASSUME NEW t \in Sessions, NEW k \in Nodes, page'[t].who # "none", k \notin page'[t].left
               PROVE  \E i \in Group(k)' : tJob'[k][i].order = page'[t].order
    BY DEF PageRows, IsOpen
  <2>1. CASE t = s /\ k = n
    BY <1>1, <1>3, <1>4, <2>1
  <2>2. CASE ~(t = s /\ k = n)
    <3>1. IsOpen(t) /\ k \notin page[t].left /\ page'[t].order = page[t].order
      BY <1>1, <2>2 DEF IsOpen
    <3>2. PICK i \in Group(k) : tJob[k][i].order = page[t].order
      BY <3>1 DEF PlacedOK, PageRows
    <3> QED
      BY <1>4, <3>1, <3>2
  <2> QED
    BY <2>1, <2>2
<1>7. /\ z \notin run[n].rows /\ z # run[n].cur
  BY <1>3, TypeParts DEF RunsOK, RunOK
<1>8. Untouched'
  <2> SUFFICES ASSUME NEW t \in Sessions, NEW k \in Nodes, NEW j \in Group(k)',
                      tJob'[k][j].order = page'[t].order
               PROVE  /\ j \notin run[k].rows /\ j # run[k].cur
                      /\ tJob'[k][j].uJobStatus \in {"WAITING", "CANCELED"}
    BY <1>0 DEF Untouched
  <2>1. page'[t].order = page[t].order
    BY <1>1
  <2>2. CASE j \in Group(k)
    BY <1>4, <2>1, <2>2 DEF PlacedOK, Untouched
  <2>3. CASE k = n /\ j = z
    BY <1>3, <1>7, <2>3
  <2> QED
    BY <1>4, <2>2, <2>3
<1>9. FoundDone'
  <2> SUFFICES ASSUME NEW k \in Nodes, run[k].pc = "publish", run[k].uAllJobsDone,
                      NEW m \in Nodes, NEW i \in DOMAIN tJob'[m],
                      SameGroup(tJob'[k][run[k].cur], tJob'[m][i])
               PROVE  tJob'[m][i].uJobStatus = "DONEOK"
    BY <1>0 DEF FoundDone, GroupDone, Cur
  <2>1. /\ run[k].cur \in DOMAIN tJob[k] /\ GroupDone(Cur(k))
        /\ run[k].cur \in Group(k) /\ tJob'[k][run[k].cur] = tJob[k][run[k].cur]
    <3>1. run[k].cur \in DOMAIN tJob[k] /\ GroupDone(Cur(k)) /\ Cur(k).cJobName \in GroupJobs
      BY TypeParts, InHand DEF PlacedOK, FoundDone, Busy
    <3> QED
      BY <1>4, <3>1 DEF Group, Cur
  <2>2. tJob[k][run[k].cur].order # page[s].order
    BY <2>1 DEF PlacedOK, Untouched
  <2>3. i \in DOMAIN tJob[m] /\ tJob'[m][i] = tJob[m][i]
    BY <1>3, <2>1, <2>2 DEF SameGroup
  <2> QED
    BY <2>1, <2>3 DEF GroupDone, Cur
<1> QED
  BY <1>5, <1>6, <1>8, <1>9 DEF PlacedOK

LEMMA PlacedStep ==
  ASSUME IndPlaced, [Next]_vars
  PROVE  IndPlaced'
<1> SUFFICES ASSUME doubt' = {} PROVE PlacedOK'
  BY StepKeeps DEF IndPlaced
<1>0. IndType /\ PlacedOK
  BY DoubtsStay DEF IndPlaced
<1>1. ASSUME NEW s \in Sessions, Page(s) PROVE PlacedOK'
  BY <1>0, <1>1, PlacedOfInsert, PlacedOfClose, TypeParts, SetWaitingEffect DEF Page
<1>2. ASSUME NEW s \in Sessions, InsertFails(s) PROVE PlacedOK'
  <2>1. /\ page[s].left = Nodes /\ page'[s] = NoOrder
        /\ \A t \in Sessions : t # s => page'[t] = page[t]
    BY <1>0, <1>2, TypeParts, FailEffect
  <2> QED
    BY <1>0, <1>2, <2>1, PlacedOfClose DEF InsertFails
<1>3. CASE Order
  BY <1>0, <1>2, <1>3, PlacedOfOpen, PlacedOfActivate, PlacedOfCancel DEF Order
<1>4. CASE UNCHANGED vars
  <2>1. UNCHANGED <<tJob, page, run>>
    BY <1>4 DEF vars
  <2> QED
    BY <1>0, <2>1 DEF PlacedOK, EveryNode, PageRows, Untouched, FoundDone, GroupDone, Cur, SameGroup,
                      Group, IsOpen
<1> QED
  BY <1>0, <1>1, <1>3, <1>4, PlacedOfRunner DEF Next

LEMMA InitPlaced == Init => IndPlaced
<1> SUFFICES ASSUME Init PROVE PlacedOK
  BY InitHolds DEF IndPlaced
<1>1. /\ \A k \in Nodes : DOMAIN tJob[k] = {} /\ run[k].pc = "idle"
      /\ \A s \in Sessions : page[s].who = "none"
  BY NoOrderType DEF Init, Idle
<1> QED
  BY <1>1 DEF PlacedOK, EveryNode, PageRows, Untouched, FoundDone, Group, IsOpen

\* As long as nothing happens that the code does not guard against, an order has
\* a row on every node its page has come to, nobody has looked at the rows of an
\* order that is being placed, and who found its group done is right.
THEOREM PlacedHolds == Spec => []IndPlaced
<1>1. IndPlaced /\ [Next]_vars => IndPlaced'
  BY PlacedStep
<1> QED
  BY <1>1, InitPlaced, PTL DEF Spec

\* The final status of an order with a master is published only after the job
\* of every node is done, for every number of nodes and sessions.
THEOREM LastPublishes == Spec => PublishedByLast
<1> DEFINE Told == \A n \in Nodes :
        Publish(n) /\ uFWStatus' # uFWStatus /\ ~Cur(n).alone /\ doubt = {} =>
            \A k \in Nodes : \E r \in Rows(k) : r.order = Cur(n).order /\ r.uJobStatus = "DONEOK"
<1>1. IndPlaced => Told
  <2> SUFFICES ASSUME IndPlaced, NEW n \in Nodes, Publish(n), uFWStatus' # uFWStatus, ~Cur(n).alone,
                      doubt = {}, NEW k \in Nodes
               PROVE  \E r \in Rows(k) : r.order = Cur(n).order /\ r.uJobStatus = "DONEOK"
    OBVIOUS
  <2>1. TypeOK /\ RunsOK /\ PlacedOK
    BY TypeParts DEF IndPlaced
  <2>2. run[n].pc = "publish" /\ run[n].uAllJobsDone
    BY <2>1, PublishEffect
  <2>3. /\ run[n].cur \in Group(n) /\ Cur(n) = tJob[n][run[n].cur] /\ GroupDone(Cur(n))
    BY <2>1, <2>2, InHand DEF Busy, Group, PlacedOK, FoundDone
  <2>4. \A s \in Sessions : page[s].order # Cur(n).order
    BY <2>1, <2>3 DEF PlacedOK, Untouched
  <2>5. PICK i \in Group(k) : tJob[k][i].order = Cur(n).order
    BY <2>1, <2>3, <2>4 DEF PlacedOK, EveryNode
  <2>6. i \in DOMAIN tJob[k] /\ tJob[k][i].uJobStatus = "DONEOK"
    BY <2>3, <2>5 DEF GroupDone, SameGroup, Group
  <2> QED
    BY <2>5, <2>6 DEF Rows
<1>2. Told => [Told]_vars
  OBVIOUS
<1> QED
  BY <1>1, <1>2, PlacedHolds, PTL DEF PublishedByLast
-----------------------------------------------------------------------------
(************************** Nobody waits for nothing ***********************)

LEMMA RunnerLives ==
  ASSUME NEW n \in Nodes, Proceed(n) \/ Fail(n)
  PROVE  run[n].pc # "dead"
<1>1. ASSUME Proceed(n) PROVE run[n].pc # "dead"
  BY <1>1 DEF Proceed, Select, Begin, Iptables, InGroupJob, Done, Check, Publish, Restart,
              RestoreDrops, RestoreAccepts, Restore, StartDone
<1>2. ASSUME Fail(n) PROVE run[n].pc # "dead"
  BY <1>2 DEF Fail, Postpone, IptablesFails, InGroupJob, Die
<1> QED
  BY <1>1, <1>2

\* The row is still to be done, or its runner about to publish
Alive(n, j) == tJob[n][j].uJobStatus # "DONEOK" \/ Closing(n, j)

\* Somebody still works on the order o, a row of which has the name c
Lives(o, c) == \E k \in Nodes : \E j \in Group(k) :
                   tJob[k][j].order = o /\ tJob[k][j].cJobName = c /\ Alive(k, j)

LEMMA LivesOf ==
  ASSUME NEW k \in Nodes, NEW j \in Group(k), j \in Group(k)', Alive(k, j)',
         tJob'[k][j].order = tJob[k][j].order, tJob'[k][j].cJobName = tJob[k][j].cJobName
  PROVE  Lives(tJob[k][j].order, tJob[k][j].cJobName)'
BY DEF Lives

(* A runner that is not about to publish and does not mark a group job done. *)
LEMMA LivesOfMoves ==
  ASSUME IndType, NEW n \in Nodes, Moves(n), run[n].pc \notin {"check", "publish"},
         \A j \in Group(n) : tJob[n][j].uJobStatus # "DONEOK" => tJob'[n][j].uJobStatus # "DONEOK",
         NEW k \in Nodes, NEW j \in Group(k), Alive(k, j)
  PROVE  Lives(tJob[k][j].order, tJob[k][j].cJobName)'
<1>1. /\ j \in Group(k)' /\ tJob'[k][j].order = tJob[k][j].order
      /\ tJob'[k][j].cJobName = tJob[k][j].cJobName
  BY SameGroups DEF Moves
<1>2. k # n => run'[k] = run[k] /\ tJob'[k] = tJob[k]
  BY DEF Moves
<1>3. Alive(k, j)'
  BY <1>2 DEF Alive, Closing
<1> QED
  BY <1>1, <1>3, LivesOf

(* An order that somebody works on stays one, but for the end of a runner    *)
(* and the publishing of its final status.                                   *)
LEMMA LivesOfRunner ==
  ASSUME IndType, NEW n \in Nodes, Proceed(n) \/ Fail(n), doubt' = {}, ~Die(n),
         NEW k \in Nodes, NEW j \in Group(k), Alive(k, j),
         ~(Publish(n) /\ run[n].uAllJobsDone /\ k = n /\ j = run[n].cur)
  PROVE  Lives(tJob[k][j].order, tJob[k][j].cJobName)'
<1> DEFINE Goal == Lives(tJob[k][j].order, tJob[k][j].cJobName)'
<1>0. TypeOK /\ RunsOK /\ RunOK(n)
  BY TypeParts DEF RunsOK
<1>1. ASSUME Select(n) PROVE Goal
  <2>1. tJob' = tJob /\ run[n].pc = "idle"
    BY <1>1 DEF Select
  <2>2. \A m \in Nodes : m # n => run'[m] = run[m]
    BY <1>0, <1>1, SelectEffect DEF RunIs
  <2>3. j \in Group(k)' /\ Alive(k, j)'
    BY <2>1, <2>2 DEF Group, Alive, Closing
  <2> QED
    BY <2>1, <2>3, LivesOf
<1>2. ASSUME Begin(n) PROVE Goal
  <2>1. PICK h \in run[n].rows : StatusOnly(n, h, "RUNNING")
    BY <1>0, <1>2, BeginEffect
  <2>2. \A i \in Group(n) : tJob[n][i].uJobStatus # "DONEOK" => tJob'[n][i].uJobStatus # "DONEOK"
    BY <2>1 DEF StatusOnly, Group
  <2> QED
    BY <1>2, <2>2, RunnerMoves, LivesOfMoves DEF Begin, Proceed, Select
<1>3. ASSUME Iptables(n) PROVE Goal
  BY <1>3, RunnerMoves, LivesOfMoves DEF Iptables, InGroupJob, Proceed, Select
<1>4. ASSUME Done(n) PROVE Goal
  <2>1. /\ run[n].pc = "done" /\ StatusOnly(n, run[n].cur, "DONEOK")
        /\ RunIs(n, "check", run[n].rows, run[n].cur, run[n].uAllJobsDone)
    BY <1>0, <1>4, DoneEffect
  <2>2. Moves(n)
    BY <1>4, <2>1, RunnerMoves DEF Done, Proceed, Select
  <2>3. /\ j \in Group(k)' /\ tJob'[k][j].order = tJob[k][j].order
        /\ tJob'[k][j].cJobName = tJob[k][j].cJobName
    BY <2>2, SameGroups DEF Moves
  <2>4. Alive(k, j)'
    <3>1. run'[n].pc = "check" /\ run'[n].cur = run[n].cur
      BY <2>1 DEF RunIs
    <3>2. k = n => Alive(k, j)'
      BY <2>1, <3>1 DEF Alive, Closing, StatusOnly, Group
    <3>3. k # n => Alive(k, j)'
      BY <2>2 DEF Alive, Closing, Moves
    <3> QED
      BY <3>2, <3>3
  <2> QED
    BY <2>3, <2>4, LivesOf
<1>5. ASSUME Check(n) PROVE Goal
  <2>1. PICK all \in BOOLEAN : /\ RunIs(n, "publish", run[n].rows, run[n].cur, all)
                               /\ all \in {GroupDone(Cur(n)), TRUE}
                               /\ Note("check", all # GroupDone(Cur(n)))
    BY <1>0, <1>5, CheckEffect
  <2>2. all = GroupDone(Cur(n))
    BY <2>1 DEF Note
  <2>3. tJob' = tJob /\ run[n].pc = "check"
    BY <1>5 DEF Check
  <2>4. /\ \A m \in Nodes : m # n => run'[m] = run[m]
        /\ run'[n].pc = "publish" /\ run'[n].cur = run[n].cur /\ run'[n].uAllJobsDone = all
    BY <2>1 DEF RunIs
  <2>5. CASE all \/ ~(k = n /\ j = run[n].cur)
    <3>1. j \in Group(k)' /\ Alive(k, j)'
      BY <2>3, <2>4, <2>5 DEF Group, Alive, Closing
    <3> QED
      BY <2>3, <3>1, LivesOf
  <2>6. CASE ~all /\ k = n /\ j = run[n].cur
    <3>1. PICK m \in Nodes : \E h \in DOMAIN tJob[m] :
              SameGroup(Cur(n), tJob[m][h]) /\ tJob[m][h].uJobStatus # "DONEOK"
      BY <2>2, <2>6 DEF GroupDone
    <3>2. PICK i \in DOMAIN tJob[m] :
              SameGroup(Cur(n), tJob[m][i]) /\ tJob[m][i].uJobStatus # "DONEOK"
      BY <3>1
    <3>3. Cur(n) = tJob[k][j] /\ j \in DOMAIN tJob[k] /\ tJob[k][j].cJobName \in GroupJobs
      BY <2>6 DEF Cur, Group
    <3>4. tJob[m][i].cJobName = tJob[k][j].cJobName /\ tJob[m][i].order = tJob[k][j].order
      <4>1. tJob[m][i].order = tJob[k][j].order
        BY <3>2, <3>3 DEF SameGroup
      <4>2. \A a, b \in Nodes : \A x \in DOMAIN tJob[a], y \in DOMAIN tJob[b] :
              tJob[a][x].order = tJob[b][y].order => tJob[a][x].cJobName = tJob[b][y].cJobName
        BY TypeParts DEF OrdersOK
      <4> QED
        BY <3>2, <3>3, <4>1, <4>2
    <3>5. i \in Group(m)' /\ Alive(m, i)'
      BY <2>3, <3>2, <3>3, <3>4 DEF Group, Alive
    <3> QED
      BY <2>3, <3>4, <3>5 DEF Lives
  <2> QED
    BY <2>5, <2>6
<1>6. ASSUME Publish(n) PROVE Goal
  <2>1. /\ tJob' = tJob /\ \A m \in Nodes : m # n => run'[m] = run[m]
        /\ run[n].pc = "publish"
    BY <1>0, <1>6, PublishEffect DEF Publish, RunIs
  <2>2. j \in Group(k)' /\ Alive(k, j)'
    BY <1>6, <2>1 DEF Group, Alive, Closing
  <2> QED
    BY <2>1, <2>2, LivesOf
<1>7. ASSUME Restart(n) PROVE Goal
  <2>1. run[n].pc = "rules" /\ (tJob' = tJob \/ StatusOnly(n, run[n].cur, "ERROR"))
    BY <1>0, <1>7, RestartEffect
  <2>2. \A i \in Group(n) : tJob[n][i].uJobStatus # "DONEOK" => tJob'[n][i].uJobStatus # "DONEOK"
    BY <2>1 DEF StatusOnly, Group
  <2> QED
    BY <1>7, <2>1, <2>2, RunnerMoves, LivesOfMoves DEF Proceed, Select
<1>8. ASSUME RestoreDrops(n) \/ RestoreAccepts(n) PROVE Goal
  <2>1. run[n].pc \in {"drops", "accepts"} /\ tJob' = tJob
    BY <1>8 DEF RestoreDrops, RestoreAccepts, Restore
  <2> QED
    BY <1>8, <2>1, RunnerMoves, LivesOfMoves DEF Proceed, Select
<1>9. ASSUME StartDone(n) PROVE Goal
  <2>1. /\ run[n].pc = "started" /\ Cur(n).cJobName = "StartIptables" /\ Cur(n) = tJob[n][run[n].cur]
        /\ StatusOnly(n, run[n].cur, "DONEOK")
    BY <1>0, <1>9, StartDoneEffect DEF Cur
  <2>2. \A i \in Group(n) : tJob[n][i].uJobStatus # "DONEOK" => tJob'[n][i].uJobStatus # "DONEOK"
    BY <2>1 DEF StatusOnly, Group, GroupJobs
  <2> QED
    BY <1>9, <2>1, <2>2, RunnerMoves, LivesOfMoves DEF Proceed, Select
<1>10. ASSUME Postpone(n) PROVE Goal
  <2>1. PICK h \in run[n].rows : StatusOnly(n, h, "WAITING")
    BY <1>0, <1>10, PostponeEffect
  <2>2. \A i \in Group(n) : tJob[n][i].uJobStatus # "DONEOK" => tJob'[n][i].uJobStatus # "DONEOK"
    BY <2>1 DEF StatusOnly, Group
  <2> QED
    BY <1>10, <2>2, RunnerMoves, LivesOfMoves DEF Postpone, Fail, Select
<1>11. ASSUME IptablesFails(n) PROVE Goal
  <2>1. run[n].pc = "rules" /\ StatusOnly(n, run[n].cur, "ERROR")
    BY <1>0, <1>11, IptablesFailsEffect
  <2>2. \A i \in Group(n) : tJob[n][i].uJobStatus # "DONEOK" => tJob'[n][i].uJobStatus # "DONEOK"
    BY <2>1 DEF StatusOnly, Group
  <2> QED
    BY <1>11, <2>1, <2>2, RunnerMoves, LivesOfMoves DEF Fail, Select
<1> QED
  BY <1>1, <1>2, <1>3, <1>4, <1>5, <1>6, <1>7, <1>8, <1>9, <1>10, <1>11 DEF Proceed, Fail

(* A runner changes neither what the group rows are for nor the pages.       *)
LEMMA RowsOfRunner ==
  ASSUME IndType, NEW n \in Nodes, Proceed(n) \/ Fail(n)
  PROVE  /\ page' = page
         /\ \A k \in Nodes : /\ Group(k)' = Group(k)
                            /\ \A i \in Group(k) : /\ tJob'[k][i].order = tJob[k][i].order
                                                   /\ tJob'[k][i].cJobName = tJob[k][i].cJobName
<1>1. CASE Select(n)
  BY <1>1 DEF Select, Group
<1>2. CASE ~Select(n)
  BY <1>2, RunnerMoves, SameGroups DEF Moves
<1> QED
  BY <1>1, <1>2

LEMMA StatusOfRunner ==
  ASSUME TypeOK, RunsOK, NEW n \in Nodes, Proceed(n) \/ Fail(n), doubt' = {}
  PROVE  \/ uFWStatus' = uFWStatus
         \/ Publish(n) /\ run[n].uAllJobsDone /\ uFWStatus' = Final[Cur(n).cJobName]
<1>1. ASSUME ~Publish(n) PROVE uFWStatus' = uFWStatus
  BY <1>1 DEF Proceed, Fail, Select, Begin, Iptables, Done, Check, Restart, RestoreDrops,
              RestoreAccepts, Restore, StartDone, Postpone, IptablesFails, Die
<1> QED
  BY <1>1, PublishEffect

LEMMA WaitOfRunner ==
  ASSUME IndType, WaitOK, NEW n \in Nodes, Proceed(n) \/ Fail(n), doubt' = {}
  PROVE  WaitOK'
<1>0. TypeOK /\ RunsOK
  BY TypeParts
<1>1. CASE Publish(n) /\ run[n].uAllJobsDone
  <2>1. Cur(n).cJobName \in GroupJobs /\ uFWStatus' = Final[Cur(n).cJobName]
    BY <1>0, <1>1, PublishEffect
  <2> QED
    BY <2>1, Verdicts DEF WaitOK
<1>2. CASE Die(n)
  BY <1>0, <1>2, DieEffect DEF WaitOK, RunIs
<1>3. CASE ~Die(n) /\ ~(Publish(n) /\ run[n].uAllJobsDone)
  <2>1. uFWStatus' = uFWStatus
    BY <1>0, <1>3, StatusOfRunner
  <2>2. ASSUME NEW k \in Nodes, run[k].pc = "dead" PROVE WaitOK'
    <3>1. run'[k] = run[k]
      <4>1. k # n
        BY <2>2, RunnerLives
      <4>2. CASE Select(n)
        BY <1>0, <4>1, <4>2, SelectEffect DEF RunIs
      <4> QED
        BY <4>1, <4>2, RunnerMoves DEF Moves
    <3> QED
      BY <2>2, <3>1 DEF WaitOK
  <2>3. ASSUME NEW k \in Nodes, NEW j \in Group(k), Awaits[tJob[k][j].cJobName] = uFWStatus, Alive(k, j)
        PROVE  WaitOK'
    <3>1. Lives(tJob[k][j].order, tJob[k][j].cJobName)'
      BY <1>3, <2>3, LivesOfRunner
    <3>2. \E i \in Nodes : \E h \in Group(i)' :
              /\ Awaits[tJob'[i][h].cJobName] = uFWStatus'
              /\ tJob'[i][h].uJobStatus # "DONEOK" \/ Closing(i, h)'
      <4>1. \E i \in Nodes : \E h \in Group(i)' :
              tJob'[i][h].cJobName = tJob'[k][j].cJobName /\ Alive(i, h)'
        BY <3>1 DEF Lives
      <4>2. tJob'[k][j].cJobName = tJob[k][j].cJobName
        BY <2>3, RowsOfRunner
      <4> QED
        BY <2>1, <2>3, <4>1, <4>2 DEF Alive
    <3> QED
      BY <3>2 DEF WaitOK
  <2> QED
    BY <2>1, <2>2, <2>3 DEF WaitOK, Alive
<1> QED
  BY <1>1, <1>2, <1>3

(* The pages and the job page change no row that is done.                   *)
LEMMA WaitOfRows ==
  ASSUME IndType, WaitOK, UNCHANGED <<uFWStatus, run>>,
         \A k \in Nodes : \A j \in DOMAIN tJob[k] :
            /\ j \in DOMAIN tJob'[k] /\ tJob'[k][j].cJobName = tJob[k][j].cJobName
            /\ tJob[k][j].uJobStatus # "DONEOK" => tJob'[k][j].uJobStatus # "DONEOK"
  PROVE  WaitOK'
<1> SUFFICES ASSUME uFWStatus \in Waiting
             PROVE  \/ \E n \in Nodes : run'[n].pc = "dead"
                    \/ \E n \in Nodes : \E j \in Group(n)' :
                          Awaits[tJob'[n][j].cJobName] = uFWStatus /\ Alive(n, j)'
  BY DEF WaitOK, Alive
<1>1. CASE \E n \in Nodes : run[n].pc = "dead"
  BY <1>1
<1>2. ASSUME NEW n \in Nodes, NEW j \in Group(n), Awaits[tJob[n][j].cJobName] = uFWStatus, Alive(n, j)
      PROVE  \E k \in Nodes : \E i \in Group(k)' :
                Awaits[tJob'[k][i].cJobName] = uFWStatus /\ Alive(k, i)'
  <2>1. j \in Group(n)' /\ tJob'[n][j].cJobName = tJob[n][j].cJobName /\ Alive(n, j)'
    BY <1>2 DEF Group, Alive, Closing
  <2> QED
    BY <1>2, <2>1
<1> QED
  BY <1>1, <1>2 DEF WaitOK, Alive

LEMMA WaitStep ==
  ASSUME Nodes # {}, IndWait, [Next]_vars
  PROVE  IndWait'
<1> SUFFICES ASSUME doubt' = {} PROVE WaitOK'
  BY PlacedStep DEF IndWait
<1>0. IndType /\ PlacedOK /\ WaitOK /\ TypeOK /\ doubt = {}
  BY DoubtsStay, TypeParts DEF IndWait, IndPlaced
<1>1. ASSUME NEW s \in Sessions, NEW n \in Nodes, InsertJob(s, n) PROVE WaitOK'
  <2>1. UNCHANGED <<uFWStatus, run>> /\ \E r \in JobRow : Added(n, r)
    BY <1>0, <1>1, InsertEffect DEF InsertJob, InsertRow
  <2>2. \A k \in Nodes : \A j \in DOMAIN tJob[k] : j \in DOMAIN tJob'[k] /\ tJob'[k][j] = tJob[k][j]
    BY <2>1 DEF Added
  <2> QED
    BY <1>0, <2>1, <2>2, WaitOfRows
<1>2. ASSUME NEW s \in Sessions, SetWaiting(s) PROVE WaitOK'
  <2>1. /\ IsOpen(s) /\ page[s].left = {} /\ UNCHANGED <<tJob, run>>
        /\ uFWStatus' = Awaits[page[s].cJobName]
    BY <1>0, <1>2, SetWaitingEffect
  <2>2. PICK n \in Nodes : TRUE
    OBVIOUS
  <2>3. PICK j \in Group(n) : tJob[n][j].order = page[s].order
    BY <1>0, <2>1, <2>2 DEF PlacedOK, PageRows
  <2>5. tJob[n][j].uJobStatus # "DONEOK"
    BY <1>0, <2>3 DEF PlacedOK, Untouched
  <2>6. tJob[n][j].cJobName = page[s].cJobName
    BY <1>0, <2>3, SameName, TypeParts
  <2> QED
    BY <2>1, <2>3, <2>5, <2>6 DEF WaitOK, Group
<1>3. CASE Order
  <2>1. UNCHANGED <<uFWStatus, run>>
    BY <1>3 DEF Order, OpenOrder, InsertFails, ActivateFirewall, GroupCancel
  <2>2. CASE \E n \in Nodes : ActivateFirewall(n)
    <3>1. PICK n \in Nodes : \E r \in JobRow : Added(n, r)
      BY <1>0, <2>2, ActivateEffect
    <3>2. \A k \in Nodes : \A j \in DOMAIN tJob[k] : j \in DOMAIN tJob'[k] /\ tJob'[k][j] = tJob[k][j]
      BY <3>1 DEF Added
    <3> QED
      BY <1>0, <2>1, <3>2, WaitOfRows
  <2>3. CASE \E n \in Nodes : \E j \in DOMAIN tJob[n] : GroupCancel(n, j)
    <3>0. PICK n \in Nodes : \E j \in DOMAIN tJob[n] : GroupCancel(n, j)
      BY <2>3
    <3>1. PICK j \in DOMAIN tJob[n] : SetJob(n, j, "CANCELED")
      BY <3>0 DEF GroupCancel
    <3>2. StatusOnly(n, j, "CANCELED")
      <4>1. "CANCELED" \in JobStatus
        OBVIOUS
      <4> QED
        BY <1>0, <3>1, <4>1, SetJobEffect
    <3>3. \A k \in Nodes : \A i \in DOMAIN tJob[k] :
            /\ i \in DOMAIN tJob'[k] /\ tJob'[k][i].cJobName = tJob[k][i].cJobName
            /\ tJob[k][i].uJobStatus # "DONEOK" => tJob'[k][i].uJobStatus # "DONEOK"
      BY <3>2 DEF StatusOnly
    <3> QED
      BY <1>0, <2>1, <3>3, WaitOfRows
  <2>4. CASE tJob' = tJob
    BY <1>0, <2>1, <2>4, WaitOfRows
  <2> QED
    BY <1>3, <2>2, <2>3, <2>4 DEF Order, OpenOrder, InsertFails
<1>4. CASE UNCHANGED vars
  <2>1. UNCHANGED <<tJob, run, uFWStatus>>
    BY <1>4 DEF vars
  <2> QED
    BY <1>0, <2>1, WaitOfRows
<1> QED
  BY <1>0, <1>1, <1>2, <1>3, <1>4, WaitOfRunner DEF Next, Page

\* An address in a waiting status has an order of that status that somebody
\* still works on, unless a job has failed or a runner is dead, whatever the
\* overlap of orders, if there is a node at all.
THEOREM WaitHasAnOrder == Nodes # {} /\ Spec => []WaitIsForAnOrder
<1>1. Init => IndWait
  BY InitPlaced DEF IndWait, WaitOK, Init, Waiting
<1>2. Nodes # {} /\ IndWait /\ [Next]_vars => IndWait'
  BY WaitStep
<1>3. IndWait => WaitIsForAnOrder
  <2> SUFFICES ASSUME IndWait, uFWStatus \in Waiting, doubt = {}, ~Stuck
               PROVE  \E r \in UNION {Rows(n) : n \in Nodes} :
                        r.cJobName \in GroupJobs /\ Awaits[r.cJobName] = uFWStatus /\ Open(r.order)
    BY DEF WaitIsForAnOrder
  <2>1. TypeOK /\ \A n \in Nodes : run[n].pc # "dead"
    BY TypeParts DEF IndWait, IndPlaced, Stuck
  <2>9. PICK n \in Nodes : \E j \in Group(n) : Awaits[tJob[n][j].cJobName] = uFWStatus /\ Alive(n, j)
    BY <2>1 DEF IndWait, WaitOK, Alive
  <2>2. PICK j \in Group(n) : Awaits[tJob[n][j].cJobName] = uFWStatus /\ Alive(n, j)
    BY <2>9
  <2>3. j \in DOMAIN tJob[n] /\ tJob[n][j].cJobName \in GroupJobs /\ tJob[n][j] \in JobRow
    BY <2>1, Tables DEF Group
  <2>4. tJob[n][j] \in Rows(n) /\ tJob[n][j].uJobStatus \notin {"ERROR", "CANCELED"}
    BY <2>3 DEF Rows, Stuck
  <2>5. Open(tJob[n][j].order)
    <3>1. CASE tJob[n][j].uJobStatus # "DONEOK"
      BY <2>3, <2>4, <3>1 DEF Open, JobRow
    <3>2. CASE Closing(n, j)
      BY <2>3, <3>2 DEF Open, Closing
    <3> QED
      BY <2>2, <3>1, <3>2 DEF Alive
  <2> QED
    BY <2>2, <2>3, <2>4, <2>5
<1>4. Nodes # {} /\ [Next]_vars => (Nodes # {})'
  OBVIOUS
<1> QED
  BY <1>1, <1>2, <1>3, <1>4, PTL DEF Spec
-----------------------------------------------------------------------------
(******************** Each node takes the orders in turn *******************)

LEMMA BrokenOfMoves ==
  ASSUME IndType, Broken, NEW n \in Nodes, Moves(n), run[n].pc # "dead"
  PROVE  Broken'
<1>1. CASE \E k \in Nodes : run[k].pc = "dead"
  BY <1>1 DEF Broken, Moves
<1>2. ASSUME NEW k \in Nodes, NEW j \in DOMAIN tJob[k], Failed(k, j) PROVE Broken'
  <2>1. j \in DOMAIN tJob'[k]
    BY DEF Moves, SameOrders
  <2>2. CASE k # n
    BY <1>2, <2>1, <2>2 DEF Moves, Broken, Failed
  <2>3. CASE k = n
    <3>1. RunOK(n)
      BY TypeParts DEF RunsOK
    <3>4. j # 0
      BY TypeParts, Tables
    <3>5. j \notin run[n].rows
      BY <1>2, <2>3, <3>1 DEF RunOK, Failed
    <3>2. j \notin run[n].rows /\ (run[n].cur = j => run[n].pc \in Busy)
      BY <2>3, <3>1, <3>4, <3>5 DEF RunOK
    <3>3. j # run[n].cur
      BY <1>2, <2>3, <3>1, <3>2 DEF RunOK, Failed
    <3>6. tJob'[n][j].uJobStatus = tJob[n][j].uJobStatus /\ j \notin run'[n].rows
      BY <2>3, <3>2, <3>3 DEF Moves
    <3> QED
      BY <1>2, <2>1, <2>3, <3>6 DEF Broken, Failed
  <2> QED
    BY <2>2, <2>3
<1> QED
  BY <1>1, <1>2 DEF Broken

LEMMA BrokenOfRows ==
  ASSUME Broken, run' = run,
         \A k \in Nodes : \A j \in DOMAIN tJob[k] : j \in DOMAIN tJob'[k] /\ (Failed(k, j) => Failed(k, j)')
  PROVE  Broken'
BY DEF Broken

LEMMA CancelEffect ==
  ASSUME TypeOK, NEW n \in Nodes, NEW j \in DOMAIN tJob[n], GroupCancel(n, j)
  PROVE  /\ StatusOnly(n, j, "CANCELED") /\ tJob[n][j].uJobStatus \in {"WAITING", "ERROR"}
         /\ UNCHANGED <<uFWStatus, chain, page, run, doubt>>
<1>1. SetJob(n, j, "CANCELED") /\ "CANCELED" \in JobStatus
  BY DEF GroupCancel
<1> QED
  BY <1>1, SetJobEffect DEF GroupCancel

LEMMA BrokenStays ==
  ASSUME IndType, [Next]_vars, Broken
  PROVE  Broken'
<1>0. TypeOK /\ RunsOK
  BY TypeParts
<1>1. ASSUME NEW n \in Nodes, Proceed(n) \/ Fail(n) PROVE Broken'
  <2>1. CASE Select(n)
    <3>1. tJob' = tJob /\ run[n].pc = "idle"
      BY <2>1 DEF Select
    <3>2. /\ \A k \in Nodes : k # n => run'[k] = run[k]
          /\ run'[n].rows = Due(n)
      BY <1>0, <2>1, SelectEffect DEF RunIs
    <3>3. \A k \in Nodes : \A j \in DOMAIN tJob[k] : Failed(k, j) => Failed(k, j)'
      BY <3>1, <3>2 DEF Failed, Due
    <3> QED
      BY <3>1, <3>2, <3>3 DEF Broken
  <2> QED
    BY <1>1, <2>1, RunnerLives, RunnerMoves, BrokenOfMoves
<1>2. ASSUME NEW n \in Nodes, NEW r \in JobRow, Added(n, r), run' = run PROVE Broken'
  <2>1. \A k \in Nodes : \A j \in DOMAIN tJob[k] : j \in DOMAIN tJob'[k] /\ tJob'[k][j] = tJob[k][j]
    BY <1>2 DEF Added
  <2> QED
    BY <1>2, <2>1, BrokenOfRows DEF Failed
<1>3. ASSUME UNCHANGED <<tJob, run>> PROVE Broken'
  BY <1>3, BrokenOfRows DEF Failed
<1>4. ASSUME NEW s \in Sessions, Page(s) PROVE Broken'
  <2>1. CASE SetWaiting(s)
    BY <1>0, <1>3, <2>1, SetWaitingEffect
  <2>2. ASSUME NEW n \in Nodes, InsertJob(s, n) PROVE Broken'
    <3>1. run' = run /\ \E r \in JobRow : Added(n, r)
      BY <1>0, <2>2, InsertEffect DEF InsertJob, InsertRow
    <3> QED
      BY <1>2, <3>1
  <2> QED
    BY <1>4, <2>1, <2>2 DEF Page
<1>5. CASE Order
  <2>1. ASSUME NEW n \in Nodes, ActivateFirewall(n) PROVE Broken'
    <3>1. run' = run /\ \E r \in JobRow : Added(n, r)
      BY <1>0, <2>1, ActivateEffect DEF ActivateFirewall
    <3> QED
      BY <1>2, <3>1
  <2>2. ASSUME NEW n \in Nodes, NEW j \in DOMAIN tJob[n], GroupCancel(n, j) PROVE Broken'
    <3>1. /\ StatusOnly(n, j, "CANCELED") /\ tJob[n][j].uJobStatus \in {"WAITING", "ERROR"}
          /\ run' = run
      BY <1>0, <2>2, CancelEffect
    <3>2. \A i \in run[n].rows : tJob[n][i].uJobStatus # "ERROR"
      BY <1>0 DEF RunsOK, RunOK
    <3>3. \A k \in Nodes : \A i \in DOMAIN tJob[k] : i \in DOMAIN tJob'[k] /\ (Failed(k, i) => Failed(k, i)')
      BY <3>1, <3>2 DEF Failed, StatusOnly
    <3> QED
      BY <3>1, <3>3, BrokenOfRows
  <2>3. CASE UNCHANGED <<tJob, run>>
    BY <1>3, <2>3
  <2> QED
    BY <1>5, <2>1, <2>2, <2>3 DEF Order, OpenOrder, InsertFails
<1> QED
  BY <1>1, <1>3, <1>4, <1>5 DEF Next, vars

LEMMA SoundBefore ==
  ASSUME IndType, [Next]_vars, Sound'
  PROVE  Sound /\ doubt' = {} /\ ~Broken'
BY BrokenStays, DoubtsStay DEF Sound

\* What InTurn and its company say of the node n
TurnsAt(n) ==
    /\ \A j \in DOMAIN tJob[n] : tJob[n][j].uJobStatus = "RUNNING" => run[n].cur = j
    /\ \A j \in run[n].rows, i \in Group(n) :
          tJob[n][i].uJobStatus = "WAITING" /\ i \notin run[n].rows => j < i
    /\ \A i, j \in Group(n) :
          i < j /\ ~Through(n, i) => tJob[n][j].uJobStatus \in {"WAITING", "CANCELED"}

LEMMA TurnsParts ==
  TurnsOK <=> OnePage /\ Sorted /\ PageLast /\ \A n \in Nodes : TurnsAt(n)
BY DEF TurnsOK, RunningInHand, Behind, InTurn, TurnsAt

LEMMA TurnsOfMoves ==
  ASSUME IndType, TurnsOK, NEW n \in Nodes, Moves(n), TurnsAt(n)'
  PROVE  TurnsOK'
<1>1. \A k \in Nodes : /\ Group(k)' = Group(k)
                       /\ \A i \in Group(k) : tJob'[k][i].order = tJob[k][i].order
  BY SameGroups DEF Moves
<1>2. page' = page
  BY DEF Moves
<1>3. OnePage' /\ Sorted' /\ PageLast'
  BY <1>1, <1>2 DEF TurnsOK, OnePage, Sorted, PageLast, IsOpen
<1>4. ASSUME NEW k \in Nodes, k # n PROVE TurnsAt(k)'
  <2>1. tJob'[k] = tJob[k] /\ run'[k] = run[k]
    BY <1>4 DEF Moves
  <2>2. TurnsAt(k)
    BY TurnsParts
  <2> QED
    BY <2>1, <2>2 DEF TurnsAt, Group, Through
<1>5. \A k \in Nodes : TurnsAt(k)'
  BY <1>4
<1> QED
  BY <1>3, <1>5 DEF TurnsOK, TurnsAt, RunningInHand, Behind, InTurn

(* A step in which the runner goes on, or leaves the row it has done.        *)
LEMMA TurnsAtSame ==
  ASSUME TypeOK, RunsOK, NEW n \in Nodes, TurnsAt(n), tJob' = tJob, run'[n].rows = run[n].rows,
         \/ run'[n].cur = run[n].cur
         \/ run'[n].cur = 0 /\ run[n].pc = "publish"
  PROVE  TurnsAt(n)'
<1>1. Group(n)' = Group(n) /\ Group(n) \subseteq DOMAIN tJob[n] /\ 0 \notin DOMAIN tJob[n]
  BY Tables DEF Group
<1>2. run'[n].cur # run[n].cur => tJob[n][run[n].cur].uJobStatus = "DONEOK"
  BY InHand DEF Busy, Cur
<1> QED
  BY <1>1, <1>2 DEF TurnsAt, Through

LEMMA TurnsAtBegin ==
  ASSUME TypeOK, RunsOK, NEW n \in Nodes, TurnsAt(n), ~Broken, run[n].pc = "loop",
         NEW j0 \in run[n].rows, NextRow(n, j0), StatusOnly(n, j0, "RUNNING"),
         run'[n].rows = run[n].rows \ {j0}, run'[n].cur = j0
  PROVE  TurnsAt(n)'
<1>0. RunOK(n) /\ Group(n) \subseteq DOMAIN tJob[n] /\ DOMAIN tJob[n] \subseteq Nat /\ 0 \notin DOMAIN tJob[n]
  BY Tables DEF RunsOK, Group
<1>1. /\ run[n].cur = 0 /\ j0 \in DOMAIN tJob[n]
      /\ tJob[n][j0].uJobStatus \in {"WAITING", "CANCELED"}
  BY <1>0 DEF RunOK, Busy
<1>2. /\ DOMAIN tJob'[n] = DOMAIN tJob[n] /\ tJob'[n][j0].uJobStatus = "RUNNING"
      /\ \A i \in DOMAIN tJob[n] : i # j0 => tJob'[n][i].uJobStatus = tJob[n][i].uJobStatus
      /\ \A i \in DOMAIN tJob[n] : tJob'[n][i].cJobName = tJob[n][i].cJobName
  BY DEF StatusOnly
<1>3. Group(n)' = Group(n)
  BY <1>2 DEF Group
<1>4. \A i \in DOMAIN tJob[n] : tJob[n][i].uJobStatus # "RUNNING"
  BY <1>0, <1>1 DEF TurnsAt
<1>5. \A i \in Group(n) : i < j0 => Through(n, i)
  <2> SUFFICES ASSUME NEW i \in Group(n), i < j0 PROVE Through(n, i)
    OBVIOUS
  <2>1. i \notin run[n].rows /\ i \in DOMAIN tJob[n] /\ i # 0
    BY <1>0, <1>1 DEF NextRow
  <2>2. tJob[n][i].uJobStatus \notin {"ERROR", "CANCELED"}
    BY <2>1 DEF Broken, Failed
  <2>3. tJob[n][i].uJobStatus # "WAITING"
    BY <1>0, <1>1, <2>1 DEF TurnsAt
  <2>4. tJob[n][i] \in JobRow
    BY <2>1, Tables
  <2> QED
    BY <1>1, <1>4, <2>1, <2>2, <2>3, <2>4 DEF Through, JobRow
<1>6. \A j \in DOMAIN tJob[n] : tJob'[n][j].uJobStatus = "RUNNING" => run'[n].cur = j
  BY <1>2, <1>4
<1>7. \A j \in run'[n].rows, i \in Group(n) :
          tJob'[n][i].uJobStatus = "WAITING" /\ i \notin run'[n].rows => j < i
  BY <1>0, <1>2 DEF TurnsAt
<1>8. \A i, j \in Group(n) : i < j /\ ~(tJob'[n][i].uJobStatus = "DONEOK" /\ run'[n].cur # i) =>
          tJob'[n][j].uJobStatus \in {"WAITING", "CANCELED"}
  <2> SUFFICES ASSUME NEW i \in Group(n), NEW j \in Group(n), i < j,
                      ~(tJob'[n][i].uJobStatus = "DONEOK" /\ run'[n].cur # i)
               PROVE  tJob'[n][j].uJobStatus \in {"WAITING", "CANCELED"}
    OBVIOUS
  <2>1. ~Through(n, i)
    BY <1>0, <1>1, <1>2 DEF Through
  <2>2. j # j0
    BY <1>5, <2>1
  <2> QED
    BY <1>0, <1>2, <2>1, <2>2 DEF TurnsAt
<1> QED
  BY <1>2, <1>3, <1>6, <1>7, <1>8 DEF TurnsAt, Through

(* The row in hand is done: a group job stays in hand, the other is left.    *)
LEMMA TurnsAtDone ==
  ASSUME TypeOK, RunsOK, NEW n \in Nodes, TurnsAt(n), run[n].pc \in {"done", "started"},
         StatusOnly(n, run[n].cur, "DONEOK"), run'[n].rows = run[n].rows,
         run'[n].cur = IF run[n].pc = "done" THEN run[n].cur ELSE 0
  PROVE  TurnsAt(n)'
<1>0. /\ run[n].cur \in DOMAIN tJob[n] /\ tJob[n][run[n].cur].uJobStatus = "RUNNING"
      /\ run[n].pc = "started" => run[n].cur \notin Group(n)
      /\ Group(n) \subseteq DOMAIN tJob[n] /\ 0 \notin Group(n)
  BY InHand, Tables DEF Busy, Cur, Group, GroupJobs
<1>2. /\ DOMAIN tJob'[n] = DOMAIN tJob[n] /\ tJob'[n][run[n].cur].uJobStatus = "DONEOK"
      /\ \A i \in DOMAIN tJob[n] : i # run[n].cur => tJob'[n][i].uJobStatus = tJob[n][i].uJobStatus
      /\ \A i \in DOMAIN tJob[n] : tJob'[n][i].cJobName = tJob[n][i].cJobName
  BY <1>0 DEF StatusOnly
<1>3. Group(n)' = Group(n)
  BY <1>2 DEF Group
<1>4. \A j \in DOMAIN tJob[n] : tJob'[n][j].uJobStatus # "RUNNING"
  BY <1>0, <1>2 DEF TurnsAt
<1>5. \A j \in run'[n].rows, i \in Group(n) :
          tJob'[n][i].uJobStatus = "WAITING" /\ i \notin run'[n].rows => j < i
  BY <1>0, <1>2 DEF TurnsAt
<1>6. \A i, j \in Group(n) : i < j /\ ~(tJob'[n][i].uJobStatus = "DONEOK" /\ run'[n].cur # i) =>
          tJob'[n][j].uJobStatus \in {"WAITING", "CANCELED"}
  <2> SUFFICES ASSUME NEW i \in Group(n), NEW j \in Group(n), i < j,
                      ~(tJob'[n][i].uJobStatus = "DONEOK" /\ run'[n].cur # i)
               PROVE  tJob'[n][j].uJobStatus \in {"WAITING", "CANCELED"}
    OBVIOUS
  <2>1. ~Through(n, i)
    BY <1>0, <1>2 DEF Through
  <2>2. tJob[n][j].uJobStatus \in {"WAITING", "CANCELED"}
    BY <2>1 DEF TurnsAt
  <2>3. j # run[n].cur
    BY <1>0, <2>2
  <2> QED
    BY <1>0, <1>2, <2>2, <2>3
<1> QED
  BY <1>2, <1>3, <1>4, <1>5, <1>6 DEF TurnsAt, Through

LEMMA TurnsAtPostpone ==
  ASSUME TypeOK, RunsOK, NEW n \in Nodes, TurnsAt(n), run[n].pc = "loop",
         NEW j0 \in run[n].rows, tJob[n][j0].cJobName = "StartIptables", StatusOnly(n, j0, "WAITING"),
         run'[n].rows = run[n].rows \ {j0}, run'[n].cur = 0
  PROVE  TurnsAt(n)'
<1>0. /\ j0 \in DOMAIN tJob[n] /\ j0 \notin Group(n) /\ Group(n) \subseteq DOMAIN tJob[n]
      /\ run[n].cur = 0
  BY DEF RunsOK, RunOK, Busy, Group, GroupJobs
<1>2. /\ DOMAIN tJob'[n] = DOMAIN tJob[n] /\ tJob'[n][j0].uJobStatus = "WAITING"
      /\ \A i \in DOMAIN tJob[n] : i # j0 => tJob'[n][i].uJobStatus = tJob[n][i].uJobStatus
      /\ \A i \in DOMAIN tJob[n] : tJob'[n][i].cJobName = tJob[n][i].cJobName
  BY <1>0 DEF StatusOnly
<1>3. Group(n)' = Group(n)
  BY <1>2 DEF Group
<1> QED
  BY <1>0, <1>2, <1>3 DEF TurnsAt, Through

LEMMA TurnsOfRunner ==
  ASSUME IndType, TurnsOK, ~Broken, ~Broken', NEW n \in Nodes, Proceed(n) \/ Fail(n)
  PROVE  TurnsOK'
<1>0. TypeOK /\ RunsOK /\ TurnsAt(n) /\ RunOK(n)
  BY TypeParts, TurnsParts DEF RunsOK
<1>1. CASE Select(n)
  <2>1. UNCHANGED <<tJob, page>> /\ run[n].pc = "idle"
    BY <1>1 DEF Select
  <2>2. /\ \A k \in Nodes : k # n => run'[k] = run[k]
        /\ run'[n].rows = Due(n) /\ run'[n].cur = 0
    BY <1>0, <1>1, SelectEffect DEF RunIs
  <2>3. \A k \in Nodes : Group(k)' = Group(k) /\ Group(k) \subseteq DOMAIN tJob[k]
    BY <2>1 DEF Group
  <2>4. OnePage' /\ Sorted' /\ PageLast'
    BY <2>1, <2>3 DEF TurnsOK, OnePage, Sorted, PageLast, IsOpen
  <2>5. TurnsAt(n)'
    <3>1. run[n].cur = 0
      BY <1>0, <2>1 DEF RunOK, Busy
    <3> QED
      BY <1>0, <2>1, <2>2, <2>3, <3>1 DEF TurnsAt, Through, Due
  <2>6. ASSUME NEW k \in Nodes, k # n PROVE TurnsAt(k)'
    <3>1. TurnsAt(k)
      BY TurnsParts
    <3> QED
      BY <2>1, <2>2, <2>3, <2>6, <3>1 DEF TurnsAt, Through
  <2>7. \A k \in Nodes : TurnsAt(k)'
    BY <2>5, <2>6
  <2> QED
    BY <2>4, <2>7 DEF TurnsOK, TurnsAt, RunningInHand, Behind, InTurn
<1>2. ASSUME ~Select(n) PROVE TurnsAt(n)'
  <2>1. CASE Begin(n)
    <3>1. PICK j \in run[n].rows : /\ NextRow(n, j) /\ SetJob(n, j, "RUNNING")
                                   /\ run' = [run EXCEPT ![n].pc = "rules", ![n].rows = @ \ {j}, ![n].cur = j]
      BY <2>1 DEF Begin
    <3>2. PICK i \in run[n].rows :
            /\ i \in DOMAIN tJob[n] /\ StatusOnly(n, i, "RUNNING")
            /\ RunIs(n, "rules", run[n].rows \ {i}, i, run[n].uAllJobsDone)
      BY <1>0, <2>1, BeginEffect
    <3>3. run'[n].cur = i /\ run'[n].rows = run[n].rows \ {i} /\ run[n].pc = "loop"
      BY <2>1, <3>2 DEF RunIs, Begin
    <3>4. run'[n].cur = j
      BY <1>0, <3>1, RunnerType DEF TypeOK, RunnerStates
    <3> QED
      BY <1>0, <3>1, <3>2, <3>3, <3>4, TurnsAtBegin
  <2>2. CASE Iptables(n)
    <3>1. tJob' = tJob /\ run'[n].rows = run[n].rows /\ run'[n].cur = run[n].cur
      BY <1>0, <2>2, IptablesEffect DEF Iptables, RunIs
    <3> QED
      BY <1>0, <3>1, TurnsAtSame
  <2>3. CASE Done(n)
    <3>1. /\ run[n].pc = "done" /\ StatusOnly(n, run[n].cur, "DONEOK")
          /\ run'[n].rows = run[n].rows /\ run'[n].cur = run[n].cur
      BY <1>0, <2>3, DoneEffect DEF RunIs
    <3> QED
      BY <1>0, <3>1, TurnsAtDone
  <2>4. CASE Check(n)
    <3>1. tJob' = tJob /\ run'[n].rows = run[n].rows /\ run'[n].cur = run[n].cur
      BY <1>0, <2>4, CheckEffect DEF Check, RunIs
    <3> QED
      BY <1>0, <3>1, TurnsAtSame
  <2>5. CASE Publish(n)
    <3>1. /\ tJob' = tJob /\ run'[n].rows = run[n].rows /\ run'[n].cur = 0 /\ run[n].pc = "publish"
      BY <1>0, <2>5, PublishEffect DEF Publish, RunIs
    <3> QED
      BY <1>0, <3>1, TurnsAtSame
  <2>6. CASE Restart(n)
    <3>1. run[n].pc = "rules" /\ run[n].cur \in DOMAIN tJob[n]
      BY <1>0, <2>6, InHand DEF Restart, Busy
    <3>2. ~StatusOnly(n, run[n].cur, "ERROR")
      BY <3>1 DEF Broken, Failed, StatusOnly
    <3>3. tJob' = tJob /\ run'[n].rows = run[n].rows /\ run'[n].cur = run[n].cur
      BY <1>0, <2>6, <3>2, RestartEffect DEF RunIs
    <3> QED
      BY <1>0, <3>3, TurnsAtSame
  <2>7. CASE RestoreDrops(n) \/ RestoreAccepts(n)
    <3>1. tJob' = tJob
      BY <2>7 DEF RestoreDrops, RestoreAccepts, Restore
    <3>2. run'[n].rows = run[n].rows /\ run'[n].cur = run[n].cur
      BY <1>0, <2>7, RestoreEffect DEF RunIs, RestoreDrops, RestoreAccepts, Rules, Points
    <3> QED
      BY <1>0, <3>1, <3>2, TurnsAtSame
  <2>8. CASE StartDone(n)
    <3>1. /\ run[n].pc = "started" /\ StatusOnly(n, run[n].cur, "DONEOK")
          /\ run'[n].rows = run[n].rows /\ run'[n].cur = 0
      BY <1>0, <2>8, StartDoneEffect DEF RunIs
    <3> QED
      BY <1>0, <3>1, TurnsAtDone
  <2>9. CASE Postpone(n)
    <3>1. PICK j \in run[n].rows :
            /\ NextRow(n, j) /\ tJob[n][j].cJobName = "StartIptables" /\ SetJob(n, j, "WAITING")
            /\ run' = [run EXCEPT ![n].rows = @ \ {j},
                                  ![n].pc = IF run[n].rows = {j} THEN "idle" ELSE "loop"]
      BY <2>9 DEF Postpone
    <3>2. /\ run[n].pc = "loop" /\ j \in DOMAIN tJob[n] /\ "WAITING" \in JobStatus
      BY <1>0, <2>9 DEF Postpone, RunOK
    <3>3. StatusOnly(n, j, "WAITING")
      BY <1>0, <3>1, <3>2, SetJobEffect
    <3>4. run'[n].rows = run[n].rows \ {j} /\ run'[n].cur = run[n].cur
      BY <1>0, <3>1, RunnerType DEF TypeOK, RunnerStates
    <3>5. run[n].cur = 0
      BY <1>0, <3>2 DEF RunOK, Busy
    <3> QED
      BY <1>0, <3>1, <3>2, <3>3, <3>4, <3>5, TurnsAtPostpone
  <2>10. CASE IptablesFails(n)
    <3>1. run[n].pc = "rules" /\ run[n].cur \in DOMAIN tJob[n] /\ StatusOnly(n, run[n].cur, "ERROR")
      BY <1>0, <2>10, IptablesFailsEffect, InHand DEF Busy
    <3> QED
      BY <3>1 DEF Broken, Failed, StatusOnly
  <2>11. CASE Die(n)
    BY <1>0, <2>11, DieEffect DEF Broken, RunIs
  <2> QED
    BY <1>2, <2>1, <2>2, <2>3, <2>4, <2>5, <2>6, <2>7, <2>8, <2>9, <2>10, <2>11 DEF Proceed, Fail
<1> QED
  BY <1>1, <1>2, RunnerMoves, TurnsOfMoves

(* A row that is added comes last and waits.                                *)
LEMMA TurnsAtAdd ==
  ASSUME TypeOK, RunsOK, NEW n \in Nodes, TurnsAt(n), NEW r \in JobRow, Added(n, r),
         r.uJobStatus = "WAITING", run' = run
  PROVE  TurnsAt(n)'
<1> DEFINE z == Len(tJob[n]) + 1
<1>1. /\ DOMAIN tJob'[n] = DOMAIN tJob[n] \cup {z} /\ z \notin DOMAIN tJob[n]
      /\ \A i \in DOMAIN tJob[n] : i < z /\ tJob'[n][i] = tJob[n][i]
      /\ tJob'[n][z].uJobStatus = "WAITING"
  BY Tables DEF Added
<1>2. \A i \in DOMAIN tJob[n] : ~(z < i)
  BY Tables
<1> HIDE DEF z
<1>3. /\ run[n].rows \subseteq DOMAIN tJob[n] /\ Group(n) \subseteq DOMAIN tJob[n]
      /\ Group(n)' \subseteq Group(n) \cup {z} /\ Group(n) \subseteq Group(n)' /\ ~(z < z)
  <2>1. z \in Nat
    BY Tables DEF z
  <2>2. ~(z < z)
    BY <2>1
  <2> QED
    BY <1>1, <2>2 DEF RunsOK, RunOK, Group
<1>4. \A j \in DOMAIN tJob'[n] : tJob'[n][j].uJobStatus = "RUNNING" => run[n].cur = j
  BY <1>1 DEF TurnsAt
<1>5. \A j \in run[n].rows, i \in Group(n)' :
          tJob'[n][i].uJobStatus = "WAITING" /\ i \notin run[n].rows => j < i
  BY <1>1, <1>3 DEF TurnsAt
<1>6. \A i, j \in Group(n)' : i < j /\ ~(tJob'[n][i].uJobStatus = "DONEOK" /\ run[n].cur # i) =>
          tJob'[n][j].uJobStatus \in {"WAITING", "CANCELED"}
  <2> SUFFICES ASSUME NEW i \in Group(n)', NEW j \in Group(n)', i < j,
                      ~(tJob'[n][i].uJobStatus = "DONEOK" /\ run[n].cur # i)
               PROVE  tJob'[n][j].uJobStatus \in {"WAITING", "CANCELED"}
    OBVIOUS
  <2>1. CASE j = z
    BY <1>1, <2>1
  <2>2. CASE j # z
    <3>1. i \in Group(n) /\ j \in Group(n)
      BY <1>2, <1>3, <2>2
    <3> QED
      BY <1>1, <1>3, <3>1 DEF TurnsAt, Through
  <2> QED
    BY <2>1, <2>2
<1> QED
  BY <1>4, <1>5, <1>6 DEF TurnsAt, Through

LEMMA TurnsAtKept ==
  ASSUME NEW n \in Nodes, TurnsAt(n), tJob'[n] = tJob[n], run' = run
  PROVE  TurnsAt(n)'
BY DEF TurnsAt, Through, Group

LEMMA TurnsOfInsert ==
  ASSUME IndType, TurnsOK, NEW s \in Sessions, NEW n \in Nodes, InsertJob(s, n)
  PROVE  TurnsOK'
<1>0. run' = run /\ TypeOK /\ RunsOK
  BY TypeParts DEF InsertJob, InsertRow
<1>1. /\ IsOpen(s) /\ n \in page[s].left
      /\ \A t \in Sessions : t # s => page'[t] = page[t]
      /\ page'[s].who = page[s].who /\ page'[s].order = page[s].order
  BY TypeParts, InsertEffect
<1>2. PICK r \in JobRow : /\ Added(n, r) /\ r.uJobStatus = "WAITING" /\ r.order = page[s].order
  BY TypeParts, InsertEffect
<1> DEFINE z == Len(tJob[n]) + 1
<1>3. /\ \A k \in Nodes : k # n => tJob'[k] = tJob[k]
      /\ DOMAIN tJob'[n] = DOMAIN tJob[n] \cup {z}
      /\ \A i \in DOMAIN tJob[n] : tJob'[n][i] = tJob[n][i] /\ ~(z < i)
      /\ tJob'[n][z].order = page[s].order /\ ~(z < z)
  <2>1. Len(tJob[n]) \in Nat /\ DOMAIN tJob[n] = 1 .. Len(tJob[n])
    BY <1>0, Tables
  <2>2. ~(z < z) /\ \A i \in DOMAIN tJob[n] : ~(z < i)
    BY <2>1
  <2> QED
    BY <1>2, <2>2 DEF Added
<1> HIDE DEF z
<1>4. /\ Group(n)' \subseteq Group(n) \cup {z} /\ \A k \in Nodes : k # n => Group(k)' = Group(k)
      /\ \A k \in Nodes : \A i \in Group(k) : tJob'[k][i] = tJob[k][i]
      /\ Group(n) \subseteq DOMAIN tJob[n]
  BY <1>3 DEF Group
<1>5. page[s].order \in Nat /\ \A k \in Nodes : \A i \in Group(k) : tJob[k][i].order \in Nat
  BY <1>0, PageType, GroupFacts, TypeParts DEF OrdersOK
<1>6. \A i \in Group(n) : tJob[n][i].order < page[s].order
  <2> SUFFICES ASSUME NEW i \in Group(n) PROVE tJob[n][i].order < page[s].order
    OBVIOUS
  <2>1. tJob[n][i].order <= page[s].order
    BY <1>1 DEF TurnsOK, PageLast
  <2>2. tJob[n][i].order # page[s].order
    BY <1>1, TypeParts DEF OrdersOK, Group
  <2> QED
    BY <1>5, <2>1, <2>2
<1>7. OnePage'
  BY <1>1 DEF TurnsOK, OnePage, IsOpen
<1>8. Sorted'
  <2> SUFFICES ASSUME NEW k \in Nodes, NEW i \in Group(k)', NEW j \in Group(k)', i < j
               PROVE  tJob'[k][i].order < tJob'[k][j].order
    BY DEF Sorted
  <2>1. CASE i \in Group(k) /\ j \in Group(k)
    BY <1>4, <2>1 DEF TurnsOK, Sorted
  <2>2. CASE k = n /\ j = z /\ i \in Group(n)
    BY <1>3, <1>4, <1>6, <2>2
  <2>3. CASE k = n /\ i = z
    BY <1>3, <1>4, <2>3
  <2> QED
    BY <1>4, <2>1, <2>2, <2>3
<1>9. PageLast'
  <2> SUFFICES ASSUME NEW t \in Sessions, NEW k \in Nodes, NEW i \in Group(k)', page'[t].who # "none"
               PROVE  tJob'[k][i].order <= page'[t].order
    BY DEF PageLast, IsOpen
  <2>1. t = s /\ page'[t].order = page[s].order
    BY <1>1 DEF TurnsOK, OnePage, IsOpen
  <2>2. CASE i \in Group(k)
    BY <1>1, <1>4, <2>1, <2>2 DEF TurnsOK, PageLast
  <2>3. CASE k = n /\ i = z
    BY <1>3, <1>5, <2>1, <2>3
  <2> QED
    BY <1>4, <2>2, <2>3
<1>10. \A k \in Nodes : TurnsAt(k)'
  BY <1>0, <1>2, <1>3, TurnsParts, TurnsAtAdd, TurnsAtKept
<1> QED
  BY <1>7, <1>8, <1>9, <1>10 DEF TurnsOK, TurnsAt, RunningInHand, Behind, InTurn

LEMMA TurnsOfClose ==
  ASSUME TurnsOK, NEW s \in Sessions, UNCHANGED <<tJob, run>>,
         page'[s] = NoOrder, \A t \in Sessions : t # s => page'[t] = page[t]
  PROVE  TurnsOK'
<1>1. \A t \in Sessions : page'[t].who # "none" => page'[t] = page[t]
  BY NoOrderType
<1>2. OnePage' /\ Sorted' /\ PageLast'
  BY <1>1 DEF TurnsOK, OnePage, Sorted, PageLast, IsOpen, Group
<1>3. \A k \in Nodes : TurnsAt(k)'
  BY TurnsParts, TurnsAtKept
<1> QED
  BY <1>2, <1>3 DEF TurnsOK, TurnsAt, RunningInHand, Behind, InTurn

LEMMA TurnsOfOpen ==
  ASSUME IndType, TurnsOK, NEW s \in Sessions, NEW who \in {"page", "event", "command"},
         NEW name \in GroupJobs, OpenOrder(s, who, name), doubt' = {}
  PROVE  TurnsOK'
<1>0. UNCHANGED <<tJob, run>>
  BY DEF OpenOrder
<1>1. /\ \A t \in Sessions : t # s => page'[t] = page[t]
      /\ page'[s].order = events + 1 /\ \A t \in Sessions : ~IsOpen(t)
  BY TypeParts, OpenEffect
<1>2. \A k \in Nodes : \A j \in Group(k) : tJob[k][j].order <= events + 1
  BY TypeParts, GroupFacts DEF OrdersOK
<1>3. OnePage'
  BY <1>1 DEF OnePage, IsOpen
<1>4. Sorted'
  BY <1>0 DEF TurnsOK, Sorted, Group
<1>5. PageLast'
  <2> SUFFICES ASSUME NEW t \in Sessions, NEW k \in Nodes, NEW i \in Group(k), page'[t].who # "none"
               PROVE  tJob[k][i].order <= page'[t].order
    BY <1>0 DEF PageLast, IsOpen, Group
  <2>1. t = s
    BY <1>1 DEF IsOpen
  <2> QED
    BY <1>1, <1>2, <2>1
<1>6. \A k \in Nodes : TurnsAt(k)'
  BY <1>0, TurnsParts, TurnsAtKept
<1> QED
  BY <1>3, <1>4, <1>5, <1>6 DEF TurnsOK, TurnsAt, RunningInHand, Behind, InTurn

LEMMA TurnsOfActivate ==
  ASSUME IndType, TurnsOK, NEW n \in Nodes, ActivateFirewall(n)
  PROVE  TurnsOK'
<1>0. UNCHANGED <<page, run>> /\ TypeOK /\ RunsOK
  BY TypeParts DEF ActivateFirewall
<1>1. PICK r \in JobRow : Added(n, r) /\ r.cJobName = "StartIptables" /\ r.uJobStatus = "WAITING"
  BY TypeParts, ActivateEffect
<1>2. /\ \A k \in Nodes : k # n => tJob'[k] = tJob[k]
      /\ DOMAIN tJob'[n] = DOMAIN tJob[n] \cup {Len(tJob[n]) + 1}
      /\ Len(tJob[n]) + 1 \notin DOMAIN tJob[n]
      /\ \A i \in DOMAIN tJob[n] : tJob'[n][i] = tJob[n][i]
      /\ tJob'[n][Len(tJob[n]) + 1].cJobName = "StartIptables"
  BY <1>1 DEF Added
<1>3. \A k \in Nodes : Group(k)' = Group(k) /\ \A i \in Group(k) : tJob'[k][i] = tJob[k][i]
  BY <1>2 DEF Group, GroupJobs
<1>4. OnePage' /\ Sorted' /\ PageLast'
  BY <1>0, <1>3 DEF TurnsOK, OnePage, Sorted, PageLast, IsOpen
<1>5. \A k \in Nodes : TurnsAt(k)'
  BY <1>0, <1>1, <1>2, TurnsParts, TurnsAtAdd, TurnsAtKept
<1> QED
  BY <1>4, <1>5 DEF TurnsOK, TurnsAt, RunningInHand, Behind, InTurn

LEMMA TurnsOfCancel ==
  ASSUME IndType, TurnsOK, ~Broken', NEW n \in Nodes, NEW j \in DOMAIN tJob[n], GroupCancel(n, j)
  PROVE  TurnsOK'
<1>0. /\ StatusOnly(n, j, "CANCELED") /\ tJob[n][j].uJobStatus \in {"WAITING", "ERROR"}
      /\ UNCHANGED <<page, run>>
  BY TypeParts, CancelEffect
<1>1. /\ \A k \in Nodes : Group(k)' = Group(k) /\ Group(k) \subseteq DOMAIN tJob[k]
      /\ \A k \in Nodes : \A i \in Group(k) : tJob'[k][i].order = tJob[k][i].order
      /\ \A k \in Nodes : k # n => tJob'[k] = tJob[k]
  BY <1>0, SameOrdersOf, SameGroups DEF StatusOnly, Group
<1>2. OnePage' /\ Sorted' /\ PageLast'
  BY <1>0, <1>1 DEF TurnsOK, OnePage, Sorted, PageLast, IsOpen
<1>3. TurnsAt(n)'
  <2>1. /\ DOMAIN tJob'[n] = DOMAIN tJob[n] /\ tJob'[n][j].uJobStatus = "CANCELED"
        /\ \A i \in DOMAIN tJob[n] : i # j => tJob'[n][i].uJobStatus = tJob[n][i].uJobStatus
    BY <1>0 DEF StatusOnly
  <2>2. TurnsAt(n)
    BY TurnsParts
  <2> QED
    BY <1>0, <1>1, <2>1, <2>2 DEF TurnsAt, Through
<1>4. \A k \in Nodes : TurnsAt(k)'
  BY <1>0, <1>1, <1>3, TurnsParts, TurnsAtKept
<1> QED
  BY <1>2, <1>4 DEF TurnsOK, TurnsAt, RunningInHand, Behind, InTurn

LEMMA TurnsStep ==
  ASSUME IndTurns, [Next]_vars
  PROVE  IndTurns'
<1> SUFFICES ASSUME Sound' PROVE TurnsOK'
  BY PlacedStep DEF IndTurns
<1>0. IndType /\ TurnsOK /\ doubt' = {} /\ ~Broken /\ ~Broken' /\ TypeOK
  BY SoundBefore, TypeParts DEF IndTurns, IndPlaced, Sound
<1>1. ASSUME NEW s \in Sessions, Page(s) PROVE TurnsOK'
  BY <1>0, <1>1, TurnsOfInsert, TurnsOfClose, SetWaitingEffect DEF Page
<1>2. ASSUME NEW s \in Sessions, InsertFails(s) PROVE TurnsOK'
  <2>1. /\ page'[s] = NoOrder /\ UNCHANGED <<tJob, run>>
        /\ \A t \in Sessions : t # s => page'[t] = page[t]
    BY <1>0, <1>2, FailEffect DEF InsertFails
  <2> QED
    BY <1>0, <2>1, TurnsOfClose
<1>3. CASE Order
  BY <1>0, <1>2, <1>3, TurnsOfOpen, TurnsOfActivate, TurnsOfCancel DEF Order
<1>4. CASE UNCHANGED vars
  <2>1. UNCHANGED <<tJob, page, run>>
    BY <1>4 DEF vars
  <2> QED
    BY <1>0, <2>1 DEF TurnsOK, OnePage, Sorted, PageLast, RunningInHand, Behind, InTurn, Through,
                      IsOpen, Group
<1> QED
  BY <1>0, <1>1, <1>3, <1>4, TurnsOfRunner DEF Next
=============================================================================
