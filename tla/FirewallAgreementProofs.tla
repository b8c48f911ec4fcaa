---------------------- MODULE FirewallAgreementProofs ----------------------
(***************************************************************************)
(* Why the status of a customer address and the chains of the nodes agree  *)
(* when the queue has worked off every order.  On a node the group jobs    *)
(* run in the order they were given (IndTurns), so the last to publish is  *)
(* of the newest order (IndStatus), and the rules of a chain are those of  *)
(* the last job the node has executed (IndQuiet).                          *)
(***************************************************************************)
EXTENDS FirewallGroupProofs

USE FirewallAssumption
USE DEF JobStatus

-----------------------------------------------------------------------------
(******************************* Invariants ********************************)

Last(n, j) == j \in Group(n) /\ \A i \in Group(n) : i <= j

IsPlaced(n, j) == j \in Group(n) /\ \A s \in Sessions : page[s].order # tJob[n][j].order

NonePlaced == \A n \in Nodes : \A j \in Group(n) : ~IsPlaced(n, j)

\* No placed order is newer
Newest(m) == \A n \in Nodes : \A j \in Group(n) : IsPlaced(n, j) => tJob[n][j].order <= m

\* The status is that of the newest order as soon as that is through
StatusOK ==
    /\ \A n \in Nodes : \A j \in Group(n) : IsPlaced(n, j) /\ Newest(tJob[n][j].order) =>
          \/ uFWStatus = Final[tJob[n][j].cJobName]
          \/ Lives(tJob[n][j].order, tJob[n][j].cJobName)
    /\ NonePlaced => uFWStatus = "none"

\* The job before j
Precedes(n, i, j) == i < j /\ \A k \in Group(n) : k < j => k <= i

\* A page that has still to insert its RemoveDropFromIPTables at the node
Removes(s, n) == IsOpen(s) /\ n \in page[s].left /\ page[s].cJobName = "RemoveDropFromIPTables"

\* The rules of a chain that is being built anew
SoFar(pc, rules) == CASE pc = "drops" -> {} [] pc = "accepts" -> rules \cap {"DROP"} [] OTHER -> rules

\* The last job a node has executed made its chain.  RemoveDropFromIPTables,
\* which leaves an ACCEPT rule alone, follows only on BlockAccess, which leaves none.
ChainOK(n) ==
    /\ Group(n) = {} => chain[n] = {}
    /\ Group(n) # {} => \E j \in Group(n) : Last(n, j)
    /\ \A j \in Group(n) : Last(n, j) /\ Executed(n, j) =>
          chain[n] = SoFar(run[n].pc, Verdict[Final[tJob[n][j].cJobName]])
    /\ \A j \in Group(n) : Last(n, j) /\ ~Executed(n, j) /\ tJob[n][j].cJobName = "RemoveDropFromIPTables" =>
          \E i \in Group(n) : Precedes(n, i, j) /\ tJob[n][i].cJobName = "BlockAccess"
                              /\ (Executed(n, i) => "ACCEPT" \notin chain[n])
    /\ \A s \in Sessions : Removes(s, n) =>
          \E j \in Group(n) : Last(n, j) /\ tJob[n][j].cJobName = "BlockAccess"

ChainsOK == \A n \in Nodes : ChainOK(n)

IndStatus == IndTurns /\ (Sound => StatusOK)
IndQuiet == IndStatus /\ (Sound => ChainsOK)

-----------------------------------------------------------------------------
(*********************** The status of the newest order ********************)

(* A step that places no order, ends none and keeps alive what is alive.     *)
LEMMA StatusOfRows ==
  ASSUME StatusOK, uFWStatus' = uFWStatus,
         \A k \in Nodes : \A j \in Group(k) :
            /\ j \in Group(k)' /\ tJob'[k][j].order = tJob[k][j].order
            /\ tJob'[k][j].cJobName = tJob[k][j].cJobName
            /\ Alive(k, j) => Lives(tJob[k][j].order, tJob[k][j].cJobName)'
            /\ IsPlaced(k, j) => IsPlaced(k, j)',
         \A k \in Nodes : \A j \in Group(k)' : IsPlaced(k, j)' => IsPlaced(k, j)
  PROVE  StatusOK'
<1>1. ASSUME NEW n \in Nodes, NEW j \in Group(n)', IsPlaced(n, j)', Newest(tJob[n][j].order)'
      PROVE  \/ uFWStatus = Final[tJob'[n][j].cJobName]
             \/ Lives(tJob[n][j].order, tJob[n][j].cJobName)'
  <2>1. IsPlaced(n, j) /\ j \in Group(n)
    BY <1>1 DEF IsPlaced
  <2>2. /\ tJob'[n][j].order = tJob[n][j].order
        /\ tJob'[n][j].cJobName = tJob[n][j].cJobName
    BY <2>1
  <2>3. Newest(tJob[n][j].order)
    BY <1>1, <2>2 DEF Newest
  <2>4. CASE uFWStatus = Final[tJob[n][j].cJobName]
    BY <2>2, <2>4
  <2>5. CASE Lives(tJob[n][j].order, tJob[n][j].cJobName)
    <3>1. PICK k \in Nodes : \E i \in Group(k) :
             /\ tJob[k][i].order = tJob[n][j].order /\ tJob[k][i].cJobName = tJob[n][j].cJobName
             /\ Alive(k, i)
      BY <2>5 DEF Lives
    <3>2. PICK i \in Group(k) :
             /\ tJob[k][i].order = tJob[n][j].order /\ tJob[k][i].cJobName = tJob[n][j].cJobName
             /\ Alive(k, i)
      BY <3>1
    <3>3. /\ tJob'[k][i].order = tJob'[n][j].order /\ tJob'[k][i].cJobName = tJob'[n][j].cJobName
          /\ Lives(tJob[k][i].order, tJob[k][i].cJobName)'
      BY <2>1, <2>2, <3>2
    <3> QED
      BY <3>3
  <2> QED
    BY <2>1, <2>3, <2>4, <2>5 DEF StatusOK
<1>2. NonePlaced' => NonePlaced
  BY DEF NonePlaced
<1> QED
  BY <1>1, <1>2 DEF StatusOK

(* The last of a group publishes, or another runner's step is taken.         *)
LEMMA StatusOKOfRunner ==
  ASSUME IndType, PlacedOK, TurnsOK, StatusOK, NEW n \in Nodes, Proceed(n) \/ Fail(n),
         doubt' = {}, ~Broken'
  PROVE  StatusOK'
<1>0. TypeOK /\ RunsOK
  BY TypeParts
<1>1. /\ page' = page
      /\ \A k \in Nodes : /\ Group(k)' = Group(k)
                          /\ \A i \in Group(k) : /\ tJob'[k][i].order = tJob[k][i].order
                                                 /\ tJob'[k][i].cJobName = tJob[k][i].cJobName
  BY RowsOfRunner
<1>2. \A k \in Nodes : \A i \in Group(k) : IsPlaced(k, i)' <=> IsPlaced(k, i)
  BY <1>1 DEF IsPlaced
<1>3. ~Die(n)
  BY <1>0, DieEffect DEF Broken, RunIs
<1>4. CASE ~(Publish(n) /\ run[n].uAllJobsDone)
  <2>1. uFWStatus' = uFWStatus
    BY <1>0, <1>4, StatusOfRunner
  <2>2. \A k \in Nodes : \A j \in Group(k) : Alive(k, j) =>
            Lives(tJob[k][j].order, tJob[k][j].cJobName)'
    BY <1>3, <1>4, LivesOfRunner
  <2> QED
    BY <1>1, <1>2, <2>1, <2>2, StatusOfRows
<1>5. CASE Publish(n) /\ run[n].uAllJobsDone
  <2> DEFINE c == run[n].cur
  <2>1. /\ Cur(n).cJobName \in GroupJobs /\ uFWStatus' = Final[Cur(n).cJobName]
        /\ tJob' = tJob /\ run[n].pc = "publish" /\ Cur(n) = tJob[n][c]
    BY <1>0, <1>5, PublishEffect DEF Publish, Cur
  <2>2. c \in Group(n) /\ IsPlaced(n, c)
    <3>1. c \in DOMAIN tJob[n]
      BY <1>0, <2>1, InHand DEF Busy
    <3>2. c \in Group(n)
      BY <2>1, <3>1 DEF Group
    <3> QED
      BY <3>2 DEF PlacedOK, Untouched, IsPlaced
  <2> HIDE DEF c
  <2>3. ASSUME NEW k \in Nodes, NEW j \in Group(k), IsPlaced(k, j), Newest(tJob[k][j].order)
        PROVE  \/ uFWStatus' = Final[tJob[k][j].cJobName]
               \/ Lives(tJob[k][j].order, tJob[k][j].cJobName)'
    <3>1. CASE tJob[k][j].order = tJob[n][c].order
      <4>1. tJob[k][j].cJobName = tJob[n][c].cJobName
        BY <2>2, <3>1, SameName, TypeParts DEF Group
      <4> QED
        BY <2>1, <4>1
    <3>2. CASE tJob[k][j].order # tJob[n][c].order
      <4>1. PICK i \in Group(n) : tJob[n][i].order = tJob[k][j].order
        BY <2>3 DEF PlacedOK, EveryNode, IsPlaced
      <4>2. tJob[n][c].order <= tJob[n][i].order /\ i # c
        BY <2>2, <2>3, <3>2, <4>1 DEF Newest
      <4>3. c < i
        <5>1. i \in Nat /\ c \in Nat /\ tJob[n][c].order \in Nat /\ tJob[n][i].order \in Nat
          BY <2>2, TypeParts, GroupFacts DEF OrdersOK
        <5>2. i < c => tJob[n][i].order < tJob[n][c].order
          BY <2>2 DEF TurnsOK, Sorted
        <5> QED
          BY <4>2, <5>1, <5>2
      <4>4. tJob[n][i].uJobStatus \in {"WAITING", "CANCELED"}
        <5>1. ~Through(n, c)
          BY DEF Through, c
        <5> QED
          BY <2>2, <4>3, <5>1 DEF TurnsOK, InTurn
      <4>5. tJob[n][i].cJobName = tJob[k][j].cJobName
        BY <4>1, SameName, TypeParts DEF Group
      <4>6. i \in Group(n)' /\ Alive(n, i)'
        BY <1>1, <2>1, <4>4 DEF Alive
      <4> QED
        BY <2>1, <4>1, <4>5, <4>6 DEF Lives
    <3> QED
      BY <3>1, <3>2
  <2>4. \A k \in Nodes : \A j \in Group(k) : Newest(tJob[k][j].order)' => Newest(tJob[k][j].order)
    BY <1>1, <1>2 DEF Newest
  <2>5. ~NonePlaced'
    BY <1>1, <1>2, <2>2 DEF NonePlaced
  <2> QED
    BY <1>1, <1>2, <2>1, <2>3, <2>4, <2>5 DEF StatusOK
<1> QED
  BY <1>4, <1>5

LEMMA StatusOfWaiting ==
  ASSUME Nodes # {}, IndType, PlacedOK, TurnsOK, NEW s \in Sessions, SetWaiting(s), doubt' = {}
  PROVE  StatusOK'
<1>0. TypeOK /\ OrdersOK
  BY TypeParts
<1>1. /\ IsOpen(s) /\ page[s].left = {} /\ UNCHANGED <<tJob, run>>
      /\ page'[s] = NoOrder /\ \A t \in Sessions : t # s => page'[t] = page[t]
  BY <1>0, SetWaitingEffect
<1>2. PICK n0 \in Nodes : TRUE
  OBVIOUS
<1>3. PICK j0 \in Group(n0) : tJob[n0][j0].order = page[s].order
  BY <1>1, <1>2 DEF PlacedOK, PageRows
<1>4. \A k \in Nodes : Group(k)' = Group(k)
  BY <1>1 DEF Group
<1>5. IsPlaced(n0, j0)'
  <2>1. tJob[n0][j0].order # 0
    BY <1>0, <1>2, <1>3 DEF OrdersOK, Group
  <2>2. \A t \in Sessions : t # s => page[t].order # page[s].order
    BY <1>0, <1>1 DEF OrdersOK, IsOpen
  <2>3. \A t \in Sessions : page'[t].order # tJob'[n0][j0].order
    BY <1>1, <1>3, <2>1, <2>2, NoOrderType
  <2> QED
    BY <1>3, <1>4, <2>3 DEF IsPlaced
<1>6. ASSUME NEW n \in Nodes, NEW j \in Group(n), Newest(tJob[n][j].order)'
      PROVE  Lives(tJob[n][j].order, tJob[n][j].cJobName)'
  <2>1. tJob[n0][j0].order <= tJob[n][j].order
    BY <1>1, <1>4, <1>5, <1>6 DEF Newest
  <2>2. tJob[n][j].order <= page[s].order
    BY <1>1 DEF TurnsOK, PageLast
  <2>3. tJob[n][j].order \in Nat /\ page[s].order \in Nat
    BY <1>0, PageType DEF OrdersOK, Group
  <2>4. tJob[n0][j0].order = tJob[n][j].order
    BY <1>3, <2>1, <2>2, <2>3
  <2>5. tJob[n0][j0].cJobName = tJob[n][j].cJobName
    BY <1>0, <2>4, SameName DEF Group
  <2>6. Alive(n0, j0)'
    BY <1>1, <1>3 DEF PlacedOK, Untouched, Alive
  <2> QED
    BY <1>1, <1>4, <2>4, <2>5, <2>6 DEF Lives
<1>7. ~NonePlaced'
  BY <1>4, <1>5 DEF NonePlaced
<1> QED
  BY <1>4, <1>6, <1>7 DEF StatusOK

(* A page or a start of firewalls adds a row, which is not placed.           *)
LEMMA StatusOfAdded ==
  ASSUME TypeOK, StatusOK, NEW n \in Nodes, NEW r \in JobRow, Added(n, r), UNCHANGED <<run, uFWStatus>>,
         \A t \in Sessions : page'[t].order = page[t].order,
         r.cJobName \in GroupJobs => \E s \in Sessions : page[s].order = r.order
  PROVE  StatusOK'
<1> DEFINE z == Len(tJob[n]) + 1
<1>1. /\ \A k \in Nodes : k # n => tJob'[k] = tJob[k]
      /\ DOMAIN tJob'[n] = DOMAIN tJob[n] \cup {z}
      /\ \A i \in DOMAIN tJob[n] : tJob'[n][i] = tJob[n][i]
      /\ tJob'[n][z] = r
  BY DEF Added
<1> HIDE DEF z
<1>2. /\ \A k \in Nodes : \A i \in Group(k) : i \in Group(k)' /\ tJob'[k][i] = tJob[k][i]
      /\ \A k \in Nodes : \A i \in Group(k)' : i \in Group(k) \/ (k = n /\ i = z /\ r.cJobName \in GroupJobs)
  BY <1>1 DEF Group
<1>3. \A k \in Nodes : \A j \in Group(k) : IsPlaced(k, j)' <=> IsPlaced(k, j)
  BY <1>2 DEF IsPlaced
<1>4. \A k \in Nodes : \A j \in Group(k)' : IsPlaced(k, j)' => IsPlaced(k, j)
  BY <1>1, <1>2, <1>3 DEF IsPlaced
<1>5. ASSUME NEW k \in Nodes, NEW j \in Group(k), Alive(k, j)
      PROVE  Lives(tJob[k][j].order, tJob[k][j].cJobName)'
  <2>1. Alive(k, j)'
    BY <1>2, <1>5 DEF Alive, Closing
  <2> QED
    BY <1>2, <2>1, LivesOf
<1> QED
  BY <1>2, <1>3, <1>4, <1>5, StatusOfRows

(* A page opens or gives up an order of which there are no rows.             *)
LEMMA StatusOfPage ==
  ASSUME StatusOK, UNCHANGED <<tJob, run, uFWStatus>>,
         NEW s \in Sessions, \A t \in Sessions : t # s => page'[t] = page[t],
         \A k \in Nodes : \A j \in Group(k) : tJob[k][j].order \notin {page[s].order, page'[s].order}
  PROVE  StatusOK'
<1>1. \A k \in Nodes : Group(k)' = Group(k)
  BY DEF Group
<1>2. \A k \in Nodes : \A j \in Group(k) : IsPlaced(k, j)' <=> IsPlaced(k, j)
  BY <1>1 DEF IsPlaced
<1>3. ASSUME NEW k \in Nodes, NEW j \in Group(k), Alive(k, j)
      PROVE  Lives(tJob[k][j].order, tJob[k][j].cJobName)'
  <2>1. Alive(k, j)'
    BY <1>3 DEF Alive, Closing
  <2> QED
    BY <1>1, <2>1, LivesOf
<1> QED
  BY <1>1, <1>2, <1>3, StatusOfRows

LEMMA StatusOfCancel ==
  ASSUME IndType, StatusOK, NEW n \in Nodes, NEW j \in DOMAIN tJob[n], GroupCancel(n, j)
  PROVE  StatusOK'
<1>1. StatusOnly(n, j, "CANCELED") /\ UNCHANGED <<uFWStatus, page, run>>
  BY TypeParts, CancelEffect
<1>2. \A k \in Nodes : /\ Group(k)' = Group(k)
                       /\ \A i \in Group(k) : /\ tJob'[k][i].order = tJob[k][i].order
                                              /\ tJob'[k][i].cJobName = tJob[k][i].cJobName
  BY <1>1, SameOrdersOf, SameGroups
<1>3. \A k \in Nodes : \A i \in Group(k) : IsPlaced(k, i)' <=> IsPlaced(k, i)
  BY <1>1, <1>2 DEF IsPlaced
<1>4. ASSUME NEW k \in Nodes, NEW i \in Group(k), Alive(k, i)
      PROVE  Lives(tJob[k][i].order, tJob[k][i].cJobName)'
  <2>1. k = n /\ i = j => tJob'[k][i].uJobStatus = "CANCELED"
    BY <1>1 DEF StatusOnly
  <2>2. ~(k = n /\ i = j) => tJob'[k][i].uJobStatus = tJob[k][i].uJobStatus
    BY <1>1 DEF StatusOnly, Group
  <2>3. Alive(k, i)'
    BY <1>1, <1>4, <2>1, <2>2 DEF Alive, Closing
  <2> QED
    BY <1>2, <2>3, LivesOf
<1> QED
  BY <1>1, <1>2, <1>3, <1>4, StatusOfRows

LEMMA StatusStep ==
  ASSUME Nodes # {}, IndStatus, [Next]_vars
  PROVE  IndStatus'
<1> SUFFICES ASSUME Sound' PROVE StatusOK'
  BY TurnsStep DEF IndStatus
<1>0. /\ IndType /\ PlacedOK /\ TurnsOK /\ StatusOK /\ doubt' = {} /\ ~Broken'
      /\ TypeOK /\ OrdersOK /\ RunsOK
  BY SoundBefore, TypeParts DEF IndStatus, IndTurns, IndPlaced, Sound
<1>1. ASSUME NEW s \in Sessions, NEW n \in Nodes, InsertJob(s, n) PROVE StatusOK'
  <2>1. UNCHANGED <<run, uFWStatus>>
    BY <1>1 DEF InsertJob, InsertRow
  <2>2. PICK r \in JobRow : Added(n, r) /\ r.order = page[s].order
    BY <1>0, <1>1, InsertEffect
  <2>3. \A t \in Sessions : page'[t].order = page[t].order
    BY <1>0, <1>1, InsertEffect
  <2> QED
    BY <1>0, <2>1, <2>2, <2>3, StatusOfAdded
<1>2. ASSUME NEW s \in Sessions, SetWaiting(s) PROVE StatusOK'
  BY <1>0, <1>2, StatusOfWaiting
<1>3. ASSUME NEW s \in Sessions, NEW who \in {"page", "event", "command"}, NEW name \in GroupJobs,
             OpenOrder(s, who, name)
      PROVE  StatusOK'
  <2>1. /\ page'[s].order = events + 1 /\ \A t \in Sessions : t # s => page'[t] = page[t]
        /\ page[s] = NoOrder /\ events \in Nat
    BY <1>0, <1>3, OpenEffect DEF OrdersOK, IsOpen, TypeOK, OrderIds
  <2>2. UNCHANGED <<tJob, run, uFWStatus>>
    BY <1>3 DEF OpenOrder
  <2>3. \A k \in Nodes : \A j \in Group(k) : tJob[k][j].order \in 1 .. events
    BY <1>0 DEF OrdersOK, Group
  <2>4. \A k \in Nodes : \A j \in Group(k) : tJob[k][j].order \notin {page[s].order, page'[s].order}
    BY <2>1, <2>3, NoOrderType
  <2> QED
    BY <1>0, <2>1, <2>2, <2>4, StatusOfPage
<1>4. ASSUME NEW s \in Sessions, InsertFails(s) PROVE StatusOK'
  <2>1. /\ page[s].left = Nodes /\ page'[s] = NoOrder /\ \A t \in Sessions : t # s => page'[t] = page[t]
    BY <1>0, <1>4, FailEffect
  <2>2. UNCHANGED <<tJob, run, uFWStatus>>
    BY <1>4 DEF InsertFails
  <2>3. \A k \in Nodes : \A j \in Group(k) : tJob[k][j].order # page[s].order /\ tJob[k][j].order # 0
    BY <1>0, <2>1 DEF OrdersOK, Group
  <2>4. \A k \in Nodes : \A j \in Group(k) : tJob[k][j].order \notin {page[s].order, page'[s].order}
    BY <2>1, <2>3, NoOrderType
  <2> QED
    BY <1>0, <2>1, <2>2, <2>4, StatusOfPage
<1>5. ASSUME NEW n \in Nodes, ActivateFirewall(n) PROVE StatusOK'
  <2>1. PICK r \in JobRow : Added(n, r) /\ r.cJobName = "StartIptables"
    BY <1>0, <1>5, ActivateEffect
  <2>2. UNCHANGED <<run, uFWStatus, page>> /\ r.cJobName \notin GroupJobs
    BY <1>5, <2>1 DEF ActivateFirewall, GroupJobs
  <2> QED
    BY <1>0, <2>1, <2>2, StatusOfAdded
<1>6. CASE Order
  BY <1>0, <1>3, <1>4, <1>5, <1>6, StatusOfCancel DEF Order
<1>7. CASE UNCHANGED vars
  <2>1. UNCHANGED <<tJob, run, page, uFWStatus>>
    BY <1>7 DEF vars
  <2> QED
    BY <1>0, <2>1 DEF StatusOK, IsPlaced, Newest, NonePlaced, Lives, Alive, Closing, Group
<1> QED
  BY <1>0, <1>1, <1>2, <1>6, <1>7, StatusOKOfRunner DEF Next, Page
-----------------------------------------------------------------------------
(************************ The chain of the last job ************************)

(* Only the status of the newest order, or the one it waits in, is visible.   *)
LEMMA StatusFits ==
  ASSUME TypeOK, StatusOK, ~Hidden, ~Broken,
         NEW n \in Nodes, NEW j \in Group(n), IsPlaced(n, j), Newest(tJob[n][j].order)
  PROVE  uFWStatus \in {Awaits[tJob[n][j].cJobName], Final[tJob[n][j].cJobName]}
<1> DEFINE r == tJob[n][j]
<1>1. CASE Open(r.order)
  <2>1. r \in Placed
    BY DEF Placed, Rows, IsPlaced, Group
  <2>2. ASSUME NEW q \in Placed PROVE q.order <= r.order
    <3>1. PICK k \in Nodes : q \in Rows(k)
      BY DEF Placed
    <3>2. PICK i \in DOMAIN tJob[k] : q = tJob[k][i]
      BY <3>1 DEF Rows
    <3>3. i \in Group(k) /\ IsPlaced(k, i)
      BY <3>2 DEF Placed, Group, IsPlaced
    <3> QED
      BY <3>2, <3>3 DEF Newest
  <2> QED
    BY <1>1, <2>1, <2>2 DEF Hidden
<1>2. CASE ~Open(r.order)
  <2>1. ASSUME NEW k \in Nodes, NEW i \in Group(k), tJob[k][i].order = r.order, Alive(k, i) PROVE FALSE
    <3>1. /\ i \in DOMAIN tJob[k] /\ tJob[k][i].uJobStatus \notin {"WAITING", "RUNNING"}
          /\ i \notin run[k].rows /\ i # run[k].cur
      BY <1>2, <2>1 DEF Open, Group
    <3>2. tJob[k][i] \in JobRow
      BY <3>1, Tables
    <3>3. tJob[k][i].uJobStatus \in {"ERROR", "CANCELED"}
      BY <2>1, <3>1, <3>2 DEF Alive, Closing, JobRow
    <3> QED
      BY <3>1, <3>3 DEF Broken, Failed
  <2>2. ~Lives(r.order, r.cJobName)
    BY <2>1 DEF Lives
  <2> QED
    BY <2>2 DEF StatusOK
<1> QED
  BY <1>1, <1>2

(* An order that is placed has a row on every node.                          *)
LEMMA PlacedEverywhere ==
  ASSUME PlacedOK, NEW n \in Nodes, NEW k \in Nodes, NEW j \in Group(k), IsPlaced(k, j)
  PROVE  \E i \in Group(n) : tJob[n][i].order = tJob[k][j].order /\ IsPlaced(n, i)
BY DEF PlacedOK, EveryNode, IsPlaced

LEMMA NothingPlaced ==
  ASSUME PlacedOK, StatusOK, NEW n \in Nodes, Group(n) = {}
  PROVE  uFWStatus = "none"
<1>1. NonePlaced
  BY PlacedEverywhere DEF NonePlaced
<1> QED
  BY <1>1 DEF StatusOK

LEMMA ExecutedIsPlaced ==
  ASSUME PlacedOK, NEW n \in Nodes, NEW j \in Group(n), Executed(n, j)
  PROVE  IsPlaced(n, j)
BY DEF PlacedOK, Untouched, IsPlaced, Executed

(* The newest order is that of a node's last placed row.                     *)
LEMMA NewestIsLast ==
  ASSUME IndType, PlacedOK, TurnsOK, NEW n \in Nodes, NEW j \in Group(n), IsPlaced(n, j),
         \A i \in Group(n) : IsPlaced(n, i) => i <= j
  PROVE  Newest(tJob[n][j].order)
<1> SUFFICES ASSUME NEW k \in Nodes, NEW h \in Group(k), IsPlaced(k, h)
             PROVE  tJob[k][h].order <= tJob[n][j].order
  BY DEF Newest
<1>1. PICK i \in Group(n) : tJob[n][i].order = tJob[k][h].order /\ IsPlaced(n, i)
  BY PlacedEverywhere
<1>2. i <= j /\ i \in Nat /\ j \in Nat
  BY <1>1, TypeParts, GroupFacts
<1>3. tJob[n][i].order \in Nat /\ tJob[n][j].order \in Nat
  BY TypeParts DEF OrdersOK, Group
<1>4. i < j => tJob[n][i].order < tJob[n][j].order
  BY DEF TurnsOK, Sorted
<1> QED
  BY <1>1, <1>2, <1>3, <1>4

(* What StartIptables reads fits the last job of its node that is executed.   *)
LEMMA StatusOfLast ==
  ASSUME IndType, PlacedOK, TurnsOK, StatusOK, ~Hidden, ~Broken,
         NEW n \in Nodes, NEW j \in Group(n), Last(n, j)
  PROVE  /\ IsPlaced(n, j) =>
               uFWStatus \in {Awaits[tJob[n][j].cJobName], Final[tJob[n][j].cJobName]}
         /\ \A i \in Group(n) : Precedes(n, i, j) /\ IsPlaced(n, i) /\ ~IsPlaced(n, j) =>
               uFWStatus \in {Awaits[tJob[n][i].cJobName], Final[tJob[n][i].cJobName]}
<1>0. TypeOK
  BY TypeParts
<1>1. ASSUME IsPlaced(n, j)
      PROVE  uFWStatus \in {Awaits[tJob[n][j].cJobName], Final[tJob[n][j].cJobName]}
  BY <1>0, <1>1, NewestIsLast, StatusFits DEF Last
<1>2. ASSUME NEW i \in Group(n), Precedes(n, i, j), IsPlaced(n, i), ~IsPlaced(n, j)
      PROVE  uFWStatus \in {Awaits[tJob[n][i].cJobName], Final[tJob[n][i].cJobName]}
  <2>1. \A h \in Group(n) : IsPlaced(n, h) => h <= i
    <3> SUFFICES ASSUME NEW h \in Group(n), IsPlaced(n, h) PROVE h <= i
      OBVIOUS
    <3>1. h # j /\ h <= j /\ h \in Nat /\ j \in Nat
      BY <1>0, <1>2, GroupFacts DEF Last
    <3>2. h < j
      BY <3>1
    <3> QED
      BY <1>2, <3>2 DEF Precedes
  <2> QED
    BY <1>0, <1>2, <2>1, NewestIsLast, StatusFits
<1> QED
  BY <1>1, <1>2

(* What the commands of a job leave, when none fails.                        *)
LEMMA Commands ==
  ASSUME NEW name \in GroupJobs, NEW S \in SUBSET Rules,
         name = "RemoveDropFromIPTables" => "ACCEPT" \notin S
  PROVE  Commanded(name, S, {}) = Verdict[Final[name]]
<1>1. S \subseteq {"DROP", "ACCEPT"}
  BY DEF Rules
<1>2. CASE name = "BlockAccess"
  BY <1>1, <1>2 DEF Commanded, Deletes, Inserts, Verdict, Final
<1>3. CASE name = "UndoBlockAccess"
  BY <1>1, <1>3 DEF Commanded, Deletes, Inserts, Verdict, Final
<1>4. CASE name = "AllowAllAccess"
  BY <1>1, <1>4 DEF Commanded, Deletes, Inserts, Verdict, Final
<1>5. CASE name = "RemoveAcceptFromIPTables"
  BY <1>1, <1>5 DEF Commanded, Deletes, Inserts, Verdict, Final, Rules
<1>6. CASE name = "RemoveDropFromIPTables"
  BY <1>1, <1>6 DEF Commanded, Deletes, Inserts, Verdict, Final
<1> QED
  BY <1>2, <1>3, <1>4, <1>5, <1>6 DEF GroupJobs

(* What StartIptables restores at a status an order leaves or awaits.        *)
LEMMA Restores ==
  ASSUME NEW name \in GroupJobs, NEW st \in {Awaits[name], Final[name]}
  PROVE  /\ Restored("DROP", st) = Verdict[Final[name]] \cap {"DROP"}
         /\ Verdict[Final[name]] = (Verdict[Final[name]] \cap {"DROP"}) \cup Restored("ACCEPT", st)
<1>2. CASE name = "BlockAccess"
  BY <1>2 DEF Restored, Awaits, Verdict, Final
<1>3. CASE name = "UndoBlockAccess"
  BY <1>3 DEF Restored, Awaits, Verdict, Final
<1>4. CASE name = "AllowAllAccess"
  BY <1>4 DEF Restored, Awaits, Verdict, Final
<1>5. CASE name = "RemoveAcceptFromIPTables"
  BY <1>5 DEF Restored, Awaits, Verdict, Final
<1>6. CASE name = "RemoveDropFromIPTables"
  BY <1>6 DEF Restored, Awaits, Verdict, Final
<1> QED
  BY <1>2, <1>3, <1>4, <1>5, <1>6 DEF GroupJobs

Building == {"drops", "accepts"}

LEMMA ChainKept ==
  ASSUME NEW n \in Nodes, ChainOK(n), Group(n)' = Group(n), chain'[n] = chain[n],
         \A j \in Group(n) : /\ tJob'[n][j].cJobName = tJob[n][j].cJobName
                             /\ Executed(n, j)' <=> Executed(n, j),
         run'[n].pc = run[n].pc \/ (run[n].pc \notin Building /\ run'[n].pc \notin Building),
         \A s \in Sessions : Removes(s, n)' => Removes(s, n)
  PROVE  ChainOK(n)'
<1>1. \A j \in Group(n) : Last(n, j)' <=> Last(n, j)
  BY DEF Last
<1>2. \A i, j \in Group(n) : Precedes(n, i, j)' <=> Precedes(n, i, j)
  BY DEF Precedes
<1>3. \A S : SoFar(run'[n].pc, S) = SoFar(run[n].pc, S)
  BY DEF SoFar, Building
<1>4. \A j \in Group(n) : Last(n, j)' /\ Executed(n, j)' =>
          chain'[n] = SoFar(run'[n].pc, Verdict[Final[tJob'[n][j].cJobName]])
  BY <1>1, <1>3 DEF ChainOK
<1>5. \A j \in Group(n) :
          Last(n, j)' /\ ~Executed(n, j)' /\ tJob'[n][j].cJobName = "RemoveDropFromIPTables" =>
            \E i \in Group(n) : Precedes(n, i, j)' /\ tJob'[n][i].cJobName = "BlockAccess"
                                /\ (Executed(n, i)' => "ACCEPT" \notin chain'[n])
  <2> SUFFICES ASSUME NEW j \in Group(n), Last(n, j), ~Executed(n, j),
                      tJob[n][j].cJobName = "RemoveDropFromIPTables"
               PROVE  \E i \in Group(n) : Precedes(n, i, j)' /\ tJob'[n][i].cJobName = "BlockAccess"
                                /\ (Executed(n, i)' => "ACCEPT" \notin chain'[n])
    BY <1>1
  <2>1. PICK i \in Group(n) : Precedes(n, i, j) /\ tJob[n][i].cJobName = "BlockAccess"
                              /\ (Executed(n, i) => "ACCEPT" \notin chain[n])
    BY DEF ChainOK
  <2> QED
    BY <1>2, <2>1
<1>6. \A s \in Sessions : Removes(s, n)' =>
          \E j \in Group(n) : Last(n, j)' /\ tJob'[n][j].cJobName = "BlockAccess"
  BY <1>1 DEF ChainOK
<1>7. (Group(n) = {} => chain'[n] = {}) /\ (Group(n) # {} => \E j \in Group(n) : Last(n, j)')
  BY <1>1 DEF ChainOK
<1> QED
  BY <1>4, <1>5, <1>6, <1>7 DEF ChainOK

(* A row in the hands of another runner.                                     *)
LEMMA ChainOfOther ==
  ASSUME NEW n \in Nodes, ChainOK(n), tJob'[n] = tJob[n], run'[n] = run[n], chain'[n] = chain[n],
         \A s \in Sessions : Removes(s, n)' => Removes(s, n)
  PROVE  ChainOK(n)'
<1>1. Group(n)' = Group(n) /\ \A j \in Group(n) : Executed(n, j)' <=> Executed(n, j)
  BY DEF Group, Executed
<1> QED
  BY <1>1, ChainKept

(* The commands of a group job.                                              *)
LEMMA ChainOfIptables ==
  ASSUME IndType, TurnsOK, NEW n \in Nodes, ChainOK(n), Iptables(n), doubt' = {}
  PROVE  ChainOK(n)'
<1>0. TypeOK /\ RunsOK
  BY TypeParts
<1> DEFINE c == run[n].cur
           name == tJob[n][c].cJobName
<1>1. /\ run[n].pc = "rules" /\ name \in GroupJobs /\ c \in Group(n)
      /\ tJob[n][c].uJobStatus = "RUNNING"
  BY <1>0, IptablesEffect, InHand DEF Busy, Group
<1>2. tJob' = tJob /\ page' = page
  BY DEF Iptables
<1>3. run'[n].pc = "done" /\ run'[n].cur = c
  BY <1>0, IptablesEffect DEF RunIs
<1>4. chain'[n] = Commanded(name, chain[n], {}) /\ chain[n] \in SUBSET Rules
  BY <1>0, <1>1, IptablesEffect, InHand, TypeParts DEF ChainIs, Busy
<1>5. /\ ~Executed(n, c)
      /\ \A j \in Group(n) : Executed(n, j)' <=> (j = c \/ Executed(n, j))
  BY <1>1, <1>2, <1>3 DEF Executed
<1> HIDE DEF c
<1>6. Group(n)' = Group(n) /\ Group(n) \subseteq Nat
  BY <1>0, <1>2, GroupFacts DEF Group
<1>7. \A i, j \in Group(n) : Last(n, j)' = Last(n, j) /\ Precedes(n, i, j)' = Precedes(n, i, j)
  BY <1>6 DEF Last, Precedes
<1>8. \A i \in Group(n) : i < c => Through(n, i)
  BY <1>1 DEF TurnsOK, InTurn
<1>9. \A j \in Group(n) : c < j => ~Executed(n, j)
  <2>1. ~Through(n, c)
    BY <1>1 DEF Through
  <2> QED
    BY <1>1, <2>1 DEF TurnsOK, InTurn, Executed
<1>10. Last(n, c) => chain'[n] = Verdict[Final[name]]
  <2> SUFFICES ASSUME Last(n, c) PROVE chain'[n] = Verdict[Final[name]]
    OBVIOUS
  <2>1. name = "RemoveDropFromIPTables" => "ACCEPT" \notin chain[n]
    <3> SUFFICES ASSUME name = "RemoveDropFromIPTables" PROVE "ACCEPT" \notin chain[n]
      OBVIOUS
    <3>1. PICK i \in Group(n) : Precedes(n, i, c) /\ (Executed(n, i) => "ACCEPT" \notin chain[n])
      BY <1>1, <1>5 DEF ChainOK
    <3>2. Executed(n, i)
      BY <1>8, <3>1 DEF Precedes, Through, Executed
    <3> QED
      BY <3>1, <3>2
  <2> QED
    BY <1>1, <1>4, <2>1, Commands
<1>11. \A j \in Group(n) : Last(n, j) /\ Executed(n, j)' => j = c
  <2> SUFFICES ASSUME NEW j \in Group(n), Last(n, j), Executed(n, j)', j # c PROVE FALSE
    OBVIOUS
  <2>1. c < j
    BY <1>1, <1>6 DEF Last
  <2> QED
    BY <1>5, <1>9, <2>1
<1>12. \A j \in Group(n) : Last(n, j) /\ Executed(n, j)' =>
           chain'[n] = SoFar(run'[n].pc, Verdict[Final[tJob'[n][j].cJobName]])
  BY <1>2, <1>3, <1>10, <1>11 DEF SoFar
<1>13. ASSUME NEW j \in Group(n), Last(n, j), ~Executed(n, j)',
              tJob[n][j].cJobName = "RemoveDropFromIPTables"
       PROVE  \E i \in Group(n) : Precedes(n, i, j) /\ tJob[n][i].cJobName = "BlockAccess"
                              /\ (Executed(n, i)' => "ACCEPT" \notin chain'[n])
  <2>1. j # c /\ ~Executed(n, j)
    BY <1>5, <1>13
  <2>2. PICK i \in Group(n) : Precedes(n, i, j) /\ tJob[n][i].cJobName = "BlockAccess"
    BY <1>13, <2>1 DEF ChainOK
  <2>3. c <= i
    <3>1. c < j
      BY <1>1, <1>6, <1>13, <2>1 DEF Last
    <3> QED
      BY <1>1, <2>2, <3>1 DEF Precedes
  <2>4. i = c => "ACCEPT" \notin chain'[n]
    <3>1. i = c => chain'[n] = Verdict["BLOCKED"]
      BY <1>1, <1>4, <2>2, Commands DEF Final
    <3> QED
      BY <3>1 DEF Verdict
  <2>5. i # c => ~Executed(n, i)'
    BY <1>1, <1>5, <1>6, <1>9, <2>3
  <2> QED
    BY <2>2, <2>4, <2>5
<1>14. \A s \in Sessions : Removes(s, n)' <=> Removes(s, n)
  BY <1>2 DEF Removes, IsOpen
<1>15. (Group(n) # {} => \E j \in Group(n) : Last(n, j)) /\ Group(n) # {}
  BY <1>1 DEF ChainOK
<1>16. \A s \in Sessions : Removes(s, n) => \E j \in Group(n) : Last(n, j) /\ tJob[n][j].cJobName = "BlockAccess"
  BY DEF ChainOK
<1>17. \A j \in Group(n) : Last(n, j)' /\ ~Executed(n, j)' /\ tJob'[n][j].cJobName = "RemoveDropFromIPTables" =>
          \E i \in Group(n) : Precedes(n, i, j)' /\ tJob'[n][i].cJobName = "BlockAccess"
                              /\ (Executed(n, i)' => "ACCEPT" \notin chain'[n])
  BY <1>2, <1>7, <1>13
<1> QED
  BY <1>2, <1>6, <1>7, <1>12, <1>14, <1>15, <1>16, <1>17 DEF ChainOK

(* A firewall that starts: first the chain is empty, then it gets what the    *)
(* status says of one rule, and of the other.                                *)
LEMMA ChainOfStart ==
  ASSUME IndType, NEW n \in Nodes, ChainOK(n), tJob' = tJob, page' = page,
         run[n].pc # "done", run'[n].pc # "done",
         Group(n) = {} => chain'[n] = {},
         \A j \in Group(n) : Last(n, j) /\ Executed(n, j) =>
            chain'[n] = SoFar(run'[n].pc, Verdict[Final[tJob[n][j].cJobName]]),
         \A i, j \in Group(n) :
            /\ Last(n, j) /\ ~Executed(n, j) /\ tJob[n][j].cJobName = "RemoveDropFromIPTables"
            /\ Precedes(n, i, j) /\ tJob[n][i].cJobName = "BlockAccess" /\ Executed(n, i)
            /\ "ACCEPT" \notin chain[n]
            => "ACCEPT" \notin chain'[n]
  PROVE  ChainOK(n)'
<1>1. Group(n)' = Group(n)
  BY DEF Group
<1>2. \A i, j \in Group(n) : /\ Last(n, j)' <=> Last(n, j)
                             /\ Precedes(n, i, j)' <=> Precedes(n, i, j)
                             /\ Executed(n, j)' <=> Executed(n, j)
  BY <1>1 DEF Last, Precedes, Executed
<1>3. \A s \in Sessions : Removes(s, n)' <=> Removes(s, n)
  BY DEF Removes, IsOpen
<1>4. (Group(n) # {} => \E j \in Group(n) : Last(n, j)') /\
      (\A s \in Sessions : Removes(s, n)' =>
          \E j \in Group(n) : Last(n, j)' /\ tJob'[n][j].cJobName = "BlockAccess")
  BY <1>2, <1>3 DEF ChainOK
<1>5. \A j \in Group(n) :
          Last(n, j)' /\ ~Executed(n, j)' /\ tJob'[n][j].cJobName = "RemoveDropFromIPTables" =>
            \E i \in Group(n) : Precedes(n, i, j)' /\ tJob'[n][i].cJobName = "BlockAccess"
                                /\ (Executed(n, i)' => "ACCEPT" \notin chain'[n])
  <2> SUFFICES ASSUME NEW j \in Group(n), Last(n, j), ~Executed(n, j),
                      tJob[n][j].cJobName = "RemoveDropFromIPTables"
               PROVE  \E i \in Group(n) : Precedes(n, i, j)' /\ tJob'[n][i].cJobName = "BlockAccess"
                                /\ (Executed(n, i)' => "ACCEPT" \notin chain'[n])
    BY <1>2
  <2>1. PICK i \in Group(n) : Precedes(n, i, j) /\ tJob[n][i].cJobName = "BlockAccess"
                              /\ (Executed(n, i) => "ACCEPT" \notin chain[n])
    BY DEF ChainOK
  <2> QED
    BY <1>2, <2>1
<1> QED
  BY <1>1, <1>2, <1>4, <1>5 DEF ChainOK

LEMMA ChainOfRestore ==
  ASSUME IndType, PlacedOK, TurnsOK, StatusOK, ~Broken, NEW n \in Nodes, ChainOK(n),
         RestoreDrops(n) \/ RestoreAccepts(n), doubt' = {}
  PROVE  ChainOK(n)'
<1>0. TypeOK /\ RunsOK /\ tJob' = tJob /\ page' = page
  BY TypeParts DEF RestoreDrops, RestoreAccepts, Restore
<1>1. PICK rule \in Rules :
          /\ run[n].pc = IF rule = "DROP" THEN "drops" ELSE "accepts"
          /\ run'[n].pc = IF rule = "DROP" THEN "accepts" ELSE "started"
          /\ ~Hidden /\ chain'[n] = chain[n] \cup Restored(rule, uFWStatus)
          /\ Restored(rule, uFWStatus) \subseteq {rule}
  <2>1. Rules = {"DROP", "ACCEPT"} /\ {"drops", "accepts", "started"} \subseteq Points
    BY DEF Rules, Points
  <2>2. CASE RestoreDrops(n)
    <3>1. /\ run[n].pc = "drops" /\ RunIs(n, "accepts", run[n].rows, run[n].cur, run[n].uAllJobsDone)
          /\ \E S \in SUBSET Rules :
               ChainIs(n, S) /\ ~Hidden /\ S = chain[n] \cup Restored("DROP", uFWStatus)
      BY <1>0, <2>1, <2>2, RestoreEffect DEF RestoreDrops
    <3>2. run'[n].pc = "accepts" /\ ~Hidden /\ chain'[n] = chain[n] \cup Restored("DROP", uFWStatus)
      BY <3>1 DEF RunIs, ChainIs
    <3> QED
      BY <2>1, <3>1, <3>2 DEF Restored
  <2>3. CASE RestoreAccepts(n)
    <3>1. /\ run[n].pc = "accepts" /\ RunIs(n, "started", run[n].rows, run[n].cur, run[n].uAllJobsDone)
          /\ \E S \in SUBSET Rules :
               ChainIs(n, S) /\ ~Hidden /\ S = chain[n] \cup Restored("ACCEPT", uFWStatus)
      BY <1>0, <2>1, <2>3, RestoreEffect DEF RestoreAccepts
    <3>2. run'[n].pc = "started" /\ ~Hidden /\ chain'[n] = chain[n] \cup Restored("ACCEPT", uFWStatus)
      BY <3>1 DEF RunIs, ChainIs
    <3> QED
      BY <2>1, <3>1, <3>2 DEF Restored
  <2> QED
    BY <2>2, <2>3
<1>2. Group(n) = {} => chain'[n] = {}
  <2> SUFFICES ASSUME Group(n) = {} PROVE chain'[n] = {}
    OBVIOUS
  <2>1. chain[n] = {} /\ uFWStatus = "none"
    BY NothingPlaced DEF ChainOK
  <2> QED
    BY <1>1, <2>1 DEF Restored
<1>3. ASSUME NEW j \in Group(n), Last(n, j), Executed(n, j)
      PROVE  chain'[n] = SoFar(run'[n].pc, Verdict[Final[tJob[n][j].cJobName]])
  <2>1. /\ tJob[n][j].cJobName \in GroupJobs
        /\ uFWStatus \in {Awaits[tJob[n][j].cJobName], Final[tJob[n][j].cJobName]}
    BY <1>1, <1>3, StatusOfLast, ExecutedIsPlaced DEF Group
  <2>2. chain[n] = SoFar(run[n].pc, Verdict[Final[tJob[n][j].cJobName]])
    BY <1>3 DEF ChainOK
  <2> DEFINE V == Verdict[Final[tJob[n][j].cJobName]]
  <2>3. Restored("DROP", uFWStatus) = V \cap {"DROP"} /\ V = (V \cap {"DROP"}) \cup Restored("ACCEPT", uFWStatus)
    BY <2>1, Restores
  <2>4. chain[n] = SoFar(run[n].pc, V)
    BY <2>2
  <2> HIDE DEF V
  <2>5. chain'[n] = SoFar(run'[n].pc, V)
    <3>1. CASE rule = "DROP"
      BY <1>1, <2>3, <2>4, <3>1 DEF SoFar
    <3>2. CASE rule = "ACCEPT"
      BY <1>1, <2>3, <2>4, <3>2 DEF SoFar
    <3> QED
      BY <3>1, <3>2 DEF Rules
  <2> QED
    BY <2>5 DEF V
<1>4. ASSUME NEW i \in Group(n), NEW j \in Group(n), Last(n, j),
             tJob[n][j].cJobName = "RemoveDropFromIPTables",
             Precedes(n, i, j), tJob[n][i].cJobName = "BlockAccess", Executed(n, i),
             "ACCEPT" \notin chain[n]
      PROVE  "ACCEPT" \notin chain'[n]
  <2>1. uFWStatus \in {"WAITINGREMOVAL", "REMOVED", "WAITINGBLOCK", "BLOCKED"}
    <3>1. IsPlaced(n, i)
      BY <1>4, ExecutedIsPlaced
    <3>2. \/ uFWStatus \in {Awaits["RemoveDropFromIPTables"], Final["RemoveDropFromIPTables"]}
          \/ uFWStatus \in {Awaits["BlockAccess"], Final["BlockAccess"]}
      BY <1>1, <1>4, <3>1, StatusOfLast
    <3> QED
      BY <3>2 DEF Awaits, Final
  <2>2. "ACCEPT" \notin Restored(rule, uFWStatus)
    BY <2>1 DEF Restored
  <2> QED
    BY <1>1, <1>4, <2>2
<1>5. run[n].pc # "done" /\ run'[n].pc # "done"
  BY <1>1
<1> QED
  BY <1>0, <1>2, <1>3, <1>4, <1>5, ChainOfStart

LEMMA ChainsOfRunner ==
  ASSUME IndType, PlacedOK, TurnsOK, StatusOK, ChainsOK, NEW n \in Nodes, Proceed(n) \/ Fail(n),
         doubt' = {}, ~Broken, ~Broken'
  PROVE  ChainsOK'
<1>0. TypeOK /\ RunsOK /\ RunOK(n) /\ ChainOK(n) /\ Group(n) \subseteq DOMAIN tJob[n] /\ 0 \notin Group(n)
  BY TypeParts, GroupFacts DEF RunsOK, ChainsOK
<1>1. /\ page' = page /\ Group(n)' = Group(n)
      /\ \A i \in Group(n) : tJob'[n][i].cJobName = tJob[n][i].cJobName
  BY RowsOfRunner
<1>2. \A k \in Nodes, s \in Sessions : Removes(s, k)' => Removes(s, k)
  BY <1>1 DEF Removes, IsOpen
<1>3. ASSUME NEW k \in Nodes, k # n PROVE ChainOK(k)'
  <2>1. tJob'[k] = tJob[k] /\ run'[k] = run[k]
    <3>1. CASE Select(n)
      <4>1. tJob' = tJob
        BY <3>1 DEF Select
      <4>2. run'[k] = run[k]
        BY <1>0, <1>3, <3>1, SelectEffect DEF RunIs
      <4> QED
        BY <4>1, <4>2
    <3> QED
      BY <1>3, <3>1, RunnerMoves DEF Moves
  <2>2. chain'[k] = chain[k]
    <3>1. CASE chain' = chain
      BY <3>1
    <3>2. CASE \E S : ChainIs(n, S)
      BY <1>3, <3>2 DEF ChainIs
    <3>3. CASE RestoreDrops(n)
      BY <1>0, <3>2, <3>3, RestoreEffect DEF RestoreDrops, Rules, Points
    <3>4. CASE RestoreAccepts(n)
      BY <1>0, <3>2, <3>4, RestoreEffect DEF RestoreAccepts, Rules, Points
    <3>5. CASE Iptables(n) \/ IptablesFails(n) \/ Restart(n)
      BY <1>0, <3>2, <3>5, IptablesEffect, IptablesFailsEffect, RestartEffect
    <3> QED
      BY <3>1, <3>3, <3>4, <3>5 DEF Proceed, Fail, Select, Begin, Done, Check, Publish, StartDone,
                                    Postpone, Die
  <2> QED
    BY <1>2, <2>1, <2>2, ChainOfOther DEF ChainsOK
<1> SUFFICES ChainOK(n)'
  BY <1>3 DEF ChainsOK
<1>4. ASSUME chain' = chain, run[n].pc \notin Building, run'[n].pc \notin Building,
             \A j \in Group(n) : Executed(n, j)' <=> Executed(n, j)
      PROVE  ChainOK(n)'
  BY <1>0, <1>1, <1>2, <1>4, ChainKept
<1>5. CASE Select(n)
  <2>1. run[n].pc = "idle" /\ run'[n].pc = "loop" /\ UNCHANGED <<chain, tJob>>
    BY <1>0, <1>5, SelectEffect DEF RunIs, Select
  <2> QED
    BY <1>4, <2>1 DEF Executed, Building
<1>6. CASE Begin(n)
  <2>1. PICK j0 \in run[n].rows :
          /\ j0 \in DOMAIN tJob[n] /\ StatusOnly(n, j0, "RUNNING")
          /\ RunIs(n, "rules", run[n].rows \ {j0}, j0, run[n].uAllJobsDone)
    BY <1>0, <1>6, BeginEffect
  <2>2. run[n].pc = "loop" /\ run'[n].pc = "rules" /\ chain' = chain
    BY <1>6, <2>1 DEF Begin, RunIs
  <2>3. tJob[n][j0].uJobStatus # "DONEOK"
    BY <1>0, <2>1 DEF RunOK
  <2>4. \A j \in Group(n) : tJob'[n][j].uJobStatus = "DONEOK" <=> tJob[n][j].uJobStatus = "DONEOK"
    BY <1>0, <2>1, <2>3 DEF StatusOnly
  <2> QED
    BY <1>4, <2>2, <2>4 DEF Executed, Building
<1>7. CASE Iptables(n)
  BY <1>0, <1>7, ChainOfIptables
<1>8. CASE Done(n)
  <2>1. /\ run[n].pc = "done" /\ StatusOnly(n, run[n].cur, "DONEOK")
        /\ RunIs(n, "check", run[n].rows, run[n].cur, run[n].uAllJobsDone)
    BY <1>0, <1>8, DoneEffect
  <2>2. run'[n].pc = "check" /\ chain' = chain
    BY <1>8, <2>1 DEF RunIs, Done
  <2>3. \A j \in Group(n) : tJob'[n][j].uJobStatus = "DONEOK" <=> (j = run[n].cur \/ tJob[n][j].uJobStatus = "DONEOK")
    BY <1>0, <2>1 DEF StatusOnly
  <2> QED
    BY <1>4, <2>1, <2>2, <2>3 DEF Executed, Building
<1>9. CASE Check(n)
  <2>1. run[n].pc = "check" /\ run'[n].pc = "publish" /\ UNCHANGED <<chain, tJob>>
    BY <1>0, <1>9, CheckEffect DEF RunIs, Check
  <2> QED
    BY <1>4, <2>1 DEF Executed, Building
<1>10. CASE Publish(n)
  <2>1. run[n].pc = "publish" /\ run'[n].pc \in {"idle", "loop"} /\ UNCHANGED <<chain, tJob>>
    BY <1>0, <1>10, PublishEffect DEF RunIs, Publish, Next1
  <2> QED
    BY <1>4, <2>1 DEF Executed, Building
<1>11. CASE Restart(n)
  <2>1. run[n].cur \in DOMAIN tJob[n] /\ ~StatusOnly(n, run[n].cur, "ERROR")
    <3>1. run[n].pc = "rules"
      BY <1>11 DEF Restart
    <3>2. run[n].cur \in DOMAIN tJob[n]
      BY <1>0, <3>1, InHand DEF Busy
    <3> QED
      BY <3>2 DEF Broken, Failed, StatusOnly
  <2>2. /\ run[n].pc = "rules" /\ tJob' = tJob /\ ChainIs(n, {})
        /\ RunIs(n, "drops", run[n].rows, run[n].cur, run[n].uAllJobsDone)
    BY <1>0, <1>11, <2>1, RestartEffect
  <2>3. run'[n].pc = "drops" /\ chain'[n] = {}
    BY <2>2 DEF RunIs, ChainIs
  <2> QED
    BY <1>0, <1>1, <2>2, <2>3, ChainOfStart DEF SoFar
<1>12. CASE RestoreDrops(n) \/ RestoreAccepts(n)
  BY <1>0, <1>12, ChainOfRestore
<1>13. CASE StartDone(n)
  <2>1. /\ run[n].pc = "started" /\ StatusOnly(n, run[n].cur, "DONEOK")
        /\ run'[n].pc \in {"idle", "loop"} /\ Cur(n).cJobName = "StartIptables"
    BY <1>0, <1>13, StartDoneEffect DEF RunIs, Next1
  <2>2. run[n].cur \notin Group(n) /\ chain' = chain
    BY <1>13, <2>1 DEF Group, GroupJobs, Cur, StartDone
  <2>3. \A j \in Group(n) : tJob'[n][j].uJobStatus = tJob[n][j].uJobStatus
    BY <1>0, <2>1, <2>2 DEF StatusOnly
  <2> QED
    BY <1>4, <2>1, <2>2, <2>3 DEF Executed, Building
<1>14. CASE Postpone(n)
  <2>1. PICK j0 \in run[n].rows :
          /\ j0 \in DOMAIN tJob[n] /\ StatusOnly(n, j0, "WAITING")
          /\ run'[n].pc \in {"idle", "loop"}
    BY <1>0, <1>14, PostponeEffect DEF RunIs
  <2>2. run[n].pc = "loop" /\ chain' = chain
    BY <1>14 DEF Postpone
  <2>3. tJob[n][j0].uJobStatus # "DONEOK"
    BY <1>0, <2>1 DEF RunOK
  <2>4. \A j \in Group(n) : tJob'[n][j].uJobStatus = "DONEOK" <=> tJob[n][j].uJobStatus = "DONEOK"
    BY <1>0, <2>1, <2>3 DEF StatusOnly
  <2> QED
    BY <1>4, <2>1, <2>2, <2>4 DEF Executed, Building
<1>15. CASE IptablesFails(n)
  <2>1. run[n].pc = "rules" /\ StatusOnly(n, run[n].cur, "ERROR")
    BY <1>0, <1>15, IptablesFailsEffect
  <2>2. run[n].cur \in DOMAIN tJob[n]
    BY <1>0, <2>1, InHand DEF Busy
  <2> QED
    BY <2>1, <2>2 DEF Broken, Failed, StatusOnly
<1>16. CASE Die(n)
  BY <1>0, <1>16, DieEffect DEF Broken, RunIs
<1> QED
  BY <1>5, <1>6, <1>7, <1>8, <1>9, <1>10, <1>11, <1>12, <1>13, <1>14, <1>15, <1>16 DEF Proceed, Fail

(* A page, or the job page, that leaves a node's group jobs as executed as    *)
(* they were.                                                                *)
LEMMA ChainOfPage ==
  ASSUME NEW n \in Nodes, ChainOK(n), run' = run, chain' = chain, Group(n)' = Group(n),
         \A j \in Group(n) :
            /\ tJob'[n][j].cJobName = tJob[n][j].cJobName
            /\ tJob'[n][j].uJobStatus = "DONEOK" <=> tJob[n][j].uJobStatus = "DONEOK",
         \A s \in Sessions : Removes(s, n)' => Removes(s, n)
  PROVE  ChainOK(n)'
<1>1. \A j \in Group(n) : Executed(n, j)' <=> Executed(n, j)
  BY DEF Executed
<1> QED
  BY <1>1, ChainKept

(* RemoveDropFromIPTables gets its row after BlockAccess.                    *)
LEMMA ChainOfInsert ==
  ASSUME IndType, TurnsOK, ChainsOK, NEW s \in Sessions, NEW n \in Nodes, InsertJob(s, n)
  PROVE  ChainsOK'
<1>0. /\ run' = run /\ chain' = chain /\ TypeOK /\ RunsOK /\ Group(n) \subseteq DOMAIN tJob[n]
      /\ \A k \in Nodes : ChainOK(k)
  BY TypeParts, GroupFacts DEF InsertJob, InsertRow, ChainsOK
<1>1. /\ IsOpen(s) /\ n \in page[s].left
      /\ \A t \in Sessions : t # s => page'[t] = page[t]
      /\ page'[s].who = page[s].who /\ page'[s].cJobName = page[s].cJobName
      /\ page'[s].left = page[s].left \ {n}
  BY TypeParts, InsertEffect
<1>2. PICK r \in JobRow : /\ Added(n, r) /\ r.uJobStatus = "WAITING" /\ r.cJobName = page[s].cJobName
  BY TypeParts, InsertEffect
<1>3. \A k \in Nodes, t \in Sessions : Removes(t, k)' => Removes(t, k)
  BY <1>1 DEF Removes, IsOpen
<1>4. ASSUME NEW k \in Nodes, k # n PROVE ChainOK(k)'
  <2>1. tJob'[k] = tJob[k]
    BY <1>2, <1>4 DEF Added
  <2> QED
    BY <1>0, <1>3, <2>1, ChainOfOther
<1> DEFINE z == Len(tJob[n]) + 1
<1>5. /\ DOMAIN tJob'[n] = DOMAIN tJob[n] \cup {z} /\ z \in Nat
      /\ \A i \in DOMAIN tJob[n] : tJob'[n][i] = tJob[n][i] /\ i < z
      /\ tJob'[n][z] = r /\ z \notin DOMAIN tJob[n] /\ z # 0
  BY <1>0, <1>2, Tables DEF Added
<1>12. z' = Len(tJob'[n]) + 1
  OBVIOUS
<1> HIDE DEF z
<1>6. r.cJobName \in GroupJobs
  BY <1>0, <1>2, PageType
<1>7. /\ Group(n)' = Group(n) \cup {z} /\ z \notin Group(n)
      /\ \A i \in Group(n) : i < z /\ tJob'[n][i] = tJob[n][i]
      /\ Group(n)' \subseteq Nat
  <2>1. Group(n) \subseteq Nat
    BY <1>0, GroupFacts
  <2>2. Group(n)' = Group(n) \cup {z}
    BY <1>0, <1>5, <1>6 DEF Group
  <2> QED
    BY <1>0, <1>5, <2>1, <2>2
<1>8. \A j \in Group(n)' : Last(n, j)' <=> j = z
  BY <1>5, <1>7 DEF Last
<1>9. \A j \in Group(n)' : j = z => ~Executed(n, j)'
  <2>1. run[n].cur # z \/ run[n].pc # "done"
    BY <1>0, <1>5, InHand DEF Busy
  <2> QED
    BY <1>0, <1>2, <1>5, <2>1 DEF Executed
<1>10. page[s].cJobName = "RemoveDropFromIPTables" =>
          \E i \in Group(n)' : /\ i < z /\ \A k \in Group(n)' : k < z => k <= i
                               /\ tJob'[n][i].cJobName = "BlockAccess"
                               /\ (Executed(n, i)' => "ACCEPT" \notin chain[n])
  <2> SUFFICES ASSUME page[s].cJobName = "RemoveDropFromIPTables"
               PROVE  \E i \in Group(n)' : /\ i < z /\ \A k \in Group(n)' : k < z => k <= i
                                           /\ tJob'[n][i].cJobName = "BlockAccess"
                                           /\ (Executed(n, i)' => "ACCEPT" \notin chain[n])
    OBVIOUS
  <2>1. PICK i \in Group(n) : Last(n, i) /\ tJob[n][i].cJobName = "BlockAccess"
    BY <1>0, <1>1 DEF ChainOK, Removes
  <2>2. Executed(n, i) => "ACCEPT" \notin chain[n]
    <3>1. Executed(n, i) => chain[n] = SoFar(run[n].pc, Verdict["BLOCKED"])
      BY <1>0, <2>1 DEF ChainOK, Final
    <3>2. SoFar(run[n].pc, Verdict["BLOCKED"]) \subseteq {"DROP"}
      BY DEF SoFar, Verdict
    <3> QED
      BY <3>1, <3>2
  <2>3. Executed(n, i)' => Executed(n, i)
    BY <1>0, <1>7, <2>1 DEF Executed
  <2>4. \A k \in Group(n)' : k < z => k <= i
    <3>1. ~(z < z)
      BY <1>5
    <3> QED
      BY <1>7, <2>1, <3>1 DEF Last
  <2> QED
    BY <1>7, <2>1, <2>2, <2>3, <2>4
<1>11. \A t \in Sessions : ~Removes(t, n)'
  BY <1>1 DEF TurnsOK, OnePage, Removes, IsOpen
<1>13. \A j \in Group(n)' : j = z /\ tJob'[n][j].cJobName = "RemoveDropFromIPTables" =>
          \E i \in Group(n)' : Precedes(n, i, j)' /\ tJob'[n][i].cJobName = "BlockAccess"
                              /\ (Executed(n, i)' => "ACCEPT" \notin chain'[n])
  <2> SUFFICES ASSUME NEW j \in Group(n)', j = z, tJob'[n][j].cJobName = "RemoveDropFromIPTables"
               PROVE  \E i \in Group(n)' : Precedes(n, i, j)' /\ tJob'[n][i].cJobName = "BlockAccess"
                              /\ (Executed(n, i)' => "ACCEPT" \notin chain'[n])
    OBVIOUS
  <2>1. page[s].cJobName = "RemoveDropFromIPTables"
    BY <1>2, <1>5
  <2>2. PICK i \in Group(n)' : /\ i < z /\ \A k \in Group(n)' : k < z => k <= i
                               /\ tJob'[n][i].cJobName = "BlockAccess"
                               /\ (Executed(n, i)' => "ACCEPT" \notin chain[n])
    BY <1>10, <2>1
  <2>3. Precedes(n, i, j)'
    BY <2>2 DEF Precedes
  <2> QED
    BY <1>0, <2>2, <2>3
<1>14. ChainOK(n)'
  BY <1>7, <1>8, <1>9, <1>11, <1>13 DEF ChainOK
<1> QED
  BY <1>4, <1>14 DEF ChainsOK

(* It is ordered only when the newest order, and so the last of every node,   *)
(* is BlockAccess.                                                           *)
LEMMA ChainOfOpen ==
  ASSUME IndType, PlacedOK, TurnsOK, StatusOK, ~Broken, ChainsOK, NEW s \in Sessions,
         NEW who \in {"page", "event", "command"}, NEW name \in GroupJobs,
         OpenOrder(s, who, name), doubt' = {}
  PROVE  ChainsOK'
<1>0. UNCHANGED <<tJob, run, chain>> /\ TypeOK /\ OrdersOK
  BY TypeParts DEF OpenOrder
<1>1. /\ \A t \in Sessions : t # s => page'[t] = page[t]
      /\ page'[s].cJobName = name /\ Accepts(who, name, uFWStatus)
      /\ ~Hidden /\ \A t \in Sessions : ~IsOpen(t)
  BY TypeParts, OpenEffect
<1> SUFFICES ASSUME NEW n \in Nodes PROVE ChainOK(n)'
  BY DEF ChainsOK
<1>2. ChainOK(n) /\ Group(n)' = Group(n)
  BY <1>0 DEF ChainsOK, Group
<1>3. name = "RemoveDropFromIPTables" =>
          \E j \in Group(n) : Last(n, j) /\ tJob[n][j].cJobName = "BlockAccess"
  <2> SUFFICES ASSUME name = "RemoveDropFromIPTables"
               PROVE  \E j \in Group(n) : Last(n, j) /\ tJob[n][j].cJobName = "BlockAccess"
    OBVIOUS
  <2>1. uFWStatus = "BLOCKED"
    BY <1>1 DEF Accepts
  <2>2. Group(n) # {}
    BY <2>1, NothingPlaced
  <2>3. PICK j \in Group(n) : Last(n, j)
    BY <1>2, <2>2 DEF ChainOK
  <2>4. IsPlaced(n, j)
    <3>1. \A t \in Sessions : page[t].order = 0
      BY <1>0, <1>1, NoOrderType DEF OrdersOK, IsOpen
    <3>2. tJob[n][j].order # 0
      BY <1>0 DEF OrdersOK, Group
    <3> QED
      BY <3>1, <3>2 DEF IsPlaced
  <2>5. uFWStatus \in {Awaits[tJob[n][j].cJobName], Final[tJob[n][j].cJobName]}
    BY <1>1, <2>3, <2>4, StatusOfLast
  <2>6. tJob[n][j].cJobName = "BlockAccess"
    BY <2>1, <2>5 DEF Group, GroupJobs, Awaits, Final
  <2> QED
    BY <2>3, <2>6
<1>4. \A j \in Group(n) : /\ Last(n, j)' <=> Last(n, j)
                          /\ Executed(n, j)' <=> Executed(n, j)
  BY <1>0, <1>2 DEF Last, Executed
<1>5. \A i, j \in Group(n) : Precedes(n, i, j)' <=> Precedes(n, i, j)
  BY <1>2 DEF Precedes
<1>6. \A t \in Sessions : Removes(t, n)' => t = s /\ name = "RemoveDropFromIPTables"
  BY <1>1 DEF Removes, IsOpen
<1>7. \A t \in Sessions : Removes(t, n)' =>
          \E j \in Group(n) : Last(n, j)' /\ tJob'[n][j].cJobName = "BlockAccess"
  BY <1>0, <1>3, <1>4, <1>6
<1> QED
  BY <1>0, <1>2, <1>4, <1>5, <1>7 DEF ChainOK

LEMMA QuietStep ==
  ASSUME Nodes # {}, IndQuiet, [Next]_vars
  PROVE  IndQuiet'
<1> SUFFICES ASSUME Sound' PROVE ChainsOK'
  BY StatusStep DEF IndQuiet
<1>0. /\ IndType /\ PlacedOK /\ TurnsOK /\ StatusOK /\ ChainsOK /\ doubt' = {} /\ ~Broken /\ ~Broken'
      /\ TypeOK /\ OrdersOK /\ RunsOK /\ \A n \in Nodes : ChainOK(n)
  BY SoundBefore, TypeParts DEF IndQuiet, IndStatus, IndTurns, IndPlaced, Sound, ChainsOK
<1>1. ASSUME UNCHANGED <<tJob, run, chain>>, NEW s \in Sessions, \A t \in Sessions : t # s => page'[t] = page[t],
             page'[s] = NoOrder
      PROVE  ChainsOK'
  <2>1. \A n \in Nodes, t \in Sessions : Removes(t, n)' => Removes(t, n)
    BY <1>1, NoOrderType DEF Removes, IsOpen
  <2> QED
    BY <1>0, <1>1, <2>1, ChainOfOther DEF ChainsOK
<1>2. ASSUME NEW s \in Sessions, SetWaiting(s) PROVE ChainsOK'
  BY <1>0, <1>1, <1>2, SetWaitingEffect DEF SetWaiting
<1>3. ASSUME NEW s \in Sessions, InsertFails(s) PROVE ChainsOK'
  <2>1. page'[s] = NoOrder /\ \A t \in Sessions : t # s => page'[t] = page[t]
    BY <1>0, <1>3, FailEffect
  <2> QED
    BY <1>1, <1>3, <2>1 DEF InsertFails
<1>4. ASSUME NEW n \in Nodes, ActivateFirewall(n) PROVE ChainsOK'
  <2>1. PICK r \in JobRow : Added(n, r) /\ r.cJobName = "StartIptables"
    BY <1>0, <1>4, ActivateEffect
  <2>2. UNCHANGED <<run, chain, page>> /\ r.cJobName \notin GroupJobs
    BY <1>4, <2>1 DEF ActivateFirewall, GroupJobs
  <2>3. \A k \in Nodes : /\ Group(k)' = Group(k)
                         /\ \A j \in Group(k) : tJob'[k][j] = tJob[k][j]
    BY <2>1, <2>2 DEF Added, Group
  <2>4. \A k \in Nodes, t \in Sessions : Removes(t, k)' => Removes(t, k)
    BY <2>2 DEF Removes, IsOpen
  <2> QED
    BY <1>0, <2>2, <2>3, <2>4, ChainOfPage DEF ChainsOK
<1>5. ASSUME NEW n \in Nodes, NEW j \in DOMAIN tJob[n], GroupCancel(n, j) PROVE ChainsOK'
  <2>1. /\ StatusOnly(n, j, "CANCELED") /\ tJob[n][j].uJobStatus # "DONEOK"
        /\ UNCHANGED <<chain, page, run>>
    BY <1>0, <1>5, CancelEffect
  <2>2. \A k \in Nodes : /\ Group(k)' = Group(k) /\ Group(k) \subseteq DOMAIN tJob[k]
                         /\ \A i \in Group(k) : tJob'[k][i].cJobName = tJob[k][i].cJobName
    BY <1>0, <2>1, SameOrdersOf, SameGroups, GroupFacts
  <2>3. \A k \in Nodes : \A i \in Group(k) :
            tJob'[k][i].uJobStatus = "DONEOK" <=> tJob[k][i].uJobStatus = "DONEOK"
    BY <2>1, <2>2 DEF StatusOnly
  <2>4. \A k \in Nodes, t \in Sessions : Removes(t, k)' => Removes(t, k)
    BY <2>1 DEF Removes, IsOpen
  <2> QED
    BY <1>0, <2>1, <2>2, <2>3, <2>4, ChainOfPage DEF ChainsOK
<1>6. CASE Order
  BY <1>0, <1>3, <1>4, <1>5, <1>6, ChainOfOpen DEF Order
<1>7. CASE UNCHANGED vars
  <2>1. UNCHANGED <<tJob, run, page, chain>>
    BY <1>7 DEF vars
  <2>2. \A k \in Nodes, t \in Sessions : Removes(t, k)' => Removes(t, k)
    BY <2>1 DEF Removes, IsOpen
  <2> QED
    BY <1>0, <2>1, <2>2, ChainOfOther DEF ChainsOK
<1>8. ASSUME NEW s \in Sessions, Page(s) PROVE ChainsOK'
  BY <1>0, <1>2, <1>8, ChainOfInsert DEF Page
<1> QED
  BY <1>0, <1>6, <1>7, <1>8, ChainsOfRunner DEF Next

LEMMA InitQuiet == Init => IndQuiet
<1> SUFFICES ASSUME Init PROVE IndQuiet
  OBVIOUS
<1>1. \A n \in Nodes : tJob[n] = <<>> /\ Group(n) = {} /\ run[n].rows = {}
  BY DEF Init, Group, Idle
<1>2. TurnsOK
  BY <1>1, NoOrderType DEF Init, TurnsOK, OnePage, Sorted, PageLast, RunningInHand, Behind, InTurn, IsOpen
<1>3. StatusOK
  BY <1>1 DEF Init, StatusOK
<1>4. ChainsOK
  BY <1>1, NoOrderType DEF Init, ChainsOK, ChainOK, Removes, IsOpen
<1> QED
  BY <1>2, <1>3, <1>4, InitPlaced DEF IndQuiet, IndStatus, IndTurns

\* When the queue has worked off every order the status of the address is a
\* final one and every node's chain has its rules, for any number of nodes and
\* orders, wherever firewalls were started meanwhile, if there is a node at all.
THEOREM QuietAgrees == Nodes # {} /\ Spec => []QuietAgreement
<1>1. Nodes # {} /\ IndQuiet => QuietAgreement
  <2> SUFFICES ASSUME Nodes # {}, IndQuiet, Quiet, doubt = {}
               PROVE  uFWStatus \in DOMAIN Verdict /\ \A n \in Nodes : chain[n] = Verdict[uFWStatus]
    BY DEF QuietAgreement
  <2>1. \A n \in Nodes : /\ run[n].pc = "idle"
                         /\ \A j \in DOMAIN tJob[n] : tJob[n][j].uJobStatus = "DONEOK"
    BY DEF Quiet, Rows
  <2>2. Sound /\ TypeOK /\ OrdersOK
    BY <2>1, TypeParts DEF Sound, Broken, Failed, IndQuiet, IndStatus, IndTurns, IndPlaced
  <2>3. IndType /\ PlacedOK /\ TurnsOK /\ StatusOK /\ \A n \in Nodes : ChainOK(n)
    BY <2>2 DEF Sound, IndQuiet, IndStatus, IndTurns, IndPlaced, ChainsOK
  <2>4. \A k \in Nodes : \A j \in Group(k) : ~Alive(k, j) /\ Executed(k, j) /\ IsPlaced(k, j)
    BY <2>1, <2>3, ExecutedIsPlaced DEF Group, Alive, Closing, Executed
  <2>5. CASE NonePlaced
    <3>1. \A n \in Nodes : Group(n) = {}
      BY <2>4, <2>5 DEF NonePlaced
    <3>2. uFWStatus = "none" /\ \A n \in Nodes : chain[n] = {}
      BY <2>3, <2>5, <3>1 DEF StatusOK, ChainOK
    <3> QED
      BY <3>2 DEF Verdict
  <2>6. CASE ~NonePlaced
    <3>1. PICK k \in Nodes : \E j \in Group(k) : IsPlaced(k, j)
      BY <2>6 DEF NonePlaced
    <3>2. ASSUME NEW n \in Nodes
          PROVE  uFWStatus \in DOMAIN Verdict /\ chain[n] = Verdict[uFWStatus]
      <4>1. Group(n) # {}
        BY <2>3, <3>1, PlacedEverywhere
      <4>2. PICK j \in Group(n) : Last(n, j)
        BY <2>3, <4>1 DEF ChainOK
      <4>3. Newest(tJob[n][j].order)
        BY <2>3, <2>4, <4>2, NewestIsLast DEF Last
      <4>4. uFWStatus = Final[tJob[n][j].cJobName]
        BY <2>3, <2>4, <4>3 DEF StatusOK, Lives
      <4>5. chain[n] = Verdict[uFWStatus]
        BY <2>1, <2>3, <2>4, <4>2, <4>4 DEF ChainOK, SoFar
      <4>6. uFWStatus \in DOMAIN Verdict
        BY <4>4 DEF Group, GroupJobs, Final, Verdict
      <4> QED
        BY <4>5, <4>6
    <3> QED
      BY <3>2
  <2> QED
    BY <2>5, <2>6
<1>2. Nodes # {} /\ IndQuiet /\ [Next]_vars => IndQuiet'
  BY QuietStep
<1>3. Nodes # {} /\ [Next]_vars => (Nodes # {})'
  OBVIOUS
<1> QED
  BY <1>1, <1>2, <1>3, InitQuiet, PTL DEF Spec
=============================================================================
