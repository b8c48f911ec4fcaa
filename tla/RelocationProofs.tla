-------------------------- MODULE RelocationProofs --------------------------
(***************************************************************************)
(* Proofs about the changes of a container, for every set of containers,   *)
(* nodes, addresses and sessions and every number of events.               *)
(***************************************************************************)
EXTENDS Relocation, TLAPS

USE RelocationAssumption

-----------------------------------------------------------------------------
(******************************* Invariants ********************************)

IsOpen(s) == page[s] # NoPage

\* The points of the handlers of a job
PointsOf(name) ==
    CASE name = "Migrate" -> {"moving", "status", "node", "done", "dead"}
      [] name = "ChangeIP" -> {"check", "others", "read", "ipadd", "ipdel", "release",
                               "status", "done", "dead"}
      [] name = "ChangeHostname" -> {"check", "others", "name", "status", "done", "dead"}
      [] name = "SwapIP" -> {"check", "swapread", "swapdel", "swapdel2", "swapadd", "swapadd2",
                             "status", "done", "dead"}

\* A row is numbered by the event its page began with, and every row once
NumbersOK ==
    /\ \A r \in tJob : r.uJob <= 3 * events + 2
    /\ \A q, r \in tJob : q.uJob = r.uJob => q = r
    /\ \A s \in Sessions : IsOpen(s) => page[s].number <= events
    /\ \A s \in Sessions, r \in tJob : IsOpen(s) => r.uJob < 3 * page[s].number
                                                    \/ r.uJob > 3 * page[s].number + 2
    /\ \A s, t \in Sessions : IsOpen(s) /\ IsOpen(t) /\ page[s].number = page[t].number => s = t

\* What an invocation has to do is there and waits; what a node has in hand is
\* a running row of its own, at a point of its handler, and runs nowhere else
RunOK(n) ==
    /\ run[n].pc = "idle" => run[n].rows = {}
    /\ \A k \in run[n].rows : \E r \in tJob :
          r.uJob = k /\ r.uNode = n /\ r.uJobStatus = "WAITING"
    /\ run[n].pc \in {"idle", "loop"} => run[n].cur = {}
    /\ run[n].pc \notin {"idle", "loop"} => \E r \in tJob :
          /\ run[n].cur = {r} /\ r.uNode = n /\ r.uJobStatus = "RUNNING"
          /\ run[n].pc \in PointsOf(r.name)

RunningInHand == \A r \in tJob : r.uJobStatus = "RUNNING" => run[r.uNode].cur = {r}

\* What a page has compared with the record
PageOK(s) ==
    /\ page[s].op \in {"migration", "remote"} => page[s].target # page[s].node
    /\ page[s].op = "migration" => Datacenter[page[s].target] = Datacenter[page[s].node]
    /\ page[s].op = "remote" => /\ Datacenter[page[s].target] # Datacenter[page[s].node]
                                /\ Datacenter[page[s].ip] = Datacenter[page[s].target]
    /\ page[s].op = "ip" => Datacenter[page[s].ip] = Datacenter[page[s].node]

\* A migration goes to another node; addresses exchanged have been noted
RowOK(r) ==
    /\ r.name = "Migrate" => r.target # r.uNode
    /\ r.name = "SwapIP" => "swap" \in doubt[r.c] /\ "swap" \in doubt[r.with]

JobsOK ==
    /\ NumbersOK
    /\ \A n \in Nodes : RunOK(n)
    /\ RunningInHand
    /\ \A s \in Sessions : IsOpen(s) => PageOK(s)
    /\ \A r \in tJob : RowOK(r)

IndType == TypeOK /\ JobsOK

\* How far a row is
Stage(r) == IF r.uJobStatus = "WAITING" THEN "waiting" ELSE run[r.uNode].pc

RowsNamed(name, c) == {r \in tJob : r.name = name /\ r.c = c}

Ahead == {"waiting", "moving"}
Behind == {"done", "dead"}

\* A migration of c that has not begun starts from where c is and is recorded;
\* one that has moved c, and has not recorded it, is the only one
MigrationOK(c) == \A r \in RowsNamed("Migrate", c) :
    /\ Stage(r) \in Ahead => r.uNode = place[c] /\ Node(c) = place[c]
    /\ Stage(r) \in {"status", "node"} =>
          /\ r.target = place[c] /\ r.uNode = Node(c)
          /\ \A q \in RowsNamed("Migrate", c) : q # r => Stage(q) \in Behind

\* A job that waits for c is for the node c is on, or for one of another data
\* center
WaiterOK(c) == \A r \in tJob : r.c = c /\ r.name \in Waits =>
    r.uNode = place[c] \/ Datacenter[r.uNode] # Datacenter[place[c]]

\* The addresses of c are being changed
Changing == {"read", "ipadd", "ipdel"}

AloneOK(c) == \A r \in RowsNamed("ChangeIP", c), q \in RowsNamed("Migrate", c) :
    Stage(r) \in Changing => Stage(q) \in Behind \/ (Stage(q) \in Ahead /\ q.target # r.uNode)

\* The recorded address of c is of the data center of the job that will add it
CenterOK(c) ==
    /\ \A r \in RowsNamed("ChangeIP", c) : Datacenter[tContainer[c].uIPv4] = Datacenter[r.uNode]
    /\ \A r \in RowsNamed("ChangeIP", c) : Stage(r) = "ipadd" =>
          \A a \in run[r.uNode].new : Datacenter[a] = Datacenter[r.uNode]

Sure(c) == doubt[c] \cap {"swap", "stale", "twice", "stray"} = {}

MoveOK(c) == MigrationOK(c) /\ WaiterOK(c) /\ AloneOK(c) /\ CenterOK(c)

IndMove == IndType /\ \A c \in Containers : Sure(c) => MoveOK(c)

\* A change of address that has not yet given the old one back
Pending(r) == r.name = "ChangeIP" /\ Stage(r) \notin {"status", "done", "dead"}

\* Every address of c: that of the record, those it has, those it will give back
Held(c) == {tContainer[c].uIPv4} \cup ips[c] \cup {r.old : r \in {q \in tJob : q.c = c /\ Pending(q)}}

HeldOK ==
    /\ \A c \in Containers : available \cap Held(c) = {}
    /\ \A c, d \in Containers : c # d => Held(c) \cap Held(d) = {}

ChangeOK(c) ==
    /\ \A r, q \in RowsNamed("ChangeIP", c) : r = q
    /\ \A r \in RowsNamed("ChangeIP", c) :
          /\ Pending(r) => r.old # tContainer[c].uIPv4
          /\ Stage(r) = "ipadd" => run[r.uNode].new = {tContainer[c].uIPv4}
          /\ Stage(r) = "release" => r.old \notin ips[c]

IndHeld == IndType /\ (Orderly => HeldOK /\ \A c \in Containers : ChangeOK(c))

-----------------------------------------------------------------------------
(***************************** Rows and runners ****************************)

Statuses == {"WAITING", "RUNNING"}

\* One row of two moments: only the status may differ
Like(q, r) ==
    /\ q.uJob = r.uJob /\ q.name = r.name /\ q.c = r.c /\ q.uNode = r.uNode
    /\ q.target = r.target /\ q.with = r.with /\ q.old = r.old /\ q.prev = r.prev

LEMMA RowType ==
  ASSUME NEW r \in Rows
  PROVE  /\ r.uJob \in Nat /\ r.name \in JobNames /\ r.c \in Containers /\ r.uNode \in Nodes
         /\ r.uJobStatus \in Statuses /\ r.target \in Nodes /\ r.prev \in Settled \cup Awaiting
         /\ r.with \in Containers /\ r.old \in Addresses
  BY DEF Rows, Statuses

LEMMA StatusRow ==
  ASSUME NEW r \in Rows, NEW st \in Statuses
  PROVE  LET q == [r EXCEPT !.uJobStatus = st]
         IN  q \in Rows /\ Like(q, r) /\ q.uJobStatus = st
  BY DEF Rows, Statuses, Like

(* The next state of a runner.                                              *)
RunIs(n, p, R, C, W) ==
    /\ run' \in [Nodes -> Runners]
    /\ \A m \in Nodes : m # n => run'[m] = run[m]
    /\ run'[n].pc = p /\ run'[n].rows = R /\ run'[n].cur = C /\ run'[n].new = W

LEMMA RunEffect ==
  ASSUME TypeOK, NEW n \in Nodes, NEW p, NEW R, NEW C, NEW W,
         NEW x \in Runners, run' = [run EXCEPT ![n] = x],
         x.pc = p, x.rows = R, x.cur = C, x.new = W
  PROVE  RunIs(n, p, R, C, W)
<1>1. run \in [Nodes -> Runners]
  BY DEF TypeOK
<1>2. run' \in [Nodes -> Runners] /\ run'[n] = x /\ \A m \in Nodes : m # n => run'[m] = run[m]
  BY <1>1
<1> QED
  BY <1>2 DEF RunIs

LEMMA RunnerType ==
  ASSUME TypeOK, NEW n \in Nodes
  PROVE  /\ run[n] \in Runners /\ run[n].pc \in Points /\ run[n].rows \in SUBSET Nat
         /\ run[n].cur \in SUBSET Rows /\ run[n].new \in SUBSET Addresses
         /\ run[n].new2 \in SUBSET Addresses
<1>1. run[n] \in Runners
  BY DEF TypeOK
<1> QED
  BY <1>1 DEF Runners

\* What a busy runner has in hand.
LEMMA InHand ==
  ASSUME IndType, NEW n \in Nodes, run[n].pc \notin {"idle", "loop"}
  PROVE  /\ Cur(n) \in tJob /\ Cur(n) \in Rows /\ run[n].cur = {Cur(n)} /\ Cur(n).uNode = n
         /\ Cur(n).uJobStatus = "RUNNING" /\ run[n].pc \in PointsOf(Cur(n).name)
         /\ Cur(n).c \in Containers /\ Cur(n).with \in Containers
         /\ Cur(n).name \in JobNames
<1>1. PICK r \in tJob : /\ run[n].cur = {r} /\ r.uNode = n /\ r.uJobStatus = "RUNNING"
                        /\ run[n].pc \in PointsOf(r.name)
  BY DEF IndType, JobsOK, RunOK
<1>2. Cur(n) = r
  BY <1>1 DEF Cur
<1>3. r \in Rows
  BY DEF IndType, TypeOK
<1> QED
  BY <1>1, <1>2, <1>3, RowType

LEMMA GoesEffect ==
  ASSUME TypeOK, NEW n \in Nodes, NEW p \in Points, Goes(n, p)
  PROVE  RunIs(n, p, run[n].rows, run[n].cur, run[n].new)
<1> DEFINE x == [run[n] EXCEPT !.pc = p]
<1>1. run' = [run EXCEPT ![n] = x]
  BY DEF Goes, TypeOK
<1>2. /\ x \in Runners
      /\ x.pc = p /\ x.rows = run[n].rows /\ x.cur = run[n].cur /\ x.new = run[n].new
  BY RunnerType DEF Runners
<1> HIDE DEF x
<1> QED
  BY <1>1, <1>2, RunEffect

LEMMA ReadEffect ==
  ASSUME IndType, NEW n \in Nodes, Read(n)
  PROVE  RunIs(n, "ipadd", run[n].rows, run[n].cur, {tContainer[Cur(n).c].uIPv4})
<1> DEFINE W == {tContainer[Cur(n).c].uIPv4}
           x == [run[n] EXCEPT !.pc = "ipadd", !.new = W]
<1>1. W \in SUBSET Addresses
  BY InHand DEF Read, At, IndType, TypeOK
<1> HIDE DEF W
<1>2. run' = [run EXCEPT ![n] = x]
  BY DEF Read, IndType, TypeOK, W
<1>3. /\ x \in Runners
      /\ x.pc = "ipadd" /\ x.rows = run[n].rows /\ x.cur = run[n].cur /\ x.new = W
  BY <1>1, RunnerType DEF Runners, IndType, Points
<1> HIDE DEF x
<1>4. RunIs(n, "ipadd", run[n].rows, run[n].cur, W)
  BY <1>2, <1>3, RunEffect DEF IndType
<1> QED
  BY <1>4 DEF W

LEMMA SwapReadEffect ==
  ASSUME IndType, NEW n \in Nodes, SwapRead(n)
  PROVE  \E W \in SUBSET Addresses : RunIs(n, "swapdel", run[n].rows, run[n].cur, W)
<1> DEFINE W == {tContainer[Cur(n).c].uIPv4}
           V == {tContainer[Cur(n).with].uIPv4}
           x == [run[n] EXCEPT !.pc = "swapdel", !.new = W, !.new2 = V]
<1>1. W \in SUBSET Addresses /\ V \in SUBSET Addresses
  BY InHand DEF SwapRead, At, IndType, TypeOK
<1> HIDE DEF W, V
<1>2. run' = [run EXCEPT ![n] = x]
  BY DEF SwapRead, IndType, TypeOK, W, V
<1>3. /\ x \in Runners
      /\ x.pc = "swapdel" /\ x.rows = run[n].rows /\ x.cur = run[n].cur /\ x.new = W
  <2> DEFINE y == run[n]
  <2>1. y \in Runners /\ "swapdel" \in Points
    BY RunnerType DEF IndType, Points
  <2>2. x = [y EXCEPT !.pc = "swapdel", !.new = W, !.new2 = V]
    OBVIOUS
  <2> HIDE DEF x, y
  <2>3. /\ x \in Runners
        /\ x.pc = "swapdel" /\ x.rows = y.rows /\ x.cur = y.cur /\ x.new = W
    BY ONLY <1>1, <2>1, <2>2 DEF Runners
  <2> QED
    BY <2>3 DEF y
<1> HIDE DEF x
<1> QED
  BY <1>1, <1>2, <1>3, RunEffect DEF IndType

LEMMA SelectEffect ==
  ASSUME IndType, NEW n \in Nodes, Select(n)
  PROVE  RunIs(n, "loop", {r.uJob : r \in Waiting(n)}, {}, run[n].new)
<1> DEFINE R == {r.uJob : r \in Waiting(n)}
           x == [run[n] EXCEPT !.pc = "loop", !.rows = R]
<1>1. R \in SUBSET Nat
  BY RowType DEF IndType, TypeOK, Waiting
<1>2. run[n].cur = {}
  BY DEF Select, IndType, JobsOK, RunOK
<1> HIDE DEF R
<1>3. run' = [run EXCEPT ![n] = x]
  BY DEF Select, IndType, TypeOK, R
<1>4. /\ x \in Runners
      /\ x.pc = "loop" /\ x.rows = R /\ x.cur = {} /\ x.new = run[n].new
  BY <1>1, <1>2, RunnerType DEF Runners, IndType, Points
<1> HIDE DEF x
<1>5. RunIs(n, "loop", R, {}, run[n].new)
  BY <1>3, <1>4, RunEffect DEF IndType
<1> QED
  BY <1>5 DEF R

\* A row r is now q
Turned(r, q, st) == /\ r \in tJob /\ q \in Rows /\ Like(q, r) /\ q.uJobStatus = st
                    /\ tJob' = (tJob \ {r}) \cup {q}

LEMMA BeginEffect ==
  ASSUME IndType, NEW n \in Nodes, Begin(n)
  PROVE  \E r, q \in Rows :
            /\ r.uJob \in run[n].rows /\ r.uNode = n /\ r.uJobStatus = "WAITING"
            /\ Turned(r, q, "RUNNING")
            /\ RunIs(n, FirstPoint(r.name), run[n].rows \ {r.uJob}, {q}, {})
<1>1. PICK r \in tJob :
        LET running == [r EXCEPT !.uJobStatus = "RUNNING"] IN
        /\ r.uJob \in run[n].rows
        /\ tJob' = (tJob \ {r}) \cup {running}
        /\ run' = [run EXCEPT ![n] = [IdleRun EXCEPT !.pc = FirstPoint(r.name), !.cur = {running},
                                                     !.rows = run[n].rows \ {r.uJob}]]
  BY DEF Begin
<1> DEFINE q == [r EXCEPT !.uJobStatus = "RUNNING"]
           p == FirstPoint(r.name)
           R == run[n].rows \ {r.uJob}
           x == [IdleRun EXCEPT !.pc = p, !.cur = {q}, !.rows = R]
<1>2. r \in Rows
  BY DEF IndType, TypeOK
<1>3. q \in Rows /\ Like(q, r) /\ q.uJobStatus = "RUNNING"
  BY <1>2, StatusRow DEF Statuses
<1>4. tJob' = (tJob \ {r}) \cup {q} /\ run' = [run EXCEPT ![n] = x]
  BY <1>1
<1>5. p \in Points /\ R \in SUBSET Nat
  BY RunnerType DEF FirstPoint, Points, IndType
<1> HIDE DEF q, p, R
<1>6. /\ x \in Runners
      /\ x.pc = p /\ x.rows = R /\ x.cur = {q} /\ x.new = {}
  BY <1>3, <1>5 DEF Runners, IdleRun
<1> HIDE DEF x
<1>7. RunIs(n, p, R, {q}, {})
  BY <1>4, <1>6, RunEffect DEF IndType
<1>8. r.uNode = n /\ r.uJobStatus = "WAITING"
  BY <1>1 DEF IndType, JobsOK, RunOK, NumbersOK
<1> QED
  BY <1>1, <1>2, <1>3, <1>4, <1>7, <1>8 DEF Turned, p, R

\* Where a runner goes when its job ends
After(n) == IF run[n].rows = {} THEN "idle" ELSE "loop"

LEMMA EndsEffect ==
  ASSUME TypeOK, NEW n \in Nodes, NEW rows, Ends(n, rows)
  PROVE  tJob' = rows /\ RunIs(n, After(n), run[n].rows, {}, {})
<1> DEFINE p == IF run[n].rows = {} THEN "idle" ELSE "loop"
           x == [IdleRun EXCEPT !.rows = run[n].rows, !.pc = p]
<1>1. tJob' = rows /\ run' = [run EXCEPT ![n] = x]
  BY DEF Ends
<1>2. p \in Points
  BY DEF Points
<1>3. p = After(n)
  BY DEF After
<1> HIDE DEF p
<1>4. /\ x \in Runners
      /\ x.pc = p /\ x.rows = run[n].rows /\ x.cur = {} /\ x.new = {}
  BY <1>2, RunnerType DEF Runners, IdleRun
<1> HIDE DEF x
<1> QED
  BY <1>1, <1>3, <1>4, RunEffect

LEMMA WaitAgainEffect ==
  ASSUME IndType, NEW n \in Nodes, run[n].pc \notin {"idle", "loop"}, WaitAgain(n)
  PROVE  \E q \in Rows : /\ Turned(Cur(n), q, "WAITING")
                         /\ RunIs(n, After(n), run[n].rows, {}, {})
<1> DEFINE q == [Cur(n) EXCEPT !.uJobStatus = "WAITING"]
<1>1. q \in Rows /\ Like(q, Cur(n)) /\ q.uJobStatus = "WAITING"
  BY InHand, StatusRow DEF Statuses
<1>2. tJob' = (tJob \ {Cur(n)}) \cup {q} /\ RunIs(n, After(n), run[n].rows, {}, {})
  BY EndsEffect DEF WaitAgain, IndType
<1> HIDE DEF q
<1> QED
  BY <1>1, <1>2, InHand DEF Turned

-----------------------------------------------------------------------------
(******************************** The pages ********************************)

RecordType == [uStatus : Settled \cup Awaiting, uNode : Nodes, uIPv4 : Addresses]

LEMMA RecordFields ==
  ASSUME TypeOK, NEW c \in Containers
  PROVE  /\ tContainer[c] \in RecordType /\ tContainer[c].uStatus \in Settled \cup Awaiting
         /\ Node(c) \in Nodes /\ tContainer[c].uIPv4 \in Addresses
<1>1. tContainer[c] \in RecordType
  BY DEF TypeOK, RecordType
<1> QED
  BY <1>1 DEF RecordType, Node

LEMMA OpenPage ==
  ASSUME TypeOK, NEW s \in Sessions, IsOpen(s)
  PROVE  /\ page[s].op \in Operations /\ page[s].c \in Containers /\ page[s].node \in Nodes
         /\ page[s].uIPv4 \in Addresses /\ page[s].uStatus \in Settled
         /\ page[s].target \in Nodes /\ page[s].ip \in Addresses /\ page[s].with \in Containers
         /\ page[s].number \in Nat
<1>1. page[s] \in Pages \ {NoPage}
  BY DEF TypeOK, IsOpen
<1> QED
  BY <1>1 DEF Pages

LEMMA OpNamed ==
  ASSUME NEW s, page[s].op \in Operations
  PROVE  IsOpen(s)
  BY DEF IsOpen, NoPage, Operations

LEMMA NewRow ==
  ASSUME TypeOK, NEW s \in Sessions, IsOpen(s), NEW k \in 0 .. 2, NEW name \in JobNames,
         NEW c \in Containers, NEW n \in Nodes
  PROVE  LET r == Row(s, k, name, c, n) IN
         /\ r \in Rows /\ r.uJob = 3 * page[s].number + k /\ r.uJobStatus = "WAITING"
         /\ r.name = name /\ r.c = c /\ r.uNode = n /\ r.target = page[s].target
         /\ r.with = page[s].with /\ r.old = page[s].uIPv4 /\ r.prev = page[s].uStatus
  BY OpenPage DEF Row, Rows

LEMMA OldRow ==
  ASSUME NEW r \in Rows, NEW a \in Addresses, 
         NEW q, q = [r EXCEPT !.old = a]
  PROVE  /\ q \in Rows /\ q.uJob = r.uJob /\ q.name = r.name /\ q.c = r.c /\ q.uNode = r.uNode
         /\ q.target = r.target /\ q.with = r.with /\ q.old = a
         /\ q.uJobStatus = r.uJobStatus
  BY DEF Rows

LEMMA PrevRow ==
  ASSUME NEW r \in Rows, NEW st \in Settled \cup Awaiting
  PROVE  LET q == [r EXCEPT !.prev = st]
         IN  /\ q \in Rows /\ q.uJob = r.uJob /\ q.name = r.name /\ q.c = r.c /\ q.uNode = r.uNode
             /\ q.target = r.target /\ q.with = r.with /\ q.uJobStatus = r.uJobStatus
  BY DEF Rows

\* A row that session s inserts
FromPage(s, r) == /\ r \in Rows /\ r.uJobStatus = "WAITING" /\ r.target = page[s].target
                  /\ r.with = page[s].with
                  /\ r.uJob >= 3 * page[s].number /\ r.uJob <= 3 * page[s].number + 2

\* The page of session s ends with the rows new
Inserts(s, new) ==
    /\ IsOpen(s) /\ tJob' = tJob \cup new
    /\ \A r \in new : FromPage(s, r)
    /\ \A q, r \in new : q.uJob = r.uJob => q = r
    /\ page' \in [Sessions -> Pages] /\ page'[s] = NoPage
    /\ \A t \in Sessions : t # s => page'[t] = page[t]
    /\ tContainer' \in [Containers -> RecordType]
    /\ \A c \in Containers : tContainer'[c].uNode = tContainer[c].uNode
    /\ \A c \in Containers : c # page[s].c /\ (page[s].op = "swap" => c # page[s].with)
                                => tContainer'[c] = tContainer[c]
    /\ doubt' \in [Containers -> SUBSET Doubts]
    /\ \A c \in Containers : doubt[c] \subseteq doubt'[c] /\ Wrong(s, c, new) \subseteq doubt'[c]
    /\ UNCHANGED <<place, ips, run, events>>

LEMMA DoneEffect ==
  ASSUME IndType, NEW s \in Sessions, IsOpen(s), NEW rec, NEW new, NEW x, NEW whys \in SUBSET Doubts,
         Done(s, rec, new, x, whys),
         rec \in [Containers -> RecordType],
         \A c \in Containers : rec[c].uNode = tContainer[c].uNode,
         \A c \in Containers : c # page[s].c /\ (page[s].op = "swap" => c # page[s].with)
                                    => rec[c] = tContainer[c],
         \A r \in new : FromPage(s, r),
         \A q, r \in new : q.uJob = r.uJob => q = r
  PROVE  Inserts(s, new) /\ \A c \in Containers \cap x : whys \subseteq doubt'[c]
<1>1. /\ page' \in [Sessions -> Pages] /\ page'[s] = NoPage
      /\ \A t \in Sessions : t # s => page'[t] = page[t]
  BY DEF Done, IndType, TypeOK, Pages
<1>2. \A c \in Containers : Wrong(s, c, new) \in SUBSET Doubts
  BY DEF Wrong, Doubts
<1>3. /\ doubt' = [c \in Containers |-> doubt[c] \cup Wrong(s, c, new)
                                            \cup (IF c \in x THEN whys ELSE {})]
  BY DEF Done
<1>4. /\ doubt' \in [Containers -> SUBSET Doubts]
      /\ \A c \in Containers : doubt[c] \subseteq doubt'[c] /\ Wrong(s, c, new) \subseteq doubt'[c]
      /\ \A c \in Containers \cap x : whys \subseteq doubt'[c]
  BY <1>2, <1>3 DEF IndType, TypeOK
<1> QED
  BY <1>1, <1>4 DEF Done, Inserts

\* The recorded addresses are those of before, but for c's
OneAddress(c, a) ==
    /\ tContainer'[c].uIPv4 = a
    /\ \A d \in Containers : d # c => tContainer'[d].uIPv4 = tContainer[d].uIPv4

LEMMA StatusField ==
  ASSUME TypeOK, NEW c \in Containers, NEW st \in Settled \cup Awaiting
  PROVE  LET rec == Field(c, "uStatus", st) IN
         /\ rec \in [Containers -> RecordType]
         /\ \A d \in Containers : d # c => rec[d] = tContainer[d]
         /\ rec[c].uNode = tContainer[c].uNode /\ rec[c].uIPv4 = tContainer[c].uIPv4
<1> DEFINE y == [tContainer[c] EXCEPT !.uStatus = st]
<1>1. y \in RecordType /\ y.uNode = tContainer[c].uNode /\ y.uIPv4 = tContainer[c].uIPv4
  BY RecordFields DEF RecordType
<1>2. Field(c, "uStatus", st) = [tContainer EXCEPT ![c] = y]
  BY DEF Field, TypeOK
<1> HIDE DEF y
<1>3. tContainer \in [Containers -> RecordType]
  BY DEF TypeOK, RecordType
<1> QED
  BY <1>1, <1>2, <1>3

LEMMA AddressField ==
  ASSUME TypeOK, NEW c \in Containers, NEW st \in Settled \cup Awaiting, NEW a \in Addresses,
         NEW rec, rec = [tContainer EXCEPT ![c].uStatus = st, ![c].uIPv4 = a]
  PROVE  /\ rec \in [Containers -> RecordType]
         /\ \A d \in Containers : d # c => rec[d] = tContainer[d]
         /\ rec[c].uNode = tContainer[c].uNode /\ rec[c].uIPv4 = a
<1> DEFINE z == [tContainer[c] EXCEPT !.uStatus = st, !.uIPv4 = a]
<1>1. z \in RecordType /\ z.uNode = tContainer[c].uNode /\ z.uIPv4 = a
  BY RecordFields DEF RecordType
<1>2. rec = [tContainer EXCEPT ![c] = z]
  BY DEF TypeOK
<1> HIDE DEF z
<1>3. tContainer \in [Containers -> RecordType]
  BY DEF TypeOK, RecordType
<1> QED
  BY ONLY <1>1, <1>2, <1>3, c \in Containers

LEMMA MigrateEffect ==
  ASSUME IndType, NEW s \in Sessions, MigrateContainer(s)
  PROVE  \E r \in Rows :
            /\ Inserts(s, {r}) /\ page[s].op = "migration"
            /\ r.name = "Migrate" /\ r.c = page[s].c /\ r.uNode = page[s].node
            /\ OneAddress(page[s].c, tContainer[page[s].c].uIPv4) /\ available' = available
<1> DEFINE r == Row(s, 0, "Migrate", page[s].c, page[s].node)
           rec == Field(page[s].c, "uStatus", "AWAITMIG")
<1>1. /\ page[s].op = "migration" /\ Done(s, rec, {r}, {}, {}) /\ available' = available
  BY DEF MigrateContainer
<1>2. IsOpen(s)
  BY <1>1, OpNamed DEF Operations
<1>3. /\ FromPage(s, r) /\ r \in Rows
      /\ r.name = "Migrate" /\ r.c = page[s].c /\ r.uNode = page[s].node
  BY <1>2, NewRow, OpenPage DEF IndType, FromPage, JobNames
<1>4. /\ rec \in [Containers -> RecordType]
      /\ \A d \in Containers : d # page[s].c => rec[d] = tContainer[d]
      /\ rec[page[s].c].uNode = tContainer[page[s].c].uNode
      /\ rec[page[s].c].uIPv4 = tContainer[page[s].c].uIPv4
  BY <1>2, OpenPage, StatusField DEF IndType, Awaiting
<1>5. tContainer' = rec
  BY <1>1 DEF Done
<1> HIDE DEF r, rec
<1>6. Inserts(s, {r})
  BY <1>1, <1>2, <1>3, <1>4, DoneEffect
<1> QED
  BY <1>1, <1>3, <1>4, <1>5, <1>6 DEF OneAddress

LEMMA HostnameEffect ==
  ASSUME IndType, NEW s \in Sessions, HostnameChange(s)
  PROVE  \E r \in Rows :
            /\ Inserts(s, {r}) /\ page[s].op = "hostname"
            /\ r.name = "ChangeHostname" /\ r.c = page[s].c /\ r.uNode = page[s].node
            /\ OneAddress(page[s].c, tContainer[page[s].c].uIPv4) /\ available' = available
<1> DEFINE r == Row(s, 0, "ChangeHostname", page[s].c, page[s].node)
           rec == Field(page[s].c, "uStatus", "AWAITHOST")
<1>1. /\ page[s].op = "hostname" /\ Done(s, rec, {r}, {}, {}) /\ available' = available
  BY DEF HostnameChange
<1>2. IsOpen(s)
  BY <1>1, OpNamed DEF Operations
<1>3. /\ FromPage(s, r) /\ r \in Rows
      /\ r.name = "ChangeHostname" /\ r.c = page[s].c /\ r.uNode = page[s].node
  BY <1>2, NewRow, OpenPage DEF IndType, FromPage, JobNames
<1>4. /\ rec \in [Containers -> RecordType]
      /\ \A d \in Containers : d # page[s].c => rec[d] = tContainer[d]
      /\ rec[page[s].c].uNode = tContainer[page[s].c].uNode
      /\ rec[page[s].c].uIPv4 = tContainer[page[s].c].uIPv4
  BY <1>2, OpenPage, StatusField DEF IndType, Awaiting
<1>5. tContainer' = rec
  BY <1>1 DEF Done
<1> HIDE DEF r, rec
<1>6. Inserts(s, {r})
  BY <1>1, <1>2, <1>3, <1>4, DoneEffect
<1> QED
  BY <1>1, <1>3, <1>4, <1>5, <1>6 DEF OneAddress

LEMMA IPEffect ==
  ASSUME IndType, NEW s \in Sessions, IPChange(s)
  PROVE  \E r \in Rows :
            /\ Inserts(s, {r}) /\ page[s].op = "ip"
            /\ r.name = "ChangeIP" /\ r.c = page[s].c /\ r.uNode = page[s].node
            /\ r.old = tContainer[page[s].c].uIPv4
            /\ OneAddress(page[s].c, page[s].ip) /\ available' = available \ {page[s].ip}
<1> DEFINE old == tContainer[page[s].c].uIPv4
           rec == [tContainer EXCEPT ![page[s].c].uStatus = "AWAITIP", ![page[s].c].uIPv4 = page[s].ip]
           r0 == Row(s, 0, "ChangeIP", page[s].c, page[s].node)
<1>1. PICK release \in {TRUE, page[s].uStatus # "STOPPED"} :
          Done(s, rec, {[r0 EXCEPT !.old = old, !.release = release]}, {}, {})
  BY DEF IPChange
<1> DEFINE r == [r0 EXCEPT !.old = old, !.release = release]
<1>2. page[s].op = "ip" /\ available' = available \ {page[s].ip}
  BY DEF IPChange
<1>3. IsOpen(s)
  BY <1>2, OpNamed DEF Operations
<1>4. old \in Addresses /\ release \in BOOLEAN
  BY <1>3, OpenPage, RecordFields DEF IndType
<1>5. /\ r0 \in Rows /\ FromPage(s, r0)
      /\ r0.name = "ChangeIP" /\ r0.c = page[s].c /\ r0.uNode = page[s].node
  BY <1>3, NewRow, OpenPage DEF IndType, FromPage, JobNames
<1>6. /\ rec \in [Containers -> RecordType]
      /\ \A d \in Containers : d # page[s].c => rec[d] = tContainer[d]
      /\ rec[page[s].c].uNode = tContainer[page[s].c].uNode
      /\ rec[page[s].c].uIPv4 = page[s].ip
  <2> DEFINE c == page[s].c
             a == page[s].ip
  <2>1. c \in Containers /\ a \in Addresses /\ "AWAITIP" \in Settled \cup Awaiting
    BY <1>3, OpenPage DEF IndType, Awaiting
  <2>2. rec = [tContainer EXCEPT ![c].uStatus = "AWAITIP", ![c].uIPv4 = a]
    OBVIOUS
  <2> HIDE DEF c, a, rec
  <2>3. /\ rec \in [Containers -> RecordType]
        /\ \A d \in Containers : d # c => rec[d] = tContainer[d]
        /\ rec[c].uNode = tContainer[c].uNode /\ rec[c].uIPv4 = a
    BY <2>1, <2>2, AddressField DEF IndType
  <2> QED
    BY <2>3 DEF c, a
<1>7. tContainer' = rec /\ Done(s, rec, {r}, {}, {})
  BY <1>1 DEF Done
<1> HIDE DEF r0, rec, old
<1>8. /\ r \in Rows /\ r.uJob = r0.uJob /\ r.name = r0.name /\ r.c = r0.c /\ r.uNode = r0.uNode
      /\ r.target = r0.target /\ r.with = r0.with /\ r.old = old
      /\ r.uJobStatus = r0.uJobStatus
  BY <1>4, <1>5 DEF Rows
<1> HIDE DEF r
<1>9. FromPage(s, r)
  BY <1>5, <1>8 DEF FromPage
<1>10. Inserts(s, {r})
  BY <1>3, <1>6, <1>7, <1>9, DoneEffect
<1> QED
  BY <1>2, <1>5, <1>6, <1>7, <1>8, <1>10 DEF OneAddress, old

LEMMA RemoteEffect ==
  ASSUME IndType, NEW s \in Sessions, RemoteMigration(s)
  PROVE  \E r, q \in Rows, h \in SUBSET Rows :
            /\ Inserts(s, {r, q} \cup h) /\ page[s].op = "remote"
            /\ r.name = "Migrate" /\ r.c = page[s].c /\ r.uNode = page[s].node
            /\ q.name = "ChangeIP" /\ q.c = page[s].c /\ q.uNode = page[s].target
            /\ q.old = page[s].uIPv4
            /\ \A k \in h : k.name = "ChangeHostname" /\ k.c = page[s].c
                            /\ k.uNode = page[s].target
            /\ OneAddress(page[s].c, page[s].ip) /\ available' = available \ {page[s].ip}
<1> DEFINE rec == [tContainer EXCEPT ![page[s].c].uStatus = "AWAITMIG", ![page[s].c].uIPv4 = page[s].ip]
           r == Row(s, 0, "Migrate", page[s].c, page[s].node)
           q == Row(s, 1, "ChangeIP", page[s].c, page[s].target)
           k0 == Row(s, 2, "ChangeHostname", page[s].c, page[s].target)
           k == [k0 EXCEPT !.prev = "AWAITMIG"]
           h == IF page[s].c \in Clones THEN {k} ELSE {}
           x == IF page[s].c \in Clones THEN {page[s].c} ELSE {}
<1>1. /\ page[s].op = "remote" /\ Done(s, rec, {r, q} \cup h, x, {"status"})
      /\ available' = available \ {page[s].ip}
  BY DEF RemoteMigration
<1>2. IsOpen(s)
  BY <1>1, OpNamed DEF Operations
<1>3. /\ FromPage(s, r) /\ r \in Rows /\ r.uJob = 3 * page[s].number
      /\ r.name = "Migrate" /\ r.c = page[s].c /\ r.uNode = page[s].node
  BY <1>2, NewRow, OpenPage DEF IndType, FromPage, JobNames
<1>4. /\ FromPage(s, q) /\ q \in Rows /\ q.uJob = 3 * page[s].number + 1
      /\ q.name = "ChangeIP" /\ q.c = page[s].c /\ q.uNode = page[s].target
      /\ q.old = page[s].uIPv4
  BY <1>2, NewRow, OpenPage DEF IndType, FromPage, JobNames
<1>5. /\ FromPage(s, k0) /\ k0 \in Rows /\ k0.uJob = 3 * page[s].number + 2
      /\ k0.name = "ChangeHostname" /\ k0.c = page[s].c /\ k0.uNode = page[s].target
  BY <1>2, NewRow, OpenPage DEF IndType, FromPage, JobNames
<1>6. /\ rec \in [Containers -> RecordType]
      /\ \A d \in Containers : d # page[s].c => rec[d] = tContainer[d]
      /\ rec[page[s].c].uNode = tContainer[page[s].c].uNode
      /\ rec[page[s].c].uIPv4 = page[s].ip
  <2> DEFINE c == page[s].c
             a == page[s].ip
  <2>1. c \in Containers /\ a \in Addresses /\ "AWAITMIG" \in Settled \cup Awaiting
    BY <1>2, OpenPage DEF IndType, Awaiting
  <2>2. rec = [tContainer EXCEPT ![c].uStatus = "AWAITMIG", ![c].uIPv4 = a]
    OBVIOUS
  <2> HIDE DEF c, a, rec
  <2>3. /\ rec \in [Containers -> RecordType]
        /\ \A d \in Containers : d # c => rec[d] = tContainer[d]
        /\ rec[c].uNode = tContainer[c].uNode /\ rec[c].uIPv4 = a
    BY <2>1, <2>2, AddressField DEF IndType
  <2> QED
    BY <2>3 DEF c, a
<1>7. tContainer' = rec
  BY <1>1 DEF Done
<1> HIDE DEF r, q, k0, rec
<1>8. /\ k \in Rows /\ k.uJob = k0.uJob /\ k.name = k0.name /\ k.c = k0.c /\ k.uNode = k0.uNode
      /\ k.target = k0.target /\ k.with = k0.with /\ k.uJobStatus = k0.uJobStatus
  BY <1>5, PrevRow DEF Awaiting
<1> HIDE DEF k
<1>9. FromPage(s, k) /\ k.uJob = 3 * page[s].number + 2
      /\ k.name = "ChangeHostname" /\ k.c = page[s].c /\ k.uNode = page[s].target
  BY <1>5, <1>8 DEF FromPage
<1>10. /\ \A y \in h : y = k
       /\ h \in SUBSET Rows
  BY <1>8
<1> HIDE DEF h, x
<1>11. \A y, z \in {r, q} \cup h : y.uJob = z.uJob => y = z
  BY <1>2, <1>3, <1>4, <1>9, <1>10, OpenPage DEF IndType
<1>12. {"status"} \in SUBSET Doubts
  BY DEF Doubts
<1>13. \A y \in {r, q} \cup h : FromPage(s, y)
  BY <1>3, <1>4, <1>9, <1>10
<1>14. Inserts(s, {r, q} \cup h)
  BY <1>1, <1>2, <1>6, <1>11, <1>12, <1>13, DoneEffect
<1> QED
  BY <1>1, <1>3, <1>4, <1>6, <1>7, <1>9, <1>10, <1>14 DEF OneAddress

LEMMA SwapEffect ==
  ASSUME IndType, NEW s \in Sessions, Swap(s)
  PROVE  \E new \in SUBSET Rows :
            /\ Inserts(s, new) /\ page[s].op = "swap"
            /\ "swap" \in doubt'[page[s].c] /\ "swap" \in doubt'[page[s].with]
            /\ \A r \in new : /\ r.name \in {"ChangeIP", "SwapIP"}
                              /\ r.c \in {page[s].c, page[s].with}
            /\ available' = available
<1>2. IsOpen(s)
  <2>1. page[s].op = "swap"
    BY Zenon DEF Swap
  <2> QED
    BY <2>1, OpNamed DEF Operations
<1> DEFINE c == page[s].c
           d == page[s].with
           n == page[s].node
           m == Node(d)
           a == page[s].ip
           b == page[s].uIPv4
           oc == tContainer[c].uIPv4
           od == tContainer[d].uIPv4
           rec == [tContainer EXCEPT ![c].uIPv4 = a, ![c].uStatus = "AWAITIP",
                                     ![d].uIPv4 = b, ![d].uStatus = "AWAITIP"]
           r0 == Row(s, 0, "SwapIP", c, n)
           r == [r0 EXCEPT !.old = oc, !.old2 = od]
           p0 == Row(s, 0, "ChangeIP", c, n)
           p == [p0 EXCEPT !.old = oc]
           q0 == Row(s, 1, "ChangeIP", d, m)
           q == [q0 EXCEPT !.old = od]
           new == IF m = n THEN {r} ELSE {p, q}
<1>1. /\ page[s].op = "swap" /\ Done(s, rec, new, {c, d}, {"swap"}) /\ available' = available
  BY DEF Swap
<1>3. /\ c \in Containers /\ d \in Containers /\ n \in Nodes /\ m \in Nodes
      /\ a \in Addresses /\ b \in Addresses /\ oc \in Addresses /\ od \in Addresses
      /\ page[s].number \in Nat
  BY <1>2, OpenPage, RecordFields DEF IndType
<1>4. /\ r0 \in Rows /\ FromPage(s, r0) /\ r0.name = "SwapIP" /\ r0.c = c
  BY <1>2, <1>3, NewRow DEF IndType, FromPage, JobNames
<1>5. /\ p0 \in Rows /\ FromPage(s, p0) /\ p0.uJob = 3 * page[s].number
      /\ p0.name = "ChangeIP" /\ p0.c = c
  BY <1>2, <1>3, NewRow DEF IndType, FromPage, JobNames
<1>6. /\ q0 \in Rows /\ FromPage(s, q0) /\ q0.uJob = 3 * page[s].number + 1
      /\ q0.name = "ChangeIP" /\ q0.c = d
  BY <1>2, <1>3, NewRow DEF IndType, FromPage, JobNames
<1> HIDE DEF r0, p0, q0
<1>7. /\ r \in Rows /\ FromPage(s, r) /\ r.name = "SwapIP" /\ r.c = c
  <2>1. /\ r \in Rows /\ r.uJob = r0.uJob /\ r.name = r0.name /\ r.c = r0.c
        /\ r.target = r0.target /\ r.with = r0.with /\ r.uJobStatus = r0.uJobStatus
    BY <1>3, <1>4 DEF Rows
  <2> QED
    BY <1>4, <2>1 DEF FromPage
<1>8. /\ p \in Rows /\ FromPage(s, p) /\ p.uJob = p0.uJob /\ p.name = "ChangeIP" /\ p.c = c
  <2>1. /\ p \in Rows /\ p.uJob = p0.uJob /\ p.name = p0.name /\ p.c = p0.c
        /\ p.target = p0.target /\ p.with = p0.with /\ p.uJobStatus = p0.uJobStatus
    BY <1>3, <1>5, OldRow
  <2> QED
    BY <1>5, <2>1 DEF FromPage
<1>9. /\ q \in Rows /\ FromPage(s, q) /\ q.uJob = q0.uJob /\ q.name = "ChangeIP" /\ q.c = d
  <2>1. /\ q \in Rows /\ q.uJob = q0.uJob /\ q.name = q0.name /\ q.c = q0.c
        /\ q.target = q0.target /\ q.with = q0.with /\ q.uJobStatus = q0.uJobStatus
    BY <1>3, <1>6, OldRow
  <2> QED
    BY <1>6, <2>1 DEF FromPage
<1>10. /\ rec \in [Containers -> RecordType]
       /\ \A y \in Containers : y # c /\ y # d => rec[y] = tContainer[y]
       /\ \A y \in Containers : rec[y].uNode = tContainer[y].uNode
  <2> DEFINE st == "AWAITIP"
             mid == [tContainer EXCEPT ![c].uIPv4 = a, ![c].uStatus = st]
  <2>1. rec = [mid EXCEPT ![d].uIPv4 = b, ![d].uStatus = st]
    OBVIOUS
  <2>2. st \in Settled \cup Awaiting /\ tContainer \in [Containers -> RecordType]
    BY DEF Awaiting, IndType, TypeOK, RecordType
  <2> HIDE DEF st, rec, c, d, a, b
  <2>3. /\ mid \in [Containers -> RecordType]
        /\ \A y \in Containers : y # c => mid[y] = tContainer[y]
        /\ mid[c].uNode = tContainer[c].uNode
    <3> DEFINE z == [tContainer[c] EXCEPT !.uIPv4 = a, !.uStatus = st]
    <3>1. z \in RecordType /\ z.uNode = tContainer[c].uNode
      BY <1>3, <2>2, RecordFields DEF RecordType, IndType
    <3>2. mid = [tContainer EXCEPT ![c] = z]
      BY <1>3, <2>2
    <3> HIDE DEF z, mid
    <3> QED
      BY ONLY <1>3, <2>2, <3>1, <3>2
  <2> HIDE DEF mid
  <2>4. /\ rec \in [Containers -> RecordType]
        /\ \A y \in Containers : y # d => rec[y] = mid[y]
        /\ rec[d].uNode = mid[d].uNode
    <3> DEFINE z == [mid[d] EXCEPT !.uIPv4 = b, !.uStatus = st]
    <3>1. z \in RecordType /\ z.uNode = mid[d].uNode
      <4>1. mid[d] \in RecordType
        BY <1>3, <2>3
      <4> QED
        BY <1>3, <2>2, <4>1 DEF RecordType
    <3>2. rec = [mid EXCEPT ![d] = z]
      BY <1>3, <2>1, <2>3
    <3> HIDE DEF z
    <3> QED
      BY ONLY <1>3, <2>3, <3>1, <3>2
  <2> QED
    BY <2>3, <2>4
<1> HIDE DEF r, p, q, rec, oc, od
<1>11. /\ \A y \in new : /\ y \in Rows /\ FromPage(s, y)
                         /\ y.name \in {"ChangeIP", "SwapIP"} /\ y.c \in {c, d}
       /\ \A y, z \in new : y.uJob = z.uJob => y = z
  BY <1>3, <1>5, <1>6, <1>7, <1>8, <1>9
<1> HIDE DEF new, m
<1>12. {"swap"} \in SUBSET Doubts
  BY DEF Doubts
<1>13. Inserts(s, new) /\ \A y \in Containers \cap {c, d} : {"swap"} \subseteq doubt'[y]
  BY <1>1, <1>2, <1>10, <1>11, <1>12, DoneEffect
<1> QED
  BY <1>1, <1>3, <1>11, <1>13

-----------------------------------------------------------------------------
(**************************** Type correctness *****************************)

\* Nothing is forgotten
Grows == /\ events \in Nat /\ events' \in Nat /\ events <= events'
         /\ \A c \in Containers : doubt[c] \subseteq doubt'[c]

Idlers == {"idle", "loop"}

\* The job that n has in hand goes on
Advances(n, p, W) ==
    /\ run[n].pc \notin Idlers /\ p \notin Idlers /\ p \in PointsOf(Cur(n).name)
    /\ RunIs(n, p, run[n].rows, run[n].cur, W)
    /\ tJob' = tJob /\ page' = page

\* It ends and is out of the table
Drops(n) ==
    /\ run[n].pc \notin Idlers
    /\ RunIs(n, After(n), run[n].rows, {}, {})
    /\ tJob' = tJob \ {Cur(n)} /\ page' = page

\* It waits again
Returns(n, q) ==
    /\ run[n].pc \notin Idlers
    /\ RunIs(n, After(n), run[n].rows, {}, {})
    /\ Turned(Cur(n), q, "WAITING") /\ page' = page

\* n takes the row r in hand, which is now q
Takes(n, r, q) ==
    /\ run[n].pc = "loop" /\ r.uJob \in run[n].rows /\ r.uNode = n /\ r.uJobStatus = "WAITING"
    /\ RunIs(n, FirstPoint(r.name), run[n].rows \ {r.uJob}, {q}, {})
    /\ Turned(r, q, "RUNNING") /\ page' = page

LEMMA RowsTyped ==
  ASSUME TypeOK
  PROVE  \A r \in tJob : /\ r \in Rows /\ r.uJob \in Nat /\ r.name \in JobNames
                         /\ r.c \in Containers /\ r.uNode \in Nodes /\ r.uJobStatus \in Statuses
                         /\ r.target \in Nodes /\ r.with \in Containers /\ r.old \in Addresses
  BY RowType DEF TypeOK

LEMMA SamePages ==
  ASSUME IndType, page' = page
  PROVE  (\A s \in Sessions : IsOpen(s) => PageOK(s))'
  BY DEF IndType, JobsOK, IsOpen, PageOK

\* The numbers stay in order when no row is new.
LEMMA FewerRows ==
  ASSUME IndType, Grows, page' = page,
         \A q \in tJob' : \E r \in tJob : Like(q, r),
         \A q, r \in tJob' : q.uJob = r.uJob => q = r
  PROVE  NumbersOK' /\ \A q \in tJob' : RowOK(q)'
<1>1. NumbersOK /\ \A r \in tJob : RowOK(r)
  BY DEF IndType, JobsOK
<1>2. \A r \in tJob' : r.uJob <= 3 * events' + 2
  <2> SUFFICES ASSUME NEW q \in tJob' PROVE q.uJob <= 3 * events' + 2
    OBVIOUS
  <2>1. PICK r \in tJob : Like(q, r)
    OBVIOUS
  <2>2. r.uJob \in Nat /\ r.uJob <= 3 * events + 2 /\ q.uJob = r.uJob
    BY <1>1, <2>1, RowsTyped DEF IndType, NumbersOK, Like
  <2> QED
    BY <2>2 DEF Grows
<1>3. \A s \in Sessions : IsOpen(s)' => page'[s].number <= events'
  <2> SUFFICES ASSUME NEW s \in Sessions, IsOpen(s) PROVE page[s].number <= events'
    BY DEF IsOpen
  <2> QED
    BY <1>1, OpenPage DEF NumbersOK, Grows, IndType
<1>4. \A s \in Sessions, r \in tJob' : IsOpen(s)' => r.uJob < 3 * page'[s].number
                                                    \/ r.uJob > 3 * page'[s].number + 2
  BY <1>1 DEF NumbersOK, IsOpen, Like
<1>5. \A s, t \in Sessions : IsOpen(s)' /\ IsOpen(t)' /\ page'[s].number = page'[t].number => s = t
  BY <1>1 DEF NumbersOK, IsOpen
<1>6. \A q \in tJob' : RowOK(q)'
  BY <1>1, RowsTyped DEF RowOK, Like, Grows, IndType
<1> QED
  BY <1>2, <1>3, <1>4, <1>5, <1>6 DEF NumbersOK

LEMMA AdvanceJobs ==
  ASSUME IndType, Grows, NEW n \in Nodes, NEW p, NEW W, Advances(n, p, W)
  PROVE  JobsOK'
<1>1. /\ Cur(n) \in tJob /\ run[n].cur = {Cur(n)} /\ Cur(n).uNode = n
      /\ Cur(n).uJobStatus = "RUNNING"
  BY InHand DEF Advances, Idlers
<1>2. NumbersOK' /\ \A q \in tJob' : RowOK(q)'
  <2>1. /\ \A q \in tJob' : \E r \in tJob : Like(q, r)
        /\ \A q, r \in tJob' : q.uJob = r.uJob => q = r
    BY DEF Advances, Like, IndType, JobsOK, NumbersOK
  <2> QED
    BY <2>1, FewerRows DEF Advances
<1>3. \A m \in Nodes : RunOK(m)'
  <2> SUFFICES ASSUME NEW m \in Nodes PROVE RunOK(m)'
    OBVIOUS
  <2>1. RunOK(m)
    BY DEF IndType, JobsOK
  <2>2. CASE m = n
    BY <1>1, <2>1, <2>2 DEF RunOK, Advances, RunIs, Idlers
  <2>3. CASE m # n
    BY <2>1, <2>3 DEF RunOK, Advances, RunIs
  <2> QED
    BY <2>2, <2>3
<1>4. RunningInHand'
  BY RowsTyped DEF RunningInHand, Advances, RunIs, IndType, JobsOK
<1>5. (\A s \in Sessions : IsOpen(s) => PageOK(s))'
  BY SamePages DEF Advances
<1> QED
  BY <1>2, <1>3, <1>4, <1>5 DEF JobsOK

LEMMA DropJobs ==
  ASSUME IndType, Grows, NEW n \in Nodes, Drops(n)
  PROVE  JobsOK'
<1>1. /\ Cur(n) \in tJob /\ run[n].cur = {Cur(n)} /\ Cur(n).uNode = n
      /\ Cur(n).uJobStatus = "RUNNING"
  BY InHand DEF Drops, Idlers
<1>2. NumbersOK' /\ \A q \in tJob' : RowOK(q)'
  <2>1. /\ \A q \in tJob' : \E r \in tJob : Like(q, r)
        /\ \A q, r \in tJob' : q.uJob = r.uJob => q = r
    BY DEF Drops, Like, IndType, JobsOK, NumbersOK
  <2> QED
    BY <2>1, FewerRows DEF Drops
<1>3. \A m \in Nodes : RunOK(m)'
  <2> SUFFICES ASSUME NEW m \in Nodes PROVE RunOK(m)'
    OBVIOUS
  <2>1. RunOK(m)
    BY DEF IndType, JobsOK
  <2>2. CASE m = n
    BY <1>1, <2>1, <2>2 DEF RunOK, Drops, RunIs, After
  <2>3. CASE m # n
    BY <1>1, <2>1, <2>3 DEF RunOK, Drops, RunIs
  <2> QED
    BY <2>2, <2>3
<1>4. RunningInHand'
  <2> SUFFICES ASSUME NEW r \in tJob', r.uJobStatus = "RUNNING" PROVE run'[r.uNode].cur = {r}
    BY DEF RunningInHand
  <2>1. r \in tJob /\ r # Cur(n) /\ run[r.uNode].cur = {r} /\ r.uNode \in Nodes
    BY RowsTyped DEF Drops, IndType, JobsOK, RunningInHand
  <2>2. r.uNode # n
    BY <1>1, <2>1
  <2> QED
    BY <2>1, <2>2 DEF Drops, RunIs
<1>5. (\A s \in Sessions : IsOpen(s) => PageOK(s))'
  BY SamePages DEF Drops
<1> QED
  BY <1>2, <1>3, <1>4, <1>5 DEF JobsOK

LEMMA ReturnJobs ==
  ASSUME IndType, Grows, NEW n \in Nodes, NEW q, Returns(n, q)
  PROVE  JobsOK'
<1> DEFINE j == Cur(n)
<1>1. /\ j \in tJob /\ run[n].cur = {j} /\ j.uNode = n /\ j.uJobStatus = "RUNNING"
  BY InHand DEF Returns, Idlers
<1>2. /\ tJob' = (tJob \ {j}) \cup {q} /\ Like(q, j) /\ q.uJobStatus = "WAITING"
  BY DEF Returns, Turned
<1> HIDE DEF j
<1>3. NumbersOK' /\ \A r \in tJob' : RowOK(r)'
  <2>1. \A r \in tJob' : \E i \in tJob : Like(r, i)
    BY <1>1, <1>2 DEF Like
  <2>2. \A i, r \in tJob' : i.uJob = r.uJob => i = r
    BY <1>1, <1>2 DEF Like, IndType, JobsOK, NumbersOK
  <2> QED
    BY <2>1, <2>2, FewerRows DEF Returns
<1>4. \A m \in Nodes : RunOK(m)'
  <2> SUFFICES ASSUME NEW m \in Nodes PROVE RunOK(m)'
    OBVIOUS
  <2>1. RunOK(m)
    BY DEF IndType, JobsOK
  <2>2. CASE m = n
    BY <1>1, <1>2, <2>1, <2>2 DEF RunOK, Returns, RunIs, After
  <2>3. CASE m # n
    BY <1>1, <1>2, <2>1, <2>3 DEF RunOK, Returns, RunIs
  <2> QED
    BY <2>2, <2>3
<1>5. RunningInHand'
  <2> SUFFICES ASSUME NEW r \in tJob', r.uJobStatus = "RUNNING" PROVE run'[r.uNode].cur = {r}
    BY DEF RunningInHand
  <2>1. r \in tJob /\ r # j /\ run[r.uNode].cur = {r} /\ r.uNode \in Nodes
    BY <1>2, RowsTyped DEF IndType, JobsOK, RunningInHand
  <2>2. r.uNode # n
    BY <1>1, <2>1
  <2> QED
    BY <2>1, <2>2 DEF Returns, RunIs
<1>6. (\A s \in Sessions : IsOpen(s) => PageOK(s))'
  BY SamePages DEF Returns
<1> QED
  BY <1>3, <1>4, <1>5, <1>6 DEF JobsOK

LEMMA TakeJobs ==
  ASSUME IndType, Grows, NEW n \in Nodes, NEW j, NEW q, Takes(n, j, q)
  PROVE  JobsOK'
<1>1. /\ j \in tJob /\ j.uNode = n /\ j.uJobStatus = "WAITING" /\ run[n].cur = {}
      /\ tJob' = (tJob \ {j}) \cup {q} /\ Like(q, j) /\ q.uJobStatus = "RUNNING"
  BY DEF Takes, Turned, IndType, JobsOK, RunOK
<1>2. j.name \in JobNames /\ q.name = j.name /\ q.uNode = n
  BY <1>1, RowsTyped DEF IndType, Like
<1>3. NumbersOK' /\ \A r \in tJob' : RowOK(r)'
  <2>1. \A r \in tJob' : \E i \in tJob : Like(r, i)
    BY <1>1 DEF Like
  <2>2. \A i, r \in tJob' : i.uJob = r.uJob => i = r
    BY <1>1 DEF Like, IndType, JobsOK, NumbersOK
  <2> QED
    BY <2>1, <2>2, FewerRows DEF Takes
<1>4. \A m \in Nodes : RunOK(m)'
  <2> SUFFICES ASSUME NEW m \in Nodes PROVE RunOK(m)'
    OBVIOUS
  <2>1. RunOK(m)
    BY DEF IndType, JobsOK
  <2>2. CASE m = n
    <3>1. FirstPoint(j.name) \in PointsOf(q.name) \ Idlers
      BY <1>2 DEF FirstPoint, PointsOf, Idlers, JobNames
    <3>2. \A k \in run'[n].rows : k \in run[n].rows /\ k # j.uJob
      BY DEF Takes, RunIs
    <3>3. \A k \in run'[n].rows : \E r \in tJob' : r.uJob = k /\ r.uNode = n /\ r.uJobStatus = "WAITING"
      BY <1>1, <2>1, <2>2, <3>2 DEF RunOK
    <3>4. q \in tJob' /\ run'[n].cur = {q} /\ run'[n].pc = FirstPoint(j.name)
      BY <1>1 DEF Takes, RunIs
    <3> QED
      BY <1>1, <1>2, <2>2, <3>1, <3>3, <3>4 DEF RunOK, Idlers
  <2>3. CASE m # n
    BY <1>1, <2>1, <2>3 DEF RunOK, Takes, RunIs
  <2> QED
    BY <2>2, <2>3
<1>5. RunningInHand'
  <2> SUFFICES ASSUME NEW r \in tJob', r.uJobStatus = "RUNNING" PROVE run'[r.uNode].cur = {r}
    BY DEF RunningInHand
  <2>1. CASE r = q
    BY <1>2, <2>1 DEF Takes, RunIs
  <2>2. CASE r # q
    <3>1. r \in tJob /\ run[r.uNode].cur = {r} /\ r.uNode \in Nodes
      BY <1>1, <2>2, RowsTyped DEF IndType, JobsOK, RunningInHand
    <3> QED
      BY <1>1, <3>1 DEF Takes, RunIs
  <2> QED
    BY <2>1, <2>2
<1>6. (\A s \in Sessions : IsOpen(s) => PageOK(s))'
  BY SamePages DEF Takes
<1> QED
  BY <1>3, <1>4, <1>5, <1>6 DEF JobsOK

LEMMA SelectJobs ==
  ASSUME IndType, Grows, NEW n \in Nodes, Select(n)
  PROVE  JobsOK'
<1>1. RunIs(n, "loop", {r.uJob : r \in Waiting(n)}, {}, run[n].new)
  BY SelectEffect
<1>2. tJob' = tJob /\ page' = page /\ run[n].cur = {}
  BY DEF Select, IndType, JobsOK, RunOK
<1>3. NumbersOK' /\ \A q \in tJob' : RowOK(q)'
  <2>1. /\ \A q \in tJob' : \E r \in tJob : Like(q, r)
        /\ \A q, r \in tJob' : q.uJob = r.uJob => q = r
    BY <1>2 DEF Like, IndType, JobsOK, NumbersOK
  <2> QED
    BY <1>2, <2>1, FewerRows
<1>4. \A m \in Nodes : RunOK(m)'
  <2> SUFFICES ASSUME NEW m \in Nodes PROVE RunOK(m)'
    OBVIOUS
  <2>1. RunOK(m)
    BY DEF IndType, JobsOK
  <2>2. CASE m = n
    BY <1>1, <1>2, <2>2 DEF RunOK, RunIs, Waiting
  <2>3. CASE m # n
    BY <1>1, <1>2, <2>1, <2>3 DEF RunOK, RunIs
  <2> QED
    BY <2>2, <2>3
<1>5. RunningInHand'
  BY <1>1, <1>2, RowsTyped DEF RunningInHand, RunIs, IndType, JobsOK
<1> QED
  BY <1>2, <1>3, <1>4, <1>5, SamePages DEF JobsOK

\* The numbers of two pages' rows do not meet.
LEMMA Apart ==
  ASSUME NEW a \in Nat, NEW b \in Nat, a < b
  PROVE  /\ \A u \in Nat : u <= 3 * a + 2 => u < 3 * b
         /\ \A u \in Nat : u >= 3 * b => u > 3 * a + 2
<1>1. a + 1 <= b
  OBVIOUS
<1>2. 3 * a + 3 <= 3 * b
  BY <1>1
<1> QED
  BY <1>2

LEMMA InsertJobs ==
  ASSUME IndType, Grows, NEW s \in Sessions, NEW new, Inserts(s, new),
         \A r \in new : RowOK(r)'
  PROVE  JobsOK'
<1>1. /\ tJob' = tJob \cup new /\ run' = run /\ events' = events
      /\ \A t \in Sessions : IsOpen(t)' => t # s /\ IsOpen(t) /\ page'[t] = page[t]
  BY DEF Inserts, IsOpen
<1>2. /\ IsOpen(s) /\ page[s].number \in Nat /\ page[s].number <= events /\ events \in Nat
  BY OpenPage DEF Inserts, IndType, JobsOK, NumbersOK, Grows
<1>3. \A r \in new : /\ r.uJob \in Nat /\ r.uJob >= 3 * page[s].number
                     /\ r.uJob <= 3 * page[s].number + 2
                     /\ r.uJobStatus = "WAITING"
  BY RowType DEF Inserts, FromPage
<1>4. \A r \in tJob : r.uJob < 3 * page[s].number \/ r.uJob > 3 * page[s].number + 2
  BY <1>2 DEF IndType, JobsOK, NumbersOK
<1>5. NumbersOK
  BY DEF IndType, JobsOK
<1>6. \A r \in tJob' : r.uJob <= 3 * events' + 2
  BY <1>1, <1>2, <1>3, <1>5 DEF NumbersOK
<1>7. \A q, r \in tJob' : q.uJob = r.uJob => q = r
  <2> SUFFICES ASSUME NEW q \in tJob', NEW r \in tJob', q.uJob = r.uJob PROVE q = r
    OBVIOUS
  <2>1. q \in tJob \cup new /\ r \in tJob \cup new
    BY <1>1
  <2>2. CASE q \in tJob /\ r \in tJob
    BY <1>5, <2>2 DEF NumbersOK
  <2>3. CASE q \in new /\ r \in new
    BY <2>3 DEF Inserts
  <2>4. CASE (q \in tJob /\ r \in new) \/ (q \in new /\ r \in tJob)
    BY <1>2, <1>3, <1>4, <2>4
  <2> QED
    BY <2>1, <2>2, <2>3, <2>4
<1>8. \A t \in Sessions, r \in tJob' : IsOpen(t)' => r.uJob < 3 * page'[t].number
                                                    \/ r.uJob > 3 * page'[t].number + 2
  <2> SUFFICES ASSUME NEW t \in Sessions, NEW r \in tJob', IsOpen(t)'
               PROVE  r.uJob < 3 * page[t].number \/ r.uJob > 3 * page[t].number + 2
    BY <1>1
  <2>1. t # s /\ IsOpen(t) /\ page[t].number \in Nat /\ page[t].number # page[s].number
    BY <1>1, <1>2, <1>5, OpenPage DEF NumbersOK, IndType
  <2>2. CASE r \in tJob
    BY <1>5, <2>1, <2>2 DEF NumbersOK
  <2>3. CASE r \in new
    <3> DEFINE a == page[s].number
               b == page[t].number
               u == r.uJob
    <3>1. a \in Nat /\ b \in Nat /\ u \in Nat /\ a # b /\ u >= 3 * a /\ u <= 3 * a + 2
      BY <1>2, <1>3, <2>1, <2>3
    <3> SUFFICES u < 3 * b \/ u > 3 * b + 2
      OBVIOUS
    <3> HIDE DEF a, b, u
    <3>2. CASE b < a
      BY <3>1, <3>2, Apart
    <3>3. CASE a < b
      BY <3>1, <3>3, Apart
    <3> QED
      BY <3>1, <3>2, <3>3
  <2> QED
    BY <1>1, <2>2, <2>3
<1>9. NumbersOK'
  <2>1. \A t \in Sessions : IsOpen(t)' => page'[t].number <= events'
    BY <1>1, <1>5 DEF NumbersOK
  <2>2. \A t, u \in Sessions : IsOpen(t)' /\ IsOpen(u)' /\ page'[t].number = page'[u].number => t = u
    BY <1>1, <1>5 DEF NumbersOK
  <2> QED
    BY <1>6, <1>7, <1>8, <2>1, <2>2 DEF NumbersOK
<1>10. \A m \in Nodes : RunOK(m)'
  <2> SUFFICES ASSUME NEW m \in Nodes PROVE RunOK(m)'
    OBVIOUS
  <2>1. RunOK(m)
    BY DEF IndType, JobsOK
  <2> QED
    BY <1>1, <2>1 DEF RunOK
<1>11. RunningInHand'
  BY <1>1, <1>3 DEF RunningInHand, IndType, JobsOK
<1>12. (\A t \in Sessions : IsOpen(t) => PageOK(t))'
  BY <1>1 DEF PageOK, IndType, JobsOK
<1>13. \A r \in tJob' : RowOK(r)'
  BY <1>1, RowsTyped DEF RowOK, IndType, JobsOK, Grows
<1> QED
  BY <1>9, <1>10, <1>11, <1>12, <1>13 DEF JobsOK

LEMMA Advance ==
  ASSUME IndType, NEW n \in Nodes, NEW p \in Points, Goes(n, p), run[n].pc \notin Idlers,
         p \notin Idlers, p \in PointsOf(Cur(n).name), tJob' = tJob, page' = page
  PROVE  Advances(n, p, run[n].new)
  BY GoesEffect DEF Advances, IndType

LEMMA CheckEffect ==
  ASSUME IndType, NEW n \in Nodes, Check(n)
  PROVE  \/ \E p \in {"swapread", "others"} : Advances(n, p, run[n].new)
         \/ \E q \in Rows : Returns(n, q)
<1>1. /\ run[n].pc = "check" /\ page' = page
      /\ \/ /\ Goes(n, IF Cur(n).name = "SwapIP" THEN "swapread" ELSE "others")
            /\ tJob' = tJob
         \/ WaitAgain(n)
  BY DEF Check
<1>2. run[n].pc \notin Idlers /\ Cur(n).name \in {"SwapIP", "ChangeIP", "ChangeHostname"}
  BY <1>1, InHand DEF Idlers, PointsOf, JobNames
<1>3. CASE WaitAgain(n)
  BY <1>1, <1>2, <1>3, WaitAgainEffect DEF Returns, Idlers
<1>4. ASSUME Goes(n, IF Cur(n).name = "SwapIP" THEN "swapread" ELSE "others"), tJob' = tJob
      PROVE  \E p \in {"swapread", "others"} : Advances(n, p, run[n].new)
  <2> DEFINE p == IF Cur(n).name = "SwapIP" THEN "swapread" ELSE "others"
  <2>1. p \in {"swapread", "others"} /\ p \in Points /\ p \notin Idlers /\ p \in PointsOf(Cur(n).name)
    BY <1>2 DEF Points, Idlers, PointsOf
  <2>2. Goes(n, p)
    BY <1>4
  <2> HIDE DEF p
  <2>3. Advances(n, p, run[n].new)
    BY <1>1, <1>2, <1>4, <2>1, <2>2, Advance
  <2> QED
    BY <2>1, <2>3
<1> QED
  BY <1>1, <1>3, <1>4

LEMMA CheckOthersEffect ==
  ASSUME IndType, NEW n \in Nodes, CheckOthers(n)
  PROVE  /\ run[n].pc = "others"
         /\ \/ /\ Others(n) = {} /\ Cur(n).name = "ChangeIP" /\ Advances(n, "read", run[n].new)
            \/ Cur(n).name # "ChangeIP" /\ Advances(n, "name", run[n].new)
            \/ \E q \in Rows : Returns(n, q)
<1>1. /\ run[n].pc = "others" /\ page' = page
      /\ IF Others(n) = {}
         THEN Goes(n, IF Cur(n).name = "ChangeIP" THEN "read" ELSE "name") /\ tJob' = tJob
         ELSE WaitAgain(n)
  BY DEF CheckOthers
<1>2. run[n].pc \notin Idlers /\ Cur(n).name \in {"ChangeIP", "ChangeHostname"}
  BY <1>1, InHand DEF Idlers, PointsOf, JobNames
<1>3. CASE Others(n) # {}
  BY <1>1, <1>2, <1>3, WaitAgainEffect DEF Returns, Idlers
<1>4. CASE Others(n) = {} /\ Cur(n).name = "ChangeIP"
  <2>1. "read" \in Points /\ "read" \notin Idlers /\ "read" \in PointsOf(Cur(n).name)
    BY <1>4 DEF Points, Idlers, PointsOf
  <2>2. Advances(n, "read", run[n].new)
    BY <1>1, <1>2, <1>4, <2>1, Advance
  <2> QED
    BY <1>1, <1>4, <2>2
<1>5. CASE Others(n) = {} /\ Cur(n).name = "ChangeHostname"
  <2>1. "name" \in Points /\ "name" \notin Idlers /\ "name" \in PointsOf(Cur(n).name)
    BY <1>5 DEF Points, Idlers, PointsOf
  <2>2. Advances(n, "name", run[n].new)
    BY <1>1, <1>2, <1>5, <2>1, Advance
  <2> QED
    BY <1>1, <1>5, <2>2
<1> QED
  BY <1>2, <1>3, <1>4, <1>5

\* The steps of the job for an address.
LEMMA AddressSteps ==
  ASSUME IndType, NEW n \in Nodes
  PROVE  /\ Read(n) => /\ run[n].pc = "read" /\ Cur(n).name = "ChangeIP"
                       /\ Advances(n, "ipadd", {tContainer[Cur(n).c].uIPv4})
         /\ IpAdd(n) => /\ run[n].pc = "ipadd" /\ Cur(n).name = "ChangeIP"
                        /\ Advances(n, "ipdel", run[n].new)
         /\ IpDel(n) => /\ run[n].pc = "ipdel" /\ Cur(n).name = "ChangeIP"
                        /\ Advances(n, "release", run[n].new)
         /\ Release(n) => /\ run[n].pc = "release" /\ Cur(n).name = "ChangeIP"
                          /\ Advances(n, "status", run[n].new)
<1>1. ASSUME Read(n)
      PROVE  /\ run[n].pc = "read" /\ Cur(n).name = "ChangeIP"
             /\ Advances(n, "ipadd", {tContainer[Cur(n).c].uIPv4})
  <2>1. RunIs(n, "ipadd", run[n].rows, run[n].cur, {tContainer[Cur(n).c].uIPv4})
    BY <1>1, ReadEffect
  <2>2. run[n].pc = "read" /\ Cur(n).name = "ChangeIP" /\ tJob' = tJob /\ page' = page
    BY <1>1 DEF Read, At, Rest
  <2> QED
    BY <2>1, <2>2 DEF Advances, Idlers, PointsOf
<1>2. ASSUME IpAdd(n)
      PROVE  run[n].pc = "ipadd" /\ Cur(n).name = "ChangeIP" /\ Advances(n, "ipdel", run[n].new)
  <2>1. /\ run[n].pc = "ipadd" /\ Cur(n).name = "ChangeIP" /\ tJob' = tJob /\ page' = page
        /\ Goes(n, "ipdel")
    BY <1>2 DEF IpAdd, Steps, At, Rest
  <2> QED
    BY <2>1, Advance DEF Points, Idlers, PointsOf
<1>3. ASSUME IpDel(n)
      PROVE  run[n].pc = "ipdel" /\ Cur(n).name = "ChangeIP" /\ Advances(n, "release", run[n].new)
  <2>1. /\ run[n].pc = "ipdel" /\ Cur(n).name = "ChangeIP" /\ tJob' = tJob /\ page' = page
        /\ Goes(n, "release")
    BY <1>3 DEF IpDel, Steps, At, Rest
  <2> QED
    BY <2>1, Advance DEF Points, Idlers, PointsOf
<1>4. ASSUME Release(n)
      PROVE  run[n].pc = "release" /\ Cur(n).name = "ChangeIP" /\ Advances(n, "status", run[n].new)
  <2>1. /\ run[n].pc = "release" /\ Cur(n).name = "ChangeIP" /\ tJob' = tJob /\ page' = page
        /\ Goes(n, "status")
    BY <1>4 DEF Release, Steps, At, Rest
  <2> QED
    BY <2>1, Advance DEF Points, Idlers, PointsOf
<1> QED
  BY <1>1, <1>2, <1>3, <1>4

\* Those of a name, of a migration and of an exchange.
LEMMA OtherSteps ==
  ASSUME IndType, NEW n \in Nodes
  PROVE  /\ Name(n) => Cur(n).name = "ChangeHostname" /\ Advances(n, "status", run[n].new)
         /\ Move(n) => /\ run[n].pc = "moving" /\ Cur(n).name = "Migrate"
                       /\ Advances(n, "status", run[n].new)
         /\ SwapRead(n) => /\ Cur(n).name = "SwapIP"
                           /\ \E W \in SUBSET Addresses : Advances(n, "swapdel", W)
         /\ SwapStep(n) => /\ Cur(n).name = "SwapIP"
                           /\ \E p \in {"swapdel2", "swapadd", "swapadd2", "status"} :
                                 Advances(n, p, run[n].new)
         /\ SetStatus(n) => /\ run[n].pc = "status"
                            /\ Advances(n, IF Cur(n).name = "Migrate" THEN "node" ELSE "done", run[n].new)
         /\ SetNode(n) => /\ run[n].pc = "node" /\ Cur(n).name = "Migrate"
                          /\ Advances(n, "done", run[n].new)
         /\ Die(n) => Advances(n, "dead", run[n].new)
<1>1. ASSUME Name(n)
      PROVE  Cur(n).name = "ChangeHostname" /\ Advances(n, "status", run[n].new)
  <2>1. /\ run[n].pc = "name" /\ Cur(n).name = "ChangeHostname" /\ tJob' = tJob /\ page' = page
        /\ Goes(n, "status")
    BY <1>1 DEF Name, Steps, At, Rest
  <2> QED
    BY <2>1, Advance DEF Points, Idlers, PointsOf
<1>2. ASSUME Move(n)
      PROVE  run[n].pc = "moving" /\ Cur(n).name = "Migrate" /\ Advances(n, "status", run[n].new)
  <2>1. /\ run[n].pc = "moving" /\ Cur(n).name = "Migrate" /\ tJob' = tJob /\ page' = page
        /\ Goes(n, "status")
    BY <1>2 DEF Move, Steps, At
  <2> QED
    BY <2>1, Advance DEF Points, Idlers, PointsOf
<1>3. ASSUME SwapRead(n)
      PROVE  Cur(n).name = "SwapIP" /\ \E W \in SUBSET Addresses : Advances(n, "swapdel", W)
  <2>1. PICK W \in SUBSET Addresses : RunIs(n, "swapdel", run[n].rows, run[n].cur, W)
    BY <1>3, SwapReadEffect
  <2>2. run[n].pc = "swapread" /\ Cur(n).name = "SwapIP" /\ tJob' = tJob /\ page' = page
    BY <1>3 DEF SwapRead, At, Rest
  <2>3. Advances(n, "swapdel", W)
    BY <2>1, <2>2 DEF Advances, Idlers, PointsOf
  <2> QED
    BY <2>2, <2>3
<1>4. ASSUME SwapStep(n)
      PROVE  /\ Cur(n).name = "SwapIP"
             /\ \E p \in {"swapdel2", "swapadd", "swapadd2", "status"} : Advances(n, p, run[n].new)
  <2>1. /\ run[n].pc \in {"swapdel", "swapdel2", "swapadd", "swapadd2"}
        /\ \E p \in {"swapdel2", "swapadd", "swapadd2", "status"} : Goes(n, p)
        /\ tJob' = tJob /\ page' = page
    BY <1>4 DEF SwapStep, Rest
  <2>2. Cur(n).name = "SwapIP"
    BY <2>1, InHand DEF PointsOf, JobNames
  <2>3. PICK p \in {"swapdel2", "swapadd", "swapadd2", "status"} : Goes(n, p)
    BY <2>1
  <2>4. p \in Points /\ p \notin Idlers /\ p \in PointsOf(Cur(n).name) /\ run[n].pc \notin Idlers
    BY <2>1, <2>2 DEF Points, Idlers, PointsOf
  <2>5. Advances(n, p, run[n].new)
    BY <2>1, <2>3, <2>4, Advance
  <2> QED
    BY <2>2, <2>5
<1>5. ASSUME SetStatus(n)
      PROVE  /\ run[n].pc = "status"
             /\ Advances(n, IF Cur(n).name = "Migrate" THEN "node" ELSE "done", run[n].new)
  <2> DEFINE p == IF Cur(n).name = "Migrate" THEN "node" ELSE "done"
  <2>1. run[n].pc = "status" /\ tJob' = tJob /\ page' = page /\ Goes(n, p)
    BY <1>5 DEF SetStatus, Rest
  <2>2. Cur(n).name \in JobNames
    BY <2>1, InHand
  <2>3. p \in Points /\ p \notin Idlers /\ p \in PointsOf(Cur(n).name) /\ run[n].pc \notin Idlers
    BY <2>1, <2>2 DEF Points, Idlers, PointsOf, JobNames
  <2> HIDE DEF p
  <2>4. Advances(n, p, run[n].new)
    BY <2>1, <2>3, Advance
  <2> QED
    BY <2>1, <2>4 DEF p
<1>6. ASSUME SetNode(n)
      PROVE  run[n].pc = "node" /\ Cur(n).name = "Migrate" /\ Advances(n, "done", run[n].new)
  <2>1. /\ run[n].pc = "node" /\ Cur(n).name = "Migrate" /\ tJob' = tJob /\ page' = page
        /\ Goes(n, "done")
    BY <1>6 DEF SetNode, Steps, At, Rest
  <2> QED
    BY <2>1, Advance DEF Points, Idlers, PointsOf
<1>7. ASSUME Die(n)
      PROVE  Advances(n, "dead", run[n].new)
  <2>1. tJob' = tJob /\ page' = page /\ Goes(n, "dead") /\ run[n].cur # {}
    BY <1>7 DEF Die
  <2>2. run[n].pc \notin Idlers
    BY <2>1 DEF IndType, JobsOK, RunOK, Idlers
  <2>3. Cur(n).name \in JobNames
    BY <2>2, InHand DEF Idlers
  <2>4. "dead" \in Points /\ "dead" \notin Idlers /\ "dead" \in PointsOf(Cur(n).name)
    BY <2>3 DEF Points, Idlers, PointsOf, JobNames
  <2> QED
    BY <2>1, <2>2, <2>4, Advance
<1> QED
  BY <1>1, <1>2, <1>3, <1>4, <1>5, <1>6, <1>7

LEMMA EndSteps ==
  ASSUME IndType, NEW n \in Nodes, JobDone(n) \/ Fail(n) \/ Gone(n)
  PROVE  Drops(n)
<1>1. Ends(n, tJob \ {Cur(n)}) /\ page' = page
  BY Zenon DEF JobDone, Fail, Gone
<1>2. run[n].pc \notin Idlers
  BY DEF JobDone, Fail, Gone, Idlers, CanFail, At
<1> QED
  BY <1>1, <1>2, EndsEffect DEF Drops, IndType

LEMMA BeginTakes ==
  ASSUME IndType, NEW n \in Nodes, Begin(n)
  PROVE  \E r, q \in Rows : Takes(n, r, q)
<1>1. run[n].pc = "loop" /\ page' = page
  BY DEF Begin
<1> QED
  BY <1>1, BeginEffect DEF Takes

LEMMA EventsGrow ==
  ASSUME TypeOK
  PROVE  /\ events \in Nat
         /\ Count => events' \in 0 .. MaxEvent /\ events' \in Nat /\ events' = events + 1
  BY DEF TypeOK, Count

\* A page compares, and remembers what it compared.
LEMMA ConfirmStep ==
  ASSUME IndType, NEW s \in Sessions, Confirm(s)
  PROVE  IndType'
<1>0. PICK c \in Containers :
        /\ Ready(c)
        /\ \E op \in Operations, t \in Nodes, ip \in Addresses, d \in Containers :
            /\ Allowed(op, c, t, ip, d)
            /\ page' = [page EXCEPT ![s] =
                    [op |-> op, c |-> c, node |-> Node(c), uIPv4 |-> tContainer[c].uIPv4,
                     uStatus |-> tContainer[c].uStatus, target |-> t, ip |-> ip, with |-> d,
                     number |-> events']]
  BY DEF Confirm
<1>1. PICK op \in Operations, t \in Nodes, ip \in Addresses, d \in Containers :
            /\ Allowed(op, c, t, ip, d)
            /\ page' = [page EXCEPT ![s] =
                    [op |-> op, c |-> c, node |-> Node(c), uIPv4 |-> tContainer[c].uIPv4,
                     uStatus |-> tContainer[c].uStatus, target |-> t, ip |-> ip, with |-> d,
                     number |-> events']]
  BY <1>0
<1> DEFINE x == [op |-> op, c |-> c, node |-> Node(c), uIPv4 |-> tContainer[c].uIPv4,
                 uStatus |-> tContainer[c].uStatus, target |-> t, ip |-> ip, with |-> d,
                 number |-> events']
<1>2. /\ page' = [page EXCEPT ![s] = x] /\ page[s] = NoPage
      /\ UNCHANGED <<tContainer, available, place, ips, tJob, run, doubt>>
  BY <1>1 DEF Confirm
<1>3. events \in Nat /\ events' \in 0 .. MaxEvent /\ events' \in Nat /\ events' = events + 1
  BY EventsGrow DEF Confirm, IndType
<1>4. events' \in 1 .. MaxEvent
  BY <1>3
<1>5. Node(c) \in Nodes /\ tContainer[c].uIPv4 \in Addresses /\ tContainer[c].uStatus \in Settled
  BY <1>0, RecordFields DEF IndType, Ready
<1>6. /\ x \in Pages /\ x.op = op /\ x.node = Node(c) /\ x.target = t /\ x.ip = ip
      /\ x.number = events'
  BY <1>4, <1>5 DEF Pages
<1> HIDE DEF x
<1>7. /\ page' \in [Sessions -> Pages] /\ page'[s] = x
      /\ \A u \in Sessions : u # s => page'[u] = page[u]
  BY <1>2, <1>6 DEF IndType, TypeOK
<1>8. TypeOK'
  BY <1>2, <1>3, <1>7 DEF IndType, TypeOK
<1>9. NumbersOK'
  <2>1. NumbersOK
    BY DEF IndType, JobsOK
  <2>2. \A r \in tJob : r.uJob \in Nat /\ r.uJob <= 3 * events + 2
    BY <2>1, RowsTyped DEF NumbersOK, IndType
  <2>3. \A r \in tJob : r.uJob < 3 * events'
    BY <1>3, <2>2
  <2>4. \A u \in Sessions : u # s /\ IsOpen(u) =>
            page[u].number <= events /\ page[u].number \in Nat
    BY <2>1, OpenPage DEF NumbersOK, IndType
  <2>5. \A r \in tJob' : r.uJob <= 3 * events' + 2
    BY <1>2, <1>3, <2>2
  <2>6. \A q, r \in tJob' : q.uJob = r.uJob => q = r
    BY <1>2, <2>1 DEF NumbersOK
  <2>7. \A u \in Sessions : IsOpen(u)' => page'[u].number <= events'
    <3> SUFFICES ASSUME NEW u \in Sessions, IsOpen(u)' PROVE page'[u].number <= events'
      OBVIOUS
    <3>1. CASE u = s
      BY <1>3, <1>6, <1>7, <3>1
    <3>2. CASE u # s
      BY <1>3, <1>7, <2>4, <3>2 DEF IsOpen
    <3> QED
      BY <3>1, <3>2
  <2>8. \A u \in Sessions, r \in tJob' : IsOpen(u)' => r.uJob < 3 * page'[u].number
                                                      \/ r.uJob > 3 * page'[u].number + 2
    <3> SUFFICES ASSUME NEW u \in Sessions, NEW r \in tJob, IsOpen(u)'
                 PROVE  r.uJob < 3 * page'[u].number \/ r.uJob > 3 * page'[u].number + 2
      BY <1>2
    <3>1. CASE u = s
      BY <1>6, <1>7, <2>3, <3>1
    <3>2. CASE u # s
      BY <1>7, <2>1, <3>2 DEF IsOpen, NumbersOK
    <3> QED
      BY <3>1, <3>2
  <2>9. \A u, v \in Sessions : IsOpen(u)' /\ IsOpen(v)' /\ page'[u].number = page'[v].number => u = v
    <3> SUFFICES ASSUME NEW u \in Sessions, NEW v \in Sessions, IsOpen(u)', IsOpen(v)', u # v
                 PROVE  page'[u].number # page'[v].number
      OBVIOUS
    <3>1. CASE u # s /\ v # s
      BY <1>7, <2>1, <3>1 DEF IsOpen, NumbersOK
    <3>2. CASE u = s
      BY <1>3, <1>6, <1>7, <2>4, <3>2 DEF IsOpen
    <3>3. CASE v = s
      BY <1>3, <1>6, <1>7, <2>4, <3>3 DEF IsOpen
    <3> QED
      BY <3>1, <3>2, <3>3
  <2> QED
    BY <2>5, <2>6, <2>7, <2>8, <2>9 DEF NumbersOK
<1>10. (\A u \in Sessions : IsOpen(u) => PageOK(u))'
  <2> SUFFICES ASSUME NEW u \in Sessions, IsOpen(u)' PROVE PageOK(u)'
    OBVIOUS
  <2>1. CASE u = s
    BY <1>6, <1>7, <1>1, <2>1 DEF PageOK, Allowed
  <2>2. CASE u # s
    BY <1>7, <2>2 DEF PageOK, IsOpen, IndType, JobsOK
  <2> QED
    BY <2>1, <2>2
<1>11. (\A m \in Nodes : RunOK(m))' /\ RunningInHand' /\ (\A r \in tJob : RowOK(r))'
  BY <1>2 DEF IndType, JobsOK, RunOK, RunningInHand, RowOK
<1> QED
  BY <1>8, <1>9, <1>10, <1>11 DEF IndType, JobsOK

LEMMA InsertType ==
  ASSUME IndType, NEW s \in Sessions, NEW new, Inserts(s, new), available' \subseteq Addresses,
         \A r \in new : r.name = "SwapIP" => page[s].op = "swap" /\ r.c \in {page[s].c, page[s].with},
         page[s].op = "swap" => "swap" \in doubt'[page[s].c] /\ "swap" \in doubt'[page[s].with],
         \A r \in new : r.name = "Migrate" => r.target # r.uNode
  PROVE  IndType'
<1>1. Grows
  BY EventsGrow DEF Inserts, Grows, IndType
<1>2. \A r \in new : RowOK(r)'
  BY DEF RowOK, Inserts, FromPage
<1>3. JobsOK'
  BY <1>1, <1>2, InsertJobs
<1>4. TypeOK'
  <2>1. tJob' \subseteq Rows
    BY DEF Inserts, FromPage, IndType, TypeOK
  <2> QED
    BY <2>1 DEF Inserts, IndType, TypeOK, RecordType
<1> QED
  BY <1>3, <1>4 DEF IndType

LEMMA PageStep ==
  ASSUME IndType, NEW s \in Sessions, Acts(s)
  PROVE  IndType'
<1>0. available \subseteq Addresses
  BY DEF IndType, TypeOK
<1>1. CASE MigrateContainer(s)
  <2>1. PICK r \in Rows :
            /\ Inserts(s, {r}) /\ page[s].op = "migration"
            /\ r.name = "Migrate" /\ r.c = page[s].c /\ r.uNode = page[s].node
            /\ available' = available
    BY <1>1, MigrateEffect
  <2>2. r.target # r.uNode
    BY <2>1 DEF Inserts, FromPage, IndType, JobsOK, PageOK
  <2> QED
    BY <1>0, <2>1, <2>2, InsertType
<1>2. CASE RemoteMigration(s)
  <2>1. PICK r \in Rows, q \in Rows, h \in SUBSET Rows :
            /\ Inserts(s, {r, q} \cup h) /\ page[s].op = "remote"
            /\ r.name = "Migrate" /\ r.c = page[s].c /\ r.uNode = page[s].node
            /\ q.name = "ChangeIP" /\ q.c = page[s].c /\ q.uNode = page[s].target
            /\ q.old = page[s].uIPv4
            /\ \A k \in h : k.name = "ChangeHostname" /\ k.c = page[s].c
                            /\ k.uNode = page[s].target
            /\ OneAddress(page[s].c, page[s].ip) /\ available' = available \ {page[s].ip}
    BY <1>2, RemoteEffect
  <2>2. r.target # r.uNode
    BY <2>1 DEF Inserts, FromPage, IndType, JobsOK, PageOK
  <2> QED
    BY <1>0, <2>1, <2>2, InsertType
<1>3. CASE HostnameChange(s)
  <2>1. PICK r \in Rows :
            /\ Inserts(s, {r}) /\ page[s].op = "hostname"
            /\ r.name = "ChangeHostname" /\ available' = available
    BY <1>3, HostnameEffect
  <2> QED
    BY <1>0, <2>1, InsertType
<1>4. CASE IPChange(s)
  <2>1. PICK r \in Rows :
            /\ Inserts(s, {r}) /\ page[s].op = "ip"
            /\ r.name = "ChangeIP" /\ available' = available \ {page[s].ip}
    BY <1>4, IPEffect
  <2> QED
    BY <1>0, <2>1, InsertType
<1>5. CASE Swap(s)
  <2>1. PICK new \in SUBSET Rows :
            /\ Inserts(s, new) /\ page[s].op = "swap"
            /\ "swap" \in doubt'[page[s].c] /\ "swap" \in doubt'[page[s].with]
            /\ \A r \in new : /\ r.name \in {"ChangeIP", "SwapIP"}
                              /\ r.c \in {page[s].c, page[s].with}
            /\ available' = available
    BY <1>5, SwapEffect
  <2> QED
    BY <1>0, <2>1, InsertType
<1> QED
  BY <1>1, <1>2, <1>3, <1>4, <1>5 DEF Acts

\* A step of a runner
Kind(n) == \/ Select(n)
           \/ \E p, W : Advances(n, p, W)
           \/ Drops(n)
           \/ \E q \in Rows : Returns(n, q)
           \/ \E r, q \in Rows : Takes(n, r, q)

LEMMA KindType ==
  ASSUME IndType, Grows, NEW n \in Nodes, Kind(n)
  PROVE  JobsOK' /\ run' \in [Nodes -> Runners] /\ tJob' \subseteq Rows /\ page' = page
<1> USE DEF IndType
<1>1. tJob \subseteq Rows
  BY DEF TypeOK
<1>2. CASE Select(n)
  <2>1. RunIs(n, "loop", {r.uJob : r \in Waiting(n)}, {}, run[n].new)
    BY <1>2, SelectEffect
  <2>2. tJob' = tJob /\ page' = page
    BY <1>2 DEF Select
  <2> QED
    BY <1>1, <1>2, <2>1, <2>2, SelectJobs DEF RunIs
<1>3. CASE \E p, W : Advances(n, p, W)
  <2>1. PICK p, W : Advances(n, p, W)
    BY <1>3
  <2> QED
    BY <1>1, <2>1, AdvanceJobs DEF Advances, RunIs
<1>4. CASE Drops(n)
  BY <1>1, <1>4, DropJobs DEF Drops, RunIs
<1>5. CASE \E q \in Rows : Returns(n, q)
  <2>1. PICK q \in Rows : Returns(n, q)
    BY <1>5
  <2> QED
    BY <1>1, <2>1, ReturnJobs DEF Returns, RunIs, Turned
<1>6. CASE \E r, q \in Rows : Takes(n, r, q)
  <2>1. PICK r \in Rows, q \in Rows : Takes(n, r, q)
    BY <1>6
  <2> QED
    BY <1>1, <2>1, TakeJobs DEF Takes, RunIs, Turned
<1> QED
  BY <1>2, <1>3, <1>4, <1>5, <1>6 DEF Kind

LEMMA RunnerKind ==
  ASSUME IndType, NEW n \in Nodes, Proceed(n) \/ Fail(n) \/ Die(n)
  PROVE  Kind(n)
<1>1. CASE Select(n) \/ Begin(n)
  BY <1>1, BeginTakes DEF Kind
<1>2. CASE Check(n) \/ CheckOthers(n)
  BY <1>2, CheckEffect, CheckOthersEffect DEF Kind
<1>3. CASE Read(n) \/ IpAdd(n) \/ IpDel(n) \/ Release(n)
  BY <1>3, AddressSteps DEF Kind
<1>4. CASE Name(n) \/ Move(n) \/ SwapRead(n) \/ SwapStep(n) \/ SetStatus(n) \/ SetNode(n) \/ Die(n)
  BY <1>4, OtherSteps DEF Kind
<1>5. CASE JobDone(n) \/ Fail(n) \/ Gone(n)
  BY <1>5, EndSteps DEF Kind
<1> QED
  BY <1>1, <1>2, <1>3, <1>4, <1>5 DEF Proceed

\* A step of a runner leaves these alone
Frame == UNCHANGED <<tContainer, available, place, ips, events, doubt>>

LEMMA FrameStep ==
  ASSUME IndType, NEW n \in Nodes, Kind(n), Frame
  PROVE  IndType'
<1>1. Grows
  BY EventsGrow DEF Frame, Grows, IndType
<1> QED
  BY <1>1, KindType DEF Frame, IndType, TypeOK

LEMMA FailedEffect ==
  ASSUME IndType, NEW n \in Nodes, Failed(n)
  PROVE  /\ doubt' \in [Containers -> SUBSET Doubts]
         /\ \A c \in Containers : doubt[c] \subseteq doubt'[c]
<1>1. \A c \in Containers : doubt[c] \subseteq Doubts
  BY DEF IndType, TypeOK
<1> QED
  BY <1>1 DEF Failed, Doubts

LEMMA RunnerStep ==
  ASSUME IndType, NEW n \in Nodes, Proceed(n) \/ Fail(n) \/ Die(n)
  PROVE  IndType'
<1>1. Kind(n)
  BY RunnerKind
<1>2. TypeOK /\ events \in Nat
  BY EventsGrow DEF IndType
<1>3. SUFFICES Grows /\ (run' \in [Nodes -> Runners] /\ tJob' \subseteq Rows /\ page' = page => TypeOK')
  BY <1>1, KindType DEF IndType
<1>4. CASE Select(n) \/ Begin(n) \/ Check(n) \/ CheckOthers(n) \/ JobDone(n)
  <2>1. Frame
    BY <1>4 DEF Select, Begin, Check, CheckOthers, JobDone, Frame, Records
  <2> QED
    BY <1>2, <2>1 DEF Frame, TypeOK, Grows
<1>5. CASE Read(n) \/ Name(n) \/ SwapRead(n)
  <2>1. Frame
    BY <1>5 DEF Read, Name, SwapRead, Frame, Records, Rest
  <2> QED
    BY <1>2, <2>1 DEF Frame, TypeOK, Grows
<1>6. CASE IpAdd(n) \/ IpDel(n)
  <2>1. /\ tContainer' = tContainer /\ available' = available /\ place' = place
        /\ events' = events /\ doubt' = doubt
    BY <1>6 DEF IpAdd, IpDel, Records, Rest
  <2>2. run[n].new \subseteq Addresses
    BY <1>2, RunnerType
  <2>3. ips' \in [Containers -> SUBSET Addresses]
    BY <1>2, <1>6, <2>2 DEF IpAdd, IpDel, TypeOK
  <2> QED
    BY <1>2, <2>1, <2>3 DEF TypeOK, Grows
<1>7. CASE Release(n)
  <2>1. /\ tContainer' = tContainer /\ ips' = ips /\ place' = place
        /\ events' = events /\ doubt' = doubt
    BY <1>7 DEF Release, Rest
  <2>2. /\ run[n].pc = "release"
        /\ available' = IF Cur(n).release THEN available \cup {Cur(n).old} ELSE available
    BY <1>7 DEF Release, Steps, At
  <2>3. Cur(n).old \in Addresses
    BY <2>2, InHand, RowType
  <2> QED
    BY <1>2, <2>1, <2>2, <2>3 DEF TypeOK, Grows
<1>8. CASE Move(n)
  <2> DEFINE w == IF \E r \in RowsOf(Cur(n).c) : r # Cur(n) /\ r.uNode # Cur(n).target
                  THEN {"stray"} ELSE {}
  <2>1. /\ tContainer' = tContainer /\ available' = available /\ ips' = ips /\ events' = events
        /\ place' = [place EXCEPT ![Cur(n).c] = Cur(n).target]
        /\ doubt' = [doubt EXCEPT ![Cur(n).c] = @ \cup w]
        /\ run[n].pc = "moving"
    BY <1>8 DEF Move, Steps, At, Records
  <2>2. w \in SUBSET Doubts
    BY DEF Doubts
  <2> HIDE DEF w
  <2>3. Cur(n).c \in Containers /\ Cur(n).target \in Nodes
    BY <2>1, InHand, RowType
  <2>4. place' \in [Containers -> Nodes]
    BY <1>2, <2>1, <2>3 DEF TypeOK
  <2>5. /\ doubt' \in [Containers -> SUBSET Doubts]
        /\ \A c \in Containers : doubt[c] \subseteq doubt'[c]
    BY <1>2, <2>1, <2>2, <2>3 DEF TypeOK
  <2> QED
    BY <1>2, <2>1, <2>4, <2>5 DEF TypeOK, Grows
<1>9. CASE SwapStep(n)
  <2> DEFINE y == IF run[n].pc \in {"swapdel", "swapadd"} THEN Cur(n).c ELSE Cur(n).with
             A == CASE run[n].pc = "swapdel" -> ips[y] \ {Cur(n).old}
                    [] run[n].pc = "swapdel2" -> ips[y] \ {Cur(n).old2}
                    [] run[n].pc = "swapadd" -> ips[y] \cup run[n].new
                    [] run[n].pc = "swapadd2" -> ips[y] \cup run[n].new2
  <2>1. /\ tContainer' = tContainer /\ available' = available /\ place' = place
        /\ events' = events /\ doubt' = doubt
        /\ run[n].pc \in {"swapdel", "swapdel2", "swapadd", "swapadd2"}
    BY <1>9 DEF SwapStep, Records, Rest
  <2>2. y \in Containers
    BY <2>1, InHand
  <2>3. ips' = [ips EXCEPT ![y] = A]
    BY <1>2, <1>9, <2>2 DEF SwapStep, TypeOK
  <2>4. A \in SUBSET Addresses
    BY <1>2, <2>1, <2>2, RunnerType DEF TypeOK
  <2> HIDE DEF y, A
  <2>5. ips' \in [Containers -> SUBSET Addresses]
    BY <1>2, <2>2, <2>3, <2>4 DEF TypeOK
  <2> QED
    BY <1>2, <2>1, <2>5 DEF TypeOK, Grows
<1>10. CASE SetStatus(n)
  <2> DEFINE st == IF Cur(n).name \in {"ChangeIP", "SwapIP"} THEN "ACTIVE" ELSE Cur(n).prev
             set == IF Cur(n).name = "SwapIP" THEN {Cur(n).c, Cur(n).with} ELSE {Cur(n).c}
  <2>1. /\ run[n].pc = "status"
        /\ tContainer' = [c \in Containers |->
               IF c \in set THEN [tContainer[c] EXCEPT !.uStatus = st] ELSE tContainer[c]]
        /\ available' = available /\ place' = place /\ ips' = ips
        /\ events' = events /\ doubt' = doubt
    BY <1>10 DEF SetStatus, Rest
  <2>2. st \in Settled \cup Awaiting
    BY <2>1, InHand, RowType DEF Settled
  <2> HIDE DEF st, set
  <2>3. \A c \in Containers : tContainer'[c] \in RecordType
    <3> SUFFICES ASSUME NEW c \in Containers PROVE tContainer'[c] \in RecordType
      OBVIOUS
    <3>1. tContainer[c] \in RecordType
      BY <1>2, RecordFields
    <3>2. [tContainer[c] EXCEPT !.uStatus = st] \in RecordType
      BY <2>2, <3>1 DEF RecordType
    <3> QED
      BY <2>1, <3>1, <3>2
  <2>4. tContainer' \in [Containers -> RecordType]
    BY <2>1, <2>3
  <2> QED
    BY <1>2, <2>1, <2>4 DEF TypeOK, Grows, RecordType
<1>11. CASE SetNode(n)
  <2> DEFINE z == [tContainer[Cur(n).c] EXCEPT !.uNode = Cur(n).target]
  <2>1. /\ run[n].pc = "node"
        /\ tContainer' = [tContainer EXCEPT ![Cur(n).c].uNode = Cur(n).target]
        /\ available' = available /\ place' = place /\ ips' = ips
        /\ events' = events /\ doubt' = doubt
    BY <1>11 DEF SetNode, Steps, At, Rest, Field
  <2>2. Cur(n).c \in Containers /\ Cur(n).target \in Nodes
    BY <2>1, InHand, RowType
  <2>3. z \in RecordType
    BY <1>2, <2>2, RecordFields DEF RecordType
  <2>4. tContainer' = [tContainer EXCEPT ![Cur(n).c] = z]
    BY <1>2, <2>1 DEF TypeOK
  <2> HIDE DEF z
  <2>5. tContainer' \in [Containers -> RecordType]
    BY <1>2, <2>2, <2>3, <2>4 DEF TypeOK, RecordType
  <2> QED
    BY <1>2, <2>1, <2>5 DEF TypeOK, Grows, RecordType
<1>12. CASE Fail(n) \/ Die(n)
  <2>1. /\ tContainer' = tContainer /\ available' = available /\ place' = place /\ ips' = ips
        /\ Count /\ Failed(n)
    BY <1>12 DEF Fail, Die, Records
  <2> QED
    BY <1>2, <2>1, FailedEffect, EventsGrow DEF TypeOK, Grows
<1>13. CASE Gone(n)
  <2>1. /\ tContainer' = tContainer /\ available' = available /\ place' = place /\ ips' = ips
        /\ events' = events /\ Failed(n)
    BY <1>13 DEF Gone, Records
  <2> QED
    BY <1>2, <2>1, FailedEffect DEF TypeOK, Grows
<1> QED
  BY <1>4, <1>5, <1>6, <1>7, <1>8, <1>9, <1>10, <1>11, <1>12, <1>13 DEF Proceed

LEMMA StatusEffect ==
  ASSUME IndType, NEW c \in Containers, StatusChange(c)
  PROVE  /\ tContainer' \in [Containers -> RecordType]
         /\ \A d \in Containers : /\ tContainer'[d].uNode = tContainer[d].uNode
                                  /\ tContainer'[d].uIPv4 = tContainer[d].uIPv4
         /\ UNCHANGED <<available, place, ips, tJob, page, run, doubt>>
<1>1. PICK x \in Settled : tContainer' = Field(c, "uStatus", x)
  BY DEF StatusChange
<1>2. x \in Settled \cup Awaiting
  OBVIOUS
<1>3. /\ tContainer' \in [Containers -> RecordType]
      /\ \A d \in Containers : d # c => tContainer'[d] = tContainer[d]
      /\ tContainer'[c].uNode = tContainer[c].uNode /\ tContainer'[c].uIPv4 = tContainer[c].uIPv4
  BY <1>1, <1>2, StatusField DEF IndType
<1> QED
  BY <1>3 DEF StatusChange

LEMMA StatusStep ==
  ASSUME IndType, NEW c \in Containers, StatusChange(c)
  PROVE  IndType'
<1>1. /\ tContainer' \in [Containers -> RecordType]
      /\ UNCHANGED <<available, place, ips, tJob, page, run, doubt>>
  BY StatusEffect
<1>2. events \in Nat /\ events' \in 0 .. MaxEvent /\ events' \in Nat /\ events <= events'
  BY EventsGrow DEF StatusChange, IndType
<1>3. TypeOK' /\ Grows
  BY <1>1, <1>2 DEF IndType, TypeOK, RecordType, Grows
<1>4. NumbersOK' /\ \A q \in tJob' : RowOK(q)'
  <2>1. /\ \A q \in tJob' : \E r \in tJob : Like(q, r)
        /\ \A q, r \in tJob' : q.uJob = r.uJob => q = r
    BY <1>1 DEF Like, IndType, JobsOK, NumbersOK
  <2> QED
    BY <1>1, <1>3, <2>1, FewerRows
<1>5. (\A m \in Nodes : RunOK(m))' /\ RunningInHand'
  <2>1. tJob' = tJob /\ run' = run
    BY <1>1
  <2>2. RunningInHand'
    BY <2>1 DEF IndType, JobsOK, RunningInHand
  <2>3. ASSUME NEW m \in Nodes PROVE RunOK(m)'
    <3>1. RunOK(m)
      BY DEF IndType, JobsOK
    <3> QED
      BY <2>1, <3>1 DEF RunOK
  <2> QED
    BY <2>2, <2>3
<1> QED
  BY <1>1, <1>3, <1>4, <1>5, SamePages DEF IndType, JobsOK

LEMMA TypeInit == Init => IndType
<1> SUFFICES ASSUME Init PROVE IndType
  OBVIOUS
<1>1. IdleRun \in Runners /\ IdleRun.pc = "idle" /\ IdleRun.rows = {} /\ IdleRun.cur = {}
  BY DEF IdleRun, Runners, Points
<1>2. NoPage \in Pages
  BY DEF Pages
<1>3. tContainer \in [Containers -> [uStatus : Settled \cup Awaiting, uNode : Nodes, uIPv4 : Addresses]]
  BY DEF Init
<1>4. available \subseteq Addresses
  BY DEF Init
<1>5. TypeOK
  BY <1>1, <1>2, <1>3, <1>4 DEF Init, TypeOK
<1>6. JobsOK
  BY <1>1 DEF Init, JobsOK, NumbersOK, RunOK, RunningInHand, IsOpen
<1> QED
  BY <1>5, <1>6 DEF IndType

LEMMA TypeStep == IndType /\ [Next]_vars => IndType'
<1> SUFFICES ASSUME IndType, [Next]_vars PROVE IndType'
  OBVIOUS
<1>1. ASSUME NEW s \in Sessions, Confirm(s) \/ Acts(s) PROVE IndType'
  BY <1>1, ConfirmStep, PageStep
<1>2. ASSUME NEW c \in Containers, StatusChange(c) PROVE IndType'
  BY <1>2, StatusStep
<1>3. ASSUME NEW n \in Nodes, Proceed(n) \/ Fail(n) \/ Die(n) PROVE IndType'
  BY <1>3, RunnerStep
<1>4. CASE UNCHANGED vars
  BY <1>4 DEF vars, IndType, TypeOK, JobsOK, NumbersOK, RunOK, RunningInHand, PageOK, RowOK, IsOpen
<1> QED
  BY <1>1, <1>2, <1>3, <1>4 DEF Next

\* Every variable keeps the shape of its table or process state; and, behind
\* it, what the other proofs stand on: rows are numbered once, what runs is in
\* the hand of its node, an open page has compared what it says.
THEOREM TypesKept == Spec => []TypeOK
<1>1. IndType => TypeOK
  BY DEF IndType
<1> QED
  BY <1>1, TypeInit, TypeStep, PTL DEF Spec

-----------------------------------------------------------------------------
(****************************** Rows and steps *****************************)

\* Where a row is after a step of n that is not one of a page: where it was, or
\* it is the one the step is about.
Stays(q) == /\ q \in tJob /\ Stage(q)' = Stage(q)
            /\ Stage(q) = "ipadd" => run'[q.uNode].new = run[q.uNode].new
GoesOn(n, q) == /\ run[n].pc \notin Idlers /\ q = Cur(n) /\ q.uNode = n
                /\ Stage(q) = run[n].pc /\ Stage(q)' = run'[n].pc
GoesBack(n, q) == /\ run[n].pc \notin Idlers /\ Cur(n) \in tJob /\ Like(q, Cur(n))
                  /\ Stage(q)' = "waiting"
Begins(n, q) == \E r \in tJob : /\ Like(q, r) /\ Stage(r) = "waiting" /\ q.uNode = n
                                /\ Stage(q)' = FirstPoint(q.name)

LEMMA Courses ==
  ASSUME IndType, NEW n \in Nodes
  PROVE  /\ Select(n) => \A q \in tJob' : Stays(q)
         /\ \A p, W : Advances(n, p, W) =>
               run'[n].pc = p /\ run'[n].new = W /\ \A q \in tJob' : Stays(q) \/ GoesOn(n, q)
         /\ Drops(n) => \A q \in tJob' : Stays(q)
         /\ \A q0 : Returns(n, q0) => \A q \in tJob' : Stays(q) \/ GoesBack(n, q)
         /\ \A r0, q0 : Takes(n, r0, q0) => \A q \in tJob' : Stays(q) \/ Begins(n, q)
<1>1. \A q \in tJob : /\ q.uNode \in Nodes /\ q.name \in JobNames
                      /\ q.uJobStatus \in {"WAITING", "RUNNING"}
                      /\ q.uJobStatus = "RUNNING" => run[q.uNode].cur = {q}
  BY RowsTyped DEF IndType, JobsOK, RunningInHand, Statuses
<1>2. run[n].pc \in Idlers => run[n].cur = {}
  BY DEF IndType, JobsOK, RunOK, Idlers
<1>3. run[n].pc \notin Idlers => /\ Cur(n) \in tJob /\ run[n].cur = {Cur(n)} /\ Cur(n).uNode = n
                                 /\ Cur(n).uJobStatus = "RUNNING"
  BY InHand DEF Idlers
<1>4. ASSUME Select(n), NEW q \in tJob' PROVE Stays(q)
  <2>1. RunIs(n, "loop", {r.uJob : r \in Waiting(n)}, {}, run[n].new) /\ tJob' = tJob
        /\ run[n].pc = "idle"
    BY <1>4, SelectEffect DEF Select
  <2> QED
    BY <1>1, <1>2, <2>1 DEF RunIs, Stays, Stage, Idlers
<1>5. ASSUME NEW p, NEW W, Advances(n, p, W)
      PROVE  run'[n].pc = p /\ run'[n].new = W /\ \A q \in tJob' : Stays(q) \/ GoesOn(n, q)
  <2>1. run'[n].pc = p /\ run'[n].new = W /\ tJob' = tJob /\ run[n].pc \notin Idlers
    BY <1>5 DEF Advances, RunIs
  <2>2. ASSUME NEW q \in tJob, q # Cur(n) PROVE Stays(q)
    <3>1. CASE q.uNode = n
      <4>1. q.uJobStatus = "WAITING"
        BY <1>1, <1>3, <2>1, <2>2, <3>1
      <4> QED
        BY <1>5, <2>1, <3>1, <4>1 DEF Stays, Stage, Advances, RunIs
    <3>2. CASE q.uNode # n
      BY <1>1, <1>5, <3>2 DEF Stays, Stage, Advances, RunIs
    <3> QED
      BY <3>1, <3>2
  <2>3. ASSUME NEW q \in tJob, q = Cur(n) PROVE GoesOn(n, q)
    BY <1>3, <2>1, <2>3 DEF GoesOn, Stage
  <2> QED
    BY <2>1, <2>2, <2>3
<1>6. ASSUME Drops(n), NEW q \in tJob' PROVE Stays(q)
  <2>1. q \in tJob /\ q # Cur(n) /\ run[n].pc \notin Idlers
    BY <1>6 DEF Drops
  <2>2. CASE q.uNode = n
    <3>1. q.uJobStatus = "WAITING"
      BY <1>1, <1>3, <2>1, <2>2
    <3> QED
      BY <2>1, <3>1 DEF Stays, Stage
  <2>3. CASE q.uNode # n
    BY <1>1, <1>6, <2>1, <2>3 DEF Stays, Stage, Drops, RunIs
  <2> QED
    BY <2>2, <2>3
<1>7. ASSUME NEW q0, Returns(n, q0), NEW q \in tJob' PROVE Stays(q) \/ GoesBack(n, q)
  <2>1. /\ run[n].pc \notin Idlers /\ tJob' = (tJob \ {Cur(n)}) \cup {q0} /\ Like(q0, Cur(n))
        /\ q0.uJobStatus = "WAITING"
    BY <1>7 DEF Returns, Turned
  <2>2. CASE q = q0
    BY <1>3, <2>1, <2>2 DEF GoesBack, Stage
  <2>3. CASE q # q0 /\ q.uNode = n
    <3>1. q \in tJob /\ q.uJobStatus = "WAITING"
      BY <1>1, <1>3, <2>1, <2>3
    <3> QED
      BY <3>1 DEF Stays, Stage
  <2>4. CASE q # q0 /\ q.uNode # n
    BY <1>1, <1>7, <2>1, <2>4 DEF Stays, Stage, Returns, RunIs
  <2> QED
    BY <2>2, <2>3, <2>4
<1>8. ASSUME NEW r0, NEW q0, Takes(n, r0, q0), NEW q \in tJob' PROVE Stays(q) \/ Begins(n, q)
  <2>1. /\ run[n].pc \in Idlers /\ tJob' = (tJob \ {r0}) \cup {q0} /\ Like(q0, r0) /\ r0 \in tJob
        /\ r0.uNode = n /\ r0.uJobStatus = "WAITING" /\ q0.uJobStatus = "RUNNING"
        /\ run'[n].pc = FirstPoint(r0.name)
    BY <1>8 DEF Takes, Turned, Idlers, RunIs
  <2>2. CASE q = q0
    <3>1. q.uNode = n /\ q.name = r0.name /\ Stage(q)' = FirstPoint(q.name) /\ Stage(r0) = "waiting"
      BY <2>1, <2>2 DEF Stage, Like
    <3> QED
      BY <2>1, <2>2, <3>1 DEF Begins
  <2>3. CASE q # q0 /\ q.uNode = n
    <3>1. q \in tJob /\ q.uJobStatus = "WAITING"
      BY <1>1, <1>2, <2>1, <2>3
    <3> QED
      BY <3>1 DEF Stays, Stage
  <2>4. CASE q # q0 /\ q.uNode # n
    BY <1>1, <1>8, <2>1, <2>4 DEF Stays, Stage, Takes, RunIs
  <2> QED
    BY <2>2, <2>3, <2>4
<1> QED
  BY <1>4, <1>5, <1>6, <1>7, <1>8

-----------------------------------------------------------------------------
(************************** Addresses stay apart ***************************)

Through == {"status", "done", "dead"}

\* The step is neither Read nor IpDel, and no change of address begins again.
Harmless == \A q \in tJob' :
    \/ Stays(q)
    \/ /\ Stage(q)' \notin {"ipadd", "release"}
       /\ \E r \in tJob : Like(q, r) /\ (Pending(q)' => Pending(r))

\* What c holds only gets less.
LEMMA HeldLess ==
  ASSUME IndType, IndType', HeldOK, \A c \in Containers : ChangeOK(c),
         \A q \in tJob' : \E r \in tJob : Like(q, r) /\ (Pending(q)' => Pending(r)),
         \A c \in Containers : /\ tContainer'[c].uIPv4 = tContainer[c].uIPv4
                               /\ ips'[c] \subseteq ips[c] \cup {tContainer[c].uIPv4}
  PROVE  /\ \A c \in Containers : Held(c)' \subseteq Held(c)
         /\ \A c \in Containers : \A r, q \in RowsNamed("ChangeIP", c)' : r = q
         /\ \A c \in Containers : \A r \in RowsNamed("ChangeIP", c)' :
               Pending(r)' => r.old # tContainer'[c].uIPv4
<1>1. ASSUME NEW c \in Containers, NEW a \in Held(c)' PROVE a \in Held(c)
  <2>1. CASE \E q \in tJob' : q.c = c /\ Pending(q)' /\ a = q.old
    <3>1. PICK q \in tJob' : q.c = c /\ Pending(q)' /\ a = q.old
      BY <2>1
    <3>2. PICK r \in tJob : Like(q, r) /\ Pending(r)
      BY <3>1
    <3> QED
      BY <3>1, <3>2 DEF Held, Like
  <2>2. CASE a \in ips'[c] \cup {tContainer'[c].uIPv4}
    BY <2>2 DEF Held
  <2> QED
    BY <1>1, <2>1, <2>2 DEF Held
<1>2. ASSUME NEW c \in Containers, NEW i \in RowsNamed("ChangeIP", c)', NEW j \in RowsNamed("ChangeIP", c)'
      PROVE  i = j
  <2>1. i \in tJob' /\ j \in tJob' /\ i.name = "ChangeIP" /\ j.name = "ChangeIP" /\ i.c = c /\ j.c = c
    BY DEF RowsNamed
  <2>2. PICK r \in tJob : Like(i, r)
    BY <2>1
  <2>3. PICK q \in tJob : Like(j, q)
    BY <2>1
  <2>4. r \in RowsNamed("ChangeIP", c) /\ q \in RowsNamed("ChangeIP", c)
    BY <2>1, <2>2, <2>3 DEF RowsNamed, Like
  <2>5. i.uJob = j.uJob
    BY <2>2, <2>3, <2>4 DEF ChangeOK, Like
  <2> QED
    BY <2>1, <2>5 DEF IndType, JobsOK, NumbersOK
<1>3. ASSUME NEW c \in Containers, NEW q \in RowsNamed("ChangeIP", c)', Pending(q)'
      PROVE  q.old # tContainer'[c].uIPv4
  <2>1. q \in tJob' /\ q.name = "ChangeIP" /\ q.c = c
    BY DEF RowsNamed
  <2>2. PICK r \in tJob : Like(q, r) /\ Pending(r)
    BY <1>3, <2>1
  <2> QED
    BY <2>1, <2>2 DEF ChangeOK, RowsNamed, Like
<1> QED
  BY <1>1, <1>2, <1>3

LEMMA HarmlessHeld ==
  ASSUME IndType, IndType', HeldOK, \A c \in Containers : ChangeOK(c), Harmless,
         available' = available, ips' = ips,
         \A c \in Containers : tContainer'[c].uIPv4 = tContainer[c].uIPv4
  PROVE  (HeldOK /\ \A c \in Containers : ChangeOK(c))'
<1>1. \A q \in tJob' : \E r \in tJob : Like(q, r) /\ (Pending(q)' => Pending(r))
  BY DEF Harmless, Stays, Like, Pending
<1>2. /\ \A c \in Containers : Held(c)' \subseteq Held(c)
      /\ \A c \in Containers : \A r, q \in RowsNamed("ChangeIP", c)' : r = q
      /\ \A c \in Containers : \A r \in RowsNamed("ChangeIP", c)' :
            Pending(r)' => r.old # tContainer'[c].uIPv4
  BY <1>1, HeldLess
<1>3. HeldOK'
  <2>1. \A c \in Containers : available' \cap Held(c)' = {}
    BY <1>2 DEF HeldOK
  <2>2. \A c, d \in Containers : c # d => Held(c)' \cap Held(d)' = {}
    BY <1>2 DEF HeldOK
  <2> QED
    BY <2>1, <2>2 DEF HeldOK
<1>4. ASSUME NEW c \in Containers, NEW r \in RowsNamed("ChangeIP", c)'
      PROVE  /\ Stage(r)' = "ipadd" => run'[r.uNode].new = {tContainer'[c].uIPv4}
             /\ Stage(r)' = "release" => r.old \notin ips'[c]
  <2>1. r \in tJob' /\ (Stage(r)' \in {"ipadd", "release"} => Stays(r))
    BY DEF RowsNamed, Harmless
  <2>2. Stays(r) => r \in RowsNamed("ChangeIP", c)
    BY DEF RowsNamed, Stays
  <2> QED
    BY <2>1, <2>2 DEF ChangeOK, Stays
<1> QED
  BY <1>2, <1>3, <1>4 DEF ChangeOK

LEMMA HarmlessSteps ==
  ASSUME IndType, NEW n \in Nodes,
         \/ Select(n) \/ Begin(n) \/ Check(n) \/ CheckOthers(n) \/ Name(n) \/ Move(n)
         \/ SwapRead(n) \/ SetStatus(n) \/ SetNode(n) \/ JobDone(n) \/ Fail(n) \/ Gone(n) \/ Die(n)
  PROVE  Harmless
<1>1. ASSUME NEW p, NEW W, Advances(n, p, W), p \notin {"ipadd", "release"},
             p \in Through \/ run[n].pc \notin Through \/ Cur(n).name # "ChangeIP"
      PROVE  Harmless
  <2>1. run'[n].pc = p /\ \A q \in tJob' : Stays(q) \/ GoesOn(n, q)
    BY <1>1, Courses
  <2>2. tJob' = tJob
    BY <1>1 DEF Advances
  <2>3. ASSUME NEW q \in tJob', GoesOn(n, q)
        PROVE  Stage(q)' \notin {"ipadd", "release"} /\ Like(q, q) /\ (Pending(q)' => Pending(q))
    BY <1>1, <2>1, <2>3 DEF GoesOn, Like, Pending, Through
  <2> QED
    BY <2>1, <2>2, <2>3 DEF Harmless
<1>2. ASSUME NEW q0, Returns(n, q0), run[n].pc \notin Through PROVE Harmless
  <2>1. \A q \in tJob' : Stays(q) \/ GoesBack(n, q)
    BY <1>2, Courses
  <2>2. ASSUME NEW q \in tJob', GoesBack(n, q)
        PROVE  \E r \in tJob : Like(q, r) /\ (Pending(q)' => Pending(r))
    <3>1. Cur(n) \in tJob /\ Like(q, Cur(n)) /\ run[n].pc \notin Idlers
      BY <2>2 DEF GoesBack
    <3>2. Cur(n).uJobStatus = "RUNNING" /\ Cur(n).uNode = n
      BY <3>1, InHand DEF Idlers
    <3>3. ASSUME Pending(q)' PROVE Pending(Cur(n))
      <4>1. q.name = "ChangeIP" /\ Cur(n).name = "ChangeIP"
        BY <3>1, <3>3 DEF Pending, Like
      <4> QED
        BY <1>2, <3>2, <4>1 DEF Pending, Stage, Through
    <3> QED
      BY <3>1, <3>3
  <2> QED
    BY <2>1, <2>2 DEF Harmless, GoesBack
<1>3. CASE Select(n) \/ JobDone(n) \/ Fail(n) \/ Gone(n)
  BY <1>3, EndSteps, Courses DEF Harmless
<1>4. CASE Begin(n)
  <2>1. PICK r0 \in Rows, q0 \in Rows : Takes(n, r0, q0)
    BY <1>4, BeginTakes
  <2>2. \A q \in tJob' : Stays(q) \/ Begins(n, q)
    BY <2>1, Courses
  <2>3. ASSUME NEW q \in tJob', Begins(n, q)
        PROVE  /\ Stage(q)' \notin {"ipadd", "release"}
               /\ \E r \in tJob : Like(q, r) /\ (Pending(q)' => Pending(r))
    BY <2>3 DEF Begins, FirstPoint, Pending, Like
  <2> QED
    BY <2>2, <2>3 DEF Harmless
<1>5. CASE Check(n)
  <2>1. run[n].pc = "check"
    BY <1>5 DEF Check
  <2> QED
    BY <1>1, <1>2, <1>5, <2>1, CheckEffect DEF Through
<1>6. CASE CheckOthers(n)
  BY <1>1, <1>2, <1>6, CheckOthersEffect DEF Through
<1>7. CASE Name(n) \/ Move(n) \/ SetNode(n) \/ Die(n)
  BY <1>1, <1>7, OtherSteps DEF Through
<1>8. CASE SwapRead(n)
  <2>1. Cur(n).name = "SwapIP" /\ \E W \in SUBSET Addresses : Advances(n, "swapdel", W)
    BY <1>8, OtherSteps
  <2> QED
    BY <1>1, <2>1 DEF Through
<1>9. CASE SetStatus(n)
  <2> DEFINE p == IF Cur(n).name = "Migrate" THEN "node" ELSE "done"
  <2>1. Advances(n, p, run[n].new)
    BY <1>9, OtherSteps
  <2>2. p \notin {"ipadd", "release"} /\ (p \in Through \/ Cur(n).name # "ChangeIP")
    BY DEF Through
  <2> HIDE DEF p
  <2> QED
    BY <1>1, <2>1, <2>2
<1> QED
  BY <1>3, <1>4, <1>5, <1>6, <1>7, <1>8, <1>9

LEMMA SetEffect ==
  ASSUME IndType, NEW n \in Nodes, SetStatus(n) \/ SetNode(n)
  PROVE  /\ \A c \in Containers : tContainer'[c].uIPv4 = tContainer[c].uIPv4
         /\ SetStatus(n) => \A c \in Containers : tContainer'[c].uNode = tContainer[c].uNode
         /\ SetNode(n) => /\ tContainer'[Cur(n).c].uNode = Cur(n).target
                          /\ \A c \in Containers : c # Cur(n).c =>
                                tContainer'[c].uNode = tContainer[c].uNode
<1>1. CASE SetStatus(n)
  <2> DEFINE st == IF Cur(n).name \in {"ChangeIP", "SwapIP"} THEN "ACTIVE" ELSE Cur(n).prev
             set == IF Cur(n).name = "SwapIP" THEN {Cur(n).c, Cur(n).with} ELSE {Cur(n).c}
  <2>1. /\ tContainer' = [c \in Containers |->
               IF c \in set THEN [tContainer[c] EXCEPT !.uStatus = st] ELSE tContainer[c]]
        /\ run[n].pc = "status"
    BY <1>1 DEF SetStatus
  <2> HIDE DEF st, set
  <2>2. ASSUME NEW c \in Containers
        PROVE  /\ tContainer'[c].uIPv4 = tContainer[c].uIPv4
               /\ tContainer'[c].uNode = tContainer[c].uNode
    <3>1. tContainer[c] \in RecordType
      BY RecordFields DEF IndType
    <3>2. LET y == [tContainer[c] EXCEPT !.uStatus = st]
          IN  y.uIPv4 = tContainer[c].uIPv4 /\ y.uNode = tContainer[c].uNode
      BY <3>1 DEF RecordType
    <3> QED
      BY <2>1, <3>2
  <2>3. ~SetNode(n)
    BY <2>1 DEF SetNode, Steps, At
  <2> QED
    BY <2>2, <2>3
<1>2. CASE SetNode(n)
  <2> DEFINE z == [tContainer[Cur(n).c] EXCEPT !.uNode = Cur(n).target]
  <2>1. /\ run[n].pc = "node"
        /\ tContainer' = [tContainer EXCEPT ![Cur(n).c].uNode = Cur(n).target]
    BY <1>2 DEF SetNode, Steps, At, Field
  <2>2. Cur(n).c \in Containers
    BY <2>1, InHand
  <2>3. z.uIPv4 = tContainer[Cur(n).c].uIPv4 /\ z.uNode = Cur(n).target
    BY <2>2, RecordFields DEF RecordType, IndType
  <2>4. tContainer' = [tContainer EXCEPT ![Cur(n).c] = z]
    BY <2>1 DEF IndType, TypeOK
  <2> HIDE DEF z
  <2>5. /\ tContainer'[Cur(n).c] = z
        /\ \A c \in Containers : c # Cur(n).c => tContainer'[c] = tContainer[c]
    BY <2>2, <2>4 DEF IndType, TypeOK
  <2>6. ~SetStatus(n)
    BY <2>1 DEF SetStatus
  <2> QED
    BY <2>3, <2>5, <2>6
<1> QED
  BY <1>1, <1>2

\* The steps of the job for an address.
LEMMA AddressHeld ==
  ASSUME IndType, IndType', HeldOK, \A c \in Containers : ChangeOK(c), NEW n \in Nodes,
         Read(n) \/ IpAdd(n) \/ IpDel(n) \/ Release(n)
  PROVE  (HeldOK /\ \A c \in Containers : ChangeOK(c))'
<1>1. /\ run[n].pc \in {"read", "ipadd", "ipdel", "release"} /\ Cur(n).name = "ChangeIP"
      /\ tContainer' = tContainer /\ tJob' = tJob
  BY AddressSteps DEF Read, IpAdd, IpDel, Release, Records, Rest
<1>0. PICK j \in tJob : j = Cur(n)
  BY <1>1, InHand
<1> DEFINE b == j.c
<1>2. /\ j \in tJob /\ j.uNode = n /\ j.uJobStatus = "RUNNING" /\ b \in Containers
      /\ j \in RowsNamed("ChangeIP", b)
      /\ Stage(j) = run[n].pc /\ Pending(j)
  BY <1>0, <1>1, InHand DEF RowsNamed, Pending, Stage
<1>3. \A r \in RowsNamed("ChangeIP", b) : r = j
  BY <1>2 DEF ChangeOK
<1>4. \A q \in tJob' : Stays(q) \/ GoesOn(n, q)
  BY AddressSteps, Courses
<1>5. \A q \in tJob' : \E r \in tJob : Like(q, r) /\ (Pending(q)' => Pending(r))
  BY <1>0, <1>1, <1>2, <1>4 DEF Stays, GoesOn, Like, Pending
<1>6. \A c \in Containers : /\ tContainer'[c].uIPv4 = tContainer[c].uIPv4
                            /\ ips'[c] \subseteq ips[c] \cup {tContainer[c].uIPv4}
  <2>1. CASE Read(n) \/ Release(n)
    BY <1>1, <2>1 DEF Read, Release
  <2>2. CASE IpAdd(n)
    <3>1. run[n].pc = "ipadd" /\ ips' = [ips EXCEPT ![b] = @ \cup run[n].new]
      BY <1>0, <2>2 DEF IpAdd, Steps, At
    <3>2. run[n].new = {tContainer[b].uIPv4}
      BY <1>2, <3>1 DEF ChangeOK
    <3> QED
      BY <1>1, <3>1, <3>2 DEF IndType, TypeOK
  <2>3. CASE IpDel(n)
    <3>1. ips' = [ips EXCEPT ![b] = @ \ {j.old}]
      BY <1>0, <2>3 DEF IpDel
    <3> QED
      BY <1>1, <3>1 DEF IndType, TypeOK
  <2> QED
    BY <2>1, <2>2, <2>3
<1>7. /\ \A c \in Containers : Held(c)' \subseteq Held(c)
      /\ \A c \in Containers : \A r, q \in RowsNamed("ChangeIP", c)' : r = q
      /\ \A c \in Containers : \A r \in RowsNamed("ChangeIP", c)' :
            Pending(r)' => r.old # tContainer'[c].uIPv4
  BY <1>5, <1>6, HeldLess
<1>8. \A c \in Containers : available' \cap Held(c)' = {}
  <2>1. CASE ~Release(n)
    <3>1. available' = available
      BY <2>1 DEF Read, IpAdd, IpDel, Records
    <3> QED
      BY <1>7, <3>1 DEF HeldOK
  <2>2. CASE Release(n)
    <3> DEFINE a == j.old
    <3>1. available' \subseteq available \cup {a} /\ run[n].pc = "release" /\ ips' = ips
      BY <1>0, <2>2 DEF Release, Steps, At
    <3>2. run'[n].pc = "status"
      BY <2>2, AddressSteps, Courses
    <3>3. a \in Held(b)
      BY <1>2 DEF Held
    <3>4. a # tContainer[b].uIPv4 /\ a \notin ips[b]
      BY <1>2, <3>1 DEF ChangeOK
    <3>5. ASSUME NEW q \in tJob', q.c = b, Pending(q)' PROVE FALSE
      <4>1. q \in RowsNamed("ChangeIP", b)
        BY <1>1, <3>5 DEF Pending, RowsNamed
      <4>2. q = j
        BY <1>3, <4>1
      <4>3. Stage(q)' = "status"
        BY <1>2, <3>2, <4>2 DEF Stage
      <4> QED
        BY <3>5, <4>3 DEF Pending
    <3>6. a \notin Held(b)'
      BY <1>1, <3>1, <3>4, <3>5 DEF Held
    <3>7. \A c \in Containers : c # b => a \notin Held(c)'
      BY <1>2, <1>7, <3>3 DEF HeldOK
    <3> QED
      BY <1>7, <3>1, <3>6, <3>7 DEF HeldOK
  <2> QED
    BY <2>1, <2>2
<1>9. HeldOK'
  <2>1. \A c, d \in Containers : c # d => Held(c)' \cap Held(d)' = {}
    BY <1>7 DEF HeldOK
  <2> QED
    BY <1>8, <2>1 DEF HeldOK
<1>10. ASSUME NEW c \in Containers, NEW r \in RowsNamed("ChangeIP", c)'
       PROVE  /\ Stage(r)' = "ipadd" => run'[r.uNode].new = {tContainer'[c].uIPv4}
              /\ Stage(r)' = "release" => r.old \notin ips'[c]
  <2>1. r \in tJob' /\ r \in RowsNamed("ChangeIP", c) /\ r.c = c
    BY <1>1 DEF RowsNamed
  <2>2. CASE r # j
    <3>1. Stays(r)
      BY <1>0, <1>1, <1>4, <2>1, <2>2 DEF GoesOn
    <3>2. c # b
      BY <1>3, <2>1, <2>2
    <3>3. ips'[c] \subseteq ips[c]
      BY <1>0, <3>2 DEF Read, IpAdd, IpDel, Release, IndType, TypeOK
    <3> QED
      BY <1>1, <2>1, <3>1, <3>3 DEF Stays, ChangeOK
  <2>3. CASE r = j
    <3>1. r.uNode = n /\ Stage(r)' = run'[n].pc /\ c = b
      BY <1>2, <2>1, <2>3 DEF Stage
    <3>2. CASE Read(n)
      <4>1. run'[n].pc = "ipadd" /\ run'[n].new = {tContainer[b].uIPv4}
        <5>1. Advances(n, "ipadd", {tContainer[Cur(n).c].uIPv4})
          BY <3>2, AddressSteps
        <5> QED
          BY <1>0, <5>1, Courses
      <4> QED
        BY <1>1, <3>1, <4>1
    <3>3. CASE IpAdd(n)
      <4>1. run'[n].pc = "ipdel"
        BY <3>3, AddressSteps, Courses
      <4> QED
        BY <3>1, <4>1
    <3>4. CASE IpDel(n)
      <4>1. run'[n].pc = "release"
        BY <3>4, AddressSteps, Courses
      <4>2. ips' = [ips EXCEPT ![b] = @ \ {j.old}]
        BY <1>0, <3>4 DEF IpDel
      <4>3. r.old \notin ips'[b]
        BY <1>2, <2>3, <4>2 DEF IndType, TypeOK
      <4> QED
        BY <3>1, <4>1, <4>3
    <3>5. CASE Release(n)
      <4>1. run'[n].pc = "status"
        BY <3>5, AddressSteps, Courses
      <4> QED
        BY <3>1, <4>1
    <3> QED
      BY <3>2, <3>3, <3>4, <3>5
  <2> QED
    BY <2>2, <2>3
<1> QED
  BY <1>7, <1>9, <1>10 DEF ChangeOK

LEMMA DoubtsGrow ==
  ASSUME IndType, [Next]_vars
  PROVE  \A c \in Containers : doubt[c] \subseteq doubt'[c]
<1>1. ASSUME NEW s \in Sessions, Acts(s) PROVE \A c \in Containers : doubt[c] \subseteq doubt'[c]
  <2>1. \E new : Inserts(s, new)
    BY <1>1, MigrateEffect, HostnameEffect, IPEffect, RemoteEffect, SwapEffect DEF Acts
  <2> QED
    BY <2>1 DEF Inserts
<1>2. ASSUME NEW n \in Nodes, Move(n) PROVE \A c \in Containers : doubt[c] \subseteq doubt'[c]
  <2> DEFINE w == IF \E r \in RowsOf(Cur(n).c) : r # Cur(n) /\ r.uNode # Cur(n).target
                  THEN {"stray"} ELSE {}
  <2>1. doubt' = [doubt EXCEPT ![Cur(n).c] = @ \cup w]
    BY <1>2 DEF Move
  <2> HIDE DEF w
  <2> QED
    BY <2>1 DEF IndType, TypeOK
<1>3. ASSUME NEW n \in Nodes, Fail(n) \/ Gone(n) \/ Die(n)
      PROVE  \A c \in Containers : doubt[c] \subseteq doubt'[c]
  BY <1>3, FailedEffect DEF Fail, Gone, Die
<1>4. CASE doubt' = doubt
  BY <1>4
<1>5. \/ doubt' = doubt \/ (\E s \in Sessions : Acts(s))
      \/ \E n \in Nodes : Move(n) \/ Fail(n) \/ Gone(n) \/ Die(n)
  <2>1. ASSUME NEW s \in Sessions, Confirm(s) PROVE doubt' = doubt
    BY <2>1 DEF Confirm
  <2>2. ASSUME NEW c \in Containers, StatusChange(c) PROVE doubt' = doubt
    BY <2>2 DEF StatusChange
  <2>3. ASSUME NEW n \in Nodes,
               \/ Select(n) \/ Begin(n) \/ Check(n) \/ CheckOthers(n) \/ Name(n) \/ SwapRead(n)
               \/ SwapStep(n) \/ SetStatus(n) \/ SetNode(n) \/ JobDone(n)
               \/ Read(n) \/ IpAdd(n) \/ IpDel(n) \/ Release(n)
        PROVE  doubt' = doubt
    <3>1. CASE Select(n) \/ Begin(n) \/ Check(n) \/ CheckOthers(n) \/ JobDone(n)
      BY <3>1 DEF Select, Begin, Check, CheckOthers, JobDone
    <3>2. CASE Name(n) \/ SwapRead(n) \/ SwapStep(n) \/ SetStatus(n) \/ SetNode(n)
      BY <3>2 DEF Name, SwapRead, SwapStep, SetStatus, SetNode, Rest
    <3>3. CASE Read(n) \/ IpAdd(n) \/ IpDel(n) \/ Release(n)
      BY <3>3 DEF Read, IpAdd, IpDel, Release, Rest
    <3> QED
      BY <2>3, <3>1, <3>2, <3>3
  <2>4. CASE UNCHANGED vars
    BY <2>4 DEF vars
  <2> QED
    BY <2>1, <2>2, <2>3, <2>4 DEF Next, Proceed
<1> QED
  BY <1>1, <1>2, <1>3, <1>4, <1>5

LEMMA InsertCourses ==
  ASSUME IndType, NEW s \in Sessions, NEW new, Inserts(s, new)
  PROVE  /\ tJob' = tJob \cup new /\ ips' = ips /\ place' = place
         /\ \A q \in tJob : Stays(q)
         /\ \A q \in new : Stage(q)' = "waiting"
  BY DEF Inserts, FromPage, Stays, Stage

\* The page inserts no job for an address.
LEMMA QuietInsert ==
  ASSUME IndType, NEW s \in Sessions, NEW new, Inserts(s, new),
         \A r \in new : r.name # "ChangeIP", available' = available,
         \A c \in Containers : tContainer'[c].uIPv4 = tContainer[c].uIPv4,
         HeldOK, \A c \in Containers : ChangeOK(c)
  PROVE  (HeldOK /\ \A c \in Containers : ChangeOK(c))'
<1>1. \A q \in tJob' : (q \in tJob /\ Stays(q)) \/ (q \in new /\ q.name # "ChangeIP")
  BY InsertCourses
<1>2. \A c \in Containers : RowsNamed("ChangeIP", c)' \subseteq RowsNamed("ChangeIP", c)
  BY <1>1 DEF RowsNamed
<1>3. ips' = ips
  BY InsertCourses
<1>4. \A c \in Containers : Held(c)' \subseteq Held(c)
  BY <1>1, <1>3 DEF Held, Pending, Stays
<1>5. HeldOK'
  <2>1. \A c \in Containers : available' \cap Held(c)' = {}
    BY <1>4 DEF HeldOK
  <2>2. \A c, d \in Containers : c # d => Held(c)' \cap Held(d)' = {}
    BY <1>4 DEF HeldOK
  <2> QED
    BY <2>1, <2>2 DEF HeldOK
<1>6. ASSUME NEW c \in Containers, NEW r \in RowsNamed("ChangeIP", c)'
      PROVE  /\ Pending(r)' => r.old # tContainer'[c].uIPv4
             /\ Stage(r)' = "ipadd" => run'[r.uNode].new = {tContainer'[c].uIPv4}
             /\ Stage(r)' = "release" => r.old \notin ips'[c]
  <2>1. r \in RowsNamed("ChangeIP", c) /\ Stays(r)
    BY <1>1, <1>2 DEF RowsNamed
  <2> QED
    BY <1>3, <2>1 DEF ChangeOK, Stays, Pending
<1>7. \A c \in Containers : \A r, q \in RowsNamed("ChangeIP", c)' : r = q
  BY <1>2 DEF ChangeOK
<1> QED
  BY <1>5, <1>6, <1>7 DEF ChangeOK

\* The page takes the available address that it has compared, for a container
\* with no other such job.
LEMMA TakingInsert ==
  ASSUME IndType, NEW s \in Sessions, NEW new, Inserts(s, new), NEW j \in new,
         j.name = "ChangeIP", j.c = page[s].c, \A r \in new : r.name = "ChangeIP" => r = j,
         page[s].op \in {"remote", "ip"},
         j.old = page[s].uIPv4 \/ j.old = tContainer[page[s].c].uIPv4,
         OneAddress(page[s].c, page[s].ip), available' = available \ {page[s].ip},
         HeldOK, \A c \in Containers : ChangeOK(c), Orderly'
  PROVE  (HeldOK /\ \A c \in Containers : ChangeOK(c))'
<1>1. PICK b \in Containers : b = page[s].c
  BY OpenPage DEF Inserts, IndType
<1>2. PICK a \in Addresses : a = page[s].ip
  BY OpenPage DEF Inserts, IndType
<1>3. doubt'[b] \cap {"shared", "swap", "stale", "twice"} = {} /\ Wrong(s, b, new) \subseteq doubt'[b]
  BY DEF Orderly, Inserts
<1>4. a \in available
  BY <1>1, <1>2, <1>3 DEF Wrong
<1>5. tContainer[b].uIPv4 = page[s].uIPv4
  BY <1>1, <1>3 DEF Wrong
<1>6. RowsNamed("ChangeIP", b) = {}
  <2>1. ~Twice(b, new)
    BY <1>3 DEF Wrong
  <2> QED
    BY <1>1, <2>1 DEF Twice, Waits, RowsNamed
<1>7. j.old = tContainer[b].uIPv4 /\ tContainer'[b].uIPv4 = a
      /\ \A c \in Containers : c # b => tContainer'[c].uIPv4 = tContainer[c].uIPv4
  BY <1>1, <1>2, <1>5 DEF OneAddress
<1>8. /\ tJob' = tJob \cup new /\ ips' = ips
      /\ \A q \in tJob : Stays(q)
      /\ \A q \in new : Stage(q)' = "waiting"
  BY InsertCourses
<1>9. ASSUME NEW c \in Containers, c # b PROVE Held(c)' \subseteq Held(c)
  <2>1. \A q \in tJob' : q.c = c /\ Pending(q)' => q \in tJob /\ Pending(q)
    BY <1>1, <1>8, <1>9 DEF Pending, Stays
  <2> QED
    BY <1>7, <1>8, <1>9, <2>1 DEF Held
<1>10. Held(b)' \subseteq Held(b) \cup {a}
  <2>1. \A q \in tJob' : q.c = b /\ Pending(q)' => q = j
    BY <1>1, <1>6, <1>8 DEF Pending, RowsNamed
  <2> QED
    BY <1>7, <1>8, <2>1 DEF Held
<1>11. \A c \in Containers : a \notin Held(c)
  BY <1>4 DEF HeldOK
<1>12. HeldOK'
  <2>1. \A c \in Containers : available' \cap Held(c)' = {}
    BY <1>2, <1>9, <1>10 DEF HeldOK
  <2>2. \A c, d \in Containers : c # d => Held(c)' \cap Held(d)' = {}
    BY <1>9, <1>10, <1>11 DEF HeldOK
  <2> QED
    BY <2>1, <2>2 DEF HeldOK
<1>13. ASSUME NEW c \in Containers, c # b PROVE ChangeOK(c)'
  <2>1. \A r \in RowsNamed("ChangeIP", c)' : r \in RowsNamed("ChangeIP", c) /\ Stays(r)
    BY <1>1, <1>8, <1>13 DEF RowsNamed
  <2>2. ASSUME NEW r \in RowsNamed("ChangeIP", c)'
        PROVE  /\ Pending(r)' => r.old # tContainer'[c].uIPv4
               /\ Stage(r)' = "ipadd" => run'[r.uNode].new = {tContainer'[c].uIPv4}
               /\ Stage(r)' = "release" => r.old \notin ips'[c]
    <3>1. r \in RowsNamed("ChangeIP", c) /\ Stage(r)' = Stage(r)
          /\ (Stage(r) = "ipadd" => run'[r.uNode].new = run[r.uNode].new)
      BY <2>1 DEF Stays
    <3>2. tContainer'[c].uIPv4 = tContainer[c].uIPv4 /\ ips'[c] = ips[c]
      BY <1>7, <1>8, <1>13
    <3>3. ChangeOK(c)
      OBVIOUS
    <3> QED
      BY <3>1, <3>2, <3>3 DEF ChangeOK, Pending
  <2>3. \A r, q \in RowsNamed("ChangeIP", c)' : r = q
    BY <2>1 DEF ChangeOK
  <2> QED
    BY <2>2, <2>3 DEF ChangeOK
<1>14. ChangeOK(b)'
  <2>1. \A r \in RowsNamed("ChangeIP", b)' : r = j /\ Stage(r)' = "waiting"
    BY <1>6, <1>8 DEF RowsNamed
  <2>2. j.old # a
    BY <1>7, <1>11 DEF Held
  <2> QED
    BY <1>7, <2>1, <2>2 DEF ChangeOK
<1> QED
  BY <1>12, <1>13, <1>14

LEMMA PageHeld ==
  ASSUME IndType, NEW s \in Sessions, Acts(s),
         HeldOK, \A c \in Containers : ChangeOK(c), Orderly'
  PROVE  (HeldOK /\ \A c \in Containers : ChangeOK(c))'
<1>1. CASE MigrateContainer(s)
  <2>1. PICK r \in Rows :
            /\ Inserts(s, {r}) /\ page[s].op = "migration"
            /\ r.name = "Migrate" /\ r.c = page[s].c /\ r.uNode = page[s].node
            /\ OneAddress(page[s].c, tContainer[page[s].c].uIPv4) /\ available' = available
    BY <1>1, MigrateEffect
  <2>2. \A c \in Containers : tContainer'[c].uIPv4 = tContainer[c].uIPv4
    BY <2>1 DEF OneAddress
  <2> QED
    BY <2>1, <2>2, QuietInsert
<1>2. CASE HostnameChange(s)
  <2>1. PICK r \in Rows :
            /\ Inserts(s, {r}) /\ page[s].op = "hostname"
            /\ r.name = "ChangeHostname" /\ r.c = page[s].c /\ r.uNode = page[s].node
            /\ OneAddress(page[s].c, tContainer[page[s].c].uIPv4) /\ available' = available
    BY <1>2, HostnameEffect
  <2>2. \A c \in Containers : tContainer'[c].uIPv4 = tContainer[c].uIPv4
    BY <2>1 DEF OneAddress
  <2> QED
    BY <2>1, <2>2, QuietInsert
<1>3. CASE IPChange(s)
  <2>1. PICK r \in Rows :
            /\ Inserts(s, {r}) /\ page[s].op = "ip"
            /\ r.name = "ChangeIP" /\ r.c = page[s].c /\ r.uNode = page[s].node
            /\ r.old = tContainer[page[s].c].uIPv4
            /\ OneAddress(page[s].c, page[s].ip) /\ available' = available \ {page[s].ip}
    BY <1>3, IPEffect
  <2> QED
    BY <2>1, TakingInsert
<1>4. CASE RemoteMigration(s)
  <2>1. PICK r \in Rows, q \in Rows, h \in SUBSET Rows :
            /\ Inserts(s, {r, q} \cup h) /\ page[s].op = "remote"
            /\ r.name = "Migrate" /\ r.c = page[s].c /\ r.uNode = page[s].node
            /\ q.name = "ChangeIP" /\ q.c = page[s].c /\ q.uNode = page[s].target
            /\ q.old = page[s].uIPv4
            /\ \A k \in h : k.name = "ChangeHostname" /\ k.c = page[s].c
                            /\ k.uNode = page[s].target
            /\ OneAddress(page[s].c, page[s].ip) /\ available' = available \ {page[s].ip}
    BY <1>4, RemoteEffect
  <2>2. q \in {r, q} \cup h /\ \A k \in {r, q} \cup h : k.name = "ChangeIP" => k = q
    BY <2>1
  <2> QED
    BY <2>1, <2>2, TakingInsert
<1>5. CASE Swap(s)
  <2>1. IsOpen(s) /\ "swap" \in doubt'[page[s].c]
    BY <1>5, SwapEffect DEF Inserts
  <2>2. page[s].c \in Containers
    BY <2>1, OpenPage DEF IndType
  <2> QED
    BY <2>1, <2>2 DEF Orderly
<1> QED
  BY <1>1, <1>2, <1>3, <1>4, <1>5 DEF Acts

LEMMA HeldInit == Init => IndHeld
<1> SUFFICES ASSUME Init PROVE IndHeld
  OBVIOUS
<1>1. \A c \in Containers : Held(c) = {Given[c]}
  BY DEF Init, Held
<1>2. HeldOK
  BY <1>1 DEF Init, HeldOK
<1>3. \A c \in Containers : ChangeOK(c)
  BY DEF Init, ChangeOK, RowsNamed
<1> QED
  BY <1>2, <1>3, TypeInit DEF IndHeld

LEMMA HeldStep == IndHeld /\ [Next]_vars => IndHeld'
<1> SUFFICES ASSUME IndHeld, [Next]_vars, Orderly'
             PROVE  (HeldOK /\ \A c \in Containers : ChangeOK(c))'
  BY TypeStep DEF IndHeld
<1>1. IndType /\ IndType'
  BY TypeStep DEF IndHeld
<1>2. \A c \in Containers : doubt[c] \subseteq doubt'[c]
  BY <1>1, DoubtsGrow
<1>3. HeldOK /\ \A c \in Containers : ChangeOK(c)
  BY <1>2 DEF IndHeld, Orderly
<1>4. ASSUME NEW s \in Sessions, Confirm(s)
      PROVE  (HeldOK /\ \A c \in Containers : ChangeOK(c))'
  <2>1. UNCHANGED <<tContainer, available, place, ips, tJob, run>>
    BY <1>4 DEF Confirm
  <2>2. Harmless
    BY <2>1 DEF Harmless, Stays, Stage
  <2> QED
    BY <1>1, <1>3, <2>1, <2>2, HarmlessHeld
<1>5. ASSUME NEW s \in Sessions, Acts(s)
      PROVE  (HeldOK /\ \A c \in Containers : ChangeOK(c))'
  BY <1>1, <1>3, <1>5, PageHeld
<1>6. ASSUME NEW c \in Containers, StatusChange(c)
      PROVE  (HeldOK /\ \A d \in Containers : ChangeOK(d))'
  <2>1. /\ \A d \in Containers : tContainer'[d].uIPv4 = tContainer[d].uIPv4
        /\ UNCHANGED <<available, place, ips, tJob, page, run, doubt>>
    BY <1>1, <1>6, StatusEffect
  <2>2. Harmless
    BY <2>1 DEF Harmless, Stays, Stage
  <2> QED
    BY <1>1, <1>3, <2>1, <2>2, HarmlessHeld
<1>7. ASSUME NEW n \in Nodes, Read(n) \/ IpAdd(n) \/ IpDel(n) \/ Release(n)
      PROVE  (HeldOK /\ \A c \in Containers : ChangeOK(c))'
  BY <1>1, <1>3, <1>7, AddressHeld
<1>8. ASSUME NEW n \in Nodes, SwapStep(n)
      PROVE  FALSE
  <2>1. run[n].pc \in {"swapdel", "swapdel2", "swapadd", "swapadd2"} /\ Cur(n).name = "SwapIP"
    BY <1>1, <1>8, OtherSteps DEF SwapStep
  <2>2. Cur(n) \in tJob /\ Cur(n).c \in Containers
    BY <1>1, <2>1, InHand
  <2>3. "swap" \in doubt[Cur(n).c]
    BY <1>1, <2>1, <2>2 DEF IndType, JobsOK, RowOK
  <2> QED
    BY <1>2, <2>2, <2>3 DEF Orderly
<1>9. ASSUME NEW n \in Nodes,
             \/ Select(n) \/ Begin(n) \/ Check(n) \/ CheckOthers(n) \/ Name(n) \/ Move(n)
             \/ SwapRead(n) \/ SetStatus(n) \/ SetNode(n) \/ JobDone(n) \/ Fail(n) \/ Gone(n) \/ Die(n)
      PROVE  (HeldOK /\ \A c \in Containers : ChangeOK(c))'
  <2>1. Harmless
    BY <1>1, <1>9, HarmlessSteps
  <2>2. /\ available' = available /\ ips' = ips
        /\ \A c \in Containers : tContainer'[c].uIPv4 = tContainer[c].uIPv4
    <3>1. CASE SetStatus(n) \/ SetNode(n)
      BY <1>1, <3>1, SetEffect DEF SetStatus, SetNode
    <3>2. CASE ~(SetStatus(n) \/ SetNode(n))
      BY <1>9, <3>2 DEF Select, Begin, Check, CheckOthers, Name, Move, SwapRead, JobDone, Fail,
                        Gone, Die, Records, Rest
    <3> QED
      BY <3>1, <3>2
  <2> QED
    BY <1>1, <1>3, <2>1, <2>2, HarmlessHeld
<1>10. CASE UNCHANGED vars
  BY <1>3, <1>10 DEF vars, HeldOK, ChangeOK, Held, Pending, RowsNamed, Stage
<1> QED
  BY <1>4, <1>5, <1>6, <1>7, <1>8, <1>9, <1>10 DEF Next, Proceed

\* The addresses of containers stay apart, and none is available that is on a
\* container or in a record, for as long as no page acts on what is no longer
\* so and no container has two jobs for its address at once: a change releases
\* at its end the address that the container has given up, and no other.
THEOREM AddressesStayApart == Spec => []AddressesApart
<1>1. IndHeld => AddressesApart
  BY DEF IndHeld, AddressesApart, HeldOK, Held
<1> QED
  BY <1>1, HeldInit, HeldStep, PTL DEF Spec

-----------------------------------------------------------------------------
(*************************** Addresses after moves **************************)

\* The row q was r, and is no nearer to a move or to another address, but that
\* c may have no migration, and the address to be added may be the recorded one.
Same(c, q, r) ==
    /\ Like(q, r)
    /\ q.name = "Migrate" =>
          /\ Stage(q)' \in Ahead => Stage(r) \in Ahead
          /\ Stage(q)' \in {"status", "node"} => Stage(r) \in {"status", "node"}
          /\ Stage(r) \in Ahead => Stage(q)' \in Ahead \cup Behind
          /\ Stage(r) \in Behind => Stage(q)' \in Behind
    /\ q.name = "ChangeIP" =>
          /\ Stage(q)' \in Changing => Stage(r) \in Changing \/ RowsNamed("Migrate", c)' = {}
          /\ Stage(q)' = "ipadd" =>
                \/ Stage(r) = "ipadd" /\ run'[q.uNode].new = run[q.uNode].new
                \/ run'[q.uNode].new = {tContainer[c].uIPv4}

LEMMA StaysSame ==
  ASSUME NEW c \in Containers, NEW q \in tJob', Stays(q)
  PROVE  Same(c, q, q)
  BY DEF Stays, Same, Like, Ahead, Behind

LEMMA MoveKept ==
  ASSUME IndType, IndType', NEW c \in Containers, MoveOK(c),
         \A q \in tJob' : q.c = c => \E r \in tJob : Same(c, q, r),
         place'[c] = place[c], tContainer'[c].uIPv4 = tContainer[c].uIPv4,
         \/ tContainer'[c].uNode = tContainer[c].uNode
         \/ \A q \in RowsNamed("Migrate", c)' : Stage(q)' \in Behind
  PROVE  MoveOK(c)'
<1>1. \A q \in RowsNamed("Migrate", c)' : \E r \in RowsNamed("Migrate", c) : Same(c, q, r) /\ Like(q, r)
  BY DEF RowsNamed, Same, Like
<1>2. \A q \in RowsNamed("ChangeIP", c)' : \E r \in RowsNamed("ChangeIP", c) : Same(c, q, r) /\ Like(q, r)
  BY DEF RowsNamed, Same, Like
<1>3. MigrationOK(c)'
  <2> SUFFICES ASSUME NEW q \in RowsNamed("Migrate", c)'
               PROVE  /\ Stage(q)' \in Ahead => q.uNode = place'[c] /\ tContainer'[c].uNode = place'[c]
                      /\ Stage(q)' \in {"status", "node"} =>
                            /\ q.target = place'[c] /\ q.uNode = tContainer'[c].uNode
                            /\ \A p \in RowsNamed("Migrate", c)' : p # q => Stage(p)' \in Behind
    BY DEF MigrationOK, Node
  <2>1. CASE \A p \in RowsNamed("Migrate", c)' : Stage(p)' \in Behind
    BY <2>1 DEF Behind, Ahead
  <2>2. CASE tContainer'[c].uNode = tContainer[c].uNode
    <3>1. PICK r \in RowsNamed("Migrate", c) : Same(c, q, r) /\ Like(q, r)
      BY <1>1
    <3>2. q.name = "Migrate"
      BY DEF RowsNamed
    <3>3. CASE Stage(q)' \in Ahead
      BY <2>2, <3>1, <3>2, <3>3 DEF Same, Like, MoveOK, MigrationOK, Node, Ahead
    <3>4. CASE Stage(q)' \in {"status", "node"}
      <4>1. Stage(r) \in {"status", "node"}
        BY <3>1, <3>2, <3>4 DEF Same
      <4>2. /\ r.target = place[c] /\ r.uNode = tContainer[c].uNode
            /\ \A p \in RowsNamed("Migrate", c) : p # r => Stage(p) \in Behind
        BY <4>1 DEF MoveOK, MigrationOK, Node
      <4>3. ASSUME NEW p \in RowsNamed("Migrate", c)', p # q PROVE Stage(p)' \in Behind
        <5>1. PICK i \in RowsNamed("Migrate", c) : Same(c, p, i) /\ Like(p, i)
          BY <1>1
        <5>2. p \in tJob' /\ q \in tJob' /\ p.name = "Migrate"
          BY DEF RowsNamed
        <5>3. i # r
          BY <3>1, <4>3, <5>1, <5>2 DEF Like, IndType, JobsOK, NumbersOK
        <5> QED
          BY <4>2, <5>1, <5>2, <5>3 DEF Same
      <4>4. q.target = place'[c] /\ q.uNode = tContainer'[c].uNode
        BY <2>2, <3>1, <4>2 DEF Like
      <4> QED
        BY <3>4, <4>3, <4>4 DEF Ahead
    <3> QED
      BY <3>3, <3>4
  <2> QED
    BY <2>1, <2>2
<1>4. WaiterOK(c)'
  BY DEF WaiterOK, MoveOK, Same, Like
<1>5. AloneOK(c)'
  <2> SUFFICES ASSUME NEW q \in RowsNamed("ChangeIP", c)', NEW p \in RowsNamed("Migrate", c)',
                      Stage(q)' \in Changing
               PROVE  Stage(p)' \in Behind \/ (Stage(p)' \in Ahead /\ p.target # q.uNode)
    BY DEF AloneOK
  <2>1. PICK r \in RowsNamed("ChangeIP", c) : Same(c, q, r) /\ Like(q, r)
    BY <1>2
  <2>2. PICK i \in RowsNamed("Migrate", c) : Same(c, p, i) /\ Like(p, i)
    BY <1>1
  <2>3. Stage(r) \in Changing
    BY <2>1 DEF RowsNamed, Same
  <2>4. Stage(i) \in Behind \/ (Stage(i) \in Ahead /\ i.target # r.uNode)
    BY <2>3 DEF MoveOK, AloneOK
  <2> QED
    BY <2>1, <2>2, <2>4 DEF RowsNamed, Same, Like
<1>6. CenterOK(c)'
  <2>1. ASSUME NEW q \in RowsNamed("ChangeIP", c)'
        PROVE  /\ Datacenter[tContainer'[c].uIPv4] = Datacenter[q.uNode]
               /\ Stage(q)' = "ipadd" => \A a \in run'[q.uNode].new : Datacenter[a] = Datacenter[q.uNode]
    <3>1. PICK r \in RowsNamed("ChangeIP", c) : Same(c, q, r) /\ Like(q, r)
      BY <1>2
    <3>2. Datacenter[tContainer[c].uIPv4] = Datacenter[r.uNode] /\ q.uNode = r.uNode
      BY <3>1 DEF MoveOK, CenterOK, Like
    <3>3. ASSUME Stage(q)' = "ipadd" PROVE \A a \in run'[q.uNode].new : Datacenter[a] = Datacenter[q.uNode]
      <4>1. \/ Stage(r) = "ipadd" /\ run'[q.uNode].new = run[q.uNode].new
            \/ run'[q.uNode].new = {tContainer[c].uIPv4}
        BY <3>1, <3>3 DEF Same, RowsNamed
      <4> QED
        BY <3>2, <4>1 DEF MoveOK, CenterOK
    <3> QED
      BY <3>2, <3>3
  <2> QED
    BY <2>1 DEF CenterOK
<1> QED
  BY <1>3, <1>4, <1>5, <1>6 DEF MoveOK

\* Of the steps of a runner only Move brings a row nearer.
LEMMA SameSteps ==
  ASSUME IndType, NEW n \in Nodes, NEW c \in Containers, Proceed(n) \/ Fail(n) \/ Die(n), ~Move(n)
  PROVE  \A q \in tJob' : q.c = c => \E r \in tJob : Same(c, q, r)
<1>1. ASSUME NEW p, NEW W, Advances(n, p, W),
             Cur(n).name = "Migrate" =>
                p = "dead" \/ (run[n].pc \in {"status", "node"} /\ p \in {"node", "done"}),
             Cur(n).name = "ChangeIP" => p \notin {"read", "ipadd"} /\ (p = "ipdel" => run[n].pc = "ipadd")
      PROVE  \A q \in tJob' : \E r \in tJob : Same(c, q, r)
  <2>1. run'[n].pc = p /\ \A q \in tJob' : Stays(q) \/ GoesOn(n, q)
    BY <1>1, Courses
  <2>2. tJob' = tJob
    BY <1>1 DEF Advances
  <2>3. ASSUME NEW q \in tJob', GoesOn(n, q) PROVE Same(c, q, q)
    <3>1. q = Cur(n) /\ Stage(q) = run[n].pc /\ Stage(q)' = p /\ Like(q, q)
      BY <2>1, <2>3 DEF GoesOn, Like
    <3>2. q.name = "Migrate" =>
             p = "dead" \/ (run[n].pc \in {"status", "node"} /\ p \in {"node", "done"})
      BY <1>1, <3>1
    <3>3. q.name = "ChangeIP" => p \notin {"read", "ipadd"} /\ (p = "ipdel" => run[n].pc = "ipadd")
      BY <1>1, <3>1
    <3> QED
      BY <3>1, <3>2, <3>3 DEF Same, Ahead, Behind, Changing
  <2> QED
    BY <2>1, <2>2, <2>3, StaysSame
<1>2. ASSUME NEW q0, Returns(n, q0), run[n].pc \in {"check", "others"}
      PROVE  \A q \in tJob' : \E r \in tJob : Same(c, q, r)
  <2>1. \A q \in tJob' : Stays(q) \/ GoesBack(n, q)
    BY <1>2, Courses
  <2>2. /\ Cur(n) \in tJob /\ Cur(n).uJobStatus = "RUNNING" /\ Cur(n).uNode = n
        /\ run[n].pc \in PointsOf(Cur(n).name) /\ Cur(n).name \in JobNames
    BY <1>2, InHand
  <2>3. Cur(n).name # "Migrate"
    BY <1>2, <2>2 DEF PointsOf
  <2>4. ASSUME NEW q \in tJob', GoesBack(n, q) PROVE \E r \in tJob : Same(c, q, r)
    <3>1. Like(q, Cur(n)) /\ Stage(q)' = "waiting" /\ q.name # "Migrate"
      BY <2>3, <2>4 DEF GoesBack, Like
    <3> QED
      BY <2>2, <3>1 DEF Same, Changing
  <2>5. \A q \in tJob' : Stays(q) => q \in tJob
    BY DEF Stays
  <2> QED
    BY <2>1, <2>4, <2>5, StaysSame
<1>3. ASSUME \A q \in tJob' : Stays(q)
      PROVE  \A q \in tJob' : \E r \in tJob : Same(c, q, r)
  BY <1>3, StaysSame DEF Stays
<1>4. CASE Select(n) \/ JobDone(n) \/ Fail(n) \/ Gone(n)
  BY <1>3, <1>4, EndSteps, Courses
<1>5. CASE Begin(n)
  <2>1. PICK r0 \in Rows, q0 \in Rows : Takes(n, r0, q0)
    BY <1>5, BeginTakes
  <2>2. \A q \in tJob' : Stays(q) \/ Begins(n, q)
    BY <2>1, Courses
  <2>3. ASSUME NEW q \in tJob', Begins(n, q) PROVE \E r \in tJob : Same(c, q, r)
    <3>1. PICK r \in tJob : /\ Like(q, r) /\ Stage(r) = "waiting"
                            /\ Stage(q)' = FirstPoint(q.name)
      BY <2>3 DEF Begins
    <3> QED
      BY <3>1 DEF Same, FirstPoint, Ahead, Behind, Changing
  <2>4. \A q \in tJob' : Stays(q) => q \in tJob
    BY DEF Stays
  <2> QED
    BY <2>2, <2>3, <2>4, StaysSame
<1>6. CASE Check(n)
  <2>1. run[n].pc = "check"
    BY <1>6 DEF Check
  <2>2. Cur(n).name # "Migrate"
    BY <2>1, InHand DEF PointsOf
  <2> QED
    BY <1>1, <1>2, <1>6, <2>1, <2>2, CheckEffect
<1>7. CASE CheckOthers(n)
  <2>1. run[n].pc = "others"
    BY <1>7 DEF CheckOthers
  <2>2. Cur(n).name # "Migrate" /\ Cur(n) \in tJob /\ Cur(n).c \in Containers
    BY <2>1, InHand DEF PointsOf
  <2>3. CASE Cur(n).name # "ChangeIP" /\ Advances(n, "name", run[n].new)
    BY <1>1, <2>2, <2>3
  <2>4. CASE \E q \in Rows : Returns(n, q)
    BY <1>2, <2>1, <2>4
  <2>5. CASE Others(n) = {} /\ Cur(n).name = "ChangeIP" /\ Advances(n, "read", run[n].new)
    <3>1. run'[n].pc = "read" /\ tJob' = tJob /\ \A q \in tJob' : Stays(q) \/ GoesOn(n, q)
      BY <2>5, Courses DEF Advances
    <3>2. PICK j \in tJob : j = Cur(n)
      BY <2>2
    <3>3. \A r \in tJob : r.c = j.c => r.name # "Migrate"
      BY <2>5, <3>2 DEF Others, Waits
    <3>4. RowsNamed("Migrate", j.c)' = {}
      BY <3>1, <3>3 DEF RowsNamed
    <3>5. ASSUME NEW q \in tJob', q.c = c, GoesOn(n, q) PROVE Same(c, q, q)
      <4>1. q = j /\ Stage(q)' = "read" /\ Like(q, q) /\ q.name = "ChangeIP"
        BY <2>5, <3>1, <3>2, <3>5 DEF GoesOn, Like
      <4> QED
        BY <3>4, <3>5, <4>1 DEF Same
    <3> QED
      BY <3>1, <3>5, StaysSame
  <2> QED
    BY <1>7, <2>3, <2>4, <2>5, CheckOthersEffect
<1>8. CASE Read(n)
  <2>1. Cur(n).name = "ChangeIP" /\ run[n].pc = "read"
    BY <1>8, AddressSteps
  <2>2. PICK W : W = {tContainer[Cur(n).c].uIPv4}
    OBVIOUS
  <2>3. Advances(n, "ipadd", W)
    BY <1>8, <2>2, AddressSteps
  <2>4. /\ run'[n].pc = "ipadd" /\ tJob' = tJob /\ \A q \in tJob' : Stays(q) \/ GoesOn(n, q)
        /\ run'[n].new = W
    BY <2>3, Courses DEF Advances
  <2>5. ASSUME NEW q \in tJob', q.c = c, GoesOn(n, q) PROVE Same(c, q, q)
    <3>1. /\ q = Cur(n) /\ Stage(q) = "read" /\ Stage(q)' = "ipadd" /\ Like(q, q)
          /\ q.name = "ChangeIP" /\ q.uNode = n
      BY <2>1, <2>4, <2>5 DEF GoesOn, Like
    <3>2. run'[q.uNode].new = {tContainer[c].uIPv4}
      BY <2>2, <2>5, <2>4, <3>1
    <3> QED
      BY <3>1, <3>2 DEF Same, Changing
  <2> QED
    BY <2>5, <2>4, StaysSame
<1>9. CASE IpAdd(n) \/ IpDel(n) \/ Release(n)
  BY <1>1, <1>9, AddressSteps
<1>10. CASE Name(n) \/ SetNode(n) \/ Die(n)
  BY <1>1, <1>10, OtherSteps
<1>11. CASE SwapRead(n)
  <2>1. Cur(n).name = "SwapIP" /\ \E W \in SUBSET Addresses : Advances(n, "swapdel", W)
    BY <1>11, OtherSteps
  <2> QED
    BY <1>1, <2>1
<1>12. CASE SwapStep(n)
  <2>1. /\ Cur(n).name = "SwapIP"
        /\ \E p \in {"swapdel2", "swapadd", "swapadd2", "status"} : Advances(n, p, run[n].new)
    BY <1>12, OtherSteps
  <2> QED
    BY <1>1, <2>1
<1>13. CASE SetStatus(n)
  <2> DEFINE p == IF Cur(n).name = "Migrate" THEN "node" ELSE "done"
  <2>1. Advances(n, p, run[n].new) /\ run[n].pc = "status"
    BY <1>13, OtherSteps
  <2>2. p \in {"node", "done"}
    OBVIOUS
  <2> HIDE DEF p
  <2> QED
    BY <1>1, <2>1, <2>2
<1> QED
  BY <1>4, <1>5, <1>6, <1>7, <1>8, <1>9, <1>10, <1>11, <1>12, <1>13 DEF Proceed

LEMMA MigrateStage ==
  ASSUME IndType, NEW q \in tJob, q.name = "Migrate"
  PROVE  Stage(q) \in PointsOf("Migrate") \cup {"waiting"}
<1>1. q.uNode \in Nodes /\ q.uJobStatus \in Statuses
  BY RowsTyped DEF IndType
<1>2. CASE q.uJobStatus = "WAITING"
  BY <1>2 DEF Stage
<1>3. CASE q.uJobStatus = "RUNNING"
  <2>1. run[q.uNode].cur = {q}
    BY <1>3 DEF IndType, JobsOK, RunningInHand
  <2>2. RunOK(q.uNode)
    BY <1>1 DEF IndType, JobsOK
  <2>3. run[q.uNode].pc \in PointsOf(q.name)
    BY <2>1, <2>2 DEF RunOK
  <2> QED
    BY <1>3, <2>3 DEF Stage
<1> QED
  BY <1>1, <1>2, <1>3 DEF Statuses

\* vzmigrate moves b away from the migration's node.
LEMMA MoveStep ==
  ASSUME IndType, IndType', NEW n \in Nodes, Move(n), NEW b \in Containers, b = Cur(n).c,
         MoveOK(b), "stray" \notin doubt'[b]
  PROVE  MoveOK(b)'
<1>1. /\ run[n].pc = "moving" /\ Cur(n).name = "Migrate" /\ Advances(n, "status", run[n].new)
  BY OtherSteps
<1>2. PICK j \in tJob : j = Cur(n)
  BY <1>1, InHand
<1>3. /\ j.name = "Migrate" /\ j.c = b /\ j.uNode = n /\ j.uJobStatus = "RUNNING"
      /\ Stage(j) = "moving" /\ j.target # j.uNode /\ j.target \in Nodes
      /\ j \in RowsNamed("Migrate", b)
  BY <1>1, <1>2, InHand, RowsTyped DEF Stage, IndType, JobsOK, RowOK, RowsNamed
<1>4. /\ place'[b] = j.target /\ tContainer' = tContainer /\ place[b] = n
      /\ \A r \in RowsOf(b) : r # j => r.uNode = j.target
  BY <1>2 DEF Move, IndType, TypeOK, Records
<1>5. j.uNode = place[b] /\ Node(b) = place[b]
  BY <1>3 DEF MoveOK, MigrationOK, Ahead
<1>6. /\ tJob' = tJob /\ run'[n].pc = "status" /\ \A q \in tJob' : Stays(q) \/ GoesOn(n, q)
  BY <1>1, Courses DEF Advances
<1>7. \A q \in tJob : q # j => Stays(q)
  BY <1>2, <1>6 DEF GoesOn
<1>8. Stage(j)' = "status"
  BY <1>3, <1>6 DEF Stage
<1>9. \A r \in tJob : r.c = b /\ r # j => r.uNode = j.target
  BY <1>4 DEF RowsOf, Of
<1>10. ASSUME NEW q \in RowsNamed("Migrate", b), q # j PROVE Stage(q)' \in Behind
  <2>1. q \in tJob /\ q.uNode = j.target /\ Stage(q)' = Stage(q) /\ q.name = "Migrate"
        /\ q.uJobStatus \in Statuses
    BY <1>7, <1>9, <1>10, RowsTyped DEF RowsNamed, Stays, IndType
  <2>2. Stage(q) \notin Ahead
    BY <1>3, <1>5, <2>1 DEF MoveOK, MigrationOK
  <2>3. Stage(q) \notin {"status", "node"}
    BY <1>3, <1>10 DEF MoveOK, MigrationOK, Behind
  <2>4. Stage(q) \in PointsOf("Migrate") \cup {"waiting"}
    BY <2>1, MigrateStage
  <2> QED
    BY <2>1, <2>2, <2>3, <2>4 DEF PointsOf, Ahead, Behind
<1>11. RowsNamed("Migrate", b)' = RowsNamed("Migrate", b)
       /\ RowsNamed("ChangeIP", b)' = RowsNamed("ChangeIP", b)
  BY <1>6 DEF RowsNamed
<1>12. MigrationOK(b)'
  <2>1. ASSUME NEW q \in RowsNamed("Migrate", b), q # j
        PROVE  Stage(q)' \notin Ahead /\ Stage(q)' \notin {"status", "node"}
    BY <1>10, <2>1 DEF Ahead, Behind
  <2>2. j.target = place'[b] /\ j.uNode = tContainer'[b].uNode
    BY <1>4, <1>5 DEF Node
  <2> QED
    BY <1>8, <1>10, <1>11, <2>1, <2>2 DEF MigrationOK, Node, Ahead
<1>13. WaiterOK(b)'
  BY <1>3, <1>4, <1>6, <1>9 DEF WaiterOK, Waits
<1>14. AloneOK(b)'
  <2> SUFFICES ASSUME NEW r \in RowsNamed("ChangeIP", b), NEW q \in RowsNamed("Migrate", b),
                      Stage(r)' \in Changing
               PROVE  Stage(q)' \in Behind \/ (Stage(q)' \in Ahead /\ q.target # r.uNode)
    BY <1>11 DEF AloneOK
  <2>1. r \in tJob /\ r # j /\ r.uNode = j.target
    BY <1>3, <1>9 DEF RowsNamed
  <2>2. Stage(r) \in Changing
    BY <1>7, <2>1 DEF Stays
  <2>3. j.target # r.uNode
    BY <1>3, <2>2 DEF MoveOK, AloneOK, Behind
  <2> QED
    BY <2>1, <2>3
<1>15. CenterOK(b)'
  <2>1. ASSUME NEW r \in RowsNamed("ChangeIP", b)
        PROVE  /\ Datacenter[tContainer'[b].uIPv4] = Datacenter[r.uNode]
               /\ Stage(r)' = "ipadd" => \A a \in run'[r.uNode].new : Datacenter[a] = Datacenter[r.uNode]
    <3>1. r \in tJob /\ r # j
      BY <1>3 DEF RowsNamed
    <3> QED
      BY <1>4, <1>7, <3>1 DEF Stays, MoveOK, CenterOK
  <2> QED
    BY <1>11, <2>1 DEF CenterOK
<1> QED
  BY <1>12, <1>13, <1>14, <1>15 DEF MoveOK

LEMMA MoveOther ==
  ASSUME IndType, IndType', NEW n \in Nodes, Move(n), NEW c \in Containers, c # Cur(n).c, MoveOK(c)
  PROVE  MoveOK(c)'
<1>1. Advances(n, "status", run[n].new)
  BY OtherSteps
<1>2. tJob' = tJob /\ \A q \in tJob' : Stays(q) \/ GoesOn(n, q)
  BY <1>1, Courses DEF Advances
<1>3. \A q \in tJob' : q.c = c => \E r \in tJob : Same(c, q, r)
  BY <1>2, StaysSame DEF GoesOn
<1>4. place'[c] = place[c] /\ tContainer' = tContainer
  BY DEF Move, Records, IndType, TypeOK
<1> QED
  BY <1>3, <1>4, MoveKept

\* The record names the new node once no migration is left that has not.
LEMMA RecordedMove ==
  ASSUME IndType, NEW n \in Nodes, SetNode(n), NEW c \in Containers, c = Cur(n).c, MoveOK(c)
  PROVE  \A q \in RowsNamed("Migrate", c)' : Stage(q)' \in Behind
<1>1. run[n].pc = "node" /\ Cur(n).name = "Migrate" /\ Advances(n, "done", run[n].new)
  BY OtherSteps
<1>2. /\ Cur(n) \in tJob /\ Cur(n).uNode = n /\ Cur(n).uJobStatus = "RUNNING"
  BY <1>1, InHand
<1>3. Stage(Cur(n)) = "node" /\ Cur(n) \in RowsNamed("Migrate", c)
  BY <1>1, <1>2 DEF Stage, RowsNamed
<1>4. /\ tJob' = tJob /\ run'[n].pc = "done" /\ \A q \in tJob' : Stays(q) \/ GoesOn(n, q)
  BY <1>1, Courses DEF Advances
<1>5. ASSUME NEW q \in RowsNamed("Migrate", c)', GoesOn(n, q) PROVE Stage(q)' \in Behind
  BY <1>4, <1>5 DEF GoesOn, Behind
<1>6. ASSUME NEW q \in RowsNamed("Migrate", c)', Stays(q), q # Cur(n) PROVE Stage(q)' \in Behind
  <2>1. q \in RowsNamed("Migrate", c) /\ Stage(q)' = Stage(q)
    BY <1>6 DEF RowsNamed, Stays
  <2> QED
    BY <1>3, <1>6, <2>1 DEF MoveOK, MigrationOK
<1>7. ASSUME NEW q \in tJob', q = Cur(n) PROVE GoesOn(n, q) \/ Stage(q)' \in Behind
  BY <1>2, <1>4, <1>7 DEF Stage, Behind
<1> QED
  BY <1>4, <1>5, <1>6, <1>7 DEF RowsNamed

LEMMA RunnerMove ==
  ASSUME IndType, IndType', NEW n \in Nodes, Proceed(n) \/ Fail(n) \/ Die(n),
         NEW c \in Containers, MoveOK(c), "stray" \notin doubt'[c]
  PROVE  MoveOK(c)'
<1>1. CASE Move(n)
  BY <1>1, MoveOther, MoveStep
<1>2. CASE ~Move(n)
  <2>1. \A q \in tJob' : q.c = c => \E r \in tJob : Same(c, q, r)
    BY <1>2, SameSteps
  <2>2. CASE SetStatus(n) \/ SetNode(n)
    <3>1. place' = place
      BY <2>2 DEF SetStatus, SetNode
    <3>2. \/ tContainer'[c].uNode = tContainer[c].uNode
          \/ \A q \in RowsNamed("Migrate", c)' : Stage(q)' \in Behind
      BY <2>2, SetEffect, RecordedMove
    <3>3. tContainer'[c].uIPv4 = tContainer[c].uIPv4
      BY <2>2, SetEffect
    <3> QED
      BY <2>1, <3>1, <3>2, <3>3, MoveKept
  <2>3. CASE ~(SetStatus(n) \/ SetNode(n))
    <3>1. CASE Read(n) \/ IpAdd(n) \/ IpDel(n) \/ Release(n) \/ Name(n) \/ SwapRead(n) \/ SwapStep(n)
      <4>1. tContainer' = tContainer /\ place' = place
        BY <3>1 DEF Read, IpAdd, IpDel, Release, Name, SwapRead, SwapStep, Records
      <4> QED
        BY <2>1, <4>1, MoveKept
    <3>2. CASE \/ Select(n) \/ Begin(n) \/ Check(n) \/ CheckOthers(n)
               \/ JobDone(n) \/ Fail(n) \/ Gone(n) \/ Die(n)
      <4>1. tContainer' = tContainer /\ place' = place
        BY <3>2 DEF Select, Begin, Check, CheckOthers, JobDone, Fail, Gone, Die, Records
      <4> QED
        BY <2>1, <4>1, MoveKept
    <3> QED
      BY <1>2, <2>3, <3>1, <3>2 DEF Proceed
  <2> QED
    BY <2>2, <2>3
<1> QED
  BY <1>1, <1>2

\* The rows of others are left as they are.
LEMMA PageOther ==
  ASSUME IndType, IndType', NEW s \in Sessions, NEW new, Inserts(s, new),
         NEW c \in Containers, c # page[s].c, page[s].op # "swap",
         \A r \in new : r.c = page[s].c, MoveOK(c)
  PROVE  MoveOK(c)'
<1>1. \A q \in tJob' : q.c = c => q \in tJob /\ Stays(q)
  BY InsertCourses
<1>2. \A q \in tJob' : q.c = c => \E r \in tJob : Same(c, q, r)
  BY <1>1, StaysSame
<1>3. tContainer'[c] = tContainer[c] /\ place'[c] = place[c]
  BY DEF Inserts
<1> QED
  BY <1>2, <1>3, MoveKept

\* What is not in doubt after a page holds of its container.
LEMMA NotWrong ==
  ASSUME IndType, NEW s \in Sessions, NEW new, Inserts(s, new),
         NEW b \in Containers, b = page[s].c, Sure(b)', \A r \in new : r.c = b
  PROVE  /\ Node(b) = page[s].node /\ tContainer[b].uIPv4 = page[s].uIPv4
         /\ \A r \in new : \/ place[b] = r.uNode
                           \/ \E i \in new : i.name = "Migrate" /\ i.target = r.uNode
         /\ \A r \in new, q \in tJob : r.name \in Waits /\ q.c = b => q.name # r.name
<1>1. Wrong(s, b, new) \cap {"swap", "stale", "twice", "stray"} = {}
  BY DEF Inserts, Sure
<1>2. ~Twice(b, new) /\ ~Stray(b, new)
  BY <1>1 DEF Wrong
<1>3. tContainer[b] = [uStatus |-> page[s].uStatus, uNode |-> page[s].node, uIPv4 |-> page[s].uIPv4]
  BY <1>1 DEF Wrong
<1>4. Node(b) = page[s].node /\ tContainer[b].uIPv4 = page[s].uIPv4
  BY <1>3 DEF Node
<1> QED
  BY <1>2, <1>4 DEF Twice, Stray, Of

\* The rows new of a page are for a container that is where it is recorded.
PageFits(new, b) ==
    /\ Node(b) = place[b]
    /\ \A r \in new : r.name = "Migrate" => r.uNode = place[b]
    /\ \A r \in new : r.name \in Waits =>
          r.uNode = place[b] \/ Datacenter[r.uNode] # Datacenter[place[b]]
    /\ \A r \in RowsNamed("ChangeIP", b), q \in new :
          q.name = "Migrate" => q.target # r.uNode
    /\ \A r \in RowsNamed("ChangeIP", b)' :
          Datacenter[tContainer'[b].uIPv4] = Datacenter[r.uNode]

LEMMA PageOwn ==
  ASSUME IndType, IndType', NEW s \in Sessions, NEW new, Inserts(s, new),
         NEW b \in Containers, \A r \in new : r.c = b, MoveOK(b), PageFits(new, b)
  PROVE  MoveOK(b)'
<1>1. /\ tJob' = tJob \cup new /\ place' = place /\ run' = run
      /\ \A q \in tJob : Stays(q)
      /\ \A q \in new : Stage(q)' = "waiting"
      /\ tContainer'[b].uNode = tContainer[b].uNode
  BY InsertCourses DEF Inserts
<1>2. \A name : \A q \in RowsNamed(name, b)' :
          \/ q \in new /\ q.name = name /\ Stage(q)' = "waiting"
          \/ q \in RowsNamed(name, b) /\ q \in tJob /\ q.name = name /\ Stage(q)' = Stage(q)
  BY <1>1 DEF RowsNamed, Stays
<1>3. MigrationOK(b)'
  <2> SUFFICES ASSUME NEW q \in RowsNamed("Migrate", b)'
               PROVE  /\ Stage(q)' \in Ahead => q.uNode = place'[b] /\ tContainer'[b].uNode = place'[b]
                      /\ Stage(q)' \notin {"status", "node"}
    BY DEF MigrationOK, Node
  <2>1. CASE q \in new /\ q.name = "Migrate" /\ Stage(q)' = "waiting"
    BY <1>1, <2>1 DEF PageFits, Node
  <2>2. CASE q \in RowsNamed("Migrate", b) /\ q \in tJob /\ q.name = "Migrate" /\ Stage(q)' = Stage(q)
    <3>1. q.target # q.uNode
      BY <2>2 DEF IndType, JobsOK, RowOK
    <3> QED
      BY <1>1, <2>2, <3>1 DEF PageFits, MoveOK, MigrationOK, Node
  <2> QED
    BY <1>2, <2>1, <2>2
<1>4. WaiterOK(b)'
  <2> SUFFICES ASSUME NEW q \in tJob', q.c = b, q.name \in Waits
               PROVE  q.uNode = place[b] \/ Datacenter[q.uNode] # Datacenter[place[b]]
    BY <1>1 DEF WaiterOK
  <2> QED
    BY <1>1 DEF PageFits, MoveOK, WaiterOK
<1>5. AloneOK(b)'
  <2> SUFFICES ASSUME NEW r \in RowsNamed("ChangeIP", b)', NEW q \in RowsNamed("Migrate", b)',
                      Stage(r)' \in Changing
               PROVE  Stage(q)' \in Behind \/ (Stage(q)' \in Ahead /\ q.target # r.uNode)
    BY DEF AloneOK
  <2>1. r \in RowsNamed("ChangeIP", b) /\ Stage(r) \in Changing
    BY <1>2 DEF Changing
  <2>2. CASE q \in new /\ q.name = "Migrate" /\ Stage(q)' = "waiting"
    BY <2>1, <2>2 DEF PageFits, Ahead
  <2>3. CASE q \in RowsNamed("Migrate", b) /\ Stage(q)' = Stage(q)
    BY <2>1, <2>3 DEF MoveOK, AloneOK
  <2> QED
    BY <1>2, <2>2, <2>3
<1>6. CenterOK(b)'
  <2>1. ASSUME NEW r \in RowsNamed("ChangeIP", b)', Stage(r)' = "ipadd"
        PROVE  \A a \in run'[r.uNode].new : Datacenter[a] = Datacenter[r.uNode]
    <3>1. r \in RowsNamed("ChangeIP", b) /\ Stage(r) = "ipadd"
      BY <1>2, <2>1
    <3> QED
      BY <1>1, <3>1 DEF MoveOK, CenterOK
  <2> QED
    BY <2>1 DEF CenterOK, PageFits
<1> QED
  BY <1>3, <1>4, <1>5, <1>6 DEF MoveOK

\* A job for the node of the page and no migration: the container is there.
LEMMA PlainPage ==
  ASSUME IndType, IndType', NEW s \in Sessions, NEW j \in Rows, Inserts(s, {j}),
         page[s].op \in {"ip", "hostname"}, NEW a, OneAddress(page[s].c, a),
         j.name = (IF page[s].op = "ip" THEN "ChangeIP" ELSE "ChangeHostname"),
         j.c = page[s].c, j.uNode = page[s].node,
         a = (IF page[s].op = "ip" THEN page[s].ip ELSE tContainer[page[s].c].uIPv4),
         NEW c \in Containers, MoveOK(c), Sure(c)'
  PROVE  MoveOK(c)'
<1>1. CASE c # page[s].c
  BY <1>1, PageOther
<1>2. CASE c = page[s].c
  <2>1. /\ Node(c) = page[s].node /\ tContainer[c].uIPv4 = page[s].uIPv4
        /\ \A r \in {j} : \/ place[c] = r.uNode
                          \/ \E i \in {j} : i.name = "Migrate" /\ i.target = r.uNode
        /\ \A r \in {j}, q \in tJob : r.name \in Waits /\ q.c = c => q.name # r.name
    BY <1>2, NotWrong
  <2>2. Node(c) = place[c] /\ j.uNode = place[c] /\ j.name # "Migrate"
    BY <2>1
  <2>3. tJob' = tJob \cup {j} /\ tContainer'[c].uIPv4 = a
    BY <1>2 DEF Inserts, OneAddress
  <2>4. ASSUME NEW r \in RowsNamed("ChangeIP", c)'
        PROVE  Datacenter[tContainer'[c].uIPv4] = Datacenter[r.uNode]
    <3>1. r = j \/ r \in RowsNamed("ChangeIP", c)
      BY <2>3 DEF RowsNamed
    <3>2. CASE page[s].op = "ip"
      <4>1. r = j
        BY <2>1, <3>1, <3>2 DEF RowsNamed, Waits
      <4>2. Datacenter[page[s].ip] = Datacenter[page[s].node]
        BY <3>2 DEF IndType, JobsOK, PageOK, Inserts
      <4> QED
        BY <2>3, <3>2, <4>1, <4>2
    <3>3. CASE page[s].op = "hostname"
      <4>1. r \in RowsNamed("ChangeIP", c)
        BY <3>1, <3>3 DEF RowsNamed
      <4> QED
        BY <1>2, <2>3, <3>3, <4>1 DEF MoveOK, CenterOK
    <3> QED
      BY <3>2, <3>3
  <2>5. PageFits({j}, c)
    BY <2>2, <2>4 DEF PageFits
  <2> QED
    BY <1>2, <2>5, PageOwn
<1> QED
  BY <1>1, <1>2

LEMMA MigratePage ==
  ASSUME IndType, IndType', NEW s \in Sessions, MigrateContainer(s),
         NEW c \in Containers, MoveOK(c), Sure(c)'
  PROVE  MoveOK(c)'
<1>1. PICK j \in Rows :
          /\ Inserts(s, {j}) /\ page[s].op = "migration"
          /\ j.name = "Migrate" /\ j.c = page[s].c /\ j.uNode = page[s].node
          /\ OneAddress(page[s].c, tContainer[page[s].c].uIPv4) /\ available' = available
  BY MigrateEffect
<1>2. CASE c # page[s].c
  BY <1>1, <1>2, PageOther
<1>3. CASE c = page[s].c
  <2>1. /\ Node(c) = page[s].node
        /\ \A r \in {j} : \/ place[c] = r.uNode
                          \/ \E i \in {j} : i.name = "Migrate" /\ i.target = r.uNode
    BY <1>1, <1>3, NotWrong
  <2>2. /\ j.target = page[s].target /\ page[s].target # page[s].node
        /\ Datacenter[page[s].target] = Datacenter[page[s].node]
    BY <1>1 DEF Inserts, FromPage, IndType, JobsOK, PageOK
  <2>3. Node(c) = place[c] /\ j.uNode = place[c]
    BY <1>1, <2>1, <2>2
  <2>4. \A r \in RowsNamed("ChangeIP", c) : j.target # r.uNode
    BY <2>1, <2>2, <2>3 DEF RowsNamed, MoveOK, WaiterOK, Waits
  <2>5. RowsNamed("ChangeIP", c)' \subseteq RowsNamed("ChangeIP", c)
        /\ tContainer'[c].uIPv4 = tContainer[c].uIPv4
    BY <1>1, <1>3 DEF RowsNamed, Inserts, OneAddress
  <2>6. PageFits({j}, c)
    BY <1>1, <2>3, <2>4, <2>5 DEF PageFits, Waits, MoveOK, CenterOK
  <2> QED
    BY <1>1, <1>3, <2>6, PageOwn
<1> QED
  BY <1>2, <1>3

\* "This job must run after migration": the jobs of the other node wait for the
\* container to come.
LEMMA RemotePage ==
  ASSUME IndType, IndType', NEW s \in Sessions, RemoteMigration(s),
         NEW c \in Containers, MoveOK(c), Sure(c)'
  PROVE  MoveOK(c)'
<1>1. PICK j \in Rows, k \in Rows, h \in SUBSET Rows :
          /\ Inserts(s, {j, k} \cup h) /\ page[s].op = "remote"
          /\ j.name = "Migrate" /\ j.c = page[s].c /\ j.uNode = page[s].node
          /\ k.name = "ChangeIP" /\ k.c = page[s].c /\ k.uNode = page[s].target
          /\ k.old = page[s].uIPv4
          /\ \A i \in h : i.name = "ChangeHostname" /\ i.c = page[s].c
                          /\ i.uNode = page[s].target
          /\ OneAddress(page[s].c, page[s].ip) /\ available' = available \ {page[s].ip}
  BY RemoteEffect
<1>2. PICK new : new = {j, k} \cup h
  OBVIOUS
<1>3. /\ Inserts(s, new) /\ \A r \in new : r.c = page[s].c
      /\ \A r \in new : r.name = "Migrate" => r.uNode = page[s].node
      /\ \A r \in new : r.name \in Waits => r.uNode = page[s].target
      /\ \A r \in new : r.target = page[s].target
  BY <1>1, <1>2 DEF Waits, Inserts, FromPage
<1>4. CASE c # page[s].c
  BY <1>1, <1>3, <1>4, PageOther
<1>5. CASE c = page[s].c
  <2>1. /\ Node(c) = page[s].node
        /\ \A r \in new : \/ place[c] = r.uNode
                          \/ \E i \in new : i.name = "Migrate" /\ i.target = r.uNode
        /\ \A r \in new, q \in tJob : r.name \in Waits /\ q.c = c => q.name # r.name
    BY <1>3, <1>5, NotWrong
  <2>2. /\ page[s].target # page[s].node
        /\ Datacenter[page[s].target] # Datacenter[page[s].node]
        /\ Datacenter[page[s].ip] = Datacenter[page[s].target]
    BY <1>1, <1>3 DEF Inserts, IndType, JobsOK, PageOK
  <2>3. Node(c) = place[c] /\ page[s].node = place[c]
    BY <1>1, <1>2, <1>3, <2>1, <2>2
  <2>4. RowsNamed("ChangeIP", c) = {}
    BY <1>1, <1>2, <2>1 DEF RowsNamed, Waits
  <2>5. \A r \in RowsNamed("ChangeIP", c)' : r \in new /\ r.name = "ChangeIP"
    BY <1>3, <2>4 DEF RowsNamed, Inserts
  <2>6. tContainer'[c].uIPv4 = page[s].ip
    BY <1>1, <1>5 DEF OneAddress
  <2>7. PageFits(new, c)
    BY <1>3, <2>2, <2>3, <2>4, <2>5, <2>6 DEF PageFits, Waits
  <2> QED
    BY <1>3, <1>5, <2>7, PageOwn
<1> QED
  BY <1>4, <1>5

LEMMA SwapPage ==
  ASSUME IndType, IndType', NEW s \in Sessions, Swap(s),
         NEW c \in Containers, MoveOK(c), Sure(c)'
  PROVE  MoveOK(c)'
<1>1. PICK new \in SUBSET Rows :
          /\ Inserts(s, new) /\ page[s].op = "swap"
          /\ "swap" \in doubt'[page[s].c] /\ "swap" \in doubt'[page[s].with]
          /\ \A r \in new : /\ r.name \in {"ChangeIP", "SwapIP"}
                            /\ r.c \in {page[s].c, page[s].with}
          /\ available' = available
  BY SwapEffect
<1>2. c # page[s].c /\ c # page[s].with
  BY <1>1 DEF Sure
<1>3. \A q \in tJob' : q.c = c => q \in tJob /\ Stays(q)
  BY <1>1, <1>2, InsertCourses
<1>4. \A q \in tJob' : q.c = c => \E r \in tJob : Same(c, q, r)
  BY <1>3, StaysSame
<1>5. tContainer'[c] = tContainer[c] /\ place'[c] = place[c]
  BY <1>1, <1>2 DEF Inserts
<1> QED
  BY <1>4, <1>5, MoveKept

LEMMA PageMove ==
  ASSUME IndType, IndType', NEW s \in Sessions, Acts(s),
         NEW c \in Containers, MoveOK(c), Sure(c)'
  PROVE  MoveOK(c)'
<1>1. CASE HostnameChange(s)
  <2>1. PICK r \in Rows :
            /\ Inserts(s, {r}) /\ page[s].op = "hostname"
            /\ r.name = "ChangeHostname" /\ r.c = page[s].c /\ r.uNode = page[s].node
            /\ OneAddress(page[s].c, tContainer[page[s].c].uIPv4) /\ available' = available
    BY <1>1, HostnameEffect
  <2> QED
    BY <2>1, PlainPage
<1>2. CASE IPChange(s)
  <2>1. PICK r \in Rows :
            /\ Inserts(s, {r}) /\ page[s].op = "ip"
            /\ r.name = "ChangeIP" /\ r.c = page[s].c /\ r.uNode = page[s].node
            /\ r.old = tContainer[page[s].c].uIPv4
            /\ OneAddress(page[s].c, page[s].ip) /\ available' = available \ {page[s].ip}
    BY <1>2, IPEffect
  <2> QED
    BY <2>1, PlainPage
<1> QED
  BY <1>1, <1>2, MigratePage, RemotePage, SwapPage DEF Acts

LEMMA MoveInit == Init => IndMove
<1> SUFFICES ASSUME Init PROVE \A c \in Containers : MoveOK(c)
  BY TypeInit DEF IndMove
<1> QED
  BY DEF Init, MoveOK, MigrationOK, WaiterOK, AloneOK, CenterOK, RowsNamed

LEMMA MoveNext == IndMove /\ [Next]_vars => IndMove'
<1> SUFFICES ASSUME IndMove, [Next]_vars, NEW c \in Containers, Sure(c)' PROVE MoveOK(c)'
  BY TypeStep DEF IndMove
<1>1. IndType /\ IndType' /\ doubt[c] \subseteq doubt'[c]
  BY TypeStep, DoubtsGrow DEF IndMove
<1>2. MoveOK(c)
  BY <1>1 DEF IndMove, Sure
<1>3. ASSUME NEW s \in Sessions, Acts(s) PROVE MoveOK(c)'
  BY <1>1, <1>2, <1>3, PageMove
<1>4. ASSUME NEW n \in Nodes, Proceed(n) \/ Fail(n) \/ Die(n) PROVE MoveOK(c)'
  BY <1>1, <1>2, <1>4, RunnerMove DEF Sure
<1>5. ASSUME UNCHANGED <<place, tJob, run>>,
             \A d \in Containers : /\ tContainer'[d].uNode = tContainer[d].uNode
                                   /\ tContainer'[d].uIPv4 = tContainer[d].uIPv4
      PROVE  MoveOK(c)'
  <2>1. \A q \in tJob' : q.c = c => q \in tJob /\ Stays(q)
    BY <1>5 DEF Stays, Stage
  <2>2. \A q \in tJob' : q.c = c => \E r \in tJob : Same(c, q, r)
    BY <2>1, StaysSame
  <2> QED
    BY <1>1, <1>2, <1>5, <2>2, MoveKept
<1>6. ASSUME NEW s \in Sessions, Confirm(s) PROVE MoveOK(c)'
  BY <1>5, <1>6 DEF Confirm
<1>7. ASSUME NEW d \in Containers, StatusChange(d) PROVE MoveOK(c)'
  BY <1>1, <1>5, <1>7, StatusEffect
<1>8. CASE UNCHANGED vars
  BY <1>5, <1>8 DEF vars
<1> QED
  BY <1>3, <1>4, <1>6, <1>7, <1>8 DEF Next

\* Only these change the addresses of a container.
LEMMA WhoChanges ==
  ASSUME IndType, Next, ips' # ips
  PROVE  \E n \in Nodes : IpAdd(n) \/ IpDel(n) \/ SwapStep(n)
<1>1. ASSUME NEW s \in Sessions, Confirm(s) \/ Acts(s) PROVE FALSE
  <2>1. CASE Confirm(s)
    BY <2>1 DEF Confirm
  <2>2. CASE Acts(s)
    <3>1. \E new : Inserts(s, new)
      BY <2>2, MigrateEffect, HostnameEffect, IPEffect, RemoteEffect, SwapEffect DEF Acts
    <3> QED
      BY <3>1 DEF Inserts
  <2> QED
    BY <1>1, <2>1, <2>2
<1>2. ASSUME NEW c \in Containers, StatusChange(c) PROVE FALSE
  BY <1>2 DEF StatusChange
<1>3. ASSUME NEW n \in Nodes, Proceed(n) \/ Fail(n) \/ Die(n), ~(IpAdd(n) \/ IpDel(n) \/ SwapStep(n))
      PROVE  FALSE
  <2>1. CASE Select(n) \/ Begin(n) \/ Check(n) \/ CheckOthers(n) \/ JobDone(n) \/ Fail(n) \/ Gone(n) \/ Die(n)
    BY <2>1 DEF Select, Begin, Check, CheckOthers, JobDone, Fail, Gone, Die
  <2>2. CASE Read(n) \/ Release(n) \/ Name(n) \/ Move(n) \/ SwapRead(n) \/ SetStatus(n) \/ SetNode(n)
    BY <2>2 DEF Read, Release, Name, Move, SwapRead, SetStatus, SetNode
  <2> QED
    BY <1>3, <2>1, <2>2 DEF Proceed
<1> QED
  BY <1>1, <1>2, <1>3 DEF Next

\* The handler that gives or takes an address is where the container is.
LEMMA ChangesHere ==
  ASSUME IndType, NEW n \in Nodes, IpAdd(n) \/ IpDel(n),
         NEW c \in Containers, c = Cur(n).c, MoveOK(c)
  PROVE  Changes(place[c], c) /\ ~Moving(c) /\ place[c] = n
<1>1. /\ run[n].pc \in {"ipadd", "ipdel"} /\ Cur(n).name = "ChangeIP"
      /\ \E p \in {"ipdel", "release"} : Advances(n, p, run[n].new) /\ p # run[n].pc
  BY AddressSteps
<1>2. PICK j \in tJob : j = Cur(n)
  BY <1>1, InHand
<1>3. /\ j.uNode = n /\ j.uJobStatus = "RUNNING" /\ run[n].cur = {j}
      /\ Stage(j) \in Changing /\ j \in RowsNamed("ChangeIP", c)
  BY <1>1, <1>2, InHand DEF Stage, Changing, RowsNamed
<1>4. ASSUME NEW m \in Nodes, At(m, "moving", "Migrate"), Cur(m).c = c
      PROVE  /\ Cur(m) \in RowsNamed("Migrate", c) /\ Stage(Cur(m)) = "moving" /\ Cur(m).uNode = m
  BY <1>4, InHand DEF At, Stage, RowsNamed
<1>5. place[c] = n
  <2>1. TRUE \in Vzlist(n, c)
    BY DEF IpAdd, IpDel, Here
  <2>2. ASSUME NEW m \in Nodes, At(m, "moving", "Migrate"), Cur(m).c = c, Cur(m).target = n
        PROVE  FALSE
    BY <1>3, <1>4, <2>2 DEF MoveOK, AloneOK, Behind
  <2>3. ~Coming(n, c)
    BY <2>2 DEF Coming
  <2> QED
    BY <2>1, <2>3 DEF Vzlist
<1>6. ASSUME NEW m \in Nodes, At(m, "moving", "Migrate"), Cur(m).c = c PROVE FALSE
  <2>1. m = place[c]
    BY <1>4, <1>6 DEF MoveOK, MigrationOK, Ahead
  <2> QED
    BY <1>1, <1>5, <1>6, <2>1 DEF At
<1>7. run'[n] # run[n] /\ Of(c, Cur(n))
  BY <1>1 DEF Advances, RunIs, Of
<1> QED
  BY <1>3, <1>5, <1>6, <1>7 DEF Changes, Moving

LEMMA ChangeAfterMove ==
  ASSUME IndMove, Next, NEW c \in Containers, ips'[c] # ips[c], Sure(c)
  PROVE  /\ Changes(place[c], c) /\ ~Moving(c)
         /\ \A a \in ips'[c] \ ips[c] : Datacenter[a] = Datacenter[place[c]]
<1>1. IndType /\ MoveOK(c)
  BY DEF IndMove
<1>2. PICK n \in Nodes : IpAdd(n) \/ IpDel(n) \/ SwapStep(n)
  BY <1>1, WhoChanges
<1>3. CASE SwapStep(n)
  <2>1. /\ run[n].pc \in {"swapdel", "swapdel2", "swapadd", "swapadd2"} /\ Cur(n).name = "SwapIP"
    BY <1>1, <1>3, OtherSteps DEF SwapStep
  <2>2. PICK j \in tJob : j = Cur(n)
    BY <1>1, <2>1, InHand
  <2>3. c = j.c \/ c = j.with
    BY <1>1, <1>3, <2>2 DEF SwapStep, IndType, TypeOK
  <2> QED
    BY <1>1, <2>1, <2>2, <2>3 DEF IndType, JobsOK, RowOK, Sure
<1>4. CASE IpAdd(n)
  <2>1. c = Cur(n).c /\ ips'[c] = ips[c] \cup run[n].new
    BY <1>1, <1>4 DEF IpAdd, IndType, TypeOK
  <2>2. Changes(place[c], c) /\ ~Moving(c) /\ place[c] = n
    BY <1>1, <1>4, <2>1, ChangesHere
  <2>3. /\ Cur(n).name = "ChangeIP" /\ run[n].pc = "ipadd" /\ Cur(n) \in tJob
        /\ Cur(n).uJobStatus = "RUNNING" /\ Cur(n).uNode = n
    BY <1>1, <1>4, AddressSteps, InHand
  <2>4. Stage(Cur(n)) = "ipadd" /\ Cur(n) \in RowsNamed("ChangeIP", c)
    BY <2>1, <2>3 DEF Stage, RowsNamed
  <2>5. \A a \in run[n].new : Datacenter[a] = Datacenter[n]
    BY <1>1, <2>3, <2>4 DEF MoveOK, CenterOK
  <2> QED
    BY <2>1, <2>2, <2>5
<1>5. CASE IpDel(n)
  <2>1. c = Cur(n).c /\ ips'[c] = ips[c] \ {Cur(n).old}
    BY <1>1, <1>5 DEF IpDel, IndType, TypeOK
  <2>2. Changes(place[c], c) /\ ~Moving(c)
    BY <1>1, <1>5, <2>1, ChangesHere
  <2> QED
    BY <2>1, <2>2
<1> QED
  BY <1>2, <1>3, <1>4, <1>5

\* The addresses of a container are changed by the node that it is on, never
\* while it is being moved, and it gets one of that node's data center: for
\* as long as none of the overlaps of pages has happened to it that no check
\* of the code excludes.
THEOREM AddressesAfterMoves == Spec => AfterMove
<1> DEFINE A == \A c \in Containers :
        ips'[c] # ips[c] /\ doubt[c] \cap {"swap", "stale", "twice", "stray"} = {} =>
            /\ Changes(place[c], c) /\ ~Moving(c)
            /\ \A a \in ips'[c] \ ips[c] : Datacenter[a] = Datacenter[place[c]]
<1>1. IndMove /\ [Next]_vars => [A]_vars
  BY ChangeAfterMove DEF Sure
<1> HIDE DEF A
<1>2. Spec => []IndMove /\ [][Next]_vars
  BY MoveInit, MoveNext, PTL DEF Spec
<1>3. Spec => [][A]_vars
  BY <1>1, <1>2, PTL
<1> QED
  BY <1>3 DEF A, AfterMove

-----------------------------------------------------------------------------
(***************************** Awaiting a job ******************************)

\* The row is there, like it was, and still to set the status
Lasts(r) == \E q \in tJob' : Like(q, r) /\ ~Over(q)'

\* A runner's step takes no row away before it has set the status.
LEMMA RowsLast ==
  ASSUME IndType, NEW n \in Nodes, NEW r \in tJob, ~Over(r)
  PROVE  /\ Select(n) => Lasts(r)
         /\ \A p, W : Advances(n, p, W) /\ (p \in {"node", "done"} => r # Cur(n)) => Lasts(r)
         /\ Drops(n) /\ r # Cur(n) => Lasts(r)
         /\ \A q : Returns(n, q) => Lasts(r)
         /\ \A i, q : Takes(n, i, q) => Lasts(r)
<1>1. /\ r.uNode \in Nodes /\ r.name \in JobNames
      /\ r.uJobStatus = "RUNNING" => run[r.uNode].cur = {r} /\ run[r.uNode].pc \notin {"node", "done"}
      /\ r.uJobStatus = "RUNNING" /\ r.uNode = n => run[n].pc \notin Idlers /\ r = Cur(n)
  <2>1. r.uNode \in Nodes /\ r.name \in JobNames
    BY RowsTyped DEF IndType
  <2>2. r.uJobStatus = "RUNNING" => run[r.uNode].cur = {r} /\ run[r.uNode].pc \notin {"node", "done"}
    BY DEF IndType, JobsOK, RunningInHand, Over
  <2>3. RunOK(n)
    BY DEF IndType, JobsOK
  <2>4. ASSUME r.uJobStatus = "RUNNING", r.uNode = n PROVE run[n].pc \notin Idlers /\ r = Cur(n)
    BY <2>2, <2>3, <2>4 DEF RunOK, Cur, Idlers
  <2> QED
    BY <2>1, <2>2, <2>4
<1>2. ASSUME r \in tJob', r.uJobStatus = "RUNNING" /\ r.uNode = n => run'[n].pc \notin {"node", "done"},
             \A m \in Nodes : m # n => run'[m] = run[m]
      PROVE  Lasts(r)
  BY <1>1, <1>2 DEF Lasts, Like, Over
<1>3. ASSUME Select(n) PROVE Lasts(r)
  <2>1. tJob' = tJob /\ run[n].pc = "idle" /\ \A m \in Nodes : m # n => run'[m] = run[m]
    BY <1>3, SelectEffect DEF Select, RunIs
  <2> QED
    BY <1>1, <1>2, <2>1 DEF Idlers
<1>4. ASSUME NEW p, NEW W, Advances(n, p, W), p \in {"node", "done"} => r # Cur(n)
      PROVE  Lasts(r)
  BY <1>1, <1>2, <1>4 DEF Advances, RunIs
<1>5. ASSUME Drops(n), r # Cur(n) PROVE Lasts(r)
  BY <1>1, <1>2, <1>5 DEF Drops, RunIs
<1>6. ASSUME NEW q, Returns(n, q) PROVE Lasts(r)
  <2>1. /\ tJob' = (tJob \ {Cur(n)}) \cup {q} /\ Like(q, Cur(n)) /\ q.uJobStatus = "WAITING"
        /\ \A m \in Nodes : m # n => run'[m] = run[m]
    BY <1>6 DEF Returns, Turned, RunIs
  <2>2. CASE r = Cur(n)
    BY <2>1, <2>2 DEF Lasts, Over
  <2>3. CASE r # Cur(n)
    BY <1>1, <1>2, <2>1, <2>3
  <2> QED
    BY <2>2, <2>3
<1>7. ASSUME NEW i, NEW q, Takes(n, i, q) PROVE Lasts(r)
  <2>1. /\ tJob' = (tJob \ {i}) \cup {q} /\ Like(q, i) /\ run[n].pc = "loop" /\ i.uNode = n
        /\ run'[n].pc = FirstPoint(i.name)
        /\ \A m \in Nodes : m # n => run'[m] = run[m]
    BY <1>7 DEF Takes, Turned, RunIs
  <2>2. CASE r = i
    BY <2>1, <2>2 DEF Lasts, Over, Like, FirstPoint
  <2>3. CASE r # i
    BY <1>1, <1>2, <2>1, <2>3 DEF Idlers
  <2> QED
    BY <2>2, <2>3
<1> QED
  BY <1>3, <1>4, <1>5, <1>6, <1>7

\* The rows of a table after a step of a runner are those of before.
LEMMA OldRows ==
  ASSUME IndType, NEW n \in Nodes, Kind(n)
  PROVE  \A q \in tJob' : \E r \in tJob : Like(q, r)
<1>1. \A q : Like(q, q)
  BY DEF Like
<1>2. CASE Select(n)
  BY <1>1, <1>2 DEF Select
<1>3. ASSUME NEW p, NEW W, Advances(n, p, W) PROVE \A q \in tJob' : \E r \in tJob : Like(q, r)
  BY <1>1, <1>3 DEF Advances
<1>4. CASE Drops(n)
  BY <1>1, <1>4 DEF Drops
<1>5. ASSUME NEW i, Returns(n, i) PROVE \A q \in tJob' : \E r \in tJob : Like(q, r)
  BY <1>1, <1>5 DEF Returns, Turned
<1>6. ASSUME NEW j, NEW i, Takes(n, j, i) PROVE \A q \in tJob' : \E r \in tJob : Like(q, r)
  BY <1>1, <1>6 DEF Takes, Turned
<1> QED
  BY <1>2, <1>3, <1>4, <1>5, <1>6 DEF Kind

\* A status to be set is not an awaiting one, without a doubt.
PrevOK == \A r \in tJob : r.prev \in Awaiting => "status" \in doubt[r.c]

Resolved(c) == tContainer[c].uStatus \in Awaiting /\ doubt[c] \cap {"failed", "status"} = {} =>
                   \E r \in RowsOf(c) : ~Over(r)

IndAwait == IndType /\ PrevOK /\ \A c \in Containers : Resolved(c)

\* A row that lasts is still about the same containers.
LEMMA LastsOf ==
  ASSUME NEW c, NEW r \in RowsOf(c), Lasts(r)
  PROVE  \E q \in RowsOf(c)' : ~Over(q)'
  BY DEF RowsOf, Of, Lasts, Like

\* A handler that sets the status of c ends its wait.
LEMMA SetAwait ==
  ASSUME IndType, PrevOK, NEW n \in Nodes, SetStatus(n), NEW c \in Containers, Of(c, Cur(n)),
         "status" \notin doubt[c]
  PROVE  tContainer'[c].uStatus \notin Awaiting
<1>1. /\ Cur(n) \in tJob /\ Cur(n) \in Rows /\ Cur(n).name \in JobNames
  BY InHand DEF SetStatus
<1> DEFINE j == Cur(n)
           set == IF j.name = "SwapIP" THEN {j.c, j.with} ELSE {j.c}
           status == IF j.name \in {"ChangeIP", "SwapIP"} THEN "ACTIVE" ELSE j.prev
<1>2. tContainer' = [d \in Containers |->
          IF d \in set THEN [tContainer[d] EXCEPT !.uStatus = status] ELSE tContainer[d]]
  BY DEF SetStatus
<1>3. c \in set /\ status \in Settled
  <2>1. j.prev \in Settled \cup Awaiting
    BY <1>1, RowType
  <2>2. j.name # "SwapIP" => j.c = c /\ j.prev \notin Awaiting
    BY <1>1 DEF PrevOK, Of
  <2> QED
    BY <2>1, <2>2 DEF Of, Settled
<1> HIDE DEF j, set, status
<1>4. tContainer'[c] = [tContainer[c] EXCEPT !.uStatus = status]
  BY <1>2, <1>3
<1>5. tContainer'[c].uStatus = status
  BY <1>4, RecordFields DEF RecordType, IndType
<1> QED
  BY <1>3, <1>5 DEF Settled, Awaiting

\* The witness of a container is another row's than the one that ends, or the
\* container is no longer waiting, or the failure is noted.
LEMMA RunnerAwait ==
  ASSUME IndType, PrevOK, NEW n \in Nodes, Proceed(n) \/ Fail(n) \/ Die(n),
         NEW c \in Containers, Resolved(c), doubt[c] \subseteq doubt'[c]
  PROVE  Resolved(c)'
<1> SUFFICES ASSUME tContainer'[c].uStatus \in Awaiting, doubt'[c] \cap {"failed", "status"} = {}
             PROVE  \E q \in RowsOf(c)' : ~Over(q)'
  BY DEF Resolved
<1>1. ~SetStatus(n) => tContainer'[c].uStatus = tContainer[c].uStatus
  <2>1. CASE SetNode(n)
    <3> DEFINE d == Cur(n).c
               y == [tContainer[d] EXCEPT !.uNode = Cur(n).target]
    <3>1. tContainer' = [tContainer EXCEPT ![d] = y]
      BY <2>1 DEF SetNode, Field, IndType, TypeOK
    <3>2. y.uStatus = tContainer[d].uStatus
      <4>1. run[n].pc \notin {"idle", "loop"}
        BY <2>1 DEF SetNode, Steps, At
      <4>2. d \in Containers
        BY <4>1, InHand
      <4> QED
        BY <4>2, RecordFields DEF RecordType, IndType
    <3> HIDE DEF d, y
    <3> QED
      BY <3>1, <3>2 DEF IndType, TypeOK
  <2>2. ASSUME ~SetNode(n), ~SetStatus(n) PROVE tContainer' = tContainer
    <3>1. CASE Read(n) \/ IpAdd(n) \/ IpDel(n) \/ Release(n) \/ Name(n) \/ SwapRead(n) \/ SwapStep(n)
               \/ Move(n)
      BY <3>1 DEF Read, IpAdd, IpDel, Release, Name, SwapRead, SwapStep, Move, Records
    <3>2. CASE \/ Select(n) \/ Begin(n) \/ Check(n) \/ CheckOthers(n)
               \/ JobDone(n) \/ Fail(n) \/ Gone(n) \/ Die(n)
      BY <3>2 DEF Select, Begin, Check, CheckOthers, JobDone, Fail, Gone, Die, Records
    <3> QED
      BY <2>2, <3>1, <3>2 DEF Proceed
  <2> QED
    BY <2>1, <2>2
<1>2. SetStatus(n) /\ Of(c, Cur(n)) => FALSE
  BY SetAwait
<1>3. SetStatus(n) /\ ~Of(c, Cur(n)) => tContainer'[c] = tContainer[c]
  <2> SUFFICES ASSUME SetStatus(n), ~Of(c, Cur(n)) PROVE tContainer'[c] = tContainer[c]
    OBVIOUS
  <2> DEFINE set == IF Cur(n).name = "SwapIP" THEN {Cur(n).c, Cur(n).with} ELSE {Cur(n).c}
             status == IF Cur(n).name \in {"ChangeIP", "SwapIP"} THEN "ACTIVE" ELSE Cur(n).prev
  <2>1. tContainer' = [d \in Containers |->
            IF d \in set THEN [tContainer[d] EXCEPT !.uStatus = status] ELSE tContainer[d]]
    BY DEF SetStatus
  <2>2. c \notin set
    BY DEF Of
  <2> HIDE DEF set, status
  <2> QED
    BY <2>1, <2>2
<1>4. PICK r \in RowsOf(c) : ~Over(r)
  BY <1>1, <1>2, <1>3 DEF Resolved
<1>5. r \in tJob /\ Of(c, r)
  BY <1>4 DEF RowsOf
<1>6. SUFFICES Lasts(r)
  BY LastsOf
<1>7. run[n].pc \in {"node", "done"} => r # Cur(n)
  BY <1>4, InHand DEF Over
<1>8. CASE Select(n)
  BY <1>4, <1>5, <1>8, RowsLast
<1>9. CASE Begin(n)
  BY <1>4, <1>5, <1>9, RowsLast, BeginTakes
<1>10. CASE Check(n)
  BY <1>4, <1>5, <1>10, RowsLast, CheckEffect
<1>11. CASE CheckOthers(n)
  BY <1>4, <1>5, <1>11, RowsLast, CheckOthersEffect
<1>12. CASE Read(n) \/ IpAdd(n) \/ IpDel(n) \/ Release(n)
  BY <1>4, <1>5, <1>12, RowsLast, AddressSteps
<1>13. CASE Name(n) \/ Move(n) \/ SwapRead(n) \/ SwapStep(n) \/ Die(n)
  BY <1>4, <1>5, <1>13, RowsLast, OtherSteps
<1>14. CASE SetStatus(n) \/ SetNode(n)
  <2>1. r # Cur(n)
    BY <1>2, <1>5, <1>7, <1>14, OtherSteps
  <2>2. \E p, W : Advances(n, p, W)
    BY <1>14, OtherSteps
  <2> QED
    BY <1>4, <1>5, <2>1, <2>2, RowsLast
<1>15. CASE JobDone(n) \/ Fail(n) \/ Gone(n)
  <2>1. ASSUME JobDone(n) PROVE r # Cur(n)
    BY <1>7, <2>1 DEF JobDone
  <2>2. ASSUME Fail(n) \/ Gone(n) PROVE r # Cur(n)
    <3>1. Failed(n)
      BY <2>2 DEF Fail, Gone
    <3>2. ~Of(c, Cur(n))
      BY <3>1 DEF Failed
    <3> QED
      BY <1>5, <3>2
  <2>3. r # Cur(n)
    BY <1>15, <2>1, <2>2
  <2> QED
    BY <1>4, <1>5, <1>15, <2>3, RowsLast, EndSteps
<1> QED
  BY <1>8, <1>9, <1>10, <1>11, <1>12, <1>13, <1>14, <1>15 DEF Proceed

\* The containers whose status a page sets, each with a waiting job; what the jobs
\* of the page will set.
Appoints(x) == \A c \in x : \E q \in tJob' : Of(c, q) /\ q.uJobStatus = "WAITING"
SetsOnly(x) ==
    /\ \A q \in tJob' : q \in tJob \/ q.prev \in Settled \/ "status" \in doubt'[q.c]
    /\ \A c \in Containers : c \notin x => tContainer'[c] = tContainer[c]

\* Each page does, for one container or two.
LEMMA PageAwaits ==
  ASSUME IndType, NEW s \in Sessions, Acts(s)
  PROVE  \E x \in SUBSET Containers : Appoints(x) /\ SetsOnly(x)
<1> DEFINE p == page[s]
<1>1. IsOpen(s)
  BY MigrateEffect, HostnameEffect, IPEffect, RemoteEffect, SwapEffect DEF Acts, Inserts
<1>2. p.c \in Containers /\ p.with \in Containers /\ p.uStatus \in Settled
  BY <1>1, OpenPage DEF IndType
<1>3. CASE MigrateContainer(s)
  <2> DEFINE r == Row(s, 0, "Migrate", p.c, p.node)
  <2>1. r.c = p.c /\ r.uJobStatus = "WAITING" /\ r.prev = p.uStatus
    BY DEF Row
  <2>2. /\ tJob' = tJob \cup {r} /\ tContainer' = Field(p.c, "uStatus", "AWAITMIG")
    BY <1>3 DEF MigrateContainer, Done
  <2> HIDE DEF r
  <2>3. Appoints({p.c})
    BY <2>1, <2>2 DEF Appoints, Of
  <2>4. SetsOnly({p.c})
    BY <1>2, <2>1, <2>2, StatusField DEF SetsOnly, Awaiting, IndType
  <2> QED
    BY <1>2, <2>3, <2>4
<1>4. CASE HostnameChange(s)
  <2> DEFINE r == Row(s, 0, "ChangeHostname", p.c, p.node)
  <2>1. r.c = p.c /\ r.uJobStatus = "WAITING" /\ r.prev = p.uStatus
    BY DEF Row
  <2>2. /\ tJob' = tJob \cup {r} /\ tContainer' = Field(p.c, "uStatus", "AWAITHOST")
    BY <1>4 DEF HostnameChange, Done
  <2> HIDE DEF r
  <2>3. Appoints({p.c})
    BY <2>1, <2>2 DEF Appoints, Of
  <2>4. SetsOnly({p.c})
    BY <1>2, <2>1, <2>2, StatusField DEF SetsOnly, Awaiting, IndType
  <2> QED
    BY <1>2, <2>3, <2>4
<1>5. CASE IPChange(s)
  <2>1. PICK release \in {TRUE, p.uStatus # "STOPPED"} :
            Done(s, [tContainer EXCEPT ![p.c].uStatus = "AWAITIP", ![p.c].uIPv4 = p.ip],
                 {[Row(s, 0, "ChangeIP", p.c, p.node) EXCEPT !.old = tContainer[p.c].uIPv4,
                                                             !.release = release]}, {}, {})
    BY <1>5 DEF IPChange
  <2> DEFINE r == [Row(s, 0, "ChangeIP", p.c, p.node) EXCEPT !.old = tContainer[p.c].uIPv4,
                                                             !.release = release]
             rec == [tContainer EXCEPT ![p.c].uStatus = "AWAITIP", ![p.c].uIPv4 = p.ip]
  <2>2. r.c = p.c /\ r.uJobStatus = "WAITING" /\ r.prev = p.uStatus
    BY DEF Row
  <2>3. tJob' = tJob \cup {r} /\ tContainer' = rec
    BY <2>1 DEF Done
  <2>4. \A d \in Containers : d # p.c => rec[d] = tContainer[d]
    BY DEF IndType, TypeOK
  <2> HIDE DEF r, rec
  <2>5. Appoints({p.c})
    BY <2>2, <2>3 DEF Appoints, Of
  <2>6. SetsOnly({p.c})
    BY <1>2, <2>2, <2>3, <2>4 DEF SetsOnly
  <2> QED
    BY <1>2, <2>5, <2>6
<1>6. CASE RemoteMigration(s)
  <2> DEFINE rec == [tContainer EXCEPT ![p.c].uStatus = "AWAITMIG", ![p.c].uIPv4 = p.ip]
             r == Row(s, 0, "Migrate", p.c, p.node)
             q == Row(s, 1, "ChangeIP", p.c, p.target)
             k == [Row(s, 2, "ChangeHostname", p.c, p.target) EXCEPT !.prev = "AWAITMIG"]
             h == IF p.c \in Clones THEN {k} ELSE {}
             y == IF p.c \in Clones THEN {p.c} ELSE {}
  <2>1. Done(s, rec, {r, q} \cup h, y, {"status"})
    BY <1>6 DEF RemoteMigration
  <2>2. /\ r.c = p.c /\ r.uJobStatus = "WAITING" /\ r.prev = p.uStatus
        /\ q.c = p.c /\ q.prev = p.uStatus
        /\ \A i \in h : i.c = p.c /\ y = {p.c}
    BY DEF Row
  <2>3. \A d \in Containers : d # p.c => rec[d] = tContainer[d]
    BY DEF IndType, TypeOK
  <2> HIDE DEF r, q, h, y, rec
  <2>4. /\ tJob' = tJob \cup ({r, q} \cup h) /\ tContainer' = rec
        /\ y = {p.c} => "status" \in doubt'[p.c]
    BY <1>2, <2>1 DEF Done
  <2>5. Appoints({p.c})
    BY <2>2, <2>4 DEF Appoints, Of
  <2>6. SetsOnly({p.c})
    BY <1>2, <2>2, <2>3, <2>4 DEF SetsOnly
  <2> QED
    BY <1>2, <2>5, <2>6
<1>7. CASE Swap(s)
  <2> DEFINE d == p.with
             rec == [tContainer EXCEPT ![p.c].uIPv4 = p.ip, ![p.c].uStatus = "AWAITIP",
                                       ![d].uIPv4 = p.uIPv4, ![d].uStatus = "AWAITIP"]
             r == [Row(s, 0, "SwapIP", p.c, p.node) EXCEPT !.old = tContainer[p.c].uIPv4,
                                                           !.old2 = tContainer[d].uIPv4]
             i == [Row(s, 0, "ChangeIP", p.c, p.node) EXCEPT !.old = tContainer[p.c].uIPv4]
             j == [Row(s, 1, "ChangeIP", d, Node(d)) EXCEPT !.old = tContainer[d].uIPv4]
             new == IF Node(d) = p.node THEN {r} ELSE {i, j}
  <2>1. Done(s, rec, new, {p.c, d}, {"swap"})
    BY <1>7 DEF Swap
  <2>2. /\ r.c = p.c /\ r.with = d /\ r.name = "SwapIP" /\ r.uJobStatus = "WAITING" /\ r.prev = p.uStatus
        /\ i.c = p.c /\ i.uJobStatus = "WAITING" /\ i.prev = p.uStatus
        /\ j.c = d /\ j.uJobStatus = "WAITING" /\ j.prev = p.uStatus
    BY DEF Row
  <2>3. \A e \in Containers : e # p.c /\ e # d => rec[e] = tContainer[e]
    BY DEF IndType, TypeOK
  <2> HIDE DEF r, i, j, rec
  <2>4. tJob' = tJob \cup new /\ tContainer' = rec
    BY <2>1 DEF Done
  <2>5. Appoints({p.c, d})
    BY <2>2, <2>4 DEF Appoints, Of
  <2>6. SetsOnly({p.c, d})
    BY <1>2, <2>2, <2>3, <2>4 DEF SetsOnly
  <2> QED
    BY <1>2, <2>5, <2>6
<1> QED
  BY <1>3, <1>4, <1>5, <1>6, <1>7 DEF Acts

LEMMA AwaitStep == IndAwait /\ [Next]_vars => IndAwait'
<1> SUFFICES ASSUME IndAwait, [Next]_vars
             PROVE  PrevOK' /\ \A c \in Containers : Resolved(c)'
  BY TypeStep DEF IndAwait
<1>1. IndType /\ PrevOK /\ (\A c \in Containers : Resolved(c))
      /\ \A c \in Containers : doubt[c] \subseteq doubt'[c]
  BY DoubtsGrow DEF IndAwait
<1>2. ASSUME \A q \in tJob' : \E r \in tJob : Like(q, r) PROVE PrevOK'
  BY <1>1, <1>2, RowsTyped DEF PrevOK, Like, IndType
<1>3. ASSUME UNCHANGED <<tJob, run>>,
             NEW c \in Containers, tContainer'[c].uStatus \in Awaiting => tContainer[c].uStatus \in Awaiting
      PROVE  Resolved(c)'
  BY <1>1, <1>3 DEF Resolved, RowsOf, Of, Over
<1>4. \A q : Like(q, q)
  BY DEF Like
<1>5. ASSUME NEW s \in Sessions, Acts(s)
      PROVE  PrevOK' /\ \A c \in Containers : Resolved(c)'
  <2>1. PICK x \in SUBSET Containers : Appoints(x) /\ SetsOnly(x)
    BY <1>1, <1>5, PageAwaits
  <2>2. /\ run' = run /\ \A q \in tJob : q \in tJob'
    <3>1. \E new : Inserts(s, new)
      BY <1>1, <1>5, MigrateEffect, HostnameEffect, IPEffect, RemoteEffect, SwapEffect DEF Acts
    <3> QED
      BY <3>1 DEF Inserts
  <2>3. PrevOK'
    BY <1>1, <2>1, RowsTyped DEF PrevOK, SetsOnly, Settled, Awaiting, IndType
  <2>4. ASSUME NEW c \in x PROVE Resolved(c)'
    BY <2>1, <2>4 DEF Appoints, Resolved, RowsOf, Of, Over
  <2>5. ASSUME NEW c \in Containers, c \notin x PROVE Resolved(c)'
    BY <1>1, <2>1, <2>2, <2>5 DEF SetsOnly, Resolved, RowsOf, Of, Over
  <2> QED
    BY <2>3, <2>4, <2>5
<1>6. ASSUME NEW n \in Nodes, Proceed(n) \/ Fail(n) \/ Die(n)
      PROVE  PrevOK' /\ \A c \in Containers : Resolved(c)'
  <2>1. PrevOK'
    BY <1>1, <1>2, <1>6, RunnerKind, OldRows
  <2> QED
    BY <1>1, <1>6, <2>1, RunnerAwait
<1>7. ASSUME NEW s \in Sessions, Confirm(s) PROVE PrevOK' /\ \A c \in Containers : Resolved(c)'
  BY <1>2, <1>3, <1>4, <1>7 DEF Confirm
<1>8. ASSUME NEW d \in Containers, StatusChange(d)
      PROVE  PrevOK' /\ \A c \in Containers : Resolved(c)'
  <2>1. UNCHANGED <<tJob, run>>
    BY <1>8 DEF StatusChange
  <2>2. PICK st \in Settled : tContainer' = Field(d, "uStatus", st)
    BY <1>8 DEF StatusChange
  <2>3. ASSUME NEW c \in Containers, tContainer'[c].uStatus \in Awaiting
        PROVE  tContainer[c].uStatus \in Awaiting
    BY <1>8, <2>3 DEF StatusChange, Field, IndType, TypeOK
  <2> QED
    BY <1>2, <1>3, <1>4, <2>1, <2>3
<1>9. CASE UNCHANGED vars
  BY <1>2, <1>3, <1>4, <1>9 DEF vars
<1> QED
  BY <1>5, <1>6, <1>7, <1>8, <1>9 DEF Next

\* No container is left in an awaiting status without a job that will set it, for
\* any number of overlapping pages, migrations and exchanges.
THEOREM AwaitsHaveJobs == Spec => []AwaitsAJob
<1>1. Init => IndAwait
  BY TypeInit DEF Init, IndAwait, PrevOK, Resolved, Settled, Awaiting
<1>2. IndAwait => AwaitsAJob
  BY DEF IndAwait, Resolved, AwaitsAJob
<1> QED
  BY <1>1, <1>2, AwaitStep, PTL DEF Spec
=============================================================================
