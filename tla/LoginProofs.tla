---------------------------- MODULE LoginProofs ----------------------------
(***************************************************************************)
(* Logins, logouts, their jobs and the sweeps keep the sessions, the rules *)
(* of the nodes and the status of the addresses in agreement, for any      *)
(* users, addresses and nodes and any number of events.                    *)
(***************************************************************************)
EXTENDS LoginSession, FiniteSetTheorems, WellFoundedInduction, TLAPS

USE LoginAssumption

-----------------------------------------------------------------------------
(******************************* Invariants ********************************)

(* A page that has still to come to a node counts as a job of the node:    *)
(* every event adds one at most, which bounds the numbers of the jobs.     *)
ComingTo(n) == {u \in Users : page[u].at # "none" /\ n \in page[u].left}

Snapshot(n) == run[n].rows \cup run[n].cur
AllRows(n) == tJob[n] \cup Snapshot(n)

Numbered == \A n \in Nodes :
    /\ Cardinality(ComingTo(n)) <= events
    /\ \A r \in AllRows(n) : r.uJob + Cardinality(ComingTo(n)) <= events

PageOK == \A u \in Users :
    /\ page[u].at # "none" => page[u].host \in Hosts /\ page[u].left # {}
    /\ page[u].at \in {"session", "check"} => page[u].left = Nodes

RunOK == \A n \in Nodes :
    /\ run[n].pc = "idle" => run[n].rows = {}
    /\ run[n].pc \in {"idle", "loop"} => run[n].cur = {}
    /\ run[n].pc \in {"rules", "status"} => \E r \in JobRow : run[n].cur = {r}
    /\ \A r \in Snapshot(n) : r.uJobStatus = "WAITING"
    /\ \A r \in tJob[n] : r.uJobStatus = "RUNNING" =>
            run[n].pc = "rules" /\ \E c \in run[n].cur : r = Running(c)

Holding == {"drop", "status", "delete"}
Listing == {"unlist", "listed"}

SweepOK == \A n \in Nodes :
    /\ sweep[n].pc \in Holding => \E s \in Session : sweep[n].cur = {s}
    /\ sweep[n].pc \in Listing => sweep[n].host \in Hosts

TypeInv == TypeOK /\ Numbered /\ PageOK /\ RunOK /\ SweepOK

SameNumber == \A n \in Nodes : \A r, q \in AllRows(n) : r.uJob = q.uJob => r.name = q.name

(* The jobs of a node whose commands are still to run.                     *)
ToRun(n) == tJob[n] \cup run[n].rows \cup {r \in run[n].cur : run[n].pc = "rules"}

Logouts(n, a) == {q \in AllRows(n) : q.name = "Logout" /\ q.host = a}

(* What lets a session in, or is about to: its page comes to the node, its *)
(* job runs after every logout's of the address, the rules are there and   *)
(* no logout's job; or a sweep is about to delete it.                      *)
AtPage(s, n) == /\ page[s.user].at = "login" /\ page[s.user].host = s.host
                /\ n \in page[s.user].left
AtJob(s, n) == \E r \in ToRun(n) :
    /\ r.name = "Login" /\ r.user = s.user /\ r.host = s.host
    /\ \A q \in Logouts(n, s.host) : q.uJob < r.uJob
AtRules(s, n) == {s.host} \X ChainsOf(s.user) \subseteq rules[n] /\ Logouts(n, s.host) = {}
AtSweep(s, n) == sweep[n].pc \in {"status", "delete"} /\ s \in sweep[n].cur

Covered == \A s \in tProperty, n \in Nodes :
               AtPage(s, n) \/ AtJob(s, n) \/ AtRules(s, n) \/ AtSweep(s, n)

(* A logout that inserts jobs is the last of its address.                  *)
NoneLeft == \A u \in Users : page[u].at = "logout" => SessionsAt(page[u].host) = {}

(* A login's job that runs is before every logout's.                       *)
LoginFirst == \A n \in Nodes : \A r \in run[n].cur : run[n].pc = "rules" /\ r.name = "Login" =>
                  \A q \in Logouts(n, r.host) : r.uJob <= q.uJob

(* A sweep drops the rules of no address another session has.              *)
OwnsIn(w, P) ==
    /\ w.pc \in {"drop", "status"} => \A s \in w.cur : {t \in P : t.host = s.host} \subseteq w.cur
    /\ w.pc \in Listing => {t \in P : t.host = w.host} = {}

SweepsOwn == \A n \in Nodes : OwnsIn(sweep[n], tProperty)

LetIn == Covered /\ NoneLeft /\ LoginFirst /\ SweepsOwn

LetInv == SameNumber /\ IsFiniteSet(tProperty) /\ (doubt = {} => LetIn)

-----------------------------------------------------------------------------
(****************************** The operators ******************************)

(* Max of a bounded set of numbers is the greatest of them.                *)
LEMMA MaxOfBounded ==
    ASSUME NEW S \in SUBSET Nat, S # {}, NEW b \in Nat, \A i \in S : i <= b
    PROVE  Max(S) \in S /\ \A i \in S : i <= Max(S)
<1> DEFINE B == {u \in Nat : \A i \in S : i <= u}
           T == {0 .. u : u \in B}
           R == StrictSubsetOrdering(Nat)
           F == FiniteSubsetsOf(Nat)
<1>1. IsWellFoundedOn(R, F)
  BY FS_StrictSubsetOrderingWellFounded
<1>2. \A u \in Nat : IsFiniteSet(0 .. u)
  BY FS_Interval
<1>3. T \subseteq F
  BY <1>2 DEF FiniteSubsetsOf
<1>4. 0 .. b \in T
  OBVIOUS
<1>5. \E X \in T : \A Y \in T : ~(<<Y, X>> \in R)
  <2> HIDE DEF T, R, F
  <2> QED  BY <1>1, <1>3, <1>4, WFMin
<1>6. PICK u \in B : \A v \in B : ~(<<0 .. v, 0 .. u>> \in R)
  BY <1>5
<1>7. u \in S
  <2>1. SUFFICES ASSUME u \notin S  PROVE FALSE
    OBVIOUS
  <2>2. \A j \in S : j \in Nat /\ j < u
    BY <2>1
  <2>3. u - 1 \in B
    <3>1. PICK j \in S : j \in Nat /\ j < u
      BY <2>2
    <3>2. u - 1 \in Nat
      BY <3>1
    <3>3. \A i \in S : i <= u - 1
      BY <2>2
    <3> QED  BY <3>2, <3>3
  <2>4. 0 .. (u - 1) \in SUBSET Nat /\ 0 .. u \in SUBSET Nat
    BY <2>3
  <2>5. 0 .. (u - 1) \subseteq 0 .. u /\ u \in 0 .. u /\ u \notin 0 .. (u - 1)
    BY <2>3
  <2>6. <<0 .. (u - 1), 0 .. u>> \in R
    BY <2>4, <2>5 DEF StrictSubsetOrdering
  <2> QED  BY <1>6, <2>3, <2>6
<1>8. u \in S /\ \A i \in S : u >= i
  BY <1>7
<1> QED  BY <1>8 DEF Max

LEMMA ComingFinite ==
    ASSUME NEW n
    PROVE  IsFiniteSet(ComingTo(n)) /\ Cardinality(ComingTo(n)) \in Nat
<1>1. ComingTo(n) \in SUBSET Users
  BY DEF ComingTo
<1>2. IsFiniteSet(ComingTo(n))
  BY <1>1, FS_Subset
<1> QED  BY <1>2, FS_CardinalityType

(* A new job is behind every job of the node, and within the bound.        *)
LEMMA NewJobBehind ==
    ASSUME TypeOK, Numbered, NEW n \in Nodes, NEW u \in ComingTo(n)
    PROVE  /\ NewJob(n) \in 1 .. MaxEvent
           /\ \A r \in AllRows(n) : r.uJob < NewJob(n)
           /\ NewJob(n) + (Cardinality(ComingTo(n)) - 1) <= events
<1> DEFINE c == Cardinality(ComingTo(n))
           S == {0} \cup {r.uJob : r \in tJob[n] \cup run[n].rows \cup run[n].cur}
<1>1. IsFiniteSet(ComingTo(n)) /\ c \in Nat /\ c # 0
  BY ComingFinite, FS_EmptySet
<1>2. AllRows(n) \subseteq JobRow
  BY DEF TypeOK, AllRows, Snapshot, Runners
<1>3. events \in Nat /\ events <= MaxEvent
  BY DEF TypeOK, Numbers
<1>4. \A r \in AllRows(n) : r.uJob \in Nat /\ r.uJob + c <= events
  BY <1>2 DEF Numbered, JobRow
<1>5. AllRows(n) = tJob[n] \cup run[n].rows \cup run[n].cur
  BY DEF AllRows, Snapshot
<1>6. S \in SUBSET Nat /\ 0 \in S /\ \A i \in S : i = 0 \/ \E r \in AllRows(n) : i = r.uJob
  BY <1>4, <1>5
<1>7. \A i \in S : i <= events
  BY <1>6, <1>4, <1>3, <1>1
<1>8. Max(S) \in S /\ \A i \in S : i <= Max(S)
  <2> HIDE DEF S
  <2> QED  BY <1>3, <1>6, <1>7, MaxOfBounded
<1>9. NewJob(n) = Max(S) + 1
  BY DEF NewJob
<1>10. c <= events
  BY DEF Numbered
<1>11. Max(S) = 0 \/ Max(S) + c <= events
  BY <1>8, <1>6, <1>4
<1>12. Max(S) \in Nat
  BY <1>6, <1>8
<1>13. \A r \in AllRows(n) : r.uJob <= Max(S)
  <2>1. \A r \in AllRows(n) : r.uJob \in S
    BY <1>5
  <2> QED  BY <2>1, <1>8
<1> HIDE DEF S, c
<1>14. NewJob(n) + (c - 1) <= events /\ NewJob(n) \in 1 .. MaxEvent
  BY <1>1, <1>3, <1>9, <1>10, <1>11, <1>12
<1>15. \A r \in AllRows(n) : r.uJob < NewJob(n)
  BY <1>4, <1>9, <1>12, <1>13
<1> QED  BY <1>14, <1>15 DEF c

-----------------------------------------------------------------------------
(********************************* The steps *******************************)

PageStep(u) == Page(u) \/ Ask(u)
RunStep(n) == Proceed(n) \/ Postpone(n) \/ IptablesFails(n)
SweepStep(n) == Clean(n) \/ DropFails(n) \/ SessionsSkipped(n) \/ UnlistFails(n)

LEMMA Steps ==
    ASSUME Next
    PROVE  \/ \E u \in Users : PageStep(u)
           \/ \E n \in Nodes : RunStep(n)
           \/ \E n \in Nodes : SweepStep(n)
BY DEF Next, Fail, PageStep, RunStep, SweepStep

(* What a sweep goes on to when it looks for the next listed address.      *)
Searching(f) ==
    /\ f \in Sweeps /\ f.rows = {} /\ f.cur = {}
    /\ \/ f.pc = "idle"
       \/ f.pc = "unlist" /\ f.host \in Hosts /\ SessionsAt(f.host) = {}

LEMMA ListShape ==
    ASSUME TypeOK, NEW n \in Nodes, NEW chain \in Chains, NEW hosts \in SUBSET Hosts,
           List(n, chain, hosts)
    PROVE  \E f : Searching(f) /\ sweep' = [sweep EXCEPT ![n] = f]
<1> DEFINE at(c, rest, a) == [IdleSweep EXCEPT !.pc = "unlist", !.chain = c, !.hosts = rest \ {a},
                                              !.host = a]
<1>1. \A c \in Chains, rest \in SUBSET Hosts : \A a \in Bare(rest) : Searching(at(c, rest, a))
  <2> SUFFICES ASSUME NEW c \in Chains, NEW rest \in SUBSET Hosts, NEW a \in Bare(rest)
               PROVE  Searching(at(c, rest, a))
    OBVIOUS
  <2>1. a \in Hosts /\ SessionsAt(a) = {}
    BY DEF Bare
  <2>2. at(c, rest, a) \in Sweeps
    BY <2>1 DEF IdleSweep, Sweeps, Chains
  <2>3. at(c, rest, a).pc = "unlist" /\ at(c, rest, a).host = a
        /\ at(c, rest, a).rows = {} /\ at(c, rest, a).cur = {}
    BY DEF IdleSweep
  <2> HIDE DEF at
  <2> QED  BY <2>1, <2>2, <2>3 DEF Searching
<1>2. Searching(IdleSweep)
  BY DEF Searching, Sweeps, IdleSweep, Chains
<1>3. \A a \in Bare(ListOf(n, "SSH")) : Searching(at("SSH", ListOf(n, "SSH"), a))
  BY <1>1 DEF ListOf, Chains
<1> QED  BY <1>1, <1>2, <1>3 DEF List, Sweep

(* One step of a sweep moves that sweep to a record of its shape, and does *)
(* nothing to the pages, the jobs and the runners.                         *)
SweepShape(n, f) ==
    /\ sweep' = [sweep EXCEPT ![n] = f] /\ f \in Sweeps
    /\ f.pc \in Holding => \E s \in Session : f.cur = {s}
    /\ f.pc \in Listing => f.host \in Hosts

LEMMA SweepKeepsShape ==
    ASSUME TypeOK, SweepOK, NEW n \in Nodes, SweepStep(n)
    PROVE  /\ \E f : SweepShape(n, f)
           /\ tProperty' \subseteq tProperty
           /\ rules' \in [Nodes -> SUBSET Rules] /\ uFWStatus' \in [Hosts -> FWStatus]
           /\ events <= events' /\ events' \in Numbers /\ doubt' \in SUBSET Doubts
           /\ UNCHANGED <<uOTPExpire, cIPMask, tJob, page, run>>
<1> USE DEF Holding, Listing
<1>1. events \in Nat /\ sweep[n] \in Sweeps /\ ListOf(n, "HTTP") \in SUBSET Hosts
      /\ "HTTP" \in Chains /\ Swp(n).hosts \in SUBSET Hosts /\ Swp(n).chain \in Chains
  BY DEF TypeOK, Numbers, ListOf, Chains, Swp, Sweeps
<1>2. \A f : Searching(f) /\ sweep' = [sweep EXCEPT ![n] = f] => SweepShape(n, f)
  BY DEF Searching, SweepShape
<1>3. \A c \in Chains, h \in SUBSET Hosts : List(n, c, h) => \E f : SweepShape(n, f)
  BY <1>2, ListShape
<1>4. Count => events <= events' /\ events' \in Numbers
  BY <1>1 DEF Count, Numbers, TypeOK
<1>5. \A a : [uFWStatus EXCEPT ![a] = "REMOVED"] \in [Hosts -> FWStatus]
  BY DEF TypeOK, FWStatus
<1>15. CASE SelectExpired(n)
  <2> USE <1>15 DEF SelectExpired, TypeOK, Swp
  <2>1. CASE {s \in tProperty : uOTPExpire[s.user] = "past"} = {}
    BY <2>1, <1>1, <1>3, <1>4
  <2>2. CASE {s \in tProperty : uOTPExpire[s.user] = "past"} # {}
    <3> DEFINE f == [sweep[n] EXCEPT !.pc = "expired",
                                     !.rows = {s \in tProperty : uOTPExpire[s.user] = "past"}]
    <3>1. sweep' = [sweep EXCEPT ![n] = f]
      BY <2>2 DEF Sweep
    <3>2. f \in Sweeps /\ f.pc = "expired"
      BY <1>1 DEF Sweeps
    <3>3. SweepShape(n, f)
      BY <3>1, <3>2 DEF SweepShape
    <3> QED  BY <3>3, <1>1
  <2> QED  BY <2>1, <2>2
<1>6. CASE CountSessions(n)
  <2> USE <1>6 DEF CountSessions, TypeOK, Swp, Note
  <2>1. PICK s \in sweep[n].rows : Sweep(n, [sweep[n] EXCEPT !.rows = @ \ {s}, !.cur = {s},
                    !.pc = IF Cardinality(SessionsAt(s.host)) < 2 THEN "drop" ELSE "delete"])
    OBVIOUS
  <2> DEFINE f == [sweep[n] EXCEPT !.rows = @ \ {s}, !.cur = {s},
                    !.pc = IF Cardinality(SessionsAt(s.host)) < 2 THEN "drop" ELSE "delete"]
  <2>2. s \in Session
    BY <1>1 DEF Sweeps
  <2>3. f \in Sweeps /\ f.cur = {s} /\ f.pc \notin Listing
    BY <1>1, <2>2 DEF Sweeps
  <2>4. sweep' = [sweep EXCEPT ![n] = f]
    BY <2>1 DEF Sweep
  <2>5. SweepShape(n, f)
    <3> HIDE DEF f
    <3> QED  BY <2>2, <2>3, <2>4 DEF SweepShape, Sweeps
  <2>6. doubt' \in SUBSET Doubts
    BY DEF Doubts
  <2> QED  BY <2>5, <2>6, <1>1
<1>7. CASE DropRules(n)
  <2> USE <1>7 DEF DropRules, TypeOK, Swp
  <2> DEFINE f == [sweep[n] EXCEPT !.pc = "status"]
  <2>1. f \in Sweeps /\ f.cur = sweep[n].cur /\ \E s \in Session : sweep[n].cur = {s}
    BY <1>1 DEF Sweeps, SweepOK
  <2>2. SweepShape(n, f)
    BY <2>1 DEF SweepShape, Sweep, Sweeps
  <2> QED  BY <2>2, <1>1 DEF Numbers
<1>8. CASE DropStatus(n)
  <2> USE <1>8 DEF DropStatus, TypeOK, Swp
  <2> DEFINE f == [sweep[n] EXCEPT !.pc = "delete"]
  <2>1. f \in Sweeps /\ f.cur = sweep[n].cur /\ \E s \in Session : sweep[n].cur = {s}
    BY <1>1 DEF Sweeps, SweepOK
  <2>2. SweepShape(n, f)
    BY <2>1 DEF SweepShape, Sweep, Sweeps
  <2> QED  BY <2>2, <1>1, <1>5
<1>9. CASE DeleteSession(n)
  <2> USE <1>9 DEF DeleteSession, TypeOK, Swp
  <2> DEFINE f == [sweep[n] EXCEPT !.pc = "expired", !.cur = {}]
  <2>1. f \in Sweeps /\ f.pc = "expired"
    BY <1>1 DEF Sweeps
  <2>2. SweepShape(n, f)
    BY <2>1 DEF SweepShape, Sweep
  <2> QED  BY <2>2, <1>1
<1>10. CASE SessionsDone(n) \/ SessionsSkipped(n)
  BY <1>10, <1>1, <1>3, <1>4 DEF SessionsDone, SessionsSkipped, TypeOK
<1>11. CASE Unlist(n)
  <2> USE <1>11 DEF Unlist, TypeOK, Swp
  <2> DEFINE f == [sweep[n] EXCEPT !.pc = "listed"]
  <2>1. f \in Sweeps /\ f.host = sweep[n].host /\ f.host \in Hosts /\ f.pc = "listed"
    BY <1>1 DEF Sweeps, SweepOK
  <2>2. SweepShape(n, f)
    BY <2>1 DEF SweepShape, Sweep
  <2> QED  BY <2>2, <1>1
<1>12. CASE ListStatus(n)
  BY <1>12, <1>1, <1>3, <1>5 DEF ListStatus, TypeOK
<1>13. CASE DropFails(n)
  <2> USE <1>13 DEF DropFails, TypeOK, Swp
  <2> DEFINE f == [sweep[n] EXCEPT !.pc = "expired", !.cur = {}]
  <2>1. f \in Sweeps /\ f.pc = "expired"
    BY <1>1 DEF Sweeps
  <2>2. SweepShape(n, f)
    BY <2>1 DEF SweepShape, Sweep
  <2> QED  BY <2>2, <1>4
<1>14. CASE UnlistFails(n)
  BY <1>14, <1>1, <1>3, <1>4 DEF UnlistFails, TypeOK
<1> QED  BY <1>15, <1>6, <1>7, <1>8, <1>9, <1>10, <1>11, <1>12, <1>13, <1>14 DEF SweepStep, Clean

Same(r, q) == r.user = q.user /\ r.host = q.host /\ r.name = q.name /\ r.uJob = q.uJob

(* What a runner f may be with the rows T of the table.                    *)
Fits(f, T) ==
    /\ f \in Runners /\ T \in SUBSET JobRow
    /\ f.pc = "idle" => f.rows = {}
    /\ f.pc \in {"idle", "loop"} => f.cur = {}
    /\ f.pc \in {"rules", "status"} => \E r \in JobRow : f.cur = {r}
    /\ \A r \in f.rows \cup f.cur : r.uJobStatus = "WAITING"
    /\ \A r \in T : r.uJobStatus = "RUNNING" =>
            f.pc = "rules" /\ \E c \in f.cur : r = Running(c)

(* One step of a runner changes nothing but its own record and the status  *)
(* of its node's rows: none appears that was not there.                    *)
RunShape(n, f, T) ==
    /\ run' = [run EXCEPT ![n] = f] /\ tJob' = [tJob EXCEPT ![n] = T]
    /\ Fits(f, T)
    /\ \A r \in T \cup f.rows \cup f.cur : \E q \in AllRows(n) : Same(r, q)

LEMMA RunningIs ==
    ASSUME NEW r \in JobRow
    PROVE  Running(r) \in JobRow /\ Same(Running(r), r) /\ Running(r).uJobStatus = "RUNNING"
BY DEF Running, JobRow, Same

LEMMA CurIs ==
    ASSUME NEW n, NEW r, run[n].cur = {r}
    PROVE  Cur(n) = r
BY DEF Cur

LEMMA CurRow ==
    ASSUME RunOK, NEW n \in Nodes, run[n].pc \in {"rules", "status"}
    PROVE  \E r \in JobRow : run[n].cur = {r} /\ Cur(n) = r
BY CurIs DEF RunOK

(* A runner that goes on to its next row.                                  *)
Onward(w) == [w EXCEPT !.cur = {}, !.pc = IF w.rows = {} THEN "idle" ELSE "loop"]

LEMMA OnwardRunner ==
    ASSUME NEW w \in Runners
    PROVE  /\ Onward(w) \in Runners /\ Onward(w).rows = w.rows /\ Onward(w).cur = {}
           /\ Onward(w).pc = IF Onward(w).rows = {} THEN "idle" ELSE "loop"
BY DEF Runners, Onward

LEMMA SelectsAll ==
    ASSUME TypeOK, NEW n \in Nodes, Select(n)
    PROVE  /\ run'[n].pc = "loop" /\ run'[n].rows = tJob[n] /\ run'[n].cur = run[n].cur
           /\ run[n].pc = "idle" /\ UNCHANGED <<tJob, rules, uFWStatus>>
<1>1. run[n] \in Runners /\ run' = [run EXCEPT ![n].pc = "loop", ![n].rows = tJob[n]] /\ n \in DOMAIN run
  BY DEF TypeOK, Select
<1>2. run'[n] = [run[n] EXCEPT !.pc = "loop", !.rows = tJob[n]]
  BY <1>1
<1> QED  BY <1>1, <1>2 DEF Select, Runners

LEMMA RunnerFits ==
    ASSUME TypeOK, RunOK, NEW n \in Nodes
    PROVE  Fits(run[n], tJob[n])
BY DEF TypeOK, RunOK, Fits, Snapshot

LEMMA SelectShape ==
    ASSUME TypeOK, RunOK, NEW n \in Nodes, Select(n)
    PROVE  \E f, T : RunShape(n, f, T)
<1> DEFINE f == [pc |-> "loop", rows |-> tJob[n], cur |-> run[n].cur]
<1>1. Fits(run[n], tJob[n])
  BY RunnerFits
<1>2. run[n].pc = "idle" /\ run' = [run EXCEPT ![n] = f] /\ tJob' = [tJob EXCEPT ![n] = tJob[n]]
  BY <1>1 DEF Select, TypeOK, Runners, Fits
<1>3. run[n].cur = {} /\ \A r \in tJob[n] : r.uJobStatus = "WAITING"
  BY <1>1, <1>2 DEF Fits, JobRow
<1>4. Fits(f, tJob[n])
  BY <1>1, <1>3 DEF Fits, Runners
<1>5. \A r \in tJob[n] \cup f.rows \cup f.cur : r \in AllRows(n) /\ Same(r, r)
  BY <1>3 DEF AllRows, Same
<1> HIDE DEF f
<1> QED  BY <1>2, <1>4, <1>5 DEF RunShape

LEMMA BeginShape ==
    ASSUME TypeOK, RunOK, NEW n \in Nodes, NEW r \in run[n].rows, run[n].pc = "loop",
           tJob' = [tJob EXCEPT ![n] = IF r \in @ THEN (@ \ {r}) \cup {Running(r)} ELSE @],
           run' = [run EXCEPT ![n] = [pc |-> "rules", rows |-> @.rows \ {r}, cur |-> {r}]]
    PROVE  \E f, T : RunShape(n, f, T)
<1> DEFINE f == [pc |-> "rules", rows |-> run[n].rows \ {r}, cur |-> {r}]
           T == IF r \in tJob[n] THEN (tJob[n] \ {r}) \cup {Running(r)} ELSE tJob[n]
<1>1. Fits(run[n], tJob[n])
  BY RunnerFits
<1>2. r \in JobRow /\ f \in Runners
  BY <1>1 DEF Fits, Runners
<1>3. T \subseteq tJob[n] \cup {Running(r)} /\ T \in SUBSET JobRow
  BY <1>1, <1>2, RunningIs DEF Fits
<1>4. \A q \in tJob[n] : q.uJobStatus # "RUNNING"
  BY <1>1 DEF Fits
<1>5. Fits(f, T)
  BY <1>1, <1>2, <1>3, <1>4 DEF Fits
<1>6. \A q \in T \cup f.rows \cup f.cur : \E p \in AllRows(n) : Same(q, p)
  BY <1>2, <1>3, RunningIs DEF AllRows, Snapshot, Same
<1>7. run' = [run EXCEPT ![n] = f] /\ tJob' = [tJob EXCEPT ![n] = T]
  BY DEF TypeOK
<1> HIDE DEF f, T
<1> QED  BY <1>5, <1>6, <1>7 DEF RunShape

(* The ends of a job: its row is gone, or waits again.                     *)
LEMMA EndShape ==
    ASSUME TypeOK, RunOK, NEW n \in Nodes, NEW r, run[n].cur = {r}, run[n].pc = "rules",
           NEW g, g \in Runners, NEW T, tJob' = [tJob EXCEPT ![n] = T], run' = [run EXCEPT ![n] = g],
           \/ g.rows = run[n].rows /\ g.cur = {r} /\ g.pc = "status"
           \/ g.rows = run[n].rows /\ g.cur = {} /\ g.pc = IF g.rows = {} THEN "idle" ELSE "loop",
           T \subseteq (tJob[n] \ {Running(r)}) \cup {r}
    PROVE  RunShape(n, g, T)
<1>1. Fits(run[n], tJob[n])
  BY RunnerFits
<1>2. r \in JobRow /\ r.uJobStatus = "WAITING"
  BY <1>1 DEF Fits, Runners
<1>3. T \in SUBSET JobRow /\ \A q \in T : q.uJobStatus = "RUNNING" => FALSE
  BY <1>1, <1>2 DEF Fits
<1>4. Fits(g, T)
  BY <1>1, <1>2, <1>3 DEF Fits
<1>5. \A q \in T \cup g.rows \cup g.cur : q \in AllRows(n) /\ Same(q, q)
  BY DEF AllRows, Snapshot, Same
<1> QED  BY <1>4, <1>5 DEF RunShape

LEMMA RunKeepsShape ==
    ASSUME TypeOK, RunOK, NEW n \in Nodes, RunStep(n)
    PROVE  /\ \E f, T : RunShape(n, f, T)
           /\ rules' \in [Nodes -> SUBSET Rules] /\ uFWStatus' \in [Hosts -> FWStatus]
           /\ events <= events' /\ events' \in Numbers /\ doubt' \in SUBSET Doubts
           /\ UNCHANGED <<tProperty, uOTPExpire, cIPMask, page, sweep>>
<1>1. events \in Nat /\ Fits(run[n], tJob[n]) /\ \A d \in Doubts : {d} \in SUBSET Doubts
  BY RunnerFits DEF TypeOK, Numbers
<1>2. Count => events <= events' /\ events' \in Numbers
  BY <1>1 DEF Count, Numbers, TypeOK
<1>3. \A D \in SUBSET Doubts : Note(D) => doubt' \in SUBSET Doubts
  BY DEF Note, TypeOK
<1>4. run[n].pc \in {"rules", "status"} => \E r \in JobRow : run[n].cur = {r}
  BY <1>1 DEF Fits
<1>5. \A a : [uFWStatus EXCEPT ![a] = "REMOVED"] \in [Hosts -> FWStatus]
                /\ [uFWStatus EXCEPT ![a] = "ACCESS"] \in [Hosts -> FWStatus]
  BY DEF TypeOK, FWStatus
<1>6. CASE Select(n)
  <2>1. \E f, T : RunShape(n, f, T)
    BY <1>6, SelectShape
  <2> QED  BY <2>1, <1>6, <1>1 DEF Select, TypeOK
<1>7. CASE Begin(n)
  <2> USE <1>7 DEF Begin
  <2>1. PICK r \in run[n].rows :
          /\ tJob' = [tJob EXCEPT ![n] = IF r \in @ THEN (@ \ {r}) \cup {Running(r)} ELSE @]
          /\ run' = [run EXCEPT ![n] = [pc |-> "rules", rows |-> @.rows \ {r}, cur |-> {r}]]
          /\ Note({d \in {"overtaken"} : r.name = "Login" /\ \E q \in tJob[n] :
                    q.name = "Logout" /\ q.host = r.host /\ q.uJob < r.uJob})
    OBVIOUS
  <2>2. doubt' \in SUBSET Doubts
    BY <2>1, <1>3 DEF Doubts
  <2>3. \E f, T : RunShape(n, f, T)
    BY <2>1, BeginShape
  <2> QED  BY <2>2, <2>3, <1>1 DEF TypeOK
<1>8. CASE Postpone(n)
  <2> USE <1>8 DEF Postpone
  <2>1. PICK r \in JobRow : run[n].cur = {r} /\ Cur(n) = r
    BY <1>4, CurIs
  <2> DEFINE g == Onward(run[n])
             T == IF Running(r) \in tJob[n] THEN (tJob[n] \ {Running(r)}) \cup {r} ELSE tJob[n]
  <2>2. run' = [run EXCEPT ![n] = g] /\ tJob' = [tJob EXCEPT ![n] = T]
    BY <2>1 DEF NextRow, Onward, TypeOK
  <2>3. /\ g \in Runners /\ g.rows = run[n].rows /\ g.cur = {}
        /\ g.pc = IF g.rows = {} THEN "idle" ELSE "loop"
    <3>1. run[n] \in Runners
      BY DEF TypeOK
    <3> QED  BY <3>1, OnwardRunner
  <2>4. RunShape(n, g, T)
    <3> HIDE DEF g
    <3> QED  BY <2>1, <2>2, <2>3, EndShape
  <2> QED  BY <2>4, <1>2 DEF TypeOK
<1>9. CASE Iptables(n)
  <2> USE <1>9 DEF Iptables
  <2>1. PICK r \in JobRow : run[n].cur = {r} /\ Cur(n) = r
    BY <1>4, CurIs
  <2> DEFINE g == [run[n] EXCEPT !.pc = "status"]
             T == tJob[n] \ {Running(r)}
  <2>2. run' = [run EXCEPT ![n] = g] /\ tJob' = [tJob EXCEPT ![n] = T]
    BY <2>1 DEF EndJob, TypeOK
  <2>3. g \in Runners /\ g.rows = run[n].rows /\ g.cur = {r} /\ g.pc = "status"
    BY <2>1 DEF TypeOK, Runners
  <2>4. RunShape(n, g, T)
    <3> HIDE DEF g
    <3> QED  BY <2>1, <2>2, <2>3, EndShape
  <2>5. {r.host} \X ChainsOf(r.user) \in SUBSET Rules
    BY DEF JobRow, ChainsOf, Chains, Rules
  <2>6. rules' \in [Nodes -> SUBSET Rules]
    BY <2>1, <2>5 DEF TypeOK
  <2> QED  BY <2>4, <2>6, <1>1 DEF TypeOK
<1>10. CASE IptablesFails(n)
  <2> USE <1>10 DEF IptablesFails
  <2>1. PICK r \in JobRow : run[n].cur = {r} /\ Cur(n) = r
    BY <1>4, CurIs
  <2> DEFINE g == Onward(run[n])
             T == tJob[n] \ {Running(r)}
  <2>2. run' = [run EXCEPT ![n] = g] /\ tJob' = [tJob EXCEPT ![n] = T]
    BY <2>1 DEF NextRow, Onward, EndJob, TypeOK
  <2>3. /\ g \in Runners /\ g.rows = run[n].rows /\ g.cur = {}
        /\ g.pc = IF g.rows = {} THEN "idle" ELSE "loop"
    <3>1. run[n] \in Runners
      BY DEF TypeOK
    <3> QED  BY <3>1, OnwardRunner
  <2>4. RunShape(n, g, T)
    <3> HIDE DEF g
    <3> QED  BY <2>1, <2>2, <2>3, EndShape
  <2>5. doubt' \in SUBSET Doubts
    BY <1>3 DEF Doubts
  <2> QED  BY <2>4, <2>5, <1>2 DEF TypeOK
<1>11. CASE SetStatus(n)
  <2> USE <1>11 DEF SetStatus
  <2>1. PICK r \in JobRow : run[n].cur = {r} /\ Cur(n) = r
    BY <1>4, CurIs
  <2> DEFINE g == Onward(run[n])
  <2>2. run' = [run EXCEPT ![n] = g] /\ tJob' = [tJob EXCEPT ![n] = tJob[n]]
    BY <2>1 DEF NextRow, Onward, TypeOK
  <2>3. /\ g \in Runners /\ g.rows = run[n].rows /\ g.cur = {}
        /\ g.pc = IF g.rows = {} THEN "idle" ELSE "loop"
    <3>1. run[n] \in Runners
      BY DEF TypeOK
    <3> QED  BY <3>1, OnwardRunner
  <2>4. Fits(g, tJob[n])
    <3> HIDE DEF g
    <3> QED  BY <1>1, <2>3 DEF Fits
  <2>5. \A q \in tJob[n] \cup g.rows \cup g.cur : q \in AllRows(n) /\ Same(q, q)
    <3> HIDE DEF g
    <3> QED  BY <2>3 DEF AllRows, Snapshot, Same
  <2>6. RunShape(n, g, tJob[n])
    <3> HIDE DEF g
    <3> QED  BY <2>2, <2>4, <2>5 DEF RunShape
  <2>7. doubt' \in SUBSET Doubts
    BY <1>3 DEF Doubts
  <2>8. uFWStatus' \in [Hosts -> FWStatus]
    BY <1>5
  <2> QED  BY <2>6, <2>7, <2>8, <1>1 DEF TypeOK
<1> QED  BY <1>6, <1>7, <1>8, <1>9, <1>10, <1>11 DEF RunStep, Proceed

-----------------------------------------------------------------------------
(***************************** The types are kept **************************)

LEMMA SweepTypes ==
    ASSUME TypeInv, NEW n \in Nodes, SweepStep(n)
    PROVE  TypeInv'
<1> USE DEF TypeInv
<1>1. PICK f : SweepShape(n, f)
  BY SweepKeepsShape
<1>2. /\ tProperty' \subseteq tProperty
      /\ rules' \in [Nodes -> SUBSET Rules] /\ uFWStatus' \in [Hosts -> FWStatus]
      /\ events <= events' /\ events' \in Numbers /\ doubt' \in SUBSET Doubts
      /\ UNCHANGED <<uOTPExpire, cIPMask, tJob, page, run>>
  BY SweepKeepsShape
<1>3. TypeOK'
  BY <1>1, <1>2 DEF SweepShape, TypeOK
<1>4. \A k : AllRows(k)' = AllRows(k) /\ Cardinality(ComingTo(k))' = Cardinality(ComingTo(k))
  BY <1>2 DEF AllRows, Snapshot, ComingTo
<1>5. Numbered'
  BY <1>2, <1>4, ComingFinite DEF Numbered, TypeOK, Numbers, AllRows, Snapshot, JobRow, Runners
<1>6. PageOK' /\ RunOK'
  BY <1>2 DEF PageOK, RunOK, Snapshot, Running
<1>7. SweepOK'
  BY <1>1 DEF SweepShape, SweepOK, TypeOK
<1> QED  BY <1>3, <1>5, <1>6, <1>7

LEMMA RunTypes ==
    ASSUME TypeInv, NEW n \in Nodes, RunStep(n)
    PROVE  TypeInv'
<1> USE DEF TypeInv
<1>1. PICK f, T : RunShape(n, f, T)
  BY RunKeepsShape
<1>2. /\ rules' \in [Nodes -> SUBSET Rules] /\ uFWStatus' \in [Hosts -> FWStatus]
      /\ events <= events' /\ events' \in Numbers /\ doubt' \in SUBSET Doubts
      /\ UNCHANGED <<tProperty, uOTPExpire, cIPMask, page, sweep>>
  BY RunKeepsShape
<1>3. run'[n] = f /\ tJob'[n] = T /\ \A k \in Nodes \ {n} : run'[k] = run[k] /\ tJob'[k] = tJob[k]
  BY <1>1 DEF RunShape, TypeOK
<1>4. TypeOK'
  BY <1>1, <1>2 DEF RunShape, Fits, TypeOK
<1>5. \A k \in Nodes : Fits(run'[k], tJob'[k])
  BY <1>1, <1>3, RunnerFits DEF RunShape
<1>6. RunOK'
  BY <1>5 DEF Fits, RunOK, Snapshot, Running
<1>7. \A k \in Nodes : \A r \in AllRows(k)' : \E q \in AllRows(k) : Same(r, q)
  BY <1>1, <1>3 DEF RunShape, AllRows, Snapshot, Same
<1>8. \A k : Cardinality(ComingTo(k))' = Cardinality(ComingTo(k))
  BY <1>2 DEF ComingTo
<1>9. \A k \in Nodes : \A q \in AllRows(k) : q.uJob \in Nat
  BY DEF TypeOK, AllRows, Snapshot, JobRow, Runners
<1>10. Numbered'
  BY <1>2, <1>7, <1>8, <1>9, ComingFinite DEF Numbered, TypeOK, Numbers, Same
<1>11. PageOK' /\ SweepOK'
  BY <1>2 DEF PageOK, SweepOK
<1> QED  BY <1>4, <1>6, <1>10, <1>11

PageFits(p) ==
    /\ p \in Pages
    /\ p.at # "none" => p.host \in Hosts /\ p.left # {}
    /\ p.at \in {"session", "check"} => p.left = Nodes

NewRow(u, n, name) == [user |-> u, host |-> page[u].host, name |-> name,
                       uJob |-> NewJob(n), uJobStatus |-> "WAITING"]

(* What a page does to the rows of a node: at most a new one, the last.    *)
RowsFit(u, n, name, T) ==
    /\ tJob' = [tJob EXCEPT ![n] = T]
    /\ T \subseteq tJob[n] \cup {NewRow(u, n, name)}
    /\ NewRow(u, n, name) \in JobRow
    /\ \A r \in AllRows(n) : r.uJob < NewJob(n)
    /\ NewJob(n) + (Cardinality(ComingTo(n)) - 1) <= events

LEMMA ExchangeShape ==
    ASSUME TypeInv, NEW u \in Users, NEW n \in Nodes, page[u].at # "none", n \in page[u].left,
           NEW name \in JobNames, NEW drop, Exchange(u, n, name, drop)
    PROVE  \E T : RowsFit(u, n, name, T)
<1> DEFINE mine(r) == r.user = u /\ r.host = page[u].host /\ r.uJobStatus = "WAITING"
           kept == {r \in tJob[n] : ~(mine(r) /\ r.name \in drop)}
           T == IF \E r \in kept : mine(r) /\ r.name = name THEN kept
                ELSE kept \cup {NewRow(u, n, name)}
<1>1. tJob' = [tJob EXCEPT ![n] = T]
  BY DEF Exchange, NewRow
<1>2. u \in ComingTo(n)
  BY DEF ComingTo
<1>3. /\ NewJob(n) \in 1 .. MaxEvent
      /\ \A r \in AllRows(n) : r.uJob < NewJob(n)
      /\ NewJob(n) + (Cardinality(ComingTo(n)) - 1) <= events
  BY <1>2, NewJobBehind DEF TypeInv
<1>4. page[u].host \in Hosts
  BY DEF TypeInv, PageOK
<1>5. NewRow(u, n, name) \in JobRow
  BY <1>3, <1>4 DEF NewRow, JobRow
<1>6. T \subseteq tJob[n] \cup {NewRow(u, n, name)}
  OBVIOUS
<1> HIDE DEF T
<1> QED  BY <1>1, <1>3, <1>5, <1>6 DEF RowsFit

(* One step of a page: it is asked for, it moves on, it comes to a node,   *)
(* or only a password changes.                                             *)
PageShape(u, p) == page' = [page EXCEPT ![u] = p] /\ PageFits(p)

Asked(u) == /\ page[u].at = "none" /\ events' = events + 1 /\ events' \in Numbers
            /\ \E p : PageShape(u, p)
            /\ UNCHANGED tJob

Moves(u) == /\ UNCHANGED <<tJob, events>>
            /\ \E p : PageShape(u, p) /\ (p.at # "none" => page[u].at # "none" /\ p.left = page[u].left)

Comes(u, n) == /\ UNCHANGED events /\ page[u].at # "none" /\ n \in page[u].left
               /\ \E name, T : RowsFit(u, n, name, T)
               /\ \E p : PageShape(u, p) /\ ((p.at = "none" /\ page[u].left = {n})
                                            \/ p.left = page[u].left \ {n})

Waits == /\ UNCHANGED <<tJob, page>> /\ events' = events + 1 /\ events' \in Numbers

LEMMA NextNodeIn ==
    ASSUME NEW u, NEW n, page[u].left # {}, NextNode(u, n)
    PROVE  n \in page[u].left
BY DEF NextNode

LEMMA PageParts ==
    ASSUME TypeInv, NEW u \in Users
    PROVE  /\ PageFits(page[u]) /\ PageFits(NoPage)
           /\ \A n : page[u].left # {n} /\ page[u].at \in {"login", "logout"} /\ n \in page[u].left =>
                PageFits([page[u] EXCEPT !.left = @ \ {n}])
           /\ page[u].at = "session" => PageFits([page[u] EXCEPT !.at = "login"])
           /\ page[u].at = "check" => PageFits([page[u] EXCEPT !.at = "logout"])
<1>1. page[u] \in Pages
  BY DEF TypeInv, TypeOK
<1>2. PageFits(page[u])
  BY <1>1 DEF TypeInv, PageOK, PageFits
<1>3. PageFits(NoPage)
  BY DEF PageFits, NoPage, Pages, NoHost, TypeInv, TypeOK, Numbers
<1>4. ASSUME NEW n, page[u].left # {n}, page[u].at \in {"login", "logout"}, n \in page[u].left
      PROVE  PageFits([page[u] EXCEPT !.left = @ \ {n}])
  BY <1>2, <1>4 DEF PageFits, Pages
<1>5. page[u].at = "session" => PageFits([page[u] EXCEPT !.at = "login"])
  BY <1>2 DEF PageFits, Pages
<1>6. page[u].at = "check" => PageFits([page[u] EXCEPT !.at = "logout"])
  BY <1>2 DEF PageFits, Pages
<1> QED  BY <1>2, <1>3, <1>4, <1>5, <1>6

LEMMA PageKeepsShape ==
    ASSUME TypeInv, NEW u \in Users, PageStep(u)
    PROVE  /\ Asked(u) \/ Moves(u) \/ (\E n \in Nodes : Comes(u, n)) \/ Waits
           /\ tProperty' \in SUBSET Session
           /\ uOTPExpire' \in [Users -> {"0", "future", "past"}]
           /\ cIPMask' \in [Users -> Hosts \cup {NoHost}]
           /\ uFWStatus' \in [Hosts -> FWStatus] /\ doubt' \in SUBSET Doubts
           /\ UNCHANGED <<rules, run, sweep>>
<1>1. TypeOK /\ page[u] \in Pages /\ PageFits(page[u]) /\ events \in Nat
  <2>1. TypeOK /\ PageFits(page[u])
    BY PageParts DEF TypeInv
  <2> QED  BY <2>1 DEF TypeOK, Numbers
<1>2. Count => events' = events + 1 /\ events' \in Numbers
  BY <1>1 DEF Count, Numbers, TypeOK
<1>3. \A D \in SUBSET Doubts : Note(D) => doubt' \in SUBSET Doubts
  BY <1>1 DEF Note, TypeOK
<1>4. LoggedOut(u) => /\ page' = [page EXCEPT ![u] = NoPage]
                      /\ uOTPExpire' \in [Users -> {"0", "future", "past"}]
                      /\ cIPMask' \in [Users -> Hosts \cup {NoHost}]
  BY <1>1 DEF LoggedOut, TypeOK
<1>5. ASSUME NEW a \in Hosts, NEW at \in {"session", "check"}, NEW k, k \in {0, events'},
             NEW out \in BOOLEAN, page[u].at = "none", Count, UNCHANGED tJob,
             page' = [page EXCEPT ![u] = [at |-> at, host |-> a, left |-> Nodes, number |-> k, out |-> out]]
      PROVE  Asked(u)
  <2> DEFINE p == [at |-> at, host |-> a, left |-> Nodes, number |-> k, out |-> out]
  <2>0. k \in Numbers
    BY <1>2, <1>5, <1>1 DEF Numbers, TypeOK
  <2>1. PageFits(p)
    BY <2>0, <1>5 DEF PageFits, Pages
  <2> HIDE DEF p
  <2> QED  BY <2>1, <1>2, <1>5 DEF Asked, PageShape, p
<1>6. CASE \E a \in Hosts : Login(u, a)
  <2>1. PICK a \in Hosts : Login(u, a)
    BY <1>6
  <2>2. Asked(u)
    BY <2>1, <1>5 DEF Login
  <2>3. uFWStatus' \in [Hosts -> FWStatus] /\ uOTPExpire' \in [Users -> {"0", "future", "past"}]
    BY <2>1, <1>1 DEF Login, TypeOK, FWStatus
  <2> QED  BY <2>1, <2>2, <2>3, <1>1 DEF Login, TypeOK
<1>7. CASE CreateLoginSession(u)
  <2> DEFINE p == [page[u] EXCEPT !.at = "login"]
  <2>1. page[u].at = "session" /\ page' = [page EXCEPT ![u] = p] /\ UNCHANGED <<tJob, events>>
    BY <1>7, <1>1 DEF CreateLoginSession, TypeOK
  <2>2. PageFits(p) /\ p.left = page[u].left
    BY <2>1, <1>1, PageParts DEF Pages
  <2>3. Moves(u)
    <3> HIDE DEF p
    <3> QED  BY <2>1, <2>2 DEF Moves, PageShape
  <2>4. page[u].host \in Hosts /\ page[u].number \in Numbers
    BY <2>1, <1>1 DEF PageFits, Pages
  <2>5. tProperty' \in SUBSET Session
    BY <1>7, <1>1, <2>4 DEF CreateLoginSession, TypeOK, Session
  <2>6. doubt' \in SUBSET Doubts
    <3> DEFINE D == {d \in {"crossed", "swept"} :
            \/ d = "crossed" /\ \E v \in Users : page[v].at = "logout" /\ page[v].host = page[u].host
            \/ d = "swept" /\ Swept(u, page[u].host)}
    <3>1. Note(D)
      BY <1>7 DEF CreateLoginSession
    <3>2. D \in SUBSET Doubts
      BY DEF Doubts
    <3> HIDE DEF D
    <3> QED  BY <3>1, <3>2, <1>3
  <2> QED  BY <2>3, <2>5, <2>6, <1>7, <1>1 DEF CreateLoginSession, TypeOK
<1>8. CASE CheckSessions(u)
  <2> DEFINE p == [page[u] EXCEPT !.at = "logout"]
  <2>1. page[u].at = "check" /\ UNCHANGED <<tProperty, uFWStatus, tJob, rules, run, sweep, events, doubt>>
    BY <1>8 DEF CheckSessions
  <2>2. CASE LoggedOut(u)
    BY <2>1, <2>2, <1>4, <1>1, PageParts DEF Moves, PageShape, NoPage, TypeOK
  <2>3. CASE page' = [page EXCEPT ![u] = p] /\ UNCHANGED <<cIPMask, uOTPExpire>>
    <3>1. PageFits(p) /\ p.left = page[u].left
      BY <2>1, <1>1, PageParts DEF Pages
    <3> HIDE DEF p
    <3> QED  BY <2>1, <2>3, <3>1, <1>1 DEF Moves, PageShape, TypeOK
  <2>4. page' = [page EXCEPT ![u].at = "logout"] => page' = [page EXCEPT ![u] = p]
    BY <1>1 DEF TypeOK
  <2> QED  BY <1>8, <2>2, <2>3, <2>4 DEF CheckSessions
<1>9. CASE \E a \in Hosts : Logout(u, a) \/ LoginRefused(u, a)
  <2>1. PICK a \in Hosts, out \in BOOLEAN : Leave(u, a, out)
    BY <1>9 DEF Logout, LoginRefused
  <2>2. Asked(u)
    BY <2>1, <1>5 DEF Leave
  <2> QED  BY <2>1, <2>2, <1>1 DEF Leave, TypeOK
<1>10. CASE \E n \in Nodes : LoginFirewallJob(u, n)
  <2>1. PICK n \in Nodes : LoginFirewallJob(u, n)
    BY <1>10
  <2>2. page[u].at = "login" /\ n \in page[u].left /\ page[u].host \in Hosts
    BY <2>1, <1>1, NextNodeIn DEF LoginFirewallJob, PageFits
  <2>3. \E T : RowsFit(u, n, "Login", T)
    BY <2>1, <2>2, ExchangeShape DEF LoginFirewallJob, JobNames
  <2> DEFINE p == [page[u] EXCEPT !.left = @ \ {n}]
  <2>4. \/ page[u].left = {n} /\ page' = [page EXCEPT ![u] = NoPage]
                              /\ cIPMask' = [cIPMask EXCEPT ![u] = page[u].host]
        \/ page[u].left # {n} /\ page' = [page EXCEPT ![u] = p] /\ cIPMask' = cIPMask
    BY <2>1, <1>1 DEF LoginFirewallJob, TypeOK
  <2>5. \E q : PageShape(u, q) /\ ((q.at = "none" /\ page[u].left = {n}) \/ q.left = page[u].left \ {n})
    <3>1. NoPage.at = "none" /\ PageFits(NoPage)
      BY PageParts DEF NoPage
    <3>2. p.left = page[u].left \ {n} /\ (page[u].left # {n} => PageFits(p))
      BY <2>2, <1>1, PageParts DEF Pages
    <3> HIDE DEF p
    <3> QED  BY <2>4, <3>1, <3>2 DEF PageShape
  <2>6. cIPMask' \in [Users -> Hosts \cup {NoHost}]
    BY <2>2, <2>4, <1>1 DEF TypeOK
  <2>7. Comes(u, n)
    BY <2>1, <2>2, <2>3, <2>5 DEF Comes, LoginFirewallJob
  <2>8. doubt' \in SUBSET Doubts
    <3>1. Note({d \in {"kept"} : Kept(u, n)})
      BY <2>1 DEF LoginFirewallJob
    <3> QED  BY <3>1, <1>3 DEF Doubts
  <2> QED  BY <2>1, <2>6, <2>7, <2>8, <1>1 DEF LoginFirewallJob, TypeOK
<1>11. CASE \E n \in Nodes : LogoutFirewallJob(u, n)
  <2>1. PICK n \in Nodes : LogoutFirewallJob(u, n)
    BY <1>11
  <2>2. page[u].at = "logout" /\ n \in page[u].left
    BY <2>1, <1>1, NextNodeIn DEF LogoutFirewallJob, PageFits
  <2>3. \E T : RowsFit(u, n, "Logout", T)
    BY <2>1, <2>2, ExchangeShape DEF LogoutFirewallJob, JobNames
  <2> DEFINE p == [page[u] EXCEPT !.left = @ \ {n}]
  <2>4. \/ page[u].left = {n} /\ LoggedOut(u)
        \/ page[u].left # {n} /\ page' = [page EXCEPT ![u] = p] /\ UNCHANGED <<cIPMask, uOTPExpire>>
    BY <2>1, <1>1 DEF LogoutFirewallJob, TypeOK
  <2>5. \E q : PageShape(u, q) /\ ((q.at = "none" /\ page[u].left = {n}) \/ q.left = page[u].left \ {n})
    <3>1. NoPage.at = "none" /\ PageFits(NoPage)
      BY PageParts DEF NoPage
    <3>2. p.left = page[u].left \ {n} /\ (page[u].left # {n} => PageFits(p))
      BY <2>2, <1>1, PageParts DEF Pages
    <3> HIDE DEF p
    <3> QED  BY <2>4, <3>1, <3>2, <1>4 DEF PageShape
  <2>6. /\ cIPMask' \in [Users -> Hosts \cup {NoHost}]
        /\ uOTPExpire' \in [Users -> {"0", "future", "past"}]
    BY <2>4, <1>4, <1>1 DEF TypeOK
  <2>7. Comes(u, n)
    BY <2>1, <2>2, <2>3, <2>5 DEF Comes, LogoutFirewallJob
  <2> QED  BY <2>1, <2>6, <2>7, <1>1 DEF LogoutFirewallJob, TypeOK
<1>12. CASE Expire(u)
  BY <1>12, <1>1, <1>2 DEF Expire, Waits, TypeOK
<1>13. CASE Renew(u)
  <2>1. doubt' \in SUBSET Doubts
    <3>1. \E D \in SUBSET Doubts : Note(D)
      BY <1>13 DEF Renew, Doubts
    <3> QED  BY <3>1, <1>3
  <2> QED  BY <2>1, <1>13, <1>1, <1>2 DEF Renew, Waits, TypeOK
<1> QED  BY <1>6, <1>7, <1>8, <1>9, <1>10, <1>11, <1>12, <1>13 DEF PageStep, Page, Ask

(* Who comes to a node after the page of u has changed.                    *)
LEMMA ComingChange ==
    ASSUME TypeOK, NEW u \in Users, NEW p, PageShape(u, p), NEW n
    PROVE  /\ p.at # "none" /\ n \in p.left => ComingTo(n)' = ComingTo(n) \cup {u}
           /\ ~(p.at # "none" /\ n \in p.left) => ComingTo(n)' = ComingTo(n) \ {u}
BY DEF PageShape, ComingTo, TypeOK

LEMMA ComingBound ==
    ASSUME NEW n, NEW u
    PROVE  /\ Cardinality(ComingTo(n) \cup {u}) <= Cardinality(ComingTo(n)) + 1
           /\ u \in ComingTo(n) => Cardinality(ComingTo(n) \cup {u}) = Cardinality(ComingTo(n))
           /\ Cardinality(ComingTo(n) \ {u}) <= Cardinality(ComingTo(n))
           /\ u \in ComingTo(n) => Cardinality(ComingTo(n) \ {u}) = Cardinality(ComingTo(n)) - 1
           /\ Cardinality(ComingTo(n) \cup {u}) \in Nat /\ Cardinality(ComingTo(n) \ {u}) \in Nat
<1>1. IsFiniteSet(ComingTo(n)) /\ Cardinality(ComingTo(n)) \in Nat
  BY ComingFinite
<1>2. /\ IsFiniteSet(ComingTo(n) \cup {u})
      /\ Cardinality(ComingTo(n) \cup {u}) = IF u \in ComingTo(n) THEN Cardinality(ComingTo(n))
                                             ELSE Cardinality(ComingTo(n)) + 1
  BY <1>1, FS_AddElement
<1>3. /\ IsFiniteSet(ComingTo(n) \ {u})
      /\ Cardinality(ComingTo(n) \ {u}) = IF u \in ComingTo(n) THEN Cardinality(ComingTo(n)) - 1
                                          ELSE Cardinality(ComingTo(n))
  BY <1>1, FS_RemoveElement
<1>4. Cardinality(ComingTo(n) \ {u}) \in Nat
  BY <1>3, FS_CardinalityType
<1> QED  BY <1>1, <1>2, <1>3, <1>4

LEMMA PageNumbered ==
    ASSUME TypeInv, NEW u \in Users, UNCHANGED run,
           Asked(u) \/ Moves(u) \/ (\E n \in Nodes : Comes(u, n)) \/ Waits
    PROVE  Numbered'
<1> DEFINE c(n) == Cardinality(ComingTo(n))
<1>1. TypeOK /\ Numbered /\ events \in Nat
  BY DEF TypeInv, TypeOK, Numbers
<1>2. \A n \in Nodes : /\ c(n) \in Nat /\ c(n) <= events
                       /\ \A r \in AllRows(n) : r.uJob \in Nat /\ r.uJob + c(n) <= events
  BY <1>1, ComingFinite DEF Numbered, TypeOK, AllRows, Snapshot, JobRow, Runners
<1>3. ASSUME UNCHANGED tJob  PROVE \A n \in Nodes : AllRows(n)' = AllRows(n)
  BY <1>3 DEF AllRows, Snapshot
<1>4. CASE Asked(u)
  <2>1. PICK p : PageShape(u, p)
    BY <1>4 DEF Asked
  <2>2. \A n \in Nodes : c(n)' \in Nat /\ c(n)' <= c(n) + 1
    <3> TAKE n \in Nodes
    <3>1. ComingTo(n)' = ComingTo(n) \cup {u} \/ ComingTo(n)' = ComingTo(n) \ {u}
      BY <2>1, <1>1, ComingChange
    <3>2. \/ c(n)' = Cardinality(ComingTo(n) \cup {u})
          \/ c(n)' = Cardinality(ComingTo(n) \ {u})
      BY <3>1
    <3>3. /\ Cardinality(ComingTo(n) \cup {u}) <= c(n) + 1 /\ Cardinality(ComingTo(n) \ {u}) <= c(n)
          /\ Cardinality(ComingTo(n) \cup {u}) \in Nat /\ Cardinality(ComingTo(n) \ {u}) \in Nat
      BY ComingBound
    <3> HIDE DEF c
    <3> QED  BY <3>2, <3>3, <1>2
  <2> HIDE DEF c
  <2>3. \A n \in Nodes : c(n)' <= events' /\ \A r \in AllRows(n)' : r.uJob + c(n)' <= events'
    BY <2>2, <1>1, <1>2, <1>3, <1>4 DEF Asked
  <2> QED  BY <2>3 DEF Numbered, c
<1>5. CASE Moves(u)
  <2>1. PICK p : PageShape(u, p) /\ (p.at # "none" => page[u].at # "none" /\ p.left = page[u].left)
    BY <1>5 DEF Moves
  <2>2. \A n \in Nodes : c(n)' \in Nat /\ c(n)' <= c(n)
    <3> TAKE n \in Nodes
    <3>1. \/ u \in ComingTo(n) /\ ComingTo(n)' = ComingTo(n) \cup {u}
          \/ ComingTo(n)' = ComingTo(n) \ {u}
      <4>1. \/ p.at # "none" /\ n \in p.left /\ ComingTo(n)' = ComingTo(n) \cup {u}
            \/ ComingTo(n)' = ComingTo(n) \ {u}
        BY <2>1, <1>1, ComingChange
      <4>2. p.at # "none" /\ n \in p.left => u \in ComingTo(n)
        BY <2>1 DEF ComingTo
      <4> HIDE DEF c
      <4> QED  BY <4>1, <4>2
    <3>2. /\ u \in ComingTo(n) => Cardinality(ComingTo(n) \cup {u}) = c(n)
          /\ Cardinality(ComingTo(n) \ {u}) <= c(n) /\ Cardinality(ComingTo(n) \ {u}) \in Nat
      BY ComingBound
    <3>3. c(n)' = c(n) \/ c(n)' = Cardinality(ComingTo(n) \ {u})
      BY <3>1, <3>2
    <3> HIDE DEF c
    <3> QED  BY <3>2, <3>3, <1>2
  <2> HIDE DEF c
  <2>3. \A n \in Nodes : c(n)' <= events' /\ \A r \in AllRows(n)' : r.uJob + c(n)' <= events'
    BY <2>2, <1>1, <1>2, <1>3, <1>5 DEF Moves
  <2> QED  BY <2>3 DEF Numbered, c
<1>6. CASE \E n \in Nodes : Comes(u, n)
  <2>1. PICK n \in Nodes : Comes(u, n)
    BY <1>6
  <2>2. PICK name, T : RowsFit(u, n, name, T)
    BY <2>1 DEF Comes
  <2>3. PICK p : PageShape(u, p) /\ (\/ p.at = "none" /\ page[u].left = {n}
                                     \/ p.left = page[u].left \ {n})
    BY <2>1 DEF Comes
  <2>4. \A k \in Nodes : /\ c(k)' \in Nat /\ c(k)' <= c(k)
                         /\ k = n => c(k)' = c(k) - 1
    <3> TAKE k \in Nodes
    <3>0. u \in ComingTo(n) /\ (p.at # "none" /\ k \in p.left => u \in ComingTo(k))
      BY <2>1, <2>3 DEF ComingTo, Comes
    <3>1. u \in ComingTo(n) /\ (k # n => \/ u \in ComingTo(k) /\ ComingTo(k)' = ComingTo(k) \cup {u}
                                        \/ ComingTo(k)' = ComingTo(k) \ {u})
      <4>1. \/ p.at # "none" /\ k \in p.left /\ ComingTo(k)' = ComingTo(k) \cup {u}
            \/ ComingTo(k)' = ComingTo(k) \ {u}
        BY <2>3, <1>1, ComingChange
      <4> HIDE DEF c
      <4> QED  BY <3>0, <4>1
    <3>2. ComingTo(n)' = ComingTo(n) \ {u}
      BY <2>3, <1>1, ComingChange
    <3>3. /\ u \in ComingTo(k) => Cardinality(ComingTo(k) \cup {u}) = c(k)
          /\ Cardinality(ComingTo(k) \ {u}) <= c(k) /\ Cardinality(ComingTo(k) \ {u}) \in Nat
          /\ u \in ComingTo(k) => Cardinality(ComingTo(k) \ {u}) = c(k) - 1
      BY ComingBound
    <3>4. CASE k = n
      <4>1. c(k)' = Cardinality(ComingTo(k) \ {u})
        BY <3>2, <3>4
      <4> HIDE DEF c
      <4> QED  BY <4>1, <3>1, <3>3, <3>4, <1>2
    <3>5. CASE k # n
      <4>1. c(k)' = c(k) \/ c(k)' = Cardinality(ComingTo(k) \ {u})
        BY <3>1, <3>3, <3>5
      <4> HIDE DEF c
      <4> QED  BY <4>1, <3>3, <3>5, <1>2
    <3> QED  BY <3>4, <3>5
  <2>5. \A k \in Nodes : \A r \in AllRows(k)' : \/ r \in AllRows(k)
                                                \/ k = n /\ r = NewRow(u, n, name)
    BY <2>2, <1>1 DEF RowsFit, AllRows, Snapshot, TypeOK
  <2>6. NewRow(u, n, name).uJob + (c(n) - 1) <= events /\ NewRow(u, n, name).uJob \in Nat
    BY <2>2 DEF RowsFit, NewRow, JobRow
  <2>7. events' = events
    BY <2>1 DEF Comes
  <2> HIDE DEF c
  <2>8. \A k \in Nodes : c(k)' <= events' /\ \A r \in AllRows(k)' : r.uJob + c(k)' <= events'
    BY <2>4, <2>5, <2>6, <2>7, <1>1, <1>2
  <2> QED  BY <2>8 DEF Numbered, c
<1>7. CASE Waits
  <2>1. \A n \in Nodes : c(n)' = c(n)
    BY <1>7 DEF Waits, ComingTo
  <2> HIDE DEF c
  <2>2. \A n \in Nodes : c(n)' <= events' /\ \A r \in AllRows(n)' : r.uJob + c(n)' <= events'
    BY <2>1, <1>1, <1>2, <1>3, <1>7 DEF Waits
  <2> QED  BY <2>2 DEF Numbered, c
<1> QED  BY <1>4, <1>5, <1>6, <1>7

LEMMA PageTypes ==
    ASSUME TypeInv, NEW u \in Users, PageStep(u)
    PROVE  TypeInv'
<1>1. /\ Asked(u) \/ Moves(u) \/ (\E n \in Nodes : Comes(u, n)) \/ Waits
      /\ tProperty' \in SUBSET Session
      /\ uOTPExpire' \in [Users -> {"0", "future", "past"}]
      /\ cIPMask' \in [Users -> Hosts \cup {NoHost}]
      /\ uFWStatus' \in [Hosts -> FWStatus] /\ doubt' \in SUBSET Doubts
      /\ UNCHANGED <<rules, run, sweep>>
  BY PageKeepsShape
<1>2. TypeOK
  BY DEF TypeInv
<1>3. Numbered'
  BY <1>1, PageNumbered
<1>4. page' = page \/ \E p : PageShape(u, p)
  BY <1>1 DEF Asked, Moves, Comes, Waits
<1>5. page' \in [Users -> Pages] /\ PageOK'
  BY <1>4, <1>2 DEF PageShape, PageFits, PageOK, TypeInv, TypeOK
<1>6. events' \in Numbers
  BY <1>1, <1>2 DEF Asked, Moves, Comes, Waits, TypeOK
<1>7. tJob' = tJob \/ \E n \in Nodes : \E name, T : RowsFit(u, n, name, T)
  BY <1>1 DEF Asked, Moves, Comes, Waits
<1>8. tJob' \in [Nodes -> SUBSET JobRow]
  BY <1>7, <1>2 DEF RowsFit, TypeOK
<1>9. TypeOK'
  BY <1>1, <1>2, <1>5, <1>6, <1>8 DEF TypeOK
<1>10. \A n \in Nodes : \A r \in tJob'[n] : r \in tJob[n] \/ r.uJobStatus = "WAITING"
  <2>1. CASE tJob' = tJob
    BY <2>1
  <2>2. CASE tJob' # tJob
    <3>0. PICK n \in Nodes : \E name, T : RowsFit(u, n, name, T)
      BY <1>7, <2>2
    <3>1. PICK name, T : RowsFit(u, n, name, T)
      BY <3>0
    <3>2. NewRow(u, n, name).uJobStatus = "WAITING"
      BY DEF NewRow
    <3> QED  BY <3>1, <3>2, <1>2 DEF RowsFit, TypeOK
  <2> QED  BY <2>1, <2>2
<1>11. RunOK'
  <2>1. \A n \in Nodes : \A r \in tJob'[n] : r.uJobStatus = "RUNNING" => r \in tJob[n]
    BY <1>10
  <2> QED  BY <2>1, <1>1 DEF TypeInv, RunOK, Snapshot, Running
<1>12. SweepOK'
  BY <1>1 DEF TypeInv, SweepOK
<1> QED  BY <1>3, <1>5, <1>9, <1>11, <1>12 DEF TypeInv

LEMMA InitTypes == Init => TypeInv
<1> SUFFICES ASSUME Init  PROVE TypeInv
  OBVIOUS
<1>1. NoPage \in Pages /\ IdleRun \in Runners /\ IdleSweep \in Sweeps /\ 0 \in Numbers
  BY DEF NoPage, Pages, IdleRun, Runners, IdleSweep, Sweeps, Chains, Numbers
<1>2. TypeOK
  BY <1>1 DEF Init, TypeOK, FWStatus
<1>3. \A n \in Nodes : AllRows(n) = {} /\ ComingTo(n) = {}
  BY DEF Init, AllRows, Snapshot, ComingTo, NoPage, IdleRun
<1>4. Numbered
  <2>1. \A n \in Nodes : Cardinality(ComingTo(n)) = 0
    BY <1>3, FS_EmptySet
  <2> QED  BY <2>1, <1>3 DEF Numbered, Init
<1>5. PageOK /\ SweepOK
  BY DEF Init, PageOK, NoPage, SweepOK, IdleSweep, Holding, Listing
<1>6. RunOK
  BY DEF Init, RunOK, IdleRun, Snapshot
<1> QED  BY <1>2, <1>4, <1>5, <1>6 DEF TypeInv

LEMMA StutterTypes == TypeInv /\ UNCHANGED vars => TypeInv'
<1> SUFFICES ASSUME TypeInv, UNCHANGED vars  PROVE TypeInv'
  OBVIOUS
<1>1. TypeOK'
  BY DEF TypeInv, vars, TypeOK
<1>2. Numbered'
  BY DEF TypeInv, vars, Numbered, AllRows, Snapshot, ComingTo
<1>3. PageOK' /\ SweepOK'
  BY DEF TypeInv, vars, PageOK, SweepOK
<1>4. RunOK'
  BY DEF TypeInv, vars, RunOK, Snapshot, Running
<1> QED  BY <1>1, <1>2, <1>3, <1>4 DEF TypeInv

(* The types with what holds of the pages, the rows and the sweeps at each *)
(* of their points: what the other theorems start from.                    *)
THEOREM TypesKept == Spec => []TypeInv
<1>1. TypeInv /\ [Next]_vars => TypeInv'
  BY Steps, PageTypes, RunTypes, SweepTypes, StutterTypes
<1> QED  BY <1>1, InitTypes, PTL DEF Spec

(* Every variable keeps the shape of its table, chain or process state;    *)
(* the numbers of the jobs, too, stay in their bound.                      *)
THEOREM TypeCorrect == Spec => []TypeOK
BY TypesKept, PTL DEF TypeInv

-----------------------------------------------------------------------------
(************************ Sessions are let in ******************************)

LEMMA DoubtGrows ==
    ASSUME Next
    PROVE  doubt \subseteq doubt'
<1>1. ASSUME NEW u \in Users, PageStep(u)  PROVE doubt \subseteq doubt'
  <2>1. Page(u) => doubt \subseteq doubt'
    BY DEF Page, CreateLoginSession, CheckSessions, LoginFirewallJob, LogoutFirewallJob, Note
  <2>2. Ask(u) => doubt \subseteq doubt'
    BY DEF Ask, Login, Logout, LoginRefused, Leave, Expire, Renew, Note
  <2> QED  BY <1>1, <2>1, <2>2 DEF PageStep
<1>2. ASSUME NEW n \in Nodes, RunStep(n)  PROVE doubt \subseteq doubt'
  BY <1>2 DEF RunStep, Proceed, Select, Begin, Iptables, SetStatus, Postpone, IptablesFails, Note
<1>3. ASSUME NEW n \in Nodes, SweepStep(n)  PROVE doubt \subseteq doubt'
  BY <1>3 DEF SweepStep, Clean, SelectExpired, CountSessions, DropRules, DropStatus, DeleteSession,
     SessionsDone, Unlist, ListStatus, DropFails, SessionsSkipped, UnlistFails, Note
<1> QED  BY <1>1, <1>2, <1>3, Steps

LEMMA RowsAreRows ==
    ASSUME TypeOK, NEW n \in Nodes
    PROVE  AllRows(n) \subseteq JobRow /\ ToRun(n) \subseteq AllRows(n)
BY DEF TypeOK, AllRows, ToRun, Snapshot, Runners

(* A number stands for one job.                                            *)
LEMMA NumbersKept ==
    ASSUME TypeInv, SameNumber, [Next]_vars
    PROVE  SameNumber'
<1>1. TypeOK
  BY DEF TypeInv
<1>2. ASSUME NEW u \in Users, PageStep(u)  PROVE SameNumber'
  <2>1. tJob' = tJob \/ \E n \in Nodes : \E name, T : RowsFit(u, n, name, T)
    BY <1>2, PageKeepsShape DEF Asked, Moves, Comes, Waits
  <2>2. run' = run
    BY <1>2, PageKeepsShape
  <2>3. CASE tJob' = tJob
    BY <2>2, <2>3 DEF SameNumber, AllRows, Snapshot
  <2>4. CASE tJob' # tJob
    <3>0. PICK n \in Nodes : \E name, T : RowsFit(u, n, name, T)
      BY <2>1, <2>4
    <3>1. PICK name, T : RowsFit(u, n, name, T)
      BY <3>0
    <3>2. \A k \in Nodes : \A r \in AllRows(k)' : \/ r \in AllRows(k)
                                                  \/ k = n /\ r = NewRow(u, n, name)
      BY <2>2, <3>1, <1>1 DEF RowsFit, AllRows, Snapshot, TypeOK
    <3>3. NewRow(u, n, name).uJob = NewJob(n) /\ NewJob(n) \in Nat
      BY <3>1 DEF NewRow, RowsFit, JobRow
    <3>4. \A r \in AllRows(n) : r.uJob # NewJob(n)
      BY <3>1, <3>3, <1>1, RowsAreRows DEF RowsFit, JobRow
    <3> QED  BY <3>2, <3>3, <3>4 DEF SameNumber
  <2> QED  BY <2>3, <2>4
<1>3. ASSUME NEW n \in Nodes, RunStep(n)  PROVE SameNumber'
  <2>1. PICK f, T : RunShape(n, f, T)
    BY <1>3, RunKeepsShape DEF TypeInv
  <2>2. run'[n] = f /\ tJob'[n] = T /\ \A k \in Nodes \ {n} : run'[k] = run[k] /\ tJob'[k] = tJob[k]
    BY <2>1, <1>1 DEF RunShape, TypeOK
  <2>3. \A k \in Nodes : \A r \in AllRows(k)' : \E q \in AllRows(k) : Same(r, q)
    BY <2>1, <2>2 DEF RunShape, AllRows, Snapshot, Same
  <2> QED  BY <2>3 DEF SameNumber, Same
<1>4. ASSUME NEW n \in Nodes, SweepStep(n)  PROVE SameNumber'
  BY <1>4, SweepKeepsShape DEF TypeInv, SameNumber, AllRows, Snapshot
<1>5. CASE UNCHANGED vars
  BY <1>5 DEF SameNumber, AllRows, Snapshot, vars
<1> QED  BY <1>2, <1>3, <1>4, <1>5, Steps

(* What a step of a sweep does to the sessions and the rules of its node:  *)
(* only rules of addresses go whose sessions it is about to delete.        *)
SweepEffect(n, f) ==
    /\ sweep' = [sweep EXCEPT ![n] = f]
    /\ OwnsIn(f, tProperty')
    /\ \A s \in tProperty' : AtSweep(s, n) => f.pc \in {"status", "delete"} /\ s \in f.cur
    /\ \A k \in Nodes \ {n} : rules'[k] = rules[k]
    /\ \A s \in tProperty' :
            \/ \A c \in Chains : <<s.host, c>> \in rules[n] => <<s.host, c>> \in rules'[n]
            \/ f.pc \in {"status", "delete"} /\ s \in f.cur

LEMMA SearchEffect ==
    ASSUME TypeOK, NEW n \in Nodes, NEW f, Searching(f), sweep' = [sweep EXCEPT ![n] = f],
           UNCHANGED <<tProperty, rules>>, sweep[n].pc \notin {"status", "delete"}
    PROVE  SweepEffect(n, f)
<1>1. tProperty' = tProperty
  OBVIOUS
<1>2. f.pc \in {"idle", "unlist"} /\ OwnsIn(f, tProperty)
  BY DEF Searching, OwnsIn, Listing, SessionsAt
<1>3. \A s : ~AtSweep(s, n)
  BY DEF AtSweep
<1> QED  BY <1>1, <1>2, <1>3 DEF SweepEffect

LEMMA Alone ==
    ASSUME TypeOK, NEW s \in tProperty, Cardinality(SessionsAt(s.host)) < 2, IsFiniteSet(tProperty)
    PROVE  SessionsAt(s.host) = {s}
<1> DEFINE S == SessionsAt(s.host)
<1>1. S \in SUBSET tProperty /\ s \in S
  BY DEF SessionsAt
<1>2. IsFiniteSet(S)
  BY <1>1, FS_Subset
<1>3. ASSUME NEW t \in S, t # s  PROVE FALSE
  <2>1. IsFiniteSet({s}) /\ Cardinality({s}) = 1
    BY FS_Singleton
  <2>2. IsFiniteSet({s} \cup {t}) /\ Cardinality({s} \cup {t}) = 2
    <3>1. t \notin {s}
      BY <1>3
    <3>2. Cardinality({s} \cup {t}) = IF t \in {s} THEN Cardinality({s}) ELSE Cardinality({s}) + 1
      BY <2>1, FS_AddElement
    <3>3. IsFiniteSet({s} \cup {t})
      BY <2>1, FS_AddElement
    <3> QED  BY <2>1, <3>1, <3>2, <3>3
  <2>3. {s} \cup {t} \in SUBSET S
    BY <1>1, <1>3
  <2>4. 2 <= Cardinality(S) /\ Cardinality(S) \in Nat
    BY <2>2, <2>3, <1>2, FS_Subset, FS_CardinalityType
  <2> QED  BY <2>4
<1> QED  BY <1>1, <1>3

LEMMA SweepHasEffect ==
    ASSUME TypeInv, SweepsOwn, IsFiniteSet(tProperty), NEW n \in Nodes, SweepStep(n), doubt' = {}
    PROVE  \E f : SweepEffect(n, f)
<1>1. TypeOK /\ SweepOK /\ ListOf(n, "HTTP") \in SUBSET Hosts /\ "HTTP" \in Chains
      /\ Swp(n) = sweep[n] /\ sweep[n].hosts \in SUBSET Hosts /\ sweep[n].chain \in Chains
  BY DEF TypeInv, TypeOK, ListOf, Chains, Swp, Sweeps
<1>2. ASSUME NEW c \in Chains, NEW h \in SUBSET Hosts, List(n, c, h),
             UNCHANGED <<tProperty, rules>>, sweep[n].pc \notin {"status", "delete"}
      PROVE  \E f : SweepEffect(n, f)
  BY <1>2, <1>1, ListShape, SearchEffect
<1>3. CASE SelectExpired(n)
  <2> USE <1>3 DEF SelectExpired
  <2> DEFINE S == {s \in tProperty : uOTPExpire[s.user] = "past"}
             f == [sweep[n] EXCEPT !.pc = "expired", !.rows = S]
  <2>1. CASE List(n, "HTTP", ListOf(n, "HTTP"))
    BY <2>1, <1>1, <1>2
  <2>2. CASE sweep' = [sweep EXCEPT ![n] = f]
    <3>1. f.pc = "expired"
      BY <1>1 DEF TypeOK, Sweeps
    <3>2. UNCHANGED <<tProperty, rules>> /\ sweep[n].pc = "idle"
      BY <1>1
    <3> HIDE DEF f, S
    <3> QED  BY <2>2, <3>1, <3>2 DEF SweepEffect, AtSweep, Listing, OwnsIn, SessionsAt
  <2> QED  BY <2>1, <2>2, <1>1 DEF Sweep
<1>4. CASE CountSessions(n)
  <2> USE <1>4 DEF CountSessions
  <2>1. PICK s \in sweep[n].rows :
          /\ Sweep(n, [Swp(n) EXCEPT !.rows = @ \ {s}, !.cur = {s},
                    !.pc = IF Cardinality(SessionsAt(s.host)) < 2 THEN "drop" ELSE "delete"])
          /\ Note({d \in {"swept"} : s \notin tProperty /\ SessionsAt(s.host) # {}})
    BY <1>1
  <2> DEFINE f == [sweep[n] EXCEPT !.rows = @ \ {s}, !.cur = {s},
                    !.pc = IF Cardinality(SessionsAt(s.host)) < 2 THEN "drop" ELSE "delete"]
  <2>2. sweep' = [sweep EXCEPT ![n] = f]
    BY <2>1, <1>1 DEF Sweep
  <2>3. f.cur = {s} /\ f.pc = IF Cardinality(SessionsAt(s.host)) < 2 THEN "drop" ELSE "delete"
    BY <1>1 DEF TypeOK, Sweeps
  <2>4. UNCHANGED <<tProperty, rules>> /\ sweep[n].pc = "expired"
    BY <1>1
  <2>5. s \in tProperty \/ SessionsAt(s.host) = {}
    BY <2>1 DEF Note
  <2>6. f.pc = "drop" => SessionsAt(s.host) \subseteq {s}
    BY <2>3, <2>5, <1>1, Alone
  <2>7. SessionsAt(s.host)' = SessionsAt(s.host)
    BY <2>4 DEF SessionsAt
  <2> HIDE DEF f
  <2> QED  BY <2>2, <2>3, <2>4, <2>6, <2>7 DEF SweepEffect, AtSweep, Listing, OwnsIn, SessionsAt
<1>5. CASE DropRules(n)
  <2> USE <1>5 DEF DropRules
  <2> DEFINE f == [sweep[n] EXCEPT !.pc = "status"]
  <2>1. PICK s \in Session : sweep[n].cur = {s}
    BY <1>1 DEF SweepOK, Holding
  <2>2. CurSession(n) = s
    BY <2>1, <1>1 DEF CurSession
  <2>3. /\ sweep' = [sweep EXCEPT ![n] = f] /\ f.pc = "status" /\ f.cur = {s}
        /\ tProperty' = tProperty /\ sweep[n].pc = "drop"
    BY <2>1, <1>1 DEF Sweep, TypeOK, Sweeps
  <2>4. SessionsAt(s.host) \subseteq {s} /\ SessionsAt(s.host)' = SessionsAt(s.host)
    BY <2>1, <2>3 DEF SweepsOwn, SessionsAt, OwnsIn
  <2>5. /\ rules'[n] = rules[n] \ ({s.host} \X Chains)
        /\ \A k \in Nodes \ {n} : rules'[k] = rules[k]
    BY <2>2, <1>1 DEF TypeOK
  <2>6. ASSUME NEW t \in tProperty, t # s, NEW c \in Chains, <<t.host, c>> \in rules[n]
        PROVE  <<t.host, c>> \in rules'[n]
    <3>1. t.host # s.host
      BY <2>4, <2>6 DEF SessionsAt
    <3> QED  BY <3>1, <2>5, <2>6
  <2> HIDE DEF f
  <2> QED  BY <2>3, <2>4, <2>5, <2>6 DEF SweepEffect, AtSweep, Listing, OwnsIn, SessionsAt
<1>6. CASE DropStatus(n)
  <2> USE <1>6 DEF DropStatus
  <2> DEFINE f == [sweep[n] EXCEPT !.pc = "delete"]
  <2>1. /\ sweep' = [sweep EXCEPT ![n] = f] /\ f.pc = "delete" /\ f.cur = sweep[n].cur
        /\ UNCHANGED <<tProperty, rules>>
    BY <1>1 DEF Sweep, TypeOK, Sweeps
  <2> HIDE DEF f
  <2> QED  BY <2>1 DEF SweepEffect, AtSweep, Listing, OwnsIn, SessionsAt
<1>7. CASE DeleteSession(n)
  <2> USE <1>7 DEF DeleteSession
  <2> DEFINE f == [sweep[n] EXCEPT !.pc = "expired", !.cur = {}]
  <2>1. /\ sweep' = [sweep EXCEPT ![n] = f] /\ f.pc = "expired"
        /\ rules' = rules /\ tProperty' = tProperty \ sweep[n].cur
    BY <1>1 DEF Sweep, TypeOK, Sweeps
  <2> HIDE DEF f
  <2> QED  BY <2>1 DEF SweepEffect, AtSweep, Listing, OwnsIn, SessionsAt
<1>8. CASE SessionsDone(n) \/ SessionsSkipped(n)
  BY <1>8, <1>1, <1>2 DEF SessionsDone, SessionsSkipped
<1>9. CASE Unlist(n)
  <2> USE <1>9 DEF Unlist
  <2> DEFINE f == [sweep[n] EXCEPT !.pc = "listed"] a == sweep[n].host
  <2>1. /\ sweep' = [sweep EXCEPT ![n] = f] /\ f.pc = "listed" /\ f.host = a
        /\ tProperty' = tProperty /\ sweep[n].pc = "unlist"
    BY <1>1 DEF Sweep, TypeOK, Sweeps
  <2>2. SessionsAt(a) = {} /\ SessionsAt(a)' = {}
    BY <2>1 DEF SweepsOwn, SessionsAt, Listing, OwnsIn
  <2>3. /\ rules'[n] = rules[n] \ {<<a, sweep[n].chain>>}
        /\ \A k \in Nodes \ {n} : rules'[k] = rules[k]
    BY <1>1 DEF TypeOK
  <2>4. ASSUME NEW t \in tProperty, NEW c \in Chains, <<t.host, c>> \in rules[n]
        PROVE  <<t.host, c>> \in rules'[n]
    <3>1. t.host # a
      BY <2>2 DEF SessionsAt
    <3> QED  BY <3>1, <2>3, <2>4
  <2>5. sweep' = [sweep EXCEPT ![n] = f]
    BY <2>1
  <2> HIDE DEF f
  <2>6. OwnsIn(f, tProperty')
    BY <2>1, <2>2 DEF OwnsIn, Listing, SessionsAt
  <2>7. \A t \in tProperty' : ~AtSweep(t, n)
    BY <2>1 DEF AtSweep
  <2> QED  BY <2>1, <2>3, <2>4, <2>5, <2>6, <2>7 DEF SweepEffect
<1>10. CASE ListStatus(n)
  BY <1>10, <1>1, <1>2 DEF ListStatus
<1>11. CASE DropFails(n)
  <2> USE <1>11 DEF DropFails
  <2> DEFINE f == [sweep[n] EXCEPT !.pc = "expired", !.cur = {}]
  <2>1. /\ sweep' = [sweep EXCEPT ![n] = f] /\ f.pc = "expired"
        /\ UNCHANGED <<tProperty, rules>> /\ sweep[n].pc = "drop"
    BY <1>1 DEF Sweep, TypeOK, Sweeps
  <2> HIDE DEF f
  <2> QED  BY <2>1 DEF SweepEffect, AtSweep, Listing, OwnsIn, SessionsAt
<1>12. CASE UnlistFails(n)
  BY <1>12, <1>1, <1>2 DEF UnlistFails
<1> QED  BY <1>3, <1>4, <1>5, <1>6, <1>7, <1>8, <1>9, <1>10, <1>11, <1>12 DEF SweepStep, Clean

LEMMA SweepLets ==
    ASSUME TypeInv, LetIn, IsFiniteSet(tProperty), NEW n \in Nodes, SweepStep(n), doubt' = {}
    PROVE  LetIn'
<1>1. PICK f : SweepEffect(n, f)
  BY SweepHasEffect DEF LetIn
<1>2. TypeOK /\ tProperty' \subseteq tProperty /\ UNCHANGED <<tJob, page, run>>
  BY SweepKeepsShape DEF TypeInv
<1>3. /\ \A k, a : Logouts(k, a)' = Logouts(k, a) /\ SessionsAt(a)' \subseteq SessionsAt(a)
      /\ \A s, k : (AtPage(s, k) => AtPage(s, k)') /\ (AtJob(s, k) => AtJob(s, k)')
  BY <1>2 DEF Logouts, AllRows, Snapshot, ToRun, AtPage, AtJob, SessionsAt
<1>4. \A k \in Nodes \ {n} : sweep'[k] = sweep[k] /\ rules'[k] = rules[k]
  BY <1>1, <1>2 DEF SweepEffect, TypeOK
<1>5. sweep'[n] = f
  BY <1>1, <1>2 DEF SweepEffect, TypeOK
<1>6. ASSUME NEW s \in tProperty', NEW k \in Nodes
      PROVE  (AtPage(s, k) \/ AtJob(s, k) \/ AtRules(s, k) \/ AtSweep(s, k))'
  <2>1. AtPage(s, k) \/ AtJob(s, k) \/ AtRules(s, k) \/ AtSweep(s, k)
    BY <1>2, <1>6 DEF LetIn, Covered
  <2>2. CASE AtSweep(s, k)
    BY <2>2, <1>1, <1>4, <1>5, <1>6 DEF AtSweep, SweepEffect
  <2>3. CASE AtRules(s, k)
    <3>1. ChainsOf(s.user) \subseteq Chains
      BY DEF ChainsOf, Chains
    <3>2. CASE k = n /\ f.pc \in {"status", "delete"} /\ s \in f.cur
      BY <3>2, <1>5 DEF AtSweep
    <3>3. CASE \A c \in Chains : <<s.host, c>> \in rules[k] => <<s.host, c>> \in rules'[k]
      BY <3>1, <3>3, <2>3, <1>3 DEF AtRules
    <3> QED  BY <3>2, <3>3, <1>1, <1>4, <1>6 DEF SweepEffect
  <2> QED  BY <2>1, <2>2, <2>3, <1>3
<1>7. Covered'
  BY <1>6 DEF Covered
<1>8. NoneLeft' /\ LoginFirst'
  BY <1>2, <1>3 DEF LetIn, NoneLeft, LoginFirst
<1>9. SweepsOwn'
  <2>1. ASSUME NEW k \in Nodes, k # n  PROVE OwnsIn(sweep'[k], tProperty')
    <3>1. OwnsIn(sweep[k], tProperty)
      BY DEF LetIn, SweepsOwn
    <3> QED  BY <3>1, <2>1, <1>2, <1>4 DEF OwnsIn
  <2>2. OwnsIn(f, tProperty')
    BY <1>1 DEF SweepEffect
  <2> QED  BY <2>1, <2>2, <1>5 DEF SweepsOwn
<1> QED  BY <1>7, <1>8, <1>9 DEF LetIn

LEMMA RunFrame ==
    ASSUME TypeOK, NEW n \in Nodes, NEW f, NEW T, RunShape(n, f, T)
    PROVE  /\ run'[n] = f /\ tJob'[n] = T
           /\ \A k \in Nodes \ {n} : run'[k] = run[k] /\ tJob'[k] = tJob[k]
           /\ \A k \in Nodes : \A a : \A q \in Logouts(k, a)' : \E p \in Logouts(k, a) : Same(q, p)
<1>1. /\ run'[n] = f /\ tJob'[n] = T
      /\ \A k \in Nodes \ {n} : run'[k] = run[k] /\ tJob'[k] = tJob[k]
  BY DEF RunShape, TypeOK
<1>2. \A k \in Nodes : \A r \in AllRows(k)' : \E q \in AllRows(k) : Same(r, q)
  BY <1>1 DEF RunShape, AllRows, Snapshot, Same
<1> QED  BY <1>1, <1>2 DEF Logouts, Same

(* A step of a runner, but for the commands of a job: no job that lets     *)
(* somebody in is lost.                                                    *)
LEMMA RunCovers ==
    ASSUME TypeOK, Covered, NEW n \in Nodes, NEW f, NEW T, RunShape(n, f, T),
           UNCHANGED <<tProperty, rules, page, sweep>>,
           \A r \in ToRun(n) : r.name = "Login" => \E p \in ToRun(n)' : Same(p, r)
    PROVE  Covered'
<1>1. /\ run'[n] = f /\ tJob'[n] = T
      /\ \A k \in Nodes \ {n} : run'[k] = run[k] /\ tJob'[k] = tJob[k]
      /\ \A k \in Nodes : \A a : \A q \in Logouts(k, a)' : \E p \in Logouts(k, a) : Same(q, p)
  BY RunFrame
<1>2. \A k \in Nodes \ {n} : ToRun(k)' = ToRun(k)
  BY <1>1 DEF ToRun
<1>3. \A k \in Nodes : \A r \in ToRun(k) : r.name = "Login" => \E p \in ToRun(k)' : Same(p, r)
  BY <1>2 DEF Same
<1>4. \A s \in tProperty, k \in Nodes : AtJob(s, k) => AtJob(s, k)'
  <2> SUFFICES ASSUME NEW s \in tProperty, NEW k \in Nodes, AtJob(s, k)  PROVE AtJob(s, k)'
    OBVIOUS
  <2>1. PICK r \in ToRun(k) : /\ r.name = "Login" /\ r.user = s.user /\ r.host = s.host
                              /\ \A q \in Logouts(k, s.host) : q.uJob < r.uJob
    BY DEF AtJob
  <2>2. PICK p \in ToRun(k)' : Same(p, r)
    BY <2>1, <1>3
  <2>3. \A q \in Logouts(k, s.host)' : q.uJob < p.uJob
    BY <1>1, <2>1, <2>2 DEF Same
  <2> QED  BY <2>1, <2>2, <2>3 DEF AtJob, Same
<1>5. ASSUME NEW s \in tProperty, NEW k \in Nodes
      PROVE  (AtPage(s, k) \/ AtJob(s, k) \/ AtRules(s, k) \/ AtSweep(s, k))'
  <2>1. AtPage(s, k) \/ AtJob(s, k) \/ AtRules(s, k) \/ AtSweep(s, k)
    BY DEF Covered
  <2>2. CASE AtJob(s, k)
    BY <2>2, <1>4
  <2>3. CASE AtPage(s, k) \/ AtSweep(s, k)
    BY <2>3 DEF AtPage, AtSweep
  <2>4. CASE AtRules(s, k)
    BY <2>4, <1>1 DEF AtRules
  <2> QED  BY <2>1, <2>2, <2>3, <2>4
<1> QED  BY <1>5 DEF Covered

(* The commands of a job: a login's are the last of the address, and those *)
(* of a logout find no session let in.                                     *)
LEMMA IptablesCovers ==
    ASSUME TypeInv, LetIn, NEW n \in Nodes, Iptables(n), NEW f, NEW T, RunShape(n, f, T)
    PROVE  Covered'
<1>1. TypeOK /\ run[n].pc = "rules" /\ UNCHANGED <<tProperty, page, sweep>>
  BY DEF TypeInv, Iptables
<1>2. PICK r \in JobRow : run[n].cur = {r} /\ Cur(n) = r
  BY <1>1, CurIs DEF TypeInv, RunOK
<1>3. /\ run'[n] = f /\ tJob'[n] = T
      /\ \A k \in Nodes \ {n} : run'[k] = run[k] /\ tJob'[k] = tJob[k]
      /\ \A k \in Nodes : \A a : \A q \in Logouts(k, a)' : \E p \in Logouts(k, a) : Same(q, p)
  BY <1>1, RunFrame
<1>4. /\ T = tJob[n] \ {Running(r)} /\ f.rows = run[n].rows
      /\ \A k \in Nodes \ {n} : rules'[k] = rules[k]
      /\ rules'[n] = IF r.name = "Login" THEN rules[n] \cup ({r.host} \X ChainsOf(r.user))
                    ELSE rules[n] \ ({r.host} \X ChainsOf(r.user))
  BY <1>1, <1>2, <1>3 DEF Iptables, EndJob, TypeOK, Runners
<1>5. ASSUME NEW s \in tProperty, NEW k \in Nodes, k # n
      PROVE  (AtPage(s, k) \/ AtJob(s, k) \/ AtRules(s, k) \/ AtSweep(s, k))'
  <2>1. AtPage(s, k) \/ AtJob(s, k) \/ AtRules(s, k) \/ AtSweep(s, k)
    BY DEF LetIn, Covered
  <2>2. ToRun(k)' = ToRun(k) /\ \A a : Logouts(k, a)' = Logouts(k, a)
    BY <1>3, <1>5 DEF ToRun, Logouts, AllRows, Snapshot
  <2> QED  BY <2>1, <2>2, <1>1, <1>4, <1>5 DEF AtPage, AtJob, AtRules, AtSweep
<1>6. ASSUME NEW s \in tProperty
      PROVE  (AtPage(s, n) \/ AtJob(s, n) \/ AtRules(s, n) \/ AtSweep(s, n))'
  <2>1. AtPage(s, n) \/ AtJob(s, n) \/ AtRules(s, n) \/ AtSweep(s, n)
    BY DEF LetIn, Covered
  <2>2. CASE AtPage(s, n) \/ AtSweep(s, n)
    BY <2>2, <1>1 DEF AtPage, AtSweep
  <2>3. CASE AtJob(s, n)
    <3>1. PICK p \in ToRun(n) : /\ p.name = "Login" /\ p.user = s.user /\ p.host = s.host
                                /\ \A q \in Logouts(n, s.host) : q.uJob < p.uJob
      BY <2>3 DEF AtJob
    <3>2. CASE p = r \/ p = Running(r)
      <4>1. Same(p, r) /\ r.name = "Login"
        BY <3>1, <3>2, RunningIs DEF Same
      <4>2. \A q \in Logouts(n, s.host) : r.uJob <= q.uJob /\ q.uJob < r.uJob /\ q.uJob \in Nat
        <5>1. r.host = s.host /\ r.uJob = p.uJob /\ r \in run[n].cur
          BY <4>1, <3>1, <1>2 DEF Same
        <5>2. \A q \in Logouts(n, s.host) : r.uJob <= q.uJob
          BY <5>1, <4>1, <1>1 DEF LetIn, LoginFirst
        <5>3. \A q \in Logouts(n, s.host) : q.uJob \in Nat
          BY <1>1, RowsAreRows DEF Logouts, JobRow
        <5> QED  BY <5>1, <5>2, <5>3, <3>1
      <4>3. Logouts(n, s.host) = {}
        <5>1. \A i, j \in Int : ~(i <= j /\ j < i)
          OBVIOUS
        <5>2. r.uJob \in Int /\ \A q \in Logouts(n, s.host) : q.uJob \in Int
          BY <4>2, <1>2 DEF JobRow
        <5> QED  BY <4>2, <5>1, <5>2
      <4>4. Logouts(n, s.host)' = {}
        BY <4>3, <1>3
      <4>5. r.user = s.user /\ r.host = s.host
        BY <4>1, <3>1 DEF Same
      <4>6. {s.host} \X ChainsOf(s.user) \subseteq rules'[n]
        BY <4>1, <4>5, <1>4
      <4> QED  BY <4>4, <4>6 DEF AtRules
    <3>3. CASE p # r /\ p # Running(r)
      <4>1. p \in ToRun(n)'
        BY <3>3, <1>2, <1>3, <1>4 DEF ToRun
      <4>2. \A q \in Logouts(n, s.host)' : q.uJob < p.uJob
        BY <3>1, <1>3 DEF Same
      <4> QED  BY <4>1, <4>2, <3>1 DEF AtJob
    <3> QED  BY <3>2, <3>3
  <2>4. CASE AtRules(s, n)
    <3>1. Logouts(n, s.host)' = {}
      BY <2>4, <1>3 DEF AtRules
    <3>2. r \in AllRows(n)
      BY <1>2 DEF AllRows, Snapshot
    <3>3. r.name = "Logout" => r.host # s.host
      BY <2>4, <3>2 DEF AtRules, Logouts
    <3>4. r.name \in {"Login", "Logout"}
      BY DEF JobRow, JobNames
    <3>5. {s.host} \X ChainsOf(s.user) \subseteq rules'[n]
      BY <2>4, <3>3, <3>4, <1>4 DEF AtRules
    <3> QED  BY <3>1, <3>5 DEF AtRules
  <2> QED  BY <2>1, <2>2, <2>3, <2>4
<1> QED  BY <1>1, <1>5, <1>6 DEF Covered

LEMMA RunLets ==
    ASSUME TypeInv, LetIn, NEW n \in Nodes, RunStep(n), doubt' = {}
    PROVE  LetIn'
<1>1. PICK f, T : RunShape(n, f, T)
  BY RunKeepsShape DEF TypeInv
<1>2. TypeOK /\ RunOK /\ UNCHANGED <<tProperty, page, sweep>>
  BY RunKeepsShape DEF TypeInv
<1>3. /\ run'[n] = f /\ tJob'[n] = T
      /\ \A k \in Nodes \ {n} : run'[k] = run[k] /\ tJob'[k] = tJob[k]
      /\ \A k \in Nodes : \A a : \A q \in Logouts(k, a)' : \E p \in Logouts(k, a) : Same(q, p)
  BY <1>1, <1>2, RunFrame
<1>4. NoneLeft' /\ SweepsOwn'
  BY <1>2 DEF LetIn, NoneLeft, SweepsOwn, SessionsAt
<1>5. \A r : Same(r, r)
  BY DEF Same
<1>6. ASSUME \A r \in f.cur : f.pc = "rules" /\ r.name = "Login" =>
                \A q \in Logouts(n, r.host)' : r.uJob <= q.uJob
      PROVE  LoginFirst'
  <2>1. ASSUME NEW k \in Nodes, NEW r \in run'[k].cur, run'[k].pc = "rules", r.name = "Login",
               NEW q \in Logouts(k, r.host)'
        PROVE  r.uJob <= q.uJob
    <3>1. CASE k = n
      BY <3>1, <2>1, <1>6, <1>3
    <3>2. CASE k # n
      <4>1. PICK p \in Logouts(k, r.host) : Same(q, p)
        BY <2>1, <1>3
      <4> QED  BY <4>1, <3>2, <2>1, <1>3 DEF LetIn, LoginFirst, Same
    <3> QED  BY <3>1, <3>2
  <2> QED  BY <2>1 DEF LoginFirst
<1>7. CASE Select(n)
  <2> USE <1>7 DEF Select
  <2>1. f.pc = "loop" /\ f.rows = tJob[n] /\ T = tJob[n] /\ run[n].pc = "idle" /\ rules' = rules
    BY <1>3, <1>2, SelectsAll
  <2>2. \A r \in ToRun(n) : r \in ToRun(n)'
    BY <2>1, <1>2, <1>3 DEF ToRun, RunOK
  <2>3. Covered'
    BY <2>1, <2>2, <1>1, <1>2, <1>5, RunCovers DEF LetIn
  <2> QED  BY <2>1, <2>3, <1>4, <1>6 DEF LetIn
<1>8. CASE Begin(n)
  <2> USE <1>8 DEF Begin
  <2>1. PICK r \in run[n].rows :
          /\ First(n, r)
          /\ tJob' = [tJob EXCEPT ![n] = IF r \in @ THEN (@ \ {r}) \cup {Running(r)} ELSE @]
          /\ run' = [run EXCEPT ![n] = [pc |-> "rules", rows |-> @.rows \ {r}, cur |-> {r}]]
          /\ Note({d \in {"overtaken"} : r.name = "Login" /\ \E q \in tJob[n] :
                    q.name = "Logout" /\ q.host = r.host /\ q.uJob < r.uJob})
    OBVIOUS
  <2>2. /\ f.pc = "rules" /\ f.rows = run[n].rows \ {r} /\ f.cur = {r} /\ run[n].pc = "loop"
        /\ T = IF r \in tJob[n] THEN (tJob[n] \ {r}) \cup {Running(r)} ELSE tJob[n]
        /\ rules' = rules /\ run[n].cur = {} /\ r \in JobRow
    BY <2>1, <1>2, <1>3 DEF TypeOK, Runners, RunOK
  <2>3. r \in ToRun(n)' /\ \A p \in ToRun(n) : p # r => p \in ToRun(n)'
    BY <2>2, <1>3 DEF ToRun
  <2>4. Covered'
    BY <2>2, <2>3, <1>1, <1>2, <1>5, RunCovers DEF LetIn
  <2>5. ASSUME r.name = "Login", NEW q \in Logouts(n, r.host)'
        PROVE  r.uJob <= q.uJob
    <3>1. PICK p \in Logouts(n, r.host) : Same(q, p)
      BY <1>3
    <3>2. p \in JobRow /\ p.uJob \in Nat /\ r.uJob \in Nat
      BY <1>2, <2>2, RowsAreRows DEF Logouts, JobRow
    <3>3. CASE p \in tJob[n]
      <4>1. ~(p.uJob < r.uJob)
        BY <2>1, <2>5, <3>3 DEF Note, Logouts
      <4> QED  BY <4>1, <3>1, <3>2 DEF Same
    <3>4. CASE p \in run[n].rows
      BY <2>1, <3>1, <3>4 DEF First, Same
    <3> QED  BY <3>3, <3>4, <2>2 DEF Logouts, AllRows, Snapshot
  <2>6. LoginFirst'
    BY <2>2, <2>5, <1>6
  <2> QED  BY <2>4, <2>6, <1>4 DEF LetIn
<1>9. CASE Postpone(n)
  <2> USE <1>9 DEF Postpone
  <2>1. PICK r \in JobRow : run[n].cur = {r} /\ Cur(n) = r
    BY <1>2, CurRow
  <2>2. /\ f.rows = run[n].rows /\ f.cur = {} /\ f.pc # "rules" /\ r.name = "Logout"
        /\ T = IF Running(r) \in tJob[n] THEN (tJob[n] \ {Running(r)}) \cup {r} ELSE tJob[n]
        /\ rules' = rules
    <3>1. /\ f = [run[n] EXCEPT !.cur = {}, !.pc = IF run[n].rows = {} THEN "idle" ELSE "loop"]
          /\ run[n] \in Runners
      BY <1>2, <1>3 DEF NextRow, TypeOK
    <3>2. f.rows = run[n].rows /\ f.cur = {} /\ f.pc # "rules"
      BY <3>1 DEF Runners
    <3>3. T = IF Running(r) \in tJob[n] THEN (tJob[n] \ {Running(r)}) \cup {r} ELSE tJob[n]
      BY <2>1, <1>2, <1>3 DEF TypeOK
    <3> QED  BY <2>1, <3>2, <3>3
  <2>3. Running(r).name = "Logout"
    BY <2>2, RunningIs DEF Same
  <2>4. \A p \in ToRun(n) : p.name = "Login" => p \in ToRun(n)'
    BY <2>1, <2>2, <2>3, <1>3 DEF ToRun
  <2>5. Covered'
    BY <2>2, <2>4, <1>1, <1>2, <1>5, RunCovers DEF LetIn
  <2> QED  BY <2>2, <2>5, <1>4, <1>6 DEF LetIn
<1>10. CASE Iptables(n)
  <2>1. f.pc = "status"
    BY <1>10, <1>2, <1>3 DEF TypeOK, Runners, Iptables
  <2>2. Covered'
    BY <1>1, <1>10, IptablesCovers
  <2> QED  BY <2>1, <2>2, <1>4, <1>6 DEF LetIn
<1>11. CASE IptablesFails(n)
  BY <1>11 DEF IptablesFails, Note
<1>12. CASE SetStatus(n)
  <2> USE <1>12 DEF SetStatus
  <2>1. /\ f.rows = run[n].rows /\ f.pc # "rules" /\ T = tJob[n]
        /\ rules' = rules /\ run[n].pc = "status"
    BY <1>2, <1>3 DEF TypeOK, Runners, NextRow
  <2>2. \A p \in ToRun(n) : p \in ToRun(n)'
    BY <2>1, <1>3 DEF ToRun
  <2>3. Covered'
    BY <2>1, <2>2, <1>1, <1>2, <1>5, RunCovers DEF LetIn
  <2> QED  BY <2>1, <2>3, <1>4, <1>6 DEF LetIn
<1> QED  BY <1>7, <1>8, <1>9, <1>10, <1>11, <1>12 DEF RunStep, Proceed

LEMMA RowsSame ==
    ASSUME UNCHANGED <<tJob, run>>
    PROVE  \A n : /\ ToRun(n)' = ToRun(n) /\ AllRows(n)' = AllRows(n)
                 /\ \A a : Logouts(n, a)' = Logouts(n, a)
BY DEF ToRun, Logouts, AllRows, Snapshot

(* A step of a page that inserts no job and lets nobody else in.           *)
LEMMA AskLets ==
    ASSUME TypeOK, LetIn, NEW u \in Users, UNCHANGED <<tJob, run, rules, sweep>>,
           tProperty' \subseteq tProperty, NEW p,
           page' = [page EXCEPT ![u] = p], p.at # "login" => p = page[u] \/ page[u].at # "login",
           p.at = "login" => p = page[u],
           p.at = "logout" => p = page[u] \/ SessionsAt(p.host) = {}
    PROVE  LetIn'
<1>1. \A v \in Users : page'[v] = IF v = u THEN p ELSE page[v]
  BY DEF TypeOK
<1>2. \A a : SessionsAt(a)' \subseteq SessionsAt(a)
  BY DEF SessionsAt
<1>3. \A n : /\ ToRun(n)' = ToRun(n) /\ AllRows(n)' = AllRows(n)
            /\ \A a : Logouts(n, a)' = Logouts(n, a)
  BY RowsSame
<1>4. ASSUME NEW s \in tProperty', NEW n \in Nodes
      PROVE  (AtPage(s, n) \/ AtJob(s, n) \/ AtRules(s, n) \/ AtSweep(s, n))'
  <2>1. s \in tProperty /\ (AtPage(s, n) \/ AtJob(s, n) \/ AtRules(s, n) \/ AtSweep(s, n))
    BY <1>4 DEF LetIn, Covered
  <2>2. s.user \in Users
    BY <2>1 DEF TypeOK, Session
  <2>3. AtPage(s, n) => AtPage(s, n)'
    BY <1>1, <2>2 DEF AtPage
  <2>4. AtJob(s, n) => AtJob(s, n)'
    BY <1>3 DEF AtJob
  <2>5. (AtRules(s, n) => AtRules(s, n)') /\ (AtSweep(s, n) => AtSweep(s, n)')
    BY <1>3 DEF AtRules, AtSweep
  <2> QED  BY <2>1, <2>3, <2>4, <2>5
<1>5. NoneLeft'
  <2>1. ASSUME NEW v \in Users, page'[v].at = "logout", NEW s \in tProperty', s.host = page'[v].host
        PROVE  FALSE
    <3>1. CASE v = u /\ p # page[u]
      BY <3>1, <2>1, <1>1, <1>2 DEF SessionsAt
    <3>2. CASE page'[v] = page[v]
      BY <3>2, <2>1, <1>2 DEF LetIn, NoneLeft, SessionsAt
    <3> QED  BY <3>1, <3>2, <1>1
  <2> QED  BY <2>1 DEF NoneLeft, SessionsAt
<1>6. LoginFirst'
  BY <1>3 DEF LetIn, LoginFirst
<1>7. SweepsOwn'
  BY DEF LetIn, SweepsOwn, OwnsIn
<1> QED  BY <1>4, <1>5, <1>6, <1>7 DEF LetIn, Covered

LEMMA CreateLets ==
    ASSUME TypeInv, LetIn, NEW u \in Users, CreateLoginSession(u), doubt' = {}
    PROVE  LetIn'
<1> DEFINE a == page[u].host
           new == [user |-> u, host |-> a, uProperty |-> page[u].number]
<1>1. /\ TypeOK /\ page[u].at = "session" /\ page[u].left = Nodes /\ page[u] \in Pages
      /\ UNCHANGED <<tJob, run, rules, sweep>>
      /\ tProperty' \subseteq tProperty \cup {new}
  BY DEF TypeInv, TypeOK, PageOK, CreateLoginSession
<1>2. \A v \in Users : page'[v] = IF v = u THEN [page[u] EXCEPT !.at = "login"] ELSE page[v]
  BY <1>1 DEF TypeOK, CreateLoginSession
<1>3. page'[u].at = "login" /\ page'[u].host = a /\ page'[u].left = Nodes
  BY <1>1, <1>2 DEF Pages
<1>4. \A n : /\ ToRun(n)' = ToRun(n) /\ AllRows(n)' = AllRows(n)
            /\ \A b : Logouts(n, b)' = Logouts(n, b)
  BY <1>1, RowsSame
<1>5. /\ \A v \in Users : ~(page[v].at = "logout" /\ page[v].host = a)
      /\ ~Swept(u, a)
  BY DEF CreateLoginSession, Note
<1>6. ASSUME NEW s \in tProperty', NEW n \in Nodes
      PROVE  (AtPage(s, n) \/ AtJob(s, n) \/ AtRules(s, n) \/ AtSweep(s, n))'
  <2>1. CASE s.user = u /\ s.host = a
    BY <2>1, <1>3 DEF AtPage
  <2>2. CASE ~(s.user = u /\ s.host = a)
    <3>1. s \in tProperty
      BY <2>2, <1>6, <1>1
    <3>2. s.user \in Users /\ (AtPage(s, n) \/ AtJob(s, n) \/ AtRules(s, n) \/ AtSweep(s, n))
      BY <3>1, <1>1 DEF LetIn, Covered, TypeOK, Session
    <3>3. AtPage(s, n) => AtPage(s, n)'
      BY <1>1, <1>2, <3>2 DEF AtPage
    <3>4. AtJob(s, n) => AtJob(s, n)'
      BY <1>4 DEF AtJob
    <3>5. (AtRules(s, n) => AtRules(s, n)') /\ (AtSweep(s, n) => AtSweep(s, n)')
      BY <1>1, <1>4 DEF AtRules, AtSweep
    <3> QED  BY <3>2, <3>3, <3>4, <3>5
  <2> QED  BY <2>1, <2>2
<1>7. NoneLeft'
  <2>1. ASSUME NEW v \in Users, page'[v].at = "logout", NEW s \in tProperty', s.host = page'[v].host
        PROVE  FALSE
    <3>1. v # u /\ page'[v] = page[v] /\ page[v].host # a
      BY <2>1, <1>2, <1>3, <1>5
    <3>2. s \in tProperty
      BY <3>1, <2>1, <1>1
    <3> QED  BY <3>1, <3>2, <2>1 DEF LetIn, NoneLeft, SessionsAt
  <2> QED  BY <2>1 DEF NoneLeft, SessionsAt
<1>8. LoginFirst'
  BY <1>1, <1>4 DEF LetIn, LoginFirst
<1>9. SweepsOwn'
  <2>1. ASSUME NEW n \in Nodes  PROVE OwnsIn(sweep[n], tProperty')
    <3>1. OwnsIn(sweep[n], tProperty)
      BY DEF LetIn, SweepsOwn
    <3>2. /\ sweep[n].pc \in {"drop", "status", "delete"} => \A s \in sweep[n].cur : s.host # a
          /\ sweep[n].pc \in Listing => sweep[n].host # a
      BY <1>5 DEF Swept, Listing
    <3> QED  BY <3>1, <3>2, <1>1 DEF OwnsIn
  <2> QED  BY <2>1, <1>1 DEF SweepsOwn
<1> QED  BY <1>6, <1>7, <1>8, <1>9 DEF LetIn, Covered

(* The rows of a node when a page has come to it.                          *)
LEMMA ExchangeRows ==
    ASSUME TypeOK, UNCHANGED run, NEW u \in Users, NEW n \in Nodes, NEW name, NEW T,
           RowsFit(u, n, name, T)
    PROVE  /\ tJob'[n] = T /\ \A k \in Nodes \ {n} : tJob'[k] = tJob[k]
           /\ \A k \in Nodes : \A r \in AllRows(k)' : r \in AllRows(k) \/ (k = n /\ r = NewRow(u, n, name))
           /\ \A k \in Nodes \ {n} : /\ ToRun(k)' = ToRun(k) /\ AllRows(k)' = AllRows(k)
                                    /\ \A a : Logouts(k, a)' = Logouts(k, a)
<1>1. tJob'[n] = T /\ T \subseteq tJob[n] \cup {NewRow(u, n, name)}
      /\ \A k \in Nodes \ {n} : tJob'[k] = tJob[k]
  BY DEF TypeOK, RowsFit
<1>2. \A k \in Nodes : \A r \in AllRows(k)' : r \in AllRows(k) \/ (k = n /\ r = NewRow(u, n, name))
  <2> SUFFICES ASSUME NEW k \in Nodes, NEW r \in AllRows(k)'
               PROVE  r \in AllRows(k) \/ (k = n /\ r = NewRow(u, n, name))
    OBVIOUS
  <2>1. r \in tJob'[k] \/ r \in run[k].rows \cup run[k].cur
    BY DEF AllRows, Snapshot
  <2>2. CASE k = n /\ r \in tJob'[k]
    <3>1. r \in tJob[n] \/ r = NewRow(u, n, name)
      BY <2>2, <1>1
    <3> QED  BY <2>2, <3>1 DEF AllRows
  <2>3. CASE k # n /\ r \in tJob'[k]
    BY <2>3, <1>1 DEF AllRows
  <2>4. CASE r \in run[k].rows \cup run[k].cur
    BY <2>4 DEF AllRows, Snapshot
  <2> QED  BY <2>1, <2>2, <2>3, <2>4
<1>3. \A k \in Nodes \ {n} : /\ ToRun(k)' = ToRun(k) /\ AllRows(k)' = AllRows(k)
                           /\ \A a : Logouts(k, a)' = Logouts(k, a)
  BY <1>1 DEF ToRun, Logouts, AllRows, Snapshot
<1> QED  BY <1>1, <1>2, <1>3

(* A login's job is behind every logout's of the address: the new one      *)
(* because it is the last, the kept one unless there is a doubt.           *)
LEMMA LoginJobLets ==
    ASSUME TypeInv, LetInv, LetIn, NEW u \in Users, NEW n \in Nodes, LoginFirewallJob(u, n), doubt' = {}
    PROVE  LetIn'
<1>0. PICK a : a = page[u].host
  OBVIOUS
<1> DEFINE mine(r) == r.user = u /\ r.host = a /\ r.uJobStatus = "WAITING"
           kept == {r \in tJob[n] : ~(mine(r) /\ r.name \in {"Logout"})}
           new == NewRow(u, n, "Login")
           T == IF \E r \in kept : mine(r) /\ r.name = "Login" THEN kept ELSE kept \cup {new}
<1>1. /\ TypeOK /\ page[u].at = "login" /\ page[u].left # {} /\ n \in page[u].left
      /\ UNCHANGED <<tProperty, rules, run, sweep>> /\ ~Kept(u, n)
  BY NextNodeIn DEF TypeInv, LoginFirewallJob, Note
<1>2. PICK R : RowsFit(u, n, "Login", R)
  BY <1>1, ExchangeShape DEF LoginFirewallJob, JobNames
<1>3. tJob'[n] = T
  BY <1>0, <1>1 DEF LoginFirewallJob, Exchange, NewRow, TypeOK
<1>4. /\ \A k \in Nodes : \A r \in AllRows(k)' : r \in AllRows(k) \/ (k = n /\ r = new)
      /\ \A k \in Nodes \ {n} : /\ ToRun(k)' = ToRun(k) /\ AllRows(k)' = AllRows(k)
                               /\ \A b : Logouts(k, b)' = Logouts(k, b)
  BY <1>1, <1>2, ExchangeRows
<1>5. new.name = "Login" /\ new.user = u /\ new.host = a /\ new.uJob = NewJob(n)
  BY <1>0 DEF NewRow
<1>6. \A k \in Nodes : \A b : Logouts(k, b)' \subseteq Logouts(k, b)
  BY <1>4, <1>5 DEF Logouts
<1>7. \A r \in ToRun(n) : r.name = "Login" => r \in ToRun(n)'
  BY <1>1, <1>3 DEF ToRun
<1>8. \A v \in Users : v # u => page'[v] = page[v]
  BY <1>1 DEF TypeOK, LoginFirewallJob
<1>9. \/ page'[u].at = "login" /\ page'[u].host = a /\ page'[u].left = page[u].left \ {n}
      \/ page'[u].at = "none" /\ page[u].left = {n}
  BY <1>0, <1>1 DEF TypeOK, LoginFirewallJob, Pages, NoPage
<1>10. \E r \in ToRun(n)' : /\ r.name = "Login" /\ r.user = u /\ r.host = a
                           /\ \A q \in Logouts(n, a)' : q.uJob < r.uJob
  <2>1. CASE \E r \in kept : mine(r) /\ r.name = "Login"
    <3>1. PICK r \in kept : mine(r) /\ r.name = "Login"
      BY <2>1
    <3>2. r \in ToRun(n)' /\ r \in AllRows(n)
      BY <2>1, <1>3 DEF ToRun, AllRows
    <3>3. ASSUME NEW q \in Logouts(n, a)'  PROVE q.uJob < r.uJob
      <4>1. q \in AllRows(n) /\ q.name = "Logout" /\ q.host = a
        BY <1>6 DEF Logouts
      <4>2. ~(r.uJob < q.uJob)
        BY <4>1, <3>1, <1>0, <1>1 DEF Kept, AllRows, Snapshot
      <4>3. r.uJob # q.uJob
        BY <4>1, <3>1, <3>2 DEF LetInv, SameNumber
      <4>4. r.uJob \in Nat /\ q.uJob \in Nat
        BY <4>1, <3>2, <1>1, RowsAreRows DEF JobRow
      <4> QED  BY <4>2, <4>3, <4>4
    <3> QED  BY <3>1, <3>2, <3>3
  <2>2. CASE ~\E r \in kept : mine(r) /\ r.name = "Login"
    <3>1. new \in ToRun(n)'
      BY <2>2, <1>3 DEF ToRun
    <3>2. \A q \in Logouts(n, a)' : q.uJob < new.uJob
      BY <1>2, <1>5, <1>6 DEF RowsFit, Logouts
    <3> QED  BY <3>1, <3>2, <1>5
  <2> QED  BY <2>1, <2>2
<1> HIDE DEF T, kept, mine, new
<1>11. ASSUME NEW s \in tProperty', NEW k \in Nodes
       PROVE  (AtPage(s, k) \/ AtJob(s, k) \/ AtRules(s, k) \/ AtSweep(s, k))'
  <2>1. s \in tProperty /\ s.user \in Users
    BY <1>11, <1>1 DEF TypeOK, Session
  <2>2. AtPage(s, k) \/ AtJob(s, k) \/ AtRules(s, k) \/ AtSweep(s, k)
    BY <2>1 DEF LetIn, Covered
  <2>3. CASE AtPage(s, k)
    <3>1. CASE s.user = u /\ k = n
      <4>1. s.host = a
        BY <2>3, <3>1, <1>0 DEF AtPage
      <4> QED  BY <4>1, <3>1, <1>10 DEF AtJob
    <3>2. CASE s.user # u
      BY <3>2, <2>1, <2>3, <1>8 DEF AtPage
    <3>3. CASE s.user = u /\ k # n
      BY <3>3, <2>3, <1>0, <1>9 DEF AtPage
    <3> QED  BY <3>1, <3>2, <3>3
  <2>4. CASE AtJob(s, k)
    <3>1. PICK r \in ToRun(k) : /\ r.name = "Login" /\ r.user = s.user /\ r.host = s.host
                                /\ \A q \in Logouts(k, s.host) : q.uJob < r.uJob
      BY <2>4 DEF AtJob
    <3>2. r \in ToRun(k)'
      BY <3>1, <1>4, <1>7
    <3> QED  BY <3>1, <3>2, <1>6 DEF AtJob
  <2>5. CASE AtRules(s, k)
    BY <2>5, <1>1, <1>6 DEF AtRules
  <2>6. CASE AtSweep(s, k)
    BY <2>6, <1>1 DEF AtSweep
  <2> QED  BY <2>2, <2>3, <2>4, <2>5, <2>6
<1>12. NoneLeft'
  <2>1. \A v \in Users : page'[v].at = "logout" => page[v].at = "logout" /\ page'[v].host = page[v].host
    BY <1>8, <1>9, <1>0, <1>1
  <2> QED  BY <2>1, <1>1 DEF LetIn, NoneLeft, SessionsAt
<1>13. LoginFirst'
  BY <1>1, <1>6 DEF LetIn, LoginFirst
<1>14. SweepsOwn'
  BY <1>1 DEF LetIn, SweepsOwn
<1> QED  BY <1>11, <1>12, <1>13, <1>14 DEF LetIn, Covered

(* A logout's job is of an address without a session.                      *)
LEMMA LogoutJobLets ==
    ASSUME TypeInv, LetIn, NEW u \in Users, NEW n \in Nodes, LogoutFirewallJob(u, n), doubt' = {}
    PROVE  LetIn'
<1> DEFINE a == page[u].host
           mine(r) == r.user = u /\ r.host = a /\ r.uJobStatus = "WAITING"
           kept == {r \in tJob[n] : ~(mine(r) /\ r.name \in {})}
           new == NewRow(u, n, "Logout")
           T == IF \E r \in kept : mine(r) /\ r.name = "Logout" THEN kept ELSE kept \cup {new}
<1>1. /\ TypeOK /\ page[u].at = "logout" /\ page[u].left # {} /\ n \in page[u].left
      /\ UNCHANGED <<tProperty, rules, run, sweep>> /\ SessionsAt(a) = {}
  BY NextNodeIn DEF TypeInv, LogoutFirewallJob, LetIn, NoneLeft
<1>2. PICK R : RowsFit(u, n, "Logout", R)
  BY <1>1, ExchangeShape DEF LogoutFirewallJob, JobNames
<1>3. tJob'[n] = T
  BY <1>1 DEF LogoutFirewallJob, Exchange, NewRow, TypeOK
<1>4. /\ \A k \in Nodes : \A r \in AllRows(k)' : r \in AllRows(k) \/ (k = n /\ r = new)
      /\ \A k \in Nodes \ {n} : /\ ToRun(k)' = ToRun(k) /\ AllRows(k)' = AllRows(k)
                               /\ \A b : Logouts(k, b)' = Logouts(k, b)
  BY <1>1, <1>2, ExchangeRows
<1>5. new.name = "Logout" /\ new.host = a /\ new.uJob = NewJob(n)
  BY DEF NewRow
<1>6. \A k \in Nodes : \A b : b # a => Logouts(k, b)' \subseteq Logouts(k, b)
  BY <1>4, <1>5 DEF Logouts
<1>7. \A r \in ToRun(n) : r.host # a => r \in ToRun(n)'
  BY <1>1, <1>3 DEF ToRun
<1>8. \A v \in Users : v # u => page'[v] = page[v]
  BY <1>1 DEF TypeOK, LogoutFirewallJob, LoggedOut
<1>9. \/ page'[u].at = "logout" /\ page'[u].host = a
      \/ page'[u].at = "none"
  BY <1>1 DEF TypeOK, LogoutFirewallJob, LoggedOut, Pages, NoPage
<1>10. \A s \in tProperty : s.host # a
  BY <1>1 DEF SessionsAt
<1> HIDE DEF T, kept, mine, new
<1>11. ASSUME NEW s \in tProperty', NEW k \in Nodes
       PROVE  (AtPage(s, k) \/ AtJob(s, k) \/ AtRules(s, k) \/ AtSweep(s, k))'
  <2>1. s \in tProperty /\ s.user \in Users /\ s.host # a
    BY <1>11, <1>1, <1>10 DEF TypeOK, Session
  <2>2. AtPage(s, k) \/ AtJob(s, k) \/ AtRules(s, k) \/ AtSweep(s, k)
    BY <2>1 DEF LetIn, Covered
  <2>3. CASE AtPage(s, k)
    BY <2>1, <2>3, <1>1, <1>8 DEF AtPage
  <2>4. CASE AtJob(s, k)
    <3>1. PICK r \in ToRun(k) : /\ r.name = "Login" /\ r.user = s.user /\ r.host = s.host
                                /\ \A q \in Logouts(k, s.host) : q.uJob < r.uJob
      BY <2>4 DEF AtJob
    <3>2. r \in ToRun(k)'
      BY <3>1, <2>1, <1>4, <1>7
    <3> QED  BY <3>1, <3>2, <2>1, <1>6 DEF AtJob
  <2>5. CASE AtRules(s, k)
    BY <2>1, <2>5, <1>1, <1>6 DEF AtRules
  <2>6. CASE AtSweep(s, k)
    BY <2>6, <1>1 DEF AtSweep
  <2> QED  BY <2>2, <2>3, <2>4, <2>5, <2>6
<1>12. NoneLeft'
  <2>1. \A v \in Users : page'[v].at = "logout" => page[v].at = "logout" /\ page'[v].host = page[v].host
    BY <1>1, <1>8, <1>9
  <2> QED  BY <2>1, <1>1 DEF LetIn, NoneLeft, SessionsAt
<1>13. LoginFirst'
  <2>1. ASSUME NEW k \in Nodes, NEW r \in run[k].cur, run[k].pc = "rules", r.name = "Login",
               NEW q \in Logouts(k, r.host)'
        PROVE  r.uJob <= q.uJob
    <3>1. CASE q \in Logouts(k, r.host)
      BY <2>1, <3>1 DEF LetIn, LoginFirst
    <3>2. CASE q \notin Logouts(k, r.host)
      <4>1. k = n /\ q = new
        BY <2>1, <3>2, <1>4 DEF Logouts
      <4>2. r \in AllRows(n)
        BY <4>1, <2>1 DEF AllRows, Snapshot
      <4>3. r.uJob < NewJob(n) /\ NewJob(n) \in Nat /\ r.uJob \in Nat
        BY <4>2, <1>1, <1>2, RowsAreRows DEF RowsFit, NewRow, JobRow
      <4> QED  BY <4>1, <4>3, <1>5
    <3> QED  BY <3>1, <3>2
  <2> QED  BY <2>1, <1>1 DEF LoginFirst
<1>14. SweepsOwn'
  BY <1>1 DEF LetIn, SweepsOwn
<1> QED  BY <1>11, <1>12, <1>13, <1>14 DEF LetIn, Covered

LEMMA PageLets ==
    ASSUME TypeInv, LetInv, LetIn, NEW u \in Users, PageStep(u), doubt' = {}
    PROVE  LetIn'
<1> SUFFICES LetIn'
  OBVIOUS
<1>1. TypeOK /\ page = [page EXCEPT ![u] = page[u]] /\ page[u] \in Pages
  BY DEF TypeInv, TypeOK
<1>2. ASSUME NEW a \in Hosts, Login(u, a)  PROVE LetIn'
  <2> DEFINE p == [at |-> "session", host |-> a, left |-> Nodes, number |-> events', out |-> FALSE]
  <2>1. /\ page' = [page EXCEPT ![u] = p] /\ page[u].at = "none"
        /\ UNCHANGED <<tProperty, tJob, run, rules, sweep>>
    BY <1>2 DEF Login
  <2>2. p.at = "session"
    OBVIOUS
  <2> HIDE DEF p
  <2> QED  BY <1>1, <2>1, <2>2, AskLets
<1>3. ASSUME NEW a \in Hosts, NEW out \in BOOLEAN, Leave(u, a, out)  PROVE LetIn'
  <2> DEFINE p == [at |-> "check", host |-> a, left |-> Nodes, number |-> 0, out |-> out]
  <2>1. /\ page' = [page EXCEPT ![u] = p] /\ page[u].at = "none" /\ tProperty' \subseteq tProperty
        /\ UNCHANGED <<tJob, run, rules, sweep>>
    BY <1>3 DEF Leave
  <2>2. p.at = "check"
    OBVIOUS
  <2> HIDE DEF p
  <2> QED  BY <1>1, <2>1, <2>2, AskLets
<1>4. CASE CheckSessions(u)
  <2> USE <1>4 DEF CheckSessions
  <2> DEFINE p == IF SessionsAt(page[u].host) # {} THEN NoPage ELSE [page[u] EXCEPT !.at = "logout"]
  <2>1. /\ page' = [page EXCEPT ![u] = p] /\ page[u].at = "check"
        /\ UNCHANGED <<tProperty, tJob, run, rules, sweep>>
    BY DEF LoggedOut
  <2>2. \/ p.at = "none"
        \/ p.at = "logout" /\ SessionsAt(p.host) = {}
    BY <1>1 DEF NoPage, Pages
  <2> HIDE DEF p
  <2> QED  BY <1>1, <2>1, <2>2, AskLets
<1>5. CASE Expire(u) \/ Renew(u)
  <2>1. UNCHANGED <<tProperty, page, tJob, run, rules, sweep>>
    BY <1>5 DEF Expire, Renew
  <2> QED  BY <1>1, <2>1, AskLets
<1>6. CASE CreateLoginSession(u)
  BY <1>6, CreateLets
<1>7. ASSUME NEW n \in Nodes, LoginFirewallJob(u, n)  PROVE LetIn'
  BY <1>7, LoginJobLets
<1>8. ASSUME NEW n \in Nodes, LogoutFirewallJob(u, n)  PROVE LetIn'
  BY <1>8, LogoutJobLets
<1> QED  BY <1>2, <1>3, <1>4, <1>5, <1>6, <1>7, <1>8 DEF PageStep, Page, Ask, Logout, LoginRefused

LEMMA SessionsFinite ==
    ASSUME TypeInv, IsFiniteSet(tProperty), [Next]_vars
    PROVE  IsFiniteSet(tProperty)'
<1>1. ASSUME tProperty' \subseteq tProperty  PROVE IsFiniteSet(tProperty)'
  BY <1>1, FS_Subset
<1>2. ASSUME NEW u \in Users, PageStep(u)  PROVE IsFiniteSet(tProperty)'
  <2>1. CASE CreateLoginSession(u)
    <3>1. PICK s : tProperty' \subseteq tProperty \cup {s}
      BY <2>1 DEF CreateLoginSession
    <3>2. IsFiniteSet(tProperty \cup {s})
      BY FS_AddElement
    <3> QED  BY <3>1, <3>2, FS_Subset
  <2>2. CASE ~CreateLoginSession(u)
    <3>1. tProperty' \subseteq tProperty
      BY <1>2, <2>2 DEF PageStep, Page, Ask, CheckSessions, LoginFirewallJob, LogoutFirewallJob,
         Login, Logout, LoginRefused, Leave, Expire, Renew
    <3> QED  BY <3>1, <1>1
  <2> QED  BY <2>1, <2>2
<1>3. ASSUME NEW n \in Nodes, RunStep(n)  PROVE IsFiniteSet(tProperty)'
  BY <1>1, <1>3, RunKeepsShape DEF TypeInv
<1>4. ASSUME NEW n \in Nodes, SweepStep(n)  PROVE IsFiniteSet(tProperty)'
  BY <1>1, <1>4, SweepKeepsShape DEF TypeInv
<1>5. CASE UNCHANGED vars
  BY <1>1, <1>5 DEF vars
<1> QED  BY <1>2, <1>3, <1>4, <1>5, Steps

LEMMA StutterLets == LetIn /\ UNCHANGED vars => LetIn'
<1> SUFFICES ASSUME LetIn, UNCHANGED vars  PROVE LetIn'
  OBVIOUS
<1> USE DEF LetIn, vars
<1>1. \A n : /\ ToRun(n)' = ToRun(n) /\ AllRows(n)' = AllRows(n)
            /\ \A a : Logouts(n, a)' = Logouts(n, a)
  BY RowsSame
<1>2. Covered'
  BY <1>1 DEF Covered, AtPage, AtJob, AtRules, AtSweep
<1>3. NoneLeft' /\ SweepsOwn'
  BY DEF NoneLeft, SessionsAt, SweepsOwn
<1>4. LoginFirst'
  BY <1>1 DEF LoginFirst
<1> QED  BY <1>2, <1>3, <1>4

LEMMA LetKept ==
    ASSUME TypeInv, LetInv, [Next]_vars
    PROVE  LetInv'
<1>1. SameNumber' /\ IsFiniteSet(tProperty)'
  BY NumbersKept, SessionsFinite DEF LetInv
<1>2. ASSUME doubt' = {}  PROVE LetIn'
  <2>1. doubt = {}
    BY <1>2, DoubtGrows DEF vars
  <2>2. LetIn /\ IsFiniteSet(tProperty)
    BY <2>1 DEF LetInv
  <2> QED  BY <1>2, <2>2, PageLets, RunLets, SweepLets, StutterLets, Steps
<1> QED  BY <1>1, <1>2 DEF LetInv

LEMMA InitLets == Init => LetInv
<1> SUFFICES ASSUME Init  PROVE LetInv
  OBVIOUS
<1> USE DEF Init
<1>1. \A n \in Nodes : AllRows(n) = {}
  BY DEF AllRows, Snapshot, IdleRun
<1>2. IsFiniteSet(tProperty)
  BY FS_EmptySet
<1>3. Covered /\ NoneLeft
  BY DEF Covered, NoneLeft, NoPage
<1>4. LoginFirst /\ SweepsOwn
  BY DEF LoginFirst, SweepsOwn, OwnsIn, IdleRun, IdleSweep, Listing
<1> QED  BY <1>1, <1>2, <1>3, <1>4 DEF LetInv, LetIn, SameNumber

(* Whoever has a session when the pages and the nodes have come to rest is *)
(* let in by every node (LoginFirewallJob, LogoutFirewallJob of main.c and *)
(* AlwaysRunTheseJobs), unless there is a doubt.                           *)
THEOREM SessionsAreLetIn == Spec => []SessionIsLetIn
<1>1. TypeInv /\ LetInv /\ [Next]_vars => LetInv'
  BY LetKept
<1>2. TypeInv /\ LetInv => SessionIsLetIn
  <2> SUFFICES ASSUME TypeInv, LetInv, Quiet, doubt = {}, NEW s \in tProperty, NEW n \in Nodes
               PROVE  {s.host} \X ChainsOf(s.user) \subseteq rules[n]
    BY DEF SessionIsLetIn
  <2>1. s.user \in Users
    BY DEF TypeInv, TypeOK, Session
  <2>2. AtPage(s, n) \/ AtJob(s, n) \/ AtRules(s, n) \/ AtSweep(s, n)
    BY DEF LetInv, LetIn, Covered
  <2>3. ToRun(n) = {}
    BY DEF Quiet, ToRun, TypeInv, RunOK
  <2> QED  BY <2>1, <2>2, <2>3 DEF AtPage, AtJob, AtSweep, AtRules, Quiet
<1> QED  BY <1>1, <1>2, InitLets, TypesKept, PTL DEF Spec

-----------------------------------------------------------------------------
(************************ The status tells it ******************************)

(* What sets the status of an address to ACCESS before all is quiet: a     *)
(* page of a login, or the job of one until it has set the status.         *)
Bringing(a) ==
    \/ \E u \in Users : page[u].at \in {"session", "login"} /\ page[u].host = a
    \/ \E n \in Nodes : \E r \in AllRows(n) : r.name = "Login" /\ r.host = a

SweptAway(a) == \E n \in Nodes :
    sweep[n].pc \in {"status", "delete"} /\ SessionsAt(a) \subseteq sweep[n].cur

HasRule(a) == \E n \in Nodes, c \in Chains : <<a, c>> \in rules[n]
HasJob(a) == \E n \in Nodes : \/ \E r \in tJob[n] : r.host = a
                             \/ \E r \in ToRun(n) : r.name = "Login" /\ r.host = a

(* What has dropped rules and is about to say so.                          *)
Ending(a) == \E n \in Nodes :
    \/ run[n].pc = "status" /\ \E r \in run[n].cur : r.name = "Logout" /\ r.host = a
    \/ sweep[n].pc = "status" /\ \E s \in sweep[n].cur : s.host = a
    \/ sweep[n].pc = "listed" /\ sweep[n].host = a

Shown(a) == SessionsAt(a) # {} => uFWStatus[a] = "ACCESS" \/ Bringing(a) \/ SweptAway(a)
Accounted(a) == uFWStatus[a] = "ACCESS" => HasRule(a) \/ HasJob(a) \/ Ending(a)
Told(a) == Shown(a) /\ Accounted(a)

TellInv == doubt = {} => \A a \in Hosts : Told(a)

(* A page leaves an address alone it is not about.                         *)
LEMMA PageTellsElse ==
    ASSUME TypeOK, NEW u \in Users, NEW a \in Hosts, Told(a), UNCHANGED <<run, rules, sweep>>,
           uFWStatus'[a] = uFWStatus[a], SessionsAt(a)' \subseteq SessionsAt(a),
           \A v \in Users : v # u => page'[v] = page[v],
           ~(page[u].at \in {"session", "login"} /\ page[u].host = a),
           \A n \in Nodes : \A r \in tJob[n] : r.host = a => r \in tJob'[n]
    PROVE  Told(a)'
<1>1. Bringing(a) => Bringing(a)'
  <2>1. CASE \E v \in Users : page[v].at \in {"session", "login"} /\ page[v].host = a
    BY <2>1 DEF Bringing
  <2>2. CASE \E n \in Nodes : \E r \in AllRows(n) : r.name = "Login" /\ r.host = a
    BY <2>2 DEF Bringing, AllRows, Snapshot
  <2> QED  BY <2>1, <2>2 DEF Bringing
<1>2. SweptAway(a) => SweptAway(a)'
  BY DEF SweptAway
<1>3. HasJob(a) => HasJob(a)'
  BY DEF HasJob, ToRun
<1>4. (HasRule(a) => HasRule(a)') /\ (Ending(a) => Ending(a)')
  BY DEF HasRule, Ending
<1> QED  BY <1>1, <1>2, <1>3, <1>4 DEF Told, Shown, Accounted

(* A job of its address is left by whatever page comes to a node.          *)
LEMMA ExchangeLeaves ==
    ASSUME TypeOK, NEW u \in Users, NEW n \in Nodes, NEW name, NEW drop, name \notin drop,
           Exchange(u, n, name, drop)
    PROVE  /\ \E r \in tJob'[n] : r.host = page[u].host /\ r.name = name
           /\ \A k \in Nodes : \A r \in tJob[k] : r.host # page[u].host => r \in tJob'[k]
<1> DEFINE mine(r) == r.user = u /\ r.host = page[u].host /\ r.uJobStatus = "WAITING"
           kept == {r \in tJob[n] : ~(mine(r) /\ r.name \in drop)}
           new == NewRow(u, n, name)
           T == IF \E r \in kept : mine(r) /\ r.name = name THEN kept ELSE kept \cup {new}
<1>1. tJob'[n] = T /\ \A k \in Nodes \ {n} : tJob'[k] = tJob[k]
  BY DEF Exchange, TypeOK, NewRow
<1>2. new.host = page[u].host /\ new.name = name
  BY DEF NewRow
<1>3. \E r \in T : r.host = page[u].host /\ r.name = name
  <2> HIDE DEF new
  <2> QED  BY <1>2
<1>4. \A r \in tJob[n] : r.host # page[u].host => r \in T
  OBVIOUS
<1> HIDE DEF T
<1> QED  BY <1>1, <1>3, <1>4

LEMMA PageTells ==
    ASSUME TypeInv, LetIn, NEW u \in Users, PageStep(u), NEW a \in Hosts, Told(a)
    PROVE  Told(a)'
<1> SUFFICES Told(a)'
  OBVIOUS
<1>0. PICK h : h = page[u].host
  OBVIOUS
<1>1. TypeOK /\ page[u] \in Pages
  BY DEF TypeInv, TypeOK
<1>2. ASSUME NEW b \in Hosts, Login(u, b)  PROVE Told(a)'
  <2> USE <1>2 DEF Login
  <2>1. \A v \in Users : v # u => page'[v] = page[v]
    BY <1>1 DEF TypeOK
  <2>2. CASE a = b
    <3>1. page'[u].at = "session" /\ page'[u].host = a
      BY <2>2, <1>1 DEF TypeOK
    <3>2. Bringing(a)'
      BY <3>1 DEF Bringing
    <3>3. uFWStatus'[a] # "ACCESS"
      BY <2>2, <1>1 DEF TypeOK
    <3> QED  BY <3>2, <3>3 DEF Told, Shown, Accounted
  <2>3. CASE a # b
    <3>1. uFWStatus'[a] = uFWStatus[a] /\ SessionsAt(a)' = SessionsAt(a)
      BY <2>3, <1>1 DEF TypeOK, SessionsAt
    <3> QED  BY <3>1, <2>1, <1>1, PageTellsElse
  <2> QED  BY <2>2, <2>3
<1>3. ASSUME page[u].at \in {"none", "check"}, tProperty' \subseteq tProperty,
             UNCHANGED <<uFWStatus, tJob, run, rules, sweep>>,
             \A v \in Users : v # u => page'[v] = page[v]
      PROVE  Told(a)'
  <2>1. SessionsAt(a)' \subseteq SessionsAt(a)
    BY <1>3 DEF SessionsAt
  <2> QED  BY <2>1, <1>1, <1>3, PageTellsElse
<1>4. ASSUME NEW b \in Hosts, NEW out \in BOOLEAN, Leave(u, b, out)  PROVE Told(a)'
  BY <1>1, <1>3, <1>4 DEF Leave, TypeOK
<1>5. CASE CheckSessions(u)
  BY <1>1, <1>3, <1>5 DEF CheckSessions, LoggedOut, TypeOK
<1>6. CASE Expire(u) \/ Renew(u)
  BY <1>1, <1>3, <1>6 DEF Expire, Renew
<1>7. CASE CreateLoginSession(u)
  <2> USE <1>7 DEF CreateLoginSession
  <2>1. \A v \in Users : v # u => page'[v] = page[v]
    BY <1>1 DEF TypeOK
  <2>2. CASE a = h
    <3>1. page'[u].at = "login" /\ page'[u].host = a
      BY <2>2, <1>0, <1>1 DEF TypeOK, Pages
    <3>2. Bringing(a)'
      BY <3>1 DEF Bringing
    <3>3. UNCHANGED <<uFWStatus, tJob, run, rules, sweep>>
      OBVIOUS
    <3>4. Accounted(a)'
      BY <3>3 DEF Told, Accounted, HasRule, HasJob, ToRun, Ending
    <3> QED  BY <3>2, <3>4 DEF Told, Shown
  <2>3. CASE a # h
    <3>1. SessionsAt(a)' \subseteq SessionsAt(a)
      BY <2>3, <1>0 DEF SessionsAt
    <3> QED  BY <2>1, <2>3, <3>1, <1>0, <1>1, PageTellsElse
  <2> QED  BY <2>2, <2>3
<1>8. ASSUME NEW n \in Nodes, NEW name, NEW drop, name \notin drop, Exchange(u, n, name, drop),
             UNCHANGED <<tProperty, uFWStatus, run, rules, sweep>>,
             \A v \in Users : v # u => page'[v] = page[v],
             name = "Login" \/ SessionsAt(h) = {}
      PROVE  Told(a)'
  <2>1. PICK r \in tJob'[n] : r.host = h /\ r.name = name
    BY <1>0, <1>1, <1>8, ExchangeLeaves
  <2>2. CASE a = h
    <3>1. HasJob(a)'
      BY <2>1, <2>2 DEF HasJob
    <3>2. name = "Login" => Bringing(a)'
      BY <2>1, <2>2 DEF Bringing, AllRows
    <3>3. SessionsAt(h) = {} => SessionsAt(a)' = {}
      BY <2>2, <1>8 DEF SessionsAt
    <3> QED  BY <3>1, <3>2, <3>3, <1>8 DEF Told, Shown, Accounted
  <2>3. CASE a # h
    <3>1. \A k \in Nodes : \A q \in tJob[k] : q.host = a => q \in tJob'[k]
      BY <2>3, <1>0, <1>1, <1>8, ExchangeLeaves
    <3>2. SessionsAt(a)' = SessionsAt(a)
      BY <1>8 DEF SessionsAt
    <3> QED  BY <2>3, <3>1, <3>2, <1>0, <1>1, <1>8, PageTellsElse
  <2> QED  BY <2>2, <2>3
<1>9. ASSUME NEW n \in Nodes, LoginFirewallJob(u, n)  PROVE Told(a)'
  <2>1. /\ Exchange(u, n, "Login", {"Logout"}) /\ UNCHANGED <<tProperty, uFWStatus, run, rules, sweep>>
        /\ \A v \in Users : v # u => page'[v] = page[v]
    BY <1>1, <1>9 DEF LoginFirewallJob, TypeOK
  <2> QED  BY <2>1, <1>8
<1>10. ASSUME NEW n \in Nodes, LogoutFirewallJob(u, n)  PROVE Told(a)'
  <2>1. /\ Exchange(u, n, "Logout", {}) /\ UNCHANGED <<tProperty, uFWStatus, run, rules, sweep>>
        /\ \A v \in Users : v # u => page'[v] = page[v]
    BY <1>1, <1>10 DEF LogoutFirewallJob, LoggedOut, TypeOK
  <2>2. SessionsAt(h) = {}
    BY <1>0, <1>10 DEF LogoutFirewallJob, LetIn, NoneLeft
  <2> QED  BY <2>1, <2>2, <1>8
<1> QED  BY <1>2, <1>4, <1>5, <1>6, <1>7, <1>9, <1>10 DEF PageStep, Page, Ask, Logout, LoginRefused

(* A runner leaves what an address shows when it keeps the logins' jobs.   *)
LEMMA RunShownElse ==
    ASSUME TypeOK, NEW n \in Nodes, NEW f, NEW T, RunShape(n, f, T), NEW a \in Hosts, Shown(a),
           UNCHANGED <<tProperty, page, sweep>>, uFWStatus'[a] = uFWStatus[a],
           \A r \in AllRows(n) : r.name = "Login" /\ r.host = a => \E q \in T \cup f.rows \cup f.cur : Same(q, r)
    PROVE  Shown(a)'
<1>1. /\ run'[n] = f /\ tJob'[n] = T
      /\ \A k \in Nodes \ {n} : run'[k] = run[k] /\ tJob'[k] = tJob[k]
  BY RunFrame
<1>2. /\ AllRows(n)' = T \cup f.rows \cup f.cur
      /\ \A k \in Nodes \ {n} : AllRows(k)' = AllRows(k)
  BY <1>1 DEF AllRows, Snapshot
<1>3. Bringing(a) => Bringing(a)'
  <2>1. CASE \E v \in Users : page[v].at \in {"session", "login"} /\ page[v].host = a
    BY <2>1 DEF Bringing
  <2>2. CASE \E k \in Nodes : \E r \in AllRows(k) : r.name = "Login" /\ r.host = a
    <3>1. PICK k \in Nodes : \E r \in AllRows(k) : r.name = "Login" /\ r.host = a
      BY <2>2
    <3>2. \E r \in AllRows(k)' : r.name = "Login" /\ r.host = a
      BY <3>1, <1>2 DEF Same
    <3> QED  BY <3>2 DEF Bringing
  <2> QED  BY <2>1, <2>2 DEF Bringing
<1>4. SessionsAt(a)' = SessionsAt(a) /\ (SweptAway(a) => SweptAway(a)')
  BY DEF SessionsAt, SweptAway
<1> QED  BY <1>3, <1>4 DEF Shown

LEMMA RunAccountedElse ==
    ASSUME TypeOK, NEW n \in Nodes, NEW f, NEW T, RunShape(n, f, T), NEW a \in Hosts, Accounted(a),
           UNCHANGED sweep, uFWStatus'[a] = uFWStatus[a],
           \A k \in Nodes, c \in Chains : <<a, c>> \in rules[k] => <<a, c>> \in rules'[k],
           \A r \in tJob[n] : r.host = a => \E q \in T : Same(q, r),
           \A r \in ToRun(n) : r.name = "Login" /\ r.host = a => \E q \in ToRun(n)' : Same(q, r),
           run[n].pc = "status" => \A r \in run[n].cur : r.host # a
    PROVE  Accounted(a)'
<1>1. /\ run'[n] = f /\ tJob'[n] = T
      /\ \A k \in Nodes \ {n} : run'[k] = run[k] /\ tJob'[k] = tJob[k]
  BY RunFrame
<1>2. \A k \in Nodes \ {n} : ToRun(k)' = ToRun(k)
  BY <1>1 DEF ToRun
<1>3. HasJob(a) => HasJob(a)'
  <2>1. ASSUME NEW k \in Nodes, NEW r \in tJob[k], r.host = a  PROVE HasJob(a)'
    <3>1. \E q \in tJob'[k] : q.host = a
      BY <2>1, <1>1 DEF Same
    <3> QED  BY <3>1 DEF HasJob
  <2>2. ASSUME NEW k \in Nodes, NEW r \in ToRun(k), r.name = "Login", r.host = a  PROVE HasJob(a)'
    <3>1. \E q \in ToRun(k)' : q.name = "Login" /\ q.host = a
      BY <2>2, <1>2 DEF Same
    <3> QED  BY <3>1 DEF HasJob
  <2> QED  BY <2>1, <2>2 DEF HasJob
<1>4. HasRule(a) => HasRule(a)'
  BY DEF HasRule
<1>5. Ending(a) => Ending(a)'
  BY <1>1 DEF Ending
<1> QED  BY <1>3, <1>4, <1>5 DEF Accounted

(* The last job of an address that sets REMOVED: unless another login is   *)
(* under way, a sweep is about to delete whatever session the address has. *)
LEMMA RemovedShows ==
    ASSUME TypeInv, LetIn, NEW n \in Nodes, run[n].pc = "status", UNCHANGED <<tProperty, page, sweep>>,
           NEW r, run[n].cur = {r}, r.name = "Logout",
           \A q \in ToRun(n) : q \in ToRun(n)', ToRun(n)' \subseteq AllRows(n)'
    PROVE  Shown(r.host)'
<1>0. PICK a : a = r.host
  OBVIOUS
<1>1. Logouts(n, a) # {}
  BY <1>0 DEF Logouts, AllRows, Snapshot
<1>2. CASE \E s \in SessionsAt(a) : AtPage(s, n)
  <2>1. PICK s \in SessionsAt(a) : AtPage(s, n)
    BY <1>2
  <2>2. s.user \in Users /\ s.host = a
    BY <2>1 DEF SessionsAt, TypeInv, TypeOK, Session
  <2>3. Bringing(a)'
    BY <2>1, <2>2 DEF AtPage, Bringing
  <2> QED  BY <2>3, <1>0 DEF Shown
<1>3. CASE \E s \in SessionsAt(a) : AtJob(s, n)
  <2>1. PICK s \in SessionsAt(a) : AtJob(s, n)
    BY <1>3
  <2>2. \E p \in ToRun(n) : p.name = "Login" /\ p.host = a
    BY <2>1 DEF AtJob, SessionsAt
  <2>3. \E p \in AllRows(n)' : p.name = "Login" /\ p.host = a
    BY <2>2
  <2>4. Bringing(a)'
    BY <2>3 DEF Bringing
  <2> QED  BY <2>4, <1>0 DEF Shown
<1>4. CASE \A s \in SessionsAt(a) : ~AtPage(s, n) /\ ~AtJob(s, n)
  <2>1. \A s \in SessionsAt(a) : AtSweep(s, n)
    <3> SUFFICES ASSUME NEW s \in SessionsAt(a)  PROVE AtSweep(s, n)
      OBVIOUS
    <3>1. s \in tProperty /\ s.host = a
      BY DEF SessionsAt
    <3>2. ~AtRules(s, n)
      BY <3>1, <1>1 DEF AtRules
    <3> QED  BY <3>1, <3>2, <1>4 DEF LetIn, Covered
  <2>2. SessionsAt(a) # {} => SweptAway(a)
    BY <2>1 DEF AtSweep, SweptAway
  <2>3. SessionsAt(a)' = SessionsAt(a) /\ (SweptAway(a) => SweptAway(a)')
    BY DEF SessionsAt, SweptAway
  <2> QED  BY <2>2, <2>3, <1>0 DEF Shown
<1> QED  BY <1>2, <1>3, <1>4

LEMMA RunTells ==
    ASSUME TypeInv, LetIn, NEW n \in Nodes, RunStep(n), doubt' = {}, NEW a \in Hosts, Told(a)
    PROVE  Told(a)'
<1> SUFFICES Told(a)'
  OBVIOUS
<1>1. PICK f, T : RunShape(n, f, T)
  BY RunKeepsShape DEF TypeInv
<1>2. TypeOK /\ RunOK /\ UNCHANGED <<tProperty, page, sweep>>
  BY RunKeepsShape DEF TypeInv
<1>3. /\ run'[n] = f /\ tJob'[n] = T
      /\ \A k \in Nodes \ {n} : run'[k] = run[k] /\ tJob'[k] = tJob[k]
  BY <1>1, <1>2, RunFrame
<1>4. ToRun(n)' = T \cup f.rows \cup {r \in f.cur : f.pc = "rules"}
      /\ AllRows(n)' = T \cup f.rows \cup f.cur
  BY <1>3 DEF ToRun, AllRows, Snapshot
<1>5. \A r : Same(r, r)
  BY DEF Same
<1>6. ASSUME UNCHANGED <<uFWStatus, rules>>, run[n].pc # "status",
             \A r \in tJob[n] : r.host = a => \E q \in T : Same(q, r),
             \A r \in AllRows(n) : r.name = "Login" => \E q \in ToRun(n)' : Same(q, r)
      PROVE  Told(a)'
  <2>1. ToRun(n) \subseteq AllRows(n) /\ ToRun(n)' \subseteq T \cup f.rows \cup f.cur
    BY <1>2, <1>4, RowsAreRows
  <2>2. Shown(a)'
    BY <2>1, <1>1, <1>2, <1>6, RunShownElse DEF Told
  <2>3. Accounted(a)'
    BY <2>1, <1>1, <1>2, <1>6, RunAccountedElse DEF Told
  <2> QED  BY <2>2, <2>3 DEF Told
<1>7. CASE Select(n)
  <2> USE <1>7 DEF Select
  <2>1. f.pc = "loop" /\ f.rows = tJob[n] /\ T = tJob[n] /\ run[n].pc = "idle"
        /\ UNCHANGED <<uFWStatus, rules>>
    BY <1>3, <1>2, SelectsAll
  <2>2. AllRows(n) = tJob[n]
    BY <2>1, <1>2 DEF AllRows, Snapshot, RunOK
  <2> QED  BY <2>1, <2>2, <1>4, <1>5, <1>6
<1>8. CASE Begin(n)
  <2> USE <1>8 DEF Begin
  <2>1. PICK r \in run[n].rows :
          /\ tJob' = [tJob EXCEPT ![n] = IF r \in @ THEN (@ \ {r}) \cup {Running(r)} ELSE @]
          /\ run' = [run EXCEPT ![n] = [pc |-> "rules", rows |-> @.rows \ {r}, cur |-> {r}]]
    OBVIOUS
  <2>2. /\ f.pc = "rules" /\ f.rows = run[n].rows \ {r} /\ f.cur = {r} /\ run[n].pc = "loop"
        /\ T = IF r \in tJob[n] THEN (tJob[n] \ {r}) \cup {Running(r)} ELSE tJob[n]
        /\ UNCHANGED <<uFWStatus, rules>> /\ run[n].cur = {} /\ r \in JobRow
    BY <2>1, <1>2, <1>3 DEF TypeOK, Runners, RunOK
  <2>3. Same(Running(r), r)
    BY <2>2, RunningIs
  <2>4. AllRows(n) = tJob[n] \cup run[n].rows
    BY <2>2 DEF AllRows, Snapshot
  <2>5. AllRows(n) \subseteq ToRun(n)'
    BY <2>2, <2>4, <1>4
  <2> QED  BY <2>2, <2>3, <2>5, <1>5, <1>6
<1>9. CASE Postpone(n)
  <2> USE <1>9 DEF Postpone
  <2>1. PICK r \in JobRow : run[n].cur = {r} /\ Cur(n) = r
    BY <1>2, CurRow
  <2>2. /\ f = [run[n] EXCEPT !.cur = {}, !.pc = IF run[n].rows = {} THEN "idle" ELSE "loop"]
        /\ run[n] \in Runners
    BY <1>2, <1>3 DEF NextRow, TypeOK
  <2>3. f.rows = run[n].rows /\ f.cur = {}
    BY <2>2 DEF Runners
  <2>4. T = IF Running(r) \in tJob[n] THEN (tJob[n] \ {Running(r)}) \cup {r} ELSE tJob[n]
    BY <2>1, <1>2, <1>3 DEF TypeOK
  <2>5. /\ r.name = "Logout" /\ Running(r).name = "Logout" /\ Same(r, Running(r))
        /\ run[n].pc = "rules" /\ UNCHANGED <<uFWStatus, rules>>
    BY <2>1, RunningIs DEF Same
  <2>6. \A p \in AllRows(n) : p.name = "Login" => p \in ToRun(n)'
    BY <2>1, <2>3, <2>4, <2>5, <1>4 DEF AllRows, Snapshot
  <2>7. \A p \in tJob[n] : \E q \in T : Same(q, p)
    BY <2>4, <2>5, <1>5
  <2> QED  BY <2>5, <2>6, <2>7, <1>5, <1>6
<1>10. CASE Iptables(n)
  <2>1. PICK r \in JobRow : run[n].cur = {r} /\ Cur(n) = r
    <3>1. run[n].pc = "rules"
      BY <1>10 DEF Iptables
    <3> QED  BY <1>2, <3>1, CurRow
  <2>2. /\ T = tJob[n] \ {Running(r)} /\ f.rows = run[n].rows /\ f.cur = {r} /\ f.pc = "status"
        /\ \A k \in Nodes \ {n} : rules'[k] = rules[k]
        /\ rules'[n] = IF r.name = "Login" THEN rules[n] \cup ({r.host} \X ChainsOf(r.user))
                      ELSE rules[n] \ ({r.host} \X ChainsOf(r.user))
        /\ run[n].pc = "rules" /\ uFWStatus' = uFWStatus
    BY <1>2, <1>3, <1>10, <2>1 DEF Iptables, EndJob, TypeOK, Runners
  <2>3. Same(r, Running(r)) /\ Running(r).host = r.host
    BY RunningIs DEF Same
  <2>4. \A p \in AllRows(n) : \E q \in T \cup f.rows \cup f.cur : Same(q, p)
    BY <2>1, <2>2, <2>3, <1>5 DEF AllRows, Snapshot
  <2>5. Shown(a)'
    BY <2>2, <2>4, <1>1, <1>2, RunShownElse DEF Told
  <2>6. CASE a = r.host
    <3>1. CASE r.name = "Login"
      <4>1. <<a, "HTTP">> \in rules'[n] /\ "HTTP" \in Chains
        BY <2>2, <2>6, <3>1 DEF ChainsOf, Chains
      <4>2. HasRule(a)'
        BY <4>1 DEF HasRule
      <4> QED  BY <4>2, <2>5 DEF Told, Accounted
    <3>2. CASE r.name = "Logout"
      <4>1. Ending(a)'
        BY <2>2, <2>6, <3>2, <1>3 DEF Ending
      <4> QED  BY <4>1, <2>5 DEF Told, Accounted
    <3> QED  BY <3>1, <3>2 DEF JobRow, JobNames
  <2>7. CASE a # r.host
    <3>1. \A k \in Nodes, c \in Chains : <<a, c>> \in rules[k] => <<a, c>> \in rules'[k]
      BY <2>2, <2>7
    <3>2. \A p \in tJob[n] : p.host = a => p \in T
      BY <2>2, <2>3, <2>7
    <3>3. \A p \in ToRun(n) : p.host = a => p \in ToRun(n)'
      BY <2>1, <2>2, <2>3, <2>7, <1>4 DEF ToRun
    <3>4. Accounted(a)'
      BY <2>2, <3>1, <3>2, <3>3, <1>1, <1>2, <1>5, RunAccountedElse DEF Told
    <3> QED  BY <3>4, <2>5 DEF Told
  <2> QED  BY <2>6, <2>7
<1>11. CASE IptablesFails(n)
  BY <1>11 DEF IptablesFails, Note
<1>12. CASE SetStatus(n)
  <2> USE <1>12 DEF SetStatus
  <2>1. PICK r \in JobRow : run[n].cur = {r} /\ Cur(n) = r
    BY <1>2, CurRow
  <2>2. /\ f.rows = run[n].rows /\ f.cur = {} /\ T = tJob[n] /\ rules' = rules /\ run[n].pc = "status"
        /\ uFWStatus' = [uFWStatus EXCEPT ![r.host] = IF r.name = "Login" THEN "ACCESS" ELSE "REMOVED"]
        /\ (r.name = "Login" => <<r.host, "HTTP">> \in rules[n])
    <3>1. /\ f = [run[n] EXCEPT !.cur = {}, !.pc = IF run[n].rows = {} THEN "idle" ELSE "loop"]
          /\ run[n] \in Runners /\ T = tJob[n]
      BY <1>2, <1>3 DEF NextRow, TypeOK
    <3>2. f.rows = run[n].rows /\ f.cur = {}
      BY <3>1 DEF Runners
    <3>3. r.name = "Login" => <<r.host, "HTTP">> \in rules[n]
      BY <2>1 DEF Note
    <3> QED  BY <2>1, <3>1, <3>2, <3>3
  <2>3. ToRun(n)' = T \cup f.rows /\ ToRun(n) = T \cup f.rows /\ AllRows(n)' = T \cup f.rows
    BY <2>2, <1>4 DEF ToRun
  <2>4. CASE a = r.host
    <3>1. uFWStatus'[a] = IF r.name = "Login" THEN "ACCESS" ELSE "REMOVED"
      BY <2>2, <2>4, <1>2 DEF TypeOK
    <3>2. CASE r.name = "Login"
      <4>1. HasRule(a)'
        BY <2>2, <2>4, <3>2 DEF HasRule, Chains
      <4> QED  BY <3>1, <3>2, <4>1 DEF Told, Shown, Accounted
    <3>3. CASE r.name # "Login"
      <4>1. r.name = "Logout"
        BY <3>3 DEF JobRow, JobNames
      <4>2. Shown(r.host)'
        BY <2>1, <2>2, <2>3, <4>1, <1>2, RemovedShows
      <4>3. Shown(a)'
        BY <4>2, <2>4
      <4> QED  BY <3>1, <3>3, <4>3 DEF Told, Accounted
    <3> QED  BY <3>2, <3>3
  <2>5. CASE a # r.host
    <3>1. uFWStatus'[a] = uFWStatus[a]
      BY <2>2, <2>5, <1>2 DEF TypeOK
    <3>2. \A p \in AllRows(n) : p.host = a => p \in T \cup f.rows \cup f.cur
      BY <2>1, <2>2, <2>5 DEF AllRows, Snapshot
    <3>3. Shown(a)'
      BY <3>1, <3>2, <1>1, <1>2, <1>5, RunShownElse DEF Told
    <3>4. Accounted(a)'
      BY <2>1, <2>2, <2>3, <2>5, <3>1, <1>1, <1>2, <1>5, RunAccountedElse DEF Told
    <3> QED  BY <3>3, <3>4 DEF Told
  <2> QED  BY <2>4, <2>5
<1> QED  BY <1>7, <1>8, <1>9, <1>10, <1>11, <1>12 DEF RunStep, Proceed

LEMMA SweepAccountedElse ==
    ASSUME TypeOK, NEW n \in Nodes, NEW f, sweep' = [sweep EXCEPT ![n] = f], NEW a \in Hosts,
           Accounted(a), UNCHANGED <<tJob, run>>, uFWStatus'[a] = uFWStatus[a],
           \A k \in Nodes, c \in Chains : <<a, c>> \in rules[k] => <<a, c>> \in rules'[k],
           sweep[n].pc = "status" => \A s \in sweep[n].cur : s.host # a,
           sweep[n].pc = "listed" => sweep[n].host # a
    PROVE  Accounted(a)'
<1>1. \A k \in Nodes \ {n} : sweep'[k] = sweep[k]
  BY DEF TypeOK
<1>2. HasJob(a) => HasJob(a)'
  BY DEF HasJob, ToRun
<1>3. HasRule(a) => HasRule(a)'
  BY DEF HasRule
<1>4. Ending(a) => Ending(a)'
  BY <1>1 DEF Ending
<1> QED  BY <1>2, <1>3, <1>4 DEF Accounted

(* A sweep that sets no status leaves what an address shows.               *)
LEMMA SweepShownElse ==
    ASSUME TypeInv, LetIn, IsFiniteSet(tProperty), NEW n \in Nodes, SweepStep(n), doubt' = {},
           NEW a \in Hosts, Shown(a), uFWStatus'[a] = uFWStatus[a]
    PROVE  Shown(a)'
<1>1. PICK f : SweepEffect(n, f)
  BY SweepHasEffect DEF LetIn
<1>2. TypeOK /\ tProperty' \subseteq tProperty /\ UNCHANGED <<tJob, page, run>>
  BY SweepKeepsShape DEF TypeInv
<1>3. sweep'[n] = f /\ \A k \in Nodes \ {n} : sweep'[k] = sweep[k]
  BY <1>1, <1>2 DEF SweepEffect, TypeOK
<1>4. SessionsAt(a)' \subseteq SessionsAt(a) /\ SessionsAt(a)' \subseteq tProperty'
  BY <1>2 DEF SessionsAt
<1>5. Bringing(a) => Bringing(a)'
  BY <1>2 DEF Bringing, AllRows, Snapshot
<1>6. SessionsAt(a)' # {} /\ SweptAway(a) => SweptAway(a)'
  <2> SUFFICES ASSUME NEW s \in SessionsAt(a)', SweptAway(a)  PROVE SweptAway(a)'
    OBVIOUS
  <2>1. PICK k \in Nodes : sweep[k].pc \in {"status", "delete"} /\ SessionsAt(a) \subseteq sweep[k].cur
    BY DEF SweptAway
  <2>2. CASE k # n
    BY <2>1, <2>2, <1>3, <1>4 DEF SweptAway
  <2>3. CASE k = n
    <3>1. \A t \in SessionsAt(a)' : f.pc \in {"status", "delete"} /\ t \in f.cur
      BY <2>1, <2>3, <1>1, <1>4 DEF SweepEffect, AtSweep
    <3>2. f.pc \in {"status", "delete"} /\ SessionsAt(a)' \subseteq f.cur
      BY <3>1
    <3> QED  BY <3>2, <1>3 DEF SweptAway
  <2> QED  BY <2>2, <2>3
<1> QED  BY <1>4, <1>5, <1>6 DEF Shown

LEMMA SweepTells ==
    ASSUME TypeInv, LetIn, IsFiniteSet(tProperty), NEW n \in Nodes, SweepStep(n), doubt' = {},
           NEW a \in Hosts, Told(a)
    PROVE  Told(a)'
<1> SUFFICES Told(a)'
  OBVIOUS
<1>1. TypeOK /\ SweepOK /\ UNCHANGED <<tJob, page, run>> /\ Swp(n) = sweep[n]
  BY SweepKeepsShape DEF TypeInv, Swp
<1>2. PICK f : sweep' = [sweep EXCEPT ![n] = f]
  BY <1>1, SweepKeepsShape DEF SweepShape
<1>3. ASSUME UNCHANGED <<uFWStatus, rules>>, sweep[n].pc \notin {"status", "listed"}
      PROVE  Told(a)'
  BY <1>1, <1>2, <1>3, SweepShownElse, SweepAccountedElse DEF Told
<1>4. CASE SelectExpired(n)
  BY <1>1, <1>3, <1>4 DEF SelectExpired
<1>5. CASE CountSessions(n)
  BY <1>1, <1>3, <1>5 DEF CountSessions
<1>6. CASE DropRules(n)
  <2> USE <1>6 DEF DropRules
  <2>1. PICK s \in Session : sweep[n].cur = {s}
    BY <1>1 DEF SweepOK, Holding
  <2>2. CurSession(n) = s
    BY <2>1, <1>1 DEF CurSession
  <2>3. sweep' = [sweep EXCEPT ![n] = [sweep[n] EXCEPT !.pc = "status"]]
        /\ uFWStatus' = uFWStatus /\ sweep[n].pc = "drop"
        /\ rules'[n] = rules[n] \ ({s.host} \X Chains) /\ \A k \in Nodes \ {n} : rules'[k] = rules[k]
    BY <2>2, <1>1 DEF Sweep, TypeOK
  <2>4. Shown(a)'
    BY <2>3, SweepShownElse DEF Told
  <2>5. CASE a = s.host
    <3>1. sweep'[n].pc = "status" /\ sweep'[n].cur = {s}
      BY <2>1, <2>3, <1>1 DEF TypeOK, Sweeps
    <3>2. Ending(a)'
      BY <2>5, <3>1 DEF Ending
    <3> QED  BY <2>4, <3>2 DEF Told, Accounted
  <2>6. CASE a # s.host
    <3>1. \A k \in Nodes, c \in Chains : <<a, c>> \in rules[k] => <<a, c>> \in rules'[k]
      BY <2>3, <2>6
    <3> QED  BY <2>3, <2>4, <3>1, <1>1, <1>2, SweepAccountedElse DEF Told
  <2> QED  BY <2>5, <2>6
<1>7. CASE DropStatus(n)
  <2> USE <1>7 DEF DropStatus
  <2>1. PICK s \in Session : sweep[n].cur = {s}
    BY <1>1 DEF SweepOK, Holding
  <2>2. CurSession(n) = s
    BY <2>1, <1>1 DEF CurSession
  <2>3. sweep' = [sweep EXCEPT ![n] = [sweep[n] EXCEPT !.pc = "delete"]]
        /\ rules' = rules /\ tProperty' = tProperty /\ sweep[n].pc = "status"
        /\ uFWStatus' = [uFWStatus EXCEPT ![s.host] = "REMOVED"]
    BY <2>2, <1>1 DEF Sweep, TypeOK
  <2>4. CASE a = s.host
    <3>1. sweep'[n].pc = "delete" /\ sweep'[n].cur = {s} /\ uFWStatus'[a] = "REMOVED"
      BY <2>1, <2>3, <2>4, <1>1 DEF TypeOK, Sweeps
    <3>2. SessionsAt(a)' \subseteq {s}
      BY <2>1, <2>3, <2>4 DEF LetIn, SweepsOwn, OwnsIn, SessionsAt
    <3>3. SweptAway(a)'
      BY <3>1, <3>2 DEF SweptAway
    <3> QED  BY <3>1, <3>3 DEF Told, Shown, Accounted
  <2>5. CASE a # s.host
    <3>1. uFWStatus'[a] = uFWStatus[a]
      BY <2>3, <2>5, <1>1 DEF TypeOK
    <3> QED  BY <2>1, <2>3, <2>5, <3>1, <1>1, <1>2, SweepShownElse, SweepAccountedElse DEF Told
  <2> QED  BY <2>4, <2>5
<1>8. CASE DeleteSession(n)
  BY <1>1, <1>3, <1>8 DEF DeleteSession
<1>9. CASE SessionsDone(n) \/ SessionsSkipped(n)
  BY <1>1, <1>3, <1>9 DEF SessionsDone, SessionsSkipped
<1>10. CASE Unlist(n)
  <2> USE <1>10 DEF Unlist
  <2>1. sweep' = [sweep EXCEPT ![n] = [sweep[n] EXCEPT !.pc = "listed"]]
        /\ uFWStatus' = uFWStatus /\ sweep[n].pc = "unlist"
        /\ rules'[n] = rules[n] \ {<<sweep[n].host, sweep[n].chain>>}
        /\ \A k \in Nodes \ {n} : rules'[k] = rules[k]
    BY <1>1 DEF Sweep, TypeOK
  <2>2. Shown(a)'
    BY <2>1, SweepShownElse DEF Told
  <2>3. CASE a = sweep[n].host
    <3>1. sweep'[n].pc = "listed" /\ sweep'[n].host = a
      BY <2>1, <2>3, <1>1 DEF TypeOK, Sweeps
    <3>2. Ending(a)'
      BY <3>1 DEF Ending
    <3> QED  BY <2>2, <3>2 DEF Told, Accounted
  <2>4. CASE a # sweep[n].host
    <3>1. \A k \in Nodes, c \in Chains : <<a, c>> \in rules[k] => <<a, c>> \in rules'[k]
      BY <2>1, <2>4
    <3> QED  BY <2>1, <2>2, <3>1, <1>1, <1>2, SweepAccountedElse DEF Told
  <2> QED  BY <2>3, <2>4
<1>11. CASE ListStatus(n)
  <2> USE <1>11 DEF ListStatus
  <2>1. /\ rules' = rules /\ tProperty' = tProperty /\ sweep[n].pc = "listed"
        /\ uFWStatus' = [uFWStatus EXCEPT ![sweep[n].host] = "REMOVED"]
    BY <1>1
  <2>2. CASE a = sweep[n].host
    <3>1. uFWStatus'[a] = "REMOVED"
      BY <2>1, <2>2, <1>1 DEF TypeOK
    <3>2. SessionsAt(a)' = {}
      BY <2>1, <2>2 DEF LetIn, SweepsOwn, OwnsIn, SessionsAt, Listing
    <3> QED  BY <3>1, <3>2 DEF Told, Shown, Accounted
  <2>3. CASE a # sweep[n].host
    <3>1. uFWStatus'[a] = uFWStatus[a]
      BY <2>1, <2>3, <1>1 DEF TypeOK
    <3> QED  BY <2>1, <2>3, <3>1, <1>1, <1>2, SweepShownElse, SweepAccountedElse DEF Told
  <2> QED  BY <2>2, <2>3
<1>12. CASE DropFails(n)
  BY <1>1, <1>3, <1>12 DEF DropFails
<1>13. CASE UnlistFails(n)
  BY <1>1, <1>3, <1>13 DEF UnlistFails
<1> QED  BY <1>4, <1>5, <1>6, <1>7, <1>8, <1>9, <1>10, <1>11, <1>12, <1>13 DEF SweepStep, Clean

LEMMA StutterTells ==
    ASSUME UNCHANGED vars, NEW a, Told(a)
    PROVE  Told(a)'
<1> USE DEF vars
<1>1. \A n : ToRun(n)' = ToRun(n) /\ AllRows(n)' = AllRows(n)
  BY RowsSame
<1>2. (Bringing(a) => Bringing(a)') /\ (SweptAway(a) => SweptAway(a)') /\ SessionsAt(a)' = SessionsAt(a)
  BY <1>1 DEF Bringing, SweptAway, SessionsAt
<1>3. (HasRule(a) => HasRule(a)') /\ (HasJob(a) => HasJob(a)') /\ (Ending(a) => Ending(a)')
  BY <1>1 DEF HasRule, HasJob, Ending
<1> QED  BY <1>2, <1>3 DEF Told, Shown, Accounted

LEMMA TellKept ==
    ASSUME TypeInv, LetInv, TellInv, [Next]_vars
    PROVE  TellInv'
<1> SUFFICES ASSUME doubt' = {}, NEW a \in Hosts  PROVE Told(a)'
  BY DEF TellInv
<1>1. doubt = {}
  BY DoubtGrows DEF vars
<1>2. LetIn /\ IsFiniteSet(tProperty) /\ Told(a)
  BY <1>1 DEF LetInv, TellInv
<1>3. CASE \E u \in Users : PageStep(u)
  BY <1>2, <1>3, PageTells
<1>4. CASE \E n \in Nodes : RunStep(n)
  BY <1>2, <1>4, RunTells
<1>5. CASE \E n \in Nodes : SweepStep(n)
  BY <1>2, <1>5, SweepTells
<1>6. CASE UNCHANGED vars
  BY <1>2, <1>6, StutterTells
<1> QED  BY <1>3, <1>4, <1>5, <1>6, Steps

(* tIP then says ACCESS for an address with a session, and only for one    *)
(* with a session or a rule a sweep has still to find                      *)
(* (ConditionalAddIPAndFWStatus), unless there is a doubt.                 *)
THEOREM StatusTells == Spec => []StatusTellsSessions
<1>1. TypeInv /\ LetInv /\ [Next]_vars => LetInv'
  BY LetKept
<1>2. TypeInv /\ LetInv /\ TellInv /\ [Next]_vars => TellInv'
  BY TellKept
<1>3. Init => TellInv
  BY DEF Init, TellInv, Told, Shown, Accounted, SessionsAt
<1>4. TypeInv /\ TellInv => StatusTellsSessions
  <2> SUFFICES ASSUME TypeInv, TellInv, Quiet, doubt = {}, NEW a \in Hosts
               PROVE  /\ SessionsAt(a) # {} => uFWStatus[a] = "ACCESS"
                      /\ uFWStatus[a] = "ACCESS" =>
                          SessionsAt(a) # {} \/ \E n \in Nodes, c \in Chains : a \in ListOf(n, c)
    BY DEF StatusTellsSessions
  <2>1. \A n \in Nodes : AllRows(n) = {} /\ ToRun(n) = {} /\ tJob[n] = {}
    BY DEF Quiet, ToRun, AllRows, Snapshot, TypeInv, RunOK
  <2>2. ~Bringing(a) /\ ~SweptAway(a) /\ ~Ending(a)
    BY <2>1 DEF Quiet, Bringing, SweptAway, Ending
  <2>3. ~HasJob(a)
    BY <2>1 DEF HasJob
  <2>4. HasRule(a) => \E n \in Nodes, c \in Chains : a \in ListOf(n, c)
    BY DEF HasRule, ListOf
  <2> QED  BY <2>2, <2>3, <2>4 DEF TellInv, Told, Shown, Accounted
<1> QED  BY <1>1, <1>2, <1>3, <1>4, InitLets, TypesKept, PTL DEF Spec

-----------------------------------------------------------------------------
(************************ A wait has a job *********************************)

Coming(a) == \E u \in Users : page[u].at \in {"session", "login"} /\ page[u].host = a
Working(n, a) ==
    \/ \E r \in tJob[n] : r.host = a
    \/ \E r \in run[n].rows \cup run[n].cur : r.name = "Login" /\ r.host = a
    \/ run[n].pc = "status" /\ \E r \in run[n].cur : r.host = a

Waited(a) == uFWStatus[a] = "WAITINGACCESSLOGIN" => Coming(a) \/ \E n \in Nodes : Working(n, a)

LEMMA WaitedSame ==
    ASSUME NEW a, Waited(a), uFWStatus'[a] = uFWStatus[a], Coming(a) => Coming(a)',
           \A n \in Nodes : Working(n, a) => Working(n, a)'
    PROVE  Waited(a)'
BY DEF Waited

LEMMA PageWaits ==
    ASSUME TypeInv, NEW u \in Users, PageStep(u), NEW a \in Hosts, Waited(a)
    PROVE  Waited(a)'
<1> SUFFICES Waited(a)'
  OBVIOUS
<1>0. PICK h : h = page[u].host
  OBVIOUS
<1>1. TypeOK /\ page[u] \in Pages /\ UNCHANGED run
  BY PageKeepsShape DEF TypeInv, TypeOK
<1>2. ASSUME \A v \in Users : v # u => page'[v] = page[v],
             ~(page[u].at \in {"session", "login"} /\ page[u].host = a)
      PROVE  Coming(a) => Coming(a)'
  BY <1>2 DEF Coming
<1>3. ASSUME \A n \in Nodes : \A r \in tJob[n] : r.host = a => r \in tJob'[n]
      PROVE  \A n \in Nodes : Working(n, a) => Working(n, a)'
  BY <1>1, <1>3 DEF Working
<1>4. ASSUME NEW b \in Hosts, Login(u, b)  PROVE Waited(a)'
  <2> USE <1>4 DEF Login
  <2>1. \A v \in Users : v # u => page'[v] = page[v]
    BY <1>1 DEF TypeOK
  <2>2. CASE a = b
    <3>1. page'[u].at = "session" /\ page'[u].host = a
      BY <2>2, <1>1 DEF TypeOK
    <3> QED  BY <3>1 DEF Coming, Waited
  <2>3. CASE a # b
    <3>1. uFWStatus'[a] = uFWStatus[a]
      BY <2>3, <1>1 DEF TypeOK
    <3> QED  BY <2>1, <3>1, <1>2, <1>3, WaitedSame
  <2> QED  BY <2>2, <2>3
<1>5. ASSUME page[u].at \in {"none", "check"}, UNCHANGED <<uFWStatus, tJob>>,
             \A v \in Users : v # u => page'[v] = page[v]
      PROVE  Waited(a)'
  BY <1>2, <1>3, <1>5, WaitedSame
<1>6. ASSUME NEW b \in Hosts, NEW out \in BOOLEAN, Leave(u, b, out)  PROVE Waited(a)'
  BY <1>1, <1>5, <1>6 DEF Leave, TypeOK
<1>7. CASE CheckSessions(u)
  BY <1>1, <1>5, <1>7 DEF CheckSessions, LoggedOut, TypeOK
<1>8. CASE Expire(u) \/ Renew(u)
  BY <1>5, <1>8 DEF Expire, Renew
<1>9. CASE CreateLoginSession(u)
  <2> USE <1>9 DEF CreateLoginSession
  <2>1. \A v \in Users : v # u => page'[v] = page[v]
    BY <1>1 DEF TypeOK
  <2>2. page'[u].at = "login" /\ page'[u].host = page[u].host
    BY <1>1 DEF TypeOK, Pages
  <2>3. Coming(a) => Coming(a)'
    BY <2>1, <2>2 DEF Coming
  <2> QED  BY <2>3, <1>3, WaitedSame
<1>10. ASSUME NEW n \in Nodes, NEW name, NEW drop, name \notin drop, Exchange(u, n, name, drop),
              UNCHANGED uFWStatus, \A v \in Users : v # u => page'[v] = page[v]
       PROVE  Waited(a)'
  <2>1. /\ \E r \in tJob'[n] : r.host = h
        /\ \A k \in Nodes : \A r \in tJob[k] : r.host # h => r \in tJob'[k]
    BY <1>0, <1>1, <1>10, ExchangeLeaves
  <2>2. CASE a = h
    <3>1. Working(n, a)'
      BY <2>1, <2>2 DEF Working
    <3> QED  BY <3>1 DEF Waited
  <2>3. CASE a # h
    BY <2>1, <2>3, <1>0, <1>2, <1>3, <1>10, WaitedSame
  <2> QED  BY <2>2, <2>3
<1>11. ASSUME NEW n \in Nodes, LoginFirewallJob(u, n)  PROVE Waited(a)'
  <2>1. /\ Exchange(u, n, "Login", {"Logout"}) /\ UNCHANGED uFWStatus
        /\ \A v \in Users : v # u => page'[v] = page[v]
    BY <1>1, <1>11 DEF LoginFirewallJob, TypeOK
  <2> QED  BY <2>1, <1>10
<1>12. ASSUME NEW n \in Nodes, LogoutFirewallJob(u, n)  PROVE Waited(a)'
  <2>1. /\ Exchange(u, n, "Logout", {}) /\ UNCHANGED uFWStatus
        /\ \A v \in Users : v # u => page'[v] = page[v]
    BY <1>1, <1>12 DEF LogoutFirewallJob, LoggedOut, TypeOK
  <2> QED  BY <2>1, <1>10
<1> QED  BY <1>4, <1>6, <1>7, <1>8, <1>9, <1>11, <1>12 DEF PageStep, Page, Ask, Logout, LoginRefused

LEMMA RunWaits ==
    ASSUME TypeInv, NEW n \in Nodes, RunStep(n), "failed" \notin doubt', NEW a \in Hosts, Waited(a)
    PROVE  Waited(a)'
<1> SUFFICES Waited(a)'
  OBVIOUS
<1>1. PICK f, T : RunShape(n, f, T)
  BY RunKeepsShape DEF TypeInv
<1>2. TypeOK /\ RunOK /\ UNCHANGED page
  BY RunKeepsShape DEF TypeInv
<1>3. /\ run'[n] = f /\ tJob'[n] = T
      /\ \A k \in Nodes \ {n} : run'[k] = run[k] /\ tJob'[k] = tJob[k]
  BY <1>1, <1>2, RunFrame
<1>4. /\ Coming(a) => Coming(a)'
      /\ \A k \in Nodes \ {n} : Working(k, a) => Working(k, a)'
  BY <1>2, <1>3 DEF Coming, Working
<1>5. ASSUME uFWStatus'[a] = uFWStatus[a], Working(n, a) => Working(n, a)'  PROVE Waited(a)'
  BY <1>4, <1>5, WaitedSame
<1>6. CASE Select(n)
  <2> USE <1>6 DEF Select
  <2>1. f.rows = tJob[n] /\ f.cur = run[n].cur /\ T = tJob[n] /\ run[n].pc = "idle"
    BY <1>2, <1>3, SelectsAll
  <2>2. run[n].rows = {}
    BY <2>1, <1>2 DEF RunOK
  <2>3. Working(n, a) => Working(n, a)'
    BY <2>1, <2>2, <1>3 DEF Working
  <2> QED  BY <2>3, <1>5
<1>7. CASE Begin(n)
  <2> USE <1>7 DEF Begin
  <2>1. PICK r \in run[n].rows :
          /\ tJob' = [tJob EXCEPT ![n] = IF r \in @ THEN (@ \ {r}) \cup {Running(r)} ELSE @]
          /\ run' = [run EXCEPT ![n] = [pc |-> "rules", rows |-> @.rows \ {r}, cur |-> {r}]]
    OBVIOUS
  <2>2. /\ f.rows = run[n].rows \ {r} /\ f.cur = {r} /\ run[n].pc = "loop" /\ r \in JobRow
        /\ T = IF r \in tJob[n] THEN (tJob[n] \ {r}) \cup {Running(r)} ELSE tJob[n]
    BY <2>1, <1>2, <1>3 DEF TypeOK, Runners
  <2>3. Running(r).host = r.host /\ run[n].cur = {}
    BY <2>2, <1>2, RunningIs DEF Same, RunOK
  <2>4. Working(n, a) => Working(n, a)'
    BY <2>2, <2>3, <1>3 DEF Working
  <2> QED  BY <2>4, <1>5
<1>8. CASE Postpone(n)
  <2> USE <1>8 DEF Postpone
  <2>1. PICK r \in JobRow : run[n].cur = {r} /\ Cur(n) = r
    BY <1>2, CurRow
  <2>2. /\ f = [run[n] EXCEPT !.cur = {}, !.pc = IF run[n].rows = {} THEN "idle" ELSE "loop"]
        /\ run[n] \in Runners
    BY <1>2, <1>3 DEF NextRow, TypeOK
  <2>3. f.rows = run[n].rows /\ f.cur = {}
    BY <2>2 DEF Runners
  <2>4. T = IF Running(r) \in tJob[n] THEN (tJob[n] \ {Running(r)}) \cup {r} ELSE tJob[n]
    BY <2>1, <1>2, <1>3 DEF TypeOK
  <2>5. r.name = "Logout" /\ Running(r).host = r.host /\ run[n].pc = "rules"
    BY <2>1, RunningIs DEF Same
  <2>6. Working(n, a) => Working(n, a)'
    BY <2>1, <2>3, <2>4, <2>5, <1>3 DEF Working
  <2> QED  BY <2>6, <1>5
<1>9. CASE Iptables(n)
  <2>1. PICK r \in JobRow : run[n].cur = {r} /\ Cur(n) = r
    <3>1. run[n].pc = "rules"
      BY <1>9 DEF Iptables
    <3> QED  BY <1>2, <3>1, CurRow
  <2>2. /\ T = tJob[n] \ {Running(r)} /\ f.rows = run[n].rows /\ f.cur = {r} /\ f.pc = "status"
        /\ uFWStatus' = uFWStatus
    BY <1>2, <1>3, <1>9, <2>1 DEF Iptables, EndJob, TypeOK, Runners
  <2>3. Running(r).host = r.host
    BY RunningIs DEF Same
  <2>4. Working(n, a) => Working(n, a)'
    BY <2>1, <2>2, <2>3, <1>3 DEF Working
  <2> QED  BY <2>2, <2>4, <1>5
<1>10. CASE IptablesFails(n)
  BY <1>10 DEF IptablesFails, Note
<1>11. CASE SetStatus(n)
  <2> USE <1>11 DEF SetStatus
  <2>1. PICK r \in JobRow : run[n].cur = {r} /\ Cur(n) = r
    BY <1>2, CurRow
  <2>2. /\ f = [run[n] EXCEPT !.cur = {}, !.pc = IF run[n].rows = {} THEN "idle" ELSE "loop"]
        /\ run[n] \in Runners /\ T = tJob[n]
    BY <1>2, <1>3 DEF NextRow, TypeOK
  <2>3. f.rows = run[n].rows /\ f.cur = {}
    BY <2>2 DEF Runners
  <2>4. CASE a = r.host
    <3>1. uFWStatus'[a] # "WAITINGACCESSLOGIN"
      BY <2>1, <2>4, <1>2 DEF TypeOK
    <3> QED  BY <3>1 DEF Waited
  <2>5. CASE a # r.host
    <3>1. uFWStatus'[a] = uFWStatus[a]
      BY <2>1, <2>5, <1>2 DEF TypeOK
    <3>2. Working(n, a) => Working(n, a)'
      BY <2>1, <2>2, <2>3, <2>5, <1>3 DEF Working
    <3> QED  BY <3>1, <3>2, <1>5
  <2> QED  BY <2>4, <2>5
<1> QED  BY <1>6, <1>7, <1>8, <1>9, <1>10, <1>11 DEF RunStep, Proceed

LEMMA SweepWaits ==
    ASSUME TypeInv, NEW n \in Nodes, SweepStep(n), NEW a \in Hosts, Waited(a)
    PROVE  Waited(a)'
<1>1. TypeOK /\ UNCHANGED <<tJob, page, run>>
  BY SweepKeepsShape DEF TypeInv
<1>2. uFWStatus' = uFWStatus \/ \E b : uFWStatus' = [uFWStatus EXCEPT ![b] = "REMOVED"]
  BY DEF SweepStep, Clean, SelectExpired, CountSessions, DropRules, DropStatus, DeleteSession,
     SessionsDone, Unlist, ListStatus, DropFails, SessionsSkipped, UnlistFails
<1>3. uFWStatus'[a] = uFWStatus[a] \/ uFWStatus'[a] = "REMOVED"
  BY <1>1, <1>2 DEF TypeOK
<1>4. Coming(a)' = Coming(a) /\ \A k \in Nodes : Working(k, a)' = Working(k, a)
  BY <1>1 DEF Coming, Working
<1> QED  BY <1>3, <1>4 DEF Waited

(* Nobody waits for access without a page or a job that ends the wait:     *)
(* DELETE, "do not add again" (main.c 3064-3099) and high load never take  *)
(* the last one. Only a failing command does.                              *)
THEOREM WaitIsWorkedOn == Spec => []WaitHasAJob
<1> DEFINE WaitInv == "failed" \notin doubt => \A a \in Hosts : Waited(a)
<1>1. Init => WaitInv
  BY DEF Init, Waited
<1>2. ASSUME TypeInv, WaitInv, [Next]_vars  PROVE WaitInv'
  <2> SUFFICES ASSUME "failed" \notin doubt', NEW a \in Hosts  PROVE Waited(a)'
    OBVIOUS
  <2>1. "failed" \notin doubt
    BY <1>2, DoubtGrows DEF vars
  <2>2. Waited(a)
    BY <2>1, <1>2
  <2>3. CASE \E u \in Users : PageStep(u)
    BY <2>2, <2>3, <1>2, PageWaits
  <2>4. CASE \E n \in Nodes : RunStep(n)
    BY <2>2, <2>4, <1>2, RunWaits
  <2>5. CASE \E n \in Nodes : SweepStep(n)
    BY <2>2, <2>5, <1>2, SweepWaits
  <2>6. CASE UNCHANGED vars
    BY <2>2, <2>6 DEF vars, Waited, Coming, Working
  <2> QED  BY <1>2, <2>3, <2>4, <2>5, <2>6, Steps
<1>3. WaitInv <=> WaitHasAJob
  BY DEF WaitHasAJob, Waited, Coming, Working
<1> HIDE DEF WaitInv
<1> QED  BY <1>1, <1>2, <1>3, TypesKept, PTL DEF Spec
=============================================================================
