--------------------------- MODULE FirewallGroup ---------------------------
(***************************************************************************)
(* Blocking and admitting one customer address on every hardware node.     *)
(* An operator's page (tipfunc.h) or the snort agent (agents/snort/snort.c)*)
(* inserts one job per node, the first the master job of the others, and   *)
(* then sets tIP.uFWStatus to a waiting status.  The handler of each job   *)
(* (jobqueue.c) changes the chain UnxsVZ-FW of its node, marks the job     *)
(* done and, when no job of the group is left, publishes the final status. *)
(* StartIptables builds the chain of a node anew from that status.         *)
(*                                                                         *)
(* How an invocation gets its jobs is the subject of JobQueue: here a node *)
(* has one runner, which takes a snapshot of its waiting jobs and runs     *)
(* them in uJob order.                                                     *)
(*                                                                         *)
(* Two more writers of tIP.uFWStatus are not in this module: the login and *)
(* logout jobs with the sweep of expired sessions                          *)
(* (ConditionalAddIPAndFWStatus, jobqueue.c:6566) and the page of a login  *)
(* (main.c:2938).  What is said here is about an address from which nobody *)
(* logs in; LoginSession has those writers, and no orders.                 *)
(***************************************************************************)
EXTENDS Integers, FiniteSets, Sequences

CONSTANTS
    Nodes,     \* the active OpenVZ nodes
    Sessions,  \* pages and agents that may give orders at the same time
    MaxEvent   \* bound: orders, starts of firewalls, failing commands and
               \* INSERTs, cancellations, exits, times of high load

ASSUME FirewallAssumption == IsFiniteSet(Nodes) /\ MaxEvent \in Nat

VARIABLES
    tJob,       \* the rows of each node, by uJob
    events,     \* how many events there were; they number the orders
    uFWStatus,  \* of the address in tIP
    chain,      \* the rules for the address in UnxsVZ-FW of each node
    page,       \* the order each session is placing
    run,        \* the runner of each node
    doubt       \* history: what has happened that the code does not guard against

vars == <<tJob, events, uFWStatus, chain, page, run, doubt>>

GroupJobs == {"BlockAccess", "UndoBlockAccess", "AllowAllAccess",
              "RemoveAcceptFromIPTables", "RemoveDropFromIPTables"}
JobNames == GroupJobs \cup {"StartIptables"}

\* The status an order leaves the address waiting in
Awaits == [BlockAccess |-> "WAITINGBLOCK", UndoBlockAccess |-> "WAITINGACCESS",
           AllowAllAccess |-> "WAITINGACCESS", RemoveAcceptFromIPTables |-> "WAITINGREMOVAL",
           RemoveDropFromIPTables |-> "WAITINGREMOVAL"]

\* Mutant: a status the page does not know
FinalDeleted == [n \in DOMAIN Awaits |-> IF n = "BlockAccess" THEN "BLOCKED" ELSE "DELETED"]

\* The status the last job of a group publishes
Final == [BlockAccess |-> "BLOCKED", UndoBlockAccess |-> "ACCESS", AllowAllAccess |-> "ACCESS",
          RemoveAcceptFromIPTables |-> "REMOVED", RemoveDropFromIPTables |-> "REMOVED"]

Waiting == {"WAITINGBLOCK", "WAITINGACCESS", "WAITINGREMOVAL"}
FWStatus == Waiting \cup {"none", "BLOCKED", "ACCESS", "REMOVED"}

\* Who may give which order at which status: the operator's page, the agent on
\* an event, and the agent's --block-ip and --unblock-ip, which compare nothing
Accepts(who, name, st) ==
    \/ who = "page" /\ \/ name = "BlockAccess" /\ st \in {"none", "ACCESS"}
                       \/ name \in {"UndoBlockAccess", "RemoveDropFromIPTables"} /\ st = "BLOCKED"
                       \/ name = "RemoveAcceptFromIPTables" /\ st = "ACCESS"
    \/ who = "event" /\ \/ name = "BlockAccess" /\ st \notin {"WAITINGBLOCK", "BLOCKED"}
                        \/ name = "AllowAllAccess" /\ st \in {"none", "REMOVED", "WAITINGREMOVAL"}
    \/ who = "command" /\ name \in {"BlockAccess", "UndoBlockAccess"}

OrderIds == 0 .. MaxEvent

Orders == [who : {"none", "page", "event", "command"}, cJobName : GroupJobs,
           left : SUBSET Nodes, order : OrderIds]
NoOrder == [who |-> "none", cJobName |-> "BlockAccess", left |-> {}, order |-> 0]

\* The jobs of one order that are not alone have the same master
JobRow == [cJobName : JobNames, order : OrderIds, alone : BOOLEAN,
           uJobStatus : {"WAITING", "RUNNING", "DONEOK", "ERROR", "CANCELED"}]

Points == {"idle", "loop", "rules", "done", "check", "publish", "drops", "accepts", "started",
           "dead"}
Runners == [pc : Points, rows : SUBSET (1 .. MaxEvent), cur : OrderIds, uAllJobsDone : BOOLEAN]
Idle == [pc |-> "idle", rows |-> {}, cur |-> 0, uAllJobsDone |-> FALSE]

Doubts == {"crossed", "partial", "unnoticed", "check", "update", "hidden"}

Rules == {"DROP", "ACCEPT"}

-----------------------------------------------------------------------------
(******************************** iptables *********************************)

\* The rules a job's shell commands delete, and insert if none is listed then
Deletes == [BlockAccess |-> {"ACCEPT"}, UndoBlockAccess |-> {"DROP"},
            AllowAllAccess |-> {"DROP"}, RemoveAcceptFromIPTables |-> Rules,
            RemoveDropFromIPTables |-> {"DROP"}]
Inserts == [BlockAccess |-> {"DROP"}, UndoBlockAccess |-> {"ACCEPT"},
            AllowAllAccess |-> {"ACCEPT"}, RemoveAcceptFromIPTables |-> {},
            RemoveDropFromIPTables |-> {}]

\* Deletions before the last command, whose exit status is lost
Untested == [Deletes EXCEPT !.RemoveAcceptFromIPTables = {"DROP"},
                            !.RemoveDropFromIPTables = {}]

\* The chain after the commands, had it the rules S and all deleted but kept
Commanded(name, S, kept) ==
    LET left == S \ (Deletes[name] \ kept)
    IN IF left = {} THEN Inserts[name] ELSE left

\* The rules that go with a published status
Verdict == [BLOCKED |-> {"DROP"}, ACCESS |-> {"ACCEPT"}, REMOVED |-> {}, none |-> {}]

\* The rules StartIptables restores
Restored(rule, st) ==
    IF \/ rule = "DROP" /\ st \in {"BLOCKED", "WAITINGBLOCK"}
       \/ rule = "ACCEPT" /\ st \in {"ACCESS", "WAITINGACCESS"}
    THEN {rule} ELSE {}

-----------------------------------------------------------------------------
Init ==
    /\ tJob = [n \in Nodes |-> <<>>]
    /\ events = 0
    /\ uFWStatus = "none"
    /\ chain = [n \in Nodes |-> {}]
    /\ page = [s \in Sessions |-> NoOrder]
    /\ run = [n \in Nodes |-> Idle]
    /\ doubt = {}

SetJob(n, j, st) == tJob' = [tJob EXCEPT ![n][j].uJobStatus = st]

Note(why, holds) == doubt' = IF holds THEN doubt \cup {why} ELSE doubt

Count == events < MaxEvent /\ events' = events + 1

(**************************** Placing an order *****************************)

Rows(n) == {tJob[n][j] : j \in DOMAIN tJob[n]}

\* The rows of the orders that are placed
Placed == {r \in UNION {Rows(n) : n \in Nodes} :
              r.cJobName \in GroupJobs /\ \A s \in Sessions : page[s].order # r.order}

\* A runner has still to do or is doing a job of the order
Open(m) == \E n \in Nodes : \E j \in DOMAIN tJob[n] :
                /\ tJob[n][j].order = m
                /\ \/ tJob[n][j].uJobStatus \in {"WAITING", "RUNNING"}
                   \/ j \in run[n].rows \cup {run[n].cur}

\* The newest order is not through and tIP has the status of an older one,
\* which was published after the newer was given
Hidden == \E r \in Placed : /\ Open(r.order) /\ \A q \in Placed : q.order <= r.order
                            /\ uFWStatus \notin {Awaits[r.cJobName], Final[r.cJobName]}

\* The status is read once, before the first INSERT
OpenOrder(s, who, name) ==
    /\ page[s].who = "none" /\ Accepts(who, name, uFWStatus)
    /\ Count
    /\ page' = [page EXCEPT ![s] = [who |-> who, cJobName |-> name, left |-> Nodes,
                                    order |-> events']]
    /\ doubt' = doubt \cup {d \in {"crossed", "hidden"} :
                            \/ d = "crossed" /\ \E t \in Sessions : page[t].who # "none"
                            \/ d = "hidden" /\ Hidden}
    /\ UNCHANGED <<tJob, uFWStatus, chain, run>>

NewRow(s, alone) == [cJobName |-> page[s].cJobName, order |-> page[s].order,
                     alone |-> alone, uJobStatus |-> "WAITING"]

InsertRow(s, n, alone) ==
    /\ page[s].who # "none" /\ n \in page[s].left
    /\ tJob' = [tJob EXCEPT ![n] = Append(@, NewRow(s, alone))]
    /\ page' = [page EXCEPT ![s].left = @ \ {n}]
    /\ UNCHANGED <<events, uFWStatus, chain, run, doubt>>

\* Mutant: every job is its own master
InsertAlone(s, n) == InsertRow(s, n, TRUE)

\* One INSERT, due at once; the first job is the master of the others, but
\* --block-ip and --unblock-ip leave every job its own master
InsertJob(s, n) == InsertRow(s, n, page[s].who = "command")

\* An INSERT fails: the page goes on to the status if there is a job already,
\* the agent gives up
InsertFails(s) ==
    /\ page[s].who # "none" /\ page[s].left # {} /\ Count
    /\ page' = IF page[s].who = "page" /\ page[s].left # Nodes
               THEN [page EXCEPT ![s].left = {}] ELSE [page EXCEPT ![s] = NoOrder]
    /\ Note("partial", page[s].left # Nodes)
    /\ UNCHANGED <<tJob, uFWStatus, chain, run>>

\* Mutant: every page sets the status of the first one
SetWaitingBlock(s) ==
    /\ page[s].who # "none" /\ page[s].left = {}
    /\ page' = [page EXCEPT ![s] = NoOrder]
    /\ uFWStatus' = "WAITINGBLOCK"
    /\ UNCHANGED <<tJob, events, chain, run, doubt>>

\* The waiting status, by an UPDATE nobody tests
SetWaiting(s) ==
    /\ page[s].who # "none" /\ page[s].left = {}
    /\ page' = [page EXCEPT ![s] = NoOrder]
    /\ \/ uFWStatus' = Awaits[page[s].cJobName] /\ doubt' = doubt
       \/ uFWStatus' = uFWStatus /\ Note("update", TRUE)
    /\ UNCHANGED <<tJob, events, chain, run>>

\* "Activate Firewalls" of the node's datacenter: one job, no group
ActivateFirewall(n) ==
    /\ Count
    /\ tJob' = [tJob EXCEPT ![n] = Append(@, [cJobName |-> "StartIptables", order |-> events',
                                              alone |-> TRUE, uJobStatus |-> "WAITING"])]
    /\ UNCHANGED <<uFWStatus, chain, page, run, doubt>>

\* One checked row of "Group Cancel" on the job page
GroupCancel(n, j) ==
    /\ tJob[n][j].uJobStatus \in {"WAITING", "ERROR"} /\ Count
    /\ SetJob(n, j, "CANCELED")
    /\ UNCHANGED <<uFWStatus, chain, page, run, doubt>>

(************************* The runner of a node ****************************)

Cur(n) == tJob[n][run[n].cur]
SetCur(n, st) == SetJob(n, run[n].cur, st)
Goto(n, p) == run' = [run EXCEPT ![n].pc = p]

\* On to the next row, or out
Leave(n) == run' = [run EXCEPT ![n] =
    [Idle EXCEPT !.pc = IF run[n].rows = {} THEN "idle" ELSE "loop", !.rows = run[n].rows]]

Due(n) == {j \in DOMAIN tJob[n] : tJob[n][j].uJobStatus = "WAITING"}

\* The snapshot; a page that has inserted the node's job and not finished is
\* overtaken
Select(n) ==
    /\ run[n].pc = "idle" /\ Due(n) # {}
    /\ run' = [run EXCEPT ![n].pc = "loop", ![n].rows = Due(n)]
    /\ Note("crossed", \E s \in Sessions : page[s].who # "none" /\ n \notin page[s].left)
    /\ UNCHANGED <<tJob, events, uFWStatus, chain, page>>

\* Mutant: the newest job first
NewestFirst(n, j) == j \in run[n].rows /\ \A i \in run[n].rows : i <= j

NextRow(n, j) == j \in run[n].rows /\ \A i \in run[n].rows : j <= i

\* ProcessJob marks the next row RUNNING, whatever became of it
Begin(n) ==
    /\ run[n].pc = "loop"
    /\ \E j \in run[n].rows :
        /\ NextRow(n, j)
        /\ SetJob(n, j, "RUNNING")
        /\ run' = [run EXCEPT ![n].pc = "rules", ![n].rows = @ \ {j}, ![n].cur = j]
    /\ UNCHANGED <<events, uFWStatus, chain, page, doubt>>

\* Under high load (counted as an event) StartIptables goes back to waiting; the
\* others run
Postpone(n) ==
    /\ run[n].pc = "loop" /\ Count
    /\ \E j \in run[n].rows :
        /\ NextRow(n, j) /\ tJob[n][j].cJobName = "StartIptables"
        /\ SetJob(n, j, "WAITING")
        /\ run' = [run EXCEPT ![n].rows = @ \ {j},
                              ![n].pc = IF run[n].rows = {j} THEN "idle" ELSE "loop"]
    /\ UNCHANGED <<uFWStatus, chain, page, doubt>>

\* exit(2) or a kill leaves the lock, and with it the node's queue is dead
Die(n) ==
    /\ run[n].pc \notin {"idle", "dead"} /\ Count
    /\ run' = [run EXCEPT ![n] = [Idle EXCEPT !.pc = "dead"]]
    /\ UNCHANGED <<tJob, uFWStatus, chain, page, doubt>>

InGroupJob(n) == run[n].pc = "rules" /\ Cur(n).cJobName \in GroupJobs

\* The shell commands report success, though a deletion may have failed
Iptables(n) ==
    /\ InGroupJob(n)
    /\ \E kept \in SUBSET (Untested[Cur(n).cJobName] \cap chain[n]) :
        /\ chain' = [chain EXCEPT ![n] = Commanded(Cur(n).cJobName, @, kept)]
        /\ Note("unnoticed", kept # {})
    /\ Goto(n, "done")
    /\ UNCHANGED <<tJob, events, uFWStatus, page>>

\* The last command fails
IptablesFails(n) ==
    /\ InGroupJob(n) /\ Count
    /\ chain' = [chain EXCEPT ![n] = @ \ Untested[Cur(n).cJobName]]
    /\ SetCur(n, "ERROR")
    /\ Leave(n)
    /\ UNCHANGED <<uFWStatus, page, doubt>>

\* tJobDoneUpdate comes before the group is looked at
Done(n) ==
    /\ run[n].pc = "done"
    /\ SetCur(n, "DONEOK")
    /\ Goto(n, "check")
    /\ UNCHANGED <<events, uFWStatus, chain, page, doubt>>

SameGroup(r, q) == r.order = q.order /\ ~r.alone

\* Mutant: looks at the group's jobs of the own node
NodeDone(r) == \A n \in Nodes : r \in Rows(n) =>
                    \A q \in Rows(n) : SameGroup(r, q) => q.uJobStatus = "DONEOK"

\* No other job of the group is unfinished
GroupDone(r) == \A n \in Nodes : \A j \in DOMAIN tJob[n] :
                    SameGroup(r, tJob[n][j]) => tJob[n][j].uJobStatus = "DONEOK"

\* Mutant: looks before the own job is marked done
CheckFirst(n) ==
    /\ run[n].pc = "check"
    /\ run' = [run EXCEPT ![n].pc = "publish", ![n].uAllJobsDone = FALSE]
    /\ UNCHANGED <<tJob, events, uFWStatus, chain, page, doubt>>

\* SELECT ... (uMasterJob=m OR uJob=m) AND uJobStatus!=uDONEOK; when it fails
\* uAllJobsDone keeps its initial 1
Check(n) ==
    /\ run[n].pc = "check"
    /\ \E all \in {GroupDone(Cur(n)), TRUE} :
        /\ run' = [run EXCEPT ![n].pc = "publish", ![n].uAllJobsDone = all]
        /\ Note("check", all # GroupDone(Cur(n)))
    /\ UNCHANGED <<tJob, events, uFWStatus, chain, page>>

\* UpdateIPFWStatus by the last one; its errors are only logged
Publish(n) ==
    /\ run[n].pc = "publish"
    /\ Leave(n)
    /\ IF run[n].uAllJobsDone
       THEN \/ uFWStatus' = Final[Cur(n).cJobName] /\ doubt' = doubt
            \/ uFWStatus' = uFWStatus /\ Note("update", TRUE)
       ELSE UNCHANGED <<uFWStatus, doubt>>
    /\ UNCHANGED <<tJob, events, chain, page>>

(***************************** StartIptables *******************************)

\* service iptables stop; start: the rules for addresses are gone
Restart(n) ==
    /\ run[n].pc = "rules" /\ Cur(n).cJobName = "StartIptables"
    /\ chain' = [chain EXCEPT ![n] = {}]
    /\ \/ Goto(n, "drops") /\ UNCHANGED <<tJob, events>>
       \/ Leave(n) /\ SetCur(n, "ERROR") /\ Count
    /\ UNCHANGED <<uFWStatus, page, doubt>>

\* One SELECT of tIP by status and the rule for what it returns; a failing
\* SELECT or iptables is only logged
Restore(n, at, next, rule) ==
    /\ run[n].pc = at
    /\ \/ /\ chain' = [chain EXCEPT ![n] = @ \cup Restored(rule, uFWStatus)]
          /\ Note("hidden", Hidden)
       \/ chain' = chain /\ Note("unnoticed", TRUE)
    /\ Goto(n, next)
    /\ UNCHANGED <<tJob, events, uFWStatus, page>>

RestoreDrops(n) == Restore(n, "drops", "accepts", "DROP")
RestoreAccepts(n) == Restore(n, "accepts", "started", "ACCEPT")

StartDone(n) ==
    /\ run[n].pc = "started"
    /\ SetCur(n, "DONEOK")
    /\ Leave(n)
    /\ UNCHANGED <<events, uFWStatus, chain, page, doubt>>

-----------------------------------------------------------------------------
Page(s) == (\E n \in Nodes : InsertJob(s, n)) \/ SetWaiting(s)

Order ==
    \/ \E s \in Sessions, who \in {"page", "event", "command"}, name \in GroupJobs :
            OpenOrder(s, who, name)
    \/ \E s \in Sessions : InsertFails(s)
    \/ \E n \in Nodes : ActivateFirewall(n) \/ \E j \in DOMAIN tJob[n] : GroupCancel(n, j)

\* What a healthy runner does
Proceed(n) ==
    \/ Select(n) \/ Begin(n) \/ Iptables(n) \/ Done(n) \/ Check(n) \/ Publish(n)
    \/ Restart(n) \/ RestoreDrops(n) \/ RestoreAccepts(n) \/ StartDone(n)

Fail(n) == Postpone(n) \/ IptablesFails(n) \/ Die(n)

Next ==
    \/ \E s \in Sessions : Page(s)
    \/ Order
    \/ \E n \in Nodes : Proceed(n) \/ Fail(n)

Spec == Init /\ [][Next]_vars

\* A page runs to its end and cron starts a runner of each node every minute
FairSpec == /\ Spec
            /\ \A s \in Sessions : WF_vars(Page(s))
            /\ \A n \in Nodes : WF_vars(Proceed(n))

-----------------------------------------------------------------------------
(******************************* Properties ********************************)

\* Every variable has the shape of its table, chain or process state.
TypeOK ==
    /\ tJob \in [Nodes -> Seq(JobRow)]
    /\ events \in OrderIds
    /\ uFWStatus \in FWStatus
    /\ chain \in [Nodes -> SUBSET Rules]
    /\ page \in [Sessions -> Orders]
    /\ run \in [Nodes -> Runners]
    /\ doubt \in SUBSET Doubts

AllClosed == \A s \in Sessions : page[s].who = "none"

\* Every order is placed and every job is done
Quiet == /\ AllClosed
         /\ \A n \in Nodes : run[n].pc = "idle" /\ \A r \in Rows(n) : r.uJobStatus = "DONEOK"

\* When the queue has worked off every order, whatever their overlap and
\* wherever firewalls were started meanwhile, tIP shows a final status and the
\* chain of every node is what that status says.
QuietAgreement ==
    Quiet /\ doubt = {} =>
        uFWStatus \in DOMAIN Verdict /\ \A n \in Nodes : chain[n] = Verdict[uFWStatus]

\* The final status of an order that has a master is published by a handler
\* only after the job of every node has changed its chain and is done
\* (uAllJobsDone), however the nodes' runners interleave.
PublishedByLast ==
    [][\A n \in Nodes :
        Publish(n) /\ uFWStatus' # uFWStatus /\ ~Cur(n).alone /\ doubt = {} =>
            \A k \in Nodes : \E r \in Rows(k) : r.order = Cur(n).order /\ r.uJobStatus = "DONEOK"]_vars

\* Some job is in error or cancelled, or a runner dead
Stuck == \E n \in Nodes : \/ run[n].pc = "dead"
                          \/ \E r \in Rows(n) : r.uJobStatus \in {"ERROR", "CANCELED"}

\* An address in a waiting status has an order with that status that somebody
\* still works on, unless a job of it failed: nobody waits for nothing, though
\* the orders of several sessions overlap and the last job of a group may
\* find a newer order's status to overwrite.
WaitIsForAnOrder ==
    uFWStatus \in Waiting /\ doubt = {} /\ ~Stuck =>
        \E r \in UNION {Rows(n) : n \in Nodes} :
            r.cJobName \in GroupJobs /\ Awaits[r.cJobName] = uFWStatus /\ Open(r.order)

\* A waiting status ends: of two nodes that finish a group at the same moment
\* at least one finds no unfinished job, for each is marked done before it looks.
WaitingEnds ==
    (uFWStatus \in Waiting /\ AllClosed) ~> (uFWStatus \notin Waiting \/ Stuck \/ doubt # {})

=============================================================================
