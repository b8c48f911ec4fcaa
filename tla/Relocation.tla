----------------------------- MODULE Relocation -----------------------------
(***************************************************************************)
(* Changes of a container that keep it a container: another node, another  *)
(* data center, another address, another name, two addresses exchanged.    *)
(*                                                                         *)
(* A page compares the form with the record, then updates the records of   *)
(* container and addresses and inserts one to three jobs, which may be for *)
(* two nodes.  No job names another: ChangeIPContainer and                 *)
(* ChangeHostnameContainer ask vzlist whether the container is on their    *)
(* node and tJob whether it has other jobs, and go back to waiting if not  *)
(* or so.  MigrateContainer asks nobody, SwapIPContainer only vzlist.      *)
(***************************************************************************)
EXTENDS Naturals, FiniteSets

CONSTANTS
    Containers, Nodes, Addresses, Sessions,
    Datacenter,     \* the data center of each node and address
    Home,           \* the node of each container in the beginning
    Given,          \* its address
    Clones,         \* those with a uSource
    MaxEvent        \* bound: pages asked for, status corrections, failures

Settled == {"ACTIVE", "STOPPED"}
Awaiting == {"AWAITMIG", "AWAITIP", "AWAITHOST"}
JobNames == {"Migrate", "ChangeIP", "ChangeHostname", "SwapIP"}
Operations == {"migration", "remote", "hostname", "ip", "swap"}

ASSUME RelocationAssumption ==
    /\ DOMAIN Datacenter = Nodes \cup Addresses
    /\ Home \in [Containers -> Nodes] /\ Given \in [Containers -> Addresses]
    /\ \A c, d \in Containers : Given[c] = Given[d] => c = d
    /\ \A c \in Containers : Datacenter[Home[c]] = Datacenter[Given[c]]
    /\ Clones \subseteq Containers /\ MaxEvent \in Nat

VARIABLES
    tContainer,     \* uStatus, uNode (and with it uDatacenter) and uIPv4 of the records
    available,      \* tIP.uAvailable=1
    place, ips,     \* the node a container is on, and the addresses it has there
    tJob,           \* the waiting and running rows
    page,           \* what each session has checked and not yet done
    run,            \* the invocation and the handler of each node
    events,
    doubt           \* history: what has happened to a container that nothing guards against

vars == <<tContainer, available, place, ips, tJob, page, run, events, doubt>>

NoPage == [op |-> "none"]
Pages == {NoPage} \cup
    [op : Operations, c : Containers, node : Nodes, uIPv4 : Addresses, uStatus : Settled,
     target : Nodes, ip : Addresses, with : Containers, number : 1 .. MaxEvent]

Rows == [uJob : Nat, name : JobNames, c : Containers, uNode : Nodes, uJobStatus : {"WAITING", "RUNNING"},
         target : Nodes, prev : Settled \cup Awaiting,
         with : Containers, old : Addresses, old2 : Addresses, release : BOOLEAN]

Points == {"idle", "loop", "check", "others", "moving", "read", "ipadd", "ipdel",
           "release", "name", "swapread", "swapdel", "swapdel2", "swapadd", "swapadd2",
           "status", "node", "done", "dead"}
Runners == [pc : Points, rows : SUBSET Nat, cur : SUBSET Rows, new : SUBSET Addresses,
            new2 : SUBSET Addresses]
IdleRun == [pc |-> "idle", rows |-> {}, cur |-> {}, new |-> {}, new2 |-> {}]

\* shared: an address taken that is no longer available; swap: addresses exchanged
\* across nodes; twice: two jobs that wait for each other; stray: a job for a
\* node the container has left; stale: the record is no longer the one the page
\* compared; status: a name's job that is to set an awaiting status; failed: a
\* job in error, or its handler gone
Doubts == {"shared", "swap", "twice", "stray", "stale", "status", "failed"}

Init ==
    /\ tContainer \in [Containers -> [uStatus : Settled, uNode : Nodes, uIPv4 : Addresses]]
    /\ \A c \in Containers : tContainer[c].uNode = Home[c] /\ tContainer[c].uIPv4 = Given[c]
    /\ available = Addresses \ {Given[c] : c \in Containers}
    /\ place = Home
    /\ ips = [c \in Containers |-> {Given[c]}]
    /\ tJob = {}
    /\ page = [s \in Sessions |-> NoPage]
    /\ run = [n \in Nodes |-> IdleRun]
    /\ events = 0
    /\ doubt = [c \in Containers |-> {}]

Count == events < MaxEvent /\ events' = events + 1

(******************************** The pages ********************************)

Node(c) == tContainer[c].uNode
Field(c, f, x) == [tContainer EXCEPT ![c][f] = x]

\* The checks of a page: the form, whose date must match, is the record.  ip is
\* an available address, or that of the container to exchange with
Allowed(op, c, t, ip, d) ==
    LET here == Datacenter[Node(c)] IN
    /\ op \in {"migration", "remote"} => t # Node(c)
    /\ op = "migration" => Datacenter[t] = here
    /\ op = "remote" => Datacenter[t] # here /\ Datacenter[ip] = Datacenter[t]
    /\ op \in {"ip", "swap"} => Datacenter[ip] = here
    /\ op \in {"remote", "ip"} => ip \in available
    /\ op = "swap" => d # c /\ ip = tContainer[d].uIPv4
    \* what the operation does not ask for
    /\ op \notin {"migration", "remote"} => t = Node(c)
    /\ op \in {"migration", "hostname"} => ip = tContainer[c].uIPv4
    /\ op # "swap" => d = c

Ready(c) == tContainer[c].uStatus \in Settled

Confirm(s) ==
    /\ page[s] = NoPage /\ Count
    /\ \E c \in Containers :
        /\ Ready(c)
        /\ \E op \in Operations, t \in Nodes, ip \in Addresses, d \in Containers :
            /\ Allowed(op, c, t, ip, d)
            /\ page' = [page EXCEPT ![s] =
                    [op |-> op, c |-> c, node |-> Node(c), uIPv4 |-> tContainer[c].uIPv4,
                     uStatus |-> tContainer[c].uStatus, target |-> t, ip |-> ip, with |-> d,
                     number |-> events']]
    /\ UNCHANGED <<tContainer, available, place, ips, tJob, run, doubt>>

\* INSERT: the k-th row of session s
Row(s, k, name, c, n) ==
    [uJob |-> 3 * page[s].number + k, name |-> name, c |-> c, uNode |-> n, uJobStatus |-> "WAITING",
     target |-> page[s].target, prev |-> page[s].uStatus, with |-> page[s].with,
     old |-> page[s].uIPv4, old2 |-> page[s].uIPv4, release |-> TRUE]

Of(c, row) == c = row.c \/ (row.name = "SwapIP" /\ row.with = c)
RowsOf(c) == {row \in tJob : Of(c, row)}

Waits == {"ChangeIP", "ChangeHostname"}

Twice(c, new) == \E row \in new, other \in tJob :
    row.c = c /\ row.name \in Waits /\ other.c = c /\ other.name = row.name
Stray(c, new) == \E row \in new :
    /\ Of(c, row) /\ place[c] # row.uNode
    /\ \A other \in new : other.name = "Migrate" => other.target # row.uNode

\* What nothing guards against in the rows new of session s, seen from c
Wrong(s, c, new) ==
    (IF Twice(c, new) THEN {"twice"} ELSE {}) \cup (IF Stray(c, new) THEN {"stray"} ELSE {})
    \cup (IF c = page[s].c /\ tContainer[c] # [uStatus |-> page[s].uStatus, uNode |-> page[s].node,
                                               uIPv4 |-> page[s].uIPv4]
          THEN {"stale"} ELSE {})
    \cup (IF c = page[s].c /\ page[s].op \in {"remote", "ip"} /\ page[s].ip \notin available
          THEN {"shared"} ELSE {})

\* The page ends with the records rec and the rows new; whys are further doubts
Done(s, rec, new, x, whys) ==
    /\ tContainer' = rec
    /\ tJob' = tJob \cup new
    /\ page' = [page EXCEPT ![s] = NoPage]
    /\ doubt' = [c \in Containers |->
                    doubt[c] \cup Wrong(s, c, new) \cup (IF c \in x THEN whys ELSE {})]
    /\ UNCHANGED <<place, ips, run, events>>

MigrateContainer(s) ==
    LET p == page[s] IN
    /\ p.op = "migration"
    /\ Done(s, Field(p.c, "uStatus", "AWAITMIG"), {Row(s, 0, "Migrate", p.c, p.node)}, {}, {})
    /\ UNCHANGED available

\* "Note that these jobs are for new node".  The status that the job of a
\* clone's name gets is already the awaiting one
RemoteMigration(s) ==
    LET p == page[s]
        isClone == p.c \in Clones
    IN
    /\ p.op = "remote"
    /\ Done(s, [tContainer EXCEPT ![p.c].uStatus = "AWAITMIG", ![p.c].uIPv4 = p.ip],
            {Row(s, 0, "Migrate", p.c, p.node), Row(s, 1, "ChangeIP", p.c, p.target)}
                \cup (IF isClone
                      THEN {[Row(s, 2, "ChangeHostname", p.c, p.target) EXCEPT !.prev = "AWAITMIG"]}
                      ELSE {}),
            IF isClone THEN {p.c} ELSE {}, {"status"})
    /\ available' = available \ {p.ip}

HostnameChange(s) ==
    LET p == page[s] IN
    /\ p.op = "hostname"
    /\ Done(s, Field(p.c, "uStatus", "AWAITHOST"), {Row(s, 0, "ChangeHostname", p.c, p.node)}, {}, {})
    /\ UNCHANGED available

\* The page of the container, and the group operation for stopped ones that
\* does not release the old address.  That is read again
IPChange(s) ==
    LET p == page[s] IN
    /\ p.op = "ip"
    /\ \E release \in {TRUE, p.uStatus # "STOPPED"} :
            Done(s, [tContainer EXCEPT ![p.c].uStatus = "AWAITIP", ![p.c].uIPv4 = p.ip],
                 {[Row(s, 0, "ChangeIP", p.c, p.node) EXCEPT !.old = tContainer[p.c].uIPv4,
                                                             !.release = release]}, {}, {})
    /\ available' = available \ {p.ip}

\* One job for a node, or one for each of two; nobody looks at the status of
\* the other container, which gets the address the form had
Swap(s) ==
    LET p == page[s]
        d == p.with
        rec == [tContainer EXCEPT ![p.c].uIPv4 = p.ip, ![p.c].uStatus = "AWAITIP",
                                  ![d].uIPv4 = p.uIPv4, ![d].uStatus = "AWAITIP"]
        one == {[Row(s, 0, "SwapIP", p.c, p.node) EXCEPT !.old = tContainer[p.c].uIPv4,
                                                         !.old2 = tContainer[d].uIPv4]}
        two == {[Row(s, 0, "ChangeIP", p.c, p.node) EXCEPT !.old = tContainer[p.c].uIPv4],
                [Row(s, 1, "ChangeIP", d, Node(d)) EXCEPT !.old = tContainer[d].uIPv4]}
    IN
    /\ p.op = "swap"
    /\ Done(s, rec, IF Node(d) = p.node THEN one ELSE two, {p.c, d}, {"swap"})
    /\ UNCHANGED available

\* Status Active and Status Stopped, of a group, whatever jobs there are; the
\* second is not for a migration
StatusChange(c) ==
    /\ tContainer[c].uStatus \in Awaiting /\ Count
    /\ \E x \in Settled :
        /\ x = "STOPPED" => tContainer[c].uStatus # "AWAITMIG"
        /\ tContainer' = Field(c, "uStatus", x)
    /\ UNCHANGED <<available, place, ips, tJob, page, run, doubt>>

(************************* The handlers of a node **************************)

Cur(n) == CHOOSE row \in run[n].cur : TRUE
At(n, pc, name) == run[n].pc = pc /\ Cur(n).name = name
Goes(n, pc) == run' = [run EXCEPT ![n].pc = pc]

Waiting(n) == {row \in tJob : row.uNode = n /\ row.uJobStatus = "WAITING"}

\* The invocation takes the waiting rows of its node and works them off
Select(n) ==
    /\ run[n].pc = "idle" /\ Waiting(n) # {}
    /\ run' = [run EXCEPT ![n].pc = "loop", ![n].rows = {row.uJob : row \in Waiting(n)}]
    /\ UNCHANGED <<tContainer, available, place, ips, tJob, page, events, doubt>>

FirstPoint(name) == IF name = "Migrate" THEN "moving" ELSE "check"

Begin(n) ==
    /\ run[n].pc = "loop"
    /\ \E row \in tJob :
        LET running == [row EXCEPT !.uJobStatus = "RUNNING"] IN
        /\ row.uJob \in run[n].rows /\ \A k \in run[n].rows : row.uJob <= k
        /\ tJob' = (tJob \ {row}) \cup {running}
        /\ run' = [run EXCEPT ![n] = [IdleRun EXCEPT !.pc = FirstPoint(row.name), !.cur = {running},
                                                     !.rows = run[n].rows \ {row.uJob}]]
    /\ UNCHANGED <<tContainer, available, place, ips, page, events, doubt>>

\* The job ends; in error it leaves things as they are
Ends(n, rows) ==
    /\ tJob' = rows
    /\ run' = [run EXCEPT ![n] = [IdleRun EXCEPT !.rows = run[n].rows,
                                    !.pc = IF run[n].rows = {} THEN "idle" ELSE "loop"]]

WaitAgain(n) == Ends(n, (tJob \ {Cur(n)}) \cup {[Cur(n) EXCEPT !.uJobStatus = "WAITING"]})

\* A container shows up in vzlist of the target while it is being moved
Coming(n, c) == \E m \in Nodes : At(m, "moving", "Migrate") /\ Cur(m).c = c /\ Cur(m).target = n
Vzlist(n, c) == (IF place[c] = n THEN {TRUE} ELSE {FALSE})
                    \cup (IF Coming(n, c) THEN BOOLEAN ELSE {})

\* Check 1
Check(n) ==
    /\ run[n].pc = "check"
    /\ \/ TRUE \in Vzlist(n, Cur(n).c)
          /\ Goes(n, IF Cur(n).name = "SwapIP" THEN "swapread" ELSE "others")
          /\ UNCHANGED tJob
       \/ FALSE \in Vzlist(n, Cur(n).c) /\ WaitAgain(n)
    /\ UNCHANGED <<tContainer, available, place, ips, page, events, doubt>>

\* Mutant: only waiting jobs are waited for
OthersWaiting(n) == {row \in tJob : row.c = Cur(n).c /\ row # Cur(n) /\ row.uJobStatus = "WAITING"
                                    /\ row.name \notin Waits \ {Cur(n).name}}

\* Mutant: the two that wait, wait for each other
OthersAll(n) == {row \in tJob : row.c = Cur(n).c /\ row # Cur(n)}

\* The waiting and running jobs of the container, but for the other one's that
\* waits like this
Others(n) == {row \in tJob : row.c = Cur(n).c /\ row # Cur(n)
                             /\ row.name \notin Waits \ {Cur(n).name}}

\* Check 2
CheckOthers(n) ==
    /\ run[n].pc = "others"
    /\ IF Others(n) = {}
       THEN Goes(n, IF Cur(n).name = "ChangeIP" THEN "read" ELSE "name") /\ UNCHANGED tJob
       ELSE WaitAgain(n)
    /\ UNCHANGED <<tContainer, available, place, ips, page, events, doubt>>

Steps(n, from, name, to) == At(n, from, name) /\ Goes(n, to)
Records == <<tContainer, available>>
Rest == <<tJob, page, events, doubt>>

\* vzctl finds the container of the job
Here(n) == TRUE \in Vzlist(n, Cur(n).c)

\* The address of the record, and the container is stopped
Read(n) ==
    /\ At(n, "read", "ChangeIP") /\ Here(n)
    /\ run' = [run EXCEPT ![n].pc = "ipadd", ![n].new = {tContainer[Cur(n).c].uIPv4}]
    /\ UNCHANGED <<Records, place, ips, Rest>>

IpAdd(n) ==
    /\ Steps(n, "ipadd", "ChangeIP", "ipdel") /\ Here(n)
    /\ ips' = [ips EXCEPT ![Cur(n).c] = @ \cup run[n].new]
    /\ UNCHANGED <<Records, place, Rest>>

IpDel(n) ==
    /\ Steps(n, "ipdel", "ChangeIP", "release") /\ Here(n)
    /\ ips' = [ips EXCEPT ![Cur(n).c] = @ \ {Cur(n).old}]
    /\ UNCHANGED <<Records, place, Rest>>

\* Mutant: the address of the record is released
ReleaseNew(n) ==
    /\ Steps(n, "release", "ChangeIP", "status")
    /\ available' = IF Cur(n).release THEN available \cup run[n].new ELSE available
    /\ UNCHANGED <<tContainer, place, ips, Rest>>

Release(n) ==
    /\ Steps(n, "release", "ChangeIP", "status")
    /\ available' = IF Cur(n).release THEN available \cup {Cur(n).old} ELSE available
    /\ UNCHANGED <<tContainer, place, ips, Rest>>

Name(n) ==
    /\ Steps(n, "name", "ChangeHostname", "status") /\ Here(n)
    /\ UNCHANGED <<Records, place, ips, Rest>>

\* vzmigrate: the container is on the other node, with the addresses it had
Move(n) ==
    LET job == Cur(n) IN
    /\ Steps(n, "moving", "Migrate", "status")
    /\ place[job.c] = n
    /\ place' = [place EXCEPT ![job.c] = job.target]
    /\ doubt' = [doubt EXCEPT ![job.c] = @ \cup
            (IF \E row \in RowsOf(job.c) : row # job /\ row.uNode # job.target THEN {"stray"} ELSE {})]
    /\ UNCHANGED <<Records, ips, tJob, page, events>>

\* The addresses of the two are taken from them and given to them one by one
SwapRead(n) ==
    LET job == Cur(n) IN
    /\ At(n, "swapread", "SwapIP")
    /\ run' = [run EXCEPT ![n].pc = "swapdel", ![n].new = {tContainer[job.c].uIPv4},
                          ![n].new2 = {tContainer[job.with].uIPv4}]
    /\ UNCHANGED <<Records, place, ips, Rest>>

SwapStep(n) ==
    LET job == Cur(n)
        first == run[n].pc \in {"swapdel", "swapadd"}
        c == IF first THEN job.c ELSE job.with
        next == [swapdel |-> "swapdel2", swapdel2 |-> "swapadd", swapadd |-> "swapadd2",
                 swapadd2 |-> "status"]
    IN
    /\ run[n].pc \in DOMAIN next
    /\ place[c] = n
    /\ Goes(n, next[run[n].pc])
    /\ ips' = [ips EXCEPT ![c] =
            CASE run[n].pc = "swapdel" -> @ \ {job.old}
              [] run[n].pc = "swapdel2" -> @ \ {job.old2}
              [] run[n].pc = "swapadd" -> @ \cup run[n].new
              [] run[n].pc = "swapadd2" -> @ \cup run[n].new2]
    /\ UNCHANGED <<Records, place, Rest>>

\* Mutant: an exchange sets the status of one of the two
SetStatusOfOne(n) ==
    LET job == Cur(n)
        status == IF job.name \in {"ChangeIP", "SwapIP"} THEN "ACTIVE" ELSE job.prev
    IN
    /\ run[n].pc = "status"
    /\ tContainer' = Field(job.c, "uStatus", status)
    /\ Goes(n, IF job.name = "Migrate" THEN "node" ELSE "done")
    /\ UNCHANGED <<available, place, ips, Rest>>

\* SetContainerStatus: an address's job starts the container, the others give
\* it the status it had
SetStatus(n) ==
    LET job == Cur(n)
        set == IF job.name = "SwapIP" THEN {job.c, job.with} ELSE {job.c}
        status == IF job.name \in {"ChangeIP", "SwapIP"} THEN "ACTIVE" ELSE job.prev
    IN
    /\ run[n].pc = "status"
    /\ tContainer' = [c \in Containers |->
            IF c \in set THEN [tContainer[c] EXCEPT !.uStatus = status] ELSE tContainer[c]]
    /\ Goes(n, IF job.name = "Migrate" THEN "node" ELSE "done")
    /\ UNCHANGED <<available, place, ips, Rest>>

\* SetContainerNode, SetContainerDatacenter
SetNode(n) ==
    /\ Steps(n, "node", "Migrate", "done")
    /\ tContainer' = Field(Cur(n).c, "uNode", Cur(n).target)
    /\ UNCHANGED <<available, place, ips, Rest>>

JobDone(n) ==
    /\ run[n].pc = "done"
    /\ Ends(n, tJob \ {Cur(n)})
    /\ UNCHANGED <<Records, place, ips, page, events, doubt>>

Failed(n) == doubt' = [c \in Containers |->
                        IF Of(c, Cur(n)) THEN doubt[c] \cup {"failed"} ELSE doubt[c]]

CanFail == {"moving", "read", "ipadd", "ipdel", "release", "name",
            "swapdel", "swapdel2", "swapadd", "swapadd2"}

\* A command fails: the job is in error, nothing is taken back
Fail(n) ==
    /\ run[n].pc \in CanFail \/ At(n, "status", "ChangeIP")
    /\ Count
    /\ Ends(n, tJob \ {Cur(n)}) /\ Failed(n)
    /\ UNCHANGED <<Records, place, ips, page>>

\* vzmigrate and vzctl find no container here
Gone(n) ==
    /\ \/ run[n].pc \in {"moving", "read", "ipadd", "ipdel", "name", "swapdel", "swapadd"}
          /\ place[Cur(n).c] # n
       \/ run[n].pc \in {"swapdel2", "swapadd2"} /\ place[Cur(n).with] # n
    /\ Ends(n, tJob \ {Cur(n)}) /\ Failed(n)
    /\ UNCHANGED <<Records, place, ips, page, events>>

\* The invocation is killed; its row stays in running state, and its lock is
\* left to the later ones
Die(n) ==
    /\ run[n].cur # {} /\ run[n].pc # "dead" /\ Count
    /\ Goes(n, "dead") /\ Failed(n)
    /\ UNCHANGED <<Records, place, ips, tJob, page>>

-----------------------------------------------------------------------------
Acts(s) == MigrateContainer(s) \/ RemoteMigration(s) \/ HostnameChange(s) \/ IPChange(s) \/ Swap(s)

Proceed(n) == \/ Select(n) \/ Begin(n) \/ Check(n) \/ CheckOthers(n)
              \/ Read(n) \/ IpAdd(n) \/ IpDel(n) \/ Release(n) \/ Name(n) \/ Move(n)
              \/ SwapRead(n) \/ SwapStep(n) \/ SetStatus(n) \/ SetNode(n) \/ JobDone(n) \/ Gone(n)

Next ==
    \/ \E s \in Sessions : Confirm(s) \/ Acts(s)
    \/ \E c \in Containers : StatusChange(c)
    \/ \E n \in Nodes : Proceed(n) \/ Fail(n) \/ Die(n)

Spec == Init /\ [][Next]_vars

\* A page that has checked goes on; cron starts an invocation on each node, and
\* commands end
FairSpec == /\ Spec
            /\ \A s \in Sessions : WF_vars(Acts(s))
            /\ \A n \in Nodes : WF_vars(Proceed(n))

-----------------------------------------------------------------------------
(******************************* Properties ********************************)

\* Every variable has the shape of its table or process state.
TypeOK ==
    /\ tContainer \in [Containers -> [uStatus : Settled \cup Awaiting, uNode : Nodes, uIPv4 : Addresses]]
    /\ available \subseteq Addresses
    /\ place \in [Containers -> Nodes] /\ ips \in [Containers -> SUBSET Addresses]
    /\ tJob \subseteq Rows
    /\ page \in [Sessions -> Pages]
    /\ run \in [Nodes -> Runners]
    /\ events \in 0 .. MaxEvent
    /\ doubt \in [Containers -> SUBSET Doubts]

Moving(c) == \E n \in Nodes : At(n, "moving", "Migrate") /\ Cur(n).c = c
\* The node of the handler that changes the addresses of c
Changes(n, c) == run[n].cur # {} /\ Of(c, Cur(n)) /\ run'[n] # run[n]

\* "This job must run after migration": the addresses of a container are changed
\* by the node it is on, never while it is being moved, and it gets one of that
\* node's data center; unless addresses were exchanged across nodes, or jobs of
\* several pages overlapped: two that wait for each other, or one for a node the
\* container has left, which may take a later migration back for its own.
AfterMove == [][\A c \in Containers :
    ips'[c] # ips[c] /\ doubt[c] \cap {"swap", "stale", "twice", "stray"} = {} =>
        /\ Changes(place[c], c) /\ ~Moving(c)
        /\ \A a \in ips'[c] \ ips[c] : Datacenter[a] = Datacenter[place[c]]]_vars

\* No page has acted on what was no longer so, on a container with the same job,
\* or on two at once: the address it releases in the end may then be another's.
Orderly == \A c \in Containers : doubt[c] \cap {"shared", "swap", "stale", "twice"} = {}

\* An address that is available is on no container and in no record, and no two
\* containers have one address: though three programs write the three places.
AddressesApart == Orderly => \A c \in Containers :
    /\ available \cap (ips[c] \cup {tContainer[c].uIPv4}) = {}
    /\ \A d \in Containers \ {c} : ips[c] \cap ips[d] = {}

\* A job whose handler has set the status of its containers
Over(row) == row.uJobStatus = "RUNNING" /\ run[row.uNode].pc \in {"node", "done"}

\* A container in an awaiting status has a job that is still to set its status,
\* however pages and handlers overlap: a page gives one to each container whose
\* status it sets, and no job ends before it has resolved all that wait for it;
\* unless one failed, or it is a name's, which sets an awaiting status.
AwaitsAJob == \A c \in Containers :
    tContainer[c].uStatus \in Awaiting /\ doubt[c] \cap {"failed", "status"} = {} =>
        \E row \in RowsOf(c) : ~Over(row)

Dead == \E n \in Nodes : run[n].pc = "dead"
AtRest(c) == tContainer[c].uStatus \in Settled /\ RowsOf(c) = {}

\* A change comes to its end: the jobs of a page, for two nodes perhaps, each of
\* which waits for the others, leave no container in an awaiting status; unless
\* one failed, or one of the cases met that nothing guards against.
ChangesEnd == \A c \in Containers : RowsOf(c) # {} ~>
    AtRest(c) \/ doubt[c] \cap {"twice", "stray", "status", "failed"} # {} \/ Dead
=============================================================================
