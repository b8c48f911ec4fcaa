---------------------------- MODULE LoginSession ----------------------------
(***************************************************************************)
(* The firewall of the nodes opens for an address while somebody is logged *)
(* in from it.  A login (main.c) stores a session of the user under the    *)
(* address and inserts a job per node; a logout, and a login that is       *)
(* refused, removes the session and, when the address has no other,        *)
(* inserts the reverse jobs.  Each invocation of the node's program first  *)
(* sweeps (jobqueue.c, AlwaysRunTheseJobs, outside the queue's lock):      *)
(* sessions whose one time password has expired, and rules of addresses    *)
(* without a session.  Users behind one NAT share an address, and so its   *)
(* rules.                                                                  *)
(***************************************************************************)
EXTENDS Integers, FiniteSets, FiniteSetsExt

CONSTANTS
    Users,     \* the clients, and 0: unknown users and cookies with an expired password
    OTPUsers,  \* the users with cOTPSecret, the ones that get sessions and login jobs
    SSHUsers,  \* the users with cEnableSSHOnLogin=Yes
    Hosts,     \* the addresses users come from
    Nodes,     \* the nodes with cCreateLoginJobs=Yes, at least one
    MaxEvent   \* bound: logins, logouts, refusals, renewals and expiries of
               \* passwords, failing commands, times of high load

ASSUME LoginAssumption ==
    OTPUsers \subseteq Users /\ SSHUsers \subseteq Users /\ IsFiniteSet(Users) /\ IsFiniteSet(Nodes) /\ Nodes # {} /\ MaxEvent \in Nat

VARIABLES
    tProperty,  \* the sessions of each address
    uOTPExpire, \* of each user in tAuthorize: 0, still to come, or past
    cIPMask,    \* of each user in tAuthorize: the address of the last login
    uFWStatus,  \* of each address in tIP
    tJob,       \* the waiting and running rows of each node
    rules,      \* the accepting rules of each node, in UnxsVZ-HTTP and UnxsVZ-SSH
    page,       \* the login or logout each user is at
    run,        \* the runner of each node
    sweep,      \* the sweep of each node
    events,     \* the events so far; they number the sessions
    doubt       \* history: what has happened that the code does not guard against

vars == <<tProperty, uOTPExpire, cIPMask, uFWStatus, tJob, rules, page, run, sweep, events, doubt>>

Chains == {"HTTP", "SSH"}
Rules == Hosts \X Chains
Numbers == 0 .. MaxEvent
Session == [user : Users, host : Hosts, uProperty : Numbers]
NoHost == "none"

JobNames == {"Login", "Logout"}

\* LoginFirewallJob or LoginFirewallJobHTTP, and their reverse, by the user
ChainsOf(u) == IF u \in SSHUsers THEN Chains ELSE {"HTTP"}

FWStatus == {"none", "WAITINGACCESSLOGIN", "ACCESS", "REMOVED"}

JobRow == [user : Users, host : Hosts, name : JobNames, uJob : 1 .. MaxEvent + 1,
           uJobStatus : {"WAITING", "RUNNING"}]

Pages == [at : {"none", "session", "login", "check", "logout"}, host : Hosts \cup {NoHost},
          left : SUBSET Nodes, number : Numbers, out : BOOLEAN]
NoPage == [at |-> "none", host |-> NoHost, left |-> {}, number |-> 0, out |-> FALSE]

\* A snapshot holds copies of the rows
Runners == [pc : {"idle", "loop", "rules", "status"}, rows : SUBSET JobRow, cur : SUBSET JobRow]
IdleRun == [pc |-> "idle", rows |-> {}, cur |-> {}]

\* expired .. delete: the expired sessions; unlist, listed: the rules of one
\* chain after the other
Sweeps == [pc : {"idle", "expired", "drop", "status", "delete", "unlist", "listed"},
           rows : SUBSET Session, cur : SUBSET Session, chain : Chains,
           hosts : SUBSET Hosts, host : Hosts \cup {NoHost}]
IdleSweep == [pc |-> "idle", rows |-> {}, cur |-> {}, chain |-> "HTTP", hosts |-> {},
              host |-> NoHost]

\* crossed: a login between a logout's last look and its jobs; swept: a login or
\* a renewal in the middle of a sweep that has the old state, or a sweep that
\* counts another's session as the expired one, deleted by another node; overtaken: a
\* login's job run before an earlier logout's; kept: a login that adds no job, its
\* earlier one still waiting, though a logout's will run after that; failed: a
\* failing command; late: a sweep between a job's commands and its status
Doubts == {"crossed", "swept", "overtaken", "kept", "failed", "late"}

-----------------------------------------------------------------------------
Init ==
    /\ tProperty = {}
    /\ uOTPExpire = [u \in Users |-> "0"]
    /\ cIPMask = [u \in Users |-> NoHost]
    /\ uFWStatus = [a \in Hosts |-> "none"]
    /\ tJob = [n \in Nodes |-> {}]
    /\ rules = [n \in Nodes |-> {}]
    /\ page = [u \in Users |-> NoPage]
    /\ run = [n \in Nodes |-> IdleRun]
    /\ sweep = [n \in Nodes |-> IdleSweep]
    /\ events = 0
    /\ doubt = {}

Count == events < MaxEvent /\ events' = events + 1

Note(whys) == doubt' = doubt \cup whys

SessionsAt(a) == {s \in tProperty : s.host = a}

(******************************** The pages ********************************)

\* A login: with a valid one time password if the last one is past or 0, which
\* renews it; one still to come stays as it is. CreateLoginSession first sets the
\* status of the address
Login(u, a) ==
    /\ u \in OTPUsers /\ page[u].at = "none" /\ Count
    /\ uOTPExpire' = IF uOTPExpire[u] = "future" THEN uOTPExpire
                     ELSE [uOTPExpire EXCEPT ![u] = "future"]
    /\ uFWStatus' = [uFWStatus EXCEPT ![a] = "WAITINGACCESSLOGIN"]
    /\ page' = [page EXCEPT ![u] = [at |-> "session", host |-> a, left |-> Nodes,
                                    number |-> events', out |-> FALSE]]
    /\ UNCHANGED <<tProperty, cIPMask, tJob, rules, run, sweep, doubt>>

\* A sweep has looked for sessions of the address and not acted yet, or has
\* the very session in its list
Swept(u, a) == \E n \in Nodes :
    \/ sweep[n].pc \in {"drop", "status", "delete"} /\ \E s \in sweep[n].cur : s.host = a
    \/ sweep[n].pc \in {"unlist", "listed"} /\ sweep[n].host = a
    \/ \E s \in tProperty \cap sweep[n].rows : s.user = u /\ s.host = a

\* NewNoDupsIPProp
CreateLoginSession(u) ==
    LET a == page[u].host IN
    /\ page[u].at = "session"
    /\ page' = [page EXCEPT ![u].at = "login"]
    /\ tProperty' = IF \E s \in SessionsAt(a) : s.user = u THEN tProperty
                    ELSE tProperty \cup {[user |-> u, host |-> a, uProperty |-> page[u].number]}
    /\ Note({d \in {"crossed", "swept"} :
            \/ d = "crossed" /\ \E v \in Users : page[v].at = "logout" /\ page[v].host = a
            \/ d = "swept" /\ Swept(u, a)})
    /\ UNCHANGED <<uOTPExpire, cIPMask, uFWStatus, tJob, rules, run, sweep, events>>

\* AUTO_INCREMENT, of the rows that still matter
NewJob(n) == Max({0} \cup {r.uJob : r \in tJob[n] \cup run[n].rows \cup run[n].cur}) + 1

\* Mutant: a waiting job of either kind keeps the new one away
ExchangeSkips(u, n, name, drop) ==
    LET mine(r) == r.user = u /\ r.host = page[u].host /\ r.uJobStatus = "WAITING"
        kept == {r \in tJob[n] : ~(mine(r) /\ r.name \in drop)}
    IN tJob' = [tJob EXCEPT ![n] =
            IF \E r \in tJob[n] : mine(r) THEN kept
            ELSE kept \cup {[user |-> u, host |-> page[u].host, name |-> name,
                             uJob |-> NewJob(n), uJobStatus |-> "WAITING"]}]

\* For one node: DELETE the user's waiting jobs of the names "drop" and INSERT
\* one of this name if none is waiting
Exchange(u, n, name, drop) ==
    LET mine(r) == r.user = u /\ r.host = page[u].host /\ r.uJobStatus = "WAITING"
        kept == {r \in tJob[n] : ~(mine(r) /\ r.name \in drop)}
    IN tJob' = [tJob EXCEPT ![n] =
            IF \E r \in kept : mine(r) /\ r.name = name THEN kept
            ELSE kept \cup {[user |-> u, host |-> page[u].host, name |-> name,
                             uJob |-> NewJob(n), uJobStatus |-> "WAITING"]}]

\* The nodes come in the order of a SELECT
NextNode(u, n) == n = CHOOSE m \in page[u].left : TRUE

\* "do not add again", with the reverse job of the address behind the waiting one
Kept(u, n) == \E r \in tJob[n], q \in tJob[n] \cup run[n].rows \cup run[n].cur :
    /\ r.user = u /\ r.host = page[u].host /\ r.name = "Login" /\ r.uJobStatus = "WAITING"
    /\ q.host = r.host /\ q.name = "Logout" /\ r.uJob < q.uJob

\* After the last node the address becomes the user's
LoginFirewallJob(u, n) ==
    /\ page[u].at = "login" /\ page[u].left # {} /\ NextNode(u, n)
    /\ Exchange(u, n, "Login", {"Logout"})
    /\ IF page[u].left = {n}
       THEN page' = [page EXCEPT ![u] = NoPage] /\ cIPMask' = [cIPMask EXCEPT ![u] = page[u].host]
       ELSE page' = [page EXCEPT ![u].left = @ \ {n}] /\ cIPMask' = cIPMask
    /\ Note({d \in {"kept"} : Kept(u, n)})
    /\ UNCHANGED <<tProperty, uOTPExpire, uFWStatus, rules, run, sweep, events>>

\* RemoveLoginSession, of the address of the last login wherever the page comes
\* from; a cookie with an expired password is read before its user's row, and
\* is client 0
Leave(u, a, out) ==
    /\ page[u].at = "none" /\ Count
    /\ a = cIPMask[u] \/ cIPMask[u] = NoHost
    /\ tProperty' = {s \in tProperty : ~(s.user = u /\ s.host = a)}
    /\ page' = [page EXCEPT ![u] = [at |-> "check", host |-> a, left |-> Nodes,
                                    number |-> 0, out |-> out]]
    /\ UNCHANGED <<uOTPExpire, cIPMask, uFWStatus, tJob, rules, run, sweep, doubt>>

\* voidLogout, of a user the cookie lets in
Logout(u, a) == uOTPExpire[u] = "future" /\ Leave(u, a, TRUE)

\* A wrong password, or none for a one time password that is past or 0
LoginRefused(u, a) == Leave(u, a, FALSE)

\* Mutant: the password's end is cleared
LoggedOutEmpty(u) ==
    /\ cIPMask' = IF page[u].out THEN [cIPMask EXCEPT ![u] = NoHost] ELSE cIPMask
    /\ uOTPExpire' = IF page[u].out THEN [uOTPExpire EXCEPT ![u] = ""] ELSE uOTPExpire
    /\ page' = [page EXCEPT ![u] = NoPage]

\* voidLogout ends with cIPMask='', uOTPExpire=0; a refused login leaves both
LoggedOut(u) ==
    /\ cIPMask' = IF page[u].out THEN [cIPMask EXCEPT ![u] = NoHost] ELSE cIPMask
    /\ uOTPExpire' = IF page[u].out THEN [uOTPExpire EXCEPT ![u] = "0"] ELSE uOTPExpire
    /\ page' = [page EXCEPT ![u] = NoPage]

\* Mutant: nobody looks for the others
CheckSessionsNone(u) ==
    /\ page[u].at = "check"
    /\ page' = [page EXCEPT ![u].at = "logout"]
    /\ UNCHANGED <<tProperty, uOTPExpire, cIPMask, uFWStatus, tJob, rules, run, sweep, events, doubt>>

\* Somebody else is logged in from the same address: no jobs
CheckSessions(u) ==
    /\ page[u].at = "check"
    /\ IF SessionsAt(page[u].host) # {} THEN LoggedOut(u)
       ELSE page' = [page EXCEPT ![u].at = "logout"] /\ UNCHANGED <<cIPMask, uOTPExpire>>
    /\ UNCHANGED <<tProperty, uFWStatus, tJob, rules, run, sweep, events, doubt>>

\* The DELETE asks for the login's label with the logout's cJobName: no row has
\* both, and the waiting login jobs stay
LogoutFirewallJob(u, n) ==
    /\ page[u].at = "logout" /\ page[u].left # {} /\ NextNode(u, n)
    /\ Exchange(u, n, "Logout", {})
    /\ IF page[u].left = {n} THEN LoggedOut(u)
       ELSE page' = [page EXCEPT ![u].left = @ \ {n}] /\ UNCHANGED <<cIPMask, uOTPExpire>>
    /\ UNCHANGED <<tProperty, uFWStatus, rules, run, sweep, events, doubt>>

\* Time passes
Expire(u) ==
    /\ uOTPExpire[u] = "future" /\ page[u].at = "none" /\ Count
    /\ uOTPExpire' = [uOTPExpire EXCEPT ![u] = "past"]
    /\ UNCHANGED <<tProperty, cIPMask, uFWStatus, tJob, rules, page, run, sweep, doubt>>

\* A page with a cookie and a valid one time password: no session, no jobs
Renew(u) ==
    /\ u \in OTPUsers /\ uOTPExpire[u] # "future" /\ page[u].at = "none" /\ Count
    /\ uOTPExpire' = [uOTPExpire EXCEPT ![u] = "future"]
    /\ Note(IF \E n \in Nodes : \E s \in sweep[n].rows \cup sweep[n].cur : s.user = u
            THEN {"swept"} ELSE {})
    /\ UNCHANGED <<tProperty, cIPMask, uFWStatus, tJob, rules, page, run, sweep>>

(************************* The runner of a node ****************************)

Select(n) ==
    /\ run[n].pc = "idle" /\ tJob[n] # {}
    /\ run' = [run EXCEPT ![n].pc = "loop", ![n].rows = tJob[n]]
    /\ UNCHANGED <<tProperty, uOTPExpire, cIPMask, uFWStatus, tJob, rules, page, sweep, events, doubt>>

First(n, r) == r \in run[n].rows /\ \A q \in run[n].rows : r.uJob <= q.uJob

Running(r) == [r EXCEPT !.uJobStatus = "RUNNING"]

\* UPDATE tJob SET uJobStatus=2: of no row if the page has deleted it
Begin(n) ==
    /\ run[n].pc = "loop"
    /\ \E r \in run[n].rows :
        /\ First(n, r)
        /\ tJob' = [tJob EXCEPT ![n] = IF r \in @ THEN (@ \ {r}) \cup {Running(r)} ELSE @]
        /\ run' = [run EXCEPT ![n] = [pc |-> "rules", rows |-> @.rows \ {r}, cur |-> {r}]]
        /\ Note({d \in {"overtaken"} : r.name = "Login" /\ \E q \in tJob[n] :
                    q.name = "Logout" /\ q.host = r.host /\ q.uJob < r.uJob})
    /\ UNCHANGED <<tProperty, uOTPExpire, cIPMask, uFWStatus, rules, page, sweep, events>>

Cur(n) == CHOOSE r \in run[n].cur : TRUE

NextRow(n) == run' = [run EXCEPT ![n].cur = {},
                                 ![n].pc = IF run[n].rows = {} THEN "idle" ELSE "loop"]

\* Done or in error: the row is of no more interest
EndJob(n) == tJob' = [tJob EXCEPT ![n] = @ \ {Running(Cur(n))}]

\* Under high load a logout goes back to waiting, a login runs
Postpone(n) ==
    /\ run[n].pc = "rules" /\ Cur(n).name = "Logout" /\ Count
    /\ tJob' = [tJob EXCEPT ![n] = IF Running(Cur(n)) \in @
                                   THEN (@ \ {Running(Cur(n))}) \cup {Cur(n)} ELSE @]
    /\ NextRow(n)
    /\ UNCHANGED <<tProperty, uOTPExpire, cIPMask, uFWStatus, rules, page, sweep, doubt>>

\* The iptables commands of the four jobs
Iptables(n) ==
    LET its == {Cur(n).host} \X ChainsOf(Cur(n).user) IN
    /\ run[n].pc = "rules"
    /\ rules' = [rules EXCEPT ![n] = IF Cur(n).name = "Login" THEN @ \cup its ELSE @ \ its]
    /\ EndJob(n)
    /\ run' = [run EXCEPT ![n].pc = "status"]
    /\ UNCHANGED <<tProperty, uOTPExpire, cIPMask, uFWStatus, page, sweep, events, doubt>>

IptablesFails(n) ==
    /\ run[n].pc = "rules" /\ Count
    /\ EndJob(n)
    /\ NextRow(n)
    /\ Note({"failed"})
    /\ UNCHANGED <<tProperty, uOTPExpire, cIPMask, uFWStatus, rules, page, sweep>>

\* ConditionalAddIPAndFWStatus
SetStatus(n) ==
    /\ run[n].pc = "status"
    /\ Note({d \in {"late"} : Cur(n).name = "Login" /\ <<Cur(n).host, "HTTP">> \notin rules[n]})
    /\ uFWStatus' = [uFWStatus EXCEPT ![Cur(n).host] =
                        IF Cur(n).name = "Login" THEN "ACCESS" ELSE "REMOVED"]
    /\ NextRow(n)
    /\ UNCHANGED <<tProperty, uOTPExpire, cIPMask, tJob, rules, page, sweep, events>>

(************************** The sweep of a node ****************************)

Sweep(n, f) == sweep' = [sweep EXCEPT ![n] = f]
Swp(n) == sweep[n]

ListOf(n, c) == {a \in Hosts : <<a, c>> \in rules[n]}

Bare(hosts) == {a \in hosts : SessionsAt(a) = {}}

\* On to the next listed address. One with a session is left alone; the looks
\* that find one are no steps of their own. The list of a chain is read when
\* the one before it is done
List(n, chain, hosts) ==
    LET at(c, rest, a) == [IdleSweep EXCEPT !.pc = "unlist", !.chain = c, !.hosts = rest \ {a},
                                            !.host = a]
    IN \/ \E a \in Bare(hosts) : Sweep(n, at(chain, hosts, a))
       \/ /\ Bare(hosts) = {} /\ chain = "HTTP"
          /\ \E a \in Bare(ListOf(n, "SSH")) : Sweep(n, at("SSH", ListOf(n, "SSH"), a))
       \/ /\ Bare(hosts) = {}
          /\ chain = "SSH" \/ Bare(ListOf(n, "SSH")) = {}
          /\ Sweep(n, IdleSweep)

\* Mutant: the passwords that are 0 instead of those that are not
SelectExpiredZero(n) ==
    LET S == {s \in tProperty : uOTPExpire[s.user] = "0"} IN
    /\ Swp(n).pc = "idle"
    /\ IF S = {} THEN List(n, "HTTP", ListOf(n, "HTTP"))
       ELSE Sweep(n, [Swp(n) EXCEPT !.pc = "expired", !.rows = S])
    /\ UNCHANGED <<tProperty, uOTPExpire, cIPMask, uFWStatus, tJob, rules, page, run, events, doubt>>

\* SELECT of the sessions of users whose password has expired (and is not 0)
SelectExpired(n) ==
    LET S == {s \in tProperty : uOTPExpire[s.user] = "past"} IN
    /\ Swp(n).pc = "idle"
    /\ IF S = {} THEN List(n, "HTTP", ListOf(n, "HTTP"))
       ELSE Sweep(n, [Swp(n) EXCEPT !.pc = "expired", !.rows = S])
    /\ UNCHANGED <<tProperty, uOTPExpire, cIPMask, uFWStatus, tJob, rules, page, run, events, doubt>>

\* COUNT of the sessions of its address. One may be the session of another when
\* the listed one is gone
CountSessions(n) ==
    /\ Swp(n).pc = "expired"
    /\ \E s \in Swp(n).rows :
        /\ Sweep(n, [Swp(n) EXCEPT !.rows = @ \ {s}, !.cur = {s},
                    !.pc = IF Cardinality(SessionsAt(s.host)) < 2 THEN "drop" ELSE "delete"])
        /\ Note({d \in {"swept"} : s \notin tProperty /\ SessionsAt(s.host) # {}})
    /\ UNCHANGED <<tProperty, uOTPExpire, cIPMask, uFWStatus, tJob, rules, page, run, events>>

CurSession(n) == CHOOSE s \in Swp(n).cur : TRUE

\* Both chains
DropRules(n) ==
    /\ Swp(n).pc = "drop"
    /\ rules' = [rules EXCEPT ![n] = @ \ ({CurSession(n).host} \X Chains)]
    /\ Sweep(n, [Swp(n) EXCEPT !.pc = "status"])
    /\ UNCHANGED <<tProperty, uOTPExpire, cIPMask, uFWStatus, tJob, page, run, events, doubt>>

\* The session stays for the next sweep
DropFails(n) ==
    /\ Swp(n).pc = "drop" /\ Count
    /\ Sweep(n, [Swp(n) EXCEPT !.pc = "expired", !.cur = {}])
    /\ UNCHANGED <<tProperty, uOTPExpire, cIPMask, uFWStatus, tJob, rules, page, run, doubt>>

\* Mutant: the status of the address is left
DropStatusKept(n) ==
    /\ Swp(n).pc = "status"
    /\ Sweep(n, [Swp(n) EXCEPT !.pc = "delete"])
    /\ UNCHANGED <<tProperty, uOTPExpire, cIPMask, uFWStatus, tJob, rules, page, run, events, doubt>>

DropStatus(n) ==
    /\ Swp(n).pc = "status"
    /\ uFWStatus' = [uFWStatus EXCEPT ![CurSession(n).host] = "REMOVED"]
    /\ Sweep(n, [Swp(n) EXCEPT !.pc = "delete"])
    /\ UNCHANGED <<tProperty, uOTPExpire, cIPMask, tJob, rules, page, run, events, doubt>>

DeleteSession(n) ==
    /\ Swp(n).pc = "delete"
    /\ tProperty' = tProperty \ Swp(n).cur
    /\ Sweep(n, [Swp(n) EXCEPT !.pc = "expired", !.cur = {}])
    /\ UNCHANGED <<uOTPExpire, cIPMask, uFWStatus, tJob, rules, page, run, events, doubt>>

\* Then RemoveAcceptsFromChainIfNotSession of the first chain
SessionsDone(n) ==
    /\ Swp(n).pc = "expired" /\ Swp(n).rows = {}
    /\ List(n, "HTTP", ListOf(n, "HTTP"))
    /\ UNCHANGED <<tProperty, uOTPExpire, cIPMask, uFWStatus, tJob, rules, page, run, events, doubt>>

\* The load is above JOBQUEUE_CLONE_MAXLOAD
SessionsSkipped(n) ==
    /\ Swp(n).pc = "expired" /\ Swp(n).rows # {} /\ Count
    /\ List(n, "HTTP", ListOf(n, "HTTP"))
    /\ UNCHANGED <<tProperty, uOTPExpire, cIPMask, uFWStatus, tJob, rules, page, run, doubt>>

Unlist(n) ==
    /\ Swp(n).pc = "unlist"
    /\ rules' = [rules EXCEPT ![n] = @ \ {<<Swp(n).host, Swp(n).chain>>}]
    /\ Sweep(n, [Swp(n) EXCEPT !.pc = "listed"])
    /\ UNCHANGED <<tProperty, uOTPExpire, cIPMask, uFWStatus, tJob, page, run, events, doubt>>

UnlistFails(n) ==
    /\ Swp(n).pc = "unlist" /\ Count
    /\ List(n, Swp(n).chain, Swp(n).hosts)
    /\ UNCHANGED <<tProperty, uOTPExpire, cIPMask, uFWStatus, tJob, rules, page, run, doubt>>

ListStatus(n) ==
    /\ Swp(n).pc = "listed"
    /\ uFWStatus' = [uFWStatus EXCEPT ![Swp(n).host] = "REMOVED"]
    /\ List(n, Swp(n).chain, Swp(n).hosts)
    /\ UNCHANGED <<tProperty, uOTPExpire, cIPMask, tJob, rules, page, run, events, doubt>>

-----------------------------------------------------------------------------
Page(u) == \/ CreateLoginSession(u) \/ CheckSessions(u)
           \/ \E n \in Nodes : LoginFirewallJob(u, n) \/ LogoutFirewallJob(u, n)

Ask(u) == \/ \E a \in Hosts : Login(u, a) \/ Logout(u, a) \/ LoginRefused(u, a)
          \/ Expire(u) \/ Renew(u)

Proceed(n) == Select(n) \/ Begin(n) \/ Iptables(n) \/ SetStatus(n)

Clean(n) == \/ SelectExpired(n) \/ CountSessions(n) \/ DropRules(n) \/ DropStatus(n)
            \/ DeleteSession(n) \/ SessionsDone(n) \/ Unlist(n) \/ ListStatus(n)

Fail(n) == \/ Postpone(n) \/ IptablesFails(n)
           \/ DropFails(n) \/ SessionsSkipped(n) \/ UnlistFails(n)

Next ==
    \/ \E u \in Users : Page(u) \/ Ask(u)
    \/ \E n \in Nodes : Proceed(n) \/ Clean(n) \/ Fail(n)

Spec == Init /\ [][Next]_vars

\* Pages run to their end, and cron starts the node's program every minute
FairSpec == /\ Spec
            /\ WF_vars(\E u \in Users : Page(u))
            /\ WF_vars(\E n \in Nodes : Proceed(n))
            /\ \A n \in Nodes : WF_vars(Clean(n))

-----------------------------------------------------------------------------
(******************************* Properties ********************************)

\* Every variable has the shape of its table, chain or process state.
TypeOK ==
    /\ tProperty \in SUBSET Session
    /\ uOTPExpire \in [Users -> {"0", "future", "past"}]
    /\ cIPMask \in [Users -> Hosts \cup {NoHost}]
    /\ uFWStatus \in [Hosts -> FWStatus]
    /\ tJob \in [Nodes -> SUBSET JobRow]
    /\ rules \in [Nodes -> SUBSET Rules]
    /\ page \in [Users -> Pages]
    /\ run \in [Nodes -> Runners]
    /\ sweep \in [Nodes -> Sweeps]
    /\ events \in Numbers /\ doubt \in SUBSET Doubts

Quiet == /\ \A u \in Users : page[u].at = "none"
         /\ \A n \in Nodes : run[n].pc = "idle" /\ tJob[n] = {} /\ sweep[n].pc = "idle"

\* Whoever has a session when the pages and the nodes have come to rest is let
\* in by every node, by ssh too if the user may: neither the logout of another
\* user of the same address nor a sweep has taken the rules away.
SessionIsLetIn ==
    Quiet /\ doubt = {} => \A s \in tProperty, n \in Nodes :
                                {s.host} \X ChainsOf(s.user) \subseteq rules[n]

\* tIP then says ACCESS for an address with a session, and only for one with a
\* session or with a rule a sweep has still to find.
StatusTellsSessions ==
    Quiet /\ doubt = {} => \A a \in Hosts :
        /\ SessionsAt(a) # {} => uFWStatus[a] = "ACCESS"
        /\ uFWStatus[a] = "ACCESS" =>
            SessionsAt(a) # {} \/ \E n \in Nodes, c \in Chains : a \in ListOf(n, c)

\* An address that waits for access has a login that is still to insert its jobs, or a
\* job that will set its status. Pages delete each other's waiting rows, runners work
\* on copies of rows that are gone and put back only what is there: a logout's copy in
\* a snapshot does not count, a login's is never put off.
WaitHasAJob ==
    "failed" \notin doubt => \A a \in Hosts : uFWStatus[a] = "WAITINGACCESSLOGIN" =>
        \/ \E u \in Users : page[u].at \in {"session", "login"} /\ page[u].host = a
        \/ \E n \in Nodes :
            \/ \E r \in tJob[n] : r.host = a
            \/ \E r \in run[n].rows \cup run[n].cur : r.name = "Login" /\ r.host = a
            \/ run[n].pc = "status" /\ \E r \in run[n].cur : r.host = a

\* Again and again nothing is left that a sweep is for: no node has a rule of an
\* address without a session, though only one node's sweep may find and delete an
\* expired session, and no session has a password that has expired.
SweptClean == []<>(\/ doubt # {}
                  \/ /\ \A n \in Nodes : \A r \in rules[n] : SessionsAt(r[1]) # {}
                     /\ \A s \in tProperty : uOTPExpire[s.user] # "past")

\* Nobody waits for access for ever: whatever jobs the pages delete, one that
\* sets the status is left, unless its commands fail.
WaitEnds == []<>(doubt # {} \/ \A a \in Hosts : uFWStatus[a] # "WAITINGACCESSLOGIN")
=============================================================================
