---------------------------- MODULE FailoverProofs ----------------------------
(***************************************************************************)
(* The types of a switchover and what each step of its two handlers        *)
(* changes, for any number of rounds and any faults; and its safety        *)
(* properties, for any interleaving of the handlers and any faults but the *)
(* two failures whose rollback falls through (FallThrough).                *)
(***************************************************************************)
EXTENDS Failover, TLAPS

USE FailoverAssumption DEF Pair, Other, Clone, Source

-----------------------------------------------------------------------------
(* Points of FailoverTo, in the order of the code: the address, the names.  *)
Undos == {"undo1", "undo2", "undo3", "undo4"}
Resting == {"off", "dead"}

UntilAddress == {"getSource", "unsetSource", "nodeStatus", "start", "onboot", "active",
                 "ipdel", "getIP", "ipadd", "setIP"}
Addressing == {"ipadd", "setIP"}
Naming == {"foName", "setName", "vzName", "scripts", "done"}

(* The address read from the source is in hand, also in a rollback that     *)
(* falls through; so are the names.                                         *)
HasIP == to.pc \in Addressing \/ (to.pc \in Undos /\ to.at \in FallThrough)

(* The source has not been given its .fo name in this round.                *)
Unnamed == \/ job.to = "WAITING"
           \/ to.pc \in UntilAddress \cup {"getNames", "foName"}
           \/ to.pc \in Undos /\ to.at \in FallThrough

(* The tables.                                                              *)
TablesOK ==
    /\ db \in [Pair -> [uSource : Pair \cup {None}, uStatus : Status, ip : Pair, name : Names]]
    /\ vz \in [Pair -> [ips : SUBSET Pair, name : Names, running : BOOLEAN, onboot : BOOLEAN]]
    /\ up \in [Pair -> BOOLEAN]
    /\ \A c \in Pair : db[c].uSource \in {None, Other(c)}

(* The jobs.                                                                *)
JobsOK ==
    /\ job \in [clone : Pair, to : JobStatus, from : JobStatus, inOrder : BOOLEAN,
                data : [ip : Pair \cup {None}, name : Names \cup {NoName}, uStatus : Status]]
    /\ job.to # "none" => job.data.ip \in Pair /\ job.data.name \in Names
    /\ round \in 0 .. MaxRound /\ trial \in Trials /\ round <= trial.rounds

(* The handlers' locals.                                                    *)
ToOK ==
    /\ to \in Locals
    /\ to.pc \notin {"off", "dead", "getSource"} => to.src = Other(Clone)
    /\ to.pc \in Undos => to.at \in ToFaults
    /\ HasIP => to.ip \in Pair
    /\ to.pc \in Naming => to.name \in Names

FromNamed == {"fromName", "fromVzName", "fromSetIP", "fromIpadd", "fromScripts", "setSource"}

FromOK ==
    /\ from \in Locals
    /\ from.pc \in Undos => from.at \in FromFaults \ {"fromIpdel"}
    /\ from.pc \in FromNamed \/ (from.pc \in Undos /\ from.at \in FromNamed) => from.name \in Names
    /\ from.pc = "undo3" => from.at \in FromNamed

(* How the rows and the handlers go together.                               *)
OrderOK ==
    /\ job.to = "none" => job.from = "none" /\ to.pc = "off" /\ from.pc = "off"
    /\ job.to = "WAITING" => to.pc \in Resting
    /\ job.from = "WAITING" => from.pc \in Resting
    /\ job.to = "DONEOK" => to.pc = "off"
    /\ from.pc \notin Resting \cup {"check"} => job.to = "DONEOK"
    /\ job.to = "WAITING" \/ to.pc = "getSource" => db[Clone].uSource = Source

(* A .fo is appended once a round.                                          *)
NamesOK ==
    /\ \A c \in Pair : db[c].name.fo <= round /\ (Unnamed => db[c].name.fo < round)
    /\ job.data.name.fo <= round
    /\ to.pc = "foName" => to.name.fo < round
    /\ to.name.fo <= round /\ from.name.fo <= round

IndType == TablesOK /\ JobsOK /\ ToOK /\ FromOK /\ OrderOK /\ NamesOK

LEMMA TypeInit == Init => IndType
  BY DEF Init, IndType, TablesOK, JobsOK, ToOK, FromOK, OrderOK, NamesOK, Idle, Locals, Points,
         Name, Names, NoName, Status, JobStatus, HasIP, Unnamed, Undos, Resting, UntilAddress, Addressing, Naming, FromNamed


(* The tables a step leaves are tables, with names of this round.           *)
Tables(d, v) ==
    /\ d \in [Pair -> [uSource : Pair \cup {None}, uStatus : Status, ip : Pair, name : Names]]
    /\ v \in [Pair -> [ips : SUBSET Pair, name : Names, running : BOOLEAN, onboot : BOOLEAN]]
    /\ \A c \in Pair : d[c].uSource \in {None, Other(c)} /\ d[c].name.fo <= round

(* A forward step of FailoverTo.                                            *)
ToSteps == UntilAddress \cup {"getNames"} \cup (Naming \ {"done"})

LEMMA ToStep ==
  ASSUME IndType, UNCHANGED trial, NEW s \in ToSteps, NEW d, NEW v, NEW m \in Locals,
         To(s, d, v, m), Tables(d, v), m.src = Source, m.name.fo <= round,
         s \in {"getIP", "ipadd"} => m.ip \in Pair,
         s \in {"getNames"} \cup Naming => m.name \in Names,
         s = "getNames" => m.name.fo < round,
         s \in UntilAddress \cup {"getNames"} => \A c \in Pair : d[c].name = db[c].name
  PROVE  IndType'
<1> USE DEF To, IndType
<1>1. TablesOK'
  BY DEF TablesOK, Tables
<1>2. JobsOK'
  BY DEF JobsOK
<1>3. /\ AfterTo(s) \in Points \ ({"off", "dead", "getSource"} \cup Undos)
      /\ AfterTo(s) \in Addressing => s \in {"getIP", "ipadd"}
      /\ AfterTo(s) \in Naming => s \in {"getNames"} \cup Naming
      /\ AfterTo(s) = "foName" => s = "getNames"
      /\ AfterTo(s) \in UntilAddress \cup {"getNames", "foName"} => s \in UntilAddress \cup {"getNames"}
  BY DEF AfterTo, ToSteps, UntilAddress, Naming, Addressing, Undos, Points, ToFaults
<1>4. to' \in Locals /\ to'.pc = AfterTo(s) /\ to'.src = m.src /\ to'.ip = m.ip /\ to'.name = m.name
  BY <1>3 DEF Locals
<1>5. ToOK'
  BY <1>2, <1>3, <1>4 DEF JobsOK, ToOK, HasIP
<1>6. FromOK'
  BY DEF FromOK
<1>7. to.pc = s /\ s \notin Resting
  BY DEF ToSteps, UntilAddress, Naming, Resting
<1>8. OrderOK'
  BY <1>3, <1>4, <1>7 DEF OrderOK, Resting
<1>9. NamesOK'
  <2>1. Unnamed' => s \in UntilAddress \cup {"getNames"}
    BY <1>3, <1>4, <1>7 DEF Unnamed, OrderOK
  <2>2. s \in UntilAddress \cup {"getNames"} => Unnamed
    BY <1>7 DEF Unnamed
  <2> QED
    BY <1>3, <1>4, <2>1, <2>2 DEF NamesOK, Tables
<1> QED
  BY <1>1, <1>2, <1>5, <1>6, <1>8, <1>9

LEMMA ToFailsType == ASSUME IndType, UNCHANGED trial, NEW s \in ToFaults, ToFails(s) PROVE IndType'
<1> USE DEF ToFails, IndType
<1>0. to.pc = s /\ s \in ToSteps /\ s \notin Resting /\ job.to \notin {"none", "WAITING", "DONEOK"}
  BY DEF ToFaults, ToSteps, UntilAddress, Naming, Resting, OrderOK
<1>1. TablesOK'
  BY DEF TablesOK
<1>2. JobsOK' /\ job'.to = "ERROR" /\ job'.from = job.from /\ job'.data = job.data /\ job'.clone = job.clone
  BY <1>0 DEF JobsOK, JobStatus
<1>3. /\ to' \in Locals /\ to'.src = to.src /\ to'.ip = to.ip /\ to'.name = to.name
      /\ to'.pc \in {"off", "undo1"} /\ to'.at = s
      /\ to'.pc = "undo1" => s # "getSource"
  <2> DEFINE p == IF ToLevel(s) = 0 THEN "off" ELSE "undo1"
  <2>1. p \in {"off", "undo1"} /\ (p = "undo1" => s # "getSource")
    BY DEF ToLevel
  <2>2. to' = [to EXCEPT !.pc = p, !.at = s] /\ to \in Locals /\ s \in Points /\ {"off", "undo1"} \subseteq Points
    BY DEF ToOK, Points
  <2> HIDE DEF p
  <2> QED
    BY <2>1, <2>2 DEF Locals
<1>5. ToOK'
  BY <1>0, <1>2, <1>3 DEF ToOK, HasIP, JobsOK, FallThrough, Addressing, Undos, Naming, Resting
<1>6. FromOK'
  BY DEF FromOK
<1>8. OrderOK'
  BY <1>0, <1>2, <1>3 DEF OrderOK, Resting
<1>9. NamesOK'
  <2>1. Unnamed' => Unnamed
    BY <1>0, <1>2, <1>3 DEF Unnamed, FallThrough, Undos, UntilAddress
  <2> QED
    BY <1>2, <1>3, <2>1 DEF NamesOK
<1> QED
  BY <1>1, <1>2, <1>5, <1>6, <1>8, <1>9

LEMMA ToUndoType ==
  ASSUME IndType, UNCHANGED trial, NEW k \in 1 .. 4, NEW d, NEW v, ToUndo(k, d, v), Tables(d, v),
         \A c \in Pair : d[c].name = db[c].name
  PROVE  IndType'
<1> USE DEF ToUndo, IndType
<1>0. to.pc = Undo(k) /\ Undo(k) \in Undos
  BY DEF Undo, Undos
<1>1. TablesOK'
  BY DEF TablesOK, Tables
<1>2. JobsOK'
  BY DEF JobsOK
<1>3. \/ to'.pc \in Undos \/ to'.pc = "off"
      \/ to.at = "ipadd" /\ to'.pc = "setIP"
      \/ to.at = "setIP" /\ to'.pc = "getNames"
  <2>1. CASE to.at \in FallThrough
    BY <2>1 DEF ToOK, Locals, FallThrough, ToLevel, Undo, Undos, AfterTo
  <2>2. CASE to.at \notin FallThrough
    <3>1. ToLevel(to.at) \in 0 .. 4
      BY <1>0 DEF ToOK, ToFaults, ToLevel
    <3>2. k < ToLevel(to.at) => Undo(k + 1) \in Undos
      BY <3>1 DEF Undo, Undos
    <3> QED
      BY <2>2, <3>2 DEF ToOK, Locals
  <2> QED
    BY <2>1, <2>2
<1>4. /\ to'.pc \in Points \ {"getSource"}
      /\ to' \in Locals /\ to'.src = to.src /\ to'.ip = to.ip /\ to'.name = to.name /\ to'.at = to.at
  <2>1. to'.pc \in Points \ {"getSource"}
    BY <1>3 DEF Points, Undos, ToFaults
  <2> QED
    BY <2>1 DEF ToOK, Locals
<1>5. ToOK'
  BY <1>0, <1>2, <1>3, <1>4 DEF ToOK, HasIP, JobsOK, FallThrough, Addressing, Undos, Naming
<1>6. FromOK'
  BY DEF FromOK
<1>8. OrderOK'
  BY <1>0, <1>4 DEF OrderOK, Resting, Undos
<1>9. NamesOK'
  <2>1. Unnamed' => Unnamed
    BY <1>0, <1>3, <1>4 DEF Unnamed, FallThrough, Undos, UntilAddress
  <2>2. to'.pc # "foName"
    BY <1>3 DEF Undos
  <2> QED
    BY <1>4, <2>1, <2>2 DEF NamesOK, Tables
<1> QED
  BY <1>1, <1>2, <1>5, <1>6, <1>8, <1>9


LEMMA DbChange ==
  ASSUME NEW v, Tables(db, v), NEW c \in Pair
  PROVE  /\ \A x \in {None, Other(c)} : Tables(DbSet(c, "uSource", x), v)
         /\ \A x \in Status : Tables(DbSet(c, "uStatus", x), v)
         /\ \A x \in Pair : Tables(DbSet(c, "ip", x), v)
         /\ \A x \in Names : x.fo <= round => Tables(DbSet(c, "name", x), v)
         /\ \A x : \A e \in Pair : /\ DbSet(c, "uSource", x)[e].name = db[e].name
                               /\ DbSet(c, "uStatus", x)[e].name = db[e].name
                               /\ DbSet(c, "ip", x)[e].name = db[e].name
  BY DEF Tables, DbSet

LEMMA VzChange ==
  ASSUME NEW d, Tables(d, vz), NEW c \in Pair
  PROVE  /\ \A x \in SUBSET Pair : Tables(d, VzSet(c, "ips", x))
         /\ \A x \in Names : Tables(d, VzSet(c, "name", x))
         /\ \A x \in BOOLEAN : Tables(d, VzSet(c, "running", x)) /\ Tables(d, VzSet(c, "onboot", x))
  BY DEF Tables, VzSet

(* A container of w that boots with its node again.                         *)
Onboot(w, c) == [w EXCEPT ![c].onboot = TRUE]

LEMMA OnbootSet ==
  ASSUME NEW d, NEW w, Tables(d, w), NEW c \in Pair
  PROVE  Tables(d, Onboot(w, c))
  BY DEF Tables, Onboot

LEMMA IpsAdded ==
  ASSUME NEW d, NEW w, Tables(d, w), NEW c \in Pair, NEW ip \in Pair \cup {None},
         NEW v \in Ipadd(w, c, ip)
  PROVE  Tables(d, v)
<1> DEFINE S == w[c].ips \cup ({ip} \ {None})
<1>1. S \subseteq Pair
  BY DEF Tables
<1>2. v = w \/ v = [w EXCEPT ![c].ips = S]
  BY DEF Ipadd, Attempt
<1> HIDE DEF S
<1> QED
  BY <1>1, <1>2 DEF Tables

LEMMA Readdressed ==
  ASSUME NEW d, Tables(d, vz), NEW c \in Pair, NEW ip \in Pair \cup {None},
         NEW v \in Readdress(c, ip)
  PROVE  Tables(d, v)
<1>1. PICK w \in Attempt(vz, VzSet(c, "ips", {})) : v \in Ipadd(w, c, ip)
  BY DEF Readdress
<1>2. w = vz \/ w = VzSet(c, "ips", {})
  BY DEF Attempt
<1> QED
  BY <1>1, <1>2, VzChange, IpsAdded

(* What the premises of ToStep are when the step begins.                    *)
LEMMA ToBegins ==
  ASSUME IndType, NEW s \in ToSteps, to.pc = s
  PROVE  /\ to \in Locals /\ Tables(db, vz) /\ Clone \in Pair /\ Source \in Pair
         /\ s # "getSource" => to.src = Source
         /\ s = "getSource" => db[Clone].uSource = Source
         /\ s \in Addressing => to.ip \in Pair
         /\ s \in Naming => to.name \in Names
         /\ to.name.fo <= round
         /\ s = "foName" => to.name.fo < round
         /\ s \in UntilAddress \cup {"getNames", "foName"} => \A c \in Pair : db[c].name.fo < round
  BY DEF IndType, Tables, TablesOK, ToOK, NamesOK, OrderOK, JobsOK, ToSteps, UntilAddress, Naming, HasIP, Unnamed

(* A step that changes no local but the point.                              *)
LEMMA ToKeepsLocals ==
  ASSUME IndType, UNCHANGED trial, NEW s \in ToSteps \ {"getSource", "getIP", "getNames"},
         NEW d, NEW v, To(s, d, v, to), Tables(d, v),
         s \in UntilAddress => \A c \in Pair : d[c].name = db[c].name
  PROVE  IndType'
<1>1. to.pc = s
  BY DEF To
<1> QED
  BY <1>1, ToBegins, ToStep DEF Addressing

LEMMA ToType ==
  ASSUME IndType, UNCHANGED trial, ToSucceeds
  PROVE  IndType'
<1>0. /\ UntilAddress \cup {"getNames"} \cup {"foName", "setName", "vzName", "scripts"} = ToSteps
      /\ Naming \cap UntilAddress = {}
  BY DEF UntilAddress, Naming, ToSteps
<1>1. CASE GetSource
  <2> DEFINE m == [to EXCEPT !.src = db[Clone].uSource]
  <2>1. To("getSource", db, vz, m) /\ to.pc = "getSource" /\ "getSource" \in ToSteps
    BY <1>1 DEF GetSource, To, ToSteps, UntilAddress
  <2>2. m \in Locals /\ m.src = Source /\ m.name = to.name
    BY <2>1, ToBegins DEF Locals
  <2> HIDE DEF m
  <2> QED
    BY <2>1, <2>2, ToBegins, ToStep DEF Naming
<1>2. CASE UnsetSource
  <2>1. to.pc = "unsetSource" /\ "unsetSource" \in ToSteps
    BY <1>2 DEF UnsetSource, To, ToSteps, UntilAddress
  <2>2. Tables(DbSet(Clone, "uSource", None), vz)
        /\ \A c \in Pair : DbSet(Clone, "uSource", None)[c].name = db[c].name
    BY <2>1, ToBegins DEF Tables, DbSet
  <2> QED
    BY <1>2, <2>1, <2>2, ToKeepsLocals DEF UnsetSource
<1>3. CASE NodeStatus
  <2> DEFINE m == [to EXCEPT !.stopped = ~vz[Clone].running]
  <2>1. To("nodeStatus", db, vz, m) /\ to.pc = "nodeStatus" /\ "nodeStatus" \in ToSteps
    BY <1>3 DEF NodeStatus, To, ToSteps, UntilAddress
  <2>2. m \in Locals /\ m.src = to.src /\ m.name = to.name
    BY <2>1, ToBegins DEF Locals
  <2> HIDE DEF m
  <2> QED
    BY <2>1, <2>2, ToBegins, ToStep DEF Naming
<1>4. CASE StartClone
  <2>1. to.pc = "start" /\ "start" \in ToSteps
    BY <1>4 DEF StartClone, To, ToSteps, UntilAddress
  <2>2. Tables(db, VzSet(Clone, "running", TRUE))
    BY <2>1, ToBegins DEF Tables, VzSet
  <2> QED
    BY <1>4, <2>1, <2>2, ToKeepsLocals DEF StartClone
<1>5. CASE OnbootClone
  <2>1. to.pc = "onboot" /\ "onboot" \in ToSteps
    BY <1>5 DEF OnbootClone, To, ToSteps, UntilAddress
  <2>2. Tables(db, VzSet(Clone, "onboot", TRUE))
    BY <2>1, ToBegins DEF Tables, VzSet
  <2> QED
    BY <1>5, <2>1, <2>2, ToKeepsLocals DEF OnbootClone
<1>6. CASE ActiveClone
  <2>1. PICK d \in Attempt(db, DbSet(Clone, "uStatus", "ACTIVE")) : To("active", d, vz, to)
    BY <1>6 DEF ActiveClone
  <2>2. to.pc = "active" /\ "active" \in ToSteps
    BY <2>1 DEF To, ToSteps, UntilAddress
  <2>3. d = db \/ d = DbSet(Clone, "uStatus", "ACTIVE")
    BY DEF Attempt
  <2>4. Tables(d, vz) /\ \A c \in Pair : d[c].name = db[c].name
    BY <2>2, <2>3, ToBegins, DbChange DEF Status
  <2> QED
    BY <2>1, <2>2, <2>4, ToKeepsLocals
<1>7. CASE IpdelClone
  <2>1. PICK ip \in Attempt(None, db[Clone].ip) :
            To("ipdel", db, VzSet(Clone, "ips", {}), [to EXCEPT !.orig = ip])
    BY <1>7 DEF IpdelClone
  <2> DEFINE m == [to EXCEPT !.orig = ip]
  <2>2. to.pc = "ipdel" /\ "ipdel" \in ToSteps
    BY <2>1 DEF To, ToSteps, UntilAddress
  <2>3. Tables(db, VzSet(Clone, "ips", {}))
    BY <2>2, ToBegins DEF Tables, VzSet
  <2>4. ip \in Pair \cup {None}
    BY <2>2, ToBegins DEF Attempt, Tables
  <2>5. m \in Locals /\ m.src = to.src /\ m.name = to.name
    BY <2>2, <2>4, ToBegins DEF Locals
  <2>6. To("ipdel", db, VzSet(Clone, "ips", {}), m)
    BY <2>1
  <2> HIDE DEF m
  <2> QED
    BY <2>2, <2>3, <2>5, <2>6, ToBegins, ToStep DEF Naming
<1>8. CASE GetIP
  <2> DEFINE m == [to EXCEPT !.ip = db[to.src].ip]
  <2>1. To("getIP", db, vz, m) /\ to.pc = "getIP" /\ "getIP" \in ToSteps
    BY <1>8 DEF GetIP, To, ToSteps, UntilAddress
  <2>2. m \in Locals /\ m.src = to.src /\ m.name = to.name /\ m.ip \in Pair
    BY <2>1, ToBegins DEF Locals, Tables
  <2> HIDE DEF m
  <2> QED
    BY <2>1, <2>2, ToBegins, ToStep DEF Naming
<1>9. CASE IpaddClone
  <2>1. to.pc = "ipadd" /\ "ipadd" \in ToSteps /\ "ipadd" \in Addressing
    BY <1>9 DEF IpaddClone, To, ToSteps, UntilAddress, Addressing
  <2>2. Tables(db, VzSet(Clone, "ips", vz[Clone].ips \cup {to.ip}))
    BY <2>1, ToBegins DEF Tables, VzSet
  <2> QED
    BY <1>9, <2>1, <2>2, ToKeepsLocals DEF IpaddClone
<1>10. CASE SetCloneIP
  <2>1. to.pc = "setIP" /\ "setIP" \in ToSteps /\ "setIP" \in Addressing
    BY <1>10 DEF SetCloneIP, To, ToSteps, UntilAddress, Addressing
  <2>2. Tables(DbSet(Clone, "ip", to.ip), vz)
        /\ \A c \in Pair : DbSet(Clone, "ip", to.ip)[c].name = db[c].name
    BY <2>1, ToBegins DEF Tables, DbSet
  <2> QED
    BY <1>10, <2>1, <2>2, ToKeepsLocals DEF SetCloneIP
<1>11. CASE GetNames
  <2> DEFINE m == [to EXCEPT !.name = db[to.src].name]
  <2>1. To("getNames", db, vz, m) /\ to.pc = "getNames" /\ "getNames" \in ToSteps
    BY <1>11 DEF GetNames, To, ToSteps
  <2>2. m \in Locals /\ m.src = to.src /\ m.name \in Names /\ m.name.fo < round
    BY <2>1, ToBegins DEF Locals, Tables
  <2>3. m.name.fo <= round
    BY <2>2 DEF IndType, JobsOK, Names
  <2> HIDE DEF m
  <2> QED
    BY <2>1, <2>2, <2>3, ToBegins, ToStep
<1>12. CASE FoName
  <2> DEFINE name == Fo(to.name)
  <2>1. to.pc = "foName" /\ "foName" \in ToSteps /\ "foName" \in Naming
    BY <1>12 DEF FoName, To, ToSteps, Naming
  <2>2. name \in Names /\ name.fo <= round
    BY <2>1, ToBegins DEF Fo, Names, IndType, JobsOK
  <2> HIDE DEF name
  <2>3. Tables(DbSet(to.src, "name", name), vz)
    BY <2>1, <2>2, ToBegins DEF Tables, DbSet
  <2> QED
    BY <1>0, <1>12, <2>1, <2>3, ToKeepsLocals DEF FoName, name
<1>13. CASE SetCloneName
  <2>1. to.pc = "setName" /\ "setName" \in ToSteps /\ "setName" \in Naming
    BY <1>13 DEF SetCloneName, To, ToSteps, Naming
  <2>3. Tables(DbSet(Clone, "name", to.name), vz)
    BY <2>1, ToBegins DEF Tables, DbSet
  <2> QED
    BY <1>0, <1>13, <2>1, <2>3, ToKeepsLocals DEF SetCloneName
<1>14. CASE VzCloneName
  <2>1. to.pc = "vzName" /\ "vzName" \in ToSteps /\ "vzName" \in Naming
    BY <1>14 DEF VzCloneName, To, ToSteps, Naming
  <2>3. Tables(db, VzSet(Clone, "name", to.name))
    BY <2>1, ToBegins DEF Tables, VzSet
  <2> QED
    BY <1>14, <2>1, <2>3, ToKeepsLocals DEF VzCloneName
<1>15. CASE ActionScripts
  <2>1. to.pc = "scripts" /\ "scripts" \in ToSteps
    BY <1>15 DEF ActionScripts, To, ToSteps, Naming
  <2> QED
    BY <1>15, <2>1, ToBegins, ToKeepsLocals DEF ActionScripts
<1>16. CASE UndoSource
  <2>1. PICK d \in Attempt(db, DbSet(Clone, "uSource", to.src)) : ToUndo(1, d, vz)
    BY <1>16 DEF UndoSource
  <2>2. Tables(db, vz) /\ Clone \in Pair /\ to.src = Other(Clone)
    BY <2>1 DEF ToUndo, Undo, IndType, TablesOK, JobsOK, ToOK, NamesOK, Tables
  <2>3. d = db \/ d = DbSet(Clone, "uSource", to.src)
    BY DEF Attempt
  <2>4. Tables(d, vz) /\ \A c \in Pair : d[c].name = db[c].name
    BY <2>2, <2>3, DbChange
  <2> QED
    BY <2>1, <2>4, ToUndoType
<1>17. CASE UndoStart
  <2>1. PICK d \in Attempt(db, DbSet(Clone, "uStatus", "AWAITFAIL")),
             v \in (IF to.stopped THEN Attempt(vz, VzSet(Clone, "running", FALSE)) ELSE {vz}) :
            ToUndo(2, d, v)
    BY <1>17 DEF UndoStart
  <2>2. Tables(db, vz) /\ Clone \in Pair
    BY DEF IndType, TablesOK, JobsOK, NamesOK, Tables
  <2>3. (d = db \/ d = DbSet(Clone, "uStatus", "AWAITFAIL")) /\ (v = vz \/ v = VzSet(Clone, "running", FALSE))
    BY DEF Attempt
  <2>4. Tables(d, vz) /\ \A c \in Pair : d[c].name = db[c].name
    BY <2>2, <2>3, DbChange DEF Status
  <2>5. Tables(d, v)
    BY <2>2, <2>3, <2>4, VzChange
  <2> QED
    BY <2>1, <2>4, <2>5, ToUndoType
<1>18. CASE UndoIps
  <2>1. PICK v \in Readdress(Clone, to.orig) : ToUndo(3, db, v)
    BY <1>18 DEF UndoIps
  <2>2. Tables(db, vz) /\ Clone \in Pair /\ to.orig \in Pair \cup {None}
    BY DEF IndType, TablesOK, JobsOK, NamesOK, Tables, ToOK, Locals
  <2>3. Tables(db, v)
    BY <2>2, Readdressed
  <2> QED
    BY <2>1, <2>3, ToUndoType
<1>19. CASE UndoIP
  <2>1. PICK d \in RestoreIP(Clone, to.orig) : ToUndo(4, d, vz)
    BY <1>19 DEF UndoIP
  <2>2. Tables(db, vz) /\ Clone \in Pair /\ to.orig \in Pair \cup {None}
    BY DEF IndType, TablesOK, JobsOK, NamesOK, Tables, ToOK, Locals
  <2>3. d = db \/ (to.orig \in Pair /\ d = DbSet(Clone, "ip", to.orig))
    BY <2>2 DEF RestoreIP, Attempt
  <2>4. Tables(d, vz) /\ \A c \in Pair : d[c].name = db[c].name
    BY <2>2, <2>3, DbChange
  <2> QED
    BY <2>1, <2>4, ToUndoType
<1>20. CASE ToDone
  BY <1>20 DEF ToDone, IndType, TablesOK, JobsOK, ToOK, FromOK, OrderOK, NamesOK, Locals, JobStatus, Points, HasIP, Unnamed, Undos, Resting,
       UntilAddress, Addressing, Naming
<1> QED
  BY <1>1, <1>2, <1>3, <1>4, <1>5, <1>6, <1>7, <1>8, <1>9, <1>10, <1>11, <1>12, <1>13, <1>14, <1>15, <1>16, <1>17, <1>18, <1>19, <1>20 DEF ToSucceeds

(* The same for FailoverFrom, which is past its first point only when       *)
(* FailoverTo is done.                                                      *)
FromSteps == {"fromIpdel", "stop", "status"} \cup FromNamed

LEMMA FromBegins ==
  ASSUME IndType, from.pc \in FromSteps \cup Undos \cup {"done"}
  PROVE  /\ from \in Locals /\ Tables(db, vz) /\ Clone \in Pair /\ Source \in Pair
         /\ job.to = "DONEOK" /\ to.pc = "off" /\ job.from # "WAITING"
         /\ job.data.ip \in Pair /\ job.data.name \in Names /\ job.data.name.fo <= round
         /\ from.name.fo <= round
         /\ from.pc \in FromNamed \/ (from.pc \in Undos /\ from.at \in FromNamed) => from.name \in Names
  BY DEF IndType, Tables, TablesOK, JobsOK, FromOK, NamesOK, OrderOK, FromSteps, FromNamed, Undos, Resting

(* FailoverFrom ends or goes on with other locals, when the tables are      *)
(* those of a step.                                                         *)
LEMMA FromMoves ==
  ASSUME IndType, UNCHANGED <<trial, up, to, round>>, FromOK',
         from.pc \in FromSteps \cup Undos \cup {"done"}, Tables(db', vz'), from'.name.fo <= round,
         \/ job' = job \/ job' = [job EXCEPT !.from = "ERROR"] \/ job' = [job EXCEPT !.from = "DONEOK"]
  PROVE  IndType'
<1>1. /\ job.to = "DONEOK" /\ to.pc = "off" /\ job.from # "WAITING"
  BY FromBegins
<1>2. TablesOK'
  BY DEF IndType, TablesOK, Tables
<1>3. /\ JobsOK' /\ job'.to = job.to /\ job'.data = job.data /\ job'.clone = job.clone
      /\ job'.from # "WAITING"
  BY <1>1 DEF IndType, JobsOK, JobStatus
<1>4. ToOK'
  BY <1>3 DEF IndType, ToOK, HasIP
<1>5. OrderOK'
  BY <1>1, <1>3 DEF IndType, OrderOK
<1>6. NamesOK'
  <2>1. ~Unnamed'
    BY <1>1, <1>3 DEF Unnamed, Undos, UntilAddress
  <2> QED
    BY <1>1, <1>3, <2>1 DEF IndType, NamesOK, Tables
<1> QED
  BY <1>2, <1>3, <1>4, <1>5, <1>6 DEF IndType

LEMMA FromStep ==
  ASSUME IndType, UNCHANGED trial, NEW s \in FromSteps, NEW d, NEW v, NEW m \in Locals,
         From(s, d, v, m), Tables(d, v),
         job' = job \/ job' = [job EXCEPT !.from = "ERROR"],
         s \notin {"fromIpdel", "stop"} => m.name \in Names,
         m.name.fo <= round
  PROVE  IndType'
<1>1. from.pc = s
  BY DEF From
<1>2. /\ AfterFrom(s) \in Points \ Undos
      /\ AfterFrom(s) \in FromNamed => s \notin {"fromIpdel", "stop"}
  BY DEF AfterFrom, FromSteps, FromNamed, Undos, Points, FromFaults
<1>3. from' \in Locals /\ from'.pc = AfterFrom(s) /\ from'.name = m.name
  BY <1>2 DEF From, Locals
<1>4. FromOK'
  BY <1>2, <1>3 DEF FromOK, Undos
<1> QED
  BY <1>1, <1>3, <1>4, FromMoves DEF From

LEMMA FromFailsType ==
  ASSUME IndType, UNCHANGED trial, NEW s \in FromFaults, FromFails(s)
  PROVE  IndType'
<1>1. from.pc = s /\ s \in FromSteps
  BY DEF FromFails, FromFaults, FromSteps, FromNamed
<1>2. /\ from' \in Locals /\ from'.pc \in {"off", "undo1"} /\ from'.at = s
      /\ from'.pc = "undo1" => s # "fromIpdel"
      /\ from'.name = from.name
  BY <1>1, FromBegins DEF FromFails, Locals, Points, FromLevel
<1>3. FromOK'
  BY <1>1, <1>2, FromBegins DEF FromOK, Undos, FromNamed
<1> QED
  BY <1>1, <1>2, <1>3, FromBegins, FromMoves DEF FromFails

LEMMA FromUndoType ==
  ASSUME IndType, UNCHANGED trial, NEW k \in 1 .. 4, NEW d, NEW v, FromUndo(k, d, v), Tables(d, v)
  PROVE  IndType'
<1>1. from.pc = Undo(k) /\ Undo(k) \in Undos /\ from.at \in FromFaults \ {"fromIpdel"}
  BY DEF FromUndo, Undo, Undos, IndType, FromOK
<1>2. /\ FromLevel(from.at) \in 1 .. 4
      /\ FromLevel(from.at) >= 3 => from.at \in FromNamed
  BY <1>1 DEF FromFaults, FromLevel, FromNamed
<1>3. /\ k < FromLevel(from.at) => Undo(k + 1) \in Undos
      /\ k < FromLevel(from.at) /\ Undo(k + 1) = "undo3" => k = 2
  BY <1>2 DEF Undo, Undos
<1> DEFINE p == IF k < FromLevel(from.at) THEN Undo(k + 1) ELSE "off"
<1>4. p \in Undos \cup {"off"} /\ p \in Points /\ (p = "undo3" => FromLevel(from.at) >= 3)
  BY <1>2, <1>3 DEF Undos, Points
<1>6. from' = [from EXCEPT !.pc = p]
  BY DEF FromUndo
<1> HIDE DEF p
<1>7. /\ from' \in Locals /\ from'.at = from.at /\ from'.name = from.name
      /\ from'.pc = p
  BY <1>1, <1>4, <1>6, FromBegins DEF Locals
<1>5. FromOK'
  BY <1>1, <1>2, <1>4, <1>7, FromBegins DEF FromOK, Undos, FromNamed
<1> QED
  BY <1>1, <1>5, <1>7, FromBegins, FromMoves DEF FromUndo

LEMMA FromType ==
  ASSUME IndType, UNCHANGED trial, FromSucceeds
  PROVE  IndType'
<1>1. CASE CheckDone
  <2>1. /\ job.to = "DONEOK" /\ to.pc = "off" /\ from.pc = "check" /\ job.from # "WAITING"
        /\ from.name.fo <= round /\ Tables(db, vz) /\ Source \in Pair
    BY <1>1 DEF CheckDone, FailToJobDone, IndType, OrderOK, NamesOK, TablesOK, Tables, Resting, JobsOK
  <2>2. PICK ip \in Attempt(None, db[Source].ip) :
            from' = [from EXCEPT !.pc = "fromIpdel", !.orig = ip]
    BY <1>1 DEF CheckDone
  <2>3. ip \in Pair \cup {None}
    BY <2>1 DEF Attempt, Tables
  <2>4. /\ from' \in Locals /\ from'.pc = "fromIpdel" /\ from'.name = from.name
    BY <2>2, <2>3 DEF IndType, FromOK, Locals, Points, FromFaults
  <2>5. FromOK'
    BY <2>4 DEF FromOK, FromNamed, Undos
  <2>6. TablesOK' /\ JobsOK' /\ ToOK'
    BY <1>1 DEF CheckDone, IndType, TablesOK, JobsOK, ToOK, HasIP
  <2>7. OrderOK'
    BY <1>1, <2>1, <2>4 DEF CheckDone, IndType, OrderOK, Resting
  <2>8. NamesOK'
    BY <1>1, <2>1, <2>4 DEF CheckDone, IndType, NamesOK, Unnamed
  <2> QED
    BY <2>5, <2>6, <2>7, <2>8 DEF IndType
<1>2. CASE IpdelSource
  <2>1. from.pc = "fromIpdel" /\ "fromIpdel" \in FromSteps
    BY <1>2 DEF IpdelSource, From, FromSteps
  <2>2. Tables(db, VzSet(Source, "ips", {}))
    BY <2>1, FromBegins, VzChange
  <2> QED
    BY <1>2, <2>1, <2>2, FromBegins, FromStep DEF IpdelSource
<1>3. CASE StopSource
  <2>1. from.pc = "stop" /\ "stop" \in FromSteps
    BY <1>3 DEF StopSource, From, FromSteps
  <2>2. Tables(db, VzSet(Source, "running", FALSE))
    BY <2>1, FromBegins, VzChange
  <2> QED
    BY <1>3, <2>1, <2>2, FromBegins, FromStep DEF StopSource
<1>4. CASE SourceStatus
  <2>1. PICK d \in Attempt(db, DbSet(Source, "uStatus", IF StopsSource THEN "STOPPED" ELSE "ACTIVE")),
             v \in (IF StopsSource THEN Attempt(vz, VzSet(Source, "onboot", FALSE)) ELSE {vz}) :
            From("status", d, v, [from EXCEPT !.name = db[Source].name])
    BY <1>4 DEF SourceStatus
  <2> DEFINE m == [from EXCEPT !.name = db[Source].name]
             x == IF StopsSource THEN "STOPPED" ELSE "ACTIVE"
  <2>2. From("status", d, v, m) /\ job' = job
    BY <1>4, <2>1 DEF SourceStatus
  <2>3. from.pc = "status" /\ "status" \in FromSteps
    BY <2>2 DEF From, FromSteps
  <2>4. m \in Locals /\ m.name \in Names /\ m.name.fo <= round
    BY <2>3, FromBegins DEF Locals, Tables
  <2>5. /\ d = db \/ d = DbSet(Source, "uStatus", x)
        /\ v = vz \/ v = VzSet(Source, "onboot", FALSE)
    BY DEF Attempt
  <2>6. x \in Status
    BY DEF Status
  <2> HIDE DEF m, x
  <2>7. Tables(d, vz)
    BY <2>3, <2>5, <2>6, FromBegins, DbChange
  <2>8. Tables(d, v)
    BY <2>3, <2>5, <2>7, FromBegins, VzChange
  <2> QED
    BY <2>2, <2>3, <2>4, <2>8, FromStep
<1>5. CASE SetSourceName
  <2>1. from.pc = "fromName" /\ "fromName" \in FromSteps
    BY <1>5 DEF SetSourceName, From, FromSteps, FromNamed
  <2>2. Tables(DbSet(Source, "name", job.data.name), vz)
    BY <2>1, FromBegins, DbChange
  <2> QED
    BY <1>5, <2>1, <2>2, FromBegins, FromStep DEF SetSourceName, FromNamed
<1>6. CASE VzSourceName
  <2>1. from.pc = "fromVzName" /\ "fromVzName" \in FromSteps
    BY <1>6 DEF VzSourceName, From, FromSteps, FromNamed
  <2>2. Tables(db, VzSet(Source, "name", job.data.name))
    BY <2>1, FromBegins, VzChange
  <2> QED
    BY <1>6, <2>1, <2>2, FromBegins, FromStep DEF VzSourceName, FromNamed
<1>7. CASE SetSourceIP
  <2>1. from.pc = "fromSetIP" /\ "fromSetIP" \in FromSteps
    BY <1>7 DEF SetSourceIP, From, FromSteps, FromNamed
  <2>2. Tables(DbSet(Source, "ip", job.data.ip), vz)
    BY <2>1, FromBegins, DbChange
  <2> QED
    BY <1>7, <2>1, <2>2, FromBegins, FromStep DEF SetSourceIP, FromNamed
<1>8. CASE IpaddSource
  <2>1. from.pc = "fromIpadd" /\ "fromIpadd" \in FromSteps
    BY <1>8 DEF IpaddSource, From, FromSteps, FromNamed
  <2> DEFINE S == vz[Source].ips \cup {job.data.ip}
  <2>2. S \in SUBSET Pair
    BY <2>1, FromBegins DEF Tables
  <2>3. From("fromIpadd", db, VzSet(Source, "ips", S), from) /\ job' = job
    BY <1>8 DEF IpaddSource
  <2> HIDE DEF S
  <2>4. Tables(db, VzSet(Source, "ips", S))
    BY <2>1, <2>2, FromBegins, VzChange
  <2> QED
    BY <2>1, <2>3, <2>4, FromBegins, FromStep DEF FromNamed
<1>9. CASE RemoveScripts
  <2>1. from.pc = "fromScripts" /\ "fromScripts" \in FromSteps
    BY <1>9 DEF RemoveScripts, From, FromSteps, FromNamed
  <2> QED
    BY <1>9, <2>1, FromBegins, FromStep DEF RemoveScripts, FromNamed
<1>10. CASE SetSource
  <2>1. from.pc = "setSource" /\ "setSource" \in FromSteps
    BY <1>10 DEF SetSource, From, FromSteps, FromNamed
  <2>2. Clone = Other(Source)
    BY <2>1, FromBegins
  <2>3. Tables(DbSet(Source, "uSource", Clone), vz)
    BY <2>1, <2>2, FromBegins, DbChange
  <2> QED
    BY <1>10, <2>1, <2>3, FromBegins, FromStep DEF SetSource, FromNamed
<1>11. CASE FromUndoIps
  <2>1. PICK v \in (IF from.at \in {"fromScripts", "setSource"} THEN Readdress(Source, from.orig)
                    ELSE Ipadd(vz, Source, from.orig)) :
            FromUndo(1, db, v)
    BY <1>11 DEF FromUndoIps
  <2>2. from.pc \in Undos
    BY <2>1 DEF FromUndo, Undo, Undos
  <2>3. from.orig \in Pair \cup {None}
    BY <2>2, FromBegins DEF Locals
  <2>4. Tables(db, v)
    <3>1. CASE v \in Readdress(Source, from.orig)
      BY <2>2, <2>3, <3>1, FromBegins, Readdressed
    <3>2. CASE v \in Ipadd(vz, Source, from.orig)
      BY <2>2, <2>3, <3>2, FromBegins, IpsAdded
    <3> QED
      BY <2>1, <3>1, <3>2
  <2> QED
    BY <2>1, <2>4, FromUndoType
<1>12. CASE FromUndoStop
  <2>1. PICK d \in Attempt(db, DbSet(Source, "uStatus", "AWAITFAIL")),
             v \in (IF StopsSource
                    THEN UNION {Attempt(w, [w EXCEPT ![Source].onboot = TRUE]) :
                                w \in Attempt(vz, VzSet(Source, "running", TRUE))}
                    ELSE {vz}) :
            FromUndo(2, d, v)
    BY <1>12 DEF FromUndoStop
  <2>2. from.pc \in Undos
    BY <2>1 DEF FromUndo, Undo, Undos
  <2>3. d = db \/ d = DbSet(Source, "uStatus", "AWAITFAIL")
    BY DEF Attempt
  <2>4. Tables(d, vz)
    BY <2>2, <2>3, FromBegins, DbChange DEF Status
  <2>5. Tables(d, v)
    <3>1. CASE v = vz
      BY <2>4, <3>1
    <3>2. CASE v # vz
      <4>1. PICK w \in Attempt(vz, VzSet(Source, "running", TRUE)) :
                v \in Attempt(w, [w EXCEPT ![Source].onboot = TRUE])
        BY <2>1, <3>2
      <4>2. w = vz \/ w = VzSet(Source, "running", TRUE)
        BY <4>1 DEF Attempt
      <4>3. Tables(d, w)
        BY <2>2, <2>4, <4>2, FromBegins, VzChange
      <4>4. Source \in Pair
        BY <2>2, FromBegins
      <4>5. v = w \/ v = Onboot(w, Source)
        BY <4>1 DEF Attempt, Onboot
      <4> QED
        BY <4>3, <4>4, <4>5, OnbootSet
    <3> QED
      BY <3>1, <3>2
  <2> QED
    BY <2>1, <2>5, FromUndoType
<1>13. CASE FromUndoName
  <2>1. PICK d \in Attempt(db, DbSet(Source, "name", from.name)) : FromUndo(3, d, vz)
    BY <1>13 DEF FromUndoName
  <2>2. from.pc = "undo3"
    BY <2>1 DEF FromUndo, Undo
  <2>3. from.name \in Names
    BY <2>2, FromBegins DEF IndType, FromOK, Undos
  <2>4. d = db \/ d = DbSet(Source, "name", from.name)
    BY DEF Attempt
  <2>5. Tables(d, vz)
    BY <2>2, <2>3, <2>4, FromBegins, DbChange DEF Undos
  <2> QED
    BY <2>1, <2>5, FromUndoType
<1>14. CASE FromUndoIP
  <2>1. PICK d \in RestoreIP(Source, from.orig) : FromUndo(4, d, vz)
    BY <1>14 DEF FromUndoIP
  <2>2. from.pc \in Undos
    BY <2>1 DEF FromUndo, Undo, Undos
  <2>3. d = db \/ (from.orig \in Pair /\ d = DbSet(Source, "ip", from.orig))
    BY <2>2, FromBegins DEF RestoreIP, Attempt, Locals
  <2>4. Tables(d, vz)
    BY <2>2, <2>3, FromBegins, DbChange
  <2> QED
    BY <2>1, <2>4, FromUndoType
<1>15. CASE FromDone
  <2>1. from.pc = "done"
    BY <1>15 DEF FromDone
  <2>2. from' \in Locals /\ from'.pc = "off" /\ from'.name = from.name
    BY <1>15, <2>1, FromBegins DEF FromDone, Locals, Points
  <2>3. FromOK'
    BY <2>2 DEF FromOK, FromNamed, Undos
  <2> QED
    BY <1>15, <2>1, <2>2, <2>3, FromBegins, FromMoves DEF FromDone
<1> QED
  BY <1>1, <1>2, <1>3, <1>4, <1>5, <1>6, <1>7, <1>8, <1>9, <1>10, <1>11, <1>12, <1>13, <1>14, <1>15
     DEF FromSucceeds

(* The backend's pages: the two that switch over do the same.               *)
LEMMA BackendCases ==
  ASSUME Backend
  PROVE  \/ \E c \in Pair, second \in BOOLEAN : Switchover(c, second)
         \/ \E c \in Pair, s \in {"ACTIVE", "STOPPED"} : GroupStatus(c, s)
         \/ \E row \in {"to", "from"} : GroupCancel(row)
  BY DEF Backend, ConfirmSwitchover, GroupSwitchover

(* The status of a container changes, and its FailoverFrom may be canceled. *)
LEMMA StatusFields ==
  ASSUME IndType, NEW c \in Pair, NEW s \in {"ACTIVE", "STOPPED"}, GroupStatus(c, s)
  PROVE  /\ db' \in [Pair -> [uSource : Pair \cup {None}, uStatus : Status, ip : Pair, name : Names]]
         /\ \A e \in Pair : db'[e].uSource = db[e].uSource /\ db'[e].name = db[e].name /\ db'[e].ip = db[e].ip
         /\ job' = job \/ (job.from = "WAITING" /\ job' = [job EXCEPT !.from = "CANCELED"])
         /\ job'.data = job.data /\ job'.clone = job.clone /\ job'.to = job.to /\ job'.inOrder = job.inOrder
         /\ job'.from = job.from \/ job'.from = "CANCELED"
         /\ UNCHANGED <<vz, up, to, from, round>>
<1>1. db' = DbSet(c, "uStatus", s) /\ s \in Status
  BY DEF GroupStatus, Status
<1>2. job' = job \/ (job.from = "WAITING" /\ job' = [job EXCEPT !.from = "CANCELED"])
  BY DEF GroupStatus, Attempt
<1> QED
  BY <1>1, <1>2 DEF GroupStatus, IndType, TablesOK, JobsOK, DbSet

(* The backend, the deaths of handlers and nodes, the begins.               *)
LEMMA OtherType ==
  ASSUME IndType, UNCHANGED trial,
         \/ Backend \/ StartTo \/ StartFrom \/ KeepWaiting \/ HandlerDies
         \/ \E c \in Pair : NodeCrash(c) \/ NodeBoot(c)
  PROVE  IndType'
<1> USE DEF IndType
<1>1. ASSUME NEW c \in Pair, NEW second \in BOOLEAN, Switchover(c, second)
      PROVE  IndType'
  <2>1. /\ job' = [clone |-> c, to |-> "WAITING",
                   from |-> IF second THEN "WAITING" ELSE "none", inOrder |-> InOrder,
                   data |-> [ip |-> db[c].ip, name |-> db[c].name, uStatus |-> db[c].uStatus]]
        /\ round < trial.rounds /\ round' = round + 1
        /\ to.pc \in Resting /\ from.pc \in Resting
        /\ db[c].uSource = Other(c)
        /\ UNCHANGED <<vz, up, to, from>>
    BY <1>1 DEF Switchover, Resting, TablesOK
  <2>2. /\ db' \in [Pair -> [uSource : Pair \cup {None}, uStatus : Status, ip : Pair, name : Names]]
        /\ \A e \in Pair : db'[e].uSource = db[e].uSource /\ db'[e].name = db[e].name
    BY <1>1 DEF Switchover, TablesOK, Status
  <2>3. TablesOK'
    BY <2>1, <2>2 DEF TablesOK
  <2>4. round \in 0 .. MaxRound /\ round' \in 0 .. MaxRound /\ trial.rounds \in 0 .. MaxRound
    BY <2>1 DEF JobsOK
  <2>5. JobsOK'
    BY <2>1, <2>4 DEF JobsOK, JobStatus, TablesOK, InOrder
  <2>6. ToOK' /\ FromOK'
    BY <2>1 DEF ToOK, FromOK, HasIP, Resting, Addressing, Undos, Naming, FromNamed
  <2>7. OrderOK'
    BY <2>1, <2>2 DEF OrderOK, Resting
  <2>8. \A e \in Pair : db[e].name.fo \in Nat /\ db[e].name.fo <= round
    BY <2>4 DEF TablesOK, NamesOK, Names
  <2>9. to.name.fo <= round /\ from.name.fo <= round /\ to.pc # "foName"
    BY <2>1 DEF NamesOK, Resting
  <2>10. to.name.fo \in Int /\ from.name.fo \in Int
    BY DEF ToOK, FromOK, Locals, Names, NoName
  <2>11. job'.data.name.fo <= round'
    BY <2>1, <2>4, <2>8
  <2> QED
    BY <2>1, <2>2, <2>3, <2>4, <2>5, <2>6, <2>7, <2>8, <2>9, <2>10, <2>11 DEF NamesOK
<1>9. ASSUME NEW c \in Pair, NEW s \in {"ACTIVE", "STOPPED"}, GroupStatus(c, s) PROVE IndType'
  <2>1. JobsOK' /\ TablesOK'
    BY <1>9, StatusFields DEF JobsOK, JobStatus, TablesOK
  <2>2. ToOK' /\ FromOK'
    BY <1>9, StatusFields DEF ToOK, FromOK, HasIP
  <2>5. job.to = "none" => job'.from = "none"
    BY <1>9, StatusFields DEF OrderOK, GroupStatus
  <2>6. OrderOK'
    <3>1. /\ job'.to = job.to /\ Clone' = Clone /\ UNCHANGED <<to, from>> /\ job'.from \in {job.from, "CANCELED"}
          /\ db'[Clone].uSource = db[Clone].uSource
      BY <1>9, StatusFields DEF JobsOK
    <3> QED
      BY <2>5, <3>1 DEF OrderOK
  <2>3. NamesOK'
    BY <1>9, StatusFields DEF NamesOK, Unnamed
  <2> QED
    BY <2>1, <2>2, <2>3, <2>6
<1>2. ASSUME NEW row \in {"to", "from"}, GroupCancel(row) PROVE IndType'
  <2>1. /\ job' = [job EXCEPT ![row] = "CANCELED"] /\ job[row] \in {"WAITING", "ERROR"}
        /\ UNCHANGED <<db, vz, up, to, from, round>>
    BY <1>2 DEF GroupCancel
  <2>2. JobsOK' /\ job'.data = job.data /\ job'.clone = job.clone
    BY <2>1 DEF JobsOK, JobStatus, OrderOK
  <2>3. TablesOK' /\ ToOK' /\ FromOK'
    BY <2>1, <2>2 DEF TablesOK, ToOK, FromOK, HasIP
  <2>4. OrderOK'
    BY <2>1, <2>2 DEF OrderOK, JobsOK, Resting
  <2>5. NamesOK'
    BY <2>1, <2>2 DEF NamesOK, Unnamed, JobsOK
  <2> QED
    BY <2>2, <2>3, <2>4, <2>5
<1>3. CASE StartTo
  <2>1. /\ to' \in Locals /\ to'.pc = "getSource" /\ to'.name = NoName
    BY <1>3 DEF StartTo, Idle, Locals, Points, ToFaults
  <2>2. JobsOK' /\ job'.data = job.data /\ job'.clone = job.clone /\ job'.to = "RUNNING" /\ job'.from = job.from
    BY <1>3 DEF StartTo, JobsOK, JobStatus
  <2>3. TablesOK' /\ ToOK' /\ FromOK'
    BY <1>3, <2>1, <2>2 DEF StartTo, TablesOK, ToOK, FromOK, HasIP, Addressing, Undos, Naming
  <2>4. OrderOK'
    BY <1>3, <2>1, <2>2 DEF StartTo, OrderOK, Resting
  <2>5. NamesOK'
    BY <1>3, <2>1, <2>2 DEF StartTo, NamesOK, Unnamed, NoName, JobsOK
  <2> QED
    BY <2>2, <2>3, <2>4, <2>5
<1>4. CASE StartFrom
  <2>1. /\ from' \in Locals /\ from'.pc = "check" /\ from'.name = NoName
    BY <1>4 DEF StartFrom, Idle, Locals, Points
  <2>2. JobsOK' /\ job'.data = job.data /\ job'.clone = job.clone /\ job'.from = "RUNNING" /\ job'.to = job.to
    BY <1>4 DEF StartFrom, JobsOK, JobStatus
  <2>3. TablesOK' /\ ToOK' /\ FromOK'
    BY <1>4, <2>1, <2>2 DEF StartFrom, TablesOK, ToOK, FromOK, HasIP, Undos, FromNamed
  <2>4. OrderOK'
    BY <1>4, <2>1, <2>2 DEF StartFrom, OrderOK, Resting
  <2>5. NamesOK'
    BY <1>4, <2>1, <2>2 DEF StartFrom, NamesOK, Unnamed, NoName, JobsOK
  <2> QED
    BY <2>2, <2>3, <2>4, <2>5
<1>5. CASE KeepWaiting
  <2>1. /\ from' \in Locals /\ from'.pc = "off" /\ from'.name = NoName
    BY <1>5 DEF KeepWaiting, Idle, Locals, Points
  <2>2. JobsOK' /\ job'.data = job.data /\ job'.clone = job.clone /\ job'.from = "WAITING" /\ job'.to = job.to
    BY <1>5 DEF KeepWaiting, JobsOK, JobStatus
  <2>3. TablesOK' /\ ToOK' /\ FromOK'
    BY <1>5, <2>1, <2>2 DEF KeepWaiting, TablesOK, ToOK, FromOK, HasIP, Undos, FromNamed
  <2>4. OrderOK'
    BY <1>5, <2>1, <2>2 DEF KeepWaiting, OrderOK, Resting
  <2>5. NamesOK'
    BY <1>5, <2>1, <2>2 DEF KeepWaiting, NamesOK, Unnamed, NoName, JobsOK
  <2> QED
    BY <2>2, <2>3, <2>4, <2>5
<1>6. ASSUME UNCHANGED <<db, job, round>>, vz' = vz \/ TablesOK', up' = up \/ TablesOK',
             to' = to \/ to' = Die(to), from' = from \/ from' = Die(from)
      PROVE  IndType'
  <2>1. /\ to' = to \/ (to' \in Locals /\ to'.pc = "dead" /\ to.pc # "off" /\ to'.name = to.name)
        /\ from' = from \/ (from' \in Locals /\ from'.pc = "dead" /\ from.pc # "off" /\ from'.name = from.name)
    BY <1>6 DEF Die, ToOK, FromOK, Locals, Points
  <2>2. TablesOK' /\ JobsOK'
    BY <1>6 DEF TablesOK, JobsOK
  <2>3. ToOK'
    BY <1>6, <2>1 DEF ToOK, HasIP, Addressing, Undos, Naming
  <2>4. FromOK'
    BY <1>6, <2>1 DEF FromOK, Undos, FromNamed
  <2>5. OrderOK'
    BY <1>6, <2>1 DEF OrderOK, Resting
  <2>6. NamesOK'
    <3>1. Unnamed' => Unnamed
      BY <1>6, <2>1 DEF Unnamed, UntilAddress, Undos
    <3> QED
      BY <1>6, <2>1, <3>1 DEF NamesOK
  <2> QED
    BY <2>2, <2>3, <2>4, <2>5, <2>6
<1>7. ASSUME NEW c \in Pair, NodeCrash(c) \/ NodeBoot(c) PROVE IndType'
  <2>1. /\ UNCHANGED <<db, job, round>>
        /\ to' = to \/ to' = Die(to)
        /\ from' = from \/ from' = Die(from)
    BY <1>7 DEF NodeCrash, NodeBoot
  <2>2. PICK b \in BOOLEAN : vz' = VzSet(c, "running", b) /\ \E u \in BOOLEAN : up' = [up EXCEPT ![c] = u]
    BY <1>7 DEF NodeCrash, NodeBoot, TablesOK
  <2>3. Tables(db, vz)
    BY DEF Tables, TablesOK, NamesOK
  <2>4. Tables(db, vz')
    BY <2>2, <2>3, VzChange
  <2>5. TablesOK'
    BY <2>1, <2>2, <2>4 DEF Tables, TablesOK
  <2> QED
    BY <1>6, <2>1, <2>5
<1>8. CASE HandlerDies
  BY <1>6, <1>8 DEF HandlerDies
<1> QED
  BY <1>1, <1>2, <1>3, <1>4, <1>5, <1>7, <1>8, <1>9, BackendCases

LEMMA TypeStep == IndType /\ [Next /\ UNCHANGED trial]_<<vars, trial>> => IndType'
<1> SUFFICES ASSUME IndType, [Next /\ UNCHANGED trial]_<<vars, trial>> PROVE IndType'
  OBVIOUS
<1>1. CASE UNCHANGED <<vars, trial>>
  BY <1>1 DEF vars, IndType, TablesOK, JobsOK, ToOK, FromOK, OrderOK, NamesOK, HasIP, Unnamed
<1>2. CASE Next /\ UNCHANGED trial
  BY <1>2, ToFailsType, FromFailsType, ToType, FromType, OtherType DEF Next, Fail
<1> QED
  BY <1>1, <1>2

THEOREM TypeCorrect == Spec => []TypeOK
<1>1. IndType => TypeOK
  BY DEF IndType, TypeOK, TablesOK, JobsOK, ToOK, FromOK
<1> QED
  BY <1>1, TypeInit, TypeStep, PTL DEF Spec

-----------------------------------------------------------------------------
(* The containers of the pair, and the fields of their rows.               *)
LEMMA ThePair ==
  ASSUME IndType
  PROVE  /\ TablesOK /\ Clone \in Pair /\ Source \in Pair /\ Source = Other(Clone) /\ Clone = Other(Source)
         /\ Source # Clone /\ \A c \in Pair : c = Clone \/ c = Source
  BY DEF IndType, TablesOK, JobsOK

(* What an UPDATE of one column leaves.                                    *)
LEMMA DbFields ==
  ASSUME TablesOK, NEW c \in Pair, NEW x
  PROVE
         /\ DbSet(c, "uSource", x)[c].uSource = x /\ DbSet(c, "uSource", x)[c].uStatus = db[c].uStatus
         /\ DbSet(c, "uSource", x)[c].ip = db[c].ip /\ DbSet(c, "uSource", x)[c].name = db[c].name
         /\ DbSet(c, "uSource", x)[Other(c)] = db[Other(c)]
         /\ DbSet(c, "uStatus", x)[c].uSource = db[c].uSource /\ DbSet(c, "uStatus", x)[c].uStatus = x
         /\ DbSet(c, "uStatus", x)[c].ip = db[c].ip /\ DbSet(c, "uStatus", x)[c].name = db[c].name
         /\ DbSet(c, "uStatus", x)[Other(c)] = db[Other(c)]
         /\ DbSet(c, "ip", x)[c].uSource = db[c].uSource /\ DbSet(c, "ip", x)[c].uStatus = db[c].uStatus
         /\ DbSet(c, "ip", x)[c].ip = x /\ DbSet(c, "ip", x)[c].name = db[c].name
         /\ DbSet(c, "ip", x)[Other(c)] = db[Other(c)]
         /\ DbSet(c, "name", x)[c].uSource = db[c].uSource /\ DbSet(c, "name", x)[c].uStatus = db[c].uStatus
         /\ DbSet(c, "name", x)[c].ip = db[c].ip /\ DbSet(c, "name", x)[c].name = x
         /\ DbSet(c, "name", x)[Other(c)] = db[Other(c)]
  BY DEF TablesOK, DbSet

(* What a vzctl command leaves.                                            *)
LEMMA VzFields ==
  ASSUME TablesOK, NEW c \in Pair, NEW x
  PROVE  /\ VzSet(c, "ips", x)[c].name = vz[c].name /\ VzSet(c, "name", x)[c].name = x
         /\ VzSet(c, "ips", x)[c].ips = x /\ VzSet(c, "name", x)[c].ips = vz[c].ips
         /\ VzSet(c, "ips", x)[Other(c)] = vz[Other(c)] /\ VzSet(c, "name", x)[Other(c)] = vz[Other(c)]
  BY DEF TablesOK, VzSet

LEMMA SwitchFields ==
  ASSUME TablesOK, NEW c \in Pair, NEW b \in BOOLEAN
  PROVE  /\ VzSet(c, "running", b)[c].name = vz[c].name /\ VzSet(c, "onboot", b)[c].name = vz[c].name
         /\ VzSet(c, "running", b)[c].ips = vz[c].ips /\ VzSet(c, "onboot", b)[c].ips = vz[c].ips
         /\ VzSet(c, "running", b)[Other(c)] = vz[Other(c)] /\ VzSet(c, "onboot", b)[Other(c)] = vz[Other(c)]
  BY DEF TablesOK, VzSet

Boxes == [Pair -> [ips : SUBSET Pair, name : Names, running : BOOLEAN, onboot : BOOLEAN]]

LEMMA OnbootFields ==
  ASSUME NEW w \in Boxes, NEW c \in Pair
  PROVE  /\ Onboot(w, c)[Other(c)] = w[Other(c)]
         /\ Onboot(w, c)[c].ips = w[c].ips /\ Onboot(w, c)[c].name = w[c].name
  BY DEF Onboot, Boxes

LEMMA IpaddFields ==
  ASSUME NEW w \in Boxes, NEW c \in Pair, NEW ip, NEW v \in Ipadd(w, c, ip)
  PROVE  /\ v[Other(c)] = w[Other(c)] /\ v[c].name = w[c].name
         /\ "silent" \notin Faults => v[c].ips = w[c].ips \cup ({ip} \ {None})
<1> DEFINE S == w[c].ips \cup ({ip} \ {None})
<1>1. /\ v = w \/ v = [w EXCEPT ![c].ips = S]
      /\ "silent" \notin Faults => v = [w EXCEPT ![c].ips = S]
  BY DEF Ipadd, Attempt
<1> HIDE DEF S
<1>2. /\ v[Other(c)] = w[Other(c)] /\ v[c].name = w[c].name
      /\ "silent" \notin Faults => v[c].ips = S
  BY <1>1 DEF Boxes
<1> QED
  BY <1>2 DEF S

LEMMA ReaddressFields ==
  ASSUME TablesOK, NEW c \in Pair, NEW ip, NEW v \in Readdress(c, ip)
  PROVE  /\ v[Other(c)] = vz[Other(c)] /\ v[c].name = vz[c].name
         /\ "silent" \notin Faults => v[c].ips = {ip} \ {None}
<1>1. PICK w \in Attempt(vz, VzSet(c, "ips", {})) : v \in Ipadd(w, c, ip)
  BY DEF Readdress
<1>2. /\ w = vz \/ w = VzSet(c, "ips", {})
      /\ "silent" \notin Faults => w = VzSet(c, "ips", {})
  BY DEF Attempt
<1>3. /\ w \in Boxes /\ w[Other(c)] = vz[Other(c)]
      /\ w[c].name = vz[c].name /\ ("silent" \notin Faults => w[c].ips = {})
  BY <1>2 DEF VzSet, TablesOK, Boxes
<1>4. /\ v[Other(c)] = w[Other(c)] /\ v[c].name = w[c].name
      /\ "silent" \notin Faults => v[c].ips = w[c].ips \cup ({ip} \ {None})
  BY <1>1, <1>3, IpaddFields
<1> QED
  BY <1>3, <1>4

-----------------------------------------------------------------------------
(* A step of FailoverTo before it is done, as the rows of the pair see it. *)
ToActs ==
    /\ to.pc \in ToSteps \cup Undos
    /\ UNCHANGED <<up, from, round, trial>>
    /\ job' = job \/ job' = [job EXCEPT !.to = "ERROR"]

(* What such a step changes: of the source nothing but its name in the     *)
(* record, of the clone one thing at a time, and by point which.           *)
ToFrame ==
    /\ ToActs /\ job' = job
    /\ vz'[Source] = vz[Source]
    /\ /\ db'[Source].uSource = db[Source].uSource /\ db'[Source].uStatus = db[Source].uStatus
       /\ db'[Source].ip = db[Source].ip
       /\ db'[Source].name = IF to.pc = "foName" THEN Fo(to.name) ELSE db[Source].name
    /\ /\ to.pc = "unsetSource" => db'[Clone].uSource = None
       /\ to.pc \notin {"unsetSource", "undo1"} => db'[Clone].uSource = db[Clone].uSource
       /\ to.pc = "setIP" => db'[Clone].ip = to.ip
       /\ to.pc \notin {"setIP", "undo4"} => db'[Clone].ip = db[Clone].ip
       /\ db'[Clone].name = IF to.pc = "setName" THEN to.name ELSE db[Clone].name
    /\ /\ to.pc = "ipdel" => vz'[Clone].ips = {}
       /\ to.pc = "ipadd" => vz'[Clone].ips = vz[Clone].ips \cup {to.ip}
       /\ to.pc \notin {"ipdel", "ipadd", "undo3"} => vz'[Clone].ips = vz[Clone].ips
       /\ vz'[Clone].name = IF to.pc = "vzName" THEN to.name ELSE vz[Clone].name
    /\ /\ to'.name = IF to.pc = "getNames" THEN db[Source].name ELSE to.name
       /\ to'.ip = IF to.pc = "getIP" THEN db[Source].ip ELSE to.ip
       /\ to.pc # "ipdel" => to'.orig = to.orig
       /\ to'.at = to.at
    /\ to.pc \in ToSteps => to'.pc = AfterTo(to.pc)
    /\ to.pc \in Undos /\ to.at \notin FallThrough =>
          \A k \in 1 .. 4 : to.pc = Undo(k) =>
             to'.pc = (IF k < ToLevel(to.at) THEN Undo(k + 1) ELSE "off") /\ to'.pc \in Undos \cup {"off"}

(* What the untested calls do when none fails.                             *)
ToTells ==
    /\ to.pc = "ipdel" => to'.orig = db[Clone].ip
    /\ to.pc = "undo1" => db'[Clone].uSource = Source
    /\ to.pc = "undo3" => vz'[Clone].ips = {to.orig} \ {None}
    /\ to.pc = "undo4" /\ to.orig # None => db'[Clone].ip = to.orig

LEMMA ToGoesFrame ==
  ASSUME IndType, UNCHANGED trial, NEW s \in ToSteps, NEW d, NEW v, NEW m \in Locals, To(s, d, v, m)
  PROVE  /\ ToActs /\ UNCHANGED job /\ db' = d /\ vz' = v /\ to.pc = s /\ to.pc \notin Undos
         /\ to'.pc = AfterTo(s) /\ to'.name = m.name /\ to'.ip = m.ip /\ to'.orig = m.orig /\ to'.at = m.at
<1>1. to.pc = s /\ to' = [m EXCEPT !.pc = AfterTo(s)] /\ ToActs /\ UNCHANGED job /\ db' = d /\ vz' = v
  BY DEF To, ToActs
<1>2. to.pc \notin Undos
  BY <1>1 DEF ToSteps, UntilAddress, Naming, Undos
<1> QED
  BY <1>1, <1>2 DEF Locals

LEMMA ToUndoesFrame ==
  ASSUME IndType, UNCHANGED trial, NEW k \in 1 .. 4, NEW d, NEW v, ToUndo(k, d, v)
  PROVE  /\ ToActs /\ UNCHANGED job /\ db' = d /\ vz' = v /\ to.pc = Undo(k) /\ to.pc \in Undos \ ToSteps
         /\ to'.name = to.name /\ to'.ip = to.ip /\ to'.orig = to.orig /\ to'.at = to.at
         /\ to.at \notin FallThrough =>
             \A j \in 1 .. 4 : to.pc = Undo(j) =>
               to'.pc = (IF j < ToLevel(to.at) THEN Undo(j + 1) ELSE "off") /\ to'.pc \in Undos \cup {"off"}
<1>1. to.pc = Undo(k) /\ to.pc \in Undos \ ToSteps /\ to.at \in ToFaults /\ to \in Locals
  BY DEF ToUndo, Undo, Undos, IndType, ToOK, ToSteps, UntilAddress, Naming
<1>2. ToActs /\ UNCHANGED job /\ db' = d /\ vz' = v
  BY <1>1 DEF ToActs, ToUndo
<1>3. ToLevel(to.at) \in 0 .. 4
  BY <1>1 DEF ToFaults, ToLevel
<1> DEFINE q == IF to.at \in FallThrough THEN AfterTo(to.at) ELSE "off"
           p == IF k < ToLevel(to.at) THEN Undo(k + 1) ELSE q
<1>5. to' = [to EXCEPT !.pc = p]
  BY DEF ToUndo
<1>6. \A j \in 1 .. 4 : to.pc = Undo(j) => j = k
  BY <1>1 DEF Undo
<1>7. k < ToLevel(to.at) => Undo(k + 1) \in Undos
  BY <1>3 DEF Undo, Undos
<1>8. to.at \notin FallThrough =>
        \A j \in 1 .. 4 : to.pc = Undo(j) =>
          p = (IF j < ToLevel(to.at) THEN Undo(j + 1) ELSE "off") /\ p \in Undos \cup {"off"}
  BY <1>6, <1>7
<1> HIDE DEF p
<1>9. to'.pc = p /\ to'.at = to.at /\ to'.name = to.name /\ to'.orig = to.orig /\ to'.ip = to.ip
  BY <1>1, <1>5 DEF Locals
<1> QED
  BY <1>1, <1>2, <1>8, <1>9

LEMMA ToFrames ==
  ASSUME IndType, UNCHANGED trial, ToSucceeds, ~ToDone
  PROVE  ToFrame /\ ("silent" \notin Faults => ToTells)
<1>0. to \in Locals /\ TablesOK /\ ToOK /\ JobsOK
  BY DEF IndType, ToOK
<1>1. CASE GetSource
  <2> DEFINE m == [to EXCEPT !.src = db[Clone].uSource]
  <2>1. To("getSource", db, vz, m) /\ to.pc = "getSource" /\ "getSource" \in ToSteps
    BY <1>0, <1>1 DEF GetSource, To, ToSteps, UntilAddress, Naming, ToOK
  <2>3. m \in Locals /\ m.orig = to.orig /\ m.name = to.name /\ m.ip = to.ip /\ m.at = to.at
    BY <1>0, <2>1, ToBegins, ThePair DEF Locals, TablesOK, Attempt
  <2> HIDE DEF m
  <2> QED
    BY <1>0, <2>1, <2>3, ToGoesFrame DEF ToFrame, ToTells
<1>2. CASE UnsetSource
  <2> DEFINE d == DbSet(Clone, "uSource", None)
  <2>1. To("unsetSource", d, vz, to) /\ to.pc = "unsetSource" /\ "unsetSource" \in ToSteps
    BY <1>0, <1>2 DEF UnsetSource, To, ToSteps, UntilAddress, Naming, ToOK
  <2>2. /\ d[Clone].uSource = None
        /\ d[Clone].name = db[Clone].name
        /\ d[Clone].ip = db[Clone].ip
        /\ d[Source] = db[Source]
    BY <1>0, ThePair, DbFields DEF Attempt
  <2> HIDE DEF d
  <2> QED
    BY <1>0, <2>1, <2>2, ToGoesFrame DEF ToFrame, ToTells
<1>3. CASE NodeStatus
  <2> DEFINE m == [to EXCEPT !.stopped = ~vz[Clone].running]
  <2>1. To("nodeStatus", db, vz, m) /\ to.pc = "nodeStatus" /\ "nodeStatus" \in ToSteps
    BY <1>0, <1>3 DEF NodeStatus, To, ToSteps, UntilAddress, Naming, ToOK
  <2>3. m \in Locals /\ m.orig = to.orig /\ m.name = to.name /\ m.ip = to.ip /\ m.at = to.at
    BY <1>0, <2>1, ToBegins, ThePair DEF Locals, TablesOK, Attempt
  <2> HIDE DEF m
  <2> QED
    BY <1>0, <2>1, <2>3, ToGoesFrame DEF ToFrame, ToTells
<1>4. CASE StartClone
  <2> DEFINE v == VzSet(Clone, "running", TRUE)
  <2>1. To("start", db, v, to) /\ to.pc = "start" /\ "start" \in ToSteps
    BY <1>0, <1>4 DEF StartClone, To, ToSteps, UntilAddress, Naming, ToOK
  <2>2. /\ v[Clone].name = vz[Clone].name
        /\ v[Clone].ips = vz[Clone].ips
        /\ v[Source] = vz[Source]
    BY <1>0, ThePair, SwitchFields DEF Attempt
  <2> HIDE DEF v
  <2> QED
    BY <1>0, <2>1, <2>2, ToGoesFrame DEF ToFrame, ToTells
<1>5. CASE OnbootClone
  <2> DEFINE v == VzSet(Clone, "onboot", TRUE)
  <2>1. To("onboot", db, v, to) /\ to.pc = "onboot" /\ "onboot" \in ToSteps
    BY <1>0, <1>5 DEF OnbootClone, To, ToSteps, UntilAddress, Naming, ToOK
  <2>2. /\ v[Clone].name = vz[Clone].name
        /\ v[Clone].ips = vz[Clone].ips
        /\ v[Source] = vz[Source]
    BY <1>0, ThePair, SwitchFields DEF Attempt
  <2> HIDE DEF v
  <2> QED
    BY <1>0, <2>1, <2>2, ToGoesFrame DEF ToFrame, ToTells
<1>6. CASE ActiveClone
  <2>0. PICK d \in Attempt(db, DbSet(Clone, "uStatus", "ACTIVE")) : To("active", d, vz, to)
    BY <1>6 DEF ActiveClone
  <2>1. To("active", d, vz, to) /\ to.pc = "active" /\ "active" \in ToSteps
    BY <1>0, <1>6, <2>0 DEF ActiveClone, To, ToSteps, UntilAddress, Naming, ToOK
  <2>2. /\ d[Clone].uSource = db[Clone].uSource
        /\ d[Clone].name = db[Clone].name
        /\ d[Clone].ip = db[Clone].ip
        /\ d[Source] = db[Source]
    BY <1>0, ThePair, <2>0, DbFields DEF Attempt
  <2> QED
    BY <1>0, <2>1, <2>2, ToGoesFrame DEF ToFrame, ToTells
<1>7. CASE IpdelClone
  <2>0. PICK ip \in Attempt(None, db[Clone].ip) :
            To("ipdel", db, VzSet(Clone, "ips", {}), [to EXCEPT !.orig = ip])
    BY <1>7 DEF IpdelClone
  <2> DEFINE v == VzSet(Clone, "ips", {})
             m == [to EXCEPT !.orig = ip]
  <2>1. To("ipdel", db, v, m) /\ to.pc = "ipdel" /\ "ipdel" \in ToSteps
    BY <1>0, <1>7, <2>0 DEF IpdelClone, To, ToSteps, UntilAddress, Naming, ToOK
  <2>2. /\ v[Clone].name = vz[Clone].name
        /\ v[Clone].ips = {}
        /\ v[Source] = vz[Source]
    BY <1>0, ThePair, <2>0, VzFields DEF Attempt
  <2>3. /\ m \in Locals /\ m.orig = ip /\ m.name = to.name /\ m.ip = to.ip /\ m.at = to.at
        /\ "silent" \notin Faults => ip = db[Clone].ip
    BY <1>0, <2>1, ToBegins, ThePair, <2>0 DEF Locals, TablesOK, Attempt
  <2> HIDE DEF v, m
  <2> QED
    BY <1>0, <2>1, <2>2, <2>3, ToGoesFrame DEF ToFrame, ToTells
<1>8. CASE GetIP
  <2> DEFINE m == [to EXCEPT !.ip = db[to.src].ip]
  <2>1. To("getIP", db, vz, m) /\ to.pc = "getIP" /\ "getIP" \in ToSteps
    BY <1>0, <1>8 DEF GetIP, To, ToSteps, UntilAddress, Naming, ToOK
  <2>3. m \in Locals /\ m.orig = to.orig /\ m.name = to.name /\ m.ip = db[Source].ip /\ m.at = to.at
    BY <1>0, <2>1, ToBegins, ThePair DEF Locals, TablesOK, Attempt
  <2> HIDE DEF m
  <2> QED
    BY <1>0, <2>1, <2>3, ToGoesFrame DEF ToFrame, ToTells
<1>9. CASE IpaddClone
  <2> DEFINE v == VzSet(Clone, "ips", vz[Clone].ips \cup {to.ip})
  <2>1. To("ipadd", db, v, to) /\ to.pc = "ipadd" /\ "ipadd" \in ToSteps
    BY <1>0, <1>9 DEF IpaddClone, To, ToSteps, UntilAddress, Naming, ToOK
  <2>2. /\ v[Clone].name = vz[Clone].name
        /\ v[Clone].ips = vz[Clone].ips \cup {to.ip}
        /\ v[Source] = vz[Source]
    BY <1>0, ThePair DEF VzSet, TablesOK
  <2> HIDE DEF v
  <2> QED
    BY <1>0, <2>1, <2>2, ToGoesFrame DEF ToFrame, ToTells
<1>10. CASE SetCloneIP
  <2> DEFINE d == DbSet(Clone, "ip", to.ip)
  <2>1. To("setIP", d, vz, to) /\ to.pc = "setIP" /\ "setIP" \in ToSteps
    BY <1>0, <1>10 DEF SetCloneIP, To, ToSteps, UntilAddress, Naming, ToOK
  <2>2. /\ d[Clone].uSource = db[Clone].uSource
        /\ d[Clone].name = db[Clone].name
        /\ d[Clone].ip = to.ip
        /\ d[Source] = db[Source]
    BY <1>0, ThePair, DbFields DEF Attempt
  <2> HIDE DEF d
  <2> QED
    BY <1>0, <2>1, <2>2, ToGoesFrame DEF ToFrame, ToTells
<1>11. CASE GetNames
  <2> DEFINE m == [to EXCEPT !.name = db[to.src].name]
  <2>1. To("getNames", db, vz, m) /\ to.pc = "getNames" /\ "getNames" \in ToSteps
    BY <1>0, <1>11 DEF GetNames, To, ToSteps, UntilAddress, Naming, ToOK
  <2>3. m \in Locals /\ m.orig = to.orig /\ m.name = db[Source].name /\ m.ip = to.ip /\ m.at = to.at
    BY <1>0, <2>1, ToBegins, ThePair DEF Locals, TablesOK, Attempt
  <2> HIDE DEF m
  <2> QED
    BY <1>0, <2>1, <2>3, ToGoesFrame DEF ToFrame, ToTells
<1>12. CASE FoName
  <2> DEFINE d == DbSet(Source, "name", Fo(to.name))
  <2>1. To("foName", d, vz, to) /\ to.pc = "foName" /\ "foName" \in ToSteps
    BY <1>0, <1>12 DEF FoName, To, ToSteps, UntilAddress, Naming, ToOK
  <2>2. /\ d[Source].name = Fo(to.name)
        /\ d[Source].uStatus = db[Source].uStatus
        /\ d[Source].uSource = db[Source].uSource
        /\ d[Source].ip = db[Source].ip
        /\ d[Clone] = db[Clone]
    BY <1>0, ThePair, DbFields DEF Attempt
  <2> HIDE DEF d
  <2> QED
    BY <1>0, <2>1, <2>2, ToGoesFrame DEF ToFrame, ToTells
<1>13. CASE SetCloneName
  <2> DEFINE d == DbSet(Clone, "name", to.name)
  <2>1. To("setName", d, vz, to) /\ to.pc = "setName" /\ "setName" \in ToSteps
    BY <1>0, <1>13 DEF SetCloneName, To, ToSteps, UntilAddress, Naming, ToOK
  <2>2. /\ d[Clone].name = to.name
        /\ d[Clone].uSource = db[Clone].uSource
        /\ d[Clone].ip = db[Clone].ip
        /\ d[Source] = db[Source]
    BY <1>0, ThePair, DbFields DEF Attempt
  <2> HIDE DEF d
  <2> QED
    BY <1>0, <2>1, <2>2, ToGoesFrame DEF ToFrame, ToTells
<1>14. CASE VzCloneName
  <2> DEFINE v == VzSet(Clone, "name", to.name)
  <2>1. To("vzName", db, v, to) /\ to.pc = "vzName" /\ "vzName" \in ToSteps
    BY <1>0, <1>14 DEF VzCloneName, To, ToSteps, UntilAddress, Naming, ToOK
  <2>2. /\ v[Clone].name = to.name
        /\ v[Clone].ips = vz[Clone].ips
        /\ v[Source] = vz[Source]
    BY <1>0, ThePair, VzFields DEF Attempt
  <2> HIDE DEF v
  <2> QED
    BY <1>0, <2>1, <2>2, ToGoesFrame DEF ToFrame, ToTells
<1>15. CASE ActionScripts
  <2>1. To("scripts", db, vz, to) /\ to.pc = "scripts" /\ "scripts" \in ToSteps
    BY <1>0, <1>15 DEF ActionScripts, To, ToSteps, UntilAddress, Naming, ToOK
  <2> QED
    BY <1>0, <2>1, ToGoesFrame DEF ToFrame, ToTells
<1>16. CASE UndoSource
  <2>1. PICK d \in Attempt(db, DbSet(Clone, "uSource", to.src)) : ToUndo(1, d, vz)
    BY <1>16 DEF UndoSource
  <2>2. to.pc = "undo1" /\ to.src = Source
    BY <1>0, <2>1 DEF ToUndo, Undo, ToOK
  <2>3. /\ d[Clone].name = db[Clone].name /\ d[Clone].ip = db[Clone].ip /\ d[Source] = db[Source]
        /\ "silent" \notin Faults => d[Clone].uSource = Source
    BY <1>0, <2>2, ThePair, DbFields DEF Attempt
  <2> QED
    BY <2>1, <2>2, <2>3, ToUndoesFrame DEF ToFrame, ToTells
<1>17. CASE UndoStart
  <2>1. PICK d \in Attempt(db, DbSet(Clone, "uStatus", "AWAITFAIL")),
             v \in (IF to.stopped THEN Attempt(vz, VzSet(Clone, "running", FALSE)) ELSE {vz}) :
            ToUndo(2, d, v)
    BY <1>17 DEF UndoStart
  <2>2. to.pc = "undo2"
    BY <2>1 DEF ToUndo, Undo
  <2>3. /\ d[Clone].name = db[Clone].name /\ d[Clone].ip = db[Clone].ip /\ d[Source] = db[Source]
        /\ d[Clone].uSource = db[Clone].uSource
    BY <1>0, ThePair, DbFields DEF Attempt
  <2>4. v = vz \/ v = VzSet(Clone, "running", FALSE)
    BY DEF Attempt
  <2>5. v[Source] = vz[Source] /\ v[Clone].name = vz[Clone].name /\ v[Clone].ips = vz[Clone].ips
    BY <1>0, <2>4, ThePair, SwitchFields
  <2> QED
    BY <2>1, <2>2, <2>3, <2>5, ToUndoesFrame DEF ToFrame, ToTells
<1>18. CASE UndoIps
  <2>1. PICK v \in Readdress(Clone, to.orig) : ToUndo(3, db, v)
    BY <1>18 DEF UndoIps
  <2>2. to.pc = "undo3"
    BY <2>1 DEF ToUndo, Undo
  <2>3. /\ v[Source] = vz[Source] /\ v[Clone].name = vz[Clone].name
        /\ "silent" \notin Faults => v[Clone].ips = {to.orig} \ {None}
    BY <1>0, ThePair, ReaddressFields
  <2> QED
    BY <2>1, <2>2, <2>3, ToUndoesFrame DEF ToFrame, ToTells
<1>19. CASE UndoIP
  <2>1. PICK d \in RestoreIP(Clone, to.orig) : ToUndo(4, d, vz)
    BY <1>19 DEF UndoIP
  <2>2. to.pc = "undo4"
    BY <2>1 DEF ToUndo, Undo
  <2>3. /\ d[Clone].name = db[Clone].name /\ d[Clone].uSource = db[Clone].uSource /\ d[Source] = db[Source]
        /\ "silent" \notin Faults /\ to.orig # None => d[Clone].ip = to.orig
    BY <1>0, ThePair, DbFields DEF RestoreIP, Attempt
  <2> QED
    BY <2>1, <2>2, <2>3, ToUndoesFrame DEF ToFrame, ToTells
<1> QED
  BY <1>1, <1>2, <1>3, <1>4, <1>5, <1>6, <1>7, <1>8, <1>9, <1>10, <1>11, <1>12, <1>13, <1>14, <1>15, <1>16, <1>17, <1>18, <1>19 DEF ToSucceeds

-----------------------------------------------------------------------------
(* What a step of FailoverFrom changes: of the source one thing at a time, *)
(* of the clone nothing.                                                   *)
FromActs ==
    /\ from.pc \in FromSteps \cup Undos
    /\ UNCHANGED <<up, to, round, trial>>
    /\ job' = job \/ job' = [job EXCEPT !.from = "ERROR"]
    /\ db'[Clone] = db[Clone] /\ vz'[Clone] = vz[Clone]

FromFrame ==
    /\ FromActs /\ from.pc \in FromSteps
    /\ db'[Source].uSource = IF from.pc = "setSource" THEN Clone ELSE db[Source].uSource
    /\ db'[Source].ip = IF from.pc = "fromSetIP" THEN job.data.ip ELSE db[Source].ip
    /\ db'[Source].name = IF from.pc = "fromName" THEN job.data.name ELSE db[Source].name
    /\ vz'[Source].name = IF from.pc = "fromVzName" THEN job.data.name ELSE vz[Source].name
    /\ vz'[Source].ips = CASE from.pc = "fromIpdel" -> {}
                           [] from.pc = "fromIpadd" -> vz[Source].ips \cup {job.data.ip}
                           [] from.pc \notin {"fromIpdel", "fromIpadd"} -> vz[Source].ips
    /\ from'.name = IF from.pc = "status" THEN db[Source].name ELSE from.name
    /\ from'.pc = AfterFrom(from.pc)

(* A level of its rollback.                                                *)
FromBack ==
    /\ FromActs /\ from.pc \in Undos /\ job' = job
    /\ db'[Source].uSource = db[Source].uSource
    /\ db'[Source].name \in {db[Source].name} \cup (IF from.pc = "undo3" THEN {from.name} ELSE {})
    /\ from'.pc \in Undos \cup {"off"} /\ from'.at = from.at /\ from'.name = from.name

LEMMA FromGoesFrame ==
  ASSUME IndType, UNCHANGED trial, NEW s \in FromSteps, NEW d, NEW v, NEW m \in Locals, From(s, d, v, m),
         job' = job \/ job' = [job EXCEPT !.from = "ERROR"], d[Clone] = db[Clone], v[Clone] = vz[Clone]
  PROVE  /\ FromActs /\ db' = d /\ vz' = v /\ from.pc = s
         /\ from'.pc = AfterFrom(s) /\ from'.name = m.name
<1>1. from.pc = s /\ from' = [m EXCEPT !.pc = AfterFrom(s)] /\ FromActs /\ db' = d /\ vz' = v
  BY DEF From, FromActs
<1> QED
  BY <1>1 DEF Locals

LEMMA FromUndoesFrame ==
  ASSUME IndType, UNCHANGED trial, NEW k \in 1 .. 4, NEW d, NEW v, FromUndo(k, d, v),
         d[Clone] = db[Clone], v[Clone] = vz[Clone]
  PROVE  /\ FromActs /\ db' = d /\ vz' = v /\ from.pc \in Undos /\ job' = job
         /\ from'.pc \in Undos \cup {"off"} /\ from'.at = from.at /\ from'.name = from.name
<1>1. from.pc = Undo(k) /\ from.pc \in Undos /\ from.at \in FromFaults \ {"fromIpdel"} /\ from \in Locals
  BY DEF FromUndo, Undo, Undos, IndType, FromOK
<1>2. FromLevel(from.at) \in 1 .. 4
  BY <1>1 DEF FromFaults, FromLevel
<1> DEFINE p == IF k < FromLevel(from.at) THEN Undo(k + 1) ELSE "off"
<1>3. p \in Undos \cup {"off"}
  BY <1>2 DEF Undo, Undos
<1>4. from' = [from EXCEPT !.pc = p]
  BY DEF FromUndo
<1> HIDE DEF p
<1>5. from'.pc = p /\ from'.at = from.at /\ from'.name = from.name
  BY <1>1, <1>4 DEF Locals
<1>6. FromActs /\ db' = d /\ vz' = v /\ job' = job
  BY <1>1 DEF FromActs, FromUndo
<1> QED
  BY <1>1, <1>3, <1>5, <1>6

LEMMA FromFrames ==
  ASSUME IndType, UNCHANGED trial, FromSucceeds, ~CheckDone, ~FromDone
  PROVE  FromFrame \/ FromBack
<1>0. from \in Locals /\ TablesOK /\ JobsOK
  BY DEF IndType, FromOK
<1>1. CASE IpdelSource
  <2> DEFINE v == VzSet(Source, "ips", {})
  <2>1. From("fromIpdel", db, v, from) /\ from.pc = "fromIpdel" /\ "fromIpdel" \in FromSteps
    BY <1>1 DEF IpdelSource, From, FromSteps, FromNamed
  <2>2. /\ v[Clone] = vz[Clone]
        /\ v[Source].name = vz[Source].name
        /\ v[Source].ips = {}
    BY <1>0, ThePair, VzFields
  <2>3. job' = job \/ job' = [job EXCEPT !.from = "ERROR"]
    BY <1>1 DEF IpdelSource
  <2> HIDE DEF v
  <2> QED
    BY <1>0, <2>1, <2>2, <2>3, FromGoesFrame DEF FromFrame
<1>2. CASE StopSource
  <2> DEFINE v == VzSet(Source, "running", FALSE)
  <2>1. From("stop", db, v, from) /\ from.pc = "stop" /\ "stop" \in FromSteps
    BY <1>2 DEF StopSource, From, FromSteps, FromNamed
  <2>2. /\ v[Clone] = vz[Clone]
        /\ v[Source].name = vz[Source].name
        /\ v[Source].ips = vz[Source].ips
    BY <1>0, ThePair, SwitchFields
  <2>3. job' = job \/ job' = [job EXCEPT !.from = "ERROR"]
    BY <1>2 DEF StopSource
  <2> HIDE DEF v
  <2> QED
    BY <1>0, <2>1, <2>2, <2>3, FromGoesFrame DEF FromFrame
<1>3. CASE SourceStatus
  <2>1. PICK d \in Attempt(db, DbSet(Source, "uStatus", IF StopsSource THEN "STOPPED" ELSE "ACTIVE")),
             v \in (IF StopsSource THEN Attempt(vz, VzSet(Source, "onboot", FALSE)) ELSE {vz}) :
            From("status", d, v, [from EXCEPT !.name = db[Source].name])
    BY <1>3 DEF SourceStatus
  <2> DEFINE m == [from EXCEPT !.name = db[Source].name]
             x == IF StopsSource THEN "STOPPED" ELSE "ACTIVE"
  <2>2. From("status", d, v, m) /\ job' = job
    BY <1>3, <2>1 DEF SourceStatus
  <2>3. from.pc = "status" /\ "status" \in FromSteps
    BY <2>2 DEF From, FromSteps
  <2>4. m \in Locals /\ m.name = db[Source].name
    BY <1>0, ThePair DEF Locals, TablesOK
  <2>5. /\ d = db \/ d = DbSet(Source, "uStatus", x)
        /\ v = vz \/ v = VzSet(Source, "onboot", FALSE)
    BY DEF Attempt
  <2> HIDE DEF m, x
  <2>6. /\ d[Clone] = db[Clone] /\ d[Source].name = db[Source].name /\ d[Source].uSource = db[Source].uSource
        /\ d[Source].ip = db[Source].ip
    BY <1>0, <2>5, ThePair, DbFields
  <2>7. v[Clone] = vz[Clone] /\ v[Source].name = vz[Source].name /\ v[Source].ips = vz[Source].ips
    BY <1>0, <2>5, ThePair, SwitchFields
  <2> QED
    BY <2>2, <2>3, <2>4, <2>6, <2>7, FromGoesFrame DEF FromFrame
<1>4. CASE SetSourceName
  <2> DEFINE d == DbSet(Source, "name", job.data.name)
  <2>1. From("fromName", d, vz, from) /\ from.pc = "fromName" /\ "fromName" \in FromSteps
    BY <1>4 DEF SetSourceName, From, FromSteps, FromNamed
  <2>2. /\ d[Clone] = db[Clone]
        /\ d[Source].uSource = db[Source].uSource
        /\ d[Source].ip = db[Source].ip
        /\ d[Source].name = job.data.name
    BY <1>0, ThePair, DbFields
  <2>3. job' = job \/ job' = [job EXCEPT !.from = "ERROR"]
    BY <1>4 DEF SetSourceName
  <2> HIDE DEF d
  <2> QED
    BY <1>0, <2>1, <2>2, <2>3, FromGoesFrame DEF FromFrame
<1>5. CASE VzSourceName
  <2> DEFINE v == VzSet(Source, "name", job.data.name)
  <2>1. From("fromVzName", db, v, from) /\ from.pc = "fromVzName" /\ "fromVzName" \in FromSteps
    BY <1>5 DEF VzSourceName, From, FromSteps, FromNamed
  <2>2. /\ v[Clone] = vz[Clone]
        /\ v[Source].name = job.data.name
        /\ v[Source].ips = vz[Source].ips
    BY <1>0, ThePair, VzFields
  <2>3. job' = job \/ job' = [job EXCEPT !.from = "ERROR"]
    BY <1>5 DEF VzSourceName
  <2> HIDE DEF v
  <2> QED
    BY <1>0, <2>1, <2>2, <2>3, FromGoesFrame DEF FromFrame
<1>6. CASE SetSourceIP
  <2> DEFINE d == DbSet(Source, "ip", job.data.ip)
  <2>1. From("fromSetIP", d, vz, from) /\ from.pc = "fromSetIP" /\ "fromSetIP" \in FromSteps
    BY <1>6 DEF SetSourceIP, From, FromSteps, FromNamed
  <2>2. /\ d[Clone] = db[Clone]
        /\ d[Source].uSource = db[Source].uSource
        /\ d[Source].name = db[Source].name
        /\ d[Source].ip = job.data.ip
    BY <1>0, ThePair, DbFields
  <2>3. job' = job \/ job' = [job EXCEPT !.from = "ERROR"]
    BY <1>6 DEF SetSourceIP
  <2> HIDE DEF d
  <2> QED
    BY <1>0, <2>1, <2>2, <2>3, FromGoesFrame DEF FromFrame
<1>7. CASE IpaddSource
  <2> DEFINE v == VzSet(Source, "ips", vz[Source].ips \cup {job.data.ip})
  <2>1. From("fromIpadd", db, v, from) /\ from.pc = "fromIpadd" /\ "fromIpadd" \in FromSteps
    BY <1>7 DEF IpaddSource, From, FromSteps, FromNamed
  <2>2. /\ v[Clone] = vz[Clone]
        /\ v[Source].name = vz[Source].name
        /\ v[Source].ips = vz[Source].ips \cup {job.data.ip}
    BY <1>0, ThePair DEF VzSet, TablesOK
  <2>3. job' = job \/ job' = [job EXCEPT !.from = "ERROR"]
    BY <1>7 DEF IpaddSource
  <2> HIDE DEF v
  <2> QED
    BY <1>0, <2>1, <2>2, <2>3, FromGoesFrame DEF FromFrame
<1>8. CASE RemoveScripts
  <2>1. From("fromScripts", db, vz, from) /\ from.pc = "fromScripts" /\ "fromScripts" \in FromSteps
    BY <1>8 DEF RemoveScripts, From, FromSteps, FromNamed
  <2>3. job' = job \/ job' = [job EXCEPT !.from = "ERROR"]
    BY <1>8 DEF RemoveScripts
  <2> QED
    BY <1>0, <2>1, <2>3, FromGoesFrame DEF FromFrame
<1>9. CASE SetSource
  <2> DEFINE d == DbSet(Source, "uSource", Clone)
  <2>1. From("setSource", d, vz, from) /\ from.pc = "setSource" /\ "setSource" \in FromSteps
    BY <1>9 DEF SetSource, From, FromSteps, FromNamed
  <2>2. /\ d[Clone] = db[Clone]
        /\ d[Source].name = db[Source].name
        /\ d[Source].ip = db[Source].ip
        /\ d[Source].uSource = Clone
    BY <1>0, ThePair, DbFields
  <2>3. job' = job \/ job' = [job EXCEPT !.from = "ERROR"]
    BY <1>9 DEF SetSource
  <2> HIDE DEF d
  <2> QED
    BY <1>0, <2>1, <2>2, <2>3, FromGoesFrame DEF FromFrame
<1>10. CASE FromUndoIps
  <2>1. PICK v \in (IF from.at \in {"fromScripts", "setSource"} THEN Readdress(Source, from.orig)
                    ELSE Ipadd(vz, Source, from.orig)) :
            FromUndo(1, db, v)
    BY <1>10 DEF FromUndoIps
  <2>2. v[Clone] = vz[Clone]
    <3>1. CASE v \in Readdress(Source, from.orig)
      BY <1>0, <3>1, ThePair, ReaddressFields
    <3>2. CASE v \in Ipadd(vz, Source, from.orig)
      <4>1. PICK c \in Pair : c = Source /\ Other(c) = Clone
        BY <1>0, ThePair
      <4>2. v \in Ipadd(vz, c, from.orig)
        BY <3>2, <4>1
      <4>3. vz \in Boxes
        BY <1>0 DEF TablesOK, Boxes
      <4>4. v[Other(c)] = vz[Other(c)]
        BY <4>2, <4>3, IpaddFields
      <4> QED
        BY <4>1, <4>4
    <3> QED
      BY <2>1, <3>1, <3>2
  <2> QED
    BY <2>1, <2>2, FromUndoesFrame DEF FromBack
<1>11. CASE FromUndoStop
  <2>1. PICK d \in Attempt(db, DbSet(Source, "uStatus", "AWAITFAIL")),
             v \in (IF StopsSource
                    THEN UNION {Attempt(w, [w EXCEPT ![Source].onboot = TRUE]) :
                                w \in Attempt(vz, VzSet(Source, "running", TRUE))}
                    ELSE {vz}) :
            FromUndo(2, d, v)
    BY <1>11 DEF FromUndoStop
  <2>2. d[Clone] = db[Clone] /\ d[Source].name = db[Source].name /\ d[Source].uSource = db[Source].uSource
    BY <1>0, ThePair, DbFields DEF Attempt
  <2>3. v[Clone] = vz[Clone]
    <3>1. CASE v # vz
      <4>1. PICK w \in Attempt(vz, VzSet(Source, "running", TRUE)) :
                v \in Attempt(w, [w EXCEPT ![Source].onboot = TRUE])
        BY <2>1, <3>1
      <4>2. w = vz \/ w = VzSet(Source, "running", TRUE)
        BY <4>1 DEF Attempt
      <4>3. w[Clone] = vz[Clone]
        BY <1>0, <4>2, ThePair DEF VzSet, TablesOK
      <4>4. v = w \/ v = Onboot(w, Source)
        BY <4>1 DEF Attempt, Onboot
      <4>5. Tables(db, vz)
        BY DEF IndType, TablesOK, NamesOK, Tables
      <4>8. Tables(db, w)
        BY <4>2, <4>5, ThePair, VzChange
      <4>6. w \in Boxes
        BY <4>8 DEF Tables, Boxes
      <4>7. Onboot(w, Source)[Clone] = w[Clone]
        <5>1. PICK c \in Pair : c = Source /\ Other(c) = Clone
          BY <1>0, ThePair
        <5>2. Onboot(w, c)[Other(c)] = w[Other(c)]
          BY <4>6, OnbootFields
        <5> QED
          BY <5>1, <5>2
      <4> QED
        BY <4>3, <4>4, <4>7
    <3> QED
      BY <3>1
  <2> QED
    BY <2>1, <2>2, <2>3, FromUndoesFrame DEF FromBack
<1>12. CASE FromUndoName
  <2>1. PICK d \in Attempt(db, DbSet(Source, "name", from.name)) : FromUndo(3, d, vz)
    BY <1>12 DEF FromUndoName
  <2>2. from.pc = "undo3"
    BY <2>1 DEF FromUndo, Undo
  <2>3. d = db \/ d = DbSet(Source, "name", from.name)
    BY DEF Attempt
  <2>4. /\ d[Clone] = db[Clone] /\ d[Source].uSource = db[Source].uSource
        /\ d[Source].name \in {db[Source].name, from.name}
    BY <1>0, <2>3, ThePair, DbFields
  <2> QED
    BY <2>1, <2>2, <2>4, FromUndoesFrame DEF FromBack
<1>13. CASE FromUndoIP
  <2>1. PICK d \in RestoreIP(Source, from.orig) : FromUndo(4, d, vz)
    BY <1>13 DEF FromUndoIP
  <2>2. d = db \/ d = DbSet(Source, "ip", from.orig)
    BY DEF RestoreIP, Attempt
  <2>3. d[Clone] = db[Clone] /\ d[Source].name = db[Source].name /\ d[Source].uSource = db[Source].uSource
    BY <1>0, <2>2, ThePair, DbFields
  <2> QED
    BY <2>1, <2>3, FromUndoesFrame DEF FromBack
<1> QED
  BY <1>1, <1>2, <1>3, <1>4, <1>5, <1>6, <1>7, <1>8, <1>9, <1>10, <1>11, <1>12, <1>13 DEF FromSucceeds

-----------------------------------------------------------------------------
(******************************** The safety *******************************)

(* No rollback of this behaviour falls through.                            *)
RollsBack == Faults \cap FallThrough = {}

(* Container c serves production: on its node, in its record, as nobody's  *)
(* clone.                                                                  *)
Holds(c) == vz[c].ips = {Prod} /\ db[c].ip = Prod /\ db[c].uSource = None

(* Name a is another one than b, with any .fo that b loses or is given.    *)
Behind(a, b) == a.of # b.of \/ a.fo < b.fo

(* The source holds production until FailoverTo is done, the clone after.  *)
HolderOK ==
    /\ job.to # "DONEOK" => /\ Holds(Source) /\ Behind(db[Clone].name, db[Source].name)
                            /\ job.to # "none" => Behind(job.data.name, db[Source].name)
    /\ job.to = "DONEOK" => /\ Holds(Clone) /\ Behind(job.data.name, db[Clone].name)
                            /\ db[Source].name # db[Clone].name

(* The points of FailoverTo after its UPDATE of uSource, of the address,   *)
(* of the names.                                                           *)
Freed == {"nodeStatus", "start", "onboot", "active", "ipdel", "getIP", "ipadd", "setIP",
          "getNames"} \cup Naming
Addressed == {"getNames"} \cup Naming
Renaming == {"setName", "vzName", "scripts", "done"}

ToPointOK ==
    /\ to.pc \in Undos => to.at \notin FallThrough
    /\ to.pc \in Freed => db[Clone].uSource = None
    /\ to.pc \in {"getIP", "ipadd"} => vz[Clone].ips = {}
    /\ to.pc \in Addressing => to.ip = Prod
    /\ to.pc \in {"setIP"} \cup Addressed => vz[Clone].ips = {Prod}
    /\ to.pc \in Addressed => db[Clone].ip = Prod
    /\ to.pc \in Naming => Behind(job.data.name, to.name)
    /\ to.pc = "foName" => db[Source].name = to.name
    /\ to.pc \in Renaming => db[Source].name = Fo(to.name)
    /\ to.pc \in Renaming \ {"setName"} => db[Clone].name = to.name

(* FailoverFrom gives the source the name the clone had, and makes it the  *)
(* clone last.                                                             *)
FromPointOK ==
    /\ db[Source].uSource # None =>
        /\ from.pc \in Resting \cup {"done"} /\ job.from # "WAITING"
        /\ db[Source].name = job.data.name
    /\ from.pc \in FromNamed \/ (from.pc \in Undos /\ from.at \in FromNamed) => from.name # db[Clone].name
    /\ from.pc \in FromNamed \ {"fromName"} => db[Source].name = job.data.name

IndHolds == IndType /\ RollsBack /\ HolderOK /\ ToPointOK /\ FromPointOK

LEMMA HoldsInit == Init /\ RollsBack => IndHolds
<1> SUFFICES ASSUME Init, RollsBack PROVE IndHolds
  OBVIOUS
<1>1. IndType
  BY TypeInit
<1>2. HolderOK /\ ToPointOK /\ FromPointOK
  BY DEF Init, HolderOK, ToPointOK, FromPointOK, Holds, Behind, Idle, Name, Undos, Freed, Naming, Addressing,
         Addressed, Renaming, FromNamed
<1> QED
  BY <1>1, <1>2 DEF IndHolds

-----------------------------------------------------------------------------
LEMMA ToActing ==
  ASSUME IndHolds, IndType', ToActs, Holds(Source)', ToPointOK',
         Behind(db'[Clone].name, db'[Source].name), Behind(job.data.name, db'[Source].name)
  PROVE  IndHolds'
<1>1. /\ job.to \notin {"none", "DONEOK"} /\ job' \in [clone : Pair, to : JobStatus, from : JobStatus, inOrder : BOOLEAN,
                data : [ip : Pair \cup {None}, name : Names \cup {NoName}, uStatus : Status]]
  BY DEF IndHolds, IndType, OrderOK, ToActs, ToSteps, Undos, UntilAddress, Naming, JobsOK
<1>2. /\ job'.to \notin {"none", "DONEOK"} /\ job'.from = job.from /\ job'.data = job.data
      /\ job'.clone = job.clone
  BY <1>1 DEF ToActs, IndHolds, IndType, JobsOK
<1>3. RollsBack'
  BY DEF ToActs, RollsBack, IndHolds, Faults
<1>4. HolderOK'
  BY <1>2 DEF HolderOK
<1>5. FromPointOK'
  <2>1. from'.pc \in Resting \cup {"check"}
    BY <1>2 DEF IndType, OrderOK
  <2> QED
    BY <1>2, <2>1 DEF FromPointOK, Holds, Resting, FromNamed, Undos
<1> QED
  BY <1>3, <1>4, <1>5 DEF IndHolds

LEMMA ToFailsHolds ==
  ASSUME IndHolds, IndType', UNCHANGED trial, NEW s \in ToFaults, ToFails(s)
  PROVE  IndHolds'
<1>1. to.pc = s /\ s \in ToSteps /\ ToActs /\ s \notin FallThrough /\ UNCHANGED <<db, vz>>
  BY DEF ToFails, ToActs, ToSteps, ToFaults, UntilAddress, Naming, IndHolds, RollsBack
<1>2. job.to \notin {"none", "DONEOK"} /\ job'.clone = job.clone
  BY <1>1 DEF ToFails, ToFaults, IndHolds, IndType, OrderOK, JobsOK
<1>3. to'.pc \in {"off", "undo1"} /\ to'.at = s
  BY DEF ToFails, IndHolds, IndType, ToOK, Locals
<1>4. Holds(Source)' /\ Behind(db'[Clone].name, db'[Source].name) /\ Behind(job.data.name, db'[Source].name)
  BY <1>1, <1>2 DEF IndHolds, HolderOK, Holds
<1>5. ToPointOK'
  BY <1>1, <1>3 DEF ToPointOK, Freed, Addressing, Addressed, Naming, Renaming
<1> QED
  BY <1>1, <1>4, <1>5, ToActing

(* The source as every forward step finds it.                              *)
LEMMA ToFinds ==
  ASSUME IndHolds, NEW s \in ToSteps \cup Undos, to.pc = s
  PROVE  /\ Holds(Source) /\ Behind(db[Clone].name, db[Source].name) /\ Behind(job.data.name, db[Source].name)
         /\ job.to \notin {"none", "DONEOK"}
  BY DEF IndHolds, IndType, OrderOK, HolderOK, ToSteps, Undos, UntilAddress, Naming

LEMMA ToHolds ==
  ASSUME IndHolds, IndType', UNCHANGED trial, ToSucceeds
  PROVE  IndHolds'
<1>0. IndType /\ to \in Locals /\ TablesOK /\ ToPointOK /\ ToOK /\ HolderOK /\ JobsOK
  BY DEF IndHolds, IndType, ToOK
<1>1. CASE ToDone
  <2>1. /\ to.pc = "done" /\ to'.pc = "off" /\ UNCHANGED <<db, vz, from, round, trial>>
        /\ job' = [job EXCEPT !.to = "DONEOK"] /\ job.to \notin {"none", "DONEOK"}
    BY <1>0, <1>1 DEF ToDone, IndType, OrderOK, Locals
  <2>2. job'.to = "DONEOK" /\ job'.data = job.data /\ job'.clone = job.clone /\ job'.from = job.from
    BY <1>0, <2>1 DEF JobsOK
  <2>3. HolderOK'
    BY <1>0, <2>1, <2>2 DEF HolderOK, ToPointOK, Holds, Behind, Freed, Addressed, Naming, Renaming,
       Fo, Locals, Names, NoName
  <2>4. ToPointOK'
    BY <2>1 DEF ToPointOK, Freed, Addressing, Addressed, Naming, Renaming, Undos
  <2>5. FromPointOK'
    BY <2>1, <2>2 DEF FromPointOK, IndHolds
  <2> QED
    BY <2>1, <2>3, <2>4, <2>5 DEF IndHolds, RollsBack, Faults
<1>2. CASE ~ToDone
  <2>1. ToFrame
    BY <1>0, <1>2, ToFrames
  <2>2. ToActs /\ job' = job /\ to.pc \in ToSteps \cup Undos
    BY <2>1 DEF ToFrame, ToActs
  <2>3. Holds(Source) /\ Behind(db[Clone].name, db[Source].name) /\ Behind(job.data.name, db[Source].name)
    BY <2>2, ToFinds
  <2>4. Holds(Source)'
    BY <2>1, <2>2, <2>3 DEF ToFrame, Holds
  <2>5. Behind(db'[Clone].name, db'[Source].name) /\ Behind(job.data.name, db'[Source].name)
    <3>1. /\ db[Clone].name.fo \in Int /\ job.data.name.fo \in Int /\ to.name.fo \in Int
          /\ Fo(to.name).of = to.name.of /\ Fo(to.name).fo = to.name.fo + 1
      BY <1>0, ThePair DEF TablesOK, JobsOK, Locals, Names, NoName, Fo
    <3>2. CASE to.pc = "foName"
      BY <1>0, <2>1, <2>3, <3>1, <3>2 DEF ToFrame, ToPointOK, Behind
    <3>3. CASE to.pc = "setName"
      BY <1>0, <2>1, <2>3, <3>1, <3>3 DEF ToFrame, ToPointOK, Renaming, Behind
    <3> QED
      BY <2>1, <2>3, <3>2, <3>3 DEF ToFrame
  <2>6. ToPointOK'
    <3>1. CASE to.pc \in ToSteps
      <4>1. to.pc \in ToSteps /\ to'.pc = AfterTo(to.pc) /\ Clone' = Clone /\ Source' = Source
        BY <2>1, <2>2, <3>1 DEF ToFrame
      <4>2. to'.pc \notin Undos
        BY <4>1 DEF AfterTo, ToSteps, UntilAddress, Naming, Undos
      <4>3. /\ to'.pc \in Freed => to.pc = "unsetSource" \/ to.pc \in Freed
            /\ to'.pc \in {"getIP", "ipadd"} => to.pc \in {"ipdel", "getIP"}
            /\ to'.pc \in Addressing => to.pc \in {"getIP", "ipadd"}
            /\ to'.pc \in {"setIP"} \cup Addressed => to.pc \in {"ipadd", "setIP"} \cup Addressed
            /\ to'.pc \in Addressed => to.pc \in {"setIP"} \cup Addressed
            /\ to'.pc \in Naming => to.pc \in {"getNames"} \cup Naming
            /\ to'.pc = "foName" => to.pc = "getNames"
            /\ to'.pc \in Renaming => to.pc = "foName" \/ to.pc \in Renaming
            /\ to'.pc \in Renaming \ {"setName"} => to.pc \in Renaming
        BY <4>1 DEF AfterTo, ToSteps, UntilAddress, Freed, Addressing, Addressed, Naming, Renaming
      <4>4. /\ to'.pc \in Freed => db'[Clone].uSource = None
            /\ to'.pc \in {"getIP", "ipadd"} => vz'[Clone].ips = {}
            /\ to'.pc \in Addressing => to'.ip = Prod
        BY <1>0, <2>1, <2>3, <3>1, <4>3 DEF ToFrame, ToPointOK, Holds, Freed, Naming, Addressing
      <4>5. /\ to'.pc \in {"setIP"} \cup Addressed => vz'[Clone].ips = {Prod}
            /\ to'.pc \in Addressed => db'[Clone].ip = Prod
        BY <1>0, <2>1, <3>1, <4>3 DEF ToFrame, ToPointOK, Addressed, Naming, Addressing
      <4>6. /\ to'.pc \in Naming => Behind(job.data.name, to'.name)
            /\ to'.pc = "foName" => db'[Source].name = to'.name
            /\ to'.pc \in Renaming => db'[Source].name = Fo(to'.name)
            /\ to'.pc \in Renaming \ {"setName"} => db'[Clone].name = to'.name
        BY <1>0, <2>1, <2>3, <3>1, <4>3 DEF ToFrame, ToPointOK, Naming, Renaming
      <4> QED
        BY <2>2, <4>1, <4>2, <4>4, <4>5, <4>6 DEF ToPointOK
    <3>2. CASE to.pc \in Undos
      <4>1. \E k \in 1 .. 4 : to.pc = Undo(k)
        BY <3>2 DEF Undos, Undo
      <4>2. to'.pc \in Undos \cup {"off"} /\ to'.at = to.at /\ to.at \notin FallThrough
        BY <1>0, <2>1, <3>2, <4>1 DEF ToFrame, ToPointOK
      <4> QED
        BY <4>2 DEF ToPointOK, Freed, Addressing, Addressed, Naming, Renaming, Undos
    <3> QED
      BY <2>2, <3>1, <3>2
  <2> QED
    BY <2>2, <2>4, <2>5, <2>6, ToActing
<1> QED
  BY <1>1, <1>2

-----------------------------------------------------------------------------
(* A step of FailoverFrom, which changes the row and the node of the       *)
(* source only, once the clone holds production.                           *)
LEMMA FromActing ==
  ASSUME IndHolds, IndType', UNCHANGED <<to, round, trial>>, job.to = "DONEOK",
         \/ job' = job \/ job' = [job EXCEPT !.from = "ERROR"] \/ job' = [job EXCEPT !.from = "DONEOK"],
         db'[Clone] = db[Clone], vz'[Clone] = vz[Clone], db'[Source].name # db[Clone].name,
         ASSUME Clone' = Clone, Source' = Source, job'.data = job.data, job'.from = "WAITING" => job.from = "WAITING"
         PROVE  FromPointOK'
  PROVE  IndHolds'
<1>1. /\ job'.to = "DONEOK" /\ Clone' = Clone /\ Source' = Source /\ job'.data = job.data
      /\ job'.from = "WAITING" => job.from = "WAITING"
  BY DEF IndHolds, IndType, JobsOK
<1>2. HolderOK'
  BY <1>1 DEF IndHolds, HolderOK, Holds
<1>3. to.pc = "off"
  BY DEF IndHolds, IndType, OrderOK
<1>4. ToPointOK'
  BY <1>3 DEF ToPointOK, Freed, Addressing, Addressed, Naming, Renaming, Undos
<1>5. FromPointOK'
  BY <1>1
<1>6. RollsBack'
  BY DEF RollsBack, IndHolds, Faults
<1> QED
  BY <1>2, <1>4, <1>5, <1>6 DEF IndHolds

(* The source as every step of FailoverFrom finds it.                      *)
LEMMA FromFinds ==
  ASSUME IndHolds, from.pc \in FromSteps \cup Undos \cup {"done"}
  PROVE  /\ job.to = "DONEOK" /\ job.from # "WAITING"
         /\ db[Source].name # db[Clone].name /\ Behind(job.data.name, db[Clone].name)
         /\ from.pc # "done" => db[Source].uSource = None
         /\ job.data.name # db[Clone].name
         /\ FromPointOK /\ IndType /\ TablesOK /\ from \in Locals
<1>1. job.to = "DONEOK" /\ job.from # "WAITING"
  BY FromBegins DEF IndHolds
<1>2. Clone \in Pair /\ job.data.name \in Names /\ db[Clone].name \in Names
  BY FromBegins, ThePair DEF IndHolds, TablesOK
<1> QED
  BY <1>1, <1>2 DEF IndHolds, HolderOK, FromPointOK, IndType, FromOK, FromSteps, FromNamed, Undos, Resting, Behind, Names

LEMMA FromFailsHolds ==
  ASSUME IndHolds, IndType', UNCHANGED trial, NEW s \in FromFaults, FromFails(s)
  PROVE  IndHolds'
<1>1. from.pc = s /\ s \in FromSteps /\ s # "status" /\ s # "done"
  BY DEF FromFails, FromFaults, FromSteps, FromNamed
<1>2. from'.pc \in {"off", "undo1"} /\ from'.at = s /\ from'.name = from.name
  BY <1>1, FromFinds DEF FromFails, Locals
<1>3. ASSUME Clone' = Clone, Source' = Source, job'.data = job.data, job'.from = "WAITING" => job.from = "WAITING"
      PROVE  FromPointOK'
  BY <1>1, <1>2, <1>3, FromFinds DEF FromFails, FromPointOK, FromNamed, Undos, Resting
<1> QED
  BY <1>1, <1>3, FromFinds, FromActing DEF FromFails

LEMMA FromHolds ==
  ASSUME IndHolds, IndType', UNCHANGED trial, FromSucceeds
  PROVE  IndHolds'
<1>0. IndType /\ from \in Locals /\ TablesOK /\ JobsOK
  BY DEF IndHolds, IndType, FromOK
<1>1. CASE CheckDone
  <2>1. /\ from.pc = "check" /\ job.to = "DONEOK" /\ UNCHANGED <<db, vz, job, to, round>>
        /\ from'.pc = "fromIpdel"
    BY <1>0, <1>1 DEF CheckDone, FailToJobDone, Locals
  <2>2. FromPointOK'
    BY <2>1 DEF IndHolds, FromPointOK, FromNamed, Undos, Resting
  <2> QED
    BY <2>1, <2>2 DEF IndHolds, HolderOK, ToPointOK, Holds, RollsBack, Faults
<1>2. CASE FromDone
  <2>1. from.pc = "done" /\ from'.pc = "off" /\ from'.name = from.name
    BY <1>0, <1>2 DEF FromDone, Locals
  <2>2. ASSUME Clone' = Clone, Source' = Source, job'.data = job.data, job'.from = "WAITING" => job.from = "WAITING"
        PROVE  FromPointOK'
    BY <1>2, <2>1, <2>2, FromFinds DEF FromDone, FromPointOK, FromNamed, Undos, Resting
  <2> QED
    BY <1>2, <2>1, <2>2, FromFinds, FromActing DEF FromDone
<1>3. CASE FromFrame
  <2>1. from.pc \in FromSteps /\ FromActs /\ from'.pc = AfterFrom(from.pc)
    BY <1>3 DEF FromFrame
  <2>2. /\ job.to = "DONEOK" /\ db[Source].name # db[Clone].name /\ job.data.name # db[Clone].name
        /\ db[Source].uSource = None /\ FromPointOK /\ job.from # "WAITING"
    BY <2>1, FromFinds DEF FromSteps, FromNamed
  <2>3. /\ AfterFrom(from.pc) \notin Undos \cup Resting
        /\ AfterFrom(from.pc) = "done" <=> from.pc = "setSource"
        /\ AfterFrom(from.pc) \in FromNamed => from.pc \in {"status"} \cup FromNamed
        /\ AfterFrom(from.pc) \in FromNamed \ {"fromName"} => from.pc \in FromNamed
    BY <2>1 DEF AfterFrom, FromSteps, FromNamed, Undos, Resting
  <2>4. ASSUME Clone' = Clone, Source' = Source, job'.data = job.data, job'.from = "WAITING" => job.from = "WAITING"
        PROVE  FromPointOK'
    BY <1>3, <2>1, <2>2, <2>3, <2>4 DEF FromFrame, FromActs, FromPointOK, FromNamed, Resting
  <2>5. db'[Clone] = db[Clone] /\ vz'[Clone] = vz[Clone] /\ db'[Source].name # db[Clone].name
    BY <1>3, <2>2 DEF FromFrame, FromActs
  <2> QED
    BY <2>1, <2>2, <2>4, <2>5, FromActing DEF FromActs
<1>4. CASE FromBack
  <2>1. from.pc \in Undos /\ FromActs
    BY <1>4 DEF FromBack
  <2>2. /\ job.to = "DONEOK" /\ db[Source].name # db[Clone].name /\ job.data.name # db[Clone].name
        /\ db[Source].uSource = None /\ FromPointOK /\ job.from # "WAITING"
    BY <2>1, FromFinds DEF Undos
  <2>3. from.pc = "undo3" => from.name # db[Clone].name
    BY <1>0, <2>2 DEF IndType, FromOK, FromPointOK, Undos
  <2>4. ASSUME Clone' = Clone, Source' = Source, job'.data = job.data, job'.from = "WAITING" => job.from = "WAITING"
        PROVE  FromPointOK'
    BY <1>4, <2>1, <2>2, <2>4 DEF FromBack, FromActs, FromPointOK, FromNamed, Undos, Resting
  <2>5. db'[Clone] = db[Clone] /\ vz'[Clone] = vz[Clone] /\ db'[Source].name # db[Clone].name
    BY <1>4, <2>2, <2>3 DEF FromBack, FromActs
  <2> QED
    BY <2>1, <2>2, <2>4, <2>5, FromActing DEF FromActs
<1> QED
  BY <1>0, <1>1, <1>2, <1>3, <1>4, FromFrames

-----------------------------------------------------------------------------
(* The backend, the begins and the deaths.                                 *)
LEMMA OtherHolds ==
  ASSUME IndHolds, IndType', UNCHANGED trial,
         \/ Backend \/ StartTo \/ StartFrom \/ KeepWaiting \/ HandlerDies
         \/ \E c \in Pair : NodeCrash(c) \/ NodeBoot(c)
  PROVE  IndHolds'
<1>0. IndType /\ TablesOK /\ JobsOK /\ ToOK /\ FromOK /\ OrderOK /\ HolderOK /\ ToPointOK /\ FromPointOK
  BY DEF IndHolds, IndType
<1>01. RollsBack'
  BY DEF IndHolds, RollsBack, Faults
<1>1. ASSUME NEW c \in Pair, NEW second \in BOOLEAN, Switchover(c, second)
      PROVE  IndHolds'
  <2>1. /\ job'.clone = c /\ job'.to = "WAITING" /\ job'.data.name = db[c].name
        /\ to.pc \in Resting /\ from.pc \in Resting
        /\ db[c].uSource # None
        /\ UNCHANGED <<vz, up, to, from>>
    BY <1>1 DEF Switchover, Resting
  <2>2. \A e \in Pair : db'[e].uSource = db[e].uSource /\ db'[e].name = db[e].name /\ db'[e].ip = db[e].ip
    BY <1>0, <1>1 DEF Switchover, TablesOK
  <2>3. HolderOK' /\ db'[Source'].uSource = None
    <3>1. CASE job.to # "DONEOK"
      <4>1. c = Clone
        BY <1>0, <2>1, <3>1, ThePair DEF HolderOK, Holds
      <4> QED
        BY <1>0, <2>1, <2>2, <3>1, <4>1, ThePair DEF HolderOK, Holds
    <3>2. CASE job.to = "DONEOK"
      <4>1. c = Source /\ Other(c) = Clone
        BY <1>0, <2>1, <3>2, ThePair DEF HolderOK, Holds
      <4>2. db[c].name = job.data.name /\ Behind(db[c].name, db[Clone].name)
        BY <1>0, <2>1, <3>2, <4>1 DEF HolderOK, FromPointOK
      <4> QED
        BY <1>0, <2>1, <2>2, <3>2, <4>1, <4>2, ThePair DEF HolderOK, Holds
    <3> QED
      BY <3>1, <3>2
  <2>4. ToPointOK' /\ FromPointOK'
    BY <2>1, <2>3 DEF ToPointOK, FromPointOK, Resting, Undos, Freed, Addressing, Addressed, Naming, Renaming, FromNamed
  <2> QED
    BY <1>01, <2>3, <2>4 DEF IndHolds
<1>9. ASSUME NEW c \in Pair, NEW s \in {"ACTIVE", "STOPPED"}, GroupStatus(c, s) PROVE IndHolds'
  <2>1. HolderOK' /\ ToPointOK' /\ FromPointOK'
    BY <1>0, <1>9, StatusFields, ThePair DEF HolderOK, Holds, ToPointOK, FromPointOK
  <2> QED
    BY <1>01, <2>1 DEF IndHolds
<1>2. ASSUME NEW row \in {"to", "from"}, GroupCancel(row) PROVE IndHolds'
  <2>1. /\ job' = [job EXCEPT ![row] = "CANCELED"] /\ job[row] \in {"WAITING", "ERROR"}
        /\ UNCHANGED <<db, vz, up, to, from, round>>
    BY <1>2 DEF GroupCancel
  <2>2. /\ job'.data = job.data /\ job'.clone = job.clone
        /\ job'.to = job.to \/ (job'.to = "CANCELED" /\ job.to \in {"WAITING", "ERROR"})
        /\ job'.from = job.from \/ job'.from = "CANCELED"
    BY <1>0, <2>1 DEF JobsOK
  <2>3. HolderOK' /\ ToPointOK' /\ FromPointOK'
    BY <1>0, <2>1, <2>2 DEF HolderOK, Holds, ToPointOK, FromPointOK
  <2> QED
    BY <1>01, <2>3 DEF IndHolds
<1>3. CASE StartTo
  <2>1. job'.data = job.data /\ job'.clone = job.clone /\ job.to = "WAITING" /\ job'.to = "RUNNING" /\ job'.from = job.from
    BY <1>0, <1>3 DEF StartTo, JobsOK
  <2>2. to'.pc = "getSource" /\ UNCHANGED <<db, vz, from>>
    BY <1>3 DEF StartTo, Idle
  <2>3. HolderOK' /\ FromPointOK'
    BY <1>0, <2>1, <2>2 DEF HolderOK, Holds, FromPointOK
  <2>4. ToPointOK'
    BY <2>2 DEF ToPointOK, Undos, Freed, Addressing, Addressed, Naming, Renaming
  <2> QED
    BY <1>01, <2>3, <2>4 DEF IndHolds
<1>4. CASE StartFrom \/ KeepWaiting
  <2>1. /\ job'.data = job.data /\ job'.clone = job.clone /\ job'.to = job.to
        /\ UNCHANGED <<db, vz, to>> /\ from'.pc \in {"check", "off"}
        /\ job.from = "WAITING" \/ from.pc = "check"
    BY <1>0, <1>4 DEF StartFrom, KeepWaiting, JobsOK, Idle
  <2>2. HolderOK' /\ ToPointOK'
    BY <1>0, <2>1 DEF HolderOK, Holds, ToPointOK
  <2>3. FromPointOK'
    BY <1>0, <2>1 DEF FromPointOK, Resting, Undos, FromNamed
  <2> QED
    BY <1>01, <2>2, <2>3 DEF IndHolds
<1>5. ASSUME UNCHANGED <<db, job>>, \A c \in Pair : vz'[c].ips = vz[c].ips,
             to' = to \/ to' = Die(to), from' = from \/ from' = Die(from)
      PROVE  IndHolds'
  <2>1. HolderOK'
    BY <1>0, <1>5, ThePair DEF HolderOK, Holds
  <2>2. /\ to' = to \/ to'.pc = "dead"
        /\ from' = from \/ from'.pc = "dead"
    BY <1>0, <1>5 DEF Die, ToOK, FromOK, Locals
  <2>3. ToPointOK'
    BY <1>0, <1>5, <2>2, ThePair DEF ToPointOK, Undos, Freed, Addressing, Addressed, Naming, Renaming
  <2>4. FromPointOK'
    BY <1>0, <1>5, <2>2 DEF FromPointOK, Undos, FromNamed, Resting
  <2> QED
    BY <1>01, <2>1, <2>3, <2>4 DEF IndHolds
<1>6. ASSUME NEW c \in Pair, NodeCrash(c) \/ NodeBoot(c) PROVE IndHolds'
  <2>1. /\ UNCHANGED <<db, job>>
        /\ to' = to \/ to' = Die(to)
        /\ from' = from \/ from' = Die(from)
    BY <1>6 DEF NodeCrash, NodeBoot
  <2>2. PICK b \in BOOLEAN : vz' = VzSet(c, "running", b)
    BY <1>0, <1>6 DEF NodeCrash, NodeBoot, TablesOK
  <2>3. \A e \in Pair : vz'[e].ips = vz[e].ips
    BY <1>0, <2>2 DEF VzSet, TablesOK
  <2> QED
    BY <1>5, <2>1, <2>3
<1>7. CASE HandlerDies
  BY <1>5, <1>7 DEF HandlerDies
<1> QED
  BY <1>1, <1>2, <1>3, <1>4, <1>6, <1>7, <1>9, BackendCases

LEMMA HoldsStep == IndHolds /\ [Next /\ UNCHANGED trial]_<<vars, trial>> => IndHolds'
<1> SUFFICES ASSUME IndHolds, [Next /\ UNCHANGED trial]_<<vars, trial>> PROVE IndHolds'
  OBVIOUS
<1>1. IndType'
  BY TypeStep DEF IndHolds
<1>2. CASE UNCHANGED <<vars, trial>>
  BY <1>1, <1>2 DEF vars, IndHolds, RollsBack, Faults, HolderOK, Holds, ToPointOK, FromPointOK
<1>3. CASE Next /\ UNCHANGED trial
  BY <1>1, <1>3, ToFailsHolds, FromFailsHolds, ToHolds, FromHolds, OtherHolds DEF Next, Fail
<1> QED
  BY <1>2, <1>3

THEOREM Held == Spec /\ RollsBack => []IndHolds
  BY HoldsInit, HoldsStep, PTL DEF Spec

-----------------------------------------------------------------------------
(* Until FailoverTo is done the source keeps its address, on its node and  *)
(* in its record, and is nobody's clone, whatever fails, dies or crashes   *)
(* and however often: FailoverTo changes nothing of the source but its     *)
(* name, and FailoverFrom, which does, goes on only when the row of        *)
(* FailoverTo says done (jobqueue.c:3563).                                 *)
THEOREM SourceIsUntouched == Spec /\ RollsBack => []SourceUntouched
<1>1. IndHolds => SourceUntouched
  BY DEF IndHolds, HolderOK, Holds, SourceUntouched
<1> QED
  BY <1>1, Held, PTL

(* No order of steps and rollbacks records the two containers as clones of *)
(* each other or under one name: the clone's row is freed before the       *)
(* source's is bound, and a .fo is added each round.                       *)
THEOREM RecordsAreApart == Spec /\ RollsBack => []RecordsStayApart
<1>1. IndHolds => RecordsStayApart
  <2> SUFFICES ASSUME IndHolds PROVE RecordsStayApart
    OBVIOUS
  <2>1. IndType /\ HolderOK
    BY DEF IndHolds
  <2>2. db[Source].uSource = None \/ db[Clone].uSource = None
    BY <2>1 DEF HolderOK, Holds
  <2>3. db[Source].name # db[Clone].name
    BY <2>1, ThePair DEF HolderOK, Behind, TablesOK, Names
  <2> QED
    BY <2>1, <2>2, <2>3, ThePair DEF RecordsStayApart
<1> QED
  BY <1>1, Held, PTL

(* A step in which one container has the address before and after gives it *)
(* to the other or takes it away, or does neither.                         *)
LEMMA OneKeepsIt ==
  ASSUME NEW h, NEW g, h \subseteq Pair, g \subseteq Pair, NEW c \in Pair, c \in h, c \in g
  PROVE  \/ g = h
         \/ \E e \in Pair : g = h \cup {e}
         \/ \E e \in Pair : h # {e} /\ g = h \ {e}
<1>1. PICK e \in Pair : e # c /\ \A x \in Pair : x = c \/ x = e
  OBVIOUS
<1>2. CASE e \in g
  <2>1. g = h \cup {e}
    BY <1>1, <1>2
  <2> QED
    BY <2>1
<1>3. CASE e \notin g
  <2>1. h # {e} /\ g = h \ {e}
    BY <1>1, <1>3
  <2> QED
    BY <2>1
<1> QED
  BY <1>2, <1>3

(* The container that has the production address through a step.           *)
LEMMA KeeperOfStep ==
  ASSUME IndHolds, IndHolds', Next
  PROVE  \E c \in Pair : Holds(c) /\ Holds(c)'
<1>1. IndType /\ HolderOK /\ HolderOK' /\ Clone \in Pair /\ Source \in Pair
  BY ThePair DEF IndHolds
<1>2. CASE Clone' = Clone /\ (job'.to = "DONEOK" <=> job.to = "DONEOK")
  BY <1>1, <1>2 DEF HolderOK
<1>3. CASE UNCHANGED vz /\ \A c \in Pair : db'[c].ip = db[c].ip /\ db'[c].uSource = db[c].uSource
  <2>1. PICK c \in Pair : Holds(c)
    BY <1>1 DEF HolderOK
  <2>2. Holds(c)'
    BY <1>3, <2>1 DEF Holds
  <2> QED
    BY <2>1, <2>2
<1>4. CASE Backend
  <2>1. ASSUME NEW c \in Pair, NEW second \in BOOLEAN, Switchover(c, second)
        PROVE  UNCHANGED vz /\ \A e \in Pair : db'[e].ip = db[e].ip /\ db'[e].uSource = db[e].uSource
    BY <1>1, <2>1 DEF Switchover, IndType, TablesOK
  <2>3. ASSUME NEW c \in Pair, NEW s \in {"ACTIVE", "STOPPED"}, GroupStatus(c, s)
        PROVE  UNCHANGED vz /\ \A e \in Pair : db'[e].ip = db[e].ip /\ db'[e].uSource = db[e].uSource
    BY <1>1, <2>3, StatusFields
  <2>2. ASSUME NEW row \in {"to", "from"}, GroupCancel(row)
        PROVE  Clone' = Clone /\ (job'.to = "DONEOK" <=> job.to = "DONEOK")
    BY <1>1, <2>2 DEF GroupCancel, IndType, JobsOK
  <2> QED
    BY <1>2, <1>3, <1>4, <2>1, <2>2, <2>3, BackendCases
<1>5. CASE ToDone
  BY <1>3, <1>5 DEF ToDone
<1>6. CASE Fail \/ StartTo \/ StartFrom \/ KeepWaiting \/ FromSucceeds
  <2> DEFINE Kept == Clone' = Clone /\ (job'.to = "DONEOK" <=> job.to = "DONEOK")
  <2>1. job' = job => Kept
    OBVIOUS
  <2>2. ASSUME NEW x, job' = [job EXCEPT !.from = x] PROVE Kept
    BY <1>1, <2>2 DEF IndType, JobsOK
  <2>3. ASSUME NEW x \in {"ERROR", "RUNNING"}, job.to # "DONEOK", job' = [job EXCEPT !.to = x] PROVE Kept
    BY <1>1, <2>3 DEF IndType, JobsOK
  <2> HIDE DEF Kept
  <2>4. ASSUME FromSucceeds PROVE Kept
    <3>1. CASE CheckDone
      BY <2>1, <3>1, Zenon DEF CheckDone
    <3>2. CASE IpdelSource
      BY <2>1, <3>2, Zenon DEF IpdelSource
    <3>3. CASE SourceStatus
      BY <2>1, <3>3, Zenon DEF SourceStatus
    <3>4. CASE SetSourceName
      BY <2>1, <3>4, Zenon DEF SetSourceName
    <3>5. CASE VzSourceName
      BY <2>1, <3>5, Zenon DEF VzSourceName
    <3>6. CASE SetSourceIP
      BY <2>1, <3>6, Zenon DEF SetSourceIP
    <3>7. CASE IpaddSource
      BY <2>1, <3>7, Zenon DEF IpaddSource
    <3>8. CASE RemoveScripts
      BY <2>1, <3>8, Zenon DEF RemoveScripts
    <3>9. CASE SetSource
      BY <2>1, <3>9, Zenon DEF SetSource
    <3>10. CASE StopSource
      BY <2>1, <2>2, <3>10, Zenon DEF StopSource
    <3>11. CASE FromDone
      BY <2>2, <3>11, Zenon DEF FromDone
    <3>12. CASE FromUndoIps
      BY <2>1, <3>12, Zenon DEF FromUndoIps, FromUndo
    <3>13. CASE FromUndoStop
      BY <2>1, <3>13, Zenon DEF FromUndoStop, FromUndo
    <3>14. CASE FromUndoName
      BY <2>1, <3>14, Zenon DEF FromUndoName, FromUndo
    <3>15. CASE FromUndoIP
      BY <2>1, <3>15, Zenon DEF FromUndoIP, FromUndo
    <3> QED
      BY <2>4, <3>1, <3>2, <3>3, <3>4, <3>5, <3>6, <3>7, <3>8, <3>9, <3>10, <3>11, <3>12, <3>13, <3>14, <3>15 DEF FromSucceeds
  <2>5. ASSUME NEW s \in ToFaults, ToFails(s) PROVE Kept
    <3>1. to.pc # "off" /\ job' = [job EXCEPT !.to = "ERROR"]
      BY <2>5, Zenon DEF ToFails, ToFaults
    <3>2. job.to # "DONEOK"
      BY <1>1, <3>1 DEF IndType, OrderOK
    <3> QED
      BY <2>3, <3>1, <3>2, Zenon
  <2>6. ASSUME NEW s \in FromFaults, FromFails(s) PROVE Kept
    BY <2>2, <2>6, Zenon DEF FromFails
  <2>7. ASSUME HandlerDies \/ \E c \in Pair : NodeCrash(c) PROVE Kept
    BY <2>1, <2>7, Zenon DEF HandlerDies, NodeCrash
  <2>8. ASSUME StartTo PROVE Kept
    <3>1. job.to # "DONEOK" /\ job' = [job EXCEPT !.to = "RUNNING"]
      BY <2>8, Zenon DEF StartTo
    <3> QED
      BY <2>3, <3>1, Zenon
  <2>9. ASSUME StartFrom \/ KeepWaiting PROVE Kept
    BY <2>2, <2>9, Zenon DEF StartFrom, KeepWaiting
  <2>10. Kept
    BY <1>6, <2>4, <2>5, <2>6, <2>7, <2>8, <2>9, Zenon DEF Fail
  <2> QED
    BY <1>2, <2>10 DEF Kept
<1>7. CASE ToSucceeds /\ ~ToDone
  <2>1. job' = job
    BY <1>7 DEF ToSucceeds, GetSource, UnsetSource, NodeStatus, StartClone, OnbootClone, ActiveClone, IpdelClone,
       GetIP, IpaddClone, SetCloneIP, GetNames, FoName, SetCloneName, VzCloneName, ActionScripts, To,
       UndoSource, UndoStart, UndoIps, UndoIP, ToUndo
  <2> QED
    BY <1>2, <2>1
<1>8. CASE \E c \in Pair : NodeBoot(c)
  BY <1>2, <1>8 DEF NodeBoot
<1> QED
  BY <1>4, <1>5, <1>6, <1>7, <1>8 DEF Next

(* On the nodes, the production address passes from one container to the   *)
(* other without a moment in which none has it: in each step, also of a    *)
(* rollback, the container that serves production is not the one changed.  *)
THEOREM AddressNeverLost == Spec /\ RollsBack => AddressIsHandedOver
<1>1. Init => Configured!Init
  <2> SUFFICES ASSUME Init PROVE Configured!Init
    OBVIOUS
  <2>1. vz = [c \in Pair |-> [ips |-> {c}, name |-> Name(c), running |-> db[c].uStatus = "ACTIVE",
                              onboot |-> db[c].uStatus = "ACTIVE"]]
    BY Zenon DEF Init
  <2>3. vz[Prod].ips = {Prod} /\ vz[Clone0].ips = {Clone0}
    BY <2>1
  <2>2. {c \in Pair : Prod \in vz[c].ips} = {Prod}
    BY <2>3
  <2> QED
    BY <2>2 DEF Configured!Init
<1>2. IndHolds /\ IndHolds' /\ [Next /\ UNCHANGED trial]_<<vars, trial>>
        => [Configured!Next]_({c \in Pair : Prod \in vz[c].ips})
  <2> SUFFICES ASSUME IndHolds, IndHolds', [Next /\ UNCHANGED trial]_<<vars, trial>>
               PROVE  [Configured!Next]_({c \in Pair : Prod \in vz[c].ips})
    OBVIOUS
  <2>1. CASE UNCHANGED vars
    BY <2>1 DEF vars
  <2>2. CASE Next
    <3>1. PICK c \in Pair : Holds(c) /\ Holds(c)'
      BY <2>2, KeeperOfStep
    <3> DEFINE h == {e \in Pair : Prod \in vz[e].ips}
               g == {e \in Pair : Prod \in vz'[e].ips}
    <3>2. h \subseteq Pair /\ g \subseteq Pair /\ c \in h /\ c \in g
      BY <3>1 DEF Holds
    <3> HIDE DEF h, g
    <3>3. \/ g = h
          \/ \E e \in Pair : g = h \cup {e}
          \/ \E e \in Pair : h # {e} /\ g = h \ {e}
      BY <3>2, OneKeepsIt
    <3> QED
      BY <3>3 DEF h, g, Configured!Next, Configured!Acquire, Configured!Release
  <2> QED
    BY <2>1, <2>2
<1> QED
  BY <1>1, <1>2, Held, PTL DEF Spec, AddressIsHandedOver, Configured!Spec

(* The same of the records in tContainer.                                  *)
THEOREM RecordNeverLost == Spec /\ RollsBack => RecordIsHandedOver
<1>1. Init => Recorded!Init
  <2> SUFFICES ASSUME Init PROVE Recorded!Init
    OBVIOUS
  <2>1. \A c \in Pair : db[c].ip = c
    BY DEF Init
  <2>2. {c \in Pair : db[c].ip = Prod} = {Prod}
    BY <2>1
  <2> QED
    BY <2>2 DEF Recorded!Init
<1>2. IndHolds /\ IndHolds' /\ [Next /\ UNCHANGED trial]_<<vars, trial>>
        => [Recorded!Next]_({c \in Pair : db[c].ip = Prod})
  <2> SUFFICES ASSUME IndHolds, IndHolds', [Next /\ UNCHANGED trial]_<<vars, trial>>
               PROVE  [Recorded!Next]_({c \in Pair : db[c].ip = Prod})
    OBVIOUS
  <2>1. CASE UNCHANGED vars
    BY <2>1 DEF vars
  <2>2. CASE Next
    <3>1. PICK c \in Pair : Holds(c) /\ Holds(c)'
      BY <2>2, KeeperOfStep
    <3> DEFINE h == {e \in Pair : db[e].ip = Prod}
               g == {e \in Pair : db'[e].ip = Prod}
    <3>2. h \subseteq Pair /\ g \subseteq Pair /\ c \in h /\ c \in g
      BY <3>1 DEF Holds
    <3> HIDE DEF h, g
    <3>3. \/ g = h
          \/ \E e \in Pair : g = h \cup {e}
          \/ \E e \in Pair : h # {e} /\ g = h \ {e}
      BY <3>2, OneKeepsIt
    <3> QED
      BY <3>3 DEF h, g, Recorded!Next, Recorded!Acquire, Recorded!Release
  <2> QED
    BY <2>1, <2>2
<1> QED
  BY <1>1, <1>2, Held, PTL DEF Spec, RecordIsHandedOver, Recorded!Spec

-----------------------------------------------------------------------------
(* Two containers in order, at the confirmation: the clone has not the     *)
(* production address, and neither name comes from the other.              *)
ConfirmedOK ==
    job.to # "none" /\ job.inOrder =>
        /\ job.data.ip = Clone0
        /\ job.to # "DONEOK" => db[Source].name.of # job.data.name.of

(* The clone has the source's name, also on its node, when FailoverTo ends. *)
GivenOK ==
    /\ to.pc \in Naming /\ job.inOrder => to.name.of # job.data.name.of
    /\ to.pc \in {"scripts", "done"} => vz[Clone].name = db[Clone].name
    /\ job.to = "DONEOK" => /\ vz[Clone].name = db[Clone].name
                            /\ job.inOrder => db[Clone].name.of # job.data.name.of

(* The source has what the clone had, point by point, and has all of it    *)
(* when it is recorded as a clone.                                         *)
TakenOK ==
    /\ from.pc \in {"stop", "status", "fromName", "fromVzName", "fromSetIP", "fromIpadd"} => vz[Source].ips = {}
    /\ from.pc \in {"fromSetIP", "fromIpadd", "fromScripts", "setSource"} => vz[Source].name = job.data.name
    /\ from.pc \in {"fromIpadd", "fromScripts", "setSource"} => db[Source].ip = job.data.ip
    /\ from.pc \in {"fromScripts", "setSource"} => vz[Source].ips = {job.data.ip}
    /\ from.pc = "done" \/ job.from = "DONEOK" => db[Source].uSource # None
    /\ db[Source].uSource # None => /\ vz[Source].name = job.data.name /\ db[Source].ip = job.data.ip
                                    /\ vz[Source].ips = {job.data.ip}

IndSwaps == IndHolds /\ ConfirmedOK /\ GivenOK /\ TakenOK

LEMMA SwapsInit == Init /\ RollsBack => IndSwaps
<1> SUFFICES ASSUME Init, RollsBack PROVE IndSwaps
  OBVIOUS
<1>1. ConfirmedOK /\ GivenOK /\ TakenOK
  BY DEF Init, ConfirmedOK, GivenOK, TakenOK, Idle, Name, Naming
<1> QED
  BY <1>1, HoldsInit DEF IndSwaps

(* A step of FailoverTo before it is done.                                 *)
LEMMA ToSwaps ==
  ASSUME IndSwaps, IndHolds', ToFrame
  PROVE  IndSwaps'
<1>1. /\ IndHolds /\ to.pc \in ToSteps \cup Undos /\ UNCHANGED <<job, up, from, round, trial>>
      /\ Clone' = Clone /\ Source' = Source
  BY DEF ToFrame, ToActs, IndSwaps
<1>2. /\ Holds(Source) /\ job.to \notin {"none", "DONEOK"} /\ from.pc \in Resting \cup {"check"}
      /\ Holds(Source)' /\ ToPointOK
  BY <1>1, ToFinds DEF IndHolds, IndType, OrderOK, HolderOK
<1>3. /\ to'.pc \in Naming => to.pc \in {"getNames"} \cup Naming
      /\ to'.pc \in {"scripts", "done"} => to.pc \in {"vzName", "scripts"}
  <2>1. CASE to.pc \in ToSteps
    BY <2>1 DEF ToFrame, AfterTo, ToSteps, UntilAddress, Naming
  <2>2. CASE to.pc \in Undos
    <3>1. \E k \in 1 .. 4 : to.pc = Undo(k)
      BY <2>2 DEF Undos, Undo
    <3>2. to'.pc \in Undos \cup {"off"}
      BY <1>2, <2>2, <3>1 DEF ToFrame, ToPointOK
    <3> QED
      BY <3>2 DEF Undos, Naming
  <2> QED
    BY <1>1, <2>1, <2>2
<1>4. ConfirmedOK'
  BY <1>1, <1>2 DEF IndSwaps, ConfirmedOK, GivenOK, ToFrame, Fo, Naming, Faults
<1>5. GivenOK'
  BY <1>1, <1>2, <1>3 DEF IndSwaps, ConfirmedOK, GivenOK, ToFrame, ToPointOK, Naming, Renaming
<1>6. TakenOK'
  BY <1>1, <1>2 DEF IndSwaps, TakenOK, Holds, Resting
<1> QED
  BY <1>1, <1>4, <1>5, <1>6 DEF IndSwaps

(* The rows and the handlers move, the containers and their records stay.  *)
LEMMA RowsSwap ==
  ASSUME IndSwaps, IndHolds', UNCHANGED <<round, trial>>,
         Clone' = Clone, job'.data = job.data, job'.inOrder = job.inOrder,
         job'.to \notin {"none", "DONEOK"} => job.to \notin {"none", "DONEOK"},
         job'.from = "DONEOK" => job.from = "DONEOK" \/ from.pc = "done",
         job'.to = "DONEOK" => job.to = "DONEOK" \/ to.pc = "done",
         \A c \in Pair : /\ db'[c] = db[c] /\ vz'[c].ips = vz[c].ips /\ vz'[c].name = vz[c].name,
         to' = to \/ to'.pc \notin Naming,
         \/ from' = from
         \/ from'.pc \in Resting \cup Undos \cup {"check", "fromIpdel"}
  PROVE  IndSwaps'
<1>1. IndType /\ Clone \in Pair /\ Source \in Pair /\ Source' = Source
  BY ThePair DEF IndSwaps, IndHolds
<1>2. ConfirmedOK'
  <2>1. job'.to = "DONEOK" => job.to # "none"
    BY <1>1 DEF IndType, OrderOK
  <2> QED
    BY <1>1, <2>1 DEF IndSwaps, ConfirmedOK
<1>3. GivenOK'
  BY <1>1 DEF IndSwaps, IndHolds, ToPointOK, Renaming, GivenOK, Naming
<1>4. TakenOK'
  BY <1>1 DEF IndSwaps, TakenOK, Resting, Undos
<1> QED
  BY <1>2, <1>3, <1>4 DEF IndSwaps

LEMMA FromSwaps ==
  ASSUME IndSwaps, IndHolds', FromFrame \/ FromBack
  PROVE  IndSwaps'
<1>1. /\ IndHolds /\ FromActs /\ from.pc \in FromSteps \cup Undos /\ from.pc # "done"
      /\ UNCHANGED <<up, to, round, trial>>
  BY DEF FromFrame, FromBack, FromActs, IndSwaps, FromSteps, FromNamed, Undos
<1>2. job.to = "DONEOK" /\ db[Source].uSource = None /\ to.pc = "off" /\ JobsOK
  BY <1>1, FromFinds, FromBegins DEF IndType
<1>3. /\ Clone' = Clone /\ Source' = Source /\ job'.data = job.data /\ job'.inOrder = job.inOrder
      /\ job'.to = "DONEOK" /\ job'.from # "DONEOK"
  BY <1>1, <1>2 DEF FromActs, JobsOK, IndSwaps, TakenOK
<1>4. ConfirmedOK' /\ GivenOK'
  BY <1>1, <1>2, <1>3 DEF IndSwaps, ConfirmedOK, GivenOK, FromActs, Naming
<1>5. TakenOK'
  <2>1. CASE FromFrame
    <3>1. /\ from.pc \in FromSteps /\ from'.pc = AfterFrom(from.pc)
      BY <2>1 DEF FromFrame
    <3>2. /\ from'.pc \in {"stop", "status", "fromName", "fromVzName", "fromSetIP", "fromIpadd"} =>
               from.pc \in {"fromIpdel", "stop", "status", "fromName", "fromVzName", "fromSetIP"}
          /\ from'.pc \in {"fromSetIP", "fromIpadd", "fromScripts", "setSource"} =>
               from.pc \in {"fromVzName", "fromSetIP", "fromIpadd", "fromScripts"}
          /\ from'.pc \in {"fromIpadd", "fromScripts", "setSource"} =>
               from.pc \in {"fromSetIP", "fromIpadd", "fromScripts"}
          /\ from'.pc \in {"fromScripts", "setSource"} => from.pc \in {"fromIpadd", "fromScripts"}
          /\ from'.pc = "done" <=> from.pc = "setSource"
      BY <3>1 DEF AfterFrom, FromSteps, FromNamed
    <3> QED
      BY <1>1, <1>2, <1>3, <2>1, <3>2, ThePair DEF FromFrame, IndSwaps, IndHolds, TakenOK
  <2>2. CASE FromBack
    BY <1>2, <1>3, <2>2 DEF FromBack, TakenOK, Undos
  <2> QED
    BY <2>1, <2>2
<1> QED
  BY <1>1, <1>4, <1>5 DEF IndSwaps

(* Confirming finds a clone whose source holds production; of two in order, *)
(* the clone has its own address and name, also on its node.                *)
LEMMA ConfirmFinds ==
  ASSUME IndHolds, NEW c \in Pair, NEW second \in BOOLEAN, Switchover(c, second)
  PROVE  /\ db[c].uSource = Other(c) /\ Holds(Other(c))
         /\ InOrder => /\ db[c].ip = Clone0 /\ vz[c].ips = {Clone0}
                       /\ db[Other(c)].name.of # db[c].name.of
         /\ \A e \in Pair : db'[e].uSource = db[e].uSource /\ db'[e].name = db[e].name /\ db'[e].ip = db[e].ip
<1>0. IndHolds /\ IndType /\ HolderOK /\ TablesOK
  BY DEF IndHolds, IndType
<1>1. /\ \A e \in Pair : db'[e].uSource = db[e].uSource /\ db'[e].name = db[e].name /\ db'[e].ip = db[e].ip
      /\ db[c].uSource = Other(c)
  BY <1>0 DEF Switchover, TablesOK
<1>2. Holds(Other(c))
  <2>1. CASE job.to # "DONEOK"
    BY <1>0, <1>1, <2>1, ThePair DEF HolderOK, Holds
  <2>2. CASE job.to = "DONEOK"
    BY <1>0, <1>1, <2>2, ThePair DEF HolderOK, Holds
  <2> QED
    BY <2>1, <2>2
<1>3. ASSUME InOrder
      PROVE  db[c].ip = Clone0 /\ vz[c].ips = {Clone0} /\ db[Other(c)].name.of # db[c].name.of
  <2>1. db[c].ip # db[Other(c)].ip /\ db[Other(c)].name.of # db[c].name.of /\ vz[c].ips = {db[c].ip}
    BY <1>3 DEF InOrder
  <2>2. db[c].ip = Clone0
    BY <1>0, <1>2, <2>1 DEF Holds, TablesOK
  <2> QED
    BY <2>1, <2>2
<1> QED
  BY <1>1, <1>2, <1>3

LEMMA ConfirmSwaps ==
  ASSUME IndSwaps, IndHolds', UNCHANGED trial, NEW c \in Pair, NEW second \in BOOLEAN, Switchover(c, second)
  PROVE  IndSwaps'
<1>1. /\ Clone' = c /\ Source' = Other(c) /\ job'.to = "WAITING" /\ job'.from # "DONEOK"
      /\ job'.data.name = db[c].name /\ job'.data.ip = db[c].ip /\ job'.inOrder = InOrder
      /\ to.pc \in Resting /\ from.pc \in Resting
      /\ UNCHANGED <<vz, up, to, from>>
  BY DEF Switchover, Resting
<1>2. ConfirmedOK'
  BY <1>1, ConfirmFinds DEF ConfirmedOK, IndSwaps
<1>3. db'[Source'].uSource = None
  BY <1>1 DEF IndHolds, HolderOK, Holds
<1>4. GivenOK' /\ TakenOK'
  BY <1>1, <1>3 DEF GivenOK, TakenOK, Naming, Resting
<1> QED
  BY <1>2, <1>4 DEF IndSwaps

LEMMA SwapsStep == IndSwaps /\ [Next /\ UNCHANGED trial]_<<vars, trial>> => IndSwaps'
<1> SUFFICES ASSUME IndSwaps, [Next /\ UNCHANGED trial]_<<vars, trial>> PROVE IndSwaps'
  OBVIOUS
<1>0. IndHolds /\ IndHolds' /\ IndType /\ JobsOK /\ OrderOK /\ ToOK /\ FromOK /\ TablesOK /\ ConfirmedOK
  BY HoldsStep DEF IndSwaps, IndHolds, IndType
<1>1. CASE UNCHANGED <<vars, trial>>
  BY <1>0, <1>1 DEF vars, IndSwaps, ConfirmedOK, GivenOK, TakenOK
<1> SUFFICES ASSUME Next, UNCHANGED trial PROVE IndSwaps'
  BY <1>1
<1>2. ASSUME NEW c \in Pair, NEW second \in BOOLEAN, Switchover(c, second) PROVE IndSwaps'
  BY <1>0, <1>2, ConfirmSwaps
<1>14. ASSUME NEW c \in Pair, NEW s \in {"ACTIVE", "STOPPED"}, GroupStatus(c, s) PROVE IndSwaps'
  <2>1. job'.data = job.data /\ Clone' = Clone /\ Source' = Source /\ job'.to = job.to /\ job'.inOrder = job.inOrder
        /\ job'.from = "DONEOK" => job.from = "DONEOK"
    BY <1>0, <1>14, StatusFields
  <2>2. ConfirmedOK' /\ GivenOK' /\ TakenOK'
    BY <1>0, <1>14, <2>1, StatusFields, ThePair DEF IndSwaps, ConfirmedOK, GivenOK, TakenOK
  <2> QED
    BY <1>0, <2>2 DEF IndSwaps
<1>3. ASSUME NEW row \in {"to", "from"}, GroupCancel(row) PROVE IndSwaps'
  <2>1. /\ job' = [job EXCEPT ![row] = "CANCELED"] /\ job[row] \in {"WAITING", "ERROR"}
        /\ UNCHANGED <<db, vz, up, to, from, round>>
    BY <1>3 DEF GroupCancel
  <2>2. /\ job'.data = job.data /\ job'.clone = job.clone /\ job'.inOrder = job.inOrder
        /\ job'.to = job.to \/ (job'.to = "CANCELED" /\ job.to \in {"WAITING", "ERROR"})
        /\ job'.from = job.from \/ job'.from = "CANCELED"
    BY <1>0, <2>1 DEF JobsOK
  <2> QED
    BY <1>0, <2>1, <2>2, RowsSwap DEF ConfirmedOK
<1>4. ASSUME NEW s \in ToFaults, ToFails(s) PROVE IndSwaps'
  <2>1. /\ job' = [job EXCEPT !.to = "ERROR"] /\ UNCHANGED <<db, vz, up, from, round>>
        /\ to.pc \in ToSteps
    BY <1>4 DEF ToFails, ToFaults, ToSteps, UntilAddress, Naming
  <2>2. job.to \notin {"none", "DONEOK"} /\ to'.pc \in {"off", "undo1"}
    BY <1>0, <1>4, <2>1, ToFinds DEF ToFails, ToOK, Locals
  <2>3. /\ job'.data = job.data /\ job'.clone = job.clone /\ job'.inOrder = job.inOrder /\ job'.to = "ERROR" /\ job'.from = job.from
    BY <1>0, <2>1 DEF JobsOK
  <2> QED
    BY <1>0, <2>1, <2>2, <2>3, RowsSwap DEF ConfirmedOK, Naming
<1>5. ASSUME NEW s \in FromFaults, FromFails(s) PROVE IndSwaps'
  <2>1. /\ job' = [job EXCEPT !.from = "ERROR"] /\ UNCHANGED <<db, vz, up, to, round>>
        /\ from'.pc \in {"off", "undo1"}
    BY <1>0, <1>5 DEF FromFails, FromOK, Locals
  <2>2. /\ job'.data = job.data /\ job'.clone = job.clone /\ job'.inOrder = job.inOrder /\ job'.to = job.to /\ job'.from = "ERROR"
    BY <1>0, <2>1 DEF JobsOK
  <2> QED
    BY <1>0, <2>1, <2>2, RowsSwap DEF ConfirmedOK, Resting, Undos
<1>6. CASE HandlerDies \/ \E c \in Pair : NodeCrash(c) \/ NodeBoot(c)
  <2>1. /\ UNCHANGED <<db, job, round>>
        /\ to' = to \/ to' = Die(to)
        /\ from' = from \/ from' = Die(from)
    BY <1>6 DEF HandlerDies, NodeCrash, NodeBoot
  <2>2. /\ to' = to \/ to'.pc = "dead"
        /\ from' = from \/ from'.pc = "dead"
    BY <1>0, <2>1 DEF Die, ToOK, FromOK, Locals
  <2>3. \A e \in Pair : vz'[e].ips = vz[e].ips /\ vz'[e].name = vz[e].name
    <3>1. CASE UNCHANGED vz
      BY <3>1
    <3>2. CASE \E c \in Pair : NodeCrash(c) \/ NodeBoot(c)
      <4>1. PICK c \in Pair, b \in BOOLEAN : vz' = VzSet(c, "running", b)
        BY <1>0, <3>2 DEF NodeCrash, NodeBoot, TablesOK
      <4> QED
        BY <1>0, <4>1 DEF VzSet, TablesOK
    <3> QED
      BY <1>6, <3>1, <3>2 DEF HandlerDies
  <2> QED
    BY <1>0, <2>1, <2>2, <2>3, RowsSwap DEF ConfirmedOK, Naming, Resting
<1>7. CASE StartTo
  <2>1. job'.data = job.data /\ job'.clone = job.clone /\ job'.inOrder = job.inOrder /\ job.to = "WAITING" /\ job'.to = "RUNNING" /\ job'.from = job.from
    BY <1>0, <1>7 DEF StartTo, JobsOK
  <2>2. to'.pc = "getSource" /\ UNCHANGED <<db, vz, from, up, round>>
    BY <1>7 DEF StartTo, Idle
  <2> QED
    BY <1>0, <2>1, <2>2, RowsSwap DEF ConfirmedOK, Naming
<1>8. CASE StartFrom \/ KeepWaiting
  <2>1. /\ job'.data = job.data /\ job'.clone = job.clone /\ job'.inOrder = job.inOrder /\ job'.to = job.to
        /\ job'.from \in {"RUNNING", "WAITING"}
        /\ UNCHANGED <<db, vz, up, to, round>> /\ from'.pc \in {"check", "off"}
    BY <1>0, <1>8 DEF StartFrom, KeepWaiting, JobsOK, Idle
  <2> QED
    BY <1>0, <2>1, RowsSwap DEF ConfirmedOK, Resting
<1>9. CASE ToDone
  <2>1. /\ to.pc = "done" /\ to'.pc = "off" /\ UNCHANGED <<db, vz, up, from, round>>
        /\ job' = [job EXCEPT !.to = "DONEOK"] /\ job.to # "none"
    BY <1>0, <1>9 DEF ToDone, OrderOK, ToOK, Locals
  <2>2. job'.to = "DONEOK" /\ job'.data = job.data /\ job'.clone = job.clone /\ job'.inOrder = job.inOrder /\ job'.from = job.from
    BY <1>0, <2>1 DEF JobsOK
  <2> QED
    BY <1>0, <2>1, <2>2, RowsSwap DEF ConfirmedOK, Naming
<1>10. CASE CheckDone
  <2>1. UNCHANGED <<db, vz, up, job, to, round>> /\ from'.pc = "fromIpdel"
    BY <1>0, <1>10 DEF CheckDone, FromOK, Locals
  <2> QED
    BY <1>0, <2>1, RowsSwap DEF ConfirmedOK
<1>11. CASE FromDone
  <2>1. /\ from.pc = "done" /\ from'.pc = "off" /\ UNCHANGED <<db, vz, up, to, round>>
        /\ job' = [job EXCEPT !.from = "DONEOK"]
    BY <1>0, <1>11 DEF FromDone, FromOK, Locals
  <2>2. job'.to = job.to /\ job'.data = job.data /\ job'.clone = job.clone /\ job'.inOrder = job.inOrder
    BY <1>0, <2>1 DEF JobsOK
  <2> QED
    BY <1>0, <2>1, <2>2, RowsSwap DEF ConfirmedOK, Resting
<1>12. CASE ToSucceeds /\ ~ToDone
  BY <1>0, <1>12, ToFrames, ToSwaps
<1>13. CASE FromSucceeds /\ ~CheckDone /\ ~FromDone
  BY <1>0, <1>13, FromFrames, FromSwaps
<1> QED
  BY <1>2, <1>3, <1>4, <1>5, <1>6, <1>7, <1>8, <1>9, <1>10, <1>11, <1>12, <1>13, <1>14, BackendCases DEF Next, Fail

(* When both jobs of two containers in order are done, these have          *)
(* exchanged addresses, names and roles, and the nodes agree with the      *)
(* records, however often they were switched and whatever statuses were    *)
(* set before: each UPDATE has its vzctl command, none is missed on the    *)
(* way to the end, and what failed without a test is not among them.       *)
THEOREM DoneIsSwapped == Spec /\ RollsBack => []DoneMeansSwapped
<1>1. IndSwaps => DoneMeansSwapped
  <2> SUFFICES ASSUME IndSwaps, job.to = "DONEOK", job.from = "DONEOK", job.inOrder PROVE DoneMeansSwapped
    BY DEF DoneMeansSwapped
  <2>1. IndHolds /\ IndType /\ TablesOK /\ Holds(Clone) /\ ConfirmedOK /\ GivenOK /\ FromPointOK
    BY DEF IndSwaps, IndHolds, HolderOK, IndType
  <2>2. db[Source].uSource = Clone
    BY <2>1, ThePair DEF IndSwaps, TakenOK, TablesOK
  <2>3. /\ vz[Source].name = job.data.name /\ db[Source].ip = job.data.ip
        /\ vz[Source].ips = {job.data.ip} /\ db[Source].name = job.data.name
        /\ job.data.ip = Clone0
    BY <2>1, <2>2, ThePair DEF IndSwaps, TakenOK, FromPointOK, ConfirmedOK
  <2>4. /\ vz[Clone].ips = {Prod} /\ db[Clone].ip = Prod /\ db[Clone].uSource = None
        /\ vz[Clone].name = db[Clone].name /\ db[Clone].name.of # job.data.name.of
    BY <2>1 DEF GivenOK, Holds
  <2>5. db[Clone].name.of \in Pair /\ job.data.name.of \in Pair
    BY <2>1, <2>3, ThePair DEF TablesOK, Names
  <2>6. \A c \in Pair : vz[c].ips = {db[c].ip} /\ vz[c].name = db[c].name
    BY <2>1, <2>3, <2>4, ThePair
  <2> QED
    BY <2>2, <2>3, <2>4, <2>5, <2>6 DEF DoneMeansSwapped
<1> QED
  BY <1>1, SwapsInit, SwapsStep, PTL DEF Spec

-----------------------------------------------------------------------------
(* FailoverTo has not begun to change the clone, or has undone it.         *)
Unchanged == job.to = "WAITING" \/ (to.pc = "off" /\ job.to \in {"ERROR", "CANCELED"})

Reaches(k) == to.pc \in Undos /\ ToLevel(to.at) >= k

UntilIps == {"getSource", "unsetSource", "nodeStatus", "start", "onboot", "active", "ipdel"}
AfterIps == {"getIP", "ipadd", "setIP"} \cup Addressed

(* What a clone in order has lost at each point, a rollback restores.      *)
BackOK ==
    /\ \A k \in 1 .. 4 : to.pc = Undo(k) => ToLevel(to.at) >= k
    /\ job.inOrder =>
        /\ Unchanged \/ to.pc \in {"getSource", "unsetSource", "undo2", "undo3", "undo4"}
             => db[Clone].uSource = Source
        /\ Unchanged \/ to.pc \in UntilIps \cup {"undo4"} \/ (to.pc \in Undos /\ ~Reaches(3))
             => vz[Clone].ips = {job.data.ip}
        /\ Unchanged \/ to.pc \in UntilAddress \/ (to.pc \in Undos /\ ~Reaches(4))
             => db[Clone].ip = job.data.ip
        /\ to.pc \in AfterIps \/ Reaches(3) => to.orig = job.data.ip

IndBack == IndSwaps /\ "silent" \notin Faults /\ BackOK

LEMMA BackInit == Init /\ RollsBack /\ "silent" \notin Faults => IndBack
<1> SUFFICES ASSUME Init, RollsBack, "silent" \notin Faults PROVE IndBack
  OBVIOUS
<1>1. to.pc = "off" /\ job.to = "none"
  BY DEF Init, Idle
<1>2. BackOK
  BY <1>1 DEF BackOK, Unchanged, Undo, Undos, Reaches, UntilIps, UntilAddress, AfterIps, Addressed, Naming
<1> QED
  BY <1>2, SwapsInit DEF IndBack

(* A forward step of FailoverTo.                                           *)
LEMMA ToGoesBack ==
  ASSUME IndBack, IndSwaps', ToFrame, ToTells, to.pc \in ToSteps
  PROVE  IndBack'
<1>1. /\ BackOK /\ UNCHANGED <<job, trial>> /\ Clone' = Clone /\ Source' = Source
      /\ to'.pc = AfterTo(to.pc)
  BY DEF ToFrame, ToActs, IndBack
<1>2. /\ to'.pc \notin Undos \cup {"off"}
      /\ to'.pc \in {"getSource", "unsetSource"} => to.pc = "getSource"
      /\ to'.pc \in UntilIps => to.pc \in UntilIps \ {"ipdel"}
      /\ to'.pc \in UntilAddress => to.pc \in UntilAddress \ {"setIP"}
      /\ to'.pc \in AfterIps => to.pc \in {"ipdel"} \cup AfterIps
  BY <1>1 DEF AfterTo, ToSteps, UntilAddress, UntilIps, AfterIps, Addressed, Naming, Undos
<1>3. ~Unchanged'
  <2>1. job.to # "WAITING"
    BY DEF IndBack, IndSwaps, IndHolds, IndType, OrderOK, ToSteps, UntilAddress, Naming, Resting
  <2> QED
    BY <1>1, <1>2, <2>1 DEF Unchanged
<1>4. \A k \in 1 .. 4 : to'.pc # Undo(k)
  BY <1>2 DEF Undo, Undos
<1>5. BackOK'
  BY <1>1, <1>2, <1>3, <1>4 DEF BackOK, Reaches, ToFrame, ToTells, UntilIps, UntilAddress, AfterIps, Undos
<1> QED
  BY <1>1, <1>5 DEF IndBack, Faults

(* A level of its rollback.                                                *)
LEMMA ToComesBack ==
  ASSUME IndBack, IndSwaps', ToFrame, ToTells, to.pc \in Undos
  PROVE  IndBack'
<1>0. PICK k \in 1 .. 4 : to.pc = Undo(k)
  BY DEF Undos, Undo
<1>1. /\ BackOK /\ UNCHANGED <<job, trial>> /\ Clone' = Clone /\ Source' = Source /\ to'.at = to.at
      /\ to'.orig = to.orig
  BY DEF ToFrame, ToActs, IndBack, Undos
<1>2. to'.pc = (IF k < ToLevel(to.at) THEN Undo(k + 1) ELSE "off") /\ to'.pc \in Undos \cup {"off"}
  BY <1>0 DEF ToFrame, IndBack, IndSwaps, IndHolds, ToPointOK
<1>3. ToLevel(to.at) \in 0 .. 4 /\ ToLevel(to.at) >= k
  <2>1. to.at \in ToFaults
    BY DEF IndBack, IndSwaps, IndHolds, IndType, ToOK
  <2> QED
    BY <1>0, <1>1, <2>1 DEF ToFaults, ToLevel, BackOK
<1>4. job.data.ip # None /\ job.to # "WAITING"
  BY DEF IndBack, IndSwaps, IndHolds, IndType, JobsOK, OrderOK, Undos, Resting
<1> DEFINE l == ToLevel(to.at)
<1>5. /\ Reaches(3) <=> l >= 3
      /\ Reaches(4) <=> l >= 4
      /\ Reaches(3)' <=> to'.pc # "off" /\ l >= 3
      /\ Reaches(4)' <=> to'.pc # "off" /\ l >= 4
  BY <1>1, <1>2 DEF Reaches, Undos
<1> HIDE DEF l
<1>6. l \in 0 .. 4 /\ l >= k /\ to'.pc = (IF k < l THEN Undo(k + 1) ELSE "off")
  BY <1>2, <1>3 DEF l
<1>7. /\ \A j \in 1 .. 4 : to'.pc = Undo(j) => j = k + 1 /\ k < l
      /\ to'.pc = "off" => k = l
      /\ to.pc = "undo1" <=> k = 1
      /\ to.pc = "undo2" <=> k = 2
      /\ to.pc = "undo3" <=> k = 3
      /\ to.pc = "undo4" <=> k = 4
      /\ to'.pc = "undo1" <=> FALSE
      /\ to'.pc = "undo2" <=> k = 1 /\ k < l
      /\ to'.pc = "undo3" <=> k = 2 /\ k < l
      /\ to'.pc = "undo4" <=> k = 3 /\ k < l
  BY <1>0, <1>6 DEF Undo
<1>8. /\ \A j \in 1 .. 4 : to'.pc = Undo(j) => ToLevel(to'.at) >= j
      /\ job.inOrder => db'[Clone].uSource = Source
  BY <1>1, <1>2, <1>6, <1>7 DEF BackOK, ToFrame, ToTells, l
<1>9. job.inOrder /\ (to'.pc = "off" \/ to'.pc = "undo4" \/ l < 3) => vz'[Clone].ips = {job.data.ip}
  BY <1>1, <1>4, <1>5, <1>6, <1>7 DEF BackOK, ToFrame, ToTells
<1>10. job.inOrder /\ (to'.pc = "off" \/ l < 4) => db'[Clone].ip = job.data.ip
  BY <1>1, <1>4, <1>5, <1>6, <1>7 DEF BackOK, ToFrame, ToTells
<1>11. job.inOrder /\ l >= 3 => to'.orig = job.data.ip
  BY <1>1, <1>5 DEF BackOK
<1>12. Unchanged' => to'.pc = "off"
  BY <1>1, <1>4 DEF Unchanged
<1>13. to'.pc \in Undos \cup {"off"}
  BY <1>2
<1>14. BackOK'
  <2>1. to'.pc \notin UntilIps \cup UntilAddress \cup AfterIps \cup {"getSource", "unsetSource"}
    BY <1>13 DEF UntilIps, UntilAddress, AfterIps, Addressed, Naming, Undos
  <2>2. to'.pc \in Undos => to'.pc # "off"
    BY DEF Undos
  <2>3. /\ to'.pc \in Undos /\ ~Reaches(3)' => l < 3
        /\ to'.pc \in Undos /\ ~Reaches(4)' => l < 4
    BY <1>5, <1>6, <2>2
  <2> QED
    BY <1>1, <1>5, <1>8, <1>9, <1>10, <1>11, <1>12, <2>1, <2>2, <2>3 DEF BackOK
<1> QED
  BY <1>1, <1>14 DEF IndBack, Faults

LEMMA ToFailsBack ==
  ASSUME IndBack, IndSwaps', UNCHANGED trial, NEW s \in ToFaults, ToFails(s)
  PROVE  IndBack'
<1>0. IndType /\ JobsOK /\ ToOK
  BY DEF IndBack, IndSwaps, IndHolds, IndType
<1>1. /\ to.pc = s /\ UNCHANGED <<db, vz, trial>> /\ BackOK
      /\ to'.pc = (IF ToLevel(s) = 0 THEN "off" ELSE "undo1") /\ to'.at = s /\ to'.orig = to.orig
  BY <1>0 DEF ToFails, IndBack, ToOK, Locals
<1>2. job'.to = "ERROR" /\ job'.data = job.data /\ job'.inOrder = job.inOrder /\ Clone' = Clone /\ Source' = Source
  BY <1>0 DEF ToFails, JobsOK
<1>3. /\ ToLevel(s) \in 0 .. 4
      /\ ToLevel(s) = 0 => s \in {"getSource", "unsetSource"}
      /\ ToLevel(s) < 3 => s \in UntilIps
      /\ ToLevel(s) < 4 => s \in UntilAddress
      /\ ToLevel(s) >= 3 => s \in AfterIps
  BY DEF ToLevel, ToFaults, UntilIps, UntilAddress, AfterIps, Addressed, Naming
<1>4. to'.pc \in {"off", "undo1"} /\ (to'.pc = "off" <=> ToLevel(s) = 0) /\ ToLevel(to'.at) = ToLevel(s)
  BY <1>1
<1>5. /\ \A k \in 1 .. 4 : to'.pc = Undo(k) => ToLevel(to'.at) >= k
      /\ job.inOrder /\ to'.pc = "off" => db'[Clone].uSource = Source
  BY <1>1, <1>3, <1>4 DEF BackOK, Undo
<1>6. job.inOrder /\ ToLevel(s) < 3 => vz'[Clone].ips = {job.data.ip}
  BY <1>1, <1>3 DEF BackOK
<1>7. job.inOrder /\ ToLevel(s) < 4 => db'[Clone].ip = job.data.ip
  BY <1>1, <1>3 DEF BackOK
<1>8. job.inOrder /\ ToLevel(s) >= 3 => to'.orig = job.data.ip
  BY <1>1, <1>3 DEF BackOK
<1>9. /\ Unchanged' => to'.pc = "off"
      /\ Reaches(3)' <=> to'.pc = "undo1" /\ ToLevel(s) >= 3
      /\ Reaches(4)' <=> to'.pc = "undo1" /\ ToLevel(s) >= 4
  BY <1>2, <1>4 DEF Unchanged, Reaches, Undos
<1>10. BackOK'
  BY <1>2, <1>3, <1>4, <1>5, <1>6, <1>7, <1>8, <1>9 DEF BackOK, UntilIps, UntilAddress, AfterIps, Addressed, Naming, Undos
<1> QED
  BY <1>10 DEF IndBack, Faults

(* What the clone has stays, and FailoverTo where it is, or it begins, or  *)
(* dies.                                                                   *)
LEMMA RowsBack ==
  ASSUME IndBack, IndSwaps', UNCHANGED trial,
         Clone' = Clone, job'.data = job.data, job'.inOrder = job.inOrder,
         \A c \in Pair : /\ db'[c].uSource = db[c].uSource /\ db'[c].ip = db[c].ip
                         /\ vz'[c].ips = vz[c].ips,
         Unchanged' => Unchanged,
         \/ to' = to
         \/ to'.pc = "dead"
         \/ to'.pc = "getSource" /\ Unchanged
  PROVE  IndBack'
<1>1. Clone \in Pair /\ Source' = Source
  BY ThePair DEF IndBack, IndSwaps, IndHolds
<1>2. BackOK'
  <2>1. CASE to' = to
    BY <1>1, <2>1 DEF IndBack, BackOK, Reaches
  <2>2. CASE to'.pc \in {"dead", "getSource"}
    BY <1>1, <2>2 DEF IndBack, BackOK, Reaches, Undo, Undos, UntilIps, UntilAddress, AfterIps, Addressed, Naming
  <2> QED
    BY <2>1, <2>2
<1> QED
  BY <1>2 DEF IndBack, Faults

(* Once FailoverTo is done there is nothing to bring back.                 *)
LEMMA DoneBack ==
  ASSUME IndBack, IndSwaps', UNCHANGED trial, job'.to = "DONEOK"
  PROVE  IndBack'
<1>1. to'.pc = "off" /\ ~Unchanged'
  BY DEF IndSwaps, IndHolds, IndType, OrderOK, Unchanged
<1>2. BackOK'
  BY <1>1 DEF BackOK, Reaches, Undo, Undos, UntilIps, UntilAddress, AfterIps, Addressed, Naming
<1> QED
  BY <1>2 DEF IndBack, Faults

LEMMA BackStep == IndBack /\ [Next /\ UNCHANGED trial]_<<vars, trial>> => IndBack'
<1> SUFFICES ASSUME IndBack, [Next /\ UNCHANGED trial]_<<vars, trial>> PROVE IndBack'
  OBVIOUS
<1>0. IndSwaps /\ IndSwaps' /\ IndHolds /\ IndType /\ JobsOK /\ OrderOK /\ ToOK /\ TablesOK
  BY SwapsStep DEF IndBack, IndSwaps, IndHolds, IndType
<1>1. CASE UNCHANGED <<vars, trial>>
  BY <1>0, <1>1 DEF vars, IndBack, Faults, BackOK, Unchanged, Reaches
<1> SUFFICES ASSUME Next, UNCHANGED trial PROVE IndBack'
  BY <1>1
<1>2. ASSUME NEW c \in Pair, NEW second \in BOOLEAN, Switchover(c, second) PROVE IndBack'
  <2>1. /\ Clone' = c /\ Source' = Other(c) /\ job'.to = "WAITING" /\ job'.data.ip = db[c].ip
        /\ job'.inOrder = InOrder /\ to.pc \in Resting /\ UNCHANGED <<vz, to>>
    BY <1>2 DEF Switchover, Resting
  <2>2. BackOK'
    BY <1>0, <1>2, <2>1, ConfirmFinds DEF BackOK, Reaches, Undo, Undos, Resting, AfterIps, Addressed, Naming
  <2> QED
    BY <1>0, <2>2 DEF IndBack, Faults
<1>12. ASSUME NEW c \in Pair, NEW s \in {"ACTIVE", "STOPPED"}, GroupStatus(c, s) PROVE IndBack'
  <2>1. /\ job'.data = job.data /\ Clone' = Clone /\ job'.inOrder = job.inOrder /\ to' = to /\ vz' = vz
        /\ Unchanged' => Unchanged
        /\ \A e \in Pair : db'[e].uSource = db[e].uSource /\ db'[e].ip = db[e].ip
    BY <1>0, <1>12, StatusFields DEF Unchanged
  <2> QED
    BY <1>0, <2>1, RowsBack
<1>3. ASSUME NEW row \in {"to", "from"}, GroupCancel(row) PROVE IndBack'
  <2>1. /\ job' = [job EXCEPT ![row] = "CANCELED"] /\ job[row] \in {"WAITING", "ERROR"}
        /\ UNCHANGED <<db, vz, to>>
    BY <1>3 DEF GroupCancel
  <2>2. /\ job'.data = job.data /\ job'.clone = job.clone /\ job'.inOrder = job.inOrder
        /\ job'.to = job.to \/ (job'.to = "CANCELED" /\ job.to \in {"WAITING", "ERROR"})
    BY <1>0, <2>1 DEF JobsOK
  <2> QED
    BY <1>0, <2>1, <2>2, RowsBack DEF Unchanged
<1>4. ASSUME NEW s \in ToFaults, ToFails(s) PROVE IndBack'
  BY <1>0, <1>4, ToFailsBack
<1>5. CASE HandlerDies \/ \E c \in Pair : NodeCrash(c) \/ NodeBoot(c)
  <2>1. /\ UNCHANGED <<db, job>>
        /\ to' = to \/ to' = Die(to)
    BY <1>5 DEF HandlerDies, NodeCrash, NodeBoot
  <2>2. to' = to \/ to'.pc = "dead"
    BY <1>0, <2>1 DEF Die, ToOK, Locals
  <2>3. \A e \in Pair : vz'[e].ips = vz[e].ips
    <3>1. CASE UNCHANGED vz
      BY <3>1
    <3>2. CASE \E c \in Pair : NodeCrash(c) \/ NodeBoot(c)
      <4>1. PICK c \in Pair, b \in BOOLEAN : vz' = VzSet(c, "running", b)
        BY <1>0, <3>2 DEF NodeCrash, NodeBoot, TablesOK
      <4> QED
        BY <1>0, <4>1 DEF VzSet, TablesOK
    <3> QED
      BY <1>5, <3>1, <3>2 DEF HandlerDies
  <2> QED
    BY <1>0, <2>1, <2>2, <2>3, RowsBack DEF Unchanged
<1>6. CASE StartTo
  <2>1. job'.data = job.data /\ job'.clone = job.clone /\ job'.inOrder = job.inOrder /\ job.to = "WAITING" /\ job'.to = "RUNNING"
    BY <1>0, <1>6 DEF StartTo, JobsOK
  <2>2. to'.pc = "getSource" /\ UNCHANGED <<db, vz>>
    BY <1>6 DEF StartTo, Idle
  <2> QED
    BY <1>0, <2>1, <2>2, RowsBack DEF Unchanged
<1>7. CASE StartFrom \/ KeepWaiting
  <2>1. /\ job'.data = job.data /\ job'.clone = job.clone /\ job'.inOrder = job.inOrder /\ job'.to = job.to
        /\ UNCHANGED <<db, vz, to>>
    BY <1>0, <1>7 DEF StartFrom, KeepWaiting, JobsOK
  <2> QED
    BY <1>0, <2>1, RowsBack DEF Unchanged
<1>8. CASE ToDone
  BY <1>0, <1>8, DoneBack DEF ToDone, JobsOK
<1>9. CASE ToSucceeds /\ ~ToDone
  <2>1. ToFrame /\ ToTells /\ to.pc \in ToSteps \cup Undos
    BY <1>0, <1>9, ToFrames DEF IndBack, ToFrame, ToActs
  <2> QED
    BY <1>0, <2>1, ToGoesBack, ToComesBack
<1>10. CASE FromSucceeds
  <2>1. CASE CheckDone
    BY <1>0, <2>1, DoneBack DEF CheckDone, FailToJobDone
  <2>2. CASE FromDone
    <3>1. job'.to = job.to /\ job.to = "DONEOK"
      BY <1>0, <2>2, FromBegins DEF FromDone, JobsOK
    <3> QED
      BY <1>0, <3>1, DoneBack
  <2>3. CASE ~CheckDone /\ ~FromDone
    <3>1. FromActs
      BY <1>0, <1>10, <2>3, FromFrames DEF FromFrame, FromBack
    <3>2. job.to = "DONEOK"
      BY <1>0, <3>1, FromBegins DEF FromActs
    <3>3. job'.to = job.to
      BY <1>0, <3>1 DEF FromActs, JobsOK
    <3> QED
      BY <1>0, <3>2, <3>3, DoneBack
  <2> QED
    BY <1>10, <2>1, <2>2, <2>3
<1>11. ASSUME NEW s \in FromFaults, FromFails(s) PROVE IndBack'
  <2>1. from.pc \in FromSteps /\ job' = [job EXCEPT !.from = "ERROR"]
    BY <1>11 DEF FromFails, FromFaults, FromSteps, FromNamed
  <2>2. job'.to = job.to /\ job.to = "DONEOK"
    BY <1>0, <2>1, FromBegins DEF JobsOK
  <2> QED
    BY <1>0, <2>2, DoneBack
<1> QED
  BY <1>2, <1>3, <1>4, <1>5, <1>6, <1>7, <1>8, <1>9, <1>10, <1>11, <1>12, BackendCases DEF Next, Fail

(* A FailoverTo of two containers in order that failed, and whose rollback *)
(* ran to its end, leaves the clone a clone with its own address, in its   *)
(* record and on its node: every level of the rollback restores what the   *)
(* steps up to the failure took, from what they kept.                      *)
THEOREM RollbackRestores == Spec /\ RollsBack => []RolledBack
<1>1. IndBack => RolledBack
  BY DEF IndBack, BackOK, Unchanged, RolledBack
<1> DEFINE Untold == "silent" \in Faults
<1>2. Untold /\ [Next /\ UNCHANGED trial]_<<vars, trial>> => Untold'
  BY DEF Faults
<1>3. Untold => RolledBack
  BY DEF RolledBack
<1>4. Init /\ RollsBack /\ ~Untold => IndBack
  BY BackInit
<1> QED
  BY <1>1, <1>2, <1>3, <1>4, BackStep, PTL DEF Spec
=============================================================================
