-------------------------- MODULE ProxyHosts_proofs --------------------------
(***************************************************************************)
(* What is proved of the requests on proxy hosts: the types of their rows  *)
(* and of their local variables, for any number of clients; and that one   *)
(* client, when nothing fails, leaves nginx and the files as the rows say. *)
(***************************************************************************)
EXTENDS ProxyHosts, TLAPS

\* A row has a file.
LEMMA RowFile == ASSUME NEW row \in Row PROVE File(row) \in Names /\ File(row) # NoFile
BY DomainAssumption, LocalAssumption DEF File, Row

\* ServiceTypeOK in two parts: the rows and what is noted of them,
RowsOK ==
  /\ db \in [Hosts -> Row \cup {NoRow, Gone}]
  /\ status \in [Hosts -> {"ok", "error"}]
  /\ reloadPending \in BOOLEAN
  /\ owed \subseteq Hosts

\* and the requests: all but a read and the reloader have a row.
Working(s, l) ==
  /\ l \in Local \cup Updating
  /\ s \in Steps \ {"idle"}
  /\ s = "read" => l \in Updating
  /\ s # "read" => l.row \in Row \/ (l.op = "reloader" /\ s = "manager")
  /\ s = "insert" => l.op = "create"
  /\ s = "manager" => l.op \in {"create", "update", "refresh", "regenerate", "delete", "reloader"}

Variables == pc = [q \in Procs |-> pc[q]] /\ loc = [q \in Procs |-> loc[q]]

LocalOK(p) == pc[p] \in Steps /\ ((pc[p] = "idle" /\ loc[p] = NoRow) \/ Working(pc[p], loc[p]))

LocalsOK == Variables /\ \A p \in Procs : LocalOK(p)

\* A step of p.
Moves(p) ==
  /\ Variables' /\ LocalOK(p)'
  /\ \A q \in Procs \ {p} : pc'[q] = pc[q] /\ loc'[q] = loc[q]

LEMMA ServiceTypes == RowsOK /\ LocalsOK => ServiceTypeOK
<1> SUFFICES ASSUME RowsOK, LocalsOK PROVE ServiceTypeOK
  OBVIOUS
<1>1. ASSUME NEW p \in Procs, pc[p] # "idle"
      PROVE  /\ [f \in {"op", "host", "row", "old"} |-> loc[p][f]] \in Local
             /\ pc[p] \in {"configure", "files", "waf", "undoFiles", "deleteRow", "restore"}
                  => loc[p].row # NoRow
             /\ loc[p] # NoRow
  <2>1. Working(pc[p], loc[p]) BY <1>1 DEF LocalsOK, LocalOK, Variables
  <2>2. loc[p] # NoRow BY <2>1, LocalAssumption DEF Working
  <2>3. /\ loc[p].op \in ServiceOps \cup {"reloader"} /\ loc[p].host \in Hosts
        /\ loc[p].row \in Row \cup {NoRow} /\ loc[p].old \in Names \cup {NoFile}
    BY <2>1 DEF Working, Local, Updating
  <2>4. [f \in {"op", "host", "row", "old"} |-> loc[p][f]] \in Local BY <2>3 DEF Local
  <2> QED BY <2>1, <2>2, <2>4, RowAssumption DEF Working
<1>2. \A p \in Procs : pc[p] = "idle" => loc[p] = NoRow BY DEF LocalsOK, LocalOK, Working
<1> QED BY <1>1, <1>2 DEF ServiceTypeOK, RowsOK, LocalsOK, LocalOK, Variables

-----------------------------------------------------------------------------
(* The requests.                                                             *)

\* A request goes on, with the same or other variables.
LEMMA GoesOn ==
  ASSUME Variables, NEW p \in Procs, LocalOK(p), NEW s, NEW l, Working(s, l), To(p, s),
         loc' = [loc EXCEPT ![p] = l]
  PROVE  Moves(p)
BY DEF Variables, LocalOK, Moves, To, Working

LEMMA GoesTo ==
  ASSUME Variables, NEW p \in Procs, LocalOK(p), pc[p] # "idle", NEW s, Working(s, loc[p]), To(p, s),
         UNCHANGED loc
  PROVE  Moves(p)
BY DEF Variables, LocalOK, Moves, To, Working

\* Where there is a row, it goes anywhere.
LEMMA Anywhere ==
  ASSUME Variables, NEW p \in Procs, LocalOK(p), pc[p] \notin {"idle", "read", "manager"}, NEW s,
         s \in Steps \ {"idle", "read", "insert", "manager"}
  PROVE  Working(s, loc[p])
BY DEF LocalOK, Working, Local, Updating

LEMMA ToManager ==
  ASSUME Variables, NEW p \in Procs, LocalOK(p), pc[p] \notin {"idle", "read", "manager"},
         loc[p].op \in {"create", "update", "refresh", "regenerate", "delete"}
  PROVE  Working("manager", loc[p])
BY DEF LocalOK, Working, Steps

LEMMA IsDone == ASSUME Variables, NEW p \in Procs, LocalOK(p), Done(p) PROVE Moves(p)
BY DEF Variables, LocalOK, Moves, Done, To, Steps

LEMMA BeginsLocal ==
  ASSUME Variables, NEW p \in Procs, LocalOK(p), NEW l, NEW s, Working(s, l), Begin(p, l, s)
  PROVE  Moves(p)
BY GoesOn DEF Begin

LEMMA AnyDatum == AnyData \in Datum
BY DatumAssumption DEF AnyData

\* What a request keeps in its variables when only a field of them changes.
LEMMA Fields ==
  ASSUME NEW l \in Local \cup Updating
  PROVE  /\ \A r \in Row : /\ [l EXCEPT !.row = r] \in Local \cup Updating
                           /\ [l EXCEPT !.row = r].row = r
                           /\ [l EXCEPT !.row = r].op = l.op
         /\ /\ [l EXCEPT !.old = NoFile] \in Local \cup Updating
            /\ [l EXCEPT !.old = NoFile].row = l.row /\ [l EXCEPT !.old = NoFile].op = l.op
BY DEF Local, Updating

LEMMA StartLocals == ASSUME RowsOK, Variables, NEW p \in Procs, LocalOK(p), Start(p) PROVE Moves(p)
<1>1. PICK h \in Hosts :
        \/ \E row \in NewRows : Create(p, h, row)
        \/ \E op \in ServiceOps :
             \/ StartOnRow(p, op, h)
             \/ \E req \in Requests : StartUpdate(p, op, h, req)
  BY DEF Start
<1>2. ASSUME NEW row \in NewRows, Create(p, h, row) PROVE Moves(p)
  <2> DEFINE l == [op |-> "create", host |-> h, row |-> row, old |-> NoFile]
  <2>1. Begin(p, l, "insert") BY <1>2 DEF Create
  <2>2. Working("insert", l)
    BY <2>1, RowAssumption DEF Working, Begin, Local, Steps
  <2> QED BY <2>1, <2>2, BeginsLocal
<1>3. ASSUME NEW op \in ServiceOps, StartOnRow(p, op, h) PROVE Moves(p)
  <2> DEFINE l == [op |-> op, host |-> h, row |-> db[h], old |-> NoFile]
             s == IF op = "refreshWithoutReload" THEN "files" ELSE "configure"
  <2>1. Begin(p, l, s) /\ db[h] \in Row BY <1>3 DEF StartOnRow, Exists, RowsOK
  <2>2. Working(s, l) BY <2>1 DEF Working, Local, Steps
  <2> QED BY <2>1, <2>2, BeginsLocal
<1>4. ASSUME NEW op \in ServiceOps, NEW req \in Requests, StartUpdate(p, op, h, req)
      PROVE  Moves(p)
  <2> DEFINE l == [op |-> op, host |-> h, row |-> NoRow, req |-> req,
                   old |-> IF "domain" \in DOMAIN req THEN File(db[h]) ELSE NoFile]
  <2>1. Begin(p, l, "read") /\ db[h] \in Row /\ op \in {"update", "updateDBOnly", "updateWithoutReload"}
    BY <1>4 DEF StartUpdate, Exists, RowsOK
  <2>2. l \in Updating BY <2>1, RowFile DEF Updating
  <2>3. Working("read", l) BY <2>2 DEF Working, Steps
  <2> QED BY <2>1, <2>3, BeginsLocal
<1> QED BY <1>1, <1>2, <1>3, <1>4

LEMMA ServiceLocals == ASSUME RowsOK, Variables, NEW p \in Procs, LocalOK(p), Service(p) PROVE Moves(p)
<1> DEFINE l == loc[p]
<1>1. CASE Insert(p)
  <2>1. l.op = "create" BY <1>1 DEF Insert, LocalOK, Working
  <2> QED BY <1>1, <2>1, GoesTo, Anywhere, ToManager, IsDone DEF Insert, Steps
<1>2. CASE UndoFiles(p) BY <1>2, GoesTo, Anywhere DEF UndoFiles, Steps
<1>3. CASE UndoRow(p) BY <1>3, IsDone DEF UndoRow
<1>4. CASE Read(p)
  <2>1. CASE Done(p) BY <2>1, IsDone
  <2>2. CASE /\ Exists(l.host) /\ loc' = [loc EXCEPT ![p].row = Merge(db[l.host], l.req)]
             /\ To(p, "write")
    <3>1. l \in Updating BY <1>4 DEF Read, LocalOK, Working
    <3>2. Merge(db[l.host], l.req) \in Row
      <4>1. db[l.host] \in Row /\ l.req \in Requests BY <2>2, <3>1 DEF Exists, RowsOK, Updating
      <4> QED BY <4>1, RequestAssumption
    <3> DEFINE m == [l EXCEPT !.row = Merge(db[l.host], l.req)]
    <3>3. loc' = [loc EXCEPT ![p] = m] BY <2>2 DEF LocalOK
    <3>4. m \in Local \cup Updating /\ m.row \in Row BY <3>1, <3>2, Fields
    <3>5. Working("write", m) BY <3>4 DEF Working, Steps
    <3> QED BY <2>2, <3>3, <3>5, GoesOn
  <2> QED BY <1>4, <2>1, <2>2 DEF Read
<1>5. CASE Write(p)
  <2>1. AfterWrite(l.op) \in Steps \ {"idle", "read", "insert", "manager"} BY DEF AfterWrite, Steps
  <2> QED BY <1>5, <2>1, GoesTo, Anywhere, IsDone DEF Write
<1>6. CASE ConfigureEnabled(p) \/ ConfigureDisabled(p) \/ ConfigureRow(p)
  BY <1>6, GoesTo, ToManager DEF ConfigureEnabled, ConfigureDisabled, ConfigureRow, Steps
<1>7. CASE CleanupDBOnly(p) \/ Abandon(p) BY <1>7, IsDone DEF CleanupDBOnly, Abandon
<1>8. CASE WriteFiles(p)
  BY <1>8, GoesTo, Anywhere DEF WriteFiles, Steps
<1>9. CASE WriteWAFFile(p) \/ CallTest(p)
  BY <1>9, GoesTo, Anywhere DEF WriteWAFFile, CallTest, Steps
<1>10. CASE Tested(p)
  <2>1. CASE Done(p) BY <2>1, IsDone
  <2>2. CASE l.op = "update" /\ loc' = [loc EXCEPT ![p].old = NoFile] /\ To(p, "manager")
    <3>1. l \in Local \cup Updating /\ l.row \in Row BY <1>10 DEF Tested, LocalOK, Working
    <3>2. loc' = [loc EXCEPT ![p] = [l EXCEPT !.old = NoFile]] BY <2>2 DEF LocalOK
    <3>4. Working("manager", [l EXCEPT !.old = NoFile]) BY <2>2, <3>1, Fields DEF Working, Steps
    <3> QED BY <2>2, <3>2, <3>4, GoesOn
  <2> QED BY <1>10, <2>1, <2>2 DEF Tested
<1>11. CASE DeleteRow(p) BY <1>11, GoesTo, Anywhere, IsDone DEF DeleteRow, Steps
<1>12. CASE Succeeded(p) \/ Failed(p)
  <2>1. pc[p] = "manager" /\ Working("manager", l) BY <1>12 DEF Succeeded, Failed, LocalOK
  <2>2. l.op # "reloader" => \A s \in {"deleteRow", "undoFiles", "retest"} : Working(s, l)
    BY <2>1 DEF Working, Steps
  <2>3. CASE Succeeded(p)
    <3>1. \/ Done(p)
          \/ l.op = "delete" /\ UNCHANGED loc /\ To(p, "deleteRow")
      BY <2>1, <2>3 DEF Succeeded, Working
    <3> QED BY <2>1, <2>2, <3>1, IsDone, GoesTo
  <2>4. CASE Failed(p)
    <3>1. \/ Done(p)
          \/ /\ l.op # "reloader" /\ UNCHANGED loc
             /\ \E s \in {"undoFiles", "retest"} : To(p, s)
      BY <2>4 DEF Failed
    <3> QED BY <2>1, <2>2, <3>1, IsDone, GoesTo
  <2> QED BY <1>12, <2>3, <2>4
<1>13. CASE Restore(p) BY <1>13, IsDone DEF Restore
<1> QED BY <1>1, <1>2, <1>3, <1>4, <1>5, <1>6, <1>7, <1>8, <1>9, <1>10, <1>11, <1>12, <1>13
        DEF Service

LEMMA DebouncedLocals ==
  ASSUME Variables, NEW p \in Procs, LocalOK(p), DebouncedReload(p)
  PROVE  Moves(p)
<1> DEFINE l == [op |-> "reloader", host |-> AnyData.host, row |-> NoRow, old |-> NoFile]
<1>1. l \in Local BY AnyDatum DEF Local, Datum
<1>2. Working("manager", l) BY <1>1 DEF Working, Steps
<1> QED BY <1>2, GoesOn DEF DebouncedReload

LEMMA LocalsStep == RowsOK /\ LocalsOK /\ [Next]_vars => LocalsOK'
<1> SUFFICES ASSUME RowsOK, LocalsOK, [Next]_vars PROVE LocalsOK'
  OBVIOUS
<1>1. ASSUME NEW p \in Procs, DebouncedReload(p) PROVE Moves(p)
  BY <1>1, DebouncedLocals DEF LocalsOK
<1>2. ASSUME UNCHANGED serviceVars PROVE LocalsOK' BY <1>2 DEF serviceVars, LocalsOK, LocalOK, Variables
<1>3. ASSUME NEW p \in Procs, Moves(p) PROVE LocalsOK'
  BY <1>3 DEF Moves, LocalsOK, LocalOK
<1>4. ASSUME NEW p \in Procs, Start(p) \/ Service(p) PROVE Moves(p)
  BY <1>4, StartLocals, ServiceLocals DEF LocalsOK
<1> QED BY <1>1, <1>2, <1>3, <1>4 DEF Next, ManagerStep, CancelCall, vars

-----------------------------------------------------------------------------
(* The rows.                                                                 *)

\* A request only writes a row it has, or marks the id as gone.
LEMMA ServiceRows == ASSUME RowsOK, Variables, NEW p \in Procs, LocalOK(p), Service(p) PROVE RowsOK'
<1> DEFINE l == loc[p]
<1>1. pc[p] \notin {"idle", "read", "manager"} => l.row \in Row /\ l.host \in Hosts
  BY DEF LocalOK, Working, Local, Updating
<1>2. pc[p] # "idle" => l.host \in Hosts BY DEF LocalOK, Working, Local, Updating
<1>3. CASE Insert(p) BY <1>1, <1>3 DEF Insert, RowsOK
<1>4. CASE UndoRow(p) BY <1>4 DEF UndoRow, DeletedRow, RowsOK
<1>5. CASE Write(p) BY <1>1, <1>5 DEF Write, RowsOK
<1>6. CASE CleanupDBOnly(p) BY <1>1, <1>6 DEF CleanupDBOnly, RowsOK
<1>7. CASE Tested(p)
  <2>1. reloadPending' \in BOOLEAN BY <1>7 DEF Tested, RowsOK
  <2> QED BY <1>7, <2>1 DEF Tested, RowsOK
<1>8. CASE DeleteRow(p)
  <2>1. db' \in [Hosts -> Row \cup {NoRow, Gone}] BY <1>8 DEF DeleteRow, DeletedRow, RowsOK
  <2> QED BY <1>8, <2>1 DEF DeleteRow, RowsOK
<1>9. CASE Succeeded(p) \/ Failed(p)
  <2>1. \A s \in {"ok", "error"} : SetStatus(p, s) => status' \in [Hosts -> {"ok", "error"}]
    BY DEF SetStatus, RowsOK
  <2>2. Working("manager", l) BY <1>9 DEF Succeeded, Failed, LocalOK, Working
  <2>3. CASE Succeeded(p)
    <3>1. status' \in [Hosts -> {"ok", "error"}] /\ owed' \subseteq owed
      BY <2>1, <2>2, <2>3 DEF Succeeded, Working, RowsOK
    <3> QED BY <2>3, <3>1 DEF Succeeded, RowsOK
  <2>4. CASE Failed(p)
    <3>1. status' \in [Hosts -> {"ok", "error"}] BY <2>1, <2>4 DEF Failed, RowsOK
    <3> QED BY <2>4, <3>1 DEF Failed, RowsOK
  <2> QED BY <1>9, <2>3, <2>4
<1>10. CASE UNCHANGED <<db, status, reloadPending, owed>> BY <1>10 DEF RowsOK
<1> QED BY <1>3, <1>4, <1>5, <1>6, <1>7, <1>8, <1>9, <1>10
        DEF Service, UndoFiles, Read, ConfigureEnabled, ConfigureDisabled, WriteFiles, WriteWAFFile,
            CallTest, Abandon, ConfigureRow, Restore

LEMMA StartRows == ASSUME RowsOK, NEW p \in Procs, Start(p) PROVE RowsOK'
BY DEF Start, Create, StartOnRow, StartUpdate, Begin, RowsOK

LEMMA DebouncedRows == ASSUME RowsOK, NEW p \in Procs, DebouncedReload(p) PROVE RowsOK'
BY DEF DebouncedReload, RowsOK

LEMMA RowsStep == RowsOK /\ LocalsOK /\ [Next]_vars => RowsOK'
<1> SUFFICES ASSUME RowsOK, LocalsOK, [Next]_vars PROVE RowsOK'
  OBVIOUS
<1>1. ASSUME UNCHANGED serviceVars PROVE RowsOK' BY <1>1 DEF serviceVars, RowsOK
<1> QED BY <1>1, StartRows, DebouncedRows, ServiceRows DEF Next, ManagerStep, CancelCall, vars, LocalsOK

LEMMA InitTypes == Init => RowsOK /\ LocalsOK
BY DEF Init, RowsOK, LocalsOK, LocalOK, Variables, Steps

\* The rows, and the variables of every request, are what the code takes them for: whatever the
\* clients ask for and whatever fails, no request goes on with a row it has not read.
THEOREM TypeCorrect == Spec => []ServiceTypeOK
<1>1. RowsOK /\ LocalsOK /\ [Next]_vars => (RowsOK /\ LocalsOK)' BY RowsStep, LocalsStep
<1> QED BY <1>1, InitTypes, ServiceTypes, PTL DEF Spec

-----------------------------------------------------------------------------
(* One client, and nothing that fails; no two domains share a file.          *)
Serial == \E p : Procs = {p}
DistinctFiles == \A d, e \in Domains : FileOf[d] = FileOf[e] => d = e
Untroubled == ~NginxErrors /\ ~FileErrors /\ ~DBErrors /\ BadBodies = {} /\ DistinctFiles

\* The files of a host are under these names; what they include is there.
FilesIn(h, names) == \A n \in Names : disk.conf[n] # NoFile /\ disk.conf[n].host = h => n \in names
Includes(h) ==
  \A n \in Names : disk.conf[n] # NoFile /\ disk.conf[n].host = h =>
    (disk.conf[n].waf => disk.waf[h] # NoFile) /\ (disk.conf[n].cloud => disk.cloud[h])

\* The files d are those generated from x.
Written(d, x) ==
  d.conf[x.name] = x /\ (x.waf => d.waf[x.host] = x.body) /\ (x.cloud => d.cloud[x.host])

\* The file of no other host.
Free(name, h) == \A g \in Hosts \ {h} : Exists(g) => File(db[g]) # name

\* Where no two domains share a file, a domain nobody has is a file nobody has.
LEMMA FreeFile ==
  ASSUME DistinctFiles, RowsOK, NEW d \in Domains, NEW h, ~DomainTaken(d, h)
  PROVE  Free(FileOf[d], h)
<1> SUFFICES ASSUME NEW g \in Hosts \ {h}, Exists(g) PROVE File(db[g]) # FileOf[d]
  BY DEF Free
<1>1. db[g] \in Row BY DEF Exists, RowsOK
<1>2. db[g].domain \in Domains /\ db[g].domain # d BY <1>1 DEF DomainTaken, Row
<1> QED BY <1>2 DEF DistinctFiles, File

\* A host nobody works on: its files are what its row says, those of a host that is owed are
\* of an earlier row under the same name.
OnDisk(h) ==
  /\ Includes(h)
  /\ IF Exists(h) /\ (db[h].enabled \/ h \in owed) THEN FilesIn(h, {File(db[h])}) ELSE FilesIn(h, {})
  /\ Exists(h) /\ db[h].enabled /\ h \notin owed => Written(disk, DataOf(h, db[h]))

InNginx(h) == Exists(h) /\ db[h].enabled /\ h \notin owed => Written(running, DataOf(h, db[h]))

\* The client works on the host, and its call of the manager has yet to reload.
WorksOn(p, h) == pc[p] # "idle" /\ loc[p].op # "reloader" /\ loc[p].host = h
Reloads(p) == pc[p] = "manager" /\ mpc[p] # "ok"

\* What the request is to leave on disk.
Wanted(p) ==
  LET l == loc[p] IN
    IF l.row.enabled /\ l.op # "delete"
    THEN FilesIn(l.host, {File(l.row)}) /\ Written(disk, DataOf(l.host, l.row))
    ELSE FilesIn(l.host, {})

Called == [op : {"generate", "cleanup", "remove", "test", "reload"}, data : Datum, old : Names,
           savedConf : Datum \cup {NoFile}, savedOld : Datum \cup {NoFile},
           savedWaf : Bodies \cup {NoFile}]

\* The name of before, if the request changes it, is no other host's.
Old(l) == IF Renamed(l) THEN {l.old} ELSE {}

\* How far a request is before it calls the manager,
Requested(p) ==
  LET l == loc[p]
      k == l.host
      x == DataOf(k, l.row)
      at == pc[p]
  IN /\ at # "insert" => Exists(k)
     /\ at = "insert" => db[k] = NoRow /\ FilesIn(k, {}) /\ Free(File(l.row), k)
     /\ at \in {"read", "write"} => Includes(k) /\ FilesIn(k, {File(db[k])})
     /\ at = "read" => IF "domain" \in DOMAIN l.req
                       THEN l.old = File(db[k]) /\ Free(FileOf[l.req.domain], k)
                       ELSE l.old = NoFile
     /\ at = "write" => Free(File(l.row), k) /\ l.old \in {NoFile, File(db[k])}
                        /\ (l.old = NoFile => File(l.row) = File(db[k]))
     /\ at \notin {"insert", "read", "write"} => db[k] = l.row
     /\ at \in {"configure", "files", "waf"} =>
          FilesIn(k, {File(l.row)} \cup Old(l)) /\ \A n \in Old(l) : Free(n, k)
     /\ at = "configure" => Includes(k) /\ l.op \notin {"updateWithoutReload", "refreshWithoutReload"}
     /\ at \in {"read", "write"} => l.op \in {"update", "updateDBOnly", "updateWithoutReload"}
     /\ l.op \in {"refresh", "regenerate", "delete", "refreshWithoutReload"} => l.old = NoFile
     /\ at \in {"files", "waf", "retest", "rereload"} => l.op \in {"updateWithoutReload", "refreshWithoutReload"}
     /\ at = "waf" => l.row.enabled /\ disk.conf[x.name] = x /\ disk.cloud[k] = x.cloud
     /\ at \in {"retest", "rereload", "deleteRow"} => Wanted(p)
     /\ at = "deleteRow" => l.op = "delete"
     /\ at \notin {"undoFiles", "undoRow", "restore"}

\* and in the call that configures its host.
Configures(p) ==
  LET l == loc[p]
      k == l.host
      x == DataOf(k, l.row)
      j == job[p]
      at == mpc[p]
  IN /\ at # "ok" => /\ j.data = x
                     /\ j.op \in IF l.row.enabled /\ l.op # "delete" THEN {"generate", "cleanup"} ELSE {"remove"}
                     /\ j.op = "cleanup" => Free(j.old, k) /\ j.old # x.name
     /\ at \in {"wait", "include", "conf", "waf", "cleanup", "remove", "test", "reload", "ok"}
     /\ at \in {"include", "conf", "waf"} => j.op # "remove"
     /\ at = "cleanup" => j.op = "cleanup"
     /\ at = "remove" => j.op = "remove"
     /\ at \in {"wait", "include", "conf", "waf", "cleanup", "remove"} =>
          FilesIn(k, {x.name} \cup IF j.op = "cleanup" THEN {j.old} ELSE {})
     /\ at \in {"conf", "waf", "cleanup"} => disk.cloud[k] = x.cloud
     /\ at \in {"waf", "cleanup"} => disk.conf[x.name] = x
     /\ at = "cleanup" => (x.waf => disk.waf[k] = x.body)
     /\ at \in {"test", "reload", "ok"} => Wanted(p)

\* Where the client is: between calls, in one that configures, tests or only reloads.
Where(p) ==
  /\ pc[p] \notin {"manager", "rereload"} => mpc[p] = "idle"
  /\ pc[p] \in {"manager", "rereload"} /\ mpc[p] # "ok" => job[p] \in Called
  /\ pc[p] = "rereload" => mpc[p] \in {"wait", "test", "ok"} /\ (mpc[p] # "ok" => job[p].op = "test")
  /\ pc[p] = "manager" /\ mpc[p] = "ok" => running = disk
  /\ pc[p] # "idle" /\ loc[p].op = "reloader" =>
       pc[p] = "manager" /\ mpc[p] \in {"wait", "reload", "ok"} /\ (mpc[p] # "ok" => job[p].op = "reload")
  /\ pc[p] # "idle" /\ loc[p].op # "reloader" => Requested(p)
  /\ pc[p] = "manager" /\ loc[p].op # "reloader" => Configures(p)

SerialInv(p) ==
  /\ disk \in Disk /\ running \in Disk /\ DOMAIN mpc = Procs /\ DOMAIN job = Procs
  /\ \A h \in Hosts : Exists(h) => Free(File(db[h]), h)
  /\ \A h \in Hosts : WorksOn(p, h) \/ OnDisk(h)
  /\ \A h \in Hosts : WorksOn(p, h) \/ reloadPending \/ Reloads(p) \/ InNginx(h)
  /\ Where(p)

-----------------------------------------------------------------------------
(* The files.                                                                *)
LEMMA IncludeWritten ==
  ASSUME NEW d \in Disk, NEW x \in Datum
  PROVE  LET e == WithInclude(d, x) IN
         /\ e \in Disk /\ e.conf = d.conf /\ e.waf = d.waf
         /\ e.cloud[x.host] = x.cloud
         /\ \A h \in Hosts \ {x.host} : e.cloud[h] = d.cloud[h]
BY DEF Disk, Datum, WithInclude

LEMMA ConfWritten ==
  ASSUME NEW d \in Disk, NEW x \in Datum
  PROVE  LET e == WithConf(d, x) IN
         /\ e \in Disk /\ e.waf = d.waf /\ e.cloud = d.cloud
         /\ e.conf[x.name] = x
         /\ \A n \in Names \ {x.name} : e.conf[n] = d.conf[n]
BY DEF Disk, Datum, WithConf

LEMMA WAFWritten ==
  ASSUME NEW d \in Disk, NEW x \in Datum, NEW w \in BOOLEAN
  PROVE  LET e == WithWAF(d, x, w) IN
         /\ e \in Disk /\ e.conf = d.conf /\ e.cloud = d.cloud
         /\ e.waf[x.host] = IF w THEN x.body ELSE NoFile
         /\ \A h \in Hosts \ {x.host} : e.waf[h] = d.waf[h]
BY DEF Disk, Datum, WithWAF

LEMMA FileRemoved ==
  ASSUME NEW d \in Disk, NEW m \in Names
  PROVE  LET e == WithoutFile(d, m) IN
         /\ e \in Disk /\ e.waf = d.waf /\ e.cloud = d.cloud
         /\ e.conf[m] = NoFile
         /\ \A n \in Names \ {m} : e.conf[n] = d.conf[n]
BY DEF Disk, WithoutFile

LEMMA ConfigRemoved ==
  ASSUME NEW d \in Disk, NEW x \in Datum
  PROVE  LET e == WithoutConfig(d, x) IN
         /\ e \in Disk /\ e.conf[x.name] = NoFile
         /\ \A n \in Names \ {x.name} : e.conf[n] = d.conf[n]
         /\ \A h \in Hosts \ {x.host} : e.waf[h] = d.waf[h] /\ e.cloud[h] = d.cloud[h]
BY DEF Disk, Datum, WithoutConfig

\* A step changes the files of host k only, under these names.
Touches(k, names) ==
  /\ \A h \in Hosts \ {k} : disk'.waf[h] = disk.waf[h] /\ disk'.cloud[h] = disk.cloud[h]
  /\ \A n \in Names : \/ disk'.conf[n] = disk.conf[n]
                      \/ n \in names /\ (disk'.conf[n] = NoFile \/ disk'.conf[n].host = k)

LEMMA Elsewhere ==
  ASSUME RowsOK, NEW k, NEW names, Touches(k, names), \A n \in names : Free(n, k),
         NEW h \in Hosts, h # k, OnDisk(h), db'[h] = db[h], h \in owed' <=> h \in owed
  PROVE  OnDisk(h)'
<1>1. Exists(h)' = Exists(h) BY DEF Exists
<1>2. \A n \in Names : disk'.conf[n] # NoFile /\ disk'.conf[n].host = h => disk'.conf[n] = disk.conf[n]
  BY DEF Touches
<1>3. Exists(h) => File(db[h]) \in Names \ names BY RowFile DEF Free, Exists, RowsOK
<1>4. Exists(h) => disk'.conf[File(db[h])] = disk.conf[File(db[h])] BY <1>3 DEF Touches
<1>5. Includes(h)' BY <1>2 DEF OnDisk, Includes, Touches
<1>6. Exists(h) /\ db[h].enabled /\ h \notin owed => Written(disk, DataOf(h, db[h]))'
  BY <1>4 DEF OnDisk, Written, DataOf, Touches
<1>7. \A names2 : FilesIn(h, names2) => FilesIn(h, names2)' BY <1>2 DEF FilesIn
<1> QED BY <1>1, <1>5, <1>6, <1>7 DEF OnDisk

-----------------------------------------------------------------------------
(* What is left to show of a step of the one client.                         *)
LEMMA Data ==
  ASSUME NEW h \in Hosts, NEW r \in Row
  PROVE  /\ DataOf(h, r) \in Datum /\ DataOf(h, r).host = h /\ DataOf(h, r).name = File(r)
         /\ DataOf(h, r).body = r.body /\ DataOf(h, r).waf = r.waf /\ DataOf(h, r).cloud = r.cloud
         /\ File(r) \in Names /\ File(r) # NoFile /\ DataOf(h, r) # NoFile
         /\ r.body \in Bodies /\ r.body # NoFile
BY RowFile, FileAssumption, LocalAssumption DEF DataOf, Datum, Row

\* The names are apart.
Apart == \A h \in Hosts : Exists(h) => Free(File(db[h]), h)

LEMMA StayApart ==
  ASSUME Apart, NEW k \in Hosts, \A h \in Hosts \ {k} : db'[h] = db[h],
         Exists(k)' => Free(File(db'[k]), k)
  PROVE  Apart'
BY DEF Apart, Free, Exists

\* What nginx serves is what was on disk when it reloaded.
LEMMA Reloaded == ASSUME NEW h \in Hosts, OnDisk(h), running = disk PROVE InNginx(h)
BY DEF OnDisk, InNginx

LEMMA SameServed ==
  ASSUME NEW h \in Hosts, InNginx(h), running' = running, db'[h] = db[h], h \in owed' <=> h \in owed
  PROVE  InNginx(h)'
BY DEF InNginx, Exists, Written, DataOf

\* The request on host k goes on,
LEMMA Goes ==
  ASSUME RowsOK, NEW p \in Procs, SerialInv(p), NEW k \in Hosts, WorksOn(p, k), WorksOn(p, k)',
         NEW names, Touches(k, names), \A n \in names : Free(n, k),
         disk' \in Disk, DOMAIN mpc' = Procs, DOMAIN job' = Procs,
         UNCHANGED <<running, owed, reloadPending>>, Reloads(p) => Reloads(p)',
         \A h \in Hosts \ {k} : db'[h] = db[h], Exists(k)' => Free(File(db'[k]), k),
         Where(p)'
  PROVE  SerialInv(p)'
<1>1. Apart' BY StayApart DEF SerialInv, Apart
<1>2. ASSUME NEW h \in Hosts, h # k
      PROVE  OnDisk(h)' /\ (reloadPending' \/ Reloads(p)' \/ InNginx(h)')
  <2>1. ~WorksOn(p, h) BY <1>2 DEF WorksOn
  <2>2. OnDisk(h) /\ (reloadPending \/ Reloads(p) \/ InNginx(h)) BY <2>1 DEF SerialInv
  <2> QED BY <1>2, <2>2, Elsewhere, SameServed
<1> QED BY <1>1, <1>2 DEF SerialInv, Apart

\* or is over,
LEMMA Ends ==
  ASSUME RowsOK, NEW p \in Procs, SerialInv(p), NEW k \in Hosts, WorksOn(p, k), pc'[p] = "idle",
         NEW names, Touches(k, names), \A n \in names : Free(n, k),
         disk' \in Disk, DOMAIN mpc' = Procs, DOMAIN job' = Procs, mpc'[p] = "idle",
         UNCHANGED running, \A h \in Hosts \ {k} : h \in owed' <=> h \in owed,
         reloadPending => reloadPending', ~Reloads(p),
         \A h \in Hosts \ {k} : db'[h] = db[h], Exists(k)' => Free(File(db'[k]), k),
         OnDisk(k)', reloadPending' \/ InNginx(k)'
  PROVE  SerialInv(p)'
<1>1. Apart' BY StayApart DEF SerialInv, Apart
<1>2. ASSUME NEW h \in Hosts, h # k PROVE OnDisk(h)' /\ (reloadPending' \/ InNginx(h)')
  <2>1. ~WorksOn(p, h) BY <1>2 DEF WorksOn
  <2>2. OnDisk(h) /\ (reloadPending \/ InNginx(h)) BY <2>1 DEF SerialInv
  <2> QED BY <1>2, <2>2, Elsewhere, SameServed
<1>3. Where(p)' BY DEF Where
<1>4. running' \in Disk BY DEF SerialInv
<1> QED BY <1>1, <1>2, <1>3, <1>4 DEF SerialInv, Apart

\* or no file changed.
LEMMA NoTouch == ASSUME UNCHANGED disk, NEW k PROVE Touches(k, {})
BY DEF Touches

LEMMA GoesUntouched ==
  ASSUME RowsOK, NEW p \in Procs, SerialInv(p), NEW k \in Hosts, WorksOn(p, k), WorksOn(p, k)',
         DOMAIN mpc' = Procs, DOMAIN job' = Procs,
         UNCHANGED <<disk, running, owed, reloadPending>>, Reloads(p) => Reloads(p)',
         \A h \in Hosts \ {k} : db'[h] = db[h], Exists(k)' => Free(File(db'[k]), k),
         Where(p)'
  PROVE  SerialInv(p)'
<1>1. Touches(k, {}) /\ \A n \in {} : Free(n, k) BY NoTouch
<1>2. disk' \in Disk BY DEF SerialInv
<1> QED BY <1>1, <1>2, Goes

LEMMA EndsUntouched ==
  ASSUME RowsOK, NEW p \in Procs, SerialInv(p), NEW k \in Hosts, WorksOn(p, k), pc'[p] = "idle",
         DOMAIN mpc' = Procs, DOMAIN job' = Procs, mpc'[p] = "idle",
         UNCHANGED <<disk, running>>, \A h \in Hosts \ {k} : h \in owed' <=> h \in owed,
         reloadPending => reloadPending', ~Reloads(p),
         \A h \in Hosts \ {k} : db'[h] = db[h], Exists(k)' => Free(File(db'[k]), k),
         OnDisk(k)', reloadPending' \/ InNginx(k)'
  PROVE  SerialInv(p)'
<1>1. Touches(k, {}) /\ \A n \in {} : Free(n, k) BY NoTouch
<1>2. disk' \in Disk BY DEF SerialInv
<1> QED BY <1>1, <1>2, Ends

-----------------------------------------------------------------------------
(* The steps of a request.                                                   *)
LEMMA Calling ==
  ASSUME NEW p \in Procs, DOMAIN mpc = Procs, DOMAIN job = Procs, NEW x \in Datum, NEW n \in Names,
         NEW op \in {"generate", "cleanup", "remove", "test", "reload"}, Call(p, op, x, n)
  PROVE  /\ mpc'[p] = "wait" /\ job'[p] \in Called
         /\ job'[p].op = op /\ job'[p].data = x /\ job'[p].old = n
         /\ DOMAIN mpc' = Procs /\ DOMAIN job' = Procs /\ UNCHANGED <<disk, running>>
BY DEF Call, Called

\* A call that configures the host.
LEMMA Configuring ==
  ASSUME NEW p \in Procs, NEW k \in Hosts, NEW row \in Row, NEW j \in Called,
         loc[p].op # "reloader", loc[p].host = k, loc[p].row = row, db'[k] = row,
         FilesIn(k, {File(row)} \cup IF j.op = "cleanup" THEN {j.old} ELSE {})',
         j.data = DataOf(k, row),
         j.op \in IF row.enabled /\ loc[p].op # "delete" THEN {"generate", "cleanup"} ELSE {"remove"},
         j.op = "cleanup" => Free(j.old, k)' /\ j.old # File(row),
         loc[p].op \in {"refresh", "regenerate", "delete", "refreshWithoutReload"}
           => loc[p].old = NoFile,
         UNCHANGED loc, pc'[p] = "manager", mpc'[p] = "wait", job'[p] = j
  PROVE  Where(p)' /\ Reloads(p)' /\ WorksOn(p, k)'
<1>1. Exists(k)' BY RowAssumption DEF Exists
<1>2. Requested(p)' BY <1>1 DEF Requested
<1>3. DataOf(k, row).name = File(row) BY DEF DataOf
<1>4. Configures(p)' BY <1>3 DEF Configures
<1> QED BY <1>2, <1>4 DEF Where, Reloads, WorksOn

\* What a request that is over leaves of its host.
LEMMA Left ==
  ASSUME RowsOK', disk' \in Disk, NEW k \in Hosts, NEW r \in Row, NEW want \in BOOLEAN,
         want => r.enabled, db'[k] \in {r, Gone}, db'[k] = r /\ r.enabled => want,
         IF want THEN FilesIn(k, {File(r)})' /\ Written(disk', DataOf(k, r)) /\ db'[k] = r
         ELSE FilesIn(k, {})'
  PROVE  OnDisk(k)' /\ Includes(k)'
<1> DEFINE x == DataOf(k, r)
<1>1. /\ x.name = File(r) /\ x.host = k /\ x.waf = r.waf /\ x.cloud = r.cloud /\ x.body = r.body
      /\ r.body # NoFile
  BY Data
<1> HIDE DEF x
<1>2. Includes(k)'
  <2>1. CASE want
    <3>1. /\ disk'.conf[File(r)] = x /\ (x.waf => disk'.waf[k] = x.body) /\ (x.cloud => disk'.cloud[k])
      BY <1>1, <2>1 DEF Written, x
    <3>2. \A n \in Names : disk'.conf[n] # NoFile /\ disk'.conf[n].host = k => n = File(r)
      BY <2>1 DEF FilesIn
    <3> QED BY <1>1, <3>1, <3>2 DEF Includes
  <2>2. CASE ~want BY <2>2 DEF Includes, FilesIn
  <2> QED BY <2>1, <2>2
<1>3. r # NoRow /\ r # Gone BY RowAssumption
<1>4. CASE want BY <1>2, <1>3, <1>4 DEF OnDisk, Exists
<1>5. CASE ~want
  <2>1. \A names : FilesIn(k, names)' BY <1>5 DEF FilesIn
  <2> QED BY <1>2, <1>3, <1>5, <2>1 DEF OnDisk, Exists
<1> QED BY <1>4, <1>5

LEMMA StaysFree ==
  ASSUME NEW name, NEW k \in Hosts, Free(name, k), \A h \in Hosts \ {k} : db'[h] = db[h]
  PROVE  Free(name, k)'
BY DEF Free, Exists

LEMMA StaysIn ==
  ASSUME UNCHANGED disk, NEW k, NEW names, NEW more, FilesIn(k, names), names \subseteq more
  PROVE  FilesIn(k, more)'
BY DEF FilesIn

\* A request under way on host k, with row r.
On(p, k, r) == pc[p] # "idle" /\ loc[p].op # "reloader" /\ loc[p].host = k /\ loc[p].row = r

LEMMA Here ==
  ASSUME RowsOK, LocalsOK, NEW p \in Procs, SerialInv(p), NEW k, NEW r, On(p, k, r)
  PROVE  /\ WorksOn(p, k) /\ k \in Hosts /\ Requested(p)
         /\ pc[p] # "read" => r \in Row
         /\ disk \in Disk /\ running \in Disk /\ DOMAIN mpc = Procs /\ DOMAIN job = Procs
         /\ DOMAIN db = Hosts /\ DOMAIN pc = Procs /\ DOMAIN loc = Procs
         /\ pc[p] \notin {"manager", "rereload"} => mpc[p] = "idle"
         /\ pc[p] # "manager" => ~Reloads(p)
         /\ loc[p].old \in Names \cup {NoFile}
BY DEF LocalsOK, LocalOK, Variables, RowsOK, SerialInv, Where, WorksOn, Reloads, Working, Local, Updating, On

LEMMA SerialInsert ==
  ASSUME Untroubled, RowsOK, LocalsOK, RowsOK', NEW p \in Procs, SerialInv(p), Insert(p),
         NEW k \in Hosts, NEW r \in Row, On(p, k, r)
  PROVE  SerialInv(p)'
<1> DEFINE x == DataOf(k, r)
<1>1. pc[p] = "insert" /\ loc[p].op = "create" /\ loc[p].host = k /\ loc[p].row = r
  BY DEF Insert, LocalsOK, LocalOK, Variables, Working, On
<1>2. /\ WorksOn(p, k) /\ Requested(p) /\ disk \in Disk
      /\ DOMAIN mpc = Procs /\ DOMAIN job = Procs /\ ~Reloads(p) /\ mpc[p] = "idle"
      /\ DOMAIN db = Hosts /\ DOMAIN pc = Procs
  BY <1>1, Here
<1>3. FilesIn(k, {}) /\ Free(File(r), k) BY <1>1, <1>2 DEF Requested
<1>4. /\ db' = [db EXCEPT ![k] = r] /\ UNCHANGED <<owed, reloadPending>>
      /\ IF r.enabled THEN Call(p, "generate", x, File(r)) /\ To(p, "manager") /\ UNCHANGED loc
         ELSE Done(p) /\ UNCHANGED managerVars
  BY <1>1 DEF Insert, Untroubled
<1>5. /\ db'[k] = r /\ \A h \in Hosts \ {k} : db'[h] = db[h]
      /\ Free(File(r), k)'
  BY <1>2, <1>3, <1>4, StaysFree
<1>6. CASE r.enabled
  <2>1. PICK j \in Called : j = job'[p] /\ j.op = "generate" /\ j.data = x
    BY <1>2, <1>4, <1>6, Calling, Data
  <2>2. /\ mpc'[p] = "wait" /\ DOMAIN mpc' = Procs /\ DOMAIN job' = Procs
        /\ UNCHANGED <<disk, running>>
    BY <1>2, <1>4, <1>6, Calling, Data
  <2>3. FilesIn(k, {File(r)})' BY <1>3, <2>2, StaysIn
  <2>4. pc'[p] = "manager" /\ UNCHANGED loc BY <1>2, <1>4, <1>6 DEF To
  <2>5. Where(p)' /\ Reloads(p)' /\ WorksOn(p, k)'
    BY <1>1, <1>5, <1>6, <2>1, <2>2, <2>3, <2>4, Configuring
  <2> QED BY <1>2, <1>3, <1>4, <1>5, <2>2, <2>5, GoesUntouched
<1>7. CASE ~r.enabled
  <2>1. UNCHANGED <<disk, running, mpc, job>> /\ pc'[p] = "idle"
    BY <1>2, <1>4, <1>7 DEF Done, To, managerVars
  <2>2. FilesIn(k, {})' BY <1>3, <2>1, StaysIn
  <2>3. OnDisk(k)' BY <1>2, <1>5, <1>7, <2>1, <2>2, Left
  <2>4. InNginx(k)' BY <1>5, <1>7 DEF InNginx
  <2> QED BY <1>2, <1>3, <1>4, <1>5, <2>1, <2>3, <2>4, EndsUntouched
<1> QED BY <1>6, <1>7

LEMMA SerialRead ==
  ASSUME RowsOK, LocalsOK, NEW p \in Procs, SerialInv(p), Read(p), NEW k \in Hosts, NEW r, On(p, k, r)
  PROVE  SerialInv(p)'
<1>1. pc[p] = "read" /\ loc[p].op # "reloader" /\ loc[p].host = k /\ loc[p].row = r
  BY DEF Read, On
<1>2. /\ WorksOn(p, k) /\ Requested(p) /\ DOMAIN mpc = Procs /\ DOMAIN job = Procs
      /\ ~Reloads(p) /\ mpc[p] = "idle" /\ DOMAIN pc = Procs /\ DOMAIN loc = Procs
  BY <1>1, Here
<1>3. Exists(k) /\ db[k] \in Row BY <1>1, <1>2 DEF Requested, Exists, RowsOK
<1>4. loc[p] \in Updating BY <1>1 DEF LocalsOK, LocalOK, Variables, Working
<1>5. PICK d \in Row, m \in Row : d = db[k] /\ m = Merge(d, loc[p].req)
  BY <1>3, <1>4, RequestAssumption DEF Updating
<1>6. /\ loc' = [loc EXCEPT ![p] = [loc[p] EXCEPT !.row = m]] /\ To(p, "write")
      /\ UNCHANGED <<managerVars, db, status, reloadPending, owed>>
  BY <1>1, <1>2, <1>3, <1>5 DEF Read
<1>7. /\ pc'[p] = "write" /\ loc'[p].op = loc[p].op /\ loc'[p].host = k /\ loc'[p].row = m
      /\ loc'[p].old = loc[p].old /\ mpc'[p] = "idle"
      /\ UNCHANGED <<disk, running, mpc, job, owed, reloadPending, db>>
  BY <1>1, <1>2, <1>4, <1>6 DEF To, managerVars, Updating
<1>8. /\ File(m) = IF "domain" \in DOMAIN loc[p].req THEN FileOf[loc[p].req.domain] ELSE File(d)
      /\ "domain" \in DOMAIN loc[p].req => loc[p].old = File(d) /\ Free(FileOf[loc[p].req.domain], k)
      /\ "domain" \notin DOMAIN loc[p].req => loc[p].old = NoFile
      /\ Free(File(d), k) /\ Includes(k) /\ FilesIn(k, {File(d)})
      /\ loc[p].op \in {"update", "updateDBOnly", "updateWithoutReload"}
  <2>1. m.domain = IF "domain" \in DOMAIN loc[p].req THEN loc[p].req.domain ELSE d.domain
    BY <1>5 DEF Merge, Row
  <2>2. File(m) = IF "domain" \in DOMAIN loc[p].req THEN FileOf[loc[p].req.domain] ELSE File(d)
    BY <2>1 DEF File
  <2> QED BY <1>1, <1>2, <1>3, <1>5, <2>2 DEF Requested, SerialInv
<1>9. /\ Free(File(m), k) /\ loc[p].old \in {NoFile, File(d)}
      /\ loc[p].old = NoFile => File(m) = File(d)
  <2>1. File(d) # NoFile BY RowFile
  <2> QED BY <1>8, <2>1
<1>10. Free(File(m), k)' BY <1>7, <1>9, StaysFree
<1>11. FilesIn(k, {File(d)})' /\ Includes(k)' BY <1>7, <1>8 DEF FilesIn, Includes
<1>12. db'[k] = d /\ Exists(k)' BY <1>3, <1>5, <1>7 DEF Exists
<1>13. Requested(p)'
  BY <1>7, <1>8, <1>9, <1>10, <1>11, <1>12 DEF Requested
<1>14. Where(p)' BY <1>1, <1>7, <1>13 DEF Where
<1>15. WorksOn(p, k)' BY <1>1, <1>7 DEF WorksOn
<1> QED BY <1>2, <1>5, <1>7, <1>8, <1>12, <1>14, <1>15, GoesUntouched

LEMMA SerialWrite ==
  ASSUME Untroubled, RowsOK, LocalsOK, NEW p \in Procs, SerialInv(p), Write(p),
         NEW k \in Hosts, NEW r \in Row, On(p, k, r)
  PROVE  SerialInv(p)'
<1>1. pc[p] = "write" /\ loc[p].op # "reloader" /\ loc[p].host = k /\ loc[p].row = r
  BY DEF Write, On
<1>2. /\ WorksOn(p, k) /\ Requested(p) /\ DOMAIN mpc = Procs /\ DOMAIN job = Procs
      /\ ~Reloads(p) /\ mpc[p] = "idle" /\ DOMAIN pc = Procs /\ DOMAIN db = Hosts
  BY <1>1, Here
<1>3. /\ Exists(k) /\ Includes(k) /\ FilesIn(k, {File(db[k])}) /\ Free(File(db[k]), k)
      /\ Free(File(r), k) /\ loc[p].old \in {NoFile, File(db[k])}
      /\ loc[p].old = NoFile => File(r) = File(db[k])
      /\ loc[p].op \in {"update", "updateDBOnly", "updateWithoutReload"}
  BY <1>1, <1>2 DEF Requested, SerialInv
<1>4. /\ db' = [db EXCEPT ![k] = r] /\ To(p, AfterWrite(loc[p].op)) /\ UNCHANGED loc
      /\ UNCHANGED <<disk, running, mpc, job, owed, reloadPending>>
  BY <1>1, <1>3 DEF Write, Untroubled, managerVars
<1>5. /\ db'[k] = r /\ \A h \in Hosts \ {k} : db'[h] = db[h]
      /\ pc'[p] = IF loc[p].op = "updateWithoutReload" THEN "files" ELSE "configure"
  BY <1>2, <1>4 DEF To, AfterWrite
<1>6. PICK old : old = Old(loc[p]) OBVIOUS
<1>7. FilesIn(k, {File(r)} \cup old) /\ \A n \in old : Free(n, k)
  <2>1. File(db[k]) \in {File(r)} \cup old /\ old \subseteq {File(db[k])}
    BY <1>1, <1>3, <1>6 DEF Old, Renamed
  <2> QED BY <1>3, <2>1 DEF FilesIn
<1>8. FilesIn(k, {File(r)} \cup old)' BY <1>4, <1>7, StaysIn
<1>9. \A n \in old : Free(n, k)' BY <1>5, <1>7, StaysFree
<1>10. Old(loc[p])' = old BY <1>4, <1>6 DEF Old, Renamed
<1>11. Exists(k)' BY <1>5, RowAssumption DEF Exists
<1>12. Includes(k)' BY <1>3, <1>4 DEF Includes
<1>13. Requested(p)'
  BY <1>1, <1>3, <1>4, <1>5, <1>8, <1>9, <1>10, <1>11, <1>12 DEF Requested
<1>14. Where(p)' BY <1>1, <1>2, <1>4, <1>5, <1>13 DEF Where
<1>15. WorksOn(p, k)' BY <1>1, <1>4, <1>5 DEF WorksOn
<1> QED BY <1>2, <1>3, <1>4, <1>5, <1>14, <1>15, GoesUntouched

\* Before the configuration: the files are under the name of the row and the one of before.
LEMMA Before ==
  ASSUME RowsOK, LocalsOK, NEW p \in Procs, SerialInv(p), pc[p] \in {"configure", "files", "waf"},
         NEW k \in Hosts, NEW r \in Row, On(p, k, r)
  PROVE  /\ loc[p].host = k /\ loc[p].row = r /\ loc[p].op # "reloader"
         /\ db[k] = r /\ Exists(k) /\ Free(File(r), k)
         /\ FilesIn(k, {File(r)} \cup Old(loc[p])) /\ \A n \in Old(loc[p]) : Free(n, k)
         /\ Renamed(loc[p]) => loc[p].old \in Names \ {File(r)} /\ Old(loc[p]) = {loc[p].old}
         /\ ~Renamed(loc[p]) => Old(loc[p]) = {}
         /\ loc[p].op \in {"refresh", "regenerate", "delete", "refreshWithoutReload"}
              => loc[p].old = NoFile
<1>1. Requested(p) /\ loc[p].old \in Names \cup {NoFile} BY Here
<1> QED BY <1>1 DEF Requested, On, Old, Renamed, SerialInv

LEMMA SerialConfigure ==
  ASSUME RowsOK, LocalsOK, NEW p \in Procs, SerialInv(p), ConfigureEnabled(p) \/ ConfigureRow(p),
         NEW k \in Hosts, NEW r \in Row, On(p, k, r)
  PROVE  SerialInv(p)'
<1> DEFINE x == DataOf(k, r)
<1>1. pc[p] = "configure" BY DEF ConfigureEnabled, ConfigureRow
<1>2. /\ loc[p].host = k /\ loc[p].row = r /\ loc[p].op # "reloader"
      /\ db[k] = r /\ Exists(k) /\ Free(File(r), k)
      /\ FilesIn(k, {File(r)} \cup Old(loc[p])) /\ \A n \in Old(loc[p]) : Free(n, k)
      /\ Renamed(loc[p]) => loc[p].old \in Names \ {File(r)} /\ Old(loc[p]) = {loc[p].old}
      /\ ~Renamed(loc[p]) => Old(loc[p]) = {}
      /\ loc[p].op \in {"refresh", "regenerate", "delete", "refreshWithoutReload"}
           => loc[p].old = NoFile
  BY <1>1, Before
<1>3. /\ WorksOn(p, k) /\ DOMAIN mpc = Procs /\ DOMAIN job = Procs
      /\ ~Reloads(p) /\ mpc[p] = "idle" /\ DOMAIN pc = Procs
  BY <1>1, Here
<1>4. PICK op \in {"generate", "cleanup", "remove"}, n \in Names :
        /\ Call(p, op, x, n)
        /\ op \in IF r.enabled /\ loc[p].op # "delete" THEN {"generate", "cleanup"} ELSE {"remove"}
        /\ op = "cleanup" => Renamed(loc[p]) /\ n = loc[p].old
        /\ op # "cleanup" => ~Renamed(loc[p])
  <2>1. File(r) \in Names BY RowFile
  <2>2. CASE ConfigureEnabled(p)
    BY <1>2, <2>1, <2>2 DEF ConfigureEnabled
  <2>3. CASE ConfigureRow(p)
    <3>1. ~Renamed(loc[p]) BY <1>2, <2>3 DEF ConfigureRow, Renamed
    <3> QED BY <1>2, <2>1, <2>3, <3>1 DEF ConfigureRow
  <2> QED BY <2>2, <2>3
<1>5. To(p, "manager") /\ UNCHANGED <<db, status, loc, reloadPending, owed>>
  BY DEF ConfigureEnabled, ConfigureRow
<1>6. PICK j \in Called : j = job'[p] /\ j.op = op /\ j.data = x /\ j.old = n
  BY <1>3, <1>4, Calling, Data
<1>7. /\ mpc'[p] = "wait" /\ DOMAIN mpc' = Procs /\ DOMAIN job' = Procs
      /\ UNCHANGED <<disk, running>>
  BY <1>3, <1>4, Calling, Data
<1>8. FilesIn(k, {File(r)} \cup IF j.op = "cleanup" THEN {j.old} ELSE {})'
  <2>1. FilesIn(k, {File(r)} \cup IF j.op = "cleanup" THEN {j.old} ELSE {})
    BY <1>2, <1>4, <1>6
  <2> QED BY <1>7, <2>1, StaysIn
<1>9. j.op = "cleanup" => Free(j.old, k)' /\ j.old # File(r)
  <2>1. ASSUME j.op = "cleanup" PROVE Free(j.old, k) /\ j.old # File(r)
    BY <1>2, <1>4, <1>6, <2>1
  <2> QED BY <1>5, <2>1, StaysFree
<1>10. pc'[p] = "manager" /\ db'[k] = r BY <1>2, <1>3, <1>5 DEF To
<1>11. Where(p)' /\ Reloads(p)' /\ WorksOn(p, k)'
  BY <1>2, <1>4, <1>5, <1>6, <1>7, <1>8, <1>9, <1>10, Configuring
<1> QED BY <1>2, <1>3, <1>5, <1>7, <1>10, <1>11, GoesUntouched

\* The old file of a host that is renamed is removed by itself.
LEMMA OldRemoved ==
  ASSUME RowsOK, LocalsOK, NEW p \in Procs, SerialInv(p), pc[p] \in {"configure", "files", "waf"},
         NEW k \in Hosts, NEW r \in Row, On(p, k, r), NEW e \in Disk, NEW d,
         loc[p].old # NoFile, d = WithoutFile(e, loc[p].old)
  PROVE  /\ d \in Disk /\ d.waf = e.waf /\ d.cloud = e.cloud
         /\ d.conf[loc[p].old] = NoFile
         /\ \A n \in Names \ {loc[p].old} : d.conf[n] = e.conf[n]
         /\ loc[p].old \in Names /\ Free(loc[p].old, k)
<1>1. loc[p].old \in Names BY Here
<1>2. Free(loc[p].old, k)
  <2>1. loc[p].row = r /\ Free(File(r), k) /\ \A n \in Old(loc[p]) : Free(n, k) BY Before
  <2>2. CASE Renamed(loc[p]) BY <2>1, <2>2 DEF Old
  <2>3. CASE ~Renamed(loc[p])
    <3>1. loc[p].old = File(r) BY <2>1, <2>3 DEF Renamed
    <3> QED BY <2>1, <3>1
  <2> QED BY <2>2, <2>3
<1> QED BY <1>1, <1>2, FileRemoved

LEMMA SerialConfigureDisabled ==
  ASSUME RowsOK, LocalsOK, NEW p \in Procs, SerialInv(p), ConfigureDisabled(p),
         NEW k \in Hosts, NEW r \in Row, On(p, k, r)
  PROVE  SerialInv(p)'
<1> DEFINE x == DataOf(k, r)
<1>1. pc[p] = "configure" /\ loc[p].op = "update" BY DEF ConfigureDisabled
<1>2. /\ loc[p].host = k /\ loc[p].row = r /\ db[k] = r /\ Exists(k) /\ Free(File(r), k)
      /\ FilesIn(k, {File(r)} \cup Old(loc[p]))
      /\ Renamed(loc[p]) => loc[p].old \in Names \ {File(r)} /\ Old(loc[p]) = {loc[p].old}
      /\ ~Renamed(loc[p]) => Old(loc[p]) = {}
  BY <1>1, Before
<1>3. /\ WorksOn(p, k) /\ DOMAIN mpc = Procs /\ DOMAIN job = Procs /\ disk \in Disk
      /\ ~Reloads(p) /\ mpc[p] = "idle" /\ DOMAIN pc = Procs
  BY <1>1, Here
<1>4. /\ ~r.enabled
      /\ disk' = IF loc[p].old # NoFile THEN WithoutFile(disk, loc[p].old) ELSE disk
      /\ mpc' = [mpc EXCEPT ![p] = "wait"]
      /\ job' = [job EXCEPT ![p] = [op |-> "remove", data |-> x, old |-> File(r),
                      savedConf |-> NoFile, savedOld |-> NoFile, savedWaf |-> NoFile]]
      /\ To(p, "manager") /\ UNCHANGED <<running, lock, db, status, loc, reloadPending, owed>>
  BY <1>2 DEF ConfigureDisabled
<1>5. PICK j \in Called : j = job'[p] /\ j.op = "remove" /\ j.data = x
  <2>1. x \in Datum /\ File(r) \in Names BY Data
  <2> QED BY <1>3, <1>4, <2>1 DEF Called
<1>6. mpc'[p] = "wait" /\ DOMAIN mpc' = Procs /\ DOMAIN job' = Procs /\ pc'[p] = "manager"
  BY <1>3, <1>4 DEF To
<1>7. PICK names :
        /\ disk' \in Disk /\ Touches(k, names) /\ \A n \in names : Free(n, k)
        /\ FilesIn(k, {File(r)})'
  <2>1. CASE loc[p].old # NoFile
    <3>1. /\ disk' \in Disk /\ disk'.waf = disk.waf /\ disk'.cloud = disk.cloud
          /\ disk'.conf[loc[p].old] = NoFile
          /\ \A n \in Names \ {loc[p].old} : disk'.conf[n] = disk.conf[n]
          /\ loc[p].old \in Names /\ Free(loc[p].old, k)
      BY <1>1, <1>3, <1>4, <2>1, OldRemoved
    <3>2. Touches(k, {loc[p].old}) BY <3>1 DEF Touches
    <3>3. FilesIn(k, {File(r)})' BY <1>2, <2>1, <3>1 DEF FilesIn, Renamed
    <3> QED BY <3>1, <3>2, <3>3
  <2>2. CASE loc[p].old = NoFile
    <3>1. disk' = disk /\ ~Renamed(loc[p]) BY <1>4, <2>2 DEF Renamed
    <3>2. Touches(k, {}) BY <3>1, NoTouch
    <3>3. FilesIn(k, {File(r)})' BY <1>2, <3>1, StaysIn
    <3> QED BY <1>3, <3>1, <3>2, <3>3
  <2> QED BY <2>1, <2>2
<1>8. Where(p)' /\ Reloads(p)' /\ WorksOn(p, k)'
  <2>1. FilesIn(k, {File(r)} \cup IF j.op = "cleanup" THEN {j.old} ELSE {})' BY <1>5, <1>7
  <2>2. db'[k] = r BY <1>2, <1>4
  <2> QED BY <1>1, <1>2, <1>4, <1>5, <1>6, <2>1, <2>2, Configuring
<1> QED BY <1>2, <1>3, <1>4, <1>6, <1>7, <1>8, Goes

LEMMA SerialCleanup ==
  ASSUME RowsOK, LocalsOK, NEW p \in Procs, SerialInv(p), CleanupDBOnly(p),
         NEW k \in Hosts, NEW r \in Row, On(p, k, r)
  PROVE  SerialInv(p)'
<1>1. pc[p] = "configure" BY DEF CleanupDBOnly
<1>2. /\ loc[p].host = k /\ loc[p].row = r /\ db[k] = r /\ Exists(k) /\ Free(File(r), k)
      /\ FilesIn(k, {File(r)} \cup Old(loc[p]))
      /\ Renamed(loc[p]) => loc[p].old \in Names \ {File(r)} /\ Old(loc[p]) = {loc[p].old}
      /\ ~Renamed(loc[p]) => Old(loc[p]) = {}
  BY <1>1, Before
<1>3. /\ WorksOn(p, k) /\ DOMAIN mpc = Procs /\ DOMAIN job = Procs /\ disk \in Disk
      /\ ~Reloads(p) /\ mpc[p] = "idle" /\ DOMAIN pc = Procs /\ Requested(p)
  BY <1>1, Here
<1>4. Includes(k) BY <1>1, <1>2, <1>3 DEF Requested
<1>5. /\ disk' = IF Renamed(loc[p]) THEN WithoutFile(disk, loc[p].old) ELSE disk
      /\ owed' = owed \cup {k} /\ pc'[p] = "idle"
      /\ UNCHANGED <<running, mpc, job, db, reloadPending>>
  BY <1>2, <1>3 DEF CleanupDBOnly, Done, To
<1>6. PICK names :
        /\ disk' \in Disk /\ Touches(k, names) /\ \A n \in names : Free(n, k)
        /\ FilesIn(k, {File(r)})' /\ Includes(k)'
  <2>1. CASE Renamed(loc[p])
    <3>1. /\ disk' \in Disk /\ disk'.waf = disk.waf /\ disk'.cloud = disk.cloud
          /\ disk'.conf[loc[p].old] = NoFile
          /\ \A n \in Names \ {loc[p].old} : disk'.conf[n] = disk.conf[n]
          /\ loc[p].old \in Names /\ Free(loc[p].old, k)
      BY <1>1, <1>3, <1>5, <2>1, OldRemoved DEF Renamed
    <3>2. Touches(k, {loc[p].old}) BY <3>1 DEF Touches
    <3>3. FilesIn(k, {File(r)})' BY <1>2, <2>1, <3>1 DEF FilesIn
    <3>4. Includes(k)' BY <1>4, <3>1 DEF Includes
    <3> QED BY <3>1, <3>2, <3>3, <3>4
  <2>2. CASE ~Renamed(loc[p])
    <3>1. disk' = disk BY <1>5, <2>2
    <3>2. Touches(k, {}) BY <3>1, NoTouch
    <3>3. FilesIn(k, {File(r)})' BY <1>2, <2>2, <3>1, StaysIn
    <3>4. Includes(k)' BY <1>4, <3>1 DEF Includes
    <3> QED BY <1>3, <3>1, <3>2, <3>3, <3>4
  <2> QED BY <2>1, <2>2
<1>7. OnDisk(k)' /\ InNginx(k)'
  <2>1. db'[k] = r /\ Exists(k)' /\ k \in owed' BY <1>2, <1>5 DEF Exists
  <2> QED BY <1>6, <2>1 DEF OnDisk, InNginx
<1>8. mpc'[p] = "idle" /\ DOMAIN mpc' = Procs /\ DOMAIN job' = Procs BY <1>3, <1>5
<1>9. /\ \A h \in Hosts \ {k} : h \in owed' <=> h \in owed
      /\ \A h \in Hosts \ {k} : db'[h] = db[h]
      /\ Exists(k)' => Free(File(db'[k]), k)
      /\ reloadPending => reloadPending'
  BY <1>2, <1>5
<1> QED BY <1>3, <1>5, <1>6, <1>7, <1>8, <1>9, Ends

\* What the request is to leave of a host.
LEMMA Leaves ==
  ASSUME NEW p \in Procs, NEW k, NEW r, loc'[p].host = k, loc'[p].row = r,
         IF r.enabled /\ loc'[p].op # "delete"
         THEN FilesIn(k, {File(r)})' /\ Written(disk', DataOf(k, r))
         ELSE FilesIn(k, {})'
  PROVE  Wanted(p)'
BY DEF Wanted

LEMMA SerialWriteFiles ==
  ASSUME RowsOK, LocalsOK, NEW p \in Procs, SerialInv(p), WriteFiles(p),
         NEW k \in Hosts, NEW r \in Row, On(p, k, r)
  PROVE  SerialInv(p)'
<1>1. pc[p] = "files" BY DEF WriteFiles
<1>2. /\ loc[p].host = k /\ loc[p].row = r /\ db[k] = r /\ Exists(k) /\ Free(File(r), k)
      /\ FilesIn(k, {File(r)} \cup Old(loc[p])) /\ \A n \in Old(loc[p]) : Free(n, k)
      /\ Renamed(loc[p]) => loc[p].old \in Names \ {File(r)} /\ Old(loc[p]) = {loc[p].old}
      /\ ~Renamed(loc[p]) => Old(loc[p]) = {}
      /\ loc[p].op # "reloader"
  BY <1>1, Before
<1>3. /\ WorksOn(p, k) /\ DOMAIN mpc = Procs /\ DOMAIN job = Procs /\ disk \in Disk
      /\ ~Reloads(p) /\ mpc[p] = "idle" /\ DOMAIN pc = Procs /\ Requested(p)
  BY <1>1, Here
<1>4. /\ loc[p].op \in {"updateWithoutReload", "refreshWithoutReload"}
      /\ loc[p].op = "refreshWithoutReload" => loc[p].old = NoFile
  BY <1>1, <1>3 DEF Requested
<1>5. PICK x \in Datum : /\ x = DataOf(k, r) /\ x.name = File(r) /\ x.host = k
                         /\ File(r) \in Names /\ x.cloud = r.cloud
  BY Data
<1>6. UNCHANGED <<running, mpc, job, db, loc, reloadPending, owed>> BY DEF WriteFiles
<1>7. db'[k] = r /\ Exists(k)' BY <1>2, <1>6 DEF Exists
<1>8. PICK old : old = Old(loc[p]) OBVIOUS
<1>9. Old(loc[p])' = old /\ \A n \in old : Free(n, k)'
  <2>1. \A n \in old : Free(n, k)' BY <1>2, <1>6, <1>8, StaysFree
  <2> QED BY <1>6, <1>8, <2>1 DEF Old, Renamed
<1>10. CASE r.enabled
  <2> DEFINE d == WithInclude(disk, x)
  <2>1. disk' = WithConf(d, x) /\ pc'[p] = "waf" BY <1>2, <1>3, <1>5, <1>10 DEF WriteFiles, To
  <2>2. d \in Disk /\ d.conf = disk.conf /\ d.waf = disk.waf /\ d.cloud[k] = x.cloud
        /\ \A h \in Hosts \ {k} : d.cloud[h] = disk.cloud[h]
    BY <1>3, <1>5, IncludeWritten
  <2> HIDE DEF d
  <2>3. /\ disk' \in Disk /\ disk'.waf = disk.waf /\ disk'.cloud = d.cloud
        /\ disk'.conf[File(r)] = x /\ \A n \in Names \ {File(r)} : disk'.conf[n] = disk.conf[n]
    BY <1>5, <2>1, <2>2, ConfWritten
  <2>4. Touches(k, {File(r)}) BY <1>5, <2>2, <2>3 DEF Touches
  <2>5. FilesIn(k, {File(r)} \cup old)' BY <1>2, <1>8, <2>3 DEF FilesIn
  <2>6. Requested(p)'
    <3>1. disk'.conf[x.name] = x /\ disk'.cloud[k] = x.cloud BY <1>5, <2>2, <2>3
    <3>2. /\ pc'[p] = "waf" /\ loc'[p].host = k /\ loc'[p].row = r /\ x = DataOf(k, r)
          /\ loc'[p].op = loc[p].op /\ loc'[p].old = loc[p].old
      BY <1>2, <1>5, <1>6, <2>1
    <3> QED BY <1>4, <1>7, <1>9, <1>10, <2>5, <3>1, <3>2 DEF Requested
  <2>7. Where(p)' /\ WorksOn(p, k)' BY <1>2, <1>3, <1>6, <2>1, <2>6 DEF Where, WorksOn
  <2> QED BY <1>2, <1>3, <1>6, <2>3, <2>4, <2>7, Goes
<1>11. CASE ~r.enabled
  <2> DEFINE d == IF loc[p].old # NoFile THEN WithoutFile(disk, loc[p].old) ELSE disk
  <2>1. disk' = WithoutConfig(d, x) /\ pc'[p] = "retest" BY <1>2, <1>3, <1>5, <1>11 DEF WriteFiles, To
  <2>2. PICK names :
          /\ d \in Disk /\ \A n \in names : Free(n, k)
          /\ d.waf = disk.waf /\ d.cloud = disk.cloud
          /\ \A n \in names : d.conf[n] = NoFile
          /\ \A n \in Names \ names : d.conf[n] = disk.conf[n]
          /\ old \subseteq names
    <3>1. CASE loc[p].old # NoFile
      <4>1. /\ d \in Disk /\ d.waf = disk.waf /\ d.cloud = disk.cloud
            /\ d.conf[loc[p].old] = NoFile
            /\ \A n \in Names \ {loc[p].old} : d.conf[n] = disk.conf[n]
            /\ loc[p].old \in Names /\ Free(loc[p].old, k)
        BY <1>1, <1>3, <3>1, OldRemoved
      <4> HIDE DEF d
      <4>2. old \subseteq {loc[p].old} BY <1>8 DEF Old
      <4> QED BY <4>1, <4>2
    <3>2. CASE loc[p].old = NoFile
      <4>1. d = disk /\ old = {} BY <1>8, <3>2 DEF Old, Renamed
      <4> QED BY <1>3, <4>1
    <3> QED BY <3>1, <3>2
  <2> HIDE DEF d
  <2>3. /\ disk' \in Disk /\ disk'.conf[File(r)] = NoFile
        /\ \A n \in Names \ {File(r)} : disk'.conf[n] = d.conf[n]
        /\ \A h \in Hosts \ {k} : disk'.waf[h] = d.waf[h] /\ disk'.cloud[h] = d.cloud[h]
    BY <1>5, <2>1, <2>2, ConfigRemoved
  <2>4. Touches(k, {File(r)} \cup names) BY <2>2, <2>3 DEF Touches
  <2>5. \A n \in {File(r)} \cup names : Free(n, k) BY <1>2, <2>2
  <2>6. FilesIn(k, {})' BY <1>2, <1>8, <2>2, <2>3 DEF FilesIn
  <2>7. Wanted(p)' BY <1>2, <1>6, <1>11, <2>6, Leaves
  <2>8. Requested(p)'
    BY <1>2, <1>4, <1>6, <1>7, <2>1, <2>7 DEF Requested
  <2>9. Where(p)' /\ WorksOn(p, k)' BY <1>2, <1>3, <1>6, <2>1, <2>8 DEF Where, WorksOn
  <2> QED BY <1>2, <1>3, <1>6, <2>3, <2>4, <2>5, <2>9, Goes
<1> QED BY <1>10, <1>11

LEMMA SerialWriteWAF ==
  ASSUME RowsOK, LocalsOK, NEW p \in Procs, SerialInv(p), WriteWAFFile(p),
         NEW k \in Hosts, NEW r \in Row, On(p, k, r)
  PROVE  SerialInv(p)'
<1>1. pc[p] = "waf" BY DEF WriteWAFFile
<1>2. /\ loc[p].host = k /\ loc[p].row = r /\ db[k] = r /\ Exists(k) /\ Free(File(r), k)
      /\ FilesIn(k, {File(r)} \cup Old(loc[p]))
      /\ Renamed(loc[p]) => loc[p].old \in Names \ {File(r)} /\ Old(loc[p]) = {loc[p].old}
      /\ ~Renamed(loc[p]) => Old(loc[p]) = {}
      /\ loc[p].op # "reloader"
  BY <1>1, Before
<1>3. /\ WorksOn(p, k) /\ DOMAIN mpc = Procs /\ DOMAIN job = Procs /\ disk \in Disk
      /\ ~Reloads(p) /\ mpc[p] = "idle" /\ DOMAIN pc = Procs /\ Requested(p)
  BY <1>1, Here
<1>4. PICK x \in Datum : /\ x = DataOf(k, r) /\ x.name = File(r) /\ x.host = k
                         /\ File(r) \in Names /\ x.cloud = r.cloud /\ x.waf = r.waf
                         /\ r.waf \in BOOLEAN
  BY Data DEF Row
<1>5. /\ loc[p].op \in {"updateWithoutReload", "refreshWithoutReload"}
      /\ loc[p].op = "refreshWithoutReload" => loc[p].old = NoFile
      /\ r.enabled /\ disk.conf[File(r)] = x /\ disk.cloud[k] = x.cloud
  BY <1>1, <1>2, <1>3, <1>4 DEF Requested
<1>6. UNCHANGED <<running, mpc, job, db, loc, reloadPending, owed>> BY DEF WriteWAFFile
<1>7. db'[k] = r /\ Exists(k)' BY <1>2, <1>6 DEF Exists
<1> DEFINE d == WithWAF(disk, x, r.waf)
<1>8. /\ disk' = IF Renamed(loc[p]) THEN WithoutFile(d, loc[p].old) ELSE d
      /\ pc'[p] = "retest"
  BY <1>2, <1>3, <1>4 DEF WriteWAFFile, To
<1>9. /\ d \in Disk /\ d.conf = disk.conf /\ d.cloud = disk.cloud
      /\ d.waf[k] = (IF r.waf THEN x.body ELSE NoFile)
      /\ \A h \in Hosts \ {k} : d.waf[h] = disk.waf[h]
  BY <1>3, <1>4, WAFWritten
<1> HIDE DEF d
<1>10. PICK names :
         /\ disk' \in Disk /\ Touches(k, names) /\ \A n \in names : Free(n, k)
         /\ FilesIn(k, {File(r)})'
         /\ disk'.conf[File(r)] = x /\ disk'.waf = d.waf /\ disk'.cloud = d.cloud
  <2>1. CASE Renamed(loc[p])
    <3>1. /\ disk' \in Disk /\ disk'.waf = d.waf /\ disk'.cloud = d.cloud
          /\ disk'.conf[loc[p].old] = NoFile
          /\ \A n \in Names \ {loc[p].old} : disk'.conf[n] = d.conf[n]
          /\ loc[p].old \in Names /\ Free(loc[p].old, k)
      BY <1>1, <1>8, <1>9, <2>1, OldRemoved DEF Renamed
    <3>2. Touches(k, {loc[p].old}) BY <1>9, <3>1 DEF Touches
    <3>3. FilesIn(k, {File(r)})' BY <1>2, <1>9, <2>1, <3>1 DEF FilesIn
    <3>4. disk'.conf[File(r)] = x BY <1>2, <1>4, <1>5, <1>9, <2>1, <3>1
    <3> QED BY <3>1, <3>2, <3>3, <3>4
  <2>2. CASE ~Renamed(loc[p])
    <3>1. disk' = d BY <1>8, <2>2
    <3>2. Touches(k, {}) BY <1>9, <3>1 DEF Touches
    <3>3. FilesIn(k, {File(r)})' BY <1>2, <1>9, <2>2, <3>1 DEF FilesIn
    <3> QED BY <1>5, <1>9, <3>1, <3>2, <3>3
  <2> QED BY <2>1, <2>2
<1>11. Written(disk', x) BY <1>4, <1>5, <1>9, <1>10 DEF Written
<1>12. Wanted(p)' BY <1>2, <1>4, <1>5, <1>6, <1>10, <1>11, Leaves
<1>13. Requested(p)' BY <1>2, <1>5, <1>6, <1>7, <1>8, <1>12 DEF Requested
<1>14. Where(p)' /\ WorksOn(p, k)' BY <1>2, <1>3, <1>6, <1>8, <1>13 DEF Where, WorksOn
<1> QED BY <1>2, <1>3, <1>6, <1>10, <1>14, Goes

\* A request that has left what it is to leave may end.
LEMMA WantedLeft ==
  ASSUME RowsOK, RowsOK', NEW p \in Procs, NEW k \in Hosts, NEW r \in Row, On(p, k, r), Wanted(p),
         UNCHANGED disk, disk \in Disk,
         db'[k] = IF loc[p].op = "delete" THEN Gone ELSE r
  PROVE  OnDisk(k)'
<1>1. PICK want \in BOOLEAN : want = (r.enabled /\ loc[p].op # "delete") OBVIOUS
<1>2. r # Gone BY RowAssumption
<1>3. IF want THEN FilesIn(k, {File(r)})' /\ Written(disk', DataOf(k, r)) /\ db'[k] = r
      ELSE FilesIn(k, {})'
  BY <1>1 DEF Wanted, On, FilesIn
<1> QED BY <1>1, <1>2, <1>3, Left

LEMMA SerialDeleteRow ==
  ASSUME Untroubled, RowsOK, LocalsOK, RowsOK', NEW p \in Procs, SerialInv(p), DeleteRow(p),
         NEW k \in Hosts, NEW r \in Row, On(p, k, r)
  PROVE  SerialInv(p)'
<1>1. pc[p] = "deleteRow" /\ loc[p].host = k BY DEF DeleteRow, On
<1>2. /\ WorksOn(p, k) /\ DOMAIN mpc = Procs /\ DOMAIN job = Procs /\ disk \in Disk
      /\ ~Reloads(p) /\ mpc[p] = "idle" /\ DOMAIN pc = Procs /\ DOMAIN db = Hosts /\ Requested(p)
  BY <1>1, Here
<1>3. Exists(k) /\ loc[p].op = "delete" /\ Wanted(p) BY <1>1, <1>2 DEF Requested
<1>4. /\ db'[k] = Gone /\ \A h \in Hosts \ {k} : db'[h] = db[h] /\ pc'[p] = "idle"
      /\ UNCHANGED <<disk, running, mpc, job, reloadPending, owed>>
  BY <1>1, <1>2, <1>3 DEF DeleteRow, DeletedRow, Done, To, managerVars, Untroubled
<1>5. OnDisk(k)' BY <1>2, <1>3, <1>4, WantedLeft
<1>6. ~Exists(k)' /\ InNginx(k)' BY <1>4 DEF Exists, InNginx
<1>7. /\ mpc'[p] = "idle" /\ DOMAIN mpc' = Procs /\ DOMAIN job' = Procs BY <1>2, <1>4
<1>8. /\ \A h \in Hosts \ {k} : h \in owed' <=> h \in owed
      /\ \A h \in Hosts \ {k} : db'[h] = db[h]
      /\ reloadPending => reloadPending'
  BY <1>4
<1>9. pc'[p] = "idle"
  BY <1>2, <1>3, <1>1 DEF DeleteRow, DeletedRow, Done, To, Untroubled
<1> QED BY <1>2, <1>4, <1>5, <1>6, <1>7, <1>8, <1>9, EndsUntouched

LEMMA SerialCallTest ==
  ASSUME RowsOK, LocalsOK, NEW p \in Procs, SerialInv(p), CallTest(p),
         NEW k \in Hosts, NEW r \in Row, On(p, k, r)
  PROVE  SerialInv(p)'
<1>1. pc[p] = "retest" /\ loc[p].host = k /\ loc[p].op # "reloader" BY DEF CallTest, On
<1>2. /\ WorksOn(p, k) /\ DOMAIN mpc = Procs /\ DOMAIN job = Procs
      /\ ~Reloads(p) /\ DOMAIN pc = Procs /\ Requested(p)
  BY <1>1, Here
<1>3. /\ Call(p, "test", AnyData, AnyData.name) /\ pc'[p] = "rereload"
      /\ UNCHANGED <<db, status, loc, reloadPending, owed>>
  BY <1>2 DEF CallTest, To
<1>4. AnyData \in Datum /\ AnyData.name \in Names BY AnyDatum DEF Datum
<1>5. /\ mpc'[p] = "wait" /\ job'[p] \in Called /\ job'[p].op = "test"
      /\ DOMAIN mpc' = Procs /\ DOMAIN job' = Procs /\ UNCHANGED <<disk, running>>
  BY <1>2, <1>3, <1>4, Calling
<1>6. Requested(p)'
  <2>1. Wanted(p)' BY <1>1, <1>2, <1>3, <1>5 DEF Requested, Wanted, FilesIn
  <2>2. Exists(k)' BY <1>1, <1>2, <1>3 DEF Requested, Exists
  <2> QED BY <1>1, <1>2, <1>3, <2>1, <2>2 DEF Requested
<1>7. Where(p)' /\ WorksOn(p, k)' BY <1>1, <1>3, <1>5, <1>6 DEF Where, WorksOn
<1>8. Exists(k)' => Free(File(db'[k]), k) BY <1>3 DEF SerialInv, Exists
<1> QED BY <1>2, <1>3, <1>5, <1>7, <1>8, GoesUntouched

LEMMA SerialTested ==
  ASSUME RowsOK, LocalsOK, RowsOK', NEW p \in Procs, SerialInv(p), Tested(p),
         NEW k \in Hosts, NEW r \in Row, On(p, k, r)
  PROVE  SerialInv(p)'
<1>1. pc[p] = "rereload" /\ loc[p].host = k /\ loc[p].row = r /\ loc[p].op # "reloader"
  BY DEF Tested, On
<1>2. /\ WorksOn(p, k) /\ DOMAIN mpc = Procs /\ DOMAIN job = Procs /\ disk \in Disk
      /\ ~Reloads(p) /\ DOMAIN pc = Procs /\ Requested(p)
  BY <1>1, Here
<1>3. /\ loc[p].op \in {"updateWithoutReload", "refreshWithoutReload"} /\ Wanted(p)
      /\ db[k] = r /\ Exists(k) /\ mpc[p] # "err"
  BY <1>1, <1>2 DEF Requested, SerialInv, Where
<1>4. /\ mpc' = [mpc EXCEPT ![p] = "idle"] /\ reloadPending' = TRUE /\ pc'[p] = "idle"
      /\ UNCHANGED <<disk, running, job, db, owed>>
  BY <1>2, <1>3 DEF Tested, Result, Done, To
<1>5. OnDisk(k)' BY <1>2, <1>3, <1>4, WantedLeft
<1>6. /\ mpc'[p] = "idle" /\ DOMAIN mpc' = Procs /\ DOMAIN job' = Procs BY <1>2, <1>4
<1>7. Exists(k)' => Free(File(db'[k]), k) BY <1>4 DEF SerialInv, Exists
<1> QED BY <1>2, <1>4, <1>5, <1>6, <1>7, EndsUntouched

LEMMA SerialSucceeded ==
  ASSUME RowsOK, LocalsOK, RowsOK', NEW p \in Procs, SerialInv(p), Succeeded(p),
         NEW k \in Hosts, NEW r \in Row, On(p, k, r)
  PROVE  SerialInv(p)'
<1>1. pc[p] = "manager" /\ mpc[p] = "ok" /\ loc[p].host = k /\ loc[p].row = r
      /\ loc[p].op \in {"create", "update", "refresh", "regenerate", "delete"}
  BY DEF Succeeded, Result, On, LocalsOK, LocalOK, Variables, Working
<1>2. /\ WorksOn(p, k) /\ DOMAIN mpc = Procs /\ DOMAIN job = Procs /\ disk \in Disk
      /\ DOMAIN pc = Procs /\ Requested(p)
  BY <1>1, Here
<1>3. ~Reloads(p) /\ running = disk /\ Configures(p) BY <1>1 DEF Reloads, SerialInv, Where
<1>4. Wanted(p) /\ db[k] = r /\ Exists(k) /\ Free(File(r), k)
  BY <1>1, <1>2, <1>3 DEF Configures, Requested, SerialInv
<1>5. /\ mpc' = [mpc EXCEPT ![p] = "idle"] /\ UNCHANGED <<disk, running, job, db, reloadPending>>
  BY DEF Succeeded, Result
<1>6. /\ mpc'[p] = "idle" /\ DOMAIN mpc' = Procs /\ DOMAIN job' = Procs BY <1>2, <1>5
<1>7. Exists(k)' => Free(File(db'[k]), k) BY <1>4, <1>5
<1>8. CASE loc[p].op = "delete"
  <2>1. UNCHANGED <<loc, owed>> /\ pc'[p] = "deleteRow" BY <1>2, <1>8 DEF Succeeded, To
  <2>2. Wanted(p)' BY <1>4, <1>5, <2>1 DEF Wanted, FilesIn
  <2>3. Exists(k)' BY <1>4, <1>5 DEF Exists
  <2>4. Requested(p)' BY <1>1, <1>2, <1>4, <1>5, <1>8, <2>1, <2>2, <2>3 DEF Requested
  <2>5. Where(p)' /\ WorksOn(p, k)' BY <1>1, <1>6, <2>1, <1>8, <2>4 DEF Where, WorksOn
  <2> QED BY <1>2, <1>3, <1>5, <1>6, <1>7, <2>1, <2>5, GoesUntouched
<1>9. CASE loc[p].op # "delete"
  <2>1. pc'[p] = "idle" /\ \A h \in Hosts \ {k} : h \in owed' <=> h \in owed
    BY <1>1, <1>2, <1>9 DEF Succeeded, Done, To
  <2>2. OnDisk(k)' BY <1>2, <1>4, <1>5, <1>9, WantedLeft
  <2>3. InNginx(k)' BY <1>3, <1>5, <2>2 DEF OnDisk, InNginx
  <2> QED BY <1>2, <1>3, <1>5, <1>6, <1>7, <2>1, <2>2, <2>3, EndsUntouched
<1> QED BY <1>8, <1>9

\* A request of the one client, to its end.
LEMMA SerialService ==
  ASSUME Untroubled, RowsOK, LocalsOK, RowsOK', NEW p \in Procs, SerialInv(p), Service(p),
         pc[p] # "idle" /\ loc[p].op # "reloader"
  PROVE  SerialInv(p)'
<1>1. PICK k \in Hosts, r \in Row \cup {NoRow} : On(p, k, r)
  BY DEF LocalsOK, LocalOK, Variables, Working, Local, Updating, On
<1>2. pc[p] # "read" => r \in Row BY <1>1, Here
<1>3. pc[p] \notin {"undoFiles", "undoRow", "restore"} /\ Requested(p)
  BY <1>1, Here DEF Requested
<1>4. ~Failed(p)
  <2>1. pc[p] = "manager" => mpc[p] # "err" BY DEF SerialInv, Where, Configures
  <2> QED BY <2>1 DEF Failed, Result
<1>5. ~Abandon(p) BY DEF Abandon, Untroubled
<1>6. CASE Read(p) BY <1>1, <1>6, SerialRead
<1>7. CASE ~Read(p)
  <2>1. r \in Row
    <3>1. pc[p] # "read"
      BY <1>7 DEF Service, Insert, UndoFiles, UndoRow, Write, ConfigureEnabled, ConfigureDisabled,
         CleanupDBOnly, WriteFiles, WriteWAFFile, CallTest, Tested, Abandon, ConfigureRow, DeleteRow,
         Succeeded, Failed, Restore
    <3> QED BY <1>2, <3>1
  <2>2. ~UndoFiles(p) /\ ~UndoRow(p) /\ ~Restore(p) BY <1>3 DEF UndoFiles, UndoRow, Restore
  <2>3. CASE Insert(p) BY <1>1, <2>1, <2>3, SerialInsert
  <2>4. CASE Write(p) BY <1>1, <2>1, <2>4, SerialWrite
  <2>5. CASE ConfigureEnabled(p) \/ ConfigureRow(p) BY <1>1, <2>1, <2>5, SerialConfigure
  <2>6. CASE ConfigureDisabled(p) BY <1>1, <2>1, <2>6, SerialConfigureDisabled
  <2>7. CASE CleanupDBOnly(p) BY <1>1, <2>1, <2>7, SerialCleanup
  <2>8. CASE WriteFiles(p) BY <1>1, <2>1, <2>8, SerialWriteFiles
  <2>9. CASE WriteWAFFile(p) BY <1>1, <2>1, <2>9, SerialWriteWAF
  <2>10. CASE CallTest(p) BY <1>1, <2>1, <2>10, SerialCallTest
  <2>11. CASE Tested(p) BY <1>1, <2>1, <2>11, SerialTested
  <2>12. CASE DeleteRow(p) BY <1>1, <2>1, <2>12, SerialDeleteRow
  <2>13. CASE Succeeded(p) BY <1>1, <2>1, <2>13, SerialSucceeded
  <2> QED BY <1>4, <1>5, <1>7, <2>2, <2>3, <2>4, <2>5, <2>6, <2>7, <2>8, <2>9, <2>10, <2>11, <2>12,
             <2>13 DEF Service
<1> QED BY <1>6, <1>7

-----------------------------------------------------------------------------
(* The steps of the manager for the one client.                              *)
LEMMA WantedHas ==
  ASSUME disk \in Disk, NEW p \in Procs, NEW k \in Hosts, NEW r \in Row, On(p, k, r), Wanted(p)
  PROVE  Includes(k) /\ FilesIn(k, {File(r)})
<1>1. PICK x \in Datum : /\ x = DataOf(k, r) /\ x.name = File(r) /\ x.host = k /\ x.waf = r.waf
                         /\ x.cloud = r.cloud /\ File(r) \in Names /\ x.body # NoFile
  BY Data
<1>2. CASE r.enabled /\ loc[p].op # "delete"
  <2>1. FilesIn(k, {File(r)}) /\ Written(disk, x) BY <1>1, <1>2 DEF Wanted, On
  <2>2. /\ disk.conf[File(r)] = x /\ (x.waf => disk.waf[k] = x.body) /\ (x.cloud => disk.cloud[k])
    BY <1>1, <2>1 DEF Written
  <2>3. \A n \in Names : disk.conf[n] # NoFile /\ disk.conf[n].host = k => n = File(r)
    BY <2>1 DEF FilesIn
  <2> QED BY <1>1, <2>1, <2>2, <2>3 DEF Includes
<1>3. CASE ~(r.enabled /\ loc[p].op # "delete")
  <2>1. FilesIn(k, {}) BY <1>3 DEF Wanted, On
  <2> QED BY <2>1 DEF FilesIn, Includes
<1> QED BY <1>2, <1>3

LEMMA OnDiskHas ==
  ASSUME NEW h \in Hosts, OnDisk(h) PROVE Includes(h) /\ \E n : FilesIn(h, {n})
BY DEF OnDisk, FilesIn

\* nginx accepts the files: no host has two, and what they include is there.
LEMMA IsValid ==
  ASSUME Untroubled, disk \in Disk, \A h \in Hosts : Includes(h) /\ \E n : FilesIn(h, {n})
  PROVE  Valid(disk)
<1>1. SUFFICES ASSUME NEW n \in Names, disk.conf[n] # NoFile
               PROVE  LET c == disk.conf[n] IN
                        /\ c.body \notin BadBodies
                        /\ c.waf => disk.waf[c.host] \notin BadBodies \cup {NoFile}
                        /\ c.cloud => disk.cloud[c.host]
                        /\ \A m \in Names \ {n} : disk.conf[m] # NoFile => disk.conf[m].host # c.host
  BY DEF Valid
<1>2. PICK c \in Datum : c = disk.conf[n] BY <1>1 DEF Disk
<1>3. PICK h \in Hosts : h = c.host BY <1>2 DEF Datum
<1>4. c.waf => disk.waf[h] # NoFile BY <1>1, <1>2, <1>3 DEF Includes
<1>5. c.cloud => disk.cloud[h] BY <1>1, <1>2, <1>3 DEF Includes
<1>6. \A m \in Names \ {n} : disk.conf[m] # NoFile => disk.conf[m].host # h
  BY <1>1, <1>2, <1>3 DEF FilesIn
<1> QED BY <1>2, <1>3, <1>4, <1>5, <1>6 DEF Untroubled

\* So it does whenever the request has left what it is to leave.
LEMMA WantedIsValid ==
  ASSUME Untroubled, NEW p \in Procs, SerialInv(p), NEW k \in Hosts, NEW r \in Row, On(p, k, r),
         Wanted(p)
  PROVE  Valid(disk)
<1>1. Includes(k) /\ FilesIn(k, {File(r)}) BY WantedHas DEF SerialInv
<1>2. \A h \in Hosts \ {k} : OnDisk(h) BY DEF SerialInv, WorksOn, On
<1> QED BY <1>1, <1>2, OnDiskHas, IsValid DEF SerialInv

\* The call is at its next step.
LEMMA Proceeds ==
  ASSUME RowsOK, LocalsOK, NEW p \in Procs, SerialInv(p), NEW k \in Hosts, NEW r \in Row, On(p, k, r),
         pc[p] = "manager", mpc[p] # "ok", UNCHANGED serviceVars, UNCHANGED running,
         NEW names, Touches(k, names), \A n \in names : Free(n, k), disk' \in Disk,
         DOMAIN mpc' = Procs, DOMAIN job' = Procs,
         NEW j \in Called, job'[p] = j,
         j.op = job[p].op, j.data = job[p].data, j.old = job[p].old,
         mpc'[p] \in {"include", "conf", "waf", "cleanup", "remove", "test", "reload"},
         mpc'[p] \in {"include", "conf", "waf"} => j.op # "remove",
         mpc'[p] = "cleanup" => j.op = "cleanup",
         mpc'[p] = "remove" => j.op = "remove",
         mpc'[p] \in {"include", "conf", "waf", "cleanup", "remove"}
           => FilesIn(k, {File(r)} \cup IF j.op = "cleanup" THEN {j.old} ELSE {})',
         mpc'[p] \in {"conf", "waf", "cleanup"} => disk'.cloud[k] = r.cloud,
         mpc'[p] \in {"waf", "cleanup"} => disk'.conf[File(r)] = DataOf(k, r),
         mpc'[p] = "cleanup" => (r.waf => disk'.waf[k] = r.body),
         mpc'[p] \in {"test", "reload"} => Wanted(p)'
  PROVE  SerialInv(p)'
<1>1. WorksOn(p, k) /\ Requested(p) BY Here
<1>2. Configures(p) /\ loc[p].op # "reloader" /\ loc[p].host = k /\ loc[p].row = r
  BY DEF SerialInv, Where, On
<1>3. UNCHANGED <<db, pc, loc, reloadPending, owed>> BY DEF serviceVars
<1>4. db[k] = r /\ Exists(k) BY <1>1, <1>2 DEF Requested
<1>5. Exists(k)' /\ Free(File(db'[k]), k) BY <1>3, <1>4 DEF Exists, SerialInv
<1>6. Requested(p)' BY <1>1, <1>2, <1>3, <1>4, <1>5 DEF Requested
<1>7. PICK x \in Datum : /\ x = DataOf(k, r) /\ x.name = File(r) /\ x.waf = r.waf
                         /\ x.cloud = r.cloud /\ x.body = r.body
  BY Data
<1>8. /\ j.data = x
      /\ j.op \in IF r.enabled /\ loc[p].op # "delete" THEN {"generate", "cleanup"} ELSE {"remove"}
      /\ j.op = "cleanup" => Free(j.old, k) /\ j.old # File(r)
  BY <1>2, <1>7 DEF Configures
<1>9. j.op = "cleanup" => Free(j.old, k)' BY <1>3, <1>8 DEF Free, Exists
<1>10. Configures(p)'
  <2>1. /\ loc'[p].host = k /\ loc'[p].row = r /\ DataOf(k, r) = x /\ x.name = File(r)
        /\ loc'[p].op = loc[p].op /\ mpc'[p] # "ok"
    BY <1>2, <1>3, <1>7
  <2> QED BY <1>7, <1>8, <1>9, <2>1 DEF Configures
<1>11. Where(p)' /\ WorksOn(p, k)' /\ Reloads(p)'
  BY <1>2, <1>3, <1>6, <1>10 DEF Where, WorksOn, Reloads
<1> QED BY <1>1, <1>3, <1>5, <1>11, Goes

\* Its next step, the files as they are.
LEMMA Taken ==
  ASSUME NEW p \in Procs, DOMAIN mpc = Procs, DOMAIN job = Procs, disk \in Disk,
         job[p] \in Called, Acquire(p)
  PROVE  /\ mpc'[p] = FirstStep(job[p].op) /\ DOMAIN mpc' = Procs /\ DOMAIN job' = Procs
         /\ job'[p] \in Called /\ job'[p].op = job[p].op /\ job'[p].data = job[p].data
         /\ job'[p].old = job[p].old /\ job'[p].savedConf = disk.conf[job[p].data.name]
         /\ UNCHANGED <<disk, running>>
<1>1. job[p].data.name \in Names /\ job[p].data.host \in Hosts /\ job[p].old \in Names
  BY DEF Called, Datum
<1>2. /\ disk.conf[job[p].data.name] \in Datum \cup {NoFile}
      /\ disk.conf[job[p].old] \in Datum \cup {NoFile}
      /\ disk.waf[job[p].data.host] \in Bodies \cup {NoFile}
  BY <1>1 DEF Disk
<1> DEFINE j == [job[p] EXCEPT !.savedConf = disk.conf[job[p].data.name],
                              !.savedOld = disk.conf[job[p].old],
                              !.savedWaf = disk.waf[job[p].data.host]]
<1>3. /\ j \in Called /\ j.op = job[p].op /\ j.data = job[p].data /\ j.old = job[p].old
      /\ j.savedConf = disk.conf[job[p].data.name]
  BY <1>2 DEF Called
<1>4. job'[p] = j /\ DOMAIN job' = Procs BY DEF Acquire, Called
<1> HIDE DEF j
<1> QED BY <1>3, <1>4 DEF Acquire

LEMMA SerialAcquire ==
  ASSUME RowsOK, LocalsOK, NEW p \in Procs, SerialInv(p), Acquire(p), UNCHANGED serviceVars,
         NEW k \in Hosts, NEW r \in Row, On(p, k, r), pc[p] = "manager"
  PROVE  SerialInv(p)'
<1>1. /\ DOMAIN mpc = Procs /\ DOMAIN job = Procs /\ disk \in Disk /\ mpc[p] = "wait"
      /\ job[p] \in Called /\ Configures(p) /\ loc[p].host = k /\ loc[p].row = r
  BY DEF SerialInv, Where, On, Acquire
<1>2. /\ mpc'[p] = FirstStep(job[p].op) /\ DOMAIN mpc' = Procs /\ DOMAIN job' = Procs
      /\ job'[p] \in Called /\ job'[p].op = job[p].op /\ job'[p].data = job[p].data
      /\ job'[p].old = job[p].old /\ UNCHANGED <<disk, running>>
  BY <1>1, Taken
<1>3. PICK j \in Called : j = job'[p] BY <1>2
<1>4. File(r) = DataOf(k, r).name BY Data
<1>5. /\ j.op \in {"generate", "cleanup", "remove"}
      /\ FilesIn(k, {File(r)} \cup IF j.op = "cleanup" THEN {j.old} ELSE {})
  BY <1>1, <1>2, <1>3, <1>4 DEF Configures
<1>6. FilesIn(k, {File(r)} \cup IF j.op = "cleanup" THEN {j.old} ELSE {})' BY <1>2, <1>5, StaysIn
<1>7. mpc'[p] = IF j.op = "remove" THEN "remove" ELSE "include" BY <1>2, <1>3, <1>5 DEF FirstStep
<1>8. Touches(k, {}) /\ \A n \in {} : Free(n, k) BY <1>2, NoTouch
<1> QED BY <1>1, <1>2, <1>3, <1>5, <1>6, <1>7, <1>8, Proceeds

\* What there is to know at a step of the call.
LEMMA AtStep ==
  ASSUME RowsOK, LocalsOK, NEW p \in Procs, SerialInv(p), mpc[p] # "ok",
         NEW k \in Hosts, NEW r \in Row, On(p, k, r), pc[p] = "manager"
  PROVE  /\ DOMAIN mpc = Procs /\ DOMAIN job = Procs /\ disk \in Disk /\ running \in Disk
         /\ Configures(p) /\ loc[p].host = k /\ loc[p].row = r /\ db[k] = r /\ Free(File(r), k)
         /\ DataOf(k, r) \in Datum /\ DataOf(k, r).name = File(r) /\ DataOf(k, r).host = k
         /\ DataOf(k, r).waf = r.waf /\ DataOf(k, r).body = r.body /\ DataOf(k, r).cloud = r.cloud
         /\ File(r) \in Names /\ r.waf \in BOOLEAN
         /\ job[p].data = DataOf(k, r) /\ job[p] \in Called
         /\ job[p].op \in IF r.enabled /\ loc[p].op # "delete" THEN {"generate", "cleanup"} ELSE {"remove"}
         /\ job[p].op = "cleanup" => Free(job[p].old, k) /\ job[p].old \in Names \ {File(r)}
<1>1. Requested(p) BY Here
<1>2. /\ DOMAIN mpc = Procs /\ DOMAIN job = Procs /\ disk \in Disk /\ running \in Disk
      /\ Configures(p) /\ job[p] \in Called /\ loc[p].host = k /\ loc[p].row = r
  BY DEF SerialInv, Where, On
<1>3. db[k] = r /\ Exists(k) BY <1>1, <1>2 DEF Requested
<1>4. /\ DataOf(k, r) \in Datum /\ DataOf(k, r).name = File(r) /\ DataOf(k, r).host = k
      /\ DataOf(k, r).waf = r.waf /\ DataOf(k, r).body = r.body /\ DataOf(k, r).cloud = r.cloud
      /\ File(r) \in Names /\ r.waf \in BOOLEAN
  BY Data DEF Row
<1>5. /\ job[p].data = DataOf(k, r)
      /\ job[p].op \in IF r.enabled /\ loc[p].op # "delete" THEN {"generate", "cleanup"} ELSE {"remove"}
      /\ job[p].op = "cleanup" => Free(job[p].old, k) /\ job[p].old # File(r)
  BY <1>2, <1>4 DEF Configures
<1>6. job[p].old \in Names BY <1>2 DEF Called
<1> QED BY <1>2, <1>3, <1>4, <1>5, <1>6 DEF SerialInv

LEMMA ProceedsToNginx ==
  ASSUME RowsOK, LocalsOK, NEW p \in Procs, SerialInv(p), NEW k \in Hosts, NEW r \in Row, On(p, k, r),
         pc[p] = "manager", mpc[p] # "ok", UNCHANGED serviceVars, UNCHANGED running,
         NEW names, Touches(k, names), \A n \in names : Free(n, k), disk' \in Disk,
         DOMAIN mpc' = Procs, DOMAIN job' = Procs, job'[p] = job[p],
         mpc'[p] \in {"test", "reload"}, Wanted(p)'
  PROVE  SerialInv(p)'
<1>1. PICK j \in Called : j = job[p] BY AtStep
<1> QED BY <1>1, Proceeds

\* A step that writes or removes files.
LEMMA SerialFiles ==
  ASSUME RowsOK, LocalsOK, NEW p \in Procs, SerialInv(p), UNCHANGED serviceVars,
         WriteInclude(p) \/ WriteConf(p) \/ WriteWAF(p) \/ RemoveOld(p) \/ RemoveFiles(p),
         NEW k \in Hosts, NEW r \in Row, On(p, k, r), pc[p] = "manager"
  PROVE  SerialInv(p)'
<1>1. mpc[p] \in {"include", "conf", "waf", "cleanup", "remove"}
  BY DEF WriteInclude, WriteConf, WriteWAF, RemoveOld, RemoveFiles
<1>2. PICK x \in Datum, j \in Called :
        /\ x = DataOf(k, r) /\ x.name = File(r) /\ x.host = k
        /\ x.waf = r.waf /\ x.body = r.body /\ x.cloud = r.cloud
        /\ j = job[p] /\ j.data = x
        /\ j.op \in IF r.enabled /\ loc[p].op # "delete" THEN {"generate", "cleanup"} ELSE {"remove"}
        /\ j.op = "cleanup" => Free(j.old, k) /\ j.old \in Names \ {File(r)}
  BY <1>1, AtStep
<1>3. /\ DOMAIN mpc = Procs /\ DOMAIN job = Procs /\ disk \in Disk
      /\ Configures(p) /\ loc[p].host = k /\ loc[p].row = r /\ Free(File(r), k)
      /\ File(r) \in Names /\ r.waf \in BOOLEAN
  BY <1>1, AtStep
<1>4. PICK more : more = IF j.op = "cleanup" THEN {j.old} ELSE {} OBVIOUS
<1>5. /\ FilesIn(k, {File(r)} \cup more)
      /\ mpc[p] \in {"include", "conf", "waf"} => j.op # "remove"
      /\ mpc[p] = "cleanup" => j.op = "cleanup"
      /\ mpc[p] = "remove" => j.op = "remove"
      /\ mpc[p] \in {"conf", "waf", "cleanup"} => disk.cloud[k] = r.cloud
      /\ mpc[p] \in {"waf", "cleanup"} => disk.conf[File(r)] = x
      /\ mpc[p] = "cleanup" => (r.waf => disk.waf[k] = r.body)
  BY <1>1, <1>2, <1>3, <1>4, SMTT(20) DEF Configures
<1>6. UNCHANGED <<running, job>> /\ DOMAIN job' = Procs /\ job'[p] = j /\ DOMAIN mpc' = Procs
  BY <1>2, <1>3 DEF WriteInclude, WriteConf, WriteWAF, RemoveOld, RemoveFiles, Goto
<1>7. UNCHANGED loc /\ mpc[p] # "ok" BY <1>1 DEF serviceVars
<1>8. CASE WriteInclude(p)
  <2>1. disk' = WithInclude(disk, x) /\ mpc[p] = "include" /\ mpc'[p] = "conf"
    BY <1>2, <1>3, <1>8 DEF WriteInclude, Goto
  <2>2. /\ disk' \in Disk /\ disk'.conf = disk.conf /\ disk'.waf = disk.waf
        /\ disk'.cloud[k] = r.cloud /\ \A h \in Hosts \ {k} : disk'.cloud[h] = disk.cloud[h]
    BY <1>2, <1>3, <2>1, IncludeWritten
  <2>3. Touches(k, {}) /\ \A n \in {} : Free(n, k) BY <2>2 DEF Touches
  <2>4. FilesIn(k, {File(r)} \cup more)' BY <1>5, <2>2 DEF FilesIn
  <2> QED BY <1>2, <1>3, <1>4, <1>5, <1>6, <1>7, <2>1, <2>2, <2>3, <2>4, Proceeds
<1>9. CASE WriteConf(p)
  <2>1. disk' = WithConf(disk, x) /\ mpc[p] = "conf" /\ mpc'[p] = "waf"
    BY <1>2, <1>3, <1>9 DEF WriteConf, Goto
  <2>2. /\ disk' \in Disk /\ disk'.waf = disk.waf /\ disk'.cloud = disk.cloud
        /\ disk'.conf[File(r)] = x /\ \A n \in Names \ {File(r)} : disk'.conf[n] = disk.conf[n]
    BY <1>2, <1>3, <2>1, ConfWritten
  <2>3. Touches(k, {File(r)}) /\ \A n \in {File(r)} : Free(n, k) BY <1>2, <1>3, <2>2 DEF Touches
  <2>4. FilesIn(k, {File(r)} \cup more)' BY <1>5, <2>2 DEF FilesIn
  <2> QED BY <1>2, <1>3, <1>4, <1>5, <1>6, <1>7, <2>1, <2>2, <2>3, <2>4, Proceeds
<1>10. CASE WriteWAF(p)
  <2>1. /\ j.op \in {"generate", "cleanup"} /\ r.enabled /\ loc[p].op # "delete" /\ mpc[p] = "waf"
    BY <1>2, <1>5, <1>10 DEF WriteWAF
  <2>2. /\ disk' = WithWAF(disk, x, r.waf)
        /\ mpc'[p] = IF j.op = "cleanup" THEN "cleanup" ELSE "test"
    BY <1>2, <1>3, <1>10, <2>1 DEF WriteWAF, Goto
  <2>3. /\ disk' \in Disk /\ disk'.conf = disk.conf /\ disk'.cloud = disk.cloud
        /\ disk'.waf[k] = (IF r.waf THEN r.body ELSE NoFile)
        /\ \A h \in Hosts \ {k} : disk'.waf[h] = disk.waf[h]
    BY <1>2, <1>3, <2>2, WAFWritten
  <2>4. Touches(k, {}) /\ \A n \in {} : Free(n, k) BY <2>3 DEF Touches
  <2>5. FilesIn(k, {File(r)} \cup more)' BY <1>5, <2>3 DEF FilesIn
  <2>6. CASE j.op = "cleanup"
    BY <1>2, <1>3, <1>4, <1>5, <1>6, <1>7, <2>1, <2>2, <2>3, <2>4, <2>5, <2>6, Proceeds
  <2>7. CASE j.op # "cleanup"
    <3>1. Written(disk', x) BY <1>2, <1>5, <2>1, <2>3 DEF Written
    <3>2. FilesIn(k, {File(r)})' BY <1>4, <2>5, <2>7
    <3>3. Wanted(p)' BY <1>2, <1>3, <1>7, <2>1, <3>1, <3>2, Leaves
    <3> QED BY <1>2, <1>6, <1>7, <2>2, <2>3, <2>4, <2>7, <3>3, ProceedsToNginx
  <2> QED BY <2>6, <2>7
<1>11. CASE RemoveOld(p)
  <2>1. /\ mpc[p] = "cleanup" /\ j.op = "cleanup" /\ r.enabled /\ loc[p].op # "delete"
        /\ Free(j.old, k) /\ j.old \in Names \ {File(r)}
    BY <1>2, <1>5, <1>11 DEF RemoveOld
  <2>2. disk' = WithoutFile(disk, j.old) /\ mpc'[p] = "test" BY <1>2, <1>3, <1>11 DEF RemoveOld, Goto
  <2>3. /\ disk' \in Disk /\ disk'.waf = disk.waf /\ disk'.cloud = disk.cloud
        /\ disk'.conf[j.old] = NoFile /\ \A n \in Names \ {j.old} : disk'.conf[n] = disk.conf[n]
    BY <1>3, <2>1, <2>2, FileRemoved
  <2>4. Touches(k, {j.old}) /\ \A n \in {j.old} : Free(n, k) BY <2>1, <2>3 DEF Touches
  <2>5. FilesIn(k, {File(r)})' BY <1>4, <1>5, <2>1, <2>3 DEF FilesIn
  <2>6. Written(disk', x) BY <1>2, <1>3, <1>5, <2>1, <2>3 DEF Written
  <2>7. Wanted(p)' BY <1>2, <1>3, <1>7, <2>1, <2>5, <2>6, Leaves
  <2> QED BY <1>2, <1>6, <1>7, <2>2, <2>3, <2>4, <2>7, ProceedsToNginx
<1>12. CASE RemoveFiles(p)
  <2>1. mpc[p] = "remove" /\ j.op = "remove" /\ ~(r.enabled /\ loc[p].op # "delete")
    BY <1>2, <1>5, <1>12 DEF RemoveFiles
  <2>2. disk' = WithoutConfig(disk, x) /\ mpc'[p] = "test" BY <1>2, <1>3, <1>12 DEF RemoveFiles, Goto
  <2>3. /\ disk' \in Disk /\ disk'.conf[File(r)] = NoFile
        /\ \A n \in Names \ {File(r)} : disk'.conf[n] = disk.conf[n]
        /\ \A h \in Hosts \ {k} : disk'.waf[h] = disk.waf[h] /\ disk'.cloud[h] = disk.cloud[h]
    BY <1>2, <1>3, <2>2, ConfigRemoved
  <2>4. Touches(k, {File(r)}) /\ \A n \in {File(r)} : Free(n, k) BY <1>3, <2>3 DEF Touches
  <2>5. FilesIn(k, {})' BY <1>4, <1>5, <2>1, <2>3 DEF FilesIn
  <2>6. Wanted(p)' BY <1>3, <1>7, <2>1, <2>5, Leaves
  <2> QED BY <1>2, <1>6, <1>7, <2>2, <2>3, <2>4, <2>6, ProceedsToNginx
<1> QED BY <1>8, <1>9, <1>10, <1>11, <1>12

\* nginx is tested, and reloads: it serves what is on disk.
LEMMA SerialNginx ==
  ASSUME Untroubled, RowsOK, LocalsOK, NEW p \in Procs, SerialInv(p), UNCHANGED serviceVars,
         TestConfig(p) \/ ReloadNginx(p),
         NEW k \in Hosts, NEW r \in Row, On(p, k, r), pc[p] = "manager"
  PROVE  SerialInv(p)'
<1>1. mpc[p] \in {"test", "reload"} BY DEF TestConfig, ReloadNginx
<1>2. /\ DOMAIN mpc = Procs /\ DOMAIN job = Procs /\ disk \in Disk /\ Configures(p)
      /\ loc[p].host = k /\ loc[p].row = r
      /\ job[p] \in Called /\ job[p].op \in {"generate", "cleanup", "remove"}
  BY <1>1, AtStep
<1>3. Wanted(p) BY <1>1, <1>2 DEF Configures
<1>4. Valid(disk) BY <1>3, WantedIsValid
<1>5. UNCHANGED <<disk, loc, pc, db, owed, reloadPending>>
  BY DEF TestConfig, ReloadNginx, serviceVars
<1>6. Wanted(p)' BY <1>3, <1>5 DEF Wanted, FilesIn
<1>7. CASE TestConfig(p)
  <2>1. mpc'[p] = "reload" /\ DOMAIN mpc' = Procs /\ UNCHANGED <<running, job>> /\ mpc[p] # "ok"
    BY <1>2, <1>4, <1>7 DEF TestConfig, Goto, Untroubled
  <2>2. Touches(k, {}) /\ \A n \in {} : Free(n, k) BY <1>5, NoTouch
  <2>3. disk' \in Disk /\ DOMAIN job' = Procs /\ job'[p] = job[p] BY <1>2, <1>5, <2>1
  <2> QED BY <1>6, <2>1, <2>2, <2>3, ProceedsToNginx
<1>8. CASE ReloadNginx(p)
  <2>1. /\ running' = disk /\ mpc'[p] = "ok" /\ DOMAIN mpc' = Procs /\ DOMAIN job' = Procs
    BY <1>2, <1>4, <1>8 DEF ReloadNginx, Return, Untroubled
  <2>2. Requested(p) /\ WorksOn(p, k) BY Here
  <2>3. Requested(p)'
    <3>1. pc[p] = "manager" OBVIOUS
    <3>2. Exists(k) /\ db[k] = r BY <1>2, <2>2, <3>1 DEF Requested
    <3>3. Exists(k)' BY <1>5, <3>2 DEF Exists
    <3> QED BY <1>2, <1>5, <2>2, <3>1, <3>2, <3>3 DEF Requested
  <2>4. Configures(p)' BY <1>6, <2>1 DEF Configures
  <2>5. Where(p)' BY <1>2, <1>5, <2>1, <2>3, <2>4 DEF Where, On
  <2>6. \A h \in Hosts : WorksOn(p, h)' <=> WorksOn(p, h) BY <1>5 DEF WorksOn
  <2>7. ASSUME NEW h \in Hosts, OnDisk(h) PROVE OnDisk(h)' /\ InNginx(h)'
    <3>1. InNginx(h)' BY <1>5, <2>1, <2>7 DEF OnDisk, InNginx, Exists, Written, DataOf
    <3>2. OnDisk(h)'
      BY <1>5, <2>7 DEF OnDisk, Includes, FilesIn, Exists, Written, DataOf
    <3> QED BY <3>1, <3>2
  <2>8. Apart'
    <3>1. Apart BY DEF SerialInv, Apart
    <3> QED BY <1>5, <3>1 DEF Apart, Exists, Free
  <2> QED BY <1>2, <1>5, <2>1, <2>5, <2>6, <2>7, <2>8 DEF SerialInv, Apart
<1> QED BY <1>7, <1>8

\* The test of UpdateWithoutReload, which does not reload.
LEMMA SerialTest ==
  ASSUME Untroubled, RowsOK, LocalsOK, NEW p \in Procs, SerialInv(p), UNCHANGED serviceVars,
         Acquire(p) \/ Step(p), NEW k \in Hosts, NEW r \in Row, On(p, k, r), pc[p] = "rereload"
  PROVE  SerialInv(p)'
<1>1. /\ DOMAIN mpc = Procs /\ DOMAIN job = Procs /\ disk \in Disk /\ WorksOn(p, k) /\ ~Reloads(p)
      /\ Requested(p) /\ loc[p].host = k /\ loc[p].row = r /\ loc[p].op # "reloader"
  BY Here DEF On
<1>2. /\ mpc[p] \in {"wait", "test", "ok"}
      /\ mpc[p] # "ok" => job[p] \in Called /\ job[p].op = "test"
  BY DEF SerialInv, Where
<1>3. UNCHANGED <<db, pc, loc, owed, reloadPending>> BY DEF serviceVars
<1>4. Wanted(p) /\ db[k] = r /\ Exists(k) BY <1>1 DEF Requested
<1>5. /\ UNCHANGED <<disk, running>> /\ DOMAIN mpc' = Procs /\ DOMAIN job' = Procs
      /\ \/ mpc'[p] = "test" /\ job'[p] \in Called /\ job'[p].op = "test"
         \/ mpc'[p] = "ok"
  <2>1. CASE Acquire(p)
    <3>1. mpc[p] = "wait" BY <2>1 DEF Acquire
    <3> QED BY <1>1, <1>2, <2>1, <3>1, Taken DEF FirstStep
  <2>2. CASE Step(p)
    <3>1. TestConfig(p) /\ mpc[p] = "test"
      BY <1>2, <2>2 DEF Step, WriteInclude, WriteConf, WriteWAF, RemoveOld, RemoveFiles, FileError,
         Writing, ReloadNginx, Rollback, TestConfig
    <3>2. Valid(disk) BY <1>4, WantedIsValid
    <3> QED BY <1>1, <1>2, <3>1, <3>2 DEF TestConfig, Return, Untroubled
  <2> QED BY <2>1, <2>2
<1>6. Requested(p)'
  <2>1. Wanted(p)' BY <1>3, <1>4, <1>5 DEF Wanted, FilesIn
  <2>2. Exists(k)' BY <1>3, <1>4 DEF Exists
  <2> QED BY <1>1, <1>3, <1>4, <1>5, <2>1, <2>2 DEF Requested
<1>7. Where(p)' /\ WorksOn(p, k)' BY <1>1, <1>3, <1>5, <1>6 DEF Where, WorksOn
<1>8. Exists(k)' => Free(File(db'[k]), k) BY <1>3 DEF SerialInv, Exists
<1> QED BY <1>1, <1>3, <1>5, <1>7, <1>8, GoesUntouched

\* The manager, in a request.
LEMMA SerialManager ==
  ASSUME Untroubled, RowsOK, LocalsOK, NEW p \in Procs, SerialInv(p), ManagerStep(p),
         pc[p] # "idle" /\ loc[p].op # "reloader"
  PROVE  SerialInv(p)'
<1>1. PICK k \in Hosts, r \in Row \cup {NoRow} : On(p, k, r)
  BY DEF LocalsOK, LocalOK, Variables, Working, Local, Updating, On
<1>2. mpc[p] \notin {"idle", "ok"} /\ (Acquire(p) \/ Step(p)) /\ UNCHANGED serviceVars
  BY DEF ManagerStep, Acquire, Step, WriteInclude, WriteConf, WriteWAF, RemoveOld, RemoveFiles,
         FileError, Writing, TestConfig, ReloadNginx, Rollback
<1>3. pc[p] \in {"manager", "rereload"} BY <1>1, <1>2, Here
<1>4. r \in Row BY <1>1, <1>3, Here
<1>5. CASE pc[p] = "rereload" BY <1>1, <1>2, <1>4, <1>5, SerialTest
<1>6. CASE pc[p] = "manager"
  <2>1. ~FileError(p) /\ ~Rollback(p)
    <3>1. mpc[p] # "rollback" BY <1>6 DEF SerialInv, Where, Configures
    <3> QED BY <3>1 DEF FileError, Rollback, Untroubled
  <2>2. CASE Acquire(p) BY <1>1, <1>2, <1>4, <1>6, <2>2, SerialAcquire
  <2>3. CASE WriteInclude(p) \/ WriteConf(p) \/ WriteWAF(p) \/ RemoveOld(p) \/ RemoveFiles(p)
    BY <1>1, <1>2, <1>4, <1>6, <2>3, SerialFiles
  <2>4. CASE TestConfig(p) \/ ReloadNginx(p) BY <1>1, <1>2, <1>4, <1>6, <2>4, SerialNginx
  <2> QED BY <1>2, <2>1, <2>2, <2>3, <2>4 DEF Step
<1> QED BY <1>3, <1>5, <1>6

-----------------------------------------------------------------------------
(* Between the requests.                                                     *)

\* Nobody works on a host.
LEMMA NobodyWorks ==
  ASSUME NEW p \in Procs, SerialInv(p), \A h \in Hosts : ~WorksOn(p, h) /\ ~WorksOn(p, h)',
         UNCHANGED <<disk, db, owed>>, running' \in Disk, DOMAIN mpc' = Procs, DOMAIN job' = Procs,
         \A h \in Hosts : reloadPending' \/ Reloads(p)' \/ InNginx(h)', Where(p)'
  PROVE  SerialInv(p)'
<1>1. \A h \in Hosts : OnDisk(h)'
  <2>1. \A h \in Hosts : OnDisk(h) BY DEF SerialInv
  <2> QED BY <2>1 DEF OnDisk, Includes, FilesIn, Exists, Written, DataOf
<1>2. Apart'
  <2>1. Apart BY DEF SerialInv, Apart
  <2> QED BY <2>1 DEF Apart, Exists, Free
<1> QED BY <1>1, <1>2 DEF SerialInv, Apart

\* The debounced reload, from the timer to its end.
LEMMA SerialReload ==
  ASSUME Untroubled, RowsOK, LocalsOK, NEW p \in Procs, SerialInv(p),
         pc[p] # "idle" /\ loc[p].op = "reloader", Service(p) \/ ManagerStep(p)
  PROVE  SerialInv(p)'
<1>1. /\ pc[p] = "manager" /\ mpc[p] \in {"wait", "reload", "ok"}
      /\ mpc[p] # "ok" => job[p] \in Called /\ job[p].op = "reload"
      /\ mpc[p] = "ok" => running = disk
      /\ DOMAIN mpc = Procs /\ DOMAIN job = Procs /\ disk \in Disk /\ running \in Disk
      /\ DOMAIN pc = Procs
  BY DEF SerialInv, Where, LocalsOK, LocalOK, Variables
<1>2. \A h \in Hosts : ~WorksOn(p, h) /\ OnDisk(h) BY DEF SerialInv, WorksOn
<1>3. CASE Service(p)
  <2>1. Succeeded(p)
    BY <1>1, <1>3 DEF Service, Insert, UndoFiles, UndoRow, Read, Write, ConfigureEnabled,
       ConfigureDisabled, CleanupDBOnly, WriteFiles, WriteWAFFile, CallTest, Tested, Abandon,
       ConfigureRow, DeleteRow, Succeeded, Failed, Restore, Result
  <2>2. /\ mpc[p] = "ok" /\ mpc' = [mpc EXCEPT ![p] = "idle"] /\ pc'[p] = "idle"
        /\ UNCHANGED <<disk, running, job, db, owed, reloadPending>>
    BY <1>1, <2>1 DEF Succeeded, Result, Done, To
  <2>3. ~Reloads(p) BY <2>2 DEF Reloads
  <2>4. \A h \in Hosts : reloadPending \/ InNginx(h) BY <1>2, <2>3 DEF SerialInv
  <2>5. \A h \in Hosts : reloadPending' \/ InNginx(h)' BY <2>2, <2>4, SameServed
  <2>6. Where(p)' BY <1>1, <2>2 DEF Where
  <2>7. \A h \in Hosts : ~WorksOn(p, h)' BY <2>2 DEF WorksOn
  <2> QED BY <1>1, <1>2, <2>2, <2>5, <2>6, <2>7, NobodyWorks
<1>4. CASE ManagerStep(p)
  <2>1. UNCHANGED <<db, pc, loc, owed, reloadPending>> BY <1>4 DEF ManagerStep, serviceVars
  <2>2. \A h \in Hosts : ~WorksOn(p, h)' BY <1>2, <2>1 DEF WorksOn
  <2>3. CASE Acquire(p)
    <3>1. mpc[p] = "wait" BY <2>3 DEF Acquire
    <3>2. /\ mpc'[p] = "reload" /\ DOMAIN mpc' = Procs /\ DOMAIN job' = Procs
          /\ job'[p] \in Called /\ job'[p].op = "reload" /\ UNCHANGED <<disk, running>>
      BY <1>1, <2>3, <3>1, Taken DEF FirstStep
    <3>3. Where(p)' /\ Reloads(p)' BY <1>1, <2>1, <3>2 DEF Where, Reloads
    <3> QED BY <1>1, <1>2, <2>1, <2>2, <3>2, <3>3, NobodyWorks
  <2>4. CASE Step(p)
    <3>1. ReloadNginx(p) /\ mpc[p] = "reload"
      BY <1>1, <2>4 DEF Step, WriteInclude, WriteConf, WriteWAF, RemoveOld, RemoveFiles, FileError,
         Writing, TestConfig, ReloadNginx, Rollback
    <3>2. Valid(disk) BY <1>1, <1>2, OnDiskHas, IsValid
    <3>3. /\ running' = disk /\ UNCHANGED disk /\ mpc'[p] = "ok"
          /\ DOMAIN mpc' = Procs /\ DOMAIN job' = Procs
      BY <1>1, <3>1, <3>2 DEF ReloadNginx, Return, Untroubled
    <3>4. \A h \in Hosts : InNginx(h)'
      BY <1>2, <2>1, <3>3 DEF OnDisk, InNginx, Exists, Written, DataOf
    <3>5. Where(p)' BY <1>1, <2>1, <3>3 DEF Where
    <3> QED BY <1>1, <1>2, <2>1, <2>2, <3>3, <3>4, <3>5, NobodyWorks
  <2> QED BY <1>4, <2>3, <2>4 DEF ManagerStep
<1> QED BY <1>3, <1>4

LEMMA SerialDebounced ==
  ASSUME RowsOK, LocalsOK, NEW p \in Procs, SerialInv(p), DebouncedReload(p)
  PROVE  SerialInv(p)'
<1>1. /\ pc[p] = "idle" /\ DOMAIN mpc = Procs /\ DOMAIN job = Procs /\ running \in Disk
      /\ DOMAIN pc = Procs /\ DOMAIN loc = Procs
  BY DEF DebouncedReload, SerialInv, LocalsOK, LocalOK, Variables
<1>2. AnyData \in Datum /\ AnyData.name \in Names BY AnyDatum DEF Datum
<1>3. Call(p, "reload", AnyData, AnyData.name) BY DEF DebouncedReload
<1>4. /\ mpc'[p] = "wait" /\ job'[p] \in Called /\ job'[p].op = "reload"
      /\ DOMAIN mpc' = Procs /\ DOMAIN job' = Procs /\ UNCHANGED <<disk, running>>
  BY <1>1, <1>2, <1>3, Calling
<1>5. pc'[p] = "manager" /\ loc'[p].op = "reloader" /\ UNCHANGED <<db, owed>>
  BY <1>1 DEF DebouncedReload, To
<1>6. Where(p)' /\ Reloads(p)' BY <1>4, <1>5 DEF Where, Reloads
<1>7. \A h \in Hosts : ~WorksOn(p, h) /\ ~WorksOn(p, h)' BY <1>1, <1>5 DEF WorksOn
<1> QED BY <1>1, <1>4, <1>5, <1>6, <1>7, NobodyWorks

\* A request begins.
LEMMA RequestBegins ==
  ASSUME RowsOK, LocalsOK, NEW p \in Procs, SerialInv(p), NEW k \in Hosts, NEW l, NEW s,
         Begin(p, l, s), l.host = k, l.op # "reloader", s \notin {"idle", "manager", "rereload"},
         Requested(p)'
  PROVE  SerialInv(p)'
<1>1. /\ pc[p] = "idle" /\ pc'[p] = s /\ loc'[p] = l
      /\ UNCHANGED <<disk, running, mpc, job, db, reloadPending, owed>>
  BY DEF Begin, To, LocalsOK, LocalOK, Variables, managerVars
<1>2. /\ \A h \in Hosts : OnDisk(h) /\ (reloadPending \/ InNginx(h))
      /\ mpc[p] = "idle" /\ Apart
  BY <1>1 DEF SerialInv, WorksOn, Reloads, Where, Apart
<1>3. \A h \in Hosts : OnDisk(h)'
  BY <1>1, <1>2 DEF OnDisk, Includes, FilesIn, Exists, Written, DataOf
<1>4. \A h \in Hosts : reloadPending' \/ InNginx(h)' BY <1>1, <1>2, SameServed
<1>5. Apart' BY <1>1, <1>2 DEF Apart, Exists, Free
<1>6. Where(p)' BY <1>1, <1>2 DEF Where
<1>7. disk' \in Disk /\ running' \in Disk /\ DOMAIN mpc' = Procs /\ DOMAIN job' = Procs
  BY <1>1 DEF SerialInv
<1> QED BY <1>3, <1>4, <1>5, <1>6, <1>7 DEF SerialInv, Apart

LEMMA SerialStart ==
  ASSUME Untroubled, RowsOK, LocalsOK, NEW p \in Procs, SerialInv(p), Start(p)
  PROVE  SerialInv(p)'
<1>1. PICK h \in Hosts :
        \/ \E row \in NewRows : Create(p, h, row)
        \/ \E op \in ServiceOps :
             \/ StartOnRow(p, op, h)
             \/ \E req \in Requests : StartUpdate(p, op, h, req)
  BY DEF Start
<1>2. pc[p] = "idle" /\ UNCHANGED <<disk, db>> /\ DOMAIN pc = Procs /\ DOMAIN loc = Procs
  BY <1>1 DEF Create, StartOnRow, StartUpdate, Begin, managerVars, LocalsOK, LocalOK, Variables
<1>3. /\ OnDisk(h) /\ \A op \in ServiceOps : op # "reloader"
      /\ Exists(h) => db[h] \in Row /\ File(db[h]) # NoFile /\ Free(File(db[h]), h)
                      /\ FilesIn(h, {File(db[h])}) /\ Includes(h)
  <2>1. OnDisk(h) /\ (Exists(h) => Free(File(db[h]), h)) BY <1>2 DEF SerialInv, WorksOn
  <2>2. Exists(h) => db[h] \in Row /\ File(db[h]) # NoFile
    BY RowFile DEF Exists, RowsOK
  <2> QED BY <2>1, <2>2, LocalAssumption DEF OnDisk, FilesIn
<1>4. ASSUME NEW row \in NewRows, Create(p, h, row) PROVE SerialInv(p)'
  <2> DEFINE l == [op |-> "create", host |-> h, row |-> row, old |-> NoFile]
  <2>1. Begin(p, l, "insert") /\ db[h] = NoRow /\ Free(File(row), h)
    <3>1. row.domain \in Domains BY RowAssumption DEF Row
    <3>2. Free(FileOf[row.domain], h) BY <1>4, <3>1, FreeFile DEF Create, Untroubled
    <3> QED BY <1>4, <3>2 DEF Create, File
  <2>2. FilesIn(h, {}) BY <1>3, <2>1 DEF OnDisk, Exists
  <2>3. pc'[p] = "insert" /\ loc'[p] = l BY <1>2, <2>1 DEF Begin, To
  <2>4. FilesIn(h, {})' /\ Free(File(row), h)' /\ db'[h] = NoRow
    BY <1>2, <2>1, <2>2 DEF FilesIn, Free, Exists
  <2>5. Requested(p)' BY <2>3, <2>4 DEF Requested
  <2>6. l.host = h /\ l.op # "reloader" OBVIOUS
  <2> QED BY <2>1, <2>5, <2>6, RequestBegins
<1>5. ASSUME NEW op \in ServiceOps, StartOnRow(p, op, h) PROVE SerialInv(p)'
  <2>1. PICK row \in Row : row = db[h] BY <1>3, <1>5 DEF StartOnRow
  <2> DEFINE l == [op |-> op, host |-> h, row |-> row, old |-> NoFile]
             s == IF op = "refreshWithoutReload" THEN "files" ELSE "configure"
  <2>2. /\ Begin(p, l, s) /\ Exists(h) /\ op \in {"refresh", "regenerate", "delete", "refreshWithoutReload"}
    BY <1>5, <2>1 DEF StartOnRow
  <2>3. pc'[p] = s /\ loc'[p] = l BY <1>2, <2>2 DEF Begin, To
  <2>4. /\ FilesIn(h, {File(row)})' /\ Includes(h)' /\ db'[h] = row /\ Exists(h)'
    BY <1>2, <1>3, <2>1, <2>2 DEF FilesIn, Includes, Exists
  <2>5. Old(l) = {} BY DEF Old, Renamed
  <2>6. l.host = h /\ l.op = op /\ l.row = row /\ l.old = NoFile OBVIOUS
  <2>7. Old(loc[p])' = {} BY <2>3, <2>5 DEF Old, Renamed
  <2> HIDE DEF l
  <2>8. Requested(p)' BY <2>2, <2>3, <2>4, <2>6, <2>7 DEF Requested
  <2> QED BY <1>3, <2>2, <2>6, <2>8, RequestBegins
<1>6. ASSUME NEW op \in ServiceOps, NEW req \in Requests, StartUpdate(p, op, h, req)
      PROVE  SerialInv(p)'
  <2>1. PICK row \in Row : row = db[h] BY <1>3, <1>6 DEF StartUpdate
  <2> DEFINE l == [op |-> op, host |-> h, row |-> NoRow, req |-> req,
                   old |-> IF "domain" \in DOMAIN req THEN File(row) ELSE NoFile]
  <2>2. /\ Begin(p, l, "read") /\ Exists(h) /\ op \in {"update", "updateDBOnly", "updateWithoutReload"}
        /\ "domain" \in DOMAIN req => Free(FileOf[req.domain], h)
    <3>1. ASSUME "domain" \in DOMAIN req PROVE Free(FileOf[req.domain], h)
      <4>1. Merge(row, req) \in Row BY <2>1, RequestAssumption
      <4>2. req.domain \in Domains BY <2>1, <3>1, <4>1 DEF Merge, Row
      <4> QED BY <1>6, <3>1, <4>2, FreeFile DEF StartUpdate, Untroubled
    <3> QED BY <1>6, <2>1, <3>1 DEF StartUpdate
  <2>3. pc'[p] = "read" /\ loc'[p] = l BY <1>2, <2>2 DEF Begin, To
  <2>4. /\ FilesIn(h, {File(row)})' /\ Includes(h)' /\ db'[h] = row /\ Exists(h)'
        /\ "domain" \in DOMAIN req => Free(FileOf[req.domain], h)'
    BY <1>2, <1>3, <2>1, <2>2 DEF FilesIn, Includes, Exists, Free
  <2>5. /\ l.host = h /\ l.op = op /\ l.req = req
        /\ l.old = IF "domain" \in DOMAIN req THEN File(row) ELSE NoFile
    OBVIOUS
  <2> HIDE DEF l
  <2>6. Requested(p)' BY <2>2, <2>3, <2>4, <2>5 DEF Requested
  <2> QED BY <1>3, <2>2, <2>5, <2>6, RequestBegins
<1> QED BY <1>1, <1>4, <1>5, <1>6

LEMMA SerialSame == ASSUME NEW p \in Procs, SerialInv(p), UNCHANGED vars PROVE SerialInv(p)'
<1>1. UNCHANGED <<disk, running, lock, mpc, job, db, status, pc, loc, reloadPending, owed>>
  BY DEF vars, managerVars, serviceVars
<1>2. Apart' BY <1>1 DEF SerialInv, Apart, Exists, Free
<1>3. \A h \in Hosts : WorksOn(p, h)' \/ OnDisk(h)'
  <2>1. \A h \in Hosts : WorksOn(p, h) \/ OnDisk(h) BY DEF SerialInv
  <2> QED BY <1>1, <2>1 DEF WorksOn, OnDisk, Includes, FilesIn, Exists, Written, DataOf
<1>4. \A h \in Hosts : WorksOn(p, h)' \/ reloadPending' \/ Reloads(p)' \/ InNginx(h)'
  <2>1. \A h \in Hosts : WorksOn(p, h) \/ reloadPending \/ Reloads(p) \/ InNginx(h) BY DEF SerialInv
  <2> QED BY <1>1, <2>1, SameServed DEF WorksOn, Reloads
<1>5. /\ \A h : Exists(h)' = Exists(h) /\ Includes(h)' = Includes(h)
      /\ \A h, names : FilesIn(h, names)' = FilesIn(h, names)
      /\ \A name, h : Free(name, h)' = Free(name, h)
  BY <1>1 DEF Exists, Includes, FilesIn, Free
<1>6. Wanted(p)' = Wanted(p) BY <1>1, <1>5 DEF Wanted, Written, DataOf
<1>7. Requested(p) => Requested(p)'
  BY <1>1, <1>5, <1>6 DEF Requested, DataOf, Old, Renamed
<1>8. Configures(p) => Configures(p)'
  BY <1>1, <1>5, <1>6 DEF Configures, DataOf
<1>9. Where(p)'
  <2>1. Where(p) BY DEF SerialInv
  <2> QED BY <1>1, <1>7, <1>8, <2>1 DEF Where, Called
<1> QED BY <1>1, <1>2, <1>3, <1>4, <1>9 DEF SerialInv, Apart

LEMMA SerialStep ==
  ASSUME Untroubled, RowsOK, LocalsOK, NEW p, Procs = {p}, SerialInv(p), [Next]_vars
  PROVE  SerialInv(p)'
<1>1. RowsOK' BY RowsStep
<1>2. p \in Procs OBVIOUS
<1>3. CASE Start(p) BY <1>2, <1>3, SerialStart
<1>4. CASE Service(p) \/ ManagerStep(p)
  <2>1. CASE pc[p] = "idle"
    <3>1. mpc[p] = "idle" BY <1>2, <2>1 DEF SerialInv, Where
    <3> QED BY <1>4, <2>1, <3>1 DEF Service, Insert, UndoFiles, UndoRow, Read, Write, ConfigureEnabled,
          ConfigureDisabled, CleanupDBOnly, WriteFiles, WriteWAFFile, CallTest, Tested, Abandon,
          ConfigureRow, DeleteRow, Succeeded, Failed, Restore,
          ManagerStep, Acquire, Step, WriteInclude, WriteConf, WriteWAF, RemoveOld, RemoveFiles,
          FileError, Writing, TestConfig, ReloadNginx, Rollback
  <2>2. CASE pc[p] # "idle" /\ loc[p].op # "reloader"
    BY <1>1, <1>2, <1>4, <2>2, SerialService, SerialManager
  <2>3. CASE pc[p] # "idle" /\ loc[p].op = "reloader" BY <1>2, <1>4, <2>3, SerialReload
  <2> QED BY <2>1, <2>2, <2>3
<1>5. CASE DebouncedReload(p) BY <1>2, <1>5, SerialDebounced
<1>6. CASE UNCHANGED vars BY <1>2, <1>6, SerialSame
<1> QED BY <1>2, <1>3, <1>4, <1>5, <1>6 DEF Next, CancelCall, Untroubled

LEMMA SerialInit == ASSUME NEW p, Procs = {p}, Init PROVE SerialInv(p)
<1>1. /\ disk = EmptyDisk /\ running = EmptyDisk /\ mpc = [q \in Procs |-> "idle"]
      /\ job = [q \in Procs |-> NoFile] /\ db = [h \in Hosts |-> NoRow]
      /\ pc = [q \in Procs |-> "idle"]
  BY DEF Init, ManagerInit
<1>2. disk \in Disk /\ running \in Disk BY <1>1 DEF EmptyDisk, Disk
<1>3. \A h \in Hosts : ~Exists(h) BY <1>1 DEF Exists
<1>4. \A h \in Hosts : OnDisk(h) /\ InNginx(h)
  BY <1>1, <1>3 DEF EmptyDisk, OnDisk, InNginx, Includes, FilesIn
<1>5. Where(p) BY <1>1 DEF Where
<1> QED BY <1>1, <1>2, <1>3, <1>4, <1>5 DEF SerialInv

\* What SerialInv says of a quiet service.
LEMMA QuietServes ==
  ASSUME RowsOK, NEW p, Procs = {p}, SerialInv(p) PROVE DBIsNginx
<1> SUFFICES ASSUME Quiet, NEW h \in Hosts, h \notin owed, Exists(h), db[h].enabled PROVE Served(h)
  BY DEF DBIsNginx
<1>1. InNginx(h) BY DEF SerialInv, Quiet, WorksOn, Reloads
<1>2. PICK r \in Row, x \in Datum :
        /\ r = db[h] /\ x = DataOf(h, r) /\ x.name = File(r) /\ x.host = h /\ x.waf = r.waf
        /\ x.body = r.body /\ File(r) \in Names /\ x # NoFile
  BY Data DEF RowsOK, Exists
<1>3. running.conf[File(r)] = x /\ (r.waf => running.waf[h] = r.body)
  BY <1>1, <1>2 DEF InNginx, Written
<1> QED BY <1>2, <1>3 DEF Served, InForce

LEMMA QuietLeavesNothing ==
  ASSUME NEW p, Procs = {p}, SerialInv(p) PROVE NoOrphans
<1> SUFFICES ASSUME Quiet, NEW n \in Names, disk.conf[n] # NoFile
             PROVE  LET h == disk.conf[n].host IN
                      Exists(h) /\ (h \in owed \/ (db[h].enabled /\ File(db[h]) = n))
  BY DEF NoOrphans
<1>1. PICK h \in Hosts : h = disk.conf[n].host BY DEF SerialInv, Disk, Datum
<1>2. OnDisk(h) BY DEF SerialInv, Quiet, WorksOn
<1> QED BY <1>1, <1>2 DEF OnDisk, FilesIn

\* DB = nginx: with one client, and where nothing fails and nginx rejects nothing, the
\* create, update, rename, disable and delete requests leave nginx with what the rows say once they
\* and the debounced reload are done, however many hosts, names and requests there are.
THEOREM ServesTheRows == Serial /\ Untroubled => (Spec => []DBIsNginx)
<1> SUFFICES ASSUME Serial, Untroubled PROVE Spec => []DBIsNginx
  OBVIOUS
<1>1. PICK p : Procs = {p} BY DEF Serial
<1> DEFINE Inv == RowsOK /\ LocalsOK /\ SerialInv(p)
<1>2. Init => Inv BY <1>1, InitTypes, SerialInit
<1>3. Inv /\ [Next]_vars => Inv' BY <1>1, RowsStep, LocalsStep, SerialStep
<1>4. Inv => DBIsNginx BY <1>1, QuietServes
<1> QED BY <1>2, <1>3, <1>4, PTL DEF Spec

\* No orphans: they leave no file of a host that is deleted or disabled, nor under a
\* name it had before.
THEOREM LeavesNoFile == Serial /\ Untroubled => (Spec => []NoOrphans)
<1> SUFFICES ASSUME Serial, Untroubled PROVE Spec => []NoOrphans
  OBVIOUS
<1>1. PICK p : Procs = {p} BY DEF Serial
<1> DEFINE Inv == RowsOK /\ LocalsOK /\ SerialInv(p)
<1>2. Init => Inv BY <1>1, InitTypes, SerialInit
<1>3. Inv /\ [Next]_vars => Inv' BY <1>1, RowsStep, LocalsStep, SerialStep
<1>4. Inv => NoOrphans BY <1>1, QuietLeavesNothing
<1> QED BY <1>2, <1>3, <1>4, PTL DEF Spec
=============================================================================
