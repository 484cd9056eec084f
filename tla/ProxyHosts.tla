----------------------------- MODULE ProxyHosts -----------------------------
(***************************************************************************)
(* ProxyHostService (api/internal/service/proxy_host.go) over the manager: *)
(* the rows of proxy_hosts, and the requests that change a row and then    *)
(* the configuration made from it.                                         *)
(*                                                                         *)
(* A request is a goroutine.  It reads, writes the row, calls the manager  *)
(* and records the outcome in separate steps, and holds no lock of its own *)
(* between them; some of its writes to the files do not go through the     *)
(* mutex of the manager.  The body of a row stands for every setting of    *)
(* the host, those kept in other tables included.                          *)
(***************************************************************************)
EXTENDS NginxManager

CONSTANTS Domains,     \* what a host may be called: its first domain
          FileOf,      \* sanitizeFilename: the file of a domain
          NoRow, Gone,  \* an id not used yet; one whose row is deleted (ids are not reused)
          NewRows,     \* the rows Create may be asked for
          Requests,    \* the updates: the fields a request names, with their values
          ServiceOps,  \* the requests the clients make
          DBErrors     \* a statement may fail, as it does when the client is gone

Row == [enabled : BOOLEAN, domain : Domains, body : Bodies, waf : BOOLEAN, cloud : BOOLEAN]

ASSUME DomainAssumption == FileOf \in [Domains -> Names]
ASSUME RowAssumption == NoRow \notin Row /\ Gone \notin Row /\ NoRow # Gone /\ NewRows \subseteq Row
ASSUME DBAssumption == DBErrors \in BOOLEAN
ASSUME DatumAssumption == Datum # {}

VARIABLES db,            \* proxy_hosts, by id
          status,        \* config_status
          pc,            \* where each request is
          loc,           \* its local variables
          reloadPending, \* NginxReloader has a reload to do
          owed           \* hosts UpdateDBOnly, or a synchronisation that gave up, left as they were

serviceVars == <<db, status, pc, loc, reloadPending, owed>>
vars == <<managerVars, serviceVars>>

Steps == {"idle", "insert", "read", "write", "configure", "files", "waf", "manager",
          "undoFiles", "undoRow", "deleteRow", "restore", "retest", "rereload"}

Local == [op : ServiceOps \cup {"reloader"}, host : Hosts, row : Row \cup {NoRow},
          old : Names \cup {NoFile}]

\* An update also has what was asked for.
Updating == [op : {"update", "updateDBOnly", "updateWithoutReload"} \cap ServiceOps, host : Hosts,
             row : Row \cup {NoRow}, req : Requests, old : Names \cup {NoFile}]

ASSUME LocalAssumption ==
  NoRow \notin Local \cup Updating /\ NoFile \notin Names /\ "reloader" \notin ServiceOps

\* The types of the rows and of the requests.
ServiceTypeOK ==
  /\ db \in [Hosts -> Row \cup {NoRow, Gone}]
  /\ status \in [Hosts -> {"ok", "error"}]
  /\ pc \in [Procs -> Steps]
  /\ \A p \in Procs : pc[p] # "idle" =>
       /\ [f \in {"op", "host", "row", "old"} |-> loc[p][f]] \in Local
       /\ pc[p] \in {"configure", "files", "waf", "undoFiles", "deleteRow", "restore"}
            => loc[p].row # NoRow
  /\ \A p \in Procs : pc[p] = "idle" <=> loc[p] = NoRow
  /\ reloadPending \in BOOLEAN
  /\ owed \subseteq Hosts

Init ==
  /\ ManagerInit
  /\ db = [h \in Hosts |-> NoRow]
  /\ status = [h \in Hosts |-> "ok"]
  /\ pc = [p \in Procs |-> "idle"]
  /\ loc = [p \in Procs |-> NoRow]
  /\ reloadPending = FALSE
  /\ owed = {}

-----------------------------------------------------------------------------
\* GetConfigFilename.  Two domains may have the same file: *.a.b and a.b, a_b and a.b.
File(row) == FileOf[row.domain]

\* The data the configuration of host h is generated from.
DataOf(h, row) ==
  [host |-> h, name |-> File(row), body |-> row.body, waf |-> row.waf, cloud |-> row.cloud]

\* TestConfig and ReloadNginx are given no host.
AnyData == CHOOSE x \in Datum : TRUE

Merge(row, req) == [f \in DOMAIN row |-> IF f \in DOMAIN req THEN req[f] ELSE row[f]]

ASSUME RequestAssumption == \A row \in Row, req \in Requests : Merge(row, req) \in Row

Exists(h) == db[h] \notin {NoRow, Gone}

\* CheckDomainExists compares domains, not the files they get.
DomainTaken(domain, except) == \E h \in Hosts \ {except} : Exists(h) /\ db[h].domain = domain

\* The host gets another file.
Renamed(l) == l.old # NoFile /\ l.old # File(l.row)

To(p, step) == pc' = [pc EXCEPT ![p] = step]

Done(p) ==
  /\ To(p, "idle")
  /\ loc' = [loc EXCEPT ![p] = NoRow]

\* The goroutine takes the result of the manager.
Result(p, r) == mpc[p] = r /\ mpc' = [mpc EXCEPT ![p] = "idle"] /\ UNCHANGED <<disk, running, lock, job>>

\* A request that found no row, or was refused, has changed nothing.
Begin(p, l, step) ==
  /\ pc[p] = "idle"
  /\ l.op \in ServiceOps
  /\ To(p, step)
  /\ loc' = [loc EXCEPT ![p] = l]
  /\ UNCHANGED <<managerVars, db, status, reloadPending, owed>>

-----------------------------------------------------------------------------
(* Create *)

Create(p, h, row) ==
  /\ db[h] = NoRow
  /\ \A q \in Procs : pc[q] = "insert" => loc[q].host # h   \* ids are fresh
  /\ ~DomainTaken(row.domain, h)
  /\ Begin(p, [op |-> "create", host |-> h, row |-> row, old |-> NoFile], "insert")

\* INSERT, then GenerateConfigAndReload for an enabled host.  The row is deleted again
\* when the exclusions of its WAF cannot be read.
Insert(p) ==
  /\ pc[p] = "insert"
  /\ LET l == loc[p] IN
       \/ /\ db' = [db EXCEPT ![l.host] = l.row]
          /\ status' = [status EXCEPT ![l.host] = "ok"]
          /\ IF l.row.enabled
             THEN /\ Call(p, "generate", DataOf(l.host, l.row), File(l.row))
                  /\ To(p, "manager")
                  /\ UNCHANGED loc
             ELSE Done(p) /\ UNCHANGED managerVars
       \/ /\ DBErrors
          /\ Done(p)
          /\ UNCHANGED <<managerVars, db, status>>
       \/ /\ DBErrors /\ l.row.enabled /\ l.row.waf
          /\ db' = [db EXCEPT ![l.host] = l.row]
          /\ status' = [status EXCEPT ![l.host] = "ok"]
          /\ To(p, "undoRow")
          /\ UNCHANGED <<managerVars, loc>>
  /\ UNCHANGED <<reloadPending, owed>>

\* The rollback of Create removes the files, without the lock, and then the row.
UndoFiles(p) ==
  /\ pc[p] = "undoFiles"
  /\ disk' = WithoutConfig(disk, DataOf(loc[p].host, loc[p].row))
  /\ To(p, "undoRow")
  /\ UNCHANGED <<running, lock, mpc, job, db, status, loc, reloadPending, owed>>

DeletedRow(p) == db' = [db EXCEPT ![loc[p].host] = Gone]

UndoRow(p) ==
  /\ pc[p] = "undoRow"
  /\ DeletedRow(p) \/ (DBErrors /\ db' = db)
  /\ Done(p)
  /\ UNCHANGED <<managerVars, status, reloadPending, owed>>

-----------------------------------------------------------------------------
(* Update, UpdateDBOnly, UpdateWithoutReload *)

\* The old file name is only looked up, and the new domain only checked, when the
\* request has a domain.
StartUpdate(p, op, h, req) ==
  /\ op \in {"update", "updateDBOnly", "updateWithoutReload"}
  /\ Exists(h)
  /\ "domain" \in DOMAIN req => ~DomainTaken(req.domain, h)
  /\ Begin(p, [op |-> op, host |-> h, row |-> NoRow, req |-> req,
               old |-> IF "domain" \in DOMAIN req THEN File(db[h]) ELSE NoFile], "read")

\* repo.Update reads the row, merges the request into it, and writes every column.
Read(p) ==
  /\ pc[p] = "read"
  /\ LET l == loc[p] IN
       IF ~Exists(l.host)
       THEN Done(p)
       ELSE /\ loc' = [loc EXCEPT ![p].row = Merge(db[l.host], l.req)]
            /\ To(p, "write")
  /\ UNCHANGED <<managerVars, db, status, reloadPending, owed>>

AfterWrite(op) ==
  CASE op = "updateWithoutReload" -> "files"
    [] OTHER                      -> "configure"

Write(p) ==
  /\ pc[p] = "write"
  /\ LET l == loc[p] IN
       IF ~Exists(l.host)
       THEN Done(p) /\ UNCHANGED db
       ELSE \/ /\ db' = [db EXCEPT ![l.host] = l.row]
               /\ To(p, AfterWrite(l.op))
               /\ UNCHANGED loc
            \/ /\ DBErrors
               /\ Done(p)
               /\ UNCHANGED db
  /\ UNCHANGED <<managerVars, status, reloadPending, owed>>

\* Mutant of ConfigureEnabled: the file of the old name stays.
ConfigureEnabled_NoCleanup(p) ==
  /\ pc[p] = "configure"
  /\ loc[p].op = "update" /\ loc[p].row.enabled
  /\ LET l == loc[p] IN Call(p, "generate", DataOf(l.host, l.row), File(l.row))
  /\ To(p, "manager")
  /\ UNCHANGED <<db, status, loc, reloadPending, owed>>

\* Update configures an enabled host through the manager.
ConfigureEnabled(p) ==
  /\ pc[p] = "configure"
  /\ loc[p].op = "update" /\ loc[p].row.enabled
  /\ LET l == loc[p] IN
       IF Renamed(l)
       THEN Call(p, "cleanup", DataOf(l.host, l.row), l.old)
       ELSE Call(p, "generate", DataOf(l.host, l.row), File(l.row))
  /\ To(p, "manager")
  /\ UNCHANGED <<db, status, loc, reloadPending, owed>>

\* Mutant of ConfigureDisabled: only the new name is cleaned up.
ConfigureDisabled_KeepsOld(p) ==
  /\ pc[p] = "configure"
  /\ loc[p].op = "update" /\ ~loc[p].row.enabled
  /\ LET l == loc[p] IN Call(p, "remove", DataOf(l.host, l.row), File(l.row))
  /\ To(p, "manager")
  /\ UNCHANGED <<db, status, loc, reloadPending, owed>>

\* For a disabled host it removes the old file, without the lock, and then the rest.
ConfigureDisabled(p) ==
  /\ pc[p] = "configure"
  /\ loc[p].op = "update" /\ ~loc[p].row.enabled
  /\ LET l == loc[p] IN
       /\ mpc[p] = "idle"
       /\ disk' = IF l.old # NoFile THEN WithoutFile(disk, l.old) ELSE disk
       /\ mpc' = [mpc EXCEPT ![p] = "wait"]
       /\ job' = [job EXCEPT ![p] =
                    [op |-> "remove", data |-> DataOf(l.host, l.row), old |-> File(l.row),
                     savedConf |-> NoFile, savedOld |-> NoFile, savedWaf |-> NoFile]]
  /\ To(p, "manager")
  /\ UNCHANGED <<running, lock, db, status, loc, reloadPending, owed>>

\* UpdateDBOnly removes the old file, without the lock, and leaves the rest to a
\* later RegenerateConfigForHost.
CleanupDBOnly(p) ==
  /\ pc[p] = "configure"
  /\ loc[p].op = "updateDBOnly"
  /\ disk' = IF Renamed(loc[p]) THEN WithoutFile(disk, loc[p].old) ELSE disk
  /\ owed' = owed \cup {loc[p].host}
  /\ Done(p)
  /\ UNCHANGED <<running, lock, mpc, job, db, status, reloadPending>>

\* UpdateWithoutReload writes the files without the lock, then tests them.
WriteFiles(p) ==
  /\ pc[p] = "files"
  /\ LET l == loc[p]
         x == DataOf(l.host, l.row)
     IN IF l.row.enabled
        THEN /\ disk' = WithConf(WithInclude(disk, x), x)
             /\ To(p, "waf")
        ELSE /\ disk' = WithoutConfig(IF l.old # NoFile THEN WithoutFile(disk, l.old) ELSE disk, x)
             /\ To(p, "retest")
  /\ UNCHANGED <<running, lock, mpc, job, db, status, loc, reloadPending, owed>>

WriteWAFFile(p) ==
  /\ pc[p] = "waf"
  /\ LET l == loc[p]
         d == WithWAF(disk, DataOf(l.host, l.row), l.row.waf)
     IN disk' = IF Renamed(l) THEN WithoutFile(d, l.old) ELSE d
  /\ To(p, "retest")
  /\ UNCHANGED <<running, lock, mpc, job, db, status, loc, reloadPending, owed>>

\* The exclusions of the WAF cannot be read, or a file cannot be written: the request
\* returns, leaving what it has done.
Abandon(p) ==
  /\ pc[p] \in {"configure", "files", "waf"}
  /\ LET l == loc[p]
         x == DataOf(l.host, l.row)
     IN /\ l.row.enabled /\ l.op \notin {"delete", "updateDBOnly"}
        /\ \/ DBErrors /\ l.row.waf /\ pc[p] # "files" /\ UNCHANGED disk
           \/ FileErrors /\ l.row.waf /\ pc[p] = "waf" /\ UNCHANGED disk
           \/ FileErrors /\ pc[p] = "files" /\ disk' \in {disk, WithInclude(disk, x)}
  /\ Done(p)
  /\ UNCHANGED <<running, lock, mpc, job, db, status, reloadPending, owed>>

-----------------------------------------------------------------------------
(* Update(nil), RegenerateConfigForHost, Delete and UpdateWithoutReload(nil) start *)
(* from the row as it is *)

\* Mutant of StartOnRow: a row that is not there is used.
StartOnRow_NoCheck(p, op, h) ==
  /\ op \in {"refresh", "regenerate", "delete", "refreshWithoutReload"}
  /\ Begin(p, [op |-> op, host |-> h, row |-> db[h], old |-> NoFile],
           IF op = "refreshWithoutReload" THEN "files" ELSE "configure")

StartOnRow(p, op, h) ==
  /\ op \in {"refresh", "regenerate", "delete", "refreshWithoutReload"}
  /\ Exists(h)
  /\ Begin(p, [op |-> op, host |-> h, row |-> db[h], old |-> NoFile],
           IF op = "refreshWithoutReload" THEN "files" ELSE "configure")

ConfigureRow(p) ==
  /\ pc[p] = "configure"
  /\ loc[p].op \in {"refresh", "regenerate", "delete"}
  /\ LET l == loc[p]
         op == IF l.row.enabled /\ l.op # "delete" THEN "generate" ELSE "remove"
     IN Call(p, op, DataOf(l.host, l.row), File(l.row))
  /\ To(p, "manager")
  /\ UNCHANGED <<db, status, loc, reloadPending, owed>>

\* The row goes last; when that fails, or somebody else deleted it, the configuration
\* is generated again.
DeleteRow(p) ==
  /\ pc[p] = "deleteRow"
  /\ \/ Exists(loc[p].host) /\ DeletedRow(p) /\ Done(p) /\ UNCHANGED managerVars
     \/ /\ DBErrors \/ ~Exists(loc[p].host)
        /\ UNCHANGED db
        /\ LET l == loc[p] IN
             IF l.row.enabled
             THEN /\ Call(p, "generate", DataOf(l.host, l.row), File(l.row))
                  /\ To(p, "restore")
                  /\ UNCHANGED loc
             ELSE Done(p) /\ UNCHANGED managerVars
  /\ UNCHANGED <<status, reloadPending, owed>>

-----------------------------------------------------------------------------
(* What becomes of the result of the manager *)

\* UpdateConfigStatus touches the row if it is still there; its error is ignored.
SetStatus(p, s) ==
  LET h == loc[p].host IN
    \/ status' = IF Exists(h) THEN [status EXCEPT ![h] = s] ELSE status
    \/ DBErrors /\ UNCHANGED status

Succeeded(p) ==
  /\ pc[p] = "manager"
  /\ Result(p, "ok")
  /\ CASE loc[p].op \in {"update", "refresh", "regenerate"} ->
            /\ SetStatus(p, "ok")
            /\ owed' = owed \ {loc[p].host}
            /\ Done(p)
       [] loc[p].op \in {"create", "reloader"} -> UNCHANGED <<status, owed>> /\ Done(p)
       [] loc[p].op = "delete" -> UNCHANGED <<status, loc, owed>> /\ To(p, "deleteRow")
  /\ UNCHANGED <<db, reloadPending>>

\* A failure undoes a creation; of the others only RegenerateConfigForHost, for an
\* enabled host, records it.  A disabled host that changed its file is tested and
\* reloaded again.
Failed(p) ==
  /\ pc[p] = "manager"
  /\ Result(p, "err")
  /\ LET l == loc[p] IN
       CASE l.op = "create" -> UNCHANGED <<status, loc>> /\ To(p, "undoFiles")
         [] l.op = "regenerate" /\ l.row.enabled -> SetStatus(p, "error") /\ Done(p)
         [] l.op = "update" /\ ~l.row.enabled /\ Renamed(l) ->
              UNCHANGED <<status, loc>> /\ To(p, "retest")
         [] OTHER -> UNCHANGED status /\ Done(p)
  /\ UNCHANGED <<db, reloadPending, owed>>

Restore(p) ==
  /\ pc[p] = "restore"
  /\ Result(p, "ok") \/ Result(p, "err")
  /\ Done(p)
  /\ UNCHANGED <<db, status, reloadPending, owed>>

\* TestConfig as a call of its own, of UpdateWithoutReload and of a failed removal.
CallTest(p) ==
  /\ pc[p] = "retest"
  /\ Call(p, "test", AnyData, AnyData.name)
  /\ To(p, "rereload")
  /\ UNCHANGED <<db, status, loc, reloadPending, owed>>

\* UpdateWithoutReload leaves the reload to the debounced reloader.
Tested(p) ==
  /\ pc[p] = "rereload"
  /\ LET l == loc[p] IN
       \/ /\ Result(p, "err")
          /\ Done(p)
          /\ UNCHANGED reloadPending
       \/ /\ l.op \in {"updateWithoutReload", "refreshWithoutReload"}
          /\ Result(p, "ok")
          /\ reloadPending' = TRUE
          /\ Done(p)
       \/ /\ l.op = "update"
          /\ mpc[p] = "ok"
          /\ Call(p, "reload", AnyData, AnyData.name)
          /\ loc' = [loc EXCEPT ![p].old = NoFile]
          /\ To(p, "manager")
          /\ UNCHANGED reloadPending
  /\ UNCHANGED <<db, status, owed>>

\* The debounced reload runs in a goroutine of its own; a failure is only logged.
DebouncedReload(p) ==
  /\ reloadPending
  /\ pc[p] = "idle"
  /\ reloadPending' = FALSE
  /\ Call(p, "reload", AnyData, AnyData.name)
  /\ loc' = [loc EXCEPT ![p] = [op |-> "reloader", host |-> AnyData.host, row |-> NoRow, old |-> NoFile]]
  /\ To(p, "manager")
  /\ UNCHANGED <<db, status, owed>>

-----------------------------------------------------------------------------
ManagerStep(p) == (Acquire(p) \/ Step(p)) /\ UNCHANGED serviceVars

CancelCall(p) == NginxErrors /\ Cancel(p) /\ UNCHANGED serviceVars

Service(p) ==
  \/ Insert(p) \/ UndoFiles(p) \/ UndoRow(p)
  \/ Read(p) \/ Write(p) \/ ConfigureEnabled(p) \/ ConfigureDisabled(p) \/ CleanupDBOnly(p)
  \/ WriteFiles(p) \/ WriteWAFFile(p) \/ CallTest(p) \/ Tested(p)
  \/ Abandon(p) \/ ConfigureRow(p) \/ DeleteRow(p) \/ Succeeded(p) \/ Failed(p) \/ Restore(p)

Start(p) ==
  \E h \in Hosts :
    \/ \E row \in NewRows : Create(p, h, row)
    \/ \E op \in ServiceOps :
         \/ StartOnRow(p, op, h)
         \/ \E req \in Requests : StartUpdate(p, op, h, req)

Next ==
  \E p \in Procs :
    Start(p) \/ Service(p) \/ ManagerStep(p) \/ CancelCall(p) \/ DebouncedReload(p)

Spec ==
  /\ Init /\ [][Next]_vars
  /\ \A p \in Procs :
       /\ WF_vars(Service(p)) /\ SF_vars(ManagerStep(p))
       /\ WF_vars(DebouncedReload(p))

-----------------------------------------------------------------------------
Quiet == ~reloadPending /\ \A p \in Procs : pc[p] = "idle"

Served(h) ==
  InForce(running)[File(db[h])] =
    <<DataOf(h, db[h]), IF db[h].waf THEN db[h].body ELSE NoFile>>

\* DB = nginx: once the requests are done, nginx serves every enabled host as its
\* row says, unless the row says that its configuration is in error or the
\* configuration was left to a later request.
DBIsNginx ==
  Quiet => \A h \in Hosts \ owed :
             Exists(h) /\ db[h].enabled /\ status[h] = "ok" => Served(h)

\* No orphans: once the requests are done, no file is left on disk for a host that
\* is deleted or disabled, or a file the host no longer has.
NoOrphans ==
  Quiet => \A n \in Names : disk.conf[n] # NoFile =>
             LET h == disk.conf[n].host IN
               /\ Exists(h)
               /\ h \in owed \/ (db[h].enabled /\ File(db[h]) = n)

\* Every request ends, whatever the others do and whatever nginx answers.
RequestEnds == \A p \in Procs : pc[p] # "idle" ~> pc[p] = "idle"
=============================================================================
