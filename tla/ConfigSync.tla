----------------------------- MODULE ConfigSync -----------------------------
(***************************************************************************)
(* SyncAllConfigs (api/internal/service/proxy_host_sync.go) over the       *)
(* requests of ProxyHosts, and a crash of the API: the process loses its   *)
(* goroutines and its mutex, the database, the files and nginx stay as     *)
(* they are, and the API synchronises all hosts before it serves again.    *)
(*                                                                         *)
(* A synchronisation generates the files of every enabled host without the *)
(* mutex, tests them, and while nginx rejects them removes the files of    *)
(* the host the error message names.                                       *)
(***************************************************************************)
EXTENDS ProxyHosts, FiniteSets

CONSTANTS MaxAttempts, \* removals before a synchronisation gives up
          Matches,     \* <<n, d>>: the name of file n, read as a domain, is taken for domain d
          CanCrash

ASSUME AttemptAssumption == MaxAttempts \in Nat
ASSUME MatchAssumption == Matches \subseteq Names \X Domains
ASSUME CrashAssumption == CanCrash \in BOOLEAN

VARIABLE boot  \* serving, crashed, or synchronising before it serves

syncVars == <<vars, boot>>

SyncSteps == {"syncHost", "syncWAF", "syncTested", "syncReloaded", "syncRecord"}

\* The types of a synchronisation.
SyncTypeOK ==
  /\ boot \in {"serving", "crashed", "syncing"}
  /\ \A p \in Procs : pc[p] \in SyncSteps =>
       LET l == loc[p] IN
         /\ DOMAIN l.rows \subseteq Hosts
         /\ \A h \in DOMAIN l.rows : l.rows[h] \in Row /\ l.rows[h].enabled
         /\ l.todo \subseteq DOMAIN l.rows /\ l.failed \subseteq DOMAIN l.rows
         /\ l.attempts \in 0..MaxAttempts
         /\ l.host \in Hosts

SyncInit == Init /\ boot = "serving"

-----------------------------------------------------------------------------
(* What nginx -t says of the files it rejects *)

\* The files an error message may name.  A zone declared twice is reported in one of
\* the two files.
Blamable(d) ==
  {n \in Names : d.conf[n] # NoFile /\
     LET c == d.conf[n] IN
       \/ c.body \in BadBodies
       \/ c.waf /\ d.waf[c.host] \in BadBodies \cup {NoFile}
       \/ c.cloud /\ ~d.cloud[c.host]
       \/ \E m \in Names \ {n} : d.conf[m] # NoFile /\ d.conf[m].host = c.host}

\* Mutant of FoundByDomain: the name is not compared.
FoundByDomain_Any(rows, name) == DOMAIN rows

\* findHostByDomain: the hosts a file may be taken for; the first of the list wins, in
\* whatever order the database gave it.  The domain is read from the name of the file with
\* a dot for every underscore and compared by prefix: of *.a.b or a_b it finds no host, and
\* of a.b also that of a.b.c.
FoundByDomain(rows, name) == {h \in DOMAIN rows : <<name, rows[h].domain>> \in Matches}

-----------------------------------------------------------------------------
\* Mutant of SyncDone: the API never serves again.
SyncDone_StillBooting(p) == Done(p) /\ UNCHANGED boot

\* A synchronisation that is over: the one of a restart lets the API serve.
SyncDone(p) == Done(p) /\ boot' = IF boot = "syncing" THEN "serving" ELSE boot

Begins(p) ==
  /\ pc[p] = "idle"
  /\ LET rows == [h \in {g \in Hosts : Exists(g) /\ db[g].enabled} |-> db[h]] IN
       loc' = [loc EXCEPT ![p] = [op |-> "sync", host |-> AnyData.host, rows |-> rows,
                                  todo |-> DOMAIN rows, failed |-> {}, attempts |-> 0]]
  /\ To(p, "syncHost")
  /\ UNCHANGED <<managerVars, db, status, reloadPending, owed>>

\* A request of the API, or of a settings change.
StartSync(p) == "sync" \in ServiceOps /\ boot = "serving" /\ Begins(p) /\ UNCHANGED boot

\* Mutant of Restart: nothing is synchronised.
Restart_NoSync(p) == boot = "crashed" /\ boot' = "serving" /\ UNCHANGED vars

\* The start of the API, before it serves any request.
Restart(p) == boot = "crashed" /\ Begins(p) /\ boot' = "syncing"

\* GenerateConfigFull for one host; a host whose files cannot be written is failed.
SyncHost(p) ==
  /\ pc[p] = "syncHost"
  /\ \E h \in loc[p].todo :
       LET l == loc[p]
           x == DataOf(h, l.rows[h])
           next == [l EXCEPT !.todo = @ \ {h}, !.host = h]
       IN \/ /\ disk' = WithConf(WithInclude(disk, x), x)
             /\ loc' = [loc EXCEPT ![p] = next]
             /\ To(p, IF x.waf THEN "syncWAF" ELSE "syncHost")
          \/ /\ FileErrors
             /\ disk' \in {disk, WithInclude(disk, x)}
             /\ loc' = [loc EXCEPT ![p] = [next EXCEPT !.failed = @ \cup {h}]]
             /\ UNCHANGED pc
  /\ UNCHANGED <<running, lock, mpc, job, db, status, reloadPending, owed, boot>>

SyncWAF(p) ==
  /\ pc[p] = "syncWAF"
  /\ LET l == loc[p]
         h == l.host
     IN \/ /\ disk' = WithWAF(disk, DataOf(h, l.rows[h]), TRUE)
           /\ UNCHANGED loc
        \/ /\ FileErrors \/ DBErrors
           /\ loc' = [loc EXCEPT ![p].failed = @ \cup {h}]
           /\ UNCHANGED disk
  /\ To(p, "syncHost")
  /\ UNCHANGED <<running, lock, mpc, job, db, status, reloadPending, owed, boot>>

SyncTest(p) ==
  /\ pc[p] = "syncHost"
  /\ loc[p].todo = {}
  /\ Call(p, "test", AnyData, AnyData.name)
  /\ To(p, "syncTested")
  /\ UNCHANGED <<db, status, loc, reloadPending, owed, boot>>

\* Mutant of SyncRecover: one removal too many.
SyncRecover_OneMore(p) ==
  /\ pc[p] = "syncTested" /\ mpc[p] = "err"
  /\ loc[p].attempts <= MaxAttempts
  /\ \E n \in Blamable(disk) : \E h \in FoundByDomain(loc[p].rows, n) :
       /\ disk' = WithoutConfig(disk, DataOf(h, loc[p].rows[h]))
       /\ loc' = [loc EXCEPT ![p].failed = @ \cup {h}, ![p].attempts = @ + 1]
  /\ mpc' = [mpc EXCEPT ![p] = "idle"]
  /\ To(p, "syncHost")
  /\ UNCHANGED <<running, lock, job, db, status, reloadPending, owed, boot>>

\* Mutant of SyncRecover: the removed host is not marked failed.
SyncRecover_Unmarked(p) ==
  /\ pc[p] = "syncTested" /\ mpc[p] = "err"
  /\ loc[p].attempts < MaxAttempts
  /\ \E n \in Blamable(disk) : \E h \in FoundByDomain(loc[p].rows, n) :
       /\ disk' = WithoutConfig(disk, DataOf(h, loc[p].rows[h]))
       /\ loc' = [loc EXCEPT ![p].attempts = @ + 1]
  /\ mpc' = [mpc EXCEPT ![p] = "idle"]
  /\ To(p, "syncHost")
  /\ UNCHANGED <<running, lock, job, db, status, reloadPending, owed, boot>>

\* nginx -t failed: the files of the host its message names are removed, without the
\* mutex, and the rest is tested again.
SyncRecover(p) ==
  /\ pc[p] = "syncTested" /\ mpc[p] = "err"
  /\ loc[p].attempts < MaxAttempts
  /\ \E n \in Blamable(disk) : \E h \in FoundByDomain(loc[p].rows, n) :
       /\ disk' = WithoutConfig(disk, DataOf(h, loc[p].rows[h]))
       /\ loc' = [loc EXCEPT ![p].failed = @ \cup {h}, ![p].attempts = @ + 1]
  /\ mpc' = [mpc EXCEPT ![p] = "idle"]
  /\ To(p, "syncHost")
  /\ UNCHANGED <<running, lock, job, db, status, reloadPending, owed, boot>>

\* Mutant of SyncGiveUp: an attempt is lost.
SyncGiveUp_OneEarly(p) ==
  /\ pc[p] = "syncTested"
  /\ \/ loc[p].attempts + 1 >= MaxAttempts
     \/ NginxErrors \/ Blamable(disk) = {}
     \/ \E n \in Blamable(disk) : FoundByDomain(loc[p].rows, n) = {}
  /\ Result(p, "err")
  /\ SyncDone(p)
  /\ owed' = owed \cup DOMAIN loc[p].rows
  /\ UNCHANGED <<db, status, reloadPending>>

\* No attempt is left, or the message names no file or none of a host of the list: the
\* synchronisation returns and records nothing.  The hosts of the list are left to a later one.
SyncGiveUp(p) ==
  /\ pc[p] = "syncTested"
  /\ \/ loc[p].attempts = MaxAttempts
     \/ NginxErrors \/ Blamable(disk) = {}
     \/ \E n \in Blamable(disk) : FoundByDomain(loc[p].rows, n) = {}
  /\ Result(p, "err")
  /\ SyncDone(p)
  /\ owed' = owed \cup DOMAIN loc[p].rows
  /\ UNCHANGED <<db, status, reloadPending>>

SyncReload(p) ==
  /\ pc[p] = "syncTested" /\ mpc[p] = "ok"
  /\ Call(p, "reload", AnyData, AnyData.name)
  /\ To(p, "syncReloaded")
  /\ UNCHANGED <<db, status, loc, reloadPending, owed, boot>>

\* The outcome of each host is recorded after a reload, and only then.
SyncReloaded(p) ==
  /\ pc[p] = "syncReloaded"
  /\ \/ /\ Result(p, "ok")
        /\ To(p, "syncRecord")
        /\ loc' = [loc EXCEPT ![p].todo = DOMAIN loc[p].rows]
        /\ UNCHANGED boot
     \/ /\ Result(p, "err")
        /\ SyncDone(p)
  /\ UNCHANGED <<db, status, reloadPending, owed>>

\* Mutant of SyncRecord: every host of the list is recorded as served.
SyncRecord_AllOk(p) ==
  /\ pc[p] = "syncRecord"
  /\ \E h \in loc[p].todo :
       /\ status' = IF Exists(h) THEN [status EXCEPT ![h] = "ok"] ELSE status
       /\ owed' = owed \ {h}
       /\ loc' = [loc EXCEPT ![p].todo = @ \ {h}]
  /\ UNCHANGED <<managerVars, db, pc, reloadPending, boot>>

\* updateConfigStatuses, one host after the other; a status that cannot be written is
\* only logged.
SyncRecord(p) ==
  /\ pc[p] = "syncRecord"
  /\ \E h \in loc[p].todo :
       /\ \/ status' = IF Exists(h)
                       THEN [status EXCEPT ![h] = IF h \in loc[p].failed THEN "error" ELSE "ok"]
                       ELSE status
          \/ DBErrors /\ UNCHANGED status
       /\ owed' = owed \ {h}
       /\ loc' = [loc EXCEPT ![p].todo = @ \ {h}]
  /\ UNCHANGED <<managerVars, db, pc, reloadPending, boot>>

SyncEnd(p) ==
  /\ pc[p] = "syncRecord"
  /\ loc[p].todo = {}
  /\ SyncDone(p)
  /\ UNCHANGED <<managerVars, db, status, reloadPending, owed>>

\* The list of hosts cannot be read: SyncAllConfigs returns no error, and the API serves.
SyncNothing(p) ==
  /\ DBErrors
  /\ boot = "crashed"
  /\ boot' = "serving"
  /\ UNCHANGED vars

\* The API stops anywhere; a reload under way may still reach nginx.
Crash ==
  /\ CanCrash
  /\ boot' = "crashed"
  /\ running' \in {running} \cup
       (IF Valid(disk) /\ \E p \in Procs : mpc[p] = "reload" THEN {disk} ELSE {})
  /\ lock' = NoProc
  /\ mpc' = [p \in Procs |-> "idle"]
  /\ job' = [p \in Procs |-> NoFile]
  /\ pc' = [p \in Procs |-> "idle"]
  /\ loc' = [p \in Procs |-> NoRow]
  /\ reloadPending' = FALSE
  /\ UNCHANGED <<disk, db, status, owed>>

-----------------------------------------------------------------------------
SyncStep(p) ==
  \/ SyncHost(p) \/ SyncWAF(p) \/ SyncTest(p) \/ SyncRecover(p) \/ SyncGiveUp(p)
  \/ SyncReload(p) \/ SyncReloaded(p) \/ SyncRecord(p) \/ SyncEnd(p)

\* A request as in ProxyHosts, once the API serves.
Request(p) ==
  /\ \/ boot = "serving" /\ Start(p)
     \/ Service(p) \/ ManagerStep(p) \/ CancelCall(p) \/ DebouncedReload(p)
  /\ UNCHANGED boot

SyncNext ==
  \/ Crash
  \/ \E p \in Procs : Request(p) \/ StartSync(p) \/ Restart(p) \/ SyncNothing(p) \/ SyncStep(p)

SyncSpec ==
  /\ SyncInit /\ [][SyncNext]_syncVars
  /\ \A p \in Procs :
       /\ WF_syncVars(Service(p) /\ UNCHANGED boot)
       /\ SF_syncVars(ManagerStep(p) /\ UNCHANGED boot)
       /\ WF_syncVars(DebouncedReload(p) /\ UNCHANGED boot)
       /\ WF_syncVars(Restart(p)) /\ WF_syncVars(SyncStep(p))

-----------------------------------------------------------------------------
Serving == boot = "serving" /\ Quiet

Bad(l) == {h \in DOMAIN l.rows : l.rows[h].body \in BadBodies}

\* The hosts whose file does not lead back to them.
Unfound(l) == {h \in DOMAIN l.rows : h \notin FoundByDomain(l.rows, File(l.rows[h]))}

\* Auto-recovery: a synchronisation alone, after whatever requests and crashes, only gives up
\* when more hosts are rejected than it has attempts, or one is whose domain cannot be read
\* from the name of its file.
RecoversIfItCan ==
  [][\A p \in Procs : pc[p] = "syncTested" /\ pc'[p] = "idle" =>
       \/ boot' = "crashed"
       \/ Cardinality(Bad(loc[p])) > MaxAttempts
       \/ Bad(loc[p]) \cap Unfound(loc[p]) # {}]_syncVars

\* The rest runs on: a synchronisation only takes down hosts whose configuration nginx rejects,
\* and when it has reloaded, nginx serves every other host of the list as the list says.
RestIsServed ==
  \A p \in Procs : pc[p] \in SyncSteps =>
    /\ loc[p].failed \subseteq Bad(loc[p])
    /\ pc[p] = "syncRecord" =>
         \A h \in DOMAIN loc[p].rows \ loc[p].failed :
           LET x == DataOf(h, loc[p].rows[h]) IN
             InForce(running)[x.name] = <<x, IF x.waf THEN x.body ELSE NoFile>>

\* Once the API serves again, nginx serves what the database says, whatever the crash
\* interrupted, no file is left that no host has, and nginx would start with the files, but
\* for the hosts a synchronisation that gave up has left as they were.
RestartRepairs ==
  Serving => DBIsNginx /\ NoOrphans /\ (Valid(disk) \/ \E h \in owed : Exists(h))

\* An enabled host without a configuration is marked in error, unless it is still owed one.
RemovedIsMarked ==
  Serving => \A h \in Hosts \ owed :
               Exists(h) /\ db[h].enabled /\ disk.conf[File(db[h])] = NoFile => status[h] = "error"

\* A restart ends: whatever fails in its synchronisation, the API comes to serve, unless it
\* crashes again.
RestartEnds == boot = "syncing" ~> boot \in {"serving", "crashed"}
=============================================================================
