---------------------------- MODULE NginxManager ----------------------------
(***************************************************************************)
(* The configuration manager of api/internal/nginx: the files it writes    *)
(* for the proxy hosts, the nginx it tests and reloads, and the operations *)
(* that run under globalNginxMutex.                                        *)
(*                                                                         *)
(* A proxy host has a configuration file, named after its first domain,    *)
(* which may include a WAF file and a cloud-provider file of the host.     *)
(* Contents are abstracted to what decides whether nginx accepts them: the *)
(* host a file is for, a body that may be one nginx rejects, and the files *)
(* it includes.                                                            *)
(***************************************************************************)
EXTENDS Naturals

CONSTANTS Procs,       \* goroutines that call the manager
          NoProc,
          Hosts,
          Names,       \* configuration file names
          Bodies,      \* what a file says
          BadBodies,   \* the bodies nginx -t rejects
          NoFile,
          Inputs,      \* the host data the callers pass
          Ops,         \* the operations the callers use
          NginxErrors, \* docker exec may fail or time out
          FileErrors   \* a file may fail to be written

Datum == [host : Hosts, name : Names, body : Bodies, waf : BOOLEAN, cloud : BOOLEAN]

ASSUME ProcAssumption == NoProc \notin Procs
ASSUME FileAssumption ==
  /\ NoFile \notin Bodies /\ NoFile \notin Datum
  /\ NoFile \notin Datum \X (Bodies \cup {NoFile})
  /\ BadBodies \subseteq Bodies
ASSUME InputAssumption == Inputs \subseteq Datum
ASSUME OpAssumption ==
  Ops \subseteq {"generate", "cleanup", "wafonly", "remove", "test", "reload", "testreload"}
ASSUME ErrorAssumption == NginxErrors \in BOOLEAN /\ FileErrors \in BOOLEAN

VARIABLES disk,     \* [conf, waf, cloud]: the files by name and by host
          running,  \* the files nginx has loaded
          lock,     \* the holder of globalNginxMutex
          mpc,      \* where each goroutine is inside the manager
          job       \* what it was called with, and the backup it took

managerVars == <<disk, running, lock, mpc, job>>

\* A configuration file is the datum it was generated from.
Disk == [conf : [Names -> Datum \cup {NoFile}],
         waf : [Hosts -> Bodies \cup {NoFile}],
         cloud : [Hosts -> BOOLEAN]]

Critical == {"include", "conf", "waf", "cleanup", "remove", "test", "reload", "rollback"}

Job == [op : Ops, data : Inputs, old : Names,
        savedConf : Datum \cup {NoFile}, savedOld : Datum \cup {NoFile},
        savedWaf : Bodies \cup {NoFile}]

\* The types, and the mutex: whoever is in a critical section holds the lock.
TypeOK ==
  /\ disk \in Disk /\ running \in Disk
  /\ lock \in Procs \cup {NoProc}
  /\ mpc \in [Procs -> Critical \cup {"idle", "wait", "ok", "err"}]
  /\ DOMAIN job = Procs
  /\ \A p \in Procs : mpc[p] \in Critical \cup {"wait"} => job[p] \in Job
  /\ \A p \in Procs : mpc[p] \in Critical <=> lock = p

EmptyDisk == [conf |-> [n \in Names |-> NoFile],
              waf |-> [h \in Hosts |-> NoFile],
              cloud |-> [h \in Hosts |-> FALSE]]

ManagerInit ==
  /\ disk = EmptyDisk
  /\ running = EmptyDisk
  /\ lock = NoProc
  /\ mpc = [p \in Procs |-> "idle"]
  /\ job = [p \in Procs |-> NoFile]

-----------------------------------------------------------------------------
(* nginx *)

\* What nginx -t accepts: no rejected body, no missing include, and no zone
\* declared twice, as two files of one host do.
Valid(d) ==
  \A n \in Names : d.conf[n] # NoFile =>
    LET c == d.conf[n] IN
      /\ c.body \notin BadBodies
      /\ c.waf => d.waf[c.host] \notin BadBodies \cup {NoFile}
      /\ c.cloud => d.cloud[c.host]
      /\ \A m \in Names \ {n} : d.conf[m] # NoFile => d.conf[m].host # c.host

\* What nginx takes from the files: each configuration with what it includes.
InForce(d) ==
  [n \in Names |->
     LET c == d.conf[n] IN
       IF c = NoFile THEN NoFile ELSE <<c, IF c.waf THEN d.waf[c.host] ELSE NoFile>>]

-----------------------------------------------------------------------------
(* Effects on the files *)

WithInclude(d, x) == [d EXCEPT !.cloud[x.host] = x.cloud]

WithConf(d, x) == [d EXCEPT !.conf[x.name] = x]

\* GenerateHostWAFConfig for a host with WAF, RemoveHostWAFConfig for one without.
WithWAF(d, x, write) == [d EXCEPT !.waf[x.host] = IF write THEN x.body ELSE NoFile]

WithoutFile(d, name) == [d EXCEPT !.conf[name] = NoFile]

\* RemoveConfig: the configuration and the two files it includes.
WithoutConfig(d, x) ==
  [d EXCEPT !.conf[x.name] = NoFile, !.waf[x.host] = NoFile, !.cloud[x.host] = FALSE]

\* Mutant of RestoredGenerate: the WAF file is forgotten.
RestoredGenerate_NoWAF(d, j) == [d EXCEPT !.conf[j.data.name] = j.savedConf]

\* Mutant of RestoredGenerate: every host is taken for a new one.
RestoredGenerate_Removes(d, j) ==
  [d EXCEPT !.conf[j.data.name] = NoFile, !.waf[j.data.host] = NoFile]

\* What a failed test or reload of GenerateConfigAndReload restores from the backup:
\* the configuration and the WAF file.
RestoredGenerate(d, j) ==
  [d EXCEPT !.conf[j.data.name] = j.savedConf, !.waf[j.data.host] = j.savedWaf]

\* GenerateConfigAndReloadWithCleanup restores the old configuration, if there
\* was one, and removes the new one; with no old file nothing is undone.
RestoredCleanup(d, j) ==
  IF j.savedOld # NoFile
  THEN [d EXCEPT !.conf[j.old] = j.savedOld, !.conf[j.data.name] = NoFile]
  ELSE d

RestoredWAF(d, j) == [d EXCEPT !.waf[j.data.host] = j.savedWaf]

Restored(d, j) ==
  CASE j.op = "generate" -> RestoredGenerate(d, j)
    [] j.op = "cleanup"  -> RestoredCleanup(d, j)
    [] j.op = "wafonly"  -> RestoredWAF(d, j)
    [] OTHER             -> d

-----------------------------------------------------------------------------
(* The steps of an operation *)

Call(p, op, x, old) ==
  /\ mpc[p] \in {"idle", "ok", "err"}
  /\ mpc' = [mpc EXCEPT ![p] = "wait"]
  /\ job' = [job EXCEPT ![p] = [op |-> op, data |-> x, old |-> old,
                                savedConf |-> NoFile, savedOld |-> NoFile, savedWaf |-> NoFile]]
  /\ UNCHANGED <<disk, running, lock>>

FirstStep(op) ==
  CASE op \in {"generate", "cleanup"} -> "include"
    [] op = "wafonly"                 -> "waf"
    [] op = "remove"                  -> "remove"
    [] op \in {"test", "testreload"}  -> "test"
    [] op = "reload"                  -> "reload"

\* Mutant of Acquire: the operation starts without the mutex.
Acquire_NoLock(p) ==
  /\ mpc[p] = "wait"
  /\ lock' = p
  /\ mpc' = [mpc EXCEPT ![p] = FirstStep(job[p].op)]
  /\ LET j == job[p] IN
       job' = [job EXCEPT ![p].savedConf = disk.conf[j.data.name],
                          ![p].savedOld = disk.conf[j.old],
                          ![p].savedWaf = disk.waf[j.data.host]]
  /\ UNCHANGED <<disk, running>>

\* executeWithLock gets the mutex, and the operation takes its backups.
Acquire(p) ==
  /\ mpc[p] = "wait"
  /\ lock = NoProc
  /\ lock' = p
  /\ mpc' = [mpc EXCEPT ![p] = FirstStep(job[p].op)]
  /\ LET j == job[p] IN
       job' = [job EXCEPT ![p].savedConf = disk.conf[j.data.name],
                          ![p].savedOld = disk.conf[j.old],
                          ![p].savedWaf = disk.waf[j.data.host]]
  /\ UNCHANGED <<disk, running>>

\* The context is cancelled before the lock is acquired, or while waiting for it.
Cancel(p) ==
  /\ mpc[p] = "wait"
  /\ mpc' = [mpc EXCEPT ![p] = "err"]
  /\ job' = [job EXCEPT ![p] = NoFile]
  /\ UNCHANGED <<disk, running, lock>>

Goto(p, step) == mpc' = [mpc EXCEPT ![p] = step] /\ UNCHANGED <<lock, job>>

Return(p, result) ==
  /\ mpc' = [mpc EXCEPT ![p] = result]
  /\ lock' = NoProc
  /\ job' = [job EXCEPT ![p] = NoFile]

WriteInclude(p) ==
  /\ mpc[p] = "include"
  /\ disk' = WithInclude(disk, job[p].data)
  /\ Goto(p, "conf")
  /\ UNCHANGED running

WriteConf(p) ==
  /\ mpc[p] = "conf"
  /\ disk' = WithConf(disk, job[p].data)
  /\ Goto(p, "waf")
  /\ UNCHANGED running

WriteWAF(p) ==
  /\ mpc[p] = "waf"
  /\ LET j == job[p] IN
       /\ disk' = WithWAF(disk, j.data, j.op = "wafonly" \/ j.data.waf)
       /\ Goto(p, IF j.op = "cleanup" THEN "cleanup" ELSE "test")
  /\ UNCHANGED running

\* The old file goes before the test, so that no zone is declared twice.
RemoveOld(p) ==
  /\ mpc[p] = "cleanup"
  /\ disk' = WithoutFile(disk, job[p].old)
  /\ Goto(p, "test")
  /\ UNCHANGED running

RemoveFiles(p) ==
  /\ mpc[p] = "remove"
  /\ disk' = WithoutConfig(disk, job[p].data)
  /\ Goto(p, "test")
  /\ UNCHANGED running

\* Removing a file never fails an operation, writing one does.
Writing(p) ==
  \/ mpc[p] = "include" /\ job[p].data.cloud
  \/ mpc[p] = "conf"
  \/ mpc[p] = "waf" /\ (job[p].op = "wafonly" \/ job[p].data.waf)

\* Mutant of FileError: an early return skips the unlock.
FileError_KeepsLock(p) ==
  /\ FileErrors
  /\ Writing(p)
  /\ Goto(p, "err")
  /\ UNCHANGED <<disk, running>>

\* A write fails: the operation returns at once, leaving what it has written.
FileError(p) ==
  /\ FileErrors
  /\ Writing(p)
  /\ Return(p, "err")
  /\ UNCHANGED <<disk, running>>

HasRollback(op) == op \in {"generate", "cleanup", "wafonly"}

Fail(p) == IF HasRollback(job[p].op) THEN Goto(p, "rollback") ELSE Return(p, "err")

\* Mutant of TestConfig: a reload whatever the test says.
TestConfig_Ignored(p) ==
  /\ mpc[p] = "test"
  /\ Goto(p, "reload")
  /\ UNCHANGED <<disk, running>>

TestConfig(p) ==
  /\ mpc[p] = "test"
  /\ \/ /\ Valid(disk)
        /\ IF job[p].op = "test" THEN Return(p, "ok") ELSE Goto(p, "reload")
     \/ /\ ~Valid(disk) \/ NginxErrors
        /\ Fail(p)
  /\ UNCHANGED <<disk, running>>

\* nginx loads a valid configuration; the command may be reported to have failed
\* all the same, before or after the signal reached nginx.
ReloadNginx(p) ==
  /\ mpc[p] = "reload"
  /\ \/ /\ Valid(disk)
        /\ running' = disk
        /\ Return(p, "ok")
     \/ /\ ~Valid(disk) \/ NginxErrors
        /\ running' \in {running} \cup (IF Valid(disk) THEN {disk} ELSE {})
        /\ Fail(p)
  /\ UNCHANGED disk

\* Mutant of Rollback: the mutex stays locked.
Rollback_KeepsLock(p) ==
  /\ mpc[p] = "rollback"
  /\ disk' = Restored(disk, job[p])
  /\ mpc' = [mpc EXCEPT ![p] = "err"]
  /\ UNCHANGED <<running, lock, job>>

Rollback(p) ==
  /\ mpc[p] = "rollback"
  /\ disk' = Restored(disk, job[p])
  /\ Return(p, "err")
  /\ UNCHANGED running

Step(p) ==
  \/ WriteInclude(p) \/ WriteConf(p) \/ WriteWAF(p) \/ RemoveOld(p) \/ RemoveFiles(p)
  \/ FileError(p) \/ TestConfig(p) \/ ReloadNginx(p) \/ Rollback(p)

ManagerNext ==
  \E p \in Procs :
    \/ \E op \in Ops, x \in Inputs :
         \E old \in IF op = "cleanup" THEN Names \ {x.name} ELSE {x.name} : Call(p, op, x, old)
    \/ Acquire(p)
    \/ Cancel(p)
    \/ Step(p)

\* Commands are bounded by timeouts, and sync.Mutex starves no goroutine.
ManagerFairness ==
  \A p \in Procs : SF_managerVars(Acquire(p)) /\ WF_managerVars(Step(p))

ManagerSpec == ManagerInit /\ [][ManagerNext]_managerVars /\ ManagerFairness

-----------------------------------------------------------------------------
\* Fail-safe: whenever no operation is under way, the files on disk are ones nginx
\* would start with, whatever was rejected before.
FailSafe == lock = NoProc => Valid(disk)

\* DB = nginx, the nginx half: between operations nginx runs what is on disk, so
\* a rejected change leaves no trace in any file.
DiskIsRunning == lock = NoProc => InForce(disk) = InForce(running)

\* A reload is only sent for the very files that were tested.
ReloadIsTested == \A p \in Procs : mpc[p] = "reload" /\ job[p].op # "reload" => Valid(disk)

\* The operations are atomic for whoever is served: the steps of the manager, the rejected
\* changes and their rollbacks implement a configuration that changes by whole operations,
\* where no half of one, and nothing of a rejected one, ever gets into force.
Promise == INSTANCE ServedConfig WITH served <- InForce(running)
ServedAtomically == Promise!Spec

\* Every call returns, whoever else uses the manager.
CallReturns == \A p \in Procs : mpc[p] = "wait" ~> mpc[p] \in {"ok", "err"}
=============================================================================
