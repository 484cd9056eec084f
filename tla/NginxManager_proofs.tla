------------------------ MODULE NginxManager_proofs ------------------------
(***************************************************************************)
(* What is proved of the configuration manager for any number of           *)
(* goroutines, hosts, names and bodies: the mutex, that only tested files  *)
(* are reloaded, that the files nginx would start with survive every       *)
(* rejected change of a host that keeps its name and its cloud-provider    *)
(* blocking, and, where commands report what they did, that nginx runs     *)
(* the files there are and goes from one whole operation to the next.      *)
(***************************************************************************)
EXTENDS NginxManager, TLAPS

LEMMA InitTypeOK == ManagerInit => TypeOK
<1> SUFFICES ASSUME ManagerInit PROVE TypeOK OBVIOUS
<1> USE DEF ManagerInit
<1>1. EmptyDisk \in Disk BY DEF EmptyDisk, Disk
<1>2. \A p \in Procs : mpc[p] = "idle" OBVIOUS
<1>3. \A p \in Procs : mpc[p] \notin Critical \cup {"wait"} BY <1>2 DEF Critical
<1>4. \A p \in Procs : lock # p BY ProcAssumption
<1> QED BY <1>1, <1>2, <1>3, <1>4 DEF TypeOK

\* Whatever an operation writes is a disk again.
LEMMA DiskTypes ==
  ASSUME NEW d \in Disk, NEW x \in Datum
  PROVE  /\ WithInclude(d, x) \in Disk /\ WithConf(d, x) \in Disk
         /\ \A w \in BOOLEAN : WithWAF(d, x, w) \in Disk
         /\ \A n \in Names : WithoutFile(d, n) \in Disk
         /\ WithoutConfig(d, x) \in Disk
BY DEF Disk, Datum, WithInclude, WithConf, WithWAF, WithoutFile, WithoutConfig

LEMMA RestoredTypes ==
  ASSUME NEW d \in Disk, NEW j \in Job
  PROVE  Restored(d, j) \in Disk
<1>1. j.data \in Datum BY InputAssumption DEF Job
<1> USE <1>1 DEF Disk, Job, Datum
<1>2. RestoredGenerate(d, j) \in Disk BY DEF RestoredGenerate
<1>3. RestoredCleanup(d, j) \in Disk BY DEF RestoredCleanup
<1>4. RestoredWAF(d, j) \in Disk BY DEF RestoredWAF
<1> QED BY <1>2, <1>3, <1>4 DEF Restored

\* The data of a job under way, and where its first step is.
LEMMA JobTypes ==
  ASSUME TypeOK, NEW p \in Procs, mpc[p] \in Critical \cup {"wait"}
  PROVE  /\ job[p] \in Job /\ job[p].data \in Datum /\ job[p].op \in Ops
         /\ FirstStep(job[p].op) \in Critical
<1>1. job[p] \in Job BY DEF TypeOK
<1>2. job[p].data \in Datum /\ job[p].op \in Ops BY <1>1, InputAssumption DEF Job
<1>3. FirstStep(job[p].op) \in Critical BY <1>2, OpAssumption DEF FirstStep, Critical
<1> QED BY <1>1, <1>2, <1>3

\* A step that only moves a goroutine from one critical step to another.
LEMMA GotoType ==
  ASSUME TypeOK, NEW p \in Procs, mpc[p] \in Critical, NEW step \in Critical, Goto(p, step),
         disk' \in Disk, running' \in Disk
  PROVE  TypeOK'
<1>1. mpc' = [mpc EXCEPT ![p] = step] /\ UNCHANGED <<lock, job>> BY DEF Goto
<1>2. mpc' \in [Procs -> Critical \cup {"idle", "wait", "ok", "err"}] BY <1>1 DEF TypeOK
<1>3. \A q \in Procs : mpc'[q] \in Critical <=> mpc[q] \in Critical BY <1>1 DEF TypeOK
<1>4. \A q \in Procs : mpc'[q] \in Critical \cup {"wait"} => mpc[q] \in Critical \cup {"wait"}
  BY <1>1 DEF TypeOK
<1> QED BY <1>1, <1>2, <1>3, <1>4 DEF TypeOK

\* A goroutine that returns gives the mutex back.
LEMMA ReturnType ==
  ASSUME TypeOK, NEW p \in Procs, mpc[p] \in Critical, NEW r \in {"ok", "err"}, Return(p, r),
         disk' \in Disk, running' \in Disk
  PROVE  TypeOK'
<1>1. mpc' = [mpc EXCEPT ![p] = r] /\ lock' = NoProc /\ job' = [job EXCEPT ![p] = NoFile]
  BY DEF Return
<1>2. r \notin Critical \cup {"wait"} BY DEF Critical
<1>3. lock = p BY DEF TypeOK
<1>4. \A q \in Procs : mpc'[q] = IF q = p THEN r ELSE mpc[q] BY <1>1 DEF TypeOK
<1>5. \A q \in Procs : q # p => job'[q] = job[q] BY <1>1 DEF TypeOK
<1>6. mpc' \in [Procs -> Critical \cup {"idle", "wait", "ok", "err"}] BY <1>1 DEF TypeOK
<1>7. \A q \in Procs : mpc'[q] \in Critical <=> lock' = q
  BY <1>1, <1>2, <1>3, <1>4, ProcAssumption DEF TypeOK
<1>8. \A q \in Procs : mpc'[q] \in Critical \cup {"wait"} => job'[q] \in Job
  BY <1>2, <1>4, <1>5 DEF TypeOK
<1> QED BY <1>1, <1>6, <1>7, <1>8, ProcAssumption DEF TypeOK

LEMMA TypeStep == TypeOK /\ [ManagerNext]_managerVars => TypeOK'
<1> SUFFICES ASSUME TypeOK, [ManagerNext]_managerVars PROVE TypeOK'
  OBVIOUS
<1>1. ASSUME NEW p \in Procs, NEW op \in Ops, NEW x \in Inputs, NEW old \in Names,
             Call(p, op, x, old)
      PROVE  TypeOK'
  <2> DEFINE j == [op |-> op, data |-> x, old |-> old,
                   savedConf |-> NoFile, savedOld |-> NoFile, savedWaf |-> NoFile]
  <2>1. j \in Job BY DEF Job
  <2>2. /\ mpc' = [mpc EXCEPT ![p] = "wait"] /\ job' = [job EXCEPT ![p] = j]
        /\ mpc[p] \notin Critical /\ UNCHANGED <<disk, running, lock>>
    BY <1>1 DEF Call, Critical
  <2>3. "wait" \notin Critical BY DEF Critical
  <2>4. \A q \in Procs : mpc'[q] \in Critical <=> mpc[q] \in Critical BY <2>2, <2>3 DEF TypeOK
  <2>5. \A q \in Procs : mpc'[q] \in Critical \cup {"wait"} => job'[q] \in Job
    BY <2>1, <2>2 DEF TypeOK
  <2>6. mpc' \in [Procs -> Critical \cup {"idle", "wait", "ok", "err"}] BY <2>2 DEF TypeOK
  <2> QED BY <2>2, <2>4, <2>5, <2>6 DEF TypeOK
<1>2. ASSUME NEW p \in Procs, Acquire(p) PROVE TypeOK'
  <2> DEFINE step == FirstStep(job[p].op)
             k == [job[p] EXCEPT !.savedConf = disk.conf[job[p].data.name],
                                 !.savedOld = disk.conf[job[p].old],
                                 !.savedWaf = disk.waf[job[p].data.host]]
  <2>1. mpc[p] = "wait" /\ lock = NoProc /\ lock' = p /\ UNCHANGED <<disk, running>>
    BY <1>2 DEF Acquire
  <2>2. job[p] \in Job /\ job[p].data \in Datum /\ step \in Critical BY <2>1, JobTypes
  <2>3. k \in Job BY <2>2 DEF Job, Datum, TypeOK, Disk
  <2>4. mpc' = [mpc EXCEPT ![p] = step] BY <1>2 DEF Acquire
  <2>5. job' = [job EXCEPT ![p] = k] BY <1>2, <2>2, <2>3 DEF Acquire, TypeOK, Job
  <2> HIDE DEF step, k
  <2>6. mpc' \in [Procs -> Critical \cup {"idle", "wait", "ok", "err"}]
    BY <2>2, <2>4 DEF TypeOK
  <2>7. \A q \in Procs : mpc'[q] \in Critical <=> lock' = q
    BY <2>1, <2>2, <2>4, ProcAssumption DEF TypeOK
  <2>8. \A q \in Procs : mpc'[q] \in Critical \cup {"wait"} => job'[q] \in Job
    BY <2>3, <2>4, <2>5 DEF TypeOK
  <2> QED BY <2>1, <2>5, <2>6, <2>7, <2>8 DEF TypeOK
<1>3. ASSUME NEW p \in Procs, Cancel(p) PROVE TypeOK'
  <2>1. mpc[p] = "wait" /\ mpc' = [mpc EXCEPT ![p] = "err"] /\ job' = [job EXCEPT ![p] = NoFile]
        /\ UNCHANGED <<disk, running, lock>>
    BY <1>3 DEF Cancel
  <2>2. {"wait", "err"} \cap Critical = {} BY DEF Critical
  <2>3. \A q \in Procs : mpc'[q] \in Critical <=> mpc[q] \in Critical BY <2>1, <2>2 DEF TypeOK
  <2>4. \A q \in Procs : mpc'[q] \in Critical \cup {"wait"} => job'[q] \in Job
    BY <2>1, <2>2 DEF TypeOK
  <2> QED BY <2>1, <2>3, <2>4 DEF TypeOK
<1>4. ASSUME NEW p \in Procs, Step(p) PROVE TypeOK'
  <2>1. mpc[p] \in Critical
    BY <1>4 DEF Step, WriteInclude, WriteConf, WriteWAF, RemoveOld, RemoveFiles, FileError, Writing,
                TestConfig, ReloadNginx, Rollback, Critical
  <2>2. job[p] \in Job /\ job[p].data \in Datum BY <2>1, JobTypes
  <2>3. disk \in Disk /\ running \in Disk BY DEF TypeOK
  <2>4. {"conf", "waf", "cleanup", "test", "reload", "rollback"} \subseteq Critical
    BY DEF Critical
  <2>5. CASE WriteInclude(p)
    BY <2>1, <2>2, <2>3, <2>4, <2>5, DiskTypes, GotoType DEF WriteInclude
  <2>6. CASE WriteConf(p)
    BY <2>1, <2>2, <2>3, <2>4, <2>6, DiskTypes, GotoType DEF WriteConf
  <2>7. CASE WriteWAF(p)
    <3>1. (job[p].op = "wafonly" \/ job[p].data.waf) \in BOOLEAN BY <2>2 DEF Datum
    <3>2. disk' \in Disk BY <2>2, <2>3, <2>7, <3>1, DiskTypes DEF WriteWAF
    <3> QED BY <2>1, <2>3, <2>4, <2>7, <3>2, GotoType DEF WriteWAF
  <2>8. CASE RemoveOld(p)
    <3>1. job[p].old \in Names BY <2>2 DEF Job
    <3>2. disk' \in Disk BY <2>2, <2>3, <2>8, <3>1, DiskTypes DEF RemoveOld
    <3> QED BY <2>1, <2>3, <2>4, <2>8, <3>2, GotoType DEF RemoveOld
  <2>9. CASE RemoveFiles(p)
    <3>1. job[p].data.name \in Names BY <2>2 DEF Datum
    <3>2. disk' \in Disk BY <2>2, <2>3, <2>9, <3>1, DiskTypes DEF RemoveFiles
    <3> QED BY <2>1, <2>3, <2>4, <2>9, <3>2, GotoType DEF RemoveFiles
  <2>10. CASE FileError(p) BY <2>1, <2>3, <2>10, ReturnType DEF FileError, Writing
  <2>11. CASE TestConfig(p)
    BY <2>1, <2>3, <2>4, <2>11, ReturnType, GotoType DEF TestConfig, Fail
  <2>12. CASE ReloadNginx(p)
    BY <2>1, <2>3, <2>4, <2>12, ReturnType, GotoType DEF ReloadNginx, Fail
  <2>13. CASE Rollback(p)
    <3>1. disk' \in Disk BY <2>2, <2>3, <2>13, RestoredTypes DEF Rollback
    <3> QED BY <2>1, <2>3, <2>13, <3>1, ReturnType DEF Rollback
  <2> QED BY <1>4, <2>5, <2>6, <2>7, <2>8, <2>9, <2>10, <2>11, <2>12, <2>13 DEF Step
<1>5. CASE UNCHANGED managerVars BY <1>5 DEF managerVars, TypeOK
<1>6. ASSUME NEW op \in Ops, NEW x \in Inputs
      PROVE  (IF op = "cleanup" THEN Names \ {x.name} ELSE {x.name}) \subseteq Names
  BY InputAssumption DEF Datum
<1> QED BY <1>1, <1>2, <1>3, <1>4, <1>5, <1>6 DEF ManagerNext

\* The types, and mutual exclusion: at most one goroutine is inside executeWithLock.
THEOREM TypeCorrect == ManagerSpec => []TypeOK
BY InitTypeOK, TypeStep, PTL DEF ManagerSpec

-----------------------------------------------------------------------------
(* Only tested files are reloaded. *)

\* What a step of p leaves alone: no other goroutine is in a critical section.
LEMMA OthersWait ==
  ASSUME TypeOK, NEW p \in Procs, Step(p), NEW q \in Procs, q # p
  PROVE  mpc[q] \notin Critical /\ mpc'[q] = mpc[q] /\ job'[q] = job[q]
<1>1. mpc[p] \in Critical
  BY DEF Step, WriteInclude, WriteConf, WriteWAF, RemoveOld, RemoveFiles, FileError, Writing,
         TestConfig, ReloadNginx, Rollback, Critical
<1>2. mpc[q] \notin Critical BY <1>1 DEF TypeOK
<1>3. mpc'[q] = mpc[q] /\ job'[q] = job[q]
  <2> USE DEF Goto, Return, TypeOK
  <2>1. CASE WriteInclude(p) \/ WriteConf(p) \/ RemoveOld(p) \/ RemoveFiles(p)
    BY <2>1 DEF WriteInclude, WriteConf, RemoveOld, RemoveFiles
  <2>2. CASE WriteWAF(p) BY <2>2 DEF WriteWAF
  <2>3. CASE FileError(p) \/ Rollback(p) BY <2>3 DEF FileError, Writing, Rollback
  <2>4. CASE TestConfig(p) BY <2>4 DEF TestConfig, Fail
  <2>5. CASE ReloadNginx(p) BY <2>5 DEF ReloadNginx, Fail
  <2> QED BY <2>1, <2>2, <2>3, <2>4, <2>5 DEF Step
<1> QED BY <1>2, <1>3

LEMMA TestedStep == TypeOK /\ ReloadIsTested /\ [ManagerNext]_managerVars => ReloadIsTested'
<1> SUFFICES ASSUME TypeOK, ReloadIsTested, [ManagerNext]_managerVars,
                    NEW r \in Procs, mpc'[r] = "reload", job'[r].op # "reload"
             PROVE  Valid(disk)'
  BY DEF ReloadIsTested
<1>1. ASSUME mpc[r] = "reload", job'[r] = job[r], disk' = disk PROVE Valid(disk)'
  BY <1>1 DEF ReloadIsTested, Valid
<1>2. ASSUME NEW p \in Procs, NEW op \in Ops, NEW x \in Inputs, NEW old, Call(p, op, x, old)
      PROVE  Valid(disk)'
  <2>1. r # p BY <1>2 DEF Call, TypeOK
  <2> QED BY <1>1, <1>2, <2>1 DEF Call, TypeOK
<1>3. ASSUME NEW p \in Procs, Acquire(p) PROVE Valid(disk)'
  <2>1. mpc[p] = "wait" /\ mpc' = [mpc EXCEPT ![p] = FirstStep(job[p].op)] /\ disk' = disk
    BY <1>3 DEF Acquire
  <2>2. CASE r = p
    <3>1. job[p] \in Job /\ job[p].op \in Ops BY <2>1, JobTypes
    <3>2. FirstStep(job[p].op) = "reload" BY <2>1, <2>2 DEF TypeOK
    <3>3. job[p].op = "reload" BY <3>1, <3>2, OpAssumption DEF FirstStep
    <3>4. job'[p].op = job[p].op BY <1>3, <3>1 DEF Acquire, TypeOK, Job
    <3> QED BY <2>2, <3>3, <3>4
  <2>3. CASE r # p
    <3>1. mpc'[r] = mpc[r] BY <2>1, <2>3 DEF TypeOK
    <3>2. job'[r] = job[r] BY <1>3, <2>3 DEF Acquire, TypeOK
    <3> QED BY <1>1, <2>1, <3>1, <3>2
  <2> QED BY <2>2, <2>3
<1>4. ASSUME NEW p \in Procs, Cancel(p) PROVE Valid(disk)'
  <2>1. r # p BY <1>4 DEF Cancel, TypeOK
  <2> QED BY <1>1, <1>4, <2>1 DEF Cancel, TypeOK
<1>5. ASSUME NEW p \in Procs, Step(p) PROVE Valid(disk)'
  <2>1. r = p BY <1>5, OthersWait DEF Critical
  <2>2. TestConfig(p)
    BY <1>5, <2>1 DEF Step, WriteInclude, WriteConf, WriteWAF, RemoveOld, RemoveFiles, FileError,
                      Writing, TestConfig, ReloadNginx, Rollback, Fail, Goto, Return, TypeOK
  <2>3. disk' = disk /\ Valid(disk) BY <2>1, <2>2 DEF TestConfig, Fail, Goto, Return, TypeOK
  <2> QED BY <2>3 DEF Valid
<1>6. CASE UNCHANGED managerVars BY <1>1, <1>6 DEF managerVars
<1> QED BY <1>2, <1>3, <1>4, <1>5, <1>6 DEF ManagerNext

\* nginx is only sent a reload, by an operation that tests, for the files it tested:
\* nobody writes between testConfigInternal and reloadNginxInternal.
THEOREM TestedFirst == ManagerSpec => []ReloadIsTested
<1>1. ManagerInit => ReloadIsTested BY DEF ManagerInit, ReloadIsTested
<1> QED BY <1>1, InitTypeOK, TypeStep, TestedStep, PTL DEF ManagerSpec

-----------------------------------------------------------------------------
(* The files nginx would start with. *)

\* A host keeps its name and its cloud-provider blocking, no write fails, and no
\* operation renames.  Without the first MCManagerCloud violates FailSafe; without the
\* last a host that has no old file keeps the one nginx rejected.
Settled ==
  /\ ~FileErrors
  /\ "cleanup" \notin Ops
  /\ \A x, y \in Inputs : x.host = y.host => x.name = y.name /\ x.cloud = y.cloud

\* The configurations of a disk are what callers asked for, under their own names.
AreInputs(d) == \A n \in Names : d.conf[n] # NoFile => d.conf[n] \in Inputs /\ d.conf[n].name = n

\* Which operations take a step.
OpAt(p) ==
  /\ mpc[p] \in {"include", "conf"} => job[p].op = "generate"
  /\ mpc[p] = "waf" => job[p].op \in {"generate", "wafonly"}
  /\ mpc[p] = "remove" => job[p].op = "remove"
  /\ mpc[p] # "cleanup"

BackupIsInput(p) ==
  job[p].savedConf # NoFile => job[p].savedConf \in Inputs /\ job[p].savedConf.name = job[p].data.name

\* Whatever an operation has done so far, its rollback gives files nginx starts with.
CanGoBack(p) == Valid(Restored(disk, job[p]))

Holds(p) == mpc[p] \in Critical => OpAt(p) /\ BackupIsInput(p) /\ CanGoBack(p)

SafeInv == AreInputs(disk) /\ FailSafe /\ \A p \in Procs : Holds(p)

\* Valid only looks at the files.
LEMMA SameFiles ==
  ASSUME NEW d, NEW e, Valid(d),
         \A n \in Names : e.conf[n] = d.conf[n],
         \A n \in Names : d.conf[n] # NoFile => d.conf[n].host \in Hosts,
         \A h \in Hosts : e.waf[h] = d.waf[h] /\ e.cloud[h] = d.cloud[h]
  PROVE  Valid(e)
BY DEF Valid

LEMMA InputHosts ==
  ASSUME NEW d, AreInputs(d)
  PROVE  \A n \in Names : d.conf[n] # NoFile => d.conf[n].host \in Hosts
BY InputAssumption DEF AreInputs, Datum

LEMMA IncludeKeepsValid ==
  ASSUME Settled, NEW d \in Disk, NEW x \in Inputs, AreInputs(d), Valid(d)
  PROVE  Valid(WithInclude(d, x)) /\ AreInputs(WithInclude(d, x))
<1> DEFINE e == WithInclude(d, x)
<1>1. x \in Datum /\ \A n \in Names : d.conf[n] # NoFile => d.conf[n].host \in Hosts
  BY InputHosts, InputAssumption
<1>2. /\ \A n \in Names : e.conf[n] = d.conf[n]
      /\ \A h \in Hosts : e.waf[h] = d.waf[h]
      /\ \A h \in Hosts : e.cloud[h] = IF h = x.host THEN x.cloud ELSE d.cloud[h]
  BY <1>1 DEF WithInclude, Disk, Datum
<1>3. \A n \in Names : d.conf[n] # NoFile /\ d.conf[n].host = x.host => d.conf[n].cloud = x.cloud
  BY DEF Settled, AreInputs
<1> HIDE DEF e
<1>4. Valid(e) BY <1>1, <1>2, <1>3 DEF Valid
<1>5. AreInputs(e) BY <1>2 DEF AreInputs
<1> QED BY <1>4, <1>5 DEF e

LEMMA RemovalKeepsValid ==
  ASSUME Settled, NEW d \in Disk, NEW x \in Inputs, AreInputs(d), Valid(d)
  PROVE  Valid(WithoutConfig(d, x)) /\ AreInputs(WithoutConfig(d, x))
<1> DEFINE e == WithoutConfig(d, x)
<1>1. x \in Datum /\ \A n \in Names : d.conf[n] # NoFile => d.conf[n].host \in Hosts
  BY InputHosts, InputAssumption
<1>2. /\ \A n \in Names : e.conf[n] = IF n = x.name THEN NoFile ELSE d.conf[n]
      /\ \A h \in Hosts : h # x.host => e.waf[h] = d.waf[h] /\ e.cloud[h] = d.cloud[h]
  BY <1>1 DEF WithoutConfig, Disk, Datum
<1>3. \A n \in Names : d.conf[n] # NoFile /\ d.conf[n].host = x.host => n = x.name
  BY DEF Settled, AreInputs
<1> HIDE DEF e
<1>4. Valid(e) BY <1>1, <1>2, <1>3 DEF Valid
<1>5. AreInputs(e) BY <1>2 DEF AreInputs
<1> QED BY <1>4, <1>5 DEF e

\* What the rollback of each operation gives, file by file.
LEMMA RestoredFiles ==
  ASSUME NEW d \in Disk, NEW j \in Job, j.op # "cleanup"
  PROVE  LET r == Restored(d, j) IN
           /\ \A n \in Names : r.conf[n] = IF j.op = "generate" /\ n = j.data.name
                                           THEN j.savedConf ELSE d.conf[n]
           /\ \A h \in Hosts : r.waf[h] = IF j.op \in {"generate", "wafonly"} /\ h = j.data.host
                                          THEN j.savedWaf ELSE d.waf[h]
           /\ \A h \in Hosts : r.cloud[h] = d.cloud[h]
<1>1. j.data \in Datum BY InputAssumption DEF Job
<1>2. CASE j.op = "generate"
  <2>1. Restored(d, j) = RestoredGenerate(d, j) BY <1>2 DEF Restored
  <2> QED BY <1>1, <1>2, <2>1 DEF RestoredGenerate, Disk, Datum
<1>3. CASE j.op = "wafonly"
  <2>1. Restored(d, j) = RestoredWAF(d, j) BY <1>3 DEF Restored
  <2> QED BY <1>1, <1>3, <2>1 DEF RestoredWAF, Disk, Datum
<1>4. CASE j.op \notin {"generate", "wafonly"}
  <2>1. Restored(d, j) = d BY <1>4 DEF Restored
  <2> QED BY <1>4, <2>1
<1> QED BY <1>2, <1>3, <1>4

\* What is left to show of a step that stays in the critical section, and of one that
\* leaves it.
LEMMA SafeGoto ==
  ASSUME TypeOK, SafeInv, NEW p \in Procs, mpc[p] \in Critical, Step(p),
         NEW s \in Critical, Goto(p, s),
         AreInputs(disk)', OpAt(p)', CanGoBack(p)'
  PROVE  SafeInv'
<1>1. job' = job /\ lock' = lock /\ lock = p BY DEF Goto, TypeOK
<1>2. \A q \in Procs \ {p} : mpc'[q] \notin Critical BY OthersWait
<1>3. BackupIsInput(p)' BY <1>1 DEF BackupIsInput, SafeInv, Holds
<1>4. FailSafe' BY <1>1, ProcAssumption DEF FailSafe
<1> QED BY <1>2, <1>3, <1>4 DEF SafeInv, Holds

LEMMA SafeReturn ==
  ASSUME TypeOK, SafeInv, NEW p \in Procs, mpc[p] \in Critical, Step(p),
         NEW r \in {"ok", "err"}, Return(p, r), AreInputs(disk)', Valid(disk)'
  PROVE  SafeInv'
<1>1. mpc'[p] \notin Critical BY DEF Return, TypeOK, Critical
<1>2. \A q \in Procs \ {p} : mpc'[q] \notin Critical BY OthersWait
<1>3. FailSafe' BY DEF FailSafe
<1> QED BY <1>1, <1>2, <1>3 DEF SafeInv, Holds

LEMMA SafeStepOf ==
  ASSUME Settled, TypeOK, SafeInv, NEW p \in Procs, Step(p)
  PROVE  SafeInv'
<1> DEFINE j == job[p]  x == job[p].data
<1>1. mpc[p] \in Critical
  BY DEF Step, WriteInclude, WriteConf, WriteWAF, RemoveOld, RemoveFiles, FileError, Writing,
         TestConfig, ReloadNginx, Rollback, Critical
<1>2. j \in Job /\ x \in Datum /\ j.op \in Ops /\ j.op # "cleanup"
  BY <1>1, JobTypes DEF Settled
<1>3. x \in Inputs BY <1>2 DEF Job
<1>4. disk \in Disk /\ AreInputs(disk) BY DEF TypeOK, SafeInv
<1>5. OpAt(p) /\ BackupIsInput(p) /\ CanGoBack(p) BY <1>1 DEF SafeInv, Holds
<1>6. {"conf", "waf", "cleanup", "test", "reload", "rollback"} \subseteq Critical BY DEF Critical
<1>7. ASSUME NEW s, Goto(p, s) PROVE mpc'[p] = s /\ job' = job BY <1>7 DEF Goto, TypeOK
<1> DEFINE R == Restored(disk, j)  S == Restored(disk', j)
<1>8. R \in Disk /\ Valid(R) /\ \A n \in Names : R.conf[n] # NoFile => R.conf[n].host \in Hosts
  <2>1. R \in Disk /\ Valid(R) BY <1>2, <1>4, <1>5, RestoredTypes DEF CanGoBack
  <2>2. AreInputs(R) BY <1>2, <1>4, <1>5, RestoredFiles DEF AreInputs, BackupIsInput
  <2> QED BY <2>1, <2>2, InputHosts
<1>9. AreInputs(R) BY <1>2, <1>4, <1>5, RestoredFiles DEF AreInputs, BackupIsInput
<1> HIDE DEF R, S
<1>10. CASE WriteInclude(p)
  <2>1. disk' = WithInclude(disk, x) /\ j.op = "generate" BY <1>5, <1>10 DEF WriteInclude, OpAt
  <2>2. disk' \in Disk BY <2>1, <1>2, <1>4, DiskTypes
  <2> DEFINE e == WithInclude(R, x)
  <2>3. Valid(e) /\ AreInputs(e) BY <1>3, <1>8, <1>9, IncludeKeepsValid
  <2>4. /\ \A n \in Names : e.conf[n] = R.conf[n]
        /\ \A h \in Hosts : e.waf[h] = R.waf[h]
        /\ \A h \in Hosts : e.cloud[h] = IF h = x.host THEN x.cloud ELSE R.cloud[h]
    BY <1>2, <1>8 DEF WithInclude, Disk, Datum
  <2>5. /\ \A n \in Names : disk'.conf[n] = disk.conf[n]
        /\ \A h \in Hosts : disk'.waf[h] = disk.waf[h]
        /\ \A h \in Hosts : disk'.cloud[h] = IF h = x.host THEN x.cloud ELSE disk.cloud[h]
    BY <2>1, <1>2, <1>4 DEF WithInclude, Disk, Datum
  <2> HIDE DEF e
  <2>6. /\ \A n \in Names : S.conf[n] = e.conf[n]
        /\ \A h \in Hosts : S.waf[h] = e.waf[h] /\ S.cloud[h] = e.cloud[h]
    BY <2>2, <2>4, <2>5, <1>2, <1>4, RestoredFiles DEF R, S
  <2>7. Valid(S) BY <2>3, <2>6, InputHosts, SameFiles
  <2>8. AreInputs(disk') BY <2>5, <1>4 DEF AreInputs
  <2>9. Goto(p, "conf") BY <1>10 DEF WriteInclude
  <2>10. OpAt(p)' BY <2>1, <2>9, <1>7 DEF OpAt
  <2>11. CanGoBack(p)' BY <2>7, <2>9, <1>7 DEF CanGoBack, S
  <2> QED BY <2>8, <2>9, <2>10, <2>11, <1>1, <1>6, SafeGoto DEF AreInputs
<1>11. CASE WriteConf(p)
  <2>1. disk' = WithConf(disk, x) /\ j.op = "generate" BY <1>5, <1>11 DEF WriteConf, OpAt
  <2>2. disk' \in Disk BY <2>1, <1>2, <1>4, DiskTypes
  <2>3. /\ \A n \in Names : disk'.conf[n] = IF n = x.name THEN x ELSE disk.conf[n]
        /\ \A h \in Hosts : disk'.waf[h] = disk.waf[h] /\ disk'.cloud[h] = disk.cloud[h]
    BY <2>1, <1>2, <1>4 DEF WithConf, Disk, Datum
  <2>4. /\ \A n \in Names : S.conf[n] = R.conf[n]
        /\ \A h \in Hosts : S.waf[h] = R.waf[h] /\ S.cloud[h] = R.cloud[h]
    BY <2>1, <2>2, <2>3, <1>2, <1>4, RestoredFiles DEF R, S
  <2>5. Valid(S) BY <2>4, <1>8, SameFiles
  <2>6. AreInputs(disk') BY <2>3, <1>3, <1>4 DEF AreInputs
  <2>7. Goto(p, "waf") BY <1>11 DEF WriteConf
  <2>8. OpAt(p)' BY <2>1, <2>7, <1>7 DEF OpAt
  <2>9. CanGoBack(p)' BY <2>5, <2>7, <1>7 DEF CanGoBack, S
  <2> QED BY <2>6, <2>7, <2>8, <2>9, <1>1, <1>6, SafeGoto DEF AreInputs
<1>12. CASE WriteWAF(p)
  <2> DEFINE w == j.op = "wafonly" \/ x.waf
  <2>1. disk' = WithWAF(disk, x, w) /\ j.op \in {"generate", "wafonly"}
    BY <1>5, <1>12 DEF WriteWAF, OpAt
  <2>2. w \in BOOLEAN BY <1>2 DEF Datum
  <2>3. disk' \in Disk BY <2>1, <2>2, <1>2, <1>4, DiskTypes
  <2>4. /\ \A n \in Names : disk'.conf[n] = disk.conf[n]
        /\ \A h \in Hosts : h # x.host => disk'.waf[h] = disk.waf[h]
        /\ \A h \in Hosts : disk'.cloud[h] = disk.cloud[h]
    BY <2>1, <1>2, <1>4 DEF WithWAF, Disk, Datum
  <2>5. /\ \A n \in Names : S.conf[n] = R.conf[n]
        /\ \A h \in Hosts : S.waf[h] = R.waf[h] /\ S.cloud[h] = R.cloud[h]
    <3>1. j.op \in {"generate", "wafonly"} /\ j.op # "cleanup" BY <2>1
    <3>2. /\ \A n \in Names : R.conf[n] = IF j.op = "generate" /\ n = x.name THEN j.savedConf ELSE disk.conf[n]
          /\ \A h \in Hosts : /\ R.waf[h] = IF h = x.host THEN j.savedWaf ELSE disk.waf[h]
                              /\ R.cloud[h] = disk.cloud[h]
      BY <3>1, <1>2, <1>4, RestoredFiles DEF R
    <3>3. /\ \A n \in Names : S.conf[n] = IF j.op = "generate" /\ n = x.name THEN j.savedConf ELSE disk'.conf[n]
          /\ \A h \in Hosts : /\ S.waf[h] = IF h = x.host THEN j.savedWaf ELSE disk'.waf[h]
                              /\ S.cloud[h] = disk'.cloud[h]
      BY <3>1, <2>3, <1>2, <1>4, RestoredFiles DEF S
    <3> QED BY <3>2, <3>3, <2>4
  <2>6. Valid(S) BY <2>5, <1>8, SameFiles
  <2>7. AreInputs(disk') BY <2>4, <1>4 DEF AreInputs
  <2>8. Goto(p, "test") BY <2>1, <1>12 DEF WriteWAF
  <2>9. OpAt(p)' BY <2>8, <1>7 DEF OpAt
  <2>10. CanGoBack(p)' BY <2>6, <2>8, <1>7 DEF CanGoBack, S
  <2> QED BY <2>7, <2>8, <2>9, <2>10, <1>1, <1>6, SafeGoto DEF AreInputs
<1>13. CASE RemoveFiles(p)
  <2>1. disk' = WithoutConfig(disk, x) /\ j.op = "remove" BY <1>5, <1>13 DEF RemoveFiles, OpAt
  <2>2. R = disk /\ S = disk' BY <2>1 DEF R, S, Restored
  <2>3. Valid(disk') /\ AreInputs(disk')
    BY <2>1, <2>2, <1>3, <1>4, <1>8, RemovalKeepsValid
  <2>4. Goto(p, "test") BY <1>13 DEF RemoveFiles
  <2>5. OpAt(p)' BY <2>4, <1>7 DEF OpAt
  <2>6. CanGoBack(p)' BY <2>2, <2>3, <2>4, <1>7 DEF CanGoBack, S
  <2> QED BY <2>3, <2>4, <2>5, <2>6, <1>1, <1>6, SafeGoto DEF AreInputs
<1>14. ASSUME disk' = disk, Fail(p) PROVE SafeInv'
  <2>1. AreInputs(disk)' BY <1>4, <1>14 DEF AreInputs
  <2>2. CASE HasRollback(j.op)
    <3>1. Goto(p, "rollback") BY <2>2, <1>14 DEF Fail
    <3>2. OpAt(p)' BY <3>1, <1>7 DEF OpAt
    <3>3. CanGoBack(p)' BY <3>1, <1>5, <1>7, <1>14 DEF CanGoBack
    <3> QED BY <2>1, <3>1, <3>2, <3>3, <1>1, <1>6, SafeGoto
  <2>3. CASE ~HasRollback(j.op)
    <3>1. R = disk BY <2>3, <1>2 DEF R, Restored, HasRollback
    <3>2. Valid(disk)' BY <3>1, <1>8, <1>14 DEF Valid
    <3>3. Return(p, "err") BY <2>3, <1>14 DEF Fail
    <3> QED BY <2>1, <3>2, <3>3, <1>1, SafeReturn
  <2> QED BY <2>2, <2>3
<1>15. CASE TestConfig(p)
  <2>1. disk' = disk BY <1>15 DEF TestConfig
  <2>2. AreInputs(disk)' BY <2>1, <1>4 DEF AreInputs
  <2>3. CASE Valid(disk) /\ Return(p, "ok")
    BY <2>1, <2>2, <2>3, <1>1, SafeReturn DEF Valid
  <2>4. CASE Goto(p, "reload")
    <3>1. OpAt(p)' BY <2>4, <1>7 DEF OpAt
    <3>2. CanGoBack(p)' BY <2>1, <2>4, <1>5, <1>7 DEF CanGoBack
    <3> QED BY <2>2, <2>4, <3>1, <3>2, <1>1, <1>6, SafeGoto
  <2> QED BY <2>1, <2>3, <2>4, <1>14, <1>15 DEF TestConfig
<1>16. CASE ReloadNginx(p)
  <2>1. disk' = disk BY <1>16 DEF ReloadNginx
  <2>2. AreInputs(disk)' BY <2>1, <1>4 DEF AreInputs
  <2>3. CASE Valid(disk) /\ Return(p, "ok")
    BY <2>1, <2>2, <2>3, <1>1, SafeReturn DEF Valid
  <2> QED BY <2>1, <2>3, <1>14, <1>16 DEF ReloadNginx
<1>17. CASE Rollback(p)
  <2>1. disk' = R /\ Return(p, "err") BY <1>17 DEF Rollback, R
  <2>2. AreInputs(disk)' BY <2>1, <1>9 DEF AreInputs
  <2>3. Valid(disk)' BY <2>1, <1>8 DEF Valid
  <2> QED BY <2>1, <2>2, <2>3, <1>1, SafeReturn
<1>18. ~RemoveOld(p) /\ ~FileError(p) BY <1>5 DEF OpAt, RemoveOld, FileError, Settled
<1> QED BY <1>10, <1>11, <1>12, <1>13, <1>15, <1>16, <1>17, <1>18 DEF Step

LEMMA SafeStep == Settled /\ TypeOK /\ SafeInv /\ [ManagerNext]_managerVars => SafeInv'
<1> SUFFICES ASSUME Settled, TypeOK, SafeInv, [ManagerNext]_managerVars PROVE SafeInv'
  OBVIOUS
<1>1. ASSUME disk' = disk, lock' = lock,
             \A q \in Procs : mpc'[q] \in Critical => mpc'[q] = mpc[q] /\ job'[q] = job[q]
      PROVE  SafeInv'
  <2>1. AreInputs(disk)' /\ FailSafe' BY <1>1 DEF SafeInv, AreInputs, FailSafe, Valid
  <2>2. \A q \in Procs : Holds(q)'
    BY <1>1 DEF SafeInv, Holds, OpAt, BackupIsInput, CanGoBack
  <2> QED BY <2>1, <2>2 DEF SafeInv
<1>2. ASSUME NEW p \in Procs, NEW op \in Ops, NEW x \in Inputs, NEW old, Call(p, op, x, old)
      PROVE  SafeInv'
  BY <1>1, <1>2 DEF Call, TypeOK, Critical
<1>3. ASSUME NEW p \in Procs, Cancel(p) PROVE SafeInv'
  BY <1>1, <1>3 DEF Cancel, TypeOK, Critical
<1>4. ASSUME NEW p \in Procs, Acquire(p) PROVE SafeInv'
  <2> DEFINE j == job[p]  k == job'[p]
  <2>1. mpc[p] = "wait" /\ lock = NoProc /\ lock' = p /\ disk' = disk
    BY <1>4 DEF Acquire
  <2>2. j \in Job /\ j.data \in Datum /\ j.op \in Ops BY <2>1, JobTypes
  <2>3. Valid(disk) /\ AreInputs(disk) /\ disk \in Disk BY <2>1 DEF SafeInv, FailSafe, TypeOK
  <2>4. \A q \in Procs \ {p} : mpc'[q] \notin Critical
    BY <1>4, <2>1, ProcAssumption DEF Acquire, TypeOK
  <2>5. mpc'[p] = FirstStep(j.op) BY <1>4 DEF Acquire, TypeOK
  <2>6. k = [j EXCEPT !.savedConf = disk.conf[j.data.name], !.savedOld = disk.conf[j.old],
                      !.savedWaf = disk.waf[j.data.host]]
    BY <1>4, <2>2 DEF Acquire, TypeOK, Job
  <2> HIDE DEF k
  <2>7. /\ k \in Job /\ k.op = j.op /\ k.data = j.data
        /\ k.savedConf = disk.conf[j.data.name] /\ k.savedWaf = disk.waf[j.data.host]
    <3>1. j.old \in Names /\ j.data \in Inputs BY <2>2 DEF Job
    <3>2. /\ disk.conf[j.data.name] \in Datum \cup {NoFile}
          /\ disk.conf[j.old] \in Datum \cup {NoFile}
          /\ disk.waf[j.data.host] \in Bodies \cup {NoFile}
      BY <2>2, <2>3, <3>1 DEF Disk, Datum
    <3> QED BY <2>2, <2>6, <3>1, <3>2 DEF Job
  <2>8. OpAt(p)'
    <3>1. k.op # "cleanup" BY <2>2, <2>7 DEF Settled
    <3> QED BY <2>2, <2>5, <2>7, <3>1, OpAssumption DEF OpAt, FirstStep, k
  <2>9. BackupIsInput(p)' BY <2>2, <2>3, <2>7 DEF BackupIsInput, AreInputs, Datum, k
  <2>10. CanGoBack(p)'
    <3> DEFINE e == Restored(disk, k)
    <3>1. k.op # "cleanup" BY <2>2, <2>7 DEF Settled
    <3>2. /\ \A n \in Names : e.conf[n] = disk.conf[n]
          /\ \A h \in Hosts : e.waf[h] = disk.waf[h] /\ e.cloud[h] = disk.cloud[h]
      BY <2>3, <2>7, <3>1, RestoredFiles
    <3> HIDE DEF e
    <3>3. Valid(e) BY <2>3, <3>2, InputHosts, SameFiles
    <3> QED BY <2>1, <3>3 DEF CanGoBack, k, e
  <2>11. FailSafe' BY <2>1, ProcAssumption DEF FailSafe
  <2>12. AreInputs(disk)' BY <2>1, <2>3 DEF AreInputs
  <2> QED BY <2>4, <2>8, <2>9, <2>10, <2>11, <2>12 DEF SafeInv, Holds
<1>5. ASSUME NEW p \in Procs, Step(p) PROVE SafeInv' BY <1>5, SafeStepOf
<1>6. CASE UNCHANGED managerVars BY <1>1, <1>6 DEF managerVars
<1> QED BY <1>2, <1>3, <1>4, <1>5, <1>6 DEF ManagerNext

LEMMA InitSafe == ManagerInit => SafeInv
<1> SUFFICES ASSUME ManagerInit PROVE SafeInv OBVIOUS
<1>1. \A n \in Names : disk.conf[n] = NoFile BY DEF ManagerInit, EmptyDisk
<1>2. AreInputs(disk) /\ FailSafe BY <1>1 DEF AreInputs, FailSafe, Valid
<1>3. \A p \in Procs : mpc[p] \notin Critical BY DEF ManagerInit, Critical
<1> QED BY <1>2, <1>3 DEF SafeInv, Holds

\* Fail-safe: as long as hosts keep their names and their cloud-provider blocking, no
\* sequence of generations, WAF changes, removals, failed tests and failed reloads, by
\* any number of goroutines, leaves files nginx would not start with.
THEOREM StaysValid == Settled => (ManagerSpec => []FailSafe)
<1> SUFFICES ASSUME Settled PROVE ManagerSpec => []FailSafe
  OBVIOUS
<1>1. TypeOK /\ SafeInv /\ [ManagerNext]_managerVars => SafeInv' BY SafeStep
<1>2. SafeInv => FailSafe BY DEF SafeInv
<1> QED BY <1>1, <1>2, InitTypeOK, TypeStep, InitSafe, PTL DEF ManagerSpec

-----------------------------------------------------------------------------
(* nginx runs what is on disk, and what it runs changes by whole operations. *)

\* nginx never reports as failed a command that it carried out.
Reliable == Settled /\ ~NginxErrors

\* How far the operation of p is, against what nginx runs: until it reloads, its rollback
\* gives what nginx runs, and what it has written so far is what it was asked to write.
Progress(p) ==
  LET j == job[p]
      x == j.data
  IN /\ IF j.op = "remove" /\ mpc[p] \in {"test", "reload"}
        THEN InForce(disk) = [InForce(running) EXCEPT ![x.name] = NoFile]
        ELSE InForce(Restored(disk, j)) = InForce(running)
     /\ j.op = "generate" /\ mpc[p] \in {"waf", "test", "reload"} => disk.conf[x.name] = x
     /\ j.op = "generate" /\ mpc[p] \in {"test", "reload"} /\ x.waf => disk.waf[x.host] = x.body
     /\ j.op = "wafonly" /\ mpc[p] \in {"test", "reload"} => disk.waf[x.host] = x.body

MirrorInv == DiskIsRunning /\ \A p \in Procs : mpc[p] \in Critical => Progress(p)

\* What is in force depends on the configurations and on the WAF files they include.
LEMMA SameInForce ==
  ASSUME NEW d, NEW e,
         \A n \in Names : e.conf[n] = d.conf[n],
         \A n \in Names : d.conf[n] # NoFile /\ d.conf[n].waf
                          => e.waf[d.conf[n].host] = d.waf[d.conf[n].host]
  PROVE  InForce(e) = InForce(d)
BY DEF InForce

\* What an operation writes, its rollback takes back.
LEMMA WriteUndone ==
  ASSUME TypeOK, SafeInv, Settled, NEW p \in Procs,
         WriteInclude(p) \/ WriteConf(p) \/ WriteWAF(p)
  PROVE  InForce(Restored(disk', job[p])) = InForce(Restored(disk, job[p]))
<1> DEFINE j == job[p]  x == job[p].data  R == Restored(disk, j)  S == Restored(disk', j)
<1>1. mpc[p] \in Critical BY DEF WriteInclude, WriteConf, WriteWAF, Critical
<1>2. j \in Job /\ x \in Datum /\ x \in Inputs /\ j.op # "cleanup" /\ disk \in Disk
  BY <1>1, JobTypes DEF Settled, Job, TypeOK
<1>3. OpAt(p) /\ BackupIsInput(p) /\ AreInputs(disk) BY <1>1 DEF SafeInv, Holds
<1>4. AreInputs(R) BY <1>2, <1>3, RestoredFiles DEF AreInputs, BackupIsInput
<1>5. disk' \in Disk
  <2>1. CASE WriteInclude(p) BY <2>1, <1>2, DiskTypes DEF WriteInclude
  <2>2. CASE WriteConf(p) BY <2>2, <1>2, DiskTypes DEF WriteConf
  <2>3. CASE WriteWAF(p)
    <3>1. (j.op = "wafonly" \/ x.waf) \in BOOLEAN BY <1>2 DEF Datum
    <3> QED BY <2>3, <3>1, <1>2, DiskTypes DEF WriteWAF
  <2> QED BY <2>1, <2>2, <2>3
<1>6. /\ \A n \in Names : S.conf[n] = R.conf[n]
      /\ \A h \in Hosts : S.waf[h] = R.waf[h]
  <2>1. CASE WriteInclude(p)
    <3>1. disk'.conf = disk.conf /\ disk'.waf = disk.waf
      BY <2>1, <1>2 DEF WriteInclude, WithInclude, Disk
    <3> QED BY <3>1, <1>2, <1>5, RestoredFiles
  <2>2. CASE WriteConf(p)
    <3>1. /\ j.op = "generate" /\ disk'.waf = disk.waf
          /\ \A n \in Names : n # x.name => disk'.conf[n] = disk.conf[n]
      BY <2>2, <1>2, <1>3 DEF WriteConf, WithConf, Disk, OpAt
    <3> QED BY <3>1, <1>2, <1>5, RestoredFiles
  <2>3. CASE WriteWAF(p)
    <3>1. /\ j.op \in {"generate", "wafonly"} /\ disk'.conf = disk.conf
          /\ \A h \in Hosts : h # x.host => disk'.waf[h] = disk.waf[h]
      BY <2>3, <1>2, <1>3 DEF WriteWAF, WithWAF, Disk, OpAt
    <3> QED BY <3>1, <1>2, <1>5, RestoredFiles
  <2> QED BY <2>1, <2>2, <2>3
<1> HIDE DEF R, S
<1>7. \A n \in Names : R.conf[n] # NoFile => R.conf[n].host \in Hosts BY <1>4, InputHosts
<1>8. InForce(S) = InForce(R) BY <1>6, <1>7, SameInForce
<1> QED BY <1>8 DEF R, S

\* Taking a host's files away takes its configuration, and nothing else, out of force.
LEMMA RemovalInForce ==
  ASSUME Settled, NEW d \in Disk, NEW x \in Inputs, AreInputs(d)
  PROVE  InForce(WithoutConfig(d, x)) = [InForce(d) EXCEPT ![x.name] = NoFile]
<1> DEFINE e == WithoutConfig(d, x)
<1>1. x \in Datum BY InputAssumption
<1>2. /\ \A n \in Names : e.conf[n] = IF n = x.name THEN NoFile ELSE d.conf[n]
      /\ \A h \in Hosts : h # x.host => e.waf[h] = d.waf[h]
  BY <1>1 DEF WithoutConfig, Disk, Datum
<1>3. \A n \in Names : d.conf[n] # NoFile /\ n # x.name
                       => d.conf[n].host # x.host /\ d.conf[n].host \in Hosts
  BY InputHosts DEF Settled, AreInputs
<1> HIDE DEF e
<1>4. \A n \in Names : InForce(e)[n] = IF n = x.name THEN NoFile ELSE InForce(d)[n]
  BY <1>2, <1>3 DEF InForce
<1>5. InForce(e) = [InForce(d) EXCEPT ![x.name] = NoFile]
  BY <1>4 DEF InForce
<1> QED BY <1>5 DEF e

\* What is left to show of a step that stays in the critical section, and of one that
\* leaves it.
LEMMA MirrorGoto ==
  ASSUME TypeOK, MirrorInv, NEW p \in Procs, mpc[p] \in Critical, Step(p),
         NEW s \in Critical, Goto(p, s), Progress(p)'
  PROVE  MirrorInv'
<1>1. lock' = lock /\ lock = p BY DEF Goto, TypeOK
<1>2. \A q \in Procs \ {p} : mpc'[q] \notin Critical BY OthersWait
<1>3. DiskIsRunning' BY <1>1, ProcAssumption DEF DiskIsRunning
<1> QED BY <1>2, <1>3 DEF MirrorInv

LEMMA MirrorReturn ==
  ASSUME TypeOK, MirrorInv, NEW p \in Procs, mpc[p] \in Critical, Step(p),
         NEW r \in {"ok", "err"}, Return(p, r), InForce(disk)' = InForce(running)'
  PROVE  MirrorInv'
<1>1. mpc'[p] \notin Critical BY DEF Return, TypeOK, Critical
<1>2. \A q \in Procs \ {p} : mpc'[q] \notin Critical BY OthersWait
<1>3. DiskIsRunning' BY DEF DiskIsRunning
<1> QED BY <1>1, <1>2, <1>3 DEF MirrorInv

\* An operation that cannot go back has nothing to fail: its files are valid.
LEMMA OnlyChangesFail ==
  ASSUME TypeOK, SafeInv, Reliable, NEW p \in Procs, mpc[p] \in Critical, ~Valid(disk)
  PROVE  job[p].op \in {"generate", "wafonly"}
<1>1. job[p] \in Job /\ job[p].op \in Ops /\ job[p].op # "cleanup"
  BY JobTypes DEF Reliable, Settled
<1>2. Valid(Restored(disk, job[p])) BY DEF SafeInv, Holds, CanGoBack
<1> QED BY <1>1, <1>2 DEF Restored

LEMMA MirrorStepOf ==
  ASSUME TypeOK, SafeInv, MirrorInv, Reliable, NEW p \in Procs, Step(p)
  PROVE  MirrorInv'
<1> DEFINE j == job[p]  x == job[p].data
<1>1. mpc[p] \in Critical
  BY DEF Step, WriteInclude, WriteConf, WriteWAF, RemoveOld, RemoveFiles, FileError, Writing,
         TestConfig, ReloadNginx, Rollback, Critical
<1>2. j \in Job /\ x \in Datum /\ x \in Inputs /\ j.op # "cleanup" /\ disk \in Disk
  BY <1>1, JobTypes DEF Reliable, Settled, Job, TypeOK
<1>3. OpAt(p) /\ Progress(p) /\ AreInputs(disk) BY <1>1 DEF SafeInv, Holds, MirrorInv
<1>4. Settled /\ ~NginxErrors BY DEF Reliable
<1>5. {"conf", "waf", "test", "reload", "rollback"} \subseteq Critical BY DEF Critical
<1>6. ASSUME NEW s, Goto(p, s) PROVE mpc'[p] = s /\ job' = job BY <1>6 DEF Goto, TypeOK
<1>7. CASE WriteInclude(p)
  <2>1. Goto(p, "conf") /\ running' = running BY <1>7 DEF WriteInclude
  <2>2. j.op = "generate" /\ mpc[p] = "include" BY <1>3, <1>7 DEF WriteInclude, OpAt
  <2>3. InForce(Restored(disk', j)) = InForce(running)
    BY <1>3, <1>4, <1>7, <2>2, WriteUndone DEF Progress
  <2>4. Progress(p)' BY <1>6, <2>1, <2>2, <2>3 DEF Progress
  <2> QED BY <1>1, <1>5, <2>1, <2>4, MirrorGoto
<1>8. CASE WriteConf(p)
  <2>1. Goto(p, "waf") /\ running' = running BY <1>8 DEF WriteConf
  <2>2. j.op = "generate" /\ mpc[p] = "conf" BY <1>3, <1>8 DEF WriteConf, OpAt
  <2>3. InForce(Restored(disk', j)) = InForce(running)
    BY <1>3, <1>4, <1>8, <2>2, WriteUndone DEF Progress
  <2>4. disk'.conf[x.name] = x BY <1>2, <1>8 DEF WriteConf, WithConf, Disk, Datum
  <2>5. Progress(p)' BY <1>6, <2>1, <2>2, <2>3, <2>4 DEF Progress
  <2> QED BY <1>1, <1>5, <2>1, <2>5, MirrorGoto
<1>9. CASE WriteWAF(p)
  <2>1. Goto(p, "test") /\ running' = running BY <1>2, <1>9 DEF WriteWAF
  <2>2. j.op \in {"generate", "wafonly"} /\ mpc[p] = "waf" BY <1>3, <1>9 DEF WriteWAF, OpAt
  <2>3. InForce(Restored(disk', j)) = InForce(running)
    BY <1>3, <1>4, <1>9, <2>2, WriteUndone DEF Progress
  <2>4. /\ disk'.conf = disk.conf
        /\ j.op = "wafonly" \/ x.waf => disk'.waf[x.host] = x.body
    BY <1>2, <1>9 DEF WriteWAF, WithWAF, Disk, Datum
  <2>5. j.op = "generate" => disk'.conf[x.name] = x BY <1>3, <2>2, <2>4 DEF Progress
  <2>6. Progress(p)' BY <1>6, <2>1, <2>2, <2>3, <2>4, <2>5 DEF Progress
  <2> QED BY <1>1, <1>5, <2>1, <2>6, MirrorGoto
<1>10. CASE RemoveFiles(p)
  <2>1. Goto(p, "test") /\ running' = running /\ disk' = WithoutConfig(disk, x)
    BY <1>10 DEF RemoveFiles
  <2>2. j.op = "remove" /\ mpc[p] = "remove" BY <1>3, <1>10 DEF RemoveFiles, OpAt
  <2>3. InForce(disk) = InForce(running) BY <1>3, <2>2 DEF Progress, Restored
  <2>4. InForce(disk') = [InForce(running) EXCEPT ![x.name] = NoFile]
    BY <1>2, <1>3, <1>4, <2>1, <2>3, RemovalInForce
  <2>5. Progress(p)' BY <1>6, <2>1, <2>2, <2>4 DEF Progress
  <2> QED BY <1>1, <1>5, <2>1, <2>5, MirrorGoto
<1>11. ASSUME disk' = disk, running' = running, ~Valid(disk), Fail(p) PROVE MirrorInv'
  <2>1. j.op \in {"generate", "wafonly"} BY <1>1, <1>11, OnlyChangesFail
  <2>2. Goto(p, "rollback") BY <1>11, <2>1 DEF Fail, HasRollback
  <2>3. Progress(p)' BY <1>3, <1>6, <1>11, <2>1, <2>2 DEF Progress
  <2> QED BY <1>1, <1>5, <2>2, <2>3, MirrorGoto
<1>12. CASE TestConfig(p)
  <2>1. disk' = disk /\ running' = running /\ mpc[p] = "test" BY <1>12 DEF TestConfig
  <2>2. CASE j.op = "test" /\ Return(p, "ok")
    <3>1. InForce(disk) = InForce(running) BY <1>3, <2>2 DEF Progress, Restored
    <3> QED BY <1>1, <2>1, <2>2, <3>1, MirrorReturn
  <2>3. CASE Goto(p, "reload")
    <3>1. Progress(p)' BY <1>3, <1>6, <2>1, <2>3 DEF Progress
    <3> QED BY <1>1, <1>5, <2>3, <3>1, MirrorGoto
  <2> QED BY <1>4, <1>11, <1>12, <2>1, <2>2, <2>3 DEF TestConfig
<1>13. CASE ReloadNginx(p)
  <2>1. CASE running' = disk /\ Return(p, "ok")
    <3>1. InForce(disk)' = InForce(running)' BY <1>13, <2>1 DEF ReloadNginx
    <3> QED BY <1>1, <2>1, <3>1, MirrorReturn
  <2> QED BY <1>4, <1>11, <1>13, <2>1 DEF ReloadNginx
<1>14. CASE Rollback(p)
  <2>1. disk' = Restored(disk, j) /\ Return(p, "err") /\ running' = running /\ mpc[p] = "rollback"
    BY <1>14 DEF Rollback
  <2>2. InForce(Restored(disk, j)) = InForce(running) BY <1>3, <2>1 DEF Progress
  <2> QED BY <1>1, <2>1, <2>2, MirrorReturn
<1>15. ~RemoveOld(p) /\ ~FileError(p) BY <1>3, <1>4 DEF OpAt, RemoveOld, FileError, Settled
<1> QED BY <1>7, <1>8, <1>9, <1>10, <1>12, <1>13, <1>14, <1>15 DEF Step

LEMMA MirrorStep ==
  Reliable /\ TypeOK /\ SafeInv /\ MirrorInv /\ [ManagerNext]_managerVars => MirrorInv'
<1> SUFFICES ASSUME Reliable, TypeOK, SafeInv, MirrorInv, [ManagerNext]_managerVars
             PROVE  MirrorInv'
  OBVIOUS
<1>1. ASSUME disk' = disk, running' = running, lock' = lock,
             \A q \in Procs : mpc'[q] \in Critical => mpc'[q] = mpc[q] /\ job'[q] = job[q]
      PROVE  MirrorInv'
  <2>1. DiskIsRunning' BY <1>1 DEF MirrorInv, DiskIsRunning
  <2>2. \A q \in Procs : mpc'[q] \in Critical => Progress(q)'
    BY <1>1 DEF MirrorInv, Progress
  <2> QED BY <2>1, <2>2 DEF MirrorInv
<1>2. ASSUME NEW p \in Procs, NEW op \in Ops, NEW x \in Inputs, NEW old, Call(p, op, x, old)
      PROVE  MirrorInv'
  BY <1>1, <1>2 DEF Call, TypeOK, Critical
<1>3. ASSUME NEW p \in Procs, Cancel(p) PROVE MirrorInv'
  BY <1>1, <1>3 DEF Cancel, TypeOK, Critical
<1>4. ASSUME NEW p \in Procs, Acquire(p) PROVE MirrorInv'
  <2> DEFINE j == job[p]  k == job'[p]
  <2>1. mpc[p] = "wait" /\ lock = NoProc /\ lock' = p /\ disk' = disk /\ running' = running
    BY <1>4 DEF Acquire
  <2>2. /\ j \in Job /\ j.data \in Datum /\ j.data \in Inputs /\ j.old \in Names
        /\ j.op \in Ops /\ j.op # "cleanup"
    BY <2>1, JobTypes DEF Job, Reliable, Settled
  <2>3. InForce(disk) = InForce(running) /\ disk \in Disk /\ AreInputs(disk)
    BY <2>1 DEF MirrorInv, DiskIsRunning, TypeOK, SafeInv
  <2>4. \A q \in Procs \ {p} : mpc'[q] \notin Critical
    BY <1>4, <2>1, ProcAssumption DEF Acquire, TypeOK
  <2>5. mpc'[p] = FirstStep(j.op) BY <1>4 DEF Acquire, TypeOK
  <2>6. k = [j EXCEPT !.savedConf = disk.conf[j.data.name], !.savedOld = disk.conf[j.old],
                      !.savedWaf = disk.waf[j.data.host]]
    BY <1>4, <2>2 DEF Acquire, TypeOK, Job
  <2> HIDE DEF k
  <2>7. /\ k \in Job /\ k.op = j.op /\ k.data = j.data
        /\ k.savedConf = disk.conf[j.data.name] /\ k.savedWaf = disk.waf[j.data.host]
    <3>1. /\ disk.conf[j.data.name] \in Datum \cup {NoFile}
          /\ disk.conf[j.old] \in Datum \cup {NoFile}
          /\ disk.waf[j.data.host] \in Bodies \cup {NoFile}
      BY <2>2, <2>3 DEF Disk, Datum
    <3> QED BY <2>2, <2>6, <3>1 DEF Job
  <2>8. InForce(Restored(disk, k)) = InForce(disk)
    <3> DEFINE e == Restored(disk, k)
    <3>1. /\ \A n \in Names : e.conf[n] = disk.conf[n]
          /\ \A h \in Hosts : e.waf[h] = disk.waf[h]
      BY <2>2, <2>3, <2>7, RestoredFiles
    <3> HIDE DEF e
    <3>2. \A n \in Names : disk.conf[n] # NoFile => disk.conf[n].host \in Hosts
      BY <2>3, InputHosts
    <3>3. InForce(e) = InForce(disk) BY <3>1, <3>2, SameInForce
    <3> QED BY <3>3 DEF e
  <2>9. /\ k.op = "remove" => mpc'[p] = "remove"
        /\ k.op = "generate" => mpc'[p] = "include"
        /\ k.op = "wafonly" => mpc'[p] = "waf"
    BY <2>5, <2>7 DEF FirstStep
  <2>10. Progress(p)' BY <2>1, <2>3, <2>8, <2>9 DEF Progress, k
  <2>11. DiskIsRunning' BY <2>1, ProcAssumption DEF DiskIsRunning
  <2> QED BY <2>4, <2>10, <2>11 DEF MirrorInv
<1>5. ASSUME NEW p \in Procs, Step(p) PROVE MirrorInv' BY <1>5, MirrorStepOf
<1>6. CASE UNCHANGED managerVars BY <1>1, <1>6 DEF managerVars
<1> QED BY <1>2, <1>3, <1>4, <1>5, <1>6 DEF ManagerNext

LEMMA InitMirror == ManagerInit => MirrorInv
BY DEF ManagerInit, MirrorInv, DiskIsRunning, Critical

\* Between operations nginx runs what is on disk: whatever was rejected, rolled back or
\* removed, by any number of goroutines, no file is left that nginx has not loaded.
THEOREM RunsWhatIsThere == Reliable => (ManagerSpec => []DiskIsRunning)
<1> SUFFICES ASSUME Reliable PROVE ManagerSpec => []DiskIsRunning
  OBVIOUS
<1>1. TypeOK /\ SafeInv /\ [ManagerNext]_managerVars => SafeInv' BY SafeStep DEF Reliable
<1>2. TypeOK /\ SafeInv /\ MirrorInv /\ [ManagerNext]_managerVars => MirrorInv' BY MirrorStep
<1>3. MirrorInv => DiskIsRunning BY DEF MirrorInv
<1> QED BY <1>1, <1>2, <1>3, InitTypeOK, TypeStep, InitSafe, InitMirror, PTL DEF ManagerSpec

\* What a successful reload puts into force is what the operation was for.
LEMMA ReloadServes ==
  ASSUME TypeOK, SafeInv, MirrorInv, Reliable, NEW p \in Procs, ReloadNginx(p)
  PROVE  Promise!Next \/ InForce(running)' = InForce(running)
<1> DEFINE j == job[p]  x == job[p].data  old == InForce(running)  new == InForce(disk)
<1>1. mpc[p] = "reload" /\ mpc[p] \in Critical BY DEF ReloadNginx, Critical
<1>2. /\ j \in Job /\ x \in Datum /\ x \in Inputs /\ j.op # "cleanup" /\ j.op \in Ops
      /\ disk \in Disk
  BY <1>1, JobTypes DEF Reliable, Settled, Job, TypeOK
<1>3. Progress(p) /\ AreInputs(disk) BY <1>1 DEF SafeInv, Holds, MirrorInv
<1>4. CASE running' = running BY <1>4
<1>5. CASE Valid(disk) /\ running' = disk
  <2>1. InForce(running)' = new BY <1>5
  <2> DEFINE R == Restored(disk, j)
  <2>2. /\ \A n \in Names : R.conf[n] = IF j.op = "generate" /\ n = x.name
                                        THEN j.savedConf ELSE disk.conf[n]
        /\ \A h \in Hosts : R.waf[h] = IF j.op \in {"generate", "wafonly"} /\ h = x.host
                                       THEN j.savedWaf ELSE disk.waf[h]
    BY <1>2, RestoredFiles
  <2>3. j.op # "remove" => InForce(R) = old BY <1>3 DEF Progress
  <2> HIDE DEF R
  <2>4. /\ \A n \in Names : new[n] = IF disk.conf[n] = NoFile THEN NoFile ELSE
             <<disk.conf[n], IF disk.conf[n].waf THEN disk.waf[disk.conf[n].host] ELSE NoFile>>
        /\ new = [n \in Names |-> new[n]] /\ old = [n \in Names |-> old[n]]
        /\ \A n \in Names : InForce(R)[n] = IF R.conf[n] = NoFile THEN NoFile ELSE
             <<R.conf[n], IF R.conf[n].waf THEN R.waf[R.conf[n].host] ELSE NoFile>>
    BY DEF InForce
  <2> HIDE DEF old, new
  <2>5. \A n \in Names : disk.conf[n] # NoFile => disk.conf[n].host \in Hosts
    BY <1>3, InputHosts
  <2>6. CASE j.op = "generate"
    <3>1. /\ disk.conf[x.name] = x /\ x.name \in Names /\ x # NoFile
          /\ x.waf => disk.waf[x.host] = x.body
      BY <1>1, <1>2, <1>3, <2>6, FileAssumption DEF Progress, Datum
    <3>2. \A n \in Names \ {x.name} : disk.conf[n] # NoFile => disk.conf[n].host # x.host
      BY <1>2, <1>3 DEF Reliable, Settled, AreInputs
    <3>3. ASSUME NEW n \in Names, n # x.name PROVE new[n] = old[n]
      <4>1. R.conf[n] = disk.conf[n] BY <2>2, <3>3
      <4>2. disk.conf[n] # NoFile => R.waf[disk.conf[n].host] = disk.waf[disk.conf[n].host]
        BY <2>2, <2>5, <3>2, <3>3
      <4>3. new[n] = InForce(R)[n]
        <5>1. CASE disk.conf[n] = NoFile BY <2>4, <4>1, <5>1
        <5>2. CASE disk.conf[n] # NoFile
          <6>1. R.waf[R.conf[n].host] = disk.waf[disk.conf[n].host] BY <4>1, <4>2, <5>2
          <6> QED BY <2>4, <4>1, <5>2, <6>1
        <5> QED BY <5>1, <5>2
      <4> QED BY <2>3, <2>6, <4>3
    <3>4. new[x.name] = <<x, IF x.waf THEN x.body ELSE NoFile>> BY <2>4, <3>1
    <3> DEFINE y == <<x, IF x.waf THEN x.body ELSE NoFile>>
    <3>5. new = [old EXCEPT ![x.name] = y]
      <4> HIDE DEF y
      <4>1. \A n \in Names : new[n] = IF n = x.name THEN y ELSE old[n] BY <3>3, <3>4 DEF y
      <4>2. [old EXCEPT ![x.name] = y] = [n \in Names |-> IF n = x.name THEN y ELSE old[n]]
        BY <2>4, <3>1
      <4> QED BY <2>4, <4>1, <4>2
    <3>6. x.body \notin BadBodies BY <1>5, <3>1 DEF Valid
    <3>7. Promise!Configure(x)
      BY <2>1, <3>5, <3>6 DEF Promise!Configure, Promise!Accepted, old
    <3> QED BY <1>2, <3>7 DEF Promise!Next
  <2>7. CASE j.op = "wafonly"
    <3> DEFINE Uses(n) == disk.conf[n] # NoFile /\ disk.conf[n].host = x.host /\ disk.conf[n].waf
    <3>1. disk.waf[x.host] = x.body BY <1>1, <1>3, <2>7 DEF Progress
    <3>2. \A n \in Names : R.conf[n] = disk.conf[n] BY <2>2, <2>7
    <3>3. \A n \in Names : ~Uses(n) => new[n] = old[n] BY <2>2, <2>3, <2>4, <2>5, <2>7, <3>2
    <3>4. \A n \in Names : Uses(n) => new[n] = <<old[n][1], x.body>> BY <2>3, <2>4, <2>7, <3>1, <3>2
    <3>5. \A n \in Names : Uses(n) <=> old[n] # NoFile /\ old[n][1].host = x.host /\ old[n][1].waf
      <4>1. \A n \in Names : disk.conf[n] = NoFile => old[n] = NoFile BY <2>3, <2>4, <2>7, <3>2
      <4>2. \A n \in Names : disk.conf[n] # NoFile => old[n][1] = disk.conf[n]
        BY <2>3, <2>4, <2>7, <3>2
      <4>3. \A n \in Names : disk.conf[n] # NoFile
                 => old[n] \in Datum \X (Bodies \cup {NoFile})
        <5>1. ASSUME NEW n \in Names, disk.conf[n] # NoFile
              PROVE  R.conf[n] \in Datum /\ R.waf[R.conf[n].host] \in Bodies \cup {NoFile}
          BY <1>2, <2>2, <2>5, <2>7, <3>2, <5>1 DEF Disk, Job
        <5> QED BY <2>3, <2>4, <2>7, <3>2, <5>1
      <4>4. \A n \in Names : disk.conf[n] # NoFile => old[n] # NoFile BY <4>3, FileAssumption
      <4> QED BY <4>1, <4>2, <4>4
    <3>6. CASE \E n \in Names : Uses(n)
      <4>1. x.body \notin BadBodies BY <1>5, <3>1, <3>6 DEF Valid
      <4>2. new = [n \in Names |-> IF old[n] # NoFile /\ old[n][1].host = x.host /\ old[n][1].waf
                                   THEN <<old[n][1], x.body>> ELSE old[n]]
        BY <2>4, <3>3, <3>4, <3>5
      <4>3. Promise!RenewWAF(x) BY <2>1, <4>2 DEF Promise!RenewWAF, old
      <4> QED BY <1>2, <4>1, <4>3 DEF Promise!Next, Promise!Accepted
    <3>7. CASE \A n \in Names : ~Uses(n)
      <4>1. new = old BY <2>4, <3>3, <3>7
      <4> QED BY <2>1, <4>1 DEF old
    <3> QED BY <3>6, <3>7
  <2>8. CASE j.op = "remove"
    <3>1. new = [old EXCEPT ![x.name] = NoFile] BY <1>1, <1>3, <2>8 DEF Progress, new, old
    <3>2. Promise!Remove(x) BY <2>1, <3>1 DEF Promise!Remove, old
    <3> QED BY <1>2, <3>2 DEF Promise!Next
  <2>9. CASE j.op \notin {"generate", "wafonly", "remove"}
    <3>1. new = old BY <1>2, <1>3, <2>9 DEF Progress, Restored, new, old
    <3> QED BY <2>1, <3>1 DEF old
  <2> QED BY <2>6, <2>7, <2>8, <2>9
<1> QED BY <1>4, <1>5 DEF ReloadNginx, Reliable

LEMMA OtherStepsKeepServing ==
  [ManagerNext]_managerVars => running' = running \/ \E p \in Procs : ReloadNginx(p)
BY DEF ManagerNext, managerVars, Call, Acquire, Cancel, Step, WriteInclude, WriteConf, WriteWAF,
       RemoveOld, RemoveFiles, FileError, TestConfig, Rollback

\* The manager implements the promise: whatever its goroutines write, reject and undo, what
\* nginx serves goes from one accepted configuration to the next in whole operations.
THEOREM ServesAtomically == Reliable => (ManagerSpec => ServedAtomically)
<1> SUFFICES ASSUME Reliable PROVE ManagerSpec => ServedAtomically
  OBVIOUS
<1>1. TypeOK /\ SafeInv /\ [ManagerNext]_managerVars => SafeInv' BY SafeStep DEF Reliable
<1>2. TypeOK /\ SafeInv /\ MirrorInv /\ [ManagerNext]_managerVars => MirrorInv' BY MirrorStep
<1>3. ManagerInit => Promise!Init BY DEF ManagerInit, EmptyDisk, InForce, Promise!Init
<1>4. TypeOK /\ SafeInv /\ MirrorInv /\ [ManagerNext]_managerVars
        => [Promise!Next]_(InForce(running))
  <2> SUFFICES ASSUME TypeOK, SafeInv, MirrorInv, [ManagerNext]_managerVars
               PROVE  Promise!Next \/ InForce(running)' = InForce(running)
    OBVIOUS
  <2>1. CASE running' = running BY <2>1
  <2>2. ASSUME NEW p \in Procs, ReloadNginx(p)
        PROVE  Promise!Next \/ InForce(running)' = InForce(running)
    BY <2>2, ReloadServes
  <2> QED BY <2>1, <2>2, OtherStepsKeepServing
<1> QED BY <1>1, <1>2, <1>3, <1>4, InitTypeOK, TypeStep, InitSafe, InitMirror, PTL
        DEF ManagerSpec, ServedAtomically, Promise!Spec
=============================================================================
