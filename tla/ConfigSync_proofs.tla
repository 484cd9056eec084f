-------------------------- MODULE ConfigSync_proofs --------------------------
(***************************************************************************)
(* What is proved of the synchronisation: its types, for any number of     *)
(* clients and whatever fails; and, with one client, across crashes and    *)
(* rejected hosts, that only hosts nginx rejects are taken down, that the  *)
(* others are served, when it gives up, and what a restart repairs and     *)
(* records.                                                                *)
(***************************************************************************)
EXTENDS ConfigSync, ProxyHosts_proofs, FiniteSetTheorems

\* The variables of a synchronisation.
Synchronisation ==
  [op : {"sync"}, host : Hosts, rows : UNION {[hosts -> Row] : hosts \in SUBSET Hosts},
   todo : SUBSET Hosts, failed : SUBSET Hosts, attempts : 0..MaxAttempts]

Syncing(s, l) ==
  /\ s \in SyncSteps /\ l \in Synchronisation
  /\ \A h \in DOMAIN l.rows : l.rows[h].enabled
  /\ l.todo \subseteq DOMAIN l.rows /\ l.failed \subseteq DOMAIN l.rows
  /\ s = "syncWAF" => l.host \in DOMAIN l.rows

\* Every client works on a request, synchronises, or does nothing.
SyncsOK == Variables /\ \A p \in Procs : LocalOK(p) \/ Syncing(pc[p], loc[p])

SyncTypes ==
  /\ RowsOK /\ SyncsOK
  /\ boot \in {"serving", "crashed", "syncing"}

\* A step of p, within a request or a synchronisation or between them.
SyncMoves(p) ==
  /\ Variables' /\ (LocalOK(p)' \/ Syncing(pc'[p], loc'[p]))
  /\ \A q \in Procs \ {p} : pc'[q] = pc[q] /\ loc'[q] = loc[q]

LEMMA StepsApart == SyncSteps \cap Steps = {}
BY DEF SyncSteps, Steps

LEMMA SyncGoesOn ==
  ASSUME Variables, NEW p \in Procs, NEW s, NEW l, Syncing(s, l), To(p, s),
         loc' = [loc EXCEPT ![p] = l]
  PROVE  SyncMoves(p)
BY DEF Variables, SyncMoves, To

LEMMA SyncIsDone == ASSUME Variables, NEW p \in Procs, Done(p) PROVE SyncMoves(p)
BY DEF Variables, SyncMoves, LocalOK, Done, To, Steps

LEMMA TypesMove == ASSUME SyncsOK, NEW p \in Procs, SyncMoves(p) PROVE SyncsOK'
BY DEF SyncsOK, SyncMoves, LocalOK

\* Nothing of a request happens in a synchronisation.
LEMMA NotARequest ==
  ASSUME NEW p \in Procs, pc[p] \in SyncSteps
  PROVE  ~Service(p) /\ ~Start(p) /\ ~DebouncedReload(p)
<1>1. ~Service(p)
  BY DEF SyncSteps, Service, Insert, UndoFiles, UndoRow, Read, Write, ConfigureEnabled,
     ConfigureDisabled, CleanupDBOnly, WriteFiles, WriteWAFFile, CallTest, Tested, Abandon,
     ConfigureRow, DeleteRow, Succeeded, Failed, Restore
<1>2. ~Start(p) /\ ~DebouncedReload(p)
  BY DEF SyncSteps, Start, Create, StartOnRow, StartUpdate, Begin, DebouncedReload
<1> QED BY <1>1, <1>2

-----------------------------------------------------------------------------
LEMMA BeginsTypes == ASSUME RowsOK, SyncsOK, NEW p \in Procs, Begins(p) PROVE SyncMoves(p)
<1> DEFINE hosts == {g \in Hosts : Exists(g) /\ db[g].enabled}
           rows == [h \in hosts |-> db[h]]
           l == [op |-> "sync", host |-> AnyData.host, rows |-> rows,
                 todo |-> DOMAIN rows, failed |-> {}, attempts |-> 0]
<1>1. rows \in [hosts -> Row] /\ \A h \in hosts : rows[h].enabled BY DEF RowsOK, Exists
<1>2. rows \in UNION {[S -> Row] : S \in SUBSET Hosts} /\ DOMAIN rows = hosts BY <1>1
<1>3. AnyData.host \in Hosts /\ 0 \in 0..MaxAttempts BY AnyDatum, AttemptAssumption DEF Datum
<1>4. loc' = [loc EXCEPT ![p] = l] /\ To(p, "syncHost") BY DEF Begins
<1> HIDE DEF rows
<1>5. l \in Synchronisation BY <1>2, <1>3 DEF Synchronisation
<1>6. l.rows = rows /\ l.todo = DOMAIN rows /\ l.failed = {} OBVIOUS
<1> HIDE DEF l
<1>7. Syncing("syncHost", l) BY <1>1, <1>2, <1>5, <1>6 DEF Syncing, SyncSteps
<1> QED BY <1>4, <1>7, SyncGoesOn DEF SyncsOK

\* What a synchronisation keeps in its variables when some of them change.
With(l, todo, failed, h, n) ==
  [l EXCEPT !.todo = todo, !.failed = failed, !.host = h, !.attempts = n]

LEMMA SyncFields ==
  ASSUME NEW l \in Synchronisation, NEW todo \in SUBSET Hosts, NEW failed \in SUBSET Hosts,
         NEW h \in Hosts, NEW n \in 0..MaxAttempts
  PROVE  LET m == With(l, todo, failed, h, n) IN
           /\ m \in Synchronisation /\ m.rows = l.rows
           /\ m.todo = todo /\ m.failed = failed /\ m.host = h /\ m.attempts = n
BY DEF Synchronisation, With

LEMMA SyncStepTypes ==
  ASSUME SyncsOK, NEW p \in Procs, SyncStep(p)
  PROVE  SyncMoves(p)
<1> DEFINE l == loc[p]
<1>1. pc[p] \in SyncSteps BY DEF SyncStep, SyncHost, SyncWAF, SyncTest, SyncRecover, SyncGiveUp,
        SyncReload, SyncReloaded, SyncRecord, SyncEnd, SyncSteps
<1>2. Syncing(pc[p], l) /\ Variables BY <1>1, StepsApart DEF SyncsOK, LocalOK
<1>3. l \in Synchronisation /\ DOMAIN l.rows \subseteq Hosts /\ DOMAIN loc = Procs
  BY <1>2 DEF Syncing, Synchronisation, Variables
<1>4. /\ l.todo \in SUBSET Hosts /\ l.failed \in SUBSET Hosts /\ l.host \in Hosts
      /\ l.attempts \in 0..MaxAttempts
  BY <1>3 DEF Synchronisation, With
<1>5. l = With(l, l.todo, l.failed, l.host, l.attempts)
  BY <1>3 DEF Synchronisation, With
<1>6. CASE SyncHost(p)
  <2>1. PICK h, s, f :
          /\ h \in l.todo /\ s \in {"syncHost", "syncWAF"} /\ f \in {l.failed, l.failed \cup {h}}
          /\ loc' = [loc EXCEPT ![p] = With(l, l.todo \ {h}, f, h, l.attempts)]
          /\ pc' = [pc EXCEPT ![p] = s]
    <3>1. PICK h \in l.todo :
            \/ /\ loc' = [loc EXCEPT ![p] = [l EXCEPT !.todo = l.todo \ {h}, !.host = h]]
               /\ To(p, IF DataOf(h, l.rows[h]).waf THEN "syncWAF" ELSE "syncHost")
            \/ /\ loc' = [loc EXCEPT ![p] = [[l EXCEPT !.todo = l.todo \ {h}, !.host = h]
                                             EXCEPT !.failed = l.failed \cup {h}]]
               /\ UNCHANGED pc
      BY <1>3, <1>6 DEF SyncHost, Synchronisation
    <3>2. pc = [pc EXCEPT ![p] = "syncHost"] BY <1>2, <1>6 DEF SyncHost, Variables
    <3>3. [l EXCEPT !.todo = l.todo \ {h}, !.host = h] =
          With(l, l.todo \ {h}, l.failed, h, l.attempts)
      BY <1>3 DEF Synchronisation, With
    <3>4. [[l EXCEPT !.todo = l.todo \ {h}, !.host = h] EXCEPT !.failed = l.failed \cup {h}] =
          With(l, l.todo \ {h}, l.failed \cup {h}, h, l.attempts)
      BY <1>3 DEF Synchronisation, With
    <3> QED BY <3>1, <3>2, <3>3, <3>4 DEF To
  <2> DEFINE m == With(l, l.todo \ {h}, f, h, l.attempts)
  <2>2. h \in DOMAIN l.rows /\ l.failed \subseteq DOMAIN l.rows /\ l.todo \subseteq DOMAIN l.rows
    BY <1>2, <2>1 DEF Syncing
  <2>3. /\ m \in Synchronisation /\ m.rows = l.rows /\ m.todo = l.todo \ {h} /\ m.failed = f
        /\ m.host = h
    BY <1>3, <1>4, <2>1, <2>2, SyncFields
  <2> HIDE DEF m
  <2>4. Syncing(s, m) BY <1>2, <2>1, <2>2, <2>3 DEF Syncing, SyncSteps
  <2> QED BY <1>2, <2>1, <2>4, SyncGoesOn DEF To, m
<1>7. CASE SyncWAF(p)
  <2>1. l.host \in DOMAIN l.rows BY <1>2, <1>7 DEF SyncWAF, Syncing
  <2>2. PICK f \in {l.failed, l.failed \cup {l.host}} :
          loc' = [loc EXCEPT ![p] = With(l, l.todo, f, l.host, l.attempts)]
    <3>1. \/ UNCHANGED loc
          \/ loc' = [loc EXCEPT ![p].failed = l.failed \cup {l.host}]
      BY <1>3, <1>7 DEF SyncWAF, Synchronisation
    <3>2. [l EXCEPT !.failed = l.failed \cup {l.host}] =
          With(l, l.todo, l.failed \cup {l.host}, l.host, l.attempts)
      BY <1>3 DEF Synchronisation, With
    <3>3. loc = [loc EXCEPT ![p] = l] BY <1>2 DEF Variables
    <3> QED BY <1>5, <3>1, <3>2, <3>3
  <2> DEFINE m == With(l, l.todo, f, l.host, l.attempts)
  <2>3. m \in Synchronisation /\ m.rows = l.rows /\ m.todo = l.todo /\ m.failed = f
    BY <1>3, <1>4, <2>2, SyncFields
  <2> HIDE DEF m
  <2>4. Syncing("syncHost", m) BY <1>2, <2>1, <2>2, <2>3 DEF Syncing, SyncSteps
  <2> QED BY <1>2, <1>7, <2>2, <2>4, SyncGoesOn DEF SyncWAF, m
<1>8. CASE SyncTest(p) \/ SyncReload(p)
  <2>1. PICK s \in {"syncTested", "syncReloaded"} : To(p, s) /\ UNCHANGED loc
    BY <1>8 DEF SyncTest, SyncReload
  <2>2. Syncing(s, l) BY <1>2 DEF Syncing, SyncSteps
  <2>3. loc' = [loc EXCEPT ![p] = l] BY <1>2, <2>1 DEF Variables
  <2> QED BY <1>2, <2>1, <2>2, <2>3, SyncGoesOn
<1>9. CASE SyncRecover(p)
  <2>1. PICK h \in DOMAIN l.rows :
          loc' = [loc EXCEPT ![p].failed = l.failed \cup {h}, ![p].attempts = l.attempts + 1]
    BY <1>3, <1>9 DEF SyncRecover, FoundByDomain, Synchronisation
  <2> DEFINE m == With(l, l.todo, l.failed \cup {h}, l.host, l.attempts + 1)
  <2>2. loc' = [loc EXCEPT ![p] = m] BY <1>3, <2>1 DEF Synchronisation, With
  <2>3. l.attempts + 1 \in 0..MaxAttempts BY <1>4, <1>9, AttemptAssumption DEF SyncRecover
  <2>4. /\ m \in Synchronisation /\ m.rows = l.rows /\ m.todo = l.todo
        /\ m.failed = l.failed \cup {h}
    BY <1>3, <1>4, <2>1, <2>3, SyncFields
  <2> HIDE DEF m
  <2>5. Syncing("syncHost", m) BY <1>2, <2>1, <2>4 DEF Syncing, SyncSteps
  <2> QED BY <1>2, <1>9, <2>2, <2>5, SyncGoesOn DEF SyncRecover
<1>10. CASE SyncGiveUp(p) \/ SyncEnd(p)
  BY <1>2, <1>10, SyncIsDone DEF SyncGiveUp, SyncEnd, SyncDone
<1>11. CASE SyncReloaded(p)
  <2>1. CASE SyncDone(p) BY <1>2, <2>1, SyncIsDone DEF SyncDone
  <2>2. CASE To(p, "syncRecord") /\ loc' = [loc EXCEPT ![p].todo = DOMAIN loc[p].rows]
    <3> DEFINE m == With(l, DOMAIN l.rows, l.failed, l.host, l.attempts)
    <3>1. loc' = [loc EXCEPT ![p] = m] BY <1>3, <2>2 DEF Synchronisation, With
    <3>2. /\ m \in Synchronisation /\ m.rows = l.rows /\ m.todo = DOMAIN l.rows
          /\ m.failed = l.failed
      BY <1>3, <1>4, SyncFields
    <3> HIDE DEF m
    <3>3. Syncing("syncRecord", m) BY <1>2, <3>2 DEF Syncing, SyncSteps
    <3> QED BY <1>2, <2>2, <3>1, <3>3, SyncGoesOn
  <2> QED BY <1>11, <2>1, <2>2 DEF SyncReloaded
<1>12. CASE SyncRecord(p)
  <2>1. PICK h \in l.todo : loc' = [loc EXCEPT ![p].todo = l.todo \ {h}]
    BY <1>3, <1>12 DEF SyncRecord, Synchronisation
  <2> DEFINE m == With(l, l.todo \ {h}, l.failed, l.host, l.attempts)
  <2>2. loc' = [loc EXCEPT ![p] = m] BY <1>3, <2>1 DEF Synchronisation, With
  <2>3. m \in Synchronisation /\ m.rows = l.rows /\ m.todo = l.todo \ {h} /\ m.failed = l.failed
    BY <1>3, <1>4, SyncFields
  <2> HIDE DEF m
  <2>4. Syncing("syncRecord", m) BY <1>2, <2>3 DEF Syncing, SyncSteps
  <2>5. To(p, "syncRecord") BY <1>2, <1>12 DEF SyncRecord, To, Variables
  <2> QED BY <1>2, <2>2, <2>4, <2>5, SyncGoesOn
<1> QED BY <1>6, <1>7, <1>8, <1>9, <1>10, <1>11, <1>12 DEF SyncStep

LEMMA SyncStepRows ==
  ASSUME RowsOK, SyncsOK, NEW p \in Procs, SyncStep(p)
  PROVE  RowsOK'
<1>1. CASE SyncRecord(p)
  <2>1. PICK h : /\ status' \in {status, [status EXCEPT ![h] = "error"], [status EXCEPT ![h] = "ok"]}
                 /\ owed' = owed \ {h}
    BY <1>1 DEF SyncRecord
  <2> QED BY <1>1, <2>1 DEF SyncRecord, RowsOK
<1>2. CASE SyncGiveUp(p)
  <2>1. pc[p] \in SyncSteps BY <1>2 DEF SyncGiveUp, SyncSteps
  <2>2. loc[p] \in Synchronisation BY <2>1, StepsApart DEF SyncsOK, LocalOK, Syncing
  <2>3. DOMAIN loc[p].rows \subseteq Hosts BY <2>2 DEF Synchronisation
  <2> QED BY <1>2, <2>3 DEF SyncGiveUp, RowsOK
<1>3. CASE UNCHANGED <<db, status, reloadPending, owed>> BY <1>3 DEF RowsOK
<1> QED BY <1>1, <1>2, <1>3 DEF SyncStep, SyncHost, SyncWAF, SyncTest, SyncRecover, SyncReload,
        SyncReloaded, SyncEnd

LEMMA RequestTypes ==
  ASSUME RowsOK, SyncsOK, NEW p \in Procs, Request(p)
  PROVE  RowsOK' /\ SyncsOK'
<1>1. CASE Start(p) \/ Service(p) \/ DebouncedReload(p)
  <2>1. Variables /\ LocalOK(p) BY <1>1, NotARequest DEF SyncsOK, Syncing
  <2>2. Moves(p) BY <1>1, <2>1, StartLocals, ServiceLocals, DebouncedLocals
  <2>3. SyncsOK' BY <2>2, TypesMove DEF Moves, SyncMoves
  <2>4. RowsOK' BY <1>1, <2>1, ServiceRows, StartRows, DebouncedRows
  <2> QED BY <2>3, <2>4
<1>2. CASE UNCHANGED serviceVars
  BY <1>2 DEF serviceVars, RowsOK, SyncsOK, Variables, LocalOK, Syncing
<1> QED BY <1>1, <1>2 DEF Request, ManagerStep, CancelCall

LEMMA SyncTypesStep == SyncTypes /\ [SyncNext]_syncVars => SyncTypes'
<1> SUFFICES ASSUME SyncTypes, [SyncNext]_syncVars PROVE SyncTypes'
  OBVIOUS
<1>1. RowsOK /\ SyncsOK /\ boot \in {"serving", "crashed", "syncing"} BY DEF SyncTypes
<1>2. CASE Crash
  <2>1. RowsOK' BY <1>1, <1>2 DEF Crash, RowsOK
  <2>2. SyncsOK' BY <1>2 DEF Crash, SyncsOK, Variables, LocalOK, Steps
  <2> QED BY <1>2, <2>1, <2>2 DEF SyncTypes, Crash
<1>3. ASSUME NEW p \in Procs, Request(p) PROVE SyncTypes'
  BY <1>1, <1>3, RequestTypes DEF SyncTypes, Request
<1>4. ASSUME NEW p \in Procs, StartSync(p) \/ Restart(p) PROVE SyncTypes'
  <2>1. Begins(p) /\ boot' \in {boot, "syncing"} BY <1>4 DEF StartSync, Restart
  <2>2. SyncsOK' BY <1>1, <2>1, BeginsTypes, TypesMove
  <2>3. RowsOK' BY <1>1, <2>1 DEF Begins, RowsOK
  <2> QED BY <1>1, <2>1, <2>2, <2>3 DEF SyncTypes
<1>5. ASSUME NEW p \in Procs, SyncStep(p) PROVE SyncTypes'
  <2>1. SyncsOK' BY <1>1, <1>5, SyncStepTypes, TypesMove
  <2>2. boot' \in {boot, "serving"}
    BY <1>5 DEF SyncStep, SyncHost, SyncWAF, SyncTest, SyncRecover, SyncGiveUp, SyncReload,
       SyncReloaded, SyncRecord, SyncEnd, SyncDone
  <2> QED BY <1>1, <1>5, <2>1, <2>2, SyncStepRows DEF SyncTypes
<1>6. CASE UNCHANGED vars /\ boot' \in {boot, "serving"}
  BY <1>1, <1>6 DEF vars, serviceVars, SyncTypes, RowsOK, SyncsOK, Variables, LocalOK, Syncing
<1> QED BY <1>2, <1>3, <1>4, <1>5, <1>6 DEF SyncNext, SyncNothing, syncVars

LEMMA SyncInitTypes == SyncInit => SyncTypes
BY InitTypes DEF SyncInit, SyncTypes, SyncsOK, LocalsOK

LEMMA TypesSay == SyncTypes => SyncTypeOK
<1> SUFFICES ASSUME SyncTypes, NEW p \in Procs, pc[p] \in SyncSteps
             PROVE  LET l == loc[p] IN
                      /\ DOMAIN l.rows \subseteq Hosts
                      /\ \A h \in DOMAIN l.rows : l.rows[h] \in Row /\ l.rows[h].enabled
                      /\ l.todo \subseteq DOMAIN l.rows /\ l.failed \subseteq DOMAIN l.rows
                      /\ l.attempts \in 0..MaxAttempts
                      /\ l.host \in Hosts
  BY DEF SyncTypes, SyncTypeOK
<1>1. Syncing(pc[p], loc[p]) BY StepsApart DEF SyncTypes, SyncsOK, LocalOK
<1> QED BY <1>1 DEF Syncing, Synchronisation

\* The types of a synchronisation, with any number of clients, whatever fails and wherever the
\* API crashes: it never removes more often than it may, and only works on hosts of its list.
THEOREM SyncTypeCorrect == SyncSpec => []SyncTypeOK
<1> QED BY SyncTypesStep, SyncInitTypes, TypesSay, PTL DEF SyncSpec

-----------------------------------------------------------------------------
(* One client, whose writes to files and rows do not fail, and whose updates *)
(* change no domain; no two domains share a file, and none is taken for      *)
(* another.  nginx may reject, docker may fail, the API may crash.           *)
Recoverable ==
  /\ Serial /\ ~FileErrors /\ ~DBErrors
  /\ DistinctFiles
  /\ \A n \in Names, d \in Domains : <<n, d>> \in Matches => FileOf[d] = n
  /\ \A req \in Requests : "domain" \notin DOMAIN req

\* A file is where its host has it.
Own(x, n) == Exists(x.host) /\ File(db[x.host]) = n

OwnFiles == \A n \in Names : disk.conf[n] # NoFile => Own(disk.conf[n], n)

\* The call of a deletion,
Removes(p) ==
  /\ mpc[p] \notin {"ok", "err"} => job[p].op = "remove" /\ job[p].data.name = File(loc[p].row)
  /\ mpc[p] \in {"test", "reload", "ok"} => FilesIn(loc[p].host, {})

\* how far a request is,
Asked(p) ==
  LET l == loc[p]
      k == l.host
      at == pc[p]
  IN /\ l.op # "reloader" /\ l.old = NoFile
     /\ IF at = "insert" THEN db[k] = NoRow /\ Free(File(l.row), k) ELSE Exists(k)
     /\ at \notin {"insert", "read"} => File(l.row) = File(db[k])
     /\ at \in {"undoRow", "deleteRow"} => FilesIn(k, {})
     /\ at # "restore"
     /\ at = "manager" /\ l.op = "delete" => Removes(p)

\* its call of the manager,
Calls(p) ==
  LET j == job[p]
      at == mpc[p]
  IN /\ at \in {"wait", "include", "conf", "waf", "remove", "test", "reload", "rollback", "ok", "err"}
     /\ at \notin {"ok", "err"} =>
          /\ j \in Called /\ j.op # "cleanup"
          /\ j.op = "generate" => Own(j.data, j.data.name)
          /\ j.op = "generate" /\ at # "wait" /\ j.savedConf # NoFile => Own(j.savedConf, j.data.name)
     /\ at \in {"include", "conf", "waf", "rollback"} => j.op = "generate"
     /\ at = "remove" => j.op = "remove"

\* the list of a synchronisation,
List(p) ==
  LET l == loc[p] IN
    /\ l.rows = [h \in {g \in Hosts : Exists(g) /\ db[g].enabled} |-> db[h]]
    /\ l.failed \subseteq Bad(l)

\* the files it has written and removed,
Generated(p) ==
  LET l == loc[p]
      at == pc[p]
  IN /\ \A h \in l.failed : disk.conf[File(l.rows[h])] = NoFile
     /\ at # "syncRecord" =>
          /\ l.failed \cap l.todo = {}
          /\ \A h \in DOMAIN l.rows \ (l.todo \cup l.failed) :
               LET x == DataOf(h, l.rows[h]) IN
                 IF at = "syncWAF" /\ h = l.host
                 THEN disk.conf[x.name] = x /\ (x.cloud => disk.cloud[h])
                 ELSE Written(disk, x)
     /\ at = "syncWAF" => l.host \notin l.todo \cup l.failed
     /\ at \in {"syncTested", "syncReloaded"} => l.todo = {}

\* and what nginx answers it.
Answered(p) ==
  LET l == loc[p]
      j == job[p]
      at == pc[p]
  IN /\ at = "syncTested" => /\ mpc[p] \in {"wait", "test", "ok", "err"}
                             /\ mpc[p] \in {"wait", "test"} => j \in Called /\ j.op = "test"
     /\ at = "syncReloaded" => /\ mpc[p] \in {"wait", "reload", "ok", "err"}
                               /\ mpc[p] \in {"wait", "reload"} => j \in Called /\ j.op = "reload"
     /\ at = "syncRecord" \/ (at = "syncReloaded" /\ mpc[p] = "ok") =>
          \A h \in DOMAIN l.rows \ l.failed : Written(running, DataOf(h, l.rows[h]))

Synced(p) == List(p) /\ Generated(p) /\ Answered(p)

Doing(p) ==
  /\ pc[p] \notin {"manager", "rereload", "syncTested", "syncReloaded"} => mpc[p] = "idle"
  /\ pc[p] \in {"manager", "rereload"} => Calls(p)
  /\ pc[p] \in Steps \ {"idle"} => (loc[p].op = "reloader" /\ pc[p] = "manager") \/ Asked(p)
  /\ pc[p] \in SyncSteps => Synced(p)

\* Whatever was interrupted, a file is the file of a host that exists, under its name: the one a
\* synchronisation is told to remove is then the one nginx rejects.
OwnInv(p) ==
  /\ disk \in Disk /\ running \in Disk /\ DOMAIN mpc = Procs /\ DOMAIN job = Procs
  /\ Apart /\ OwnFiles /\ Doing(p)

-----------------------------------------------------------------------------
(* What is left to show of a step.                                           *)

\* A step that changes no row and only writes files of a host where it has them.
LEMMA OwnFilesGo ==
  ASSUME NEW p \in Procs, OwnInv(p), UNCHANGED db, disk' \in Disk, running' \in Disk,
         DOMAIN mpc' = Procs, DOMAIN job' = Procs, Doing(p)',
         \A n \in Names : disk'.conf[n] \in {disk.conf[n], NoFile} \/ Own(disk'.conf[n], n)
  PROVE  OwnInv(p)'
<1>1. Apart' BY DEF OwnInv, Apart, Free, Exists
<1>2. OwnFiles' BY DEF OwnInv, OwnFiles, Own, Exists
<1> QED BY <1>1, <1>2 DEF OwnInv

LEMMA OwnSame ==
  ASSUME NEW p \in Procs, OwnInv(p), UNCHANGED <<db, disk>>, running' \in Disk,
         DOMAIN mpc' = Procs, DOMAIN job' = Procs, Doing(p)'
  PROVE  OwnInv(p)'
<1>1. disk' \in Disk /\ \A n \in Names : disk'.conf[n] = disk.conf[n] BY DEF OwnInv
<1> QED BY <1>1, OwnFilesGo

\* A step that writes a row, or deletes one that has no files.
LEMMA OwnRowGoes ==
  ASSUME RowsOK, NEW p \in Procs, OwnInv(p), UNCHANGED <<disk, running>>,
         DOMAIN mpc' = Procs, DOMAIN job' = Procs, Doing(p)',
         NEW k \in Hosts, NEW r, db' = [db EXCEPT ![k] = r],
         \/ r = Gone /\ FilesIn(k, {})
         \/ r \in Row /\ Free(File(r), k) /\ (Exists(k) => File(r) = File(db[k]))
  PROVE  OwnInv(p)'
<1>1. db'[k] = r /\ \A h \in Hosts \ {k} : db'[h] = db[h] BY DEF RowsOK
<1>2. Apart'
  <2>1. Exists(k)' => Free(File(db'[k]), k) BY <1>1 DEF Exists
  <2> QED BY <1>1, <2>1, StayApart DEF OwnInv
<1>3. ASSUME NEW n \in Names, disk.conf[n] # NoFile PROVE Own(disk.conf[n], n)'
  <2>1. Own(disk.conf[n], n) /\ disk.conf[n].host \in Hosts BY <1>3 DEF OwnInv, OwnFiles, Disk, Datum
  <2>2. CASE disk.conf[n].host = k BY <1>1, <1>3, <2>1, <2>2, RowAssumption DEF Own, Exists, FilesIn
  <2>3. CASE disk.conf[n].host # k BY <1>1, <2>1, <2>3 DEF Own, Exists
  <2> QED BY <2>2, <2>3
<1> QED BY <1>2, <1>3 DEF OwnInv, OwnFiles

\* The client is done.
LEMMA DoesNothing ==
  ASSUME NEW p \in Procs, pc'[p] = "idle", mpc'[p] = "idle" PROVE Doing(p)'
BY DEF Doing, SyncSteps

\* It goes on with its request,
LEMMA DoesRequest ==
  ASSUME NEW p \in Procs, pc'[p] \in Steps \ {"manager", "rereload"}, mpc'[p] = "idle", Asked(p)'
  PROVE  Doing(p)'
BY StepsApart DEF Doing, SyncSteps

\* in the manager,
LEMMA DoesCall ==
  ASSUME NEW p \in Procs, pc'[p] \in {"manager", "rereload"}, Calls(p)',
         (loc'[p].op = "reloader" /\ pc'[p] = "manager") \/ Asked(p)'
  PROVE  Doing(p)'
BY DEF Doing, SyncSteps

\* or synchronises.
LEMMA DoesSync ==
  ASSUME NEW p \in Procs, pc'[p] \in SyncSteps, Synced(p)',
         pc'[p] \notin {"syncTested", "syncReloaded"} => mpc'[p] = "idle"
  PROVE  Doing(p)'
BY StepsApart DEF Doing, Steps, SyncSteps

LEMMA CallMade ==
  ASSUME NEW p \in Procs, OwnInv(p), NEW x \in Datum, NEW n \in Names,
         NEW op \in {"generate", "remove", "test", "reload"}, Call(p, op, x, n),
         op = "generate" => Own(x, x.name)'
  PROVE  /\ Calls(p)' /\ mpc'[p] = "wait" /\ job'[p] \in Called
         /\ job'[p].op = op /\ job'[p].data = x
         /\ DOMAIN mpc' = Procs /\ DOMAIN job' = Procs /\ UNCHANGED <<disk, running>>
<1>1. /\ mpc'[p] = "wait" /\ job'[p] \in Called /\ job'[p].op = op /\ job'[p].data = x
      /\ DOMAIN mpc' = Procs /\ DOMAIN job' = Procs /\ UNCHANGED <<disk, running>>
  BY Calling DEF OwnInv
<1>2. Calls(p)' BY <1>1 DEF Calls
<1> QED BY <1>1, <1>2

\* A request under way on host k, with row r.
LEMMA AskedHere ==
  ASSUME RowsOK, SyncsOK, NEW p \in Procs, OwnInv(p), pc[p] \in Steps \ {"idle"},
         NEW k, NEW r, On(p, k, r)
  PROVE  /\ Asked(p) /\ k \in Hosts /\ (pc[p] # "read" => r \in Row) /\ loc[p].old = NoFile
         /\ disk \in Disk /\ running \in Disk /\ DOMAIN mpc = Procs /\ DOMAIN job = Procs
         /\ DOMAIN db = Hosts /\ DOMAIN pc = Procs /\ DOMAIN loc = Procs
         /\ pc[p] \notin {"manager", "rereload"} => mpc[p] = "idle"
         /\ pc[p] # "insert" => Exists(k) /\ db[k] \in Row
<1>1. LocalOK(p) /\ Variables BY StepsApart DEF SyncsOK, Syncing
<1>2. Asked(p) BY DEF OwnInv, Doing, On
<1>3. k \in Hosts /\ (pc[p] # "read" => r \in Row)
  BY <1>1 DEF LocalOK, Working, Local, Updating, On
<1>4. pc[p] # "insert" => Exists(k) BY <1>2 DEF Asked, On
<1>5. pc[p] \notin {"manager", "rereload"} => mpc[p] = "idle"
  BY StepsApart DEF OwnInv, Doing, SyncSteps
<1> QED BY <1>1, <1>2, <1>3, <1>4, <1>5 DEF Asked, On, OwnInv, RowsOK, Exists, Variables

-----------------------------------------------------------------------------
(* The steps of a request.                                                   *)
LEMMA OwnInsert ==
  ASSUME Recoverable, RowsOK, SyncsOK, NEW p \in Procs, OwnInv(p), NEW k, NEW r, On(p, k, r), Insert(p)
  PROVE  OwnInv(p)'
<1>1. pc[p] = "insert" /\ loc[p].host = k /\ loc[p].row = r BY DEF Insert, On
<1>2. /\ Asked(p) /\ k \in Hosts /\ r \in Row /\ mpc[p] = "idle" /\ loc[p].old = NoFile
      /\ DOMAIN pc = Procs /\ DOMAIN db = Hosts /\ DOMAIN mpc = Procs /\ DOMAIN job = Procs
      /\ running \in Disk
  BY <1>1, AskedHere DEF Steps
<1>3. db[k] = NoRow /\ Free(File(r), k) /\ ~Exists(k) BY <1>1, <1>2 DEF Asked, Exists
<1>4. /\ db' = [db EXCEPT ![k] = r]
      /\ IF r.enabled THEN Call(p, "generate", DataOf(k, r), File(r)) /\ To(p, "manager") /\ UNCHANGED loc
         ELSE Done(p) /\ UNCHANGED managerVars
  BY <1>1 DEF Insert, Recoverable
<1>5. db'[k] = r /\ Exists(k)' BY <1>2, <1>4, RowAssumption DEF Exists
<1>6. CASE r.enabled
  <2> DEFINE x == DataOf(k, r)
  <2>1. x \in Datum /\ x.host = k /\ x.name = File(r) /\ File(r) \in Names BY <1>2, Data
  <2>2. Own(x, x.name)' BY <1>5, <2>1 DEF Own
  <2> HIDE DEF x
  <2>3. /\ Calls(p)' /\ DOMAIN mpc' = Procs /\ DOMAIN job' = Procs /\ UNCHANGED <<disk, running>>
    BY <1>4, <1>6, <2>1, <2>2, CallMade DEF x
  <2>4. pc'[p] = "manager" /\ UNCHANGED loc BY <1>2, <1>4, <1>6 DEF To
  <2>5. loc[p].op = "create" BY <1>1, StepsApart DEF SyncsOK, Syncing, LocalOK, Working, SyncSteps
  <2>6. Asked(p)' BY <1>1, <1>2, <1>5, <2>4, <2>5 DEF Asked
  <2>7. Doing(p)' BY <2>3, <2>4, <2>6, DoesCall
  <2> QED BY <1>2, <1>3, <1>4, <2>3, <2>7, OwnRowGoes
<1>7. CASE ~r.enabled
  <2>1. UNCHANGED <<disk, running, mpc, job>> /\ pc'[p] = "idle"
    BY <1>2, <1>4, <1>7 DEF Done, To, managerVars
  <2>2. Doing(p)' BY <1>2, <2>1, DoesNothing
  <2> QED BY <1>2, <1>3, <1>4, <2>1, <2>2, OwnRowGoes
<1> QED BY <1>6, <1>7

LEMMA OwnRead ==
  ASSUME Recoverable, RowsOK, SyncsOK, NEW p \in Procs, OwnInv(p), NEW k, NEW r, On(p, k, r), Read(p)
  PROVE  OwnInv(p)'
<1>1. pc[p] = "read" /\ loc[p].host = k BY DEF Read, On
<1>2. /\ Asked(p) /\ k \in Hosts /\ mpc[p] = "idle" /\ loc[p].old = NoFile
      /\ DOMAIN pc = Procs /\ DOMAIN loc = Procs /\ DOMAIN mpc = Procs /\ DOMAIN job = Procs
      /\ Exists(k) /\ db[k] \in Row /\ running \in Disk
  BY <1>1, AskedHere DEF Steps
<1>3. loc[p] \in Updating BY <1>1, StepsApart DEF SyncsOK, Syncing, LocalOK, Working, Steps
<1>4. PICK m \in Row : m = Merge(db[k], loc[p].req) /\ File(m) = File(db[k])
  <2>1. loc[p].req \in Requests BY <1>3 DEF Updating
  <2>2. Merge(db[k], loc[p].req).domain = db[k].domain BY <1>2, <2>1 DEF Recoverable, Merge, Row
  <2> QED BY <1>2, <2>1, <2>2, RequestAssumption DEF File
<1>5. /\ loc' = [loc EXCEPT ![p] = [loc[p] EXCEPT !.row = m]] /\ pc' = [pc EXCEPT ![p] = "write"]
      /\ UNCHANGED <<disk, running, mpc, job, db>>
  BY <1>1, <1>2, <1>4 DEF Read, To, managerVars
<1>6. /\ loc'[p].host = k /\ loc'[p].row = m /\ loc'[p].old = NoFile /\ pc'[p] = "write"
      /\ loc'[p].op # "reloader"
  BY <1>1, <1>2, <1>3, <1>5 DEF Updating, Asked
<1>7. Asked(p)' BY <1>2, <1>4, <1>5, <1>6 DEF Asked, Exists
<1>8. Doing(p)' BY <1>2, <1>5, <1>6, <1>7, DoesRequest DEF Steps
<1> QED BY <1>2, <1>5, <1>8, OwnSame

LEMMA OwnWrite ==
  ASSUME Recoverable, RowsOK, SyncsOK, NEW p \in Procs, OwnInv(p), NEW k, NEW r, On(p, k, r), Write(p)
  PROVE  OwnInv(p)'
<1>1. pc[p] = "write" /\ loc[p].host = k /\ loc[p].row = r BY DEF Write, On
<1>2. /\ Asked(p) /\ k \in Hosts /\ r \in Row /\ mpc[p] = "idle" /\ loc[p].old = NoFile
      /\ DOMAIN pc = Procs /\ DOMAIN db = Hosts /\ DOMAIN mpc = Procs /\ DOMAIN job = Procs
      /\ Exists(k)
  BY <1>1, AskedHere DEF Steps
<1>3. File(r) = File(db[k]) /\ Free(File(r), k) BY <1>1, <1>2 DEF Asked, OwnInv, Apart
<1>4. /\ db' = [db EXCEPT ![k] = r] /\ To(p, AfterWrite(loc[p].op)) /\ UNCHANGED loc
      /\ UNCHANGED <<disk, running, mpc, job>>
  BY <1>1, <1>2 DEF Write, Recoverable, managerVars
<1>5. db'[k] = r /\ Exists(k)' BY <1>2, <1>4, RowAssumption DEF Exists
<1>6. pc'[p] \in {"files", "configure"} BY <1>2, <1>4 DEF To, AfterWrite
<1>7. Asked(p)' BY <1>1, <1>2, <1>4, <1>5, <1>6 DEF Asked
<1>8. Doing(p)' BY <1>2, <1>4, <1>6, <1>7, DoesRequest DEF Steps
<1> QED BY <1>2, <1>3, <1>4, <1>8, OwnRowGoes

\* The row goes when its files have gone.
LEMMA OwnRowDeleted ==
  ASSUME Recoverable, RowsOK, SyncsOK, NEW p \in Procs, OwnInv(p), NEW k, NEW r, On(p, k, r),
         UndoRow(p) \/ DeleteRow(p)
  PROVE  OwnInv(p)'
<1>1. pc[p] \in {"undoRow", "deleteRow"} /\ loc[p].host = k BY DEF UndoRow, DeleteRow, On
<1>2. /\ Asked(p) /\ k \in Hosts /\ mpc[p] = "idle" /\ Exists(k)
      /\ DOMAIN pc = Procs /\ DOMAIN mpc = Procs /\ DOMAIN job = Procs
  BY <1>1, AskedHere DEF Steps
<1>3. FilesIn(k, {}) BY <1>1, <1>2 DEF Asked
<1>4. /\ db' = [db EXCEPT ![k] = Gone] /\ Done(p) /\ UNCHANGED <<disk, running, mpc, job>>
  BY <1>1, <1>2 DEF UndoRow, DeleteRow, DeletedRow, Recoverable, managerVars
<1>5. Doing(p)' BY <1>2, <1>4, DoesNothing DEF Done, To
<1> QED BY <1>2, <1>3, <1>4, <1>5, OwnRowGoes

\* A request that writes or removes files of its host.
LEMMA OwnTouches ==
  ASSUME RowsOK, SyncsOK, NEW p \in Procs, OwnInv(p), NEW k \in Hosts, NEW r \in Row, On(p, k, r),
         pc[p] \in {"undoFiles", "files", "waf"}, disk' \in Disk,
         \A n \in Names : disk'.conf[n] \in {disk.conf[n], NoFile}
                         \/ (n = File(r) /\ disk'.conf[n] = DataOf(k, r)),
         UNCHANGED <<running, mpc, job, db, loc>>, NEW s \in {"undoRow", "waf", "retest"},
         pc'[p] = s, s = "undoRow" => FilesIn(k, {})'
  PROVE  OwnInv(p)'
<1>1. /\ Asked(p) /\ mpc[p] = "idle" /\ Exists(k) /\ running \in Disk
      /\ DOMAIN mpc = Procs /\ DOMAIN job = Procs
  BY AskedHere DEF Steps
<1>2. File(r) = File(db[k]) /\ loc[p].host = k /\ loc[p].row = r BY <1>1 DEF Asked, On
<1>3. Own(DataOf(k, r), File(r)) BY <1>1, <1>2 DEF Own, DataOf
<1>4. Asked(p)' BY <1>1, <1>2 DEF Asked, Exists
<1>5. Doing(p)' BY <1>1, <1>4, DoesRequest DEF Steps
<1> QED BY <1>1, <1>3, <1>5, OwnFilesGo

LEMMA OwnRequestFiles ==
  ASSUME Recoverable, RowsOK, SyncsOK, NEW p \in Procs, OwnInv(p), NEW k, NEW r, On(p, k, r),
         UndoFiles(p) \/ WriteFiles(p) \/ WriteWAFFile(p)
  PROVE  OwnInv(p)'
<1>1. pc[p] \in {"undoFiles", "files", "waf"} /\ loc[p].host = k /\ loc[p].row = r
  BY DEF UndoFiles, WriteFiles, WriteWAFFile, On
<1>2. /\ Asked(p) /\ k \in Hosts /\ r \in Row /\ loc[p].old = NoFile /\ disk \in Disk
      /\ DOMAIN pc = Procs /\ Exists(k)
  BY <1>1, AskedHere DEF Steps
<1>3. File(r) = File(db[k]) BY <1>1, <1>2 DEF Asked
<1> DEFINE x == DataOf(k, r)
<1>4. x \in Datum /\ x.host = k /\ x.name = File(r) /\ File(r) \in Names BY <1>2, Data
<1> HIDE DEF x
<1>5. ~Renamed(loc[p]) BY <1>2 DEF Renamed
<1>6. CASE UndoFiles(p)
  <2>1. /\ disk' = WithoutConfig(disk, x) /\ pc'[p] = "undoRow"
        /\ UNCHANGED <<running, mpc, job, db, loc>> /\ r \in Row
    BY <1>1, <1>2, <1>6 DEF UndoFiles, To, x
  <2>2. /\ disk' \in Disk /\ disk'.conf[File(r)] = NoFile
        /\ \A n \in Names : disk'.conf[n] \in {disk.conf[n], NoFile}
    BY <1>2, <1>4, <2>1, ConfigRemoved
  <2>3. FilesIn(k, {})'
    <3>1. \A n \in Names \ {File(r)} : disk.conf[n] # NoFile => disk.conf[n].host # k
      BY <1>3 DEF OwnInv, OwnFiles, Own
    <3> QED BY <2>2, <3>1 DEF FilesIn
  <2> QED BY <1>1, <1>2, <2>1, <2>2, <2>3, OwnTouches
<1>7. CASE WriteFiles(p)
  <2>1. PICK e \in Disk : e.conf = disk.conf /\ e = WithInclude(disk, x) BY <1>2, <1>4, IncludeWritten
  <2>2. /\ disk' \in {WithConf(e, x), WithoutConfig(disk, x)}
        /\ pc'[p] \in {"waf", "retest"} /\ UNCHANGED <<running, mpc, job, db, loc>> /\ r \in Row
    BY <1>1, <1>2, <1>7, <2>1 DEF WriteFiles, To, x
  <2>3. /\ disk' \in Disk
        /\ \A n \in Names : disk'.conf[n] \in {disk.conf[n], NoFile}
                            \/ (n = File(r) /\ disk'.conf[n] = x)
    <3>1. CASE disk' = WithConf(e, x) BY <1>4, <2>1, <3>1, ConfWritten
    <3>2. CASE disk' = WithoutConfig(disk, x) BY <1>2, <1>4, <3>2, ConfigRemoved
    <3> QED BY <2>2, <3>1, <3>2
  <2> QED BY <1>1, <1>2, <2>2, <2>3, OwnTouches DEF x
<1>8. CASE WriteWAFFile(p)
  <2>1. PICK w \in BOOLEAN : w = r.waf BY <1>2 DEF Row
  <2>2. /\ disk' = WithWAF(disk, x, w) /\ pc'[p] = "retest"
        /\ UNCHANGED <<running, mpc, job, db, loc>> /\ r \in Row
    BY <1>1, <1>2, <1>5, <1>8, <2>1 DEF WriteWAFFile, To, x
  <2>3. disk' \in Disk /\ disk'.conf = disk.conf BY <1>2, <1>4, <2>1, <2>2, WAFWritten
  <2> QED BY <1>1, <1>2, <2>2, <2>3, OwnTouches
<1> QED BY <1>6, <1>7, <1>8

\* A request calls the manager.
LEMMA OwnConfigures ==
  ASSUME Recoverable, RowsOK, SyncsOK, NEW p \in Procs, OwnInv(p), NEW k, NEW r, On(p, k, r),
         ConfigureEnabled(p) \/ ConfigureDisabled(p) \/ ConfigureRow(p)
  PROVE  OwnInv(p)'
<1>1. pc[p] = "configure" /\ loc[p].host = k /\ loc[p].row = r
  BY DEF ConfigureEnabled, ConfigureDisabled, ConfigureRow, On
<1>2. /\ Asked(p) /\ k \in Hosts /\ r \in Row /\ loc[p].old = NoFile /\ mpc[p] = "idle" /\ Exists(k)
      /\ DOMAIN pc = Procs /\ running \in Disk
  BY <1>1, AskedHere DEF Steps
<1>3. File(r) = File(db[k]) BY <1>1, <1>2 DEF Asked
<1> DEFINE x == DataOf(k, r)
<1>4. x \in Datum /\ x.host = k /\ x.name = File(r) /\ File(r) \in Names BY <1>2, Data
<1>5. UNCHANGED <<db, loc>> /\ pc'[p] = "manager"
  BY <1>2 DEF ConfigureEnabled, ConfigureDisabled, ConfigureRow, To
<1>6. Own(x, x.name)' BY <1>2, <1>3, <1>4, <1>5 DEF Own, Exists
<1> HIDE DEF x
<1>7. PICK op \in {"generate", "remove"} : Call(p, op, x, File(r)) /\ (loc[p].op = "delete" => op = "remove")
  BY <1>1, <1>2 DEF ConfigureEnabled, ConfigureDisabled, ConfigureRow, Renamed, x, Call
<1>8. /\ Calls(p)' /\ mpc'[p] = "wait" /\ job'[p].op = op /\ job'[p].data = x
      /\ DOMAIN mpc' = Procs /\ DOMAIN job' = Procs /\ UNCHANGED <<disk, running>>
  BY <1>4, <1>6, <1>7, CallMade
<1>9. Asked(p)' BY <1>1, <1>2, <1>3, <1>4, <1>5, <1>7, <1>8 DEF Asked, Removes, Exists
<1>10. Doing(p)' BY <1>5, <1>8, <1>9, DoesCall
<1> QED BY <1>2, <1>5, <1>8, <1>10, OwnSame

\* UpdateDBOnly leaves the files of a name that stays.
LEMMA OwnCleanup ==
  ASSUME Recoverable, RowsOK, SyncsOK, NEW p \in Procs, OwnInv(p), NEW k, NEW r, On(p, k, r),
         CleanupDBOnly(p)
  PROVE  OwnInv(p)'
<1>1. pc[p] = "configure" BY DEF CleanupDBOnly
<1>2. loc[p].old = NoFile /\ mpc[p] = "idle" /\ DOMAIN pc = Procs /\ running \in Disk
      /\ DOMAIN mpc = Procs /\ DOMAIN job = Procs
  BY <1>1, AskedHere DEF Steps
<1>3. pc'[p] = "idle" /\ UNCHANGED <<disk, running, mpc, job, db>>
  BY <1>2 DEF CleanupDBOnly, Renamed, Done, To
<1>4. Doing(p)' BY <1>2, <1>3, DoesNothing
<1> QED BY <1>2, <1>3, <1>4, OwnSame

LEMMA OwnRetests ==
  ASSUME Recoverable, RowsOK, SyncsOK, NEW p \in Procs, OwnInv(p), NEW k, NEW r, On(p, k, r),
         CallTest(p) \/ Tested(p)
  PROVE  OwnInv(p)'
<1>1. /\ pc[p] \in {"retest", "rereload"} /\ loc[p].host = k /\ loc[p].row = r
      /\ AnyData \in Datum /\ AnyData.name \in Names
  BY AnyDatum DEF CallTest, Tested, On, Datum
<1>2. /\ Asked(p) /\ k \in Hosts /\ r \in Row /\ loc[p].old = NoFile /\ Exists(k)
      /\ DOMAIN pc = Procs /\ DOMAIN loc = Procs /\ DOMAIN mpc = Procs /\ DOMAIN job = Procs
      /\ running \in Disk
  BY <1>1, AskedHere DEF Steps
<1>3. File(r) = File(db[k]) /\ UNCHANGED db BY <1>1, <1>2 DEF Asked, CallTest, Tested
<1>4. CASE CallTest(p)
  <2>1. Call(p, "test", AnyData, AnyData.name) BY <1>4 DEF CallTest
  <2>2. /\ Calls(p)' /\ DOMAIN mpc' = Procs /\ DOMAIN job' = Procs /\ UNCHANGED <<disk, running>>
    BY <1>1, <2>1, CallMade
  <2>3. pc'[p] = "rereload" /\ UNCHANGED loc BY <1>2, <1>4 DEF CallTest, To
  <2>4. Asked(p)' BY <1>1, <1>2, <1>3, <2>3 DEF Asked, Exists
  <2>5. Doing(p)' BY <2>2, <2>3, <2>4, DoesCall
  <2> QED BY <1>2, <1>3, <2>2, <2>5, OwnSame
<1>5. CASE Tested(p)
  <2>1. CASE Done(p) /\ (Result(p, "ok") \/ Result(p, "err"))
    <3>1. pc'[p] = "idle" /\ mpc'[p] = "idle" /\ UNCHANGED <<disk, running, job>>
          /\ DOMAIN mpc' = Procs
      BY <1>2, <2>1 DEF Done, To, Result
    <3>2. Doing(p)' BY <3>1, DoesNothing
    <3> QED BY <1>2, <1>3, <3>1, <3>2, OwnSame
  <2>2. CASE /\ loc[p].op = "update" /\ Call(p, "reload", AnyData, AnyData.name)
             /\ loc' = [loc EXCEPT ![p].old = NoFile] /\ To(p, "manager")
    <3>1. /\ Calls(p)' /\ DOMAIN mpc' = Procs /\ DOMAIN job' = Procs /\ UNCHANGED <<disk, running>>
      BY <1>1, <2>2, CallMade
    <3>2. pc'[p] = "manager" BY <1>2, <2>2 DEF To
    <3>3. /\ loc'[p].host = k /\ loc'[p].row = r /\ loc'[p].old = NoFile /\ loc'[p].op = "update"
      <4>1. loc[p] \in Local \cup Updating
        BY <1>1, StepsApart DEF SyncsOK, Syncing, LocalOK, Working, Steps
      <4> QED BY <1>1, <1>2, <2>2, <4>1 DEF Local, Updating
    <3>4. Asked(p)' BY <1>2, <1>3, <3>2, <3>3 DEF Asked, Exists
    <3>5. Doing(p)' BY <3>1, <3>2, <3>4, DoesCall
    <3> QED BY <1>2, <1>3, <3>1, <3>5, OwnSame
  <2> QED BY <1>5, <2>1, <2>2 DEF Tested
<1> QED BY <1>4, <1>5

\* The result of the manager.
LEMMA OwnResult ==
  ASSUME Recoverable, RowsOK, SyncsOK, NEW p \in Procs, OwnInv(p), pc[p] = "manager",
         Succeeded(p) \/ Failed(p)
  PROVE  OwnInv(p)'
<1>1. LocalOK(p) /\ Variables BY StepsApart DEF SyncsOK, Syncing, Steps
<1>2. /\ DOMAIN mpc = Procs /\ DOMAIN job = Procs /\ DOMAIN pc = Procs /\ running \in Disk
      /\ loc[p].op = "reloader" \/ Asked(p)
  BY <1>1 DEF OwnInv, Doing, Variables, Steps
<1>3. /\ mpc' = [mpc EXCEPT ![p] = "idle"] /\ mpc'[p] = "idle"
      /\ UNCHANGED <<disk, running, job, db>> /\ mpc[p] \in {"ok", "err"}
      /\ DOMAIN mpc' = Procs /\ DOMAIN job' = Procs
  BY <1>2 DEF Succeeded, Failed, Result
<1>4. CASE Done(p)
  <2>1. Doing(p)' BY <1>2, <1>3, <1>4, DoesNothing DEF Done, To
  <2> QED BY <1>2, <1>3, <2>1, OwnSame
<1>5. CASE loc[p].op = "delete" /\ mpc[p] = "ok" /\ UNCHANGED loc /\ To(p, "deleteRow")
  <2>1. Asked(p) /\ FilesIn(loc[p].host, {}) BY <1>2, <1>5 DEF Asked, Removes
  <2>2. FilesIn(loc[p].host, {})' BY <1>3, <1>5, <2>1, StaysIn
  <2>3. pc'[p] = "deleteRow" BY <1>2, <1>5 DEF To
  <2>4. Asked(p)' BY <1>3, <1>5, <2>1, <2>2, <2>3 DEF Asked, Exists
  <2>5. Doing(p)' BY <1>3, <2>3, <2>4, DoesRequest DEF Steps
  <2> QED BY <1>2, <1>3, <2>5, OwnSame
<1>6. CASE /\ loc[p].op \in {"create", "update"} /\ UNCHANGED loc
           /\ \E s \in {"undoFiles", "retest"} : To(p, s)
  <2>1. Asked(p) BY <1>2, <1>6
  <2>2. pc'[p] \in {"undoFiles", "retest"} BY <1>2, <1>6 DEF To
  <2>3. Asked(p)' BY <1>3, <1>6, <2>1, <2>2 DEF Asked, Exists
  <2>4. Doing(p)' BY <1>3, <2>2, <2>3, DoesRequest DEF Steps
  <2> QED BY <1>2, <1>3, <2>4, OwnSame
<1>7. CASE Succeeded(p)
  <2>1. loc[p].op \in {"create", "update", "refresh", "regenerate", "delete", "reloader"}
    BY <1>1 DEF LocalOK, Working
  <2>2. Done(p) \/ (loc[p].op = "delete" /\ mpc[p] = "ok" /\ UNCHANGED loc /\ To(p, "deleteRow"))
    BY <1>7, <2>1 DEF Succeeded, Result
  <2> QED BY <1>4, <1>5, <2>2
<1>8. CASE Failed(p)
  <2>1. Done(p) \/ /\ loc[p].op \in {"create", "update"} /\ UNCHANGED loc
                   /\ \E s \in {"undoFiles", "retest"} : To(p, s)
    BY <1>8 DEF Failed
  <2> QED BY <1>4, <1>6, <2>1
<1> QED BY <1>7, <1>8

LEMMA OwnService ==
  ASSUME Recoverable, RowsOK, SyncsOK, NEW p \in Procs, OwnInv(p), Service(p)
  PROVE  OwnInv(p)'
<1>1. pc[p] \notin SyncSteps BY NotARequest
<1>2. LocalOK(p) BY <1>1 DEF SyncsOK, Syncing
<1>3. CASE pc[p] = "manager"
  BY <1>3, OwnResult DEF Service, Insert, UndoFiles, UndoRow, Read, Write, ConfigureEnabled,
     ConfigureDisabled, CleanupDBOnly, WriteFiles, WriteWAFFile, CallTest, Tested, Abandon,
     ConfigureRow, DeleteRow, Restore
<1>4. CASE pc[p] # "manager"
  <2>1. ~Abandon(p) /\ ~Succeeded(p) /\ ~Failed(p)
    BY <1>4 DEF Abandon, Recoverable, Succeeded, Failed
  <2>2. pc[p] # "idle"
    BY <2>1 DEF Service, Insert, UndoFiles, UndoRow, Read, Write, ConfigureEnabled,
       ConfigureDisabled, CleanupDBOnly, WriteFiles, WriteWAFFile, CallTest, Tested,
       ConfigureRow, DeleteRow, Restore
  <2>3. pc[p] \in Steps \ {"idle"} BY <1>2, <2>2 DEF LocalOK
  <2>4. Asked(p) BY <1>4, <2>3 DEF OwnInv, Doing
  <2>5. ~Restore(p) BY <2>4 DEF Asked, Restore
  <2>6. PICK k, r : On(p, k, r) BY <2>2, <2>4 DEF Asked, On
  <2> QED BY <2>1, <2>5, <2>6, OwnInsert, OwnRead, OwnWrite, OwnRowDeleted, OwnRequestFiles,
          OwnConfigures, OwnCleanup, OwnRetests DEF Service
<1> QED BY <1>3, <1>4

-----------------------------------------------------------------------------
(* The steps of the manager.                                                 *)

\* In the call of a request.
LEMMA OwnCallGoes ==
  ASSUME NEW p \in Procs, OwnInv(p), pc[p] \in {"manager", "rereload"}, UNCHANGED serviceVars,
         disk' \in Disk, running' \in Disk, DOMAIN mpc' = Procs, DOMAIN job' = Procs, Calls(p)',
         \A n \in Names : disk'.conf[n] \in {disk.conf[n], NoFile} \/ Own(disk'.conf[n], n),
         Asked(p) /\ pc[p] = "manager" /\ loc[p].op = "delete" => Removes(p)'
  PROVE  OwnInv(p)'
<1>1. UNCHANGED <<db, pc, loc>> BY DEF serviceVars
<1>2. (loc[p].op = "reloader" /\ pc[p] = "manager") \/ Asked(p) BY DEF OwnInv, Doing, Steps
<1>3. Asked(p) => Asked(p)' BY <1>1 DEF Asked, Exists
<1>4. Doing(p)' BY <1>1, <1>2, <1>3, DoesCall
<1> QED BY <1>1, <1>4, OwnFilesGo

LEMMA OwnAcquire ==
  ASSUME NEW p \in Procs, OwnInv(p), pc[p] \in {"manager", "rereload"}, UNCHANGED serviceVars, Acquire(p)
  PROVE  OwnInv(p)'
<1>1. /\ DOMAIN mpc = Procs /\ DOMAIN job = Procs /\ disk \in Disk /\ running \in Disk /\ mpc[p] = "wait"
      /\ Calls(p) /\ UNCHANGED <<db, loc>>
  BY DEF OwnInv, Doing, Acquire, serviceVars
<1>2. PICK j \in Called : /\ j = job[p] /\ j.op # "cleanup"
                          /\ j.op = "generate" => Own(j.data, j.data.name)
  BY <1>1 DEF Calls
<1>3. PICK i \in Called :
        /\ i = job'[p] /\ i.op = j.op /\ i.data = j.data /\ i.savedConf = disk.conf[j.data.name]
        /\ mpc'[p] = FirstStep(j.op) /\ DOMAIN mpc' = Procs /\ DOMAIN job' = Procs
        /\ UNCHANGED <<disk, running>>
  BY <1>1, <1>2, Taken
<1>4. j.data.name \in Names /\ j.op \in {"generate", "remove", "test", "reload"}
  BY <1>2 DEF Called, Datum
<1>5. mpc'[p] = IF j.op = "generate" THEN "include" ELSE j.op BY <1>3, <1>4 DEF FirstStep
<1>6. i.savedConf # NoFile => Own(i.savedConf, i.data.name) BY <1>3, <1>4 DEF OwnInv, OwnFiles
<1>7. Calls(p)' BY <1>1, <1>2, <1>3, <1>4, <1>5, <1>6 DEF Calls, Own, Exists
<1>8. Removes(p) => Removes(p)' BY <1>1, <1>2, <1>3, <1>4, <1>5 DEF Removes
<1>9. Asked(p) /\ pc[p] = "manager" /\ loc[p].op = "delete" => Removes(p) BY DEF Asked
<1>10. disk' \in Disk /\ \A n \in Names : disk'.conf[n] = disk.conf[n] BY <1>1, <1>3
<1> QED BY <1>1, <1>3, <1>7, <1>8, <1>9, <1>10, OwnCallGoes

\* What there is to know of it.
LEMMA AtCall ==
  ASSUME NEW p \in Procs, OwnInv(p), pc[p] \in {"manager", "rereload"}, mpc[p] \notin {"ok", "err"}
  PROVE  /\ DOMAIN mpc = Procs /\ DOMAIN job = Procs /\ disk \in Disk /\ running \in Disk /\ Calls(p)
         /\ job[p] \in Called /\ job[p].data \in Datum /\ job[p].data.name \in Names
         /\ job[p].op \in {"generate", "remove", "test", "reload"}
         /\ Asked(p) /\ pc[p] = "manager" /\ loc[p].op = "delete" => Removes(p)
<1>1. Calls(p) BY DEF OwnInv, Doing
<1>2. job[p] \in Called /\ job[p].op # "cleanup" BY <1>1 DEF Calls
<1>3. Asked(p) /\ pc[p] = "manager" /\ loc[p].op = "delete" => Removes(p) BY DEF Asked
<1> QED BY <1>1, <1>2, <1>3 DEF OwnInv, Called, Datum

LEMMA OwnWrites ==
  ASSUME NEW p \in Procs, OwnInv(p), pc[p] \in {"manager", "rereload"}, UNCHANGED serviceVars,
         WriteInclude(p) \/ WriteConf(p) \/ WriteWAF(p)
  PROVE  OwnInv(p)'
<1> DEFINE j == job[p]
           x == j.data
<1>1. mpc[p] \in {"include", "conf", "waf"} BY DEF WriteInclude, WriteConf, WriteWAF
<1>2. /\ DOMAIN mpc = Procs /\ DOMAIN job = Procs /\ disk \in Disk /\ running \in Disk /\ Calls(p)
      /\ j \in Called /\ x \in Datum /\ x.name \in Names
      /\ Asked(p) /\ pc[p] = "manager" /\ loc[p].op = "delete" => Removes(p)
  BY <1>1, AtCall
<1>3. j.op = "generate" /\ Own(x, x.name) BY <1>1, <1>2 DEF Calls
<1>4. UNCHANGED <<running, job, db, loc>> BY DEF WriteInclude, WriteConf, WriteWAF, Goto, serviceVars
<1>5. mpc'[p] \in {"conf", "waf", "test"} /\ DOMAIN mpc' = Procs
  BY <1>2, <1>3 DEF WriteInclude, WriteConf, WriteWAF, Goto
<1>6. Calls(p)' BY <1>1, <1>2, <1>3, <1>4, <1>5 DEF Calls, Own, Exists
<1>7. ~Removes(p) BY <1>1, <1>3 DEF Removes
<1>8. disk' \in Disk /\ \A n \in Names : disk'.conf[n] = disk.conf[n] \/ Own(disk'.conf[n], n)
  <2>1. CASE WriteInclude(p) BY <1>2, <2>1, IncludeWritten DEF WriteInclude
  <2>2. CASE WriteConf(p) BY <1>2, <1>3, <2>2, ConfWritten DEF WriteConf
  <2>3. CASE WriteWAF(p)
    <3>1. PICK w \in BOOLEAN : disk' = WithWAF(disk, x, w) BY <1>2, <1>3, <2>3 DEF WriteWAF, Datum
    <3> QED BY <1>2, <3>1, WAFWritten
  <2> QED BY <2>1, <2>2, <2>3
<1> QED BY <1>2, <1>4, <1>5, <1>6, <1>7, <1>8, OwnCallGoes

LEMMA OwnRemoves ==
  ASSUME NEW p \in Procs, OwnInv(p), pc[p] \in {"manager", "rereload"}, UNCHANGED serviceVars,
         RemoveFiles(p)
  PROVE  OwnInv(p)'
<1> DEFINE j == job[p]
           x == j.data
<1>1. mpc[p] = "remove" BY DEF RemoveFiles
<1>2. /\ DOMAIN mpc = Procs /\ DOMAIN job = Procs /\ disk \in Disk /\ running \in Disk /\ Calls(p)
      /\ j \in Called /\ x \in Datum /\ x.name \in Names
      /\ Asked(p) /\ pc[p] = "manager" /\ loc[p].op = "delete" => Removes(p)
  BY <1>1, AtCall
<1>3. j.op = "remove" BY <1>1, <1>2 DEF Calls
<1>4. UNCHANGED <<running, job, db, loc, pc>> BY DEF RemoveFiles, Goto, serviceVars
<1>5. mpc'[p] = "test" /\ DOMAIN mpc' = Procs BY <1>2 DEF RemoveFiles, Goto
<1>6. Calls(p)' BY <1>2, <1>3, <1>4, <1>5 DEF Calls
<1>7. /\ disk' \in Disk /\ disk'.conf[x.name] = NoFile
      /\ \A n \in Names : disk'.conf[n] \in {disk.conf[n], NoFile}
  BY <1>2, ConfigRemoved DEF RemoveFiles
<1>8. ASSUME Asked(p), pc[p] = "manager", loc[p].op = "delete" PROVE Removes(p)'
  <2>1. x.name = File(loc[p].row) /\ Removes(p) BY <1>1, <1>2, <1>8 DEF Removes
  <2>2. x.name = File(db[loc[p].host]) BY <1>8, <2>1 DEF Asked
  <2>3. FilesIn(loc[p].host, {})' BY <1>4, <1>7, <2>2 DEF FilesIn, OwnInv, OwnFiles, Own
  <2> QED BY <1>1, <1>4, <1>5, <2>1, <2>3 DEF Removes
<1> QED BY <1>2, <1>4, <1>5, <1>6, <1>7, <1>8, OwnCallGoes

\* nginx answers: no file changes.
LEMMA OwnNginx ==
  ASSUME NEW p \in Procs, OwnInv(p), pc[p] \in {"manager", "rereload"}, UNCHANGED serviceVars,
         TestConfig(p) \/ ReloadNginx(p) \/ Cancel(p)
  PROVE  OwnInv(p)'
<1>1. mpc[p] \in {"test", "reload", "wait"} BY DEF TestConfig, ReloadNginx, Cancel
<1>2. /\ DOMAIN mpc = Procs /\ DOMAIN job = Procs /\ disk \in Disk /\ running \in Disk /\ Calls(p)
      /\ job[p] \in Called /\ job[p].op \in {"generate", "remove", "test", "reload"}
      /\ Asked(p) /\ pc[p] = "manager" /\ loc[p].op = "delete" => Removes(p)
  BY <1>1, AtCall
<1>3. UNCHANGED <<disk, db, loc, pc>> /\ running' \in {running, disk}
  BY DEF TestConfig, ReloadNginx, Cancel, serviceVars
<1>4. DOMAIN mpc' = Procs /\ DOMAIN job' = Procs
  BY <1>2 DEF TestConfig, ReloadNginx, Cancel, Goto, Return, Fail
<1>5. \/ mpc'[p] \in {"ok", "err"} /\ (mpc'[p] = "ok" => mpc[p] # "wait")
      \/ mpc'[p] = "reload" /\ UNCHANGED job /\ mpc[p] = "test"
      \/ mpc'[p] = "rollback" /\ UNCHANGED job /\ mpc[p] # "wait" /\ job[p].op = "generate"
  BY <1>1, <1>2 DEF TestConfig, ReloadNginx, Cancel, Goto, Return, Fail, HasRollback
<1>6. Calls(p)' BY <1>1, <1>2, <1>3, <1>5 DEF Calls, Own, Exists
<1>7. FilesIn(loc[p].host, {}) => FilesIn(loc[p].host, {})' BY <1>3 DEF FilesIn
<1>8. Removes(p) => Removes(p)' BY <1>1, <1>3, <1>5, <1>7 DEF Removes
<1>9. disk' \in Disk /\ \A n \in Names : disk'.conf[n] = disk.conf[n] BY <1>2, <1>3
<1>10. running' \in Disk BY <1>2, <1>3
<1> QED BY <1>2, <1>4, <1>6, <1>8, <1>9, <1>10, OwnCallGoes

\* What is restored is the host's own.
LEMMA OwnRollback ==
  ASSUME NEW p \in Procs, OwnInv(p), pc[p] \in {"manager", "rereload"}, UNCHANGED serviceVars,
         Rollback(p)
  PROVE  OwnInv(p)'
<1> DEFINE j == job[p]
           x == j.data
<1>1. mpc[p] = "rollback" BY DEF Rollback
<1>2. /\ DOMAIN mpc = Procs /\ DOMAIN job = Procs /\ disk \in Disk /\ running \in Disk /\ Calls(p)
      /\ j \in Called /\ x \in Datum /\ x.name \in Names
      /\ Asked(p) /\ pc[p] = "manager" /\ loc[p].op = "delete" => Removes(p)
  BY <1>1, AtCall
<1>3. j.op = "generate" /\ (j.savedConf # NoFile => Own(j.savedConf, x.name)) BY <1>1, <1>2 DEF Calls
<1>4. UNCHANGED <<running, db, loc>> /\ mpc'[p] = "err" /\ DOMAIN mpc' = Procs /\ DOMAIN job' = Procs
  BY <1>2 DEF Rollback, Return, serviceVars
<1>5. disk' = RestoredGenerate(disk, j) BY <1>3 DEF Rollback, Restored
<1>6. /\ j.savedConf \in Datum \cup {NoFile} /\ j.savedWaf \in Bodies \cup {NoFile} /\ x.host \in Hosts
  BY <1>2 DEF Called, Datum
<1>7. /\ disk' \in Disk
      /\ \A n \in Names : disk'.conf[n] = IF n = x.name THEN j.savedConf ELSE disk.conf[n]
  BY <1>2, <1>5, <1>6 DEF RestoredGenerate, Disk
<1>8. Calls(p)' BY <1>4 DEF Calls
<1>9. ~Removes(p) BY <1>1, <1>3 DEF Removes
<1> QED BY <1>2, <1>3, <1>4, <1>7, <1>8, <1>9, OwnCallGoes

\* In a synchronisation.
LEMMA SyncedHere ==
  ASSUME RowsOK, SyncsOK, NEW p \in Procs, OwnInv(p), pc[p] \in SyncSteps
  PROVE  /\ Synced(p) /\ Syncing(pc[p], loc[p]) /\ Variables /\ DOMAIN db = Hosts
         /\ disk \in Disk /\ running \in Disk /\ DOMAIN mpc = Procs /\ DOMAIN job = Procs
         /\ DOMAIN pc = Procs /\ DOMAIN loc = Procs
         /\ pc[p] \notin {"syncTested", "syncReloaded"} => mpc[p] = "idle"
         /\ \A h \in DOMAIN loc[p].rows :
              h \in Hosts /\ loc[p].rows[h] = db[h] /\ db[h] \in Row /\ Exists(h)
         /\ \A h \in Hosts : Exists(h) /\ db[h].enabled => h \in DOMAIN loc[p].rows
<1>1. Synced(p) /\ (pc[p] \notin {"syncTested", "syncReloaded"} => mpc[p] = "idle")
  BY DEF OwnInv, Doing, SyncSteps
<1>2. Syncing(pc[p], loc[p]) /\ Variables BY StepsApart DEF SyncsOK, LocalOK
<1>3. loc[p].rows = [h \in {g \in Hosts : Exists(g) /\ db[g].enabled} |-> db[h]] BY <1>1 DEF Synced, List
<1>4. /\ \A h \in DOMAIN loc[p].rows :
              h \in Hosts /\ loc[p].rows[h] = db[h] /\ db[h] \in Row /\ Exists(h)
      /\ \A h \in Hosts : Exists(h) /\ db[h].enabled => h \in DOMAIN loc[p].rows
  BY <1>3 DEF RowsOK, Exists
<1> QED BY <1>1, <1>2, <1>4 DEF OwnInv, RowsOK, Variables

\* The list stays, and what has been generated from it.
LEMMA SameList ==
  ASSUME NEW p \in Procs, List(p), UNCHANGED db, loc'[p].rows = loc[p].rows,
         loc'[p].failed \subseteq loc[p].failed \cup Bad(loc[p])
  PROVE  List(p)'
<1>1. Bad(loc'[p]) = Bad(loc[p]) BY DEF Bad
<1>2. {g \in Hosts : Exists(g) /\ db[g].enabled}' = {g \in Hosts : Exists(g) /\ db[g].enabled}
  BY DEF Exists
<1> QED BY <1>1, <1>2 DEF List

LEMMA SameGenerated ==
  ASSUME NEW p \in Procs, Generated(p), UNCHANGED disk, loc'[p] = loc[p], loc[p].todo = {},
         pc[p] \notin {"syncWAF", "syncRecord"}, pc'[p] \notin {"syncWAF", "syncRecord"}
  PROVE  Generated(p)'
<1>1. \A x : Written(disk', x) <=> Written(disk, x) BY DEF Written
<1>2. /\ \A h \in loc[p].failed : disk'.conf[File(loc[p].rows[h])] = NoFile
      /\ \A h \in DOMAIN loc[p].rows \ (loc[p].todo \cup loc[p].failed) :
           Written(disk', DataOf(h, loc[p].rows[h]))
  BY <1>1 DEF Generated
<1> QED BY <1>2 DEF Generated, DataOf

LEMMA OwnSyncManager ==
  ASSUME RowsOK, SyncsOK, NEW p \in Procs, OwnInv(p), pc[p] \in {"syncTested", "syncReloaded"},
         UNCHANGED serviceVars, Acquire(p) \/ Step(p) \/ Cancel(p)
  PROVE  OwnInv(p)'
<1> DEFINE l == loc[p]
           at == IF pc[p] = "syncTested" THEN "test" ELSE "reload"
<1>1. pc[p] \in SyncSteps /\ UNCHANGED <<db, pc, loc>> BY DEF SyncSteps, serviceVars
<1>2. /\ Synced(p) /\ Syncing(pc[p], l) /\ disk \in Disk /\ running \in Disk /\ DOMAIN mpc = Procs
      /\ DOMAIN job = Procs /\ l.todo = {}
  BY <1>1, SyncedHere DEF Synced, Generated
<1>3. /\ mpc[p] \in {"wait", at, "ok", "err"}
      /\ mpc[p] \in {"wait", at} => job[p] \in Called /\ job[p].op = at
  BY <1>2 DEF Synced, Answered
<1>4. /\ UNCHANGED disk /\ running' \in {running, disk} /\ DOMAIN mpc' = Procs /\ DOMAIN job' = Procs
      /\ mpc'[p] \in {at, "ok", "err"}
      /\ mpc'[p] = at => job'[p] \in Called /\ job'[p].op = at
      /\ mpc'[p] = "ok" /\ at = "reload" => running' = disk
  <2>1. CASE Acquire(p)
    <3>1. mpc[p] = "wait" BY <2>1 DEF Acquire
    <3>2. /\ mpc'[p] = FirstStep(at) /\ DOMAIN mpc' = Procs /\ DOMAIN job' = Procs
          /\ job'[p] \in Called /\ job'[p].op = at /\ UNCHANGED <<disk, running>>
      BY <1>2, <1>3, <2>1, <3>1, Taken
    <3> QED BY <3>2 DEF FirstStep
  <2>2. CASE Step(p)
    <3>1. (TestConfig(p) /\ at = "test") \/ (ReloadNginx(p) /\ at = "reload")
      BY <1>3, <2>2 DEF Step, WriteInclude, WriteConf, WriteWAF, RemoveOld, RemoveFiles, FileError,
         Writing, TestConfig, ReloadNginx, Rollback
    <3>2. mpc[p] = at BY <3>1 DEF TestConfig, ReloadNginx
    <3> QED BY <1>2, <1>3, <3>1, <3>2 DEF TestConfig, ReloadNginx, Return, Fail, HasRollback
  <2>3. CASE Cancel(p) BY <1>2, <2>3 DEF Cancel
  <2> QED BY <2>1, <2>2, <2>3
<1>5. ASSUME at = "reload", mpc'[p] = "ok", NEW h \in DOMAIN l.rows \ l.failed
      PROVE  Written(running', DataOf(h, l.rows[h]))
  <2>1. Written(disk, DataOf(h, l.rows[h])) BY <1>1, <1>2, <1>5 DEF Synced, Generated
  <2> QED BY <1>4, <1>5, <2>1
<1>6. Synced(p)'
  <2>1. List(p)' BY <1>1, <1>2, SameList DEF Synced
  <2>2. Generated(p)' BY <1>1, <1>2, <1>4, SameGenerated DEF Synced
  <2>3. Answered(p)' BY <1>1, <1>4, <1>5 DEF Answered, DataOf
  <2> QED BY <2>1, <2>2, <2>3 DEF Synced
<1>7. running' \in Disk BY <1>2, <1>4
<1>8. Doing(p)' BY <1>1, <1>6, DoesSync
<1> QED BY <1>1, <1>4, <1>7, <1>8, OwnSame

LEMMA OwnManager ==
  ASSUME Recoverable, RowsOK, SyncsOK, NEW p \in Procs, OwnInv(p), ManagerStep(p) \/ CancelCall(p)
  PROVE  OwnInv(p)'
<1>1. UNCHANGED serviceVars /\ (Acquire(p) \/ Step(p) \/ Cancel(p)) BY DEF ManagerStep, CancelCall
<1>2. mpc[p] # "idle"
  BY <1>1 DEF Acquire, Cancel, Step, WriteInclude, WriteConf, WriteWAF, RemoveOld, RemoveFiles, FileError,
     Writing, TestConfig, ReloadNginx, Rollback
<1>3. CASE pc[p] \in {"syncTested", "syncReloaded"} BY <1>1, <1>3, OwnSyncManager
<1>4. CASE pc[p] \in {"manager", "rereload"}
  <2>1. ~RemoveOld(p) /\ ~FileError(p)
    <3>1. Calls(p) BY <1>4 DEF OwnInv, Doing
    <3> QED BY <3>1 DEF Calls, RemoveOld, FileError, Recoverable
  <2> QED BY <1>1, <1>4, <2>1, OwnAcquire, OwnWrites, OwnRemoves, OwnNginx, OwnRollback DEF Step
<1> QED BY <1>2, <1>3, <1>4 DEF OwnInv, Doing

-----------------------------------------------------------------------------
(* The steps of a synchronisation.                                           *)

\* The data of two hosts of the list are apart.
LEMMA ListData ==
  ASSUME RowsOK, SyncsOK, NEW p \in Procs, OwnInv(p), pc[p] \in SyncSteps,
         NEW h \in DOMAIN loc[p].rows
  PROVE  LET r == loc[p].rows[h]
             x == DataOf(h, r)
         IN /\ h \in Hosts /\ r \in Row /\ r = db[h] /\ Exists(h)
            /\ x \in Datum /\ x.host = h /\ x.name = File(r) /\ x.waf = r.waf /\ x.cloud = r.cloud
            /\ x.body = r.body /\ x # NoFile /\ x.name \in Names /\ Own(x, x.name) /\ x.body # NoFile
            /\ \A g \in DOMAIN loc[p].rows \ {h} : File(loc[p].rows[g]) # File(r)
<1>1. h \in Hosts /\ loc[p].rows[h] = db[h] /\ db[h] \in Row /\ Exists(h) BY SyncedHere
<1>2. \A g \in DOMAIN loc[p].rows \ {h} : File(loc[p].rows[g]) # File(db[h])
  <2>1. \A g \in DOMAIN loc[p].rows : g \in Hosts /\ Exists(g) /\ loc[p].rows[g] = db[g] BY SyncedHere
  <2>2. Free(File(db[h]), h) BY <1>1 DEF OwnInv, Apart
  <2> QED BY <2>1, <2>2 DEF Free
<1> QED BY <1>1, <1>2, Data DEF Own

\* What is left of the files of a host when those of another are touched.
LEMMA StaysWritten ==
  ASSUME RowsOK, SyncsOK, NEW p \in Procs, OwnInv(p), pc[p] \in SyncSteps,
         NEW h \in DOMAIN loc[p].rows, NEW g \in DOMAIN loc[p].rows, g # h,
         \A n \in Names \ {File(loc[p].rows[h])} : disk'.conf[n] = disk.conf[n],
         \A k \in Hosts \ {h} : disk'.waf[k] = disk.waf[k] /\ disk'.cloud[k] = disk.cloud[k]
  PROVE  LET x == DataOf(g, loc[p].rows[g]) IN
         /\ disk'.conf[File(loc[p].rows[g])] = disk.conf[File(loc[p].rows[g])]
         /\ Written(disk, x) => Written(disk', x)
<1>1. /\ g \in Hosts /\ File(loc[p].rows[g]) \in Names \ {File(loc[p].rows[h])}
      /\ DataOf(g, loc[p].rows[g]).host = g /\ DataOf(g, loc[p].rows[g]).name = File(loc[p].rows[g])
  BY ListData
<1> QED BY <1>1 DEF Written

LEMMA OwnSyncHost ==
  ASSUME Recoverable, RowsOK, SyncsOK, NEW p \in Procs, OwnInv(p), SyncHost(p)
  PROVE  OwnInv(p)'
<1> DEFINE l == loc[p]
<1>1. pc[p] = "syncHost" /\ pc[p] \in SyncSteps BY DEF SyncHost, SyncSteps
<1>2. /\ List(p) /\ Generated(p) /\ l \in Synchronisation /\ l.todo \subseteq DOMAIN l.rows
      /\ disk \in Disk /\ running \in Disk /\ DOMAIN mpc = Procs /\ DOMAIN job = Procs
      /\ DOMAIN pc = Procs /\ DOMAIN loc = Procs /\ mpc[p] = "idle"
  BY <1>1, SyncedHere DEF Synced, Syncing
<1>3. PICK h \in l.todo :
        LET x == DataOf(h, l.rows[h]) IN
        /\ disk' = WithConf(WithInclude(disk, x), x)
        /\ loc' = [loc EXCEPT ![p] = [l EXCEPT !.todo = l.todo \ {h}, !.host = h]]
        /\ To(p, IF x.waf THEN "syncWAF" ELSE "syncHost")
  BY <1>2 DEF SyncHost, Recoverable, Synchronisation
<1> DEFINE x == DataOf(h, l.rows[h])
<1>4. h \in DOMAIN l.rows /\ h \notin l.failed BY <1>1, <1>2, <1>3 DEF Generated
<1>5. /\ x \in Datum /\ x.host = h /\ x.name = File(l.rows[h]) /\ x.name \in Names /\ Own(x, x.name)
  BY <1>1, <1>4, ListData
<1>6. /\ loc'[p].rows = l.rows /\ loc'[p].failed = l.failed /\ loc'[p].todo = l.todo \ {h}
      /\ loc'[p].host = h
  BY <1>2, <1>3 DEF Synchronisation
<1>7. pc'[p] = IF x.waf THEN "syncWAF" ELSE "syncHost" BY <1>2, <1>3 DEF To
<1>8. UNCHANGED <<running, mpc, job, db>> BY DEF SyncHost
<1>9. disk' = WithConf(WithInclude(disk, x), x) BY <1>3
<1> HIDE DEF x
<1>10. /\ disk' \in Disk /\ disk'.conf[x.name] = x /\ disk'.cloud[h] = x.cloud
       /\ \A n \in Names \ {x.name} : disk'.conf[n] = disk.conf[n]
       /\ \A k \in Hosts \ {h} : disk'.waf[k] = disk.waf[k] /\ disk'.cloud[k] = disk.cloud[k]
  <2>1. PICK e \in Disk : /\ e = WithInclude(disk, x) /\ e.conf = disk.conf /\ e.waf = disk.waf
                          /\ e.cloud[h] = x.cloud /\ \A k \in Hosts \ {h} : e.cloud[k] = disk.cloud[k]
    BY <1>2, <1>5, IncludeWritten
  <2> QED BY <1>5, <1>9, <2>1, ConfWritten
<1>11. List(p)' BY <1>2, <1>6, <1>8, SameList
<1>12. Generated(p)'
  <2>1. \A g \in l.failed : disk'.conf[File(l.rows[g])] = NoFile
    <3> SUFFICES ASSUME NEW g \in l.failed PROVE disk'.conf[File(l.rows[g])] = NoFile
      OBVIOUS
    <3>1. g \in DOMAIN l.rows /\ g # h /\ disk.conf[File(l.rows[g])] = NoFile
      BY <1>2, <1>4 DEF Generated, List, Bad
    <3>2. \A n \in Names \ {File(l.rows[h])} : disk'.conf[n] = disk.conf[n] BY <1>5, <1>10
    <3>3. disk'.conf[File(l.rows[g])] = disk.conf[File(l.rows[g])]
      BY <1>1, <1>4, <1>10, <3>1, <3>2, StaysWritten
    <3> QED BY <3>1, <3>3
  <2>2. ASSUME NEW g \in DOMAIN l.rows \ ((l.todo \ {h}) \cup l.failed), g # h
        PROVE  Written(disk', DataOf(g, l.rows[g]))
    <3>1. Written(disk, DataOf(g, l.rows[g])) BY <1>1, <1>2, <2>2 DEF Generated
    <3> QED BY <1>1, <1>4, <1>5, <1>10, <2>2, <3>1, StaysWritten
  <2>3. ~x.waf => Written(disk', x) BY <1>5, <1>10 DEF Written
  <2>4. l.failed \cap (l.todo \ {h}) = {} BY <1>1, <1>2 DEF Generated
  <2> QED BY <1>4, <1>6, <1>7, <1>10, <2>1, <2>2, <2>3, <2>4 DEF Generated, x
<1>13. Answered(p)' BY <1>7 DEF Answered
<1>14. Doing(p)' BY <1>2, <1>7, <1>8, <1>11, <1>12, <1>13, DoesSync DEF Synced, SyncSteps
<1> QED BY <1>2, <1>5, <1>8, <1>10, <1>14, OwnFilesGo

LEMMA OwnSyncWAF ==
  ASSUME Recoverable, RowsOK, SyncsOK, NEW p \in Procs, OwnInv(p), SyncWAF(p)
  PROVE  OwnInv(p)'
<1> DEFINE l == loc[p]
           h == l.host
           x == DataOf(h, l.rows[h])
<1>1. pc[p] = "syncWAF" /\ pc[p] \in SyncSteps BY DEF SyncWAF, SyncSteps
<1>2. /\ List(p) /\ Generated(p) /\ h \in DOMAIN l.rows
      /\ disk \in Disk /\ running \in Disk /\ DOMAIN mpc = Procs /\ DOMAIN job = Procs
      /\ DOMAIN pc = Procs /\ mpc[p] = "idle"
  BY <1>1, SyncedHere DEF Synced, Syncing
<1>3. /\ disk' = WithWAF(disk, x, TRUE) /\ UNCHANGED <<running, mpc, job, db, loc>> /\ pc'[p] = "syncHost"
  BY <1>2 DEF SyncWAF, Recoverable, To
<1>4. /\ x \in Datum /\ x.host = h /\ x.name = File(l.rows[h]) BY <1>1, <1>2, ListData
<1> HIDE DEF x
<1>5. /\ disk' \in Disk /\ disk'.conf = disk.conf /\ disk'.cloud = disk.cloud /\ disk'.waf[h] = x.body
      /\ \A k \in Hosts \ {h} : disk'.waf[k] = disk.waf[k]
  <2>1. PICK w \in BOOLEAN : w = TRUE /\ disk' = WithWAF(disk, x, w) BY <1>3
  <2>2. /\ disk' \in Disk /\ disk'.conf = disk.conf /\ disk'.cloud = disk.cloud
        /\ disk'.waf[x.host] = IF w THEN x.body ELSE NoFile
        /\ \A k \in Hosts \ {x.host} : disk'.waf[k] = disk.waf[k]
    BY <1>2, <1>4, <2>1, WAFWritten
  <2> QED BY <1>4, <2>1, <2>2
<1>6. List(p)' BY <1>2, <1>3, SameList
<1>7. Generated(p)'
  <2>1. ASSUME NEW g \in DOMAIN l.rows \ (l.todo \cup l.failed), g # h
        PROVE  Written(disk', DataOf(g, l.rows[g]))
    <3>1. Written(disk, DataOf(g, l.rows[g])) BY <1>1, <1>2, <2>1 DEF Generated
    <3> QED BY <1>1, <1>2, <1>5, <2>1, <3>1, StaysWritten
  <2>2. disk.conf[x.name] = x /\ (x.cloud => disk.cloud[h]) BY <1>1, <1>2 DEF Generated, x
  <2>3. Written(disk', x) BY <1>4, <1>5, <2>2 DEF Written
  <2> QED BY <1>1, <1>2, <1>3, <1>5, <2>1, <2>3 DEF Generated, x
<1>8. Answered(p)' BY <1>3 DEF Answered
<1>9. Doing(p)' BY <1>2, <1>3, <1>6, <1>7, <1>8, DoesSync DEF Synced, SyncSteps
<1> QED BY <1>2, <1>3, <1>5, <1>9, OwnFilesGo

\* A host that is found by a file has that file.
LEMMA FoundHasIt ==
  ASSUME Recoverable, SyncsOK, NEW p \in Procs, pc[p] \in SyncSteps,
         NEW n \in Names, NEW h \in FoundByDomain(loc[p].rows, n)
  PROVE  h \in DOMAIN loc[p].rows /\ File(loc[p].rows[h]) = n
<1>1. loc[p] \in Synchronisation
  <2>1. Syncing(pc[p], loc[p]) BY StepsApart DEF SyncsOK, LocalOK
  <2> QED BY <2>1 DEF Syncing
<1>2. h \in DOMAIN loc[p].rows /\ loc[p].rows[h] \in Row BY <1>1 DEF FoundByDomain, Synchronisation
<1> QED BY <1>2 DEF FoundByDomain, Recoverable, File, Row

\* The host whose file nginx blames is one whose configuration it rejects.
LEMMA BlamedIsBad ==
  ASSUME Recoverable, RowsOK, SyncsOK, NEW p \in Procs, OwnInv(p), pc[p] = "syncTested",
         NEW n \in Blamable(disk), NEW h \in DOMAIN loc[p].rows, File(loc[p].rows[h]) = n
  PROVE  h \in Bad(loc[p]) \ loc[p].failed
<1> DEFINE l == loc[p]
           x == DataOf(h, l.rows[h])
           c == disk.conf[n]
<1>1. pc[p] \in SyncSteps BY DEF SyncSteps
<1>2. h \in DOMAIN l.rows /\ File(l.rows[h]) = n OBVIOUS
<1>3. /\ n \in Names /\ c # NoFile
      /\ \/ c.body \in BadBodies
         \/ c.waf /\ disk.waf[c.host] \in BadBodies \cup {NoFile}
         \/ c.cloud /\ ~disk.cloud[c.host]
         \/ \E m \in Names \ {n} : disk.conf[m] # NoFile /\ disk.conf[m].host = c.host
  BY DEF Blamable
<1>4. Generated(p) /\ List(p) BY <1>1, SyncedHere DEF Synced
<1>5. h \notin l.failed /\ l.todo = {} BY <1>2, <1>3, <1>4 DEF Generated
<1>6. Written(disk, x) BY <1>2, <1>4, <1>5 DEF Generated
<1>7. /\ x.host = h /\ x.name = n /\ x.body = l.rows[h].body /\ x.body # NoFile /\ l.rows[h] = db[h]
  BY <1>1, <1>2, ListData
<1> HIDE DEF x
<1>8. c = x BY <1>6, <1>7 DEF Written
<1>9. \A m \in Names \ {n} : disk.conf[m] # NoFile => disk.conf[m].host # h
  BY <1>2, <1>7 DEF OwnInv, OwnFiles, Own
<1>10. x.body \in BadBodies BY <1>3, <1>6, <1>7, <1>8, <1>9 DEF Written
<1> QED BY <1>2, <1>5, <1>7, <1>10 DEF Bad

LEMMA OwnSyncRecover ==
  ASSUME Recoverable, RowsOK, SyncsOK, NEW p \in Procs, OwnInv(p), SyncRecover(p)
  PROVE  OwnInv(p)'
<1> DEFINE l == loc[p]
<1>1. pc[p] = "syncTested" /\ pc[p] \in SyncSteps BY DEF SyncRecover, SyncSteps
<1>2. /\ List(p) /\ Generated(p) /\ l \in Synchronisation
      /\ disk \in Disk /\ running \in Disk /\ DOMAIN mpc = Procs /\ DOMAIN job = Procs
      /\ DOMAIN pc = Procs /\ DOMAIN loc = Procs
  BY <1>1, SyncedHere DEF Synced, Syncing
<1>3. PICK n, h :
        /\ n \in Blamable(disk) /\ h \in FoundByDomain(l.rows, n)
        /\ disk' = WithoutConfig(disk, DataOf(h, l.rows[h]))
        /\ loc' = [loc EXCEPT ![p] = [l EXCEPT !.failed = l.failed \cup {h}, !.attempts = l.attempts + 1]]
  BY <1>2 DEF SyncRecover, Synchronisation
<1>4. h \in Bad(l) /\ h \in DOMAIN l.rows /\ l.todo = {}
  <2>1. h \in DOMAIN l.rows /\ File(l.rows[h]) = n BY <1>1, <1>3, FoundHasIt DEF Blamable
  <2> QED BY <1>1, <1>2, <1>3, <2>1, BlamedIsBad DEF Generated
<1> DEFINE x == DataOf(h, l.rows[h])
<1>5. x \in Datum /\ x.host = h /\ x.name = File(l.rows[h]) BY <1>1, <1>4, ListData
<1>6. /\ loc'[p].rows = l.rows /\ loc'[p].failed = l.failed \cup {h} /\ loc'[p].todo = {}
  BY <1>2, <1>3, <1>4 DEF Synchronisation
<1>7. /\ pc'[p] = "syncHost" /\ UNCHANGED <<running, job, db>> /\ mpc'[p] = "idle" /\ DOMAIN mpc' = Procs
  BY <1>2 DEF SyncRecover, To
<1>8. disk' = WithoutConfig(disk, x) BY <1>3
<1> HIDE DEF x
<1>9. /\ disk' \in Disk /\ disk'.conf[File(l.rows[h])] = NoFile
      /\ \A n2 \in Names \ {File(l.rows[h])} : disk'.conf[n2] = disk.conf[n2]
      /\ \A k \in Hosts \ {h} : disk'.waf[k] = disk.waf[k] /\ disk'.cloud[k] = disk.cloud[k]
  BY <1>2, <1>5, <1>8, ConfigRemoved
<1>10. List(p)' BY <1>2, <1>4, <1>6, <1>7, SameList
<1>11. Generated(p)'
  <2>1. ASSUME NEW g \in l.failed, g # h PROVE disk'.conf[File(l.rows[g])] = NoFile
    <3>1. g \in DOMAIN l.rows /\ disk.conf[File(l.rows[g])] = NoFile BY <1>2 DEF Generated, List, Bad
    <3> QED BY <1>1, <1>4, <1>9, <2>1, <3>1, StaysWritten
  <2>2. ASSUME NEW g \in DOMAIN l.rows \ (l.failed \cup {h}) PROVE Written(disk', DataOf(g, l.rows[g]))
    <3>1. Written(disk, DataOf(g, l.rows[g])) BY <1>1, <1>2, <1>4, <2>2 DEF Generated
    <3> QED BY <1>1, <1>4, <1>9, <2>2, <3>1, StaysWritten
  <2> QED BY <1>6, <1>7, <1>9, <2>1, <2>2 DEF Generated
<1>12. Answered(p)' BY <1>7 DEF Answered
<1>13. Doing(p)' BY <1>7, <1>10, <1>11, <1>12, DoesSync DEF Synced, SyncSteps
<1>14. \A n2 \in Names : disk'.conf[n2] \in {disk.conf[n2], NoFile} BY <1>9
<1> QED BY <1>2, <1>7, <1>9, <1>13, <1>14, OwnFilesGo

\* A synchronisation calls the manager.
LEMMA OwnSyncCalls ==
  ASSUME Recoverable, RowsOK, SyncsOK, NEW p \in Procs, OwnInv(p), SyncTest(p) \/ SyncReload(p)
  PROVE  OwnInv(p)'
<1> DEFINE l == loc[p]
<1>1. pc[p] \in {"syncHost", "syncTested"} /\ pc[p] \in SyncSteps /\ AnyData \in Datum /\ AnyData.name \in Names
  BY AnyDatum DEF SyncTest, SyncReload, SyncSteps, Datum
<1>2. /\ List(p) /\ Generated(p) /\ running \in Disk /\ DOMAIN pc = Procs /\ l.todo = {}
  BY <1>1, SyncedHere DEF Synced, Generated, SyncTest, SyncReload
<1>3. PICK op \in {"test", "reload"} :
        /\ Call(p, op, AnyData, AnyData.name) /\ UNCHANGED <<loc, db>>
        /\ pc'[p] = IF op = "test" THEN "syncTested" ELSE "syncReloaded"
  BY <1>2 DEF SyncTest, SyncReload, To
<1>4. /\ mpc'[p] = "wait" /\ job'[p] \in Called /\ job'[p].op = op
      /\ DOMAIN mpc' = Procs /\ DOMAIN job' = Procs /\ UNCHANGED <<disk, running>>
  BY <1>1, <1>3, CallMade
<1>5. List(p)' BY <1>2, <1>3, SameList
<1>6. Generated(p)' BY <1>1, <1>2, <1>3, <1>4, SameGenerated
<1>7. Answered(p)' BY <1>3, <1>4 DEF Answered
<1>8. Doing(p)' BY <1>3, <1>5, <1>6, <1>7, DoesSync DEF Synced, SyncSteps
<1> QED BY <1>2, <1>3, <1>4, <1>8, OwnSame

LEMMA OwnSyncReloaded ==
  ASSUME RowsOK, SyncsOK, NEW p \in Procs, OwnInv(p), SyncReloaded(p), To(p, "syncRecord")
  PROVE  OwnInv(p)'
<1> DEFINE l == loc[p]
<1>1. pc[p] = "syncReloaded" /\ pc[p] \in SyncSteps BY DEF SyncReloaded, SyncSteps
<1>2. /\ List(p) /\ Generated(p) /\ Answered(p) /\ l \in Synchronisation /\ running \in Disk
      /\ DOMAIN mpc = Procs /\ DOMAIN job = Procs /\ DOMAIN pc = Procs /\ DOMAIN loc = Procs
  BY <1>1, SyncedHere DEF Synced, Syncing
<1>3. pc'[p] = "syncRecord" BY <1>2 DEF To
<1>4. /\ mpc[p] = "ok" /\ mpc'[p] = "idle" /\ UNCHANGED <<disk, running, job, db>> /\ DOMAIN mpc' = Procs
      /\ loc' = [loc EXCEPT ![p] = [l EXCEPT !.todo = DOMAIN l.rows]]
  BY <1>2, <1>3 DEF SyncReloaded, Result, SyncDone, Done, To, Synchronisation
<1>5. loc'[p].rows = l.rows /\ loc'[p].failed = l.failed BY <1>2, <1>4 DEF Synchronisation
<1>6. List(p)' BY <1>2, <1>4, <1>5, SameList
<1>7. Generated(p)' BY <1>2, <1>3, <1>4, <1>5 DEF Generated
<1>8. Answered(p)' BY <1>1, <1>2, <1>3, <1>4, <1>5 DEF Answered, Written, DataOf
<1>9. Doing(p)' BY <1>3, <1>4, <1>6, <1>7, <1>8, DoesSync DEF Synced, SyncSteps
<1> QED BY <1>2, <1>4, <1>9, OwnSame

LEMMA OwnSyncRecord ==
  ASSUME RowsOK, SyncsOK, NEW p \in Procs, OwnInv(p), SyncRecord(p)
  PROVE  OwnInv(p)'
<1> DEFINE l == loc[p]
<1>1. pc[p] = "syncRecord" /\ pc[p] \in SyncSteps BY DEF SyncRecord, SyncSteps
<1>2. /\ List(p) /\ Generated(p) /\ Answered(p) /\ l \in Synchronisation /\ running \in Disk
      /\ DOMAIN mpc = Procs /\ DOMAIN job = Procs /\ DOMAIN loc = Procs /\ mpc[p] = "idle"
  BY <1>1, SyncedHere DEF Synced, Syncing
<1>3. UNCHANGED <<disk, running, mpc, job, db, pc>> BY DEF SyncRecord, managerVars
<1>4. PICK h \in l.todo : loc' = [loc EXCEPT ![p] = [l EXCEPT !.todo = l.todo \ {h}]]
  BY <1>2 DEF SyncRecord, Synchronisation
<1>5. loc'[p].rows = l.rows /\ loc'[p].failed = l.failed BY <1>2, <1>4 DEF Synchronisation
<1>6. List(p)' BY <1>2, <1>3, <1>5, SameList
<1>7. Generated(p)' BY <1>1, <1>2, <1>3, <1>5 DEF Generated
<1>8. Answered(p)' BY <1>1, <1>2, <1>3, <1>5 DEF Answered, Written, DataOf
<1>9. Doing(p)' BY <1>1, <1>2, <1>3, <1>6, <1>7, <1>8, DoesSync DEF Synced
<1> QED BY <1>2, <1>3, <1>9, OwnSame

LEMMA OwnSyncStep ==
  ASSUME Recoverable, RowsOK, SyncsOK, NEW p \in Procs, OwnInv(p), SyncStep(p)
  PROVE  OwnInv(p)'
<1>1. CASE SyncGiveUp(p) \/ SyncEnd(p) \/ (SyncReloaded(p) /\ Result(p, "err") /\ SyncDone(p))
  <2>1. pc[p] \in SyncSteps BY <1>1 DEF SyncGiveUp, SyncEnd, SyncReloaded, SyncSteps
  <2>2. /\ running \in Disk /\ DOMAIN mpc = Procs /\ DOMAIN job = Procs /\ DOMAIN pc = Procs
        /\ pc[p] = "syncRecord" => mpc[p] = "idle"
    BY <2>1, SyncedHere
  <2>3. pc'[p] = "idle" /\ mpc'[p] = "idle" /\ UNCHANGED <<disk, running, job, db>> /\ DOMAIN mpc' = Procs
    BY <1>1, <2>2 DEF SyncGiveUp, SyncEnd, SyncReloaded, SyncDone, Done, To, Result, managerVars
  <2> QED BY <2>2, <2>3, DoesNothing, OwnSame
<1>2. CASE SyncReloaded(p)
  BY <1>1, <1>2, OwnSyncReloaded DEF SyncReloaded
<1> QED BY <1>1, <1>2, OwnSyncHost, OwnSyncWAF, OwnSyncCalls, OwnSyncRecover, OwnSyncRecord DEF SyncStep

-----------------------------------------------------------------------------
(* The steps between requests.                                               *)
LEMMA OwnIdle ==
  ASSUME SyncsOK, NEW p \in Procs, OwnInv(p), pc[p] = "idle"
  PROVE  /\ mpc[p] = "idle" /\ running \in Disk /\ DOMAIN mpc = Procs /\ DOMAIN job = Procs
         /\ DOMAIN pc = Procs /\ DOMAIN loc = Procs
BY DEF OwnInv, Doing, SyncsOK, Variables

LEMMA OwnRequestBegins ==
  ASSUME SyncsOK, NEW p \in Procs, OwnInv(p), NEW l, NEW s \in {"insert", "read", "configure", "files"},
         Begin(p, l, s), l.op # "reloader", l.old = NoFile,
         IF s = "insert" THEN db[l.host] = NoRow /\ Free(File(l.row), l.host)
         ELSE Exists(l.host) /\ (s # "read" => l.row = db[l.host])
  PROVE  OwnInv(p)'
<1>1. pc[p] = "idle" BY DEF Begin
<1>2. /\ loc'[p] = l /\ pc'[p] = s /\ UNCHANGED <<disk, running, mpc, job, db>> /\ mpc'[p] = "idle"
      /\ running \in Disk /\ DOMAIN mpc = Procs /\ DOMAIN job = Procs
  BY <1>1, OwnIdle DEF Begin, To, managerVars
<1>3. Asked(p)' BY <1>2 DEF Asked, Free, Exists
<1>4. Doing(p)' BY <1>2, <1>3, DoesRequest DEF Steps
<1> QED BY <1>2, <1>4, OwnSame

LEMMA OwnStart ==
  ASSUME Recoverable, RowsOK, SyncsOK, NEW p \in Procs, OwnInv(p), Start(p)
  PROVE  OwnInv(p)'
<1>1. PICK h \in Hosts :
        \/ \E row \in NewRows : Create(p, h, row)
        \/ \E op \in ServiceOps :
             \/ StartOnRow(p, op, h)
             \/ \E req \in Requests : StartUpdate(p, op, h, req)
  BY DEF Start
<1>2. ASSUME NEW row \in NewRows, Create(p, h, row) PROVE OwnInv(p)'
  <2> DEFINE l == [op |-> "create", host |-> h, row |-> row, old |-> NoFile]
  <2>1. Begin(p, l, "insert") /\ db[h] = NoRow /\ Free(File(row), h)
    <3>1. row.domain \in Domains BY RowAssumption DEF Row
    <3>2. Free(FileOf[row.domain], h) BY <1>2, <3>1, FreeFile DEF Create, Recoverable
    <3> QED BY <1>2, <3>2 DEF Create, File
  <2>2. l.op # "reloader" /\ l.old = NoFile /\ l.host = h /\ l.row = row OBVIOUS
  <2> HIDE DEF l
  <2> QED BY <2>1, <2>2, OwnRequestBegins
<1>3. ASSUME NEW op \in ServiceOps, StartOnRow(p, op, h) PROVE OwnInv(p)'
  <2> DEFINE l == [op |-> op, host |-> h, row |-> db[h], old |-> NoFile]
  <2>1. PICK s \in {"files", "configure"} : Begin(p, l, s) /\ Exists(h) /\ op # "reloader"
    BY <1>3 DEF StartOnRow
  <2>2. l.op # "reloader" /\ l.old = NoFile /\ l.host = h /\ l.row = db[h] BY <2>1
  <2> HIDE DEF l
  <2> QED BY <2>1, <2>2, OwnRequestBegins
<1>4. ASSUME NEW op \in ServiceOps, NEW req \in Requests, StartUpdate(p, op, h, req) PROVE OwnInv(p)'
  <2> DEFINE l == [op |-> op, host |-> h, row |-> NoRow, req |-> req, old |-> NoFile]
  <2>1. Begin(p, l, "read") /\ Exists(h) /\ op # "reloader" BY <1>4 DEF StartUpdate, Recoverable
  <2>2. l.op # "reloader" /\ l.old = NoFile /\ l.host = h BY <2>1
  <2> HIDE DEF l
  <2> QED BY <2>1, <2>2, OwnRequestBegins
<1> QED BY <1>1, <1>2, <1>3, <1>4

LEMMA OwnDebounced ==
  ASSUME SyncsOK, NEW p \in Procs, OwnInv(p), DebouncedReload(p)
  PROVE  OwnInv(p)'
<1>1. /\ mpc[p] = "idle" /\ running \in Disk /\ DOMAIN pc = Procs /\ DOMAIN loc = Procs
      /\ AnyData \in Datum /\ AnyData.name \in Names
  BY OwnIdle, AnyDatum DEF DebouncedReload, Datum
<1>2. Call(p, "reload", AnyData, AnyData.name) BY DEF DebouncedReload
<1>3. /\ Calls(p)' /\ DOMAIN mpc' = Procs /\ DOMAIN job' = Procs /\ UNCHANGED <<disk, running>>
  BY <1>1, <1>2, CallMade
<1>4. pc'[p] = "manager" /\ loc'[p].op = "reloader" /\ UNCHANGED db
  BY <1>1 DEF DebouncedReload, To
<1>5. Doing(p)' BY <1>3, <1>4, DoesCall
<1> QED BY <1>1, <1>3, <1>4, <1>5, OwnSame

LEMMA OwnBegins ==
  ASSUME SyncsOK, NEW p \in Procs, OwnInv(p), Begins(p)
  PROVE  OwnInv(p)'
<1> DEFINE rows == [h \in {g \in Hosts : Exists(g) /\ db[g].enabled} |-> db[h]]
<1>1. /\ UNCHANGED <<disk, running, mpc, job, db>> /\ pc'[p] = "syncHost" /\ mpc'[p] = "idle"
      /\ running \in Disk /\ DOMAIN mpc = Procs /\ DOMAIN job = Procs
      /\ loc'[p] = [op |-> "sync", host |-> AnyData.host, rows |-> rows,
                    todo |-> DOMAIN rows, failed |-> {}, attempts |-> 0]
  BY OwnIdle DEF Begins, To, managerVars
<1>2. loc'[p].rows = rows /\ loc'[p].todo = DOMAIN rows /\ loc'[p].failed = {} BY <1>1
<1>3. List(p)' BY <1>1, <1>2 DEF List, Exists
<1>4. Generated(p)' BY <1>1, <1>2 DEF Generated
<1>5. Answered(p)' BY <1>1 DEF Answered
<1>6. Doing(p)' BY <1>1, <1>3, <1>4, <1>5, DoesSync DEF Synced, SyncSteps
<1> QED BY <1>1, <1>6, OwnSame

\* What a crash interrupts leaves only files that are their host's.
LEMMA OwnCrash ==
  ASSUME NEW p \in Procs, OwnInv(p), Crash
  PROVE  OwnInv(p)'
<1>1. /\ UNCHANGED <<disk, db>> /\ running' \in {running, disk} /\ DOMAIN mpc' = Procs
      /\ DOMAIN job' = Procs /\ pc'[p] = "idle" /\ mpc'[p] = "idle"
  BY DEF Crash
<1>2. running' \in Disk BY <1>1 DEF OwnInv
<1>3. Doing(p)' BY <1>1, DoesNothing
<1> QED BY <1>1, <1>2, <1>3, OwnSame

LEMMA OwnStep ==
  ASSUME Recoverable, RowsOK, SyncsOK, NEW p, Procs = {p}, OwnInv(p), [SyncNext]_syncVars
  PROVE  OwnInv(p)'
<1>1. CASE Request(p)
  BY <1>1, OwnStart, OwnService, OwnManager, OwnDebounced DEF Request
<1>2. CASE StartSync(p) \/ Restart(p) BY <1>2, OwnBegins DEF StartSync, Restart
<1>3. CASE SyncStep(p) BY <1>3, OwnSyncStep
<1>4. CASE UNCHANGED vars
  <2>1. UNCHANGED <<disk, running, mpc, job, db, pc, loc>>
    BY <1>4 DEF vars, managerVars, serviceVars
  <2>2. Calls(p)' = Calls(p) BY <2>1 DEF Calls, Own, Exists
  <2>3. Asked(p)' = Asked(p) BY <2>1 DEF Asked, Removes, FilesIn, Free, Exists
  <2>4. Synced(p)' = Synced(p)
    BY <2>1 DEF Synced, List, Bad, Exists, Generated, Answered, Written, DataOf
  <2>5. Doing(p)' BY <2>1, <2>2, <2>3, <2>4 DEF OwnInv, Doing
  <2>6. running' \in Disk /\ DOMAIN mpc' = Procs /\ DOMAIN job' = Procs BY <2>1 DEF OwnInv
  <2> QED BY <2>1, <2>5, <2>6, OwnSame
<1> QED BY <1>1, <1>2, <1>3, <1>4, OwnCrash DEF SyncNext, SyncNothing, syncVars

LEMMA OwnInit == ASSUME NEW p, Procs = {p}, SyncInit PROVE OwnInv(p)
<1>1. /\ disk = EmptyDisk /\ running = EmptyDisk /\ mpc = [q \in Procs |-> "idle"]
      /\ job = [q \in Procs |-> NoFile] /\ db = [h \in Hosts |-> NoRow]
      /\ pc = [q \in Procs |-> "idle"]
  BY DEF SyncInit, Init, ManagerInit
<1>2. disk \in Disk /\ running \in Disk BY <1>1 DEF EmptyDisk, Disk
<1>3. Apart /\ OwnFiles BY <1>1 DEF Apart, Exists, EmptyDisk, OwnFiles
<1>4. Doing(p) BY <1>1 DEF Doing, SyncSteps
<1> QED BY <1>1, <1>2, <1>3, <1>4 DEF OwnInv

\* What OwnInv says of a synchronisation.
LEMMA OwnServes ==
  ASSUME RowsOK, SyncsOK, NEW p, Procs = {p}, OwnInv(p)
  PROVE  RestIsServed
<1> SUFFICES ASSUME pc[p] \in SyncSteps
             PROVE  /\ loc[p].failed \subseteq Bad(loc[p])
                    /\ pc[p] = "syncRecord" =>
                         \A h \in DOMAIN loc[p].rows \ loc[p].failed :
                           LET x == DataOf(h, loc[p].rows[h]) IN
                             InForce(running)[x.name] = <<x, IF x.waf THEN x.body ELSE NoFile>>
  BY DEF RestIsServed
<1>1. List(p) /\ Answered(p) BY SyncedHere DEF Synced
<1>2. ASSUME pc[p] = "syncRecord", NEW h \in DOMAIN loc[p].rows \ loc[p].failed
      PROVE  LET x == DataOf(h, loc[p].rows[h]) IN
               InForce(running)[x.name] = <<x, IF x.waf THEN x.body ELSE NoFile>>
  <2> DEFINE x == DataOf(h, loc[p].rows[h])
  <2>1. Written(running, x) BY <1>1, <1>2 DEF Answered
  <2>2. x.name \in Names /\ x # NoFile BY <1>2, ListData
  <2> HIDE DEF x
  <2>3. InForce(running)[x.name] = <<x, IF x.waf THEN x.body ELSE NoFile>>
    BY <2>1, <2>2 DEF Written, InForce
  <2> QED BY <2>3 DEF x
<1> QED BY <1>1, <1>2 DEF List

\* The rest runs on.  With one client, whose writes do not fail and whose updates keep the domain, and
\* domains that each have a file of their own and are not taken for one another, the auto-recovery
\* only takes down hosts whose configuration nginx rejects, and nginx serves the others: for any
\* hosts, wherever the API crashes, whatever nginx and docker answer, however often the
\* synchronisation may remove, and whether or not it finds the host that is blamed.
THEOREM RestRunsOn == Recoverable => (SyncSpec => []RestIsServed)
<1> SUFFICES ASSUME Recoverable PROVE SyncSpec => []RestIsServed
  OBVIOUS
<1> PICK p : Procs = {p} BY DEF Recoverable, Serial
<1> DEFINE Inv == SyncTypes /\ OwnInv(p)
<1>1. SyncInit => Inv BY SyncInitTypes, OwnInit
<1>2. Inv /\ [SyncNext]_syncVars => Inv' BY SyncTypesStep, OwnStep DEF SyncTypes
<1>3. Inv => RestIsServed BY OwnServes DEF SyncTypes
<1> QED BY <1>1, <1>2, <1>3, PTL DEF SyncSpec

-----------------------------------------------------------------------------
(* Auto-recovery.  Every host is on the list of a synchronisation, and nginx *)
(* is not asked in vain.                                                     *)
Recovers ==
  /\ Recoverable /\ ~NginxErrors /\ IsFiniteSet(Hosts)
  /\ \A row \in NewRows : row.enabled
  /\ \A req \in Requests : "enabled" \notin DOMAIN req

\* Every attempt takes down one host more.
RecoverInv(p) ==
  /\ \A h \in Hosts : Exists(h) => db[h].enabled
  /\ pc[p] \in {"insert", "write"} => loc[p].row.enabled
  /\ pc[p] = "syncTested" /\ mpc[p] = "err" => ~Valid(disk)
  /\ pc[p] \in SyncSteps => loc[p].attempts = Cardinality(loc[p].failed)

LEMMA RecoverElsewhere ==
  ASSUME NEW p \in Procs, RecoverInv(p), UNCHANGED db, pc'[p] \notin {"insert", "write"} \cup SyncSteps
  PROVE  RecoverInv(p)'
BY DEF RecoverInv, Exists, SyncSteps

LEMMA RecoverRow ==
  ASSUME RowsOK, NEW p \in Procs, RecoverInv(p), NEW k \in Hosts, NEW r,
         db' = [db EXCEPT ![k] = r], r = Gone \/ r.enabled,
         pc'[p] \notin {"insert", "write"} \cup SyncSteps
  PROVE  RecoverInv(p)'
<1>1. \A h \in Hosts : db'[h] = IF h = k THEN r ELSE db[h] BY DEF RowsOK
<1> QED BY <1>1 DEF RecoverInv, Exists, SyncSteps

LEMMA RecoverStart ==
  ASSUME Recovers, SyncsOK, NEW p \in Procs, RecoverInv(p), Start(p)
  PROVE  RecoverInv(p)'
<1>1. PICK h \in Hosts :
        \/ \E row \in NewRows : Create(p, h, row)
        \/ \E op \in ServiceOps :
             \/ StartOnRow(p, op, h)
             \/ \E req \in Requests : StartUpdate(p, op, h, req)
  BY DEF Start
<1>2. UNCHANGED db /\ DOMAIN pc = Procs /\ DOMAIN loc = Procs
  BY <1>1 DEF Create, StartOnRow, StartUpdate, Begin, SyncsOK, Variables
<1>3. ASSUME NEW row \in NewRows, Create(p, h, row) PROVE RecoverInv(p)'
  <2>1. pc'[p] = "insert" /\ loc'[p].row = row BY <1>2, <1>3 DEF Create, Begin, To
  <2> QED BY <1>2, <2>1 DEF RecoverInv, Recovers, Exists, SyncSteps
<1>4. CASE pc'[p] \in {"files", "configure", "read"} BY <1>2, <1>4, RecoverElsewhere DEF SyncSteps
<1> QED BY <1>1, <1>2, <1>3, <1>4 DEF StartOnRow, StartUpdate, Begin, To

LEMMA RecoverService ==
  ASSUME Recovers, RowsOK, SyncsOK, NEW p \in Procs, RecoverInv(p), Service(p)
  PROVE  RecoverInv(p)'
<1>1. pc[p] \notin SyncSteps BY NotARequest
<1>2. LocalOK(p) /\ DOMAIN pc = Procs /\ DOMAIN loc = Procs /\ ~DBErrors /\ ~FileErrors
  BY <1>1 DEF SyncsOK, Syncing, Variables, Recovers, Recoverable
<1>3. pc[p] # "idle" => loc[p].host \in Hosts BY <1>2 DEF LocalOK, Working, Local, Updating
<1>4. CASE Insert(p) \/ Write(p) \/ UndoRow(p) \/ DeleteRow(p)
  <2>1. pc'[p] \notin {"insert", "write"} \cup SyncSteps
    BY <1>2, <1>4 DEF Insert, Write, UndoRow, DeleteRow, Done, To, AfterWrite, SyncSteps
  <2>2. CASE UNCHANGED db BY <2>1, <2>2, RecoverElsewhere
  <2>3. CASE \E r : db' = [db EXCEPT ![loc[p].host] = r] /\ (r = Gone \/ r.enabled)
    BY <1>3, <1>4, <2>1, <2>3, RecoverRow DEF Insert, Write, UndoRow, DeleteRow
  <2> QED BY <1>2, <1>4, <2>2, <2>3 DEF Insert, Write, UndoRow, DeleteRow, DeletedRow, RecoverInv
<1>5. CASE Read(p)
  <2>1. UNCHANGED db BY <1>5 DEF Read
  <2>2. CASE Done(p) BY <1>2, <2>1, <2>2, RecoverElsewhere DEF Done, To, SyncSteps
  <2>3. CASE /\ Exists(loc[p].host) /\ To(p, "write")
             /\ loc' = [loc EXCEPT ![p].row = Merge(db[loc[p].host], loc[p].req)]
    <3> DEFINE r == db[loc[p].host]
    <3>1. loc[p] \in Updating BY <1>2, <1>5 DEF Read, LocalOK, Working, Steps
    <3>2. r \in Row /\ r.enabled /\ loc[p].req \in Requests
      BY <2>3, <3>1 DEF RowsOK, Exists, RecoverInv, Updating
    <3>3. Merge(r, loc[p].req).enabled BY <3>2 DEF Merge, Row, Recovers
    <3> HIDE DEF r
    <3>4. loc'[p].row = Merge(r, loc[p].req) /\ pc'[p] = "write"
      BY <1>2, <2>3, <3>1 DEF Updating, To, r
    <3> QED BY <2>1, <3>3, <3>4 DEF RecoverInv, Exists, SyncSteps
  <2> QED BY <1>5, <2>2, <2>3 DEF Read
<1>6. CASE UNCHANGED db /\ pc'[p] \notin {"insert", "write"} \cup SyncSteps BY <1>6, RecoverElsewhere
<1>7. CASE ConfigureEnabled(p) \/ ConfigureDisabled(p) \/ CleanupDBOnly(p) \/ WriteFiles(p)
           \/ WriteWAFFile(p) \/ CallTest(p) \/ Tested(p) \/ Abandon(p) \/ ConfigureRow(p)
           \/ UndoFiles(p) \/ Succeeded(p) \/ Failed(p) \/ Restore(p)
  <2>1. UNCHANGED db BY <1>7 DEF ConfigureEnabled, ConfigureDisabled, CleanupDBOnly, WriteFiles,
          WriteWAFFile, CallTest, Tested, Abandon, ConfigureRow, UndoFiles, Succeeded, Failed, Restore
  <2>2. CASE Succeeded(p)
    <3>1. loc[p].op \in {"create", "update", "refresh", "regenerate", "delete", "reloader"}
      BY <1>2, <2>2 DEF LocalOK, Working, Succeeded
    <3> QED BY <1>2, <1>6, <2>1, <2>2, <3>1 DEF Succeeded, Done, To, SyncSteps
  <2>3. CASE Failed(p) BY <1>2, <1>6, <2>1, <2>3 DEF Failed, Done, To, SyncSteps
  <2> QED BY <1>2, <1>6, <1>7, <2>1, <2>2, <2>3 DEF ConfigureEnabled, ConfigureDisabled, CleanupDBOnly,
          WriteFiles, WriteWAFFile, CallTest, Tested, Abandon, ConfigureRow, UndoFiles, Restore,
          Done, To, SyncSteps
<1> QED BY <1>4, <1>5, <1>7 DEF Service

\* A test fails because of the files.
LEMMA RecoverManager ==
  ASSUME Recovers, NEW p \in Procs, OwnInv(p), RecoverInv(p), ManagerStep(p) \/ CancelCall(p)
  PROVE  RecoverInv(p)'
<1>1. UNCHANGED <<db, pc, loc>> /\ (Acquire(p) \/ Step(p))
  BY DEF ManagerStep, CancelCall, serviceVars, Recovers
<1>2. ASSUME pc[p] = "syncTested", mpc'[p] = "err" PROVE ~Valid(disk')
  <2>1. Answered(p) /\ DOMAIN mpc = Procs /\ DOMAIN job = Procs
    BY <1>2 DEF OwnInv, Doing, SyncSteps, Synced
  <2>2. mpc[p] \in {"wait", "test", "ok", "err"} /\ (mpc[p] \in {"wait", "test"} => job[p].op = "test")
    BY <1>2, <2>1 DEF Answered
  <2>3. CASE Acquire(p) BY <1>2, <2>1, <2>2, <2>3 DEF Acquire, FirstStep
  <2>4. CASE Step(p)
    <3>1. TestConfig(p)
      BY <2>2, <2>4 DEF Step, WriteInclude, WriteConf, WriteWAF, RemoveOld, RemoveFiles, FileError,
         Writing, ReloadNginx, Rollback
    <3> QED BY <1>2, <2>1, <2>2, <3>1 DEF TestConfig, Return, Recovers
  <2> QED BY <1>1, <2>3, <2>4
<1> QED BY <1>1, <1>2 DEF RecoverInv, Exists

LEMMA RecoverBegins ==
  ASSUME SyncsOK, NEW p \in Procs, RecoverInv(p), Begins(p)
  PROVE  RecoverInv(p)'
<1>1. UNCHANGED db /\ pc'[p] = "syncHost" /\ loc'[p].failed = {} /\ loc'[p].attempts = 0
  BY DEF Begins, To, SyncsOK, Variables
<1> QED BY <1>1, FS_EmptySet DEF RecoverInv, Exists

\* A synchronisation goes on,
LEMMA RecoverGoes ==
  ASSUME NEW p \in Procs, RecoverInv(p), UNCHANGED db, pc'[p] \in SyncSteps,
         pc'[p] = "syncTested" => mpc'[p] = "wait", loc'[p].attempts = Cardinality(loc'[p].failed)
  PROVE  RecoverInv(p)'
BY DEF RecoverInv, Exists, SyncSteps

LEMMA RecoverSync ==
  ASSUME Recovers, RowsOK, SyncsOK, NEW p \in Procs, OwnInv(p), RecoverInv(p), SyncStep(p)
  PROVE  RecoverInv(p)'
<1> DEFINE l == loc[p]
<1>1. pc[p] \in SyncSteps BY DEF SyncStep, SyncHost, SyncWAF, SyncTest, SyncRecover, SyncGiveUp,
        SyncReload, SyncReloaded, SyncRecord, SyncEnd, SyncSteps
<1>2. /\ l \in Synchronisation /\ DOMAIN pc = Procs /\ DOMAIN loc = Procs /\ DOMAIN mpc = Procs
      /\ l.attempts = Cardinality(l.failed)
  BY <1>1, SyncedHere DEF Syncing, RecoverInv
<1>3. CASE /\ UNCHANGED db /\ pc'[p] \in SyncSteps /\ (pc'[p] = "syncTested" => mpc'[p] = "wait")
           /\ loc'[p].failed = l.failed /\ loc'[p].attempts = l.attempts
  BY <1>2, <1>3, RecoverGoes
<1>4. CASE pc'[p] = "idle" /\ UNCHANGED db BY <1>4, RecoverElsewhere DEF SyncSteps
<1>5. CASE SyncHost(p)
  <2>1. PICK h : /\ loc' = [loc EXCEPT ![p] = [l EXCEPT !.todo = l.todo \ {h}, !.host = h]]
                 /\ pc'[p] \in {"syncWAF", "syncHost"}
    BY <1>2, <1>5 DEF SyncHost, Synchronisation, To, Recovers, Recoverable
  <2>2. loc'[p].failed = l.failed /\ loc'[p].attempts = l.attempts
    BY <1>2, <2>1 DEF Synchronisation
  <2> QED BY <1>3, <1>5, <2>1, <2>2 DEF SyncHost, SyncSteps
<1>6. CASE SyncWAF(p)
  BY <1>2, <1>3, <1>6 DEF SyncWAF, To, SyncSteps, Recovers, Recoverable
<1>7. CASE SyncTest(p) \/ SyncReload(p)
  BY <1>2, <1>3, <1>7 DEF SyncTest, SyncReload, Call, To, SyncSteps
<1>8. CASE SyncRecover(p)
  <2>1. pc[p] = "syncTested" /\ pc'[p] = "syncHost" /\ UNCHANGED db BY <1>2, <1>8 DEF SyncRecover, To
  <2>2. PICK n, h :
          /\ n \in Blamable(disk) /\ h \in FoundByDomain(l.rows, n)
          /\ loc' = [loc EXCEPT ![p] = [l EXCEPT !.failed = l.failed \cup {h}, !.attempts = l.attempts + 1]]
    BY <1>2, <1>8 DEF SyncRecover, Synchronisation
  <2>3. h \notin l.failed
    <3>1. h \in DOMAIN l.rows /\ File(l.rows[h]) = n
      BY <1>1, <2>2, FoundHasIt DEF Blamable, Recovers
    <3> QED BY <2>1, <2>2, <3>1, BlamedIsBad DEF Recovers
  <2>4. loc'[p].failed = l.failed \cup {h} /\ loc'[p].attempts = l.attempts + 1
    BY <1>2, <2>2 DEF Synchronisation
  <2>5. IsFiniteSet(l.failed) BY <1>2, FS_Subset DEF Synchronisation, Recovers
  <2>6. Cardinality(l.failed \cup {h}) = Cardinality(l.failed) + 1 BY <2>3, <2>5, FS_AddElement
  <2> QED BY <1>2, <2>1, <2>4, <2>6, RecoverGoes DEF SyncSteps
<1>9. CASE SyncGiveUp(p) \/ SyncEnd(p)
  BY <1>2, <1>4, <1>9 DEF SyncGiveUp, SyncEnd, SyncDone, Done, To
<1>10. CASE SyncReloaded(p)
  <2>1. CASE SyncDone(p) BY <1>2, <1>4, <1>10, <2>1 DEF SyncReloaded, SyncDone, Done, To
  <2>2. CASE /\ To(p, "syncRecord")
             /\ loc' = [loc EXCEPT ![p] = [l EXCEPT !.todo = DOMAIN l.rows]]
    <3>1. loc'[p].failed = l.failed /\ loc'[p].attempts = l.attempts
      BY <1>2, <2>2 DEF Synchronisation
    <3> QED BY <1>2, <1>3, <1>10, <2>2, <3>1 DEF SyncReloaded, To, SyncSteps
  <2> QED BY <1>2, <1>10, <2>1, <2>2 DEF SyncReloaded, Synchronisation
<1>11. CASE SyncRecord(p)
  <2>1. PICK h : loc' = [loc EXCEPT ![p] = [l EXCEPT !.todo = l.todo \ {h}]]
    BY <1>2, <1>11 DEF SyncRecord, Synchronisation
  <2>2. loc'[p].failed = l.failed /\ loc'[p].attempts = l.attempts
    BY <1>2, <2>1 DEF Synchronisation
  <2> QED BY <1>1, <1>3, <1>11, <2>2 DEF SyncRecord
<1> QED BY <1>5, <1>6, <1>7, <1>8, <1>9, <1>10, <1>11 DEF SyncStep

LEMMA RecoverStep ==
  ASSUME Recovers, RowsOK, SyncsOK, NEW p, Procs = {p}, OwnInv(p), RecoverInv(p), [SyncNext]_syncVars
  PROVE  RecoverInv(p)'
<1>1. CASE DebouncedReload(p)
  <2>1. UNCHANGED db /\ pc'[p] = "manager" BY <1>1 DEF DebouncedReload, To, SyncsOK, Variables
  <2> QED BY <2>1, RecoverElsewhere DEF SyncSteps
<1>2. CASE Crash
  <2>1. UNCHANGED db /\ pc'[p] = "idle" BY <1>2 DEF Crash
  <2> QED BY <2>1, RecoverElsewhere DEF SyncSteps
<1>3. CASE StartSync(p) \/ Restart(p) BY <1>3, RecoverBegins DEF StartSync, Restart
<1>4. CASE UNCHANGED vars
  <2>1. UNCHANGED <<db, pc, loc, mpc, disk>> BY <1>4 DEF vars, managerVars, serviceVars
  <2> QED BY <2>1 DEF RecoverInv, Exists, Valid
<1> QED BY <1>1, <1>2, <1>3, <1>4, RecoverStart, RecoverService, RecoverManager, RecoverSync
        DEF SyncNext, Request, SyncNothing, syncVars

LEMMA RecoverInit == ASSUME NEW p, Procs = {p}, SyncInit PROVE RecoverInv(p)
BY DEF SyncInit, Init, Exists, RecoverInv, SyncSteps

\* What a synchronisation may give up for.
HasTo(l) == Cardinality(Bad(l)) > MaxAttempts \/ Bad(l) \cap Unfound(l) # {}

\* A synchronisation that gives up, although every rejected host is found, has taken down as many
\* hosts as it may, and nginx rejects one more.
LEMMA GivesUp ==
  ASSUME Recovers, RowsOK, SyncsOK, NEW p \in Procs, OwnInv(p), RecoverInv(p), SyncGiveUp(p)
  PROVE  HasTo(loc[p])
<1> DEFINE l == loc[p]
<1> SUFFICES ASSUME Bad(l) \cap Unfound(l) = {} PROVE Cardinality(Bad(l)) > MaxAttempts
  BY DEF HasTo
<1>1. pc[p] = "syncTested" /\ pc[p] \in SyncSteps /\ mpc[p] = "err"
  BY DEF SyncGiveUp, Result, SyncSteps
<1>2. /\ l.rows = [h \in {g \in Hosts : Exists(g) /\ db[g].enabled} |-> db[h]]
      /\ l.failed \subseteq Bad(l) /\ disk \in Disk /\ l.attempts = Cardinality(l.failed)
  BY <1>1, SyncedHere DEF Synced, List, RecoverInv
<1>3. PICK n \in Names : n \in Blamable(disk) BY <1>1 DEF RecoverInv, Valid, Blamable
<1>4. \A m \in Blamable(disk) : FoundByDomain(l.rows, m) # {}
  <2> SUFFICES ASSUME NEW m \in Blamable(disk) PROVE \E h : h \in FoundByDomain(l.rows, m)
    OBVIOUS
  <2>1. m \in Names /\ disk.conf[m] # NoFile BY DEF Blamable
  <2>2. Own(disk.conf[m], m) /\ disk.conf[m].host \in Hosts
    BY <1>2, <2>1 DEF OwnInv, OwnFiles, Disk, Datum
  <2>3. PICK h \in Hosts : h = disk.conf[m].host /\ h \in DOMAIN l.rows /\ File(l.rows[h]) = m
    BY <1>2, <2>2 DEF Own, RecoverInv
  <2>4. h \in Bad(l) BY <1>1, <2>3, BlamedIsBad DEF Recovers
  <2> QED BY <2>3, <2>4 DEF Unfound
<1>5. l.attempts = MaxAttempts BY <1>3, <1>4 DEF SyncGiveUp, Recovers
<1>6. PICK h : h \in FoundByDomain(l.rows, n) BY <1>3, <1>4
<1>7. h \in Bad(l) \ l.failed BY <1>1, <1>3, <1>6, FoundHasIt, BlamedIsBad DEF Recovers
<1>8. IsFiniteSet(Bad(l))
  <2>1. Bad(l) \in SUBSET Hosts BY <1>2 DEF Bad
  <2> QED BY <2>1, FS_Subset DEF Recovers
<1>9. IsFiniteSet(l.failed) BY <1>2, <1>8, FS_Subset
<1>10. Cardinality(l.failed \cup {h}) = Cardinality(l.failed) + 1 BY <1>7, <1>9, FS_AddElement
<1>11. l.failed \cup {h} \in SUBSET Bad(l) BY <1>2, <1>7
<1>12. Cardinality(l.failed \cup {h}) <= Cardinality(Bad(l)) BY <1>8, <1>11, FS_Subset
<1>13. Cardinality(Bad(l)) \in Nat BY <1>8, FS_CardinalityType
<1> QED BY <1>2, <1>5, <1>10, <1>12, <1>13, AttemptAssumption

LEMMA GivesUpLast ==
  ASSUME Recovers, RowsOK, SyncsOK, NEW p, Procs = {p}, OwnInv(p), RecoverInv(p), [SyncNext]_syncVars,
         pc[p] = "syncTested", pc'[p] = "idle"
  PROVE  boot' = "crashed" \/ HasTo(loc[p])
<1>1. CASE Crash BY <1>1 DEF Crash
<1>2. ~Request(p)
  <2>1. ~Service(p) /\ ~Start(p) /\ ~DebouncedReload(p) BY NotARequest DEF SyncSteps
  <2> QED BY <2>1 DEF Request, ManagerStep, CancelCall, serviceVars
<1>3. ~StartSync(p) /\ ~Restart(p) BY DEF StartSync, Restart, Begins
<1>4. ~UNCHANGED vars BY DEF vars, serviceVars
<1>5. CASE SyncStep(p)
  <2>1. DOMAIN pc = Procs BY DEF SyncsOK, Variables
  <2>2. SyncGiveUp(p)
    BY <1>5, <2>1 DEF SyncStep, SyncHost, SyncWAF, SyncTest, SyncRecover, SyncReload, SyncReloaded,
       SyncRecord, SyncEnd, To
  <2> QED BY <2>2, GivesUp
<1> QED BY <1>1, <1>2, <1>3, <1>4, <1>5 DEF SyncNext, SyncNothing, syncVars

\* Auto-recovery.  A synchronisation of one client, whose writes do not fail, ends without a reload
\* only when nginx rejects more hosts than it may remove, or one that is not found by the name of
\* its file, or the API crashes: it never removes a host twice, nor one that nginx accepts.
THEOREM GivesUpOnlyThen == Recovers => (SyncSpec => RecoversIfItCan)
<1> SUFFICES ASSUME Recovers PROVE SyncSpec => RecoversIfItCan
  OBVIOUS
<1> DEFINE Only == \A p \in Procs : pc[p] = "syncTested" /\ pc'[p] = "idle" =>
                     \/ boot' = "crashed"
                     \/ Cardinality(Bad(loc[p])) > MaxAttempts
                     \/ Bad(loc[p]) \cap Unfound(loc[p]) # {}
<1> PICK c : Procs = {c} BY DEF Recovers, Recoverable, Serial
<1> DEFINE Inv == SyncTypes /\ OwnInv(c) /\ RecoverInv(c)
<1>1. SyncInit => Inv BY SyncInitTypes, OwnInit, RecoverInit
<1>2. Inv /\ [SyncNext]_syncVars => Inv' BY SyncTypesStep, OwnStep, RecoverStep DEF SyncTypes, Recovers
<1>3. Inv /\ [SyncNext]_syncVars => Only BY GivesUpLast DEF SyncTypes, HasTo
<1>4. SyncSpec => [][Only]_syncVars BY <1>1, <1>2, <1>3, PTL DEF SyncSpec
<1> QED BY <1>4 DEF RecoversIfItCan
-----------------------------------------------------------------------------
(* What a restart repairs, and what is recorded of it.  No update leaves a   *)
(* body nginx rejects, files are only written by calls that test them, and   *)
(* a synchronisation finds every host and may remove it.                     *)
Repairs ==
  /\ Recovers /\ Cardinality(Hosts) <= MaxAttempts
  /\ \A d \in Domains : <<FileOf[d], d>> \in Matches
  /\ \A req \in Requests : "body" \in DOMAIN req => req.body \notin BadBodies
  /\ ServiceOps \cap {"updateWithoutReload", "refreshWithoutReload"} = {}

\* The file of a host, if there is one, is a file nginx accepts, with what it includes.
Sound(h) ==
  LET c == disk.conf[File(db[h])] IN
    c # NoFile => /\ c.body \notin BadBodies
                  /\ c.waf => disk.waf[h] \notin BadBodies \cup {NoFile}
                  /\ c.cloud => disk.cloud[h]

TakenDown(h) == disk.conf[File(db[h])] = NoFile /\ status[h] = "error"

\* A host nobody works on is served as its row says, or is taken down and marked.
Fine(h) ==
  Exists(h) =>
    /\ Sound(h)
    /\ IF db[h].body \in BadBodies
       THEN TakenDown(h)
       ELSE h \notin owed => Written(disk, DataOf(h, db[h])) /\ Written(running, DataOf(h, db[h]))

\* The call that generates a host's files: one with a rejected body has no file to lose.
Generates(p) ==
  LET l == loc[p]
      k == l.host
      x == DataOf(k, l.row)
      j == job[p]
      at == mpc[p]
  IN /\ at \in {"wait", "include", "conf", "waf", "test", "reload", "rollback", "ok", "err"}
     /\ at \notin {"ok", "err"} => j.op = "generate" /\ j.data = x
     /\ at \in {"conf", "waf"} => (x.cloud => disk.cloud[k])
     /\ at = "waf" => disk.conf[x.name] = x
     /\ at \in {"test", "reload", "ok"} => Written(disk, x)
     /\ at = "ok" => Written(running, x)
     /\ IF l.row.body \in BadBodies
        THEN /\ at \notin {"reload", "ok"}
             /\ l.op # "create" => status[k] = "error"
             /\ at \in {"wait", "err"} => disk.conf[x.name] = NoFile
             /\ at \notin {"wait", "err"} => j.savedConf = NoFile
        ELSE at \notin {"rollback", "err"}

\* The call of a deletion, which nginx does not refuse.
Deletes(p) ==
  LET l == loc[p] IN
    /\ mpc[p] \in {"wait", "remove", "test", "reload", "ok"}
    /\ mpc[p] # "ok" => job[p].op = "remove" /\ job[p].data = DataOf(l.host, l.row)

\* What a request has done to its host.
Midway(p) ==
  LET l == loc[p]
      k == l.host
      at == pc[p]
  IN /\ at \in {"insert", "read", "write", "configure", "manager", "undoFiles", "undoRow", "deleteRow"}
     /\ l.op # "reloader"
     /\ at \in {"read", "write"} => Fine(k)
     /\ at = "write" => (l.row.body \in BadBodies => db[k].body \in BadBodies)
     /\ at \notin {"insert", "read", "write"} => db[k] = l.row
     /\ at = "configure" => Sound(k) /\ (l.row.body \in BadBodies => TakenDown(k))
     /\ at = "manager" => IF l.op = "delete" THEN Deletes(p) ELSE Generates(p)

\* What a synchronisation has tested, and what it has recorded.
Recorded(p) ==
  LET l == loc[p]
      at == pc[p]
  IN /\ at = "syncTested" /\ mpc[p] = "ok" => Valid(disk)
     /\ at = "syncReloaded" => Valid(disk) /\ mpc[p] # "err"
     /\ at = "syncRecord" =>
          /\ Valid(disk)
          /\ \A h \in DOMAIN l.rows \ l.failed : Written(disk, DataOf(h, l.rows[h]))
          /\ \A h \in DOMAIN l.rows \ l.todo : h \in l.failed => status[h] = "error"

\* While the API serves, every host is fine but the one a request works on.
RepairInv(p) ==
  /\ ~reloadPending
  /\ boot = "crashed" => pc[p] = "idle"
  /\ pc[p] \in SyncSteps => Recorded(p)
  /\ boot # "crashed" /\ pc[p] \notin SyncSteps =>
       /\ boot = "serving"
       /\ \A h \in Hosts : (pc[p] # "idle" /\ h = loc[p].host) \/ Fine(h)
       /\ pc[p] # "idle" => Midway(p)

-----------------------------------------------------------------------------
\* The files of a row nginx accepts.
LEMMA WrittenIsSound ==
  ASSUME NEW k \in Hosts, NEW r \in Row, db[k] = r, r.body \notin BadBodies,
         Written(disk, DataOf(k, r))
  PROVE  Sound(k)
<1>1. PICK x \in Datum : /\ x = DataOf(k, r) /\ x.host = k /\ x.name = File(r) /\ x.body = r.body
                         /\ x.body # NoFile
  BY Data
<1>2. /\ disk.conf[File(r)] = x /\ (x.waf => disk.waf[k] = x.body) /\ (x.cloud => disk.cloud[k])
  BY <1>1 DEF Written
<1> QED BY <1>1, <1>2 DEF Sound

\* When every host's file is accepted, all are.
LEMMA SoundIsValid ==
  ASSUME NEW p \in Procs, OwnInv(p), \A h \in Hosts : Exists(h) => Sound(h)
  PROVE  Valid(disk)
<1> SUFFICES ASSUME NEW n \in Names, disk.conf[n] # NoFile
             PROVE  LET c == disk.conf[n] IN
                      /\ c.body \notin BadBodies
                      /\ c.waf => disk.waf[c.host] \notin BadBodies \cup {NoFile}
                      /\ c.cloud => disk.cloud[c.host]
                      /\ \A m \in Names \ {n} : disk.conf[m] # NoFile => disk.conf[m].host # c.host
  BY DEF Valid
<1>1. PICK c \in Datum : c = disk.conf[n] BY DEF OwnInv, Disk
<1>2. PICK h \in Hosts : h = c.host BY <1>1 DEF Datum
<1>3. Exists(h) /\ File(db[h]) = n BY <1>1, <1>2 DEF OwnInv, OwnFiles, Own
<1>4. Sound(h) BY <1>3
<1>5. \A m \in Names : disk.conf[m] # NoFile /\ disk.conf[m].host = h => m = n
  BY <1>3 DEF OwnInv, OwnFiles, Own
<1>6. /\ c.body \notin BadBodies /\ (c.waf => disk.waf[h] \notin BadBodies \cup {NoFile})
      /\ (c.cloud => disk.cloud[h])
  BY <1>1, <1>3, <1>4 DEF Sound
<1> QED BY <1>1, <1>2, <1>5, <1>6

\* And a file of a body it rejects is rejected.
LEMMA WrittenIsBad ==
  ASSUME NEW x \in Datum, x.body \in BadBodies, Written(disk, x)
  PROVE  ~Valid(disk)
<1>1. x.name \in Names /\ disk.conf[x.name] = x /\ x # NoFile BY FileAssumption DEF Datum, Written
<1> QED BY <1>1 DEF Valid

\* A step leaves the files of every host but k.
Aside(k) ==
  /\ \A n \in Names : disk'.conf[n] = disk.conf[n] \/ Free(n, k)
  /\ \A h \in Hosts \ {k} : disk'.waf[h] = disk.waf[h] /\ disk'.cloud[h] = disk.cloud[h]

LEMMA StaysFine ==
  ASSUME RowsOK, NEW k, Aside(k), NEW h \in Hosts, h # k, Fine(h), db'[h] = db[h],
         status'[h] = status[h], h \in owed => h \in owed', running' \in {running, disk}
  PROVE  Fine(h)'
<1> SUFFICES ASSUME Exists(h)' PROVE Fine(h)'
  BY DEF Fine
<1> DEFINE r == db[h]
           x == DataOf(h, r)
<1>1. Exists(h) /\ r \in Row /\ File(r) \in Names BY RowFile DEF Exists, RowsOK
<1>2. /\ x.host = h /\ x.name = File(r) /\ DataOf(h, db'[h]) = x /\ db'[h] = r
  BY <1>1, Data DEF DataOf
<1> HIDE DEF x
<1>3. ~Free(File(r), k) BY <1>1 DEF Free
<1>4. disk'.conf[File(r)] = disk.conf[File(r)] /\ disk'.waf[h] = disk.waf[h] /\ disk'.cloud[h] = disk.cloud[h]
  BY <1>1, <1>3 DEF Aside
<1>5. Sound(h)' BY <1>1, <1>2, <1>4 DEF Fine, Sound
<1>6. Written(disk, x) => Written(disk', x) BY <1>2, <1>4 DEF Written
<1>7. TakenDown(h) => TakenDown(h)' BY <1>2, <1>4 DEF TakenDown
<1>8. /\ r.body \in BadBodies => TakenDown(h)
      /\ r.body \notin BadBodies /\ h \notin owed => Written(disk, x) /\ Written(running, x)
  BY <1>1 DEF Fine, x
<1>9. r.body \in BadBodies => TakenDown(h)' BY <1>7, <1>8
<1>10. r.body \notin BadBodies /\ h \notin owed' => Written(disk', x) /\ Written(running', x)
  BY <1>6, <1>8
<1> QED BY <1>2, <1>5, <1>9, <1>10 DEF Fine

\* A request leaves the other hosts, and either goes on or leaves its own fine.
LEMMA RepairGoes ==
  ASSUME RowsOK, NEW p \in Procs, RepairInv(p), pc[p] \in Steps \ {"idle"},
         boot = "serving", boot' = "serving",
         NEW k, k = loc[p].host, Aside(k), ~reloadPending', running' \in {running, disk},
         \A h \in Hosts \ {k} : db'[h] = db[h] /\ status'[h] = status[h] /\ (h \in owed => h \in owed'),
         \/ pc'[p] = "idle" /\ Fine(k)'
         \/ pc'[p] \in Steps \ {"idle"} /\ loc'[p].host = k /\ Midway(p)'
  PROVE  RepairInv(p)'
<1>1. pc[p] \notin SyncSteps /\ pc'[p] \notin SyncSteps BY StepsApart DEF Steps
<1>2. ASSUME NEW h \in Hosts, h # k PROVE Fine(h)'
  <2>1. Fine(h) BY <1>1, <1>2 DEF RepairInv
  <2> QED BY <1>2, <2>1, StaysFine
<1>3. \A h \in Hosts : (pc'[p] # "idle" /\ h = loc'[p].host) \/ Fine(h)' BY <1>2
<1> QED BY <1>1, <1>3 DEF RepairInv

\* What there is to know of a request.
LEMMA MidwayHere ==
  ASSUME Repairs, RowsOK, SyncsOK, NEW p \in Procs, OwnInv(p), RecoverInv(p), RepairInv(p),
         pc[p] \in Steps \ {"idle"}
  PROVE  LET k == loc[p].host
             r == loc[p].row
         IN /\ boot = "serving" /\ Midway(p) /\ Asked(p) /\ LocalOK(p) /\ ~reloadPending
            /\ On(p, k, r) /\ k \in Hosts /\ (pc[p] # "read" => r \in Row) /\ loc[p].old = NoFile
            /\ disk \in Disk /\ running \in Disk /\ DOMAIN mpc = Procs /\ DOMAIN job = Procs
            /\ DOMAIN db = Hosts /\ DOMAIN status = Hosts /\ DOMAIN pc = Procs /\ DOMAIN loc = Procs
            /\ pc[p] # "manager" => mpc[p] = "idle"
            /\ pc[p] # "insert" => Exists(k) /\ db[k] \in Row /\ db[k].enabled /\ Free(File(db[k]), k)
            /\ pc[p] \notin {"insert", "read"} => File(r) = File(db[k])
            /\ loc[p].op \notin {"updateWithoutReload", "refreshWithoutReload"}
<1> DEFINE k == loc[p].host
           r == loc[p].row
<1>1. pc[p] \notin SyncSteps BY StepsApart
<1>2. boot = "serving" /\ Midway(p) /\ ~reloadPending BY <1>1 DEF RepairInv
<1>3. loc[p].op # "reloader" /\ pc[p] # "rereload" BY <1>2 DEF Midway
<1>4. On(p, k, r) BY <1>3 DEF On
<1>5. /\ Asked(p) /\ k \in Hosts /\ (pc[p] # "read" => r \in Row) /\ loc[p].old = NoFile
      /\ disk \in Disk /\ running \in Disk /\ DOMAIN mpc = Procs /\ DOMAIN job = Procs
      /\ DOMAIN db = Hosts /\ DOMAIN pc = Procs /\ DOMAIN loc = Procs
      /\ pc[p] \notin {"manager", "rereload"} => mpc[p] = "idle"
      /\ pc[p] # "insert" => Exists(k) /\ db[k] \in Row
  BY <1>4, AskedHere
<1>6. LocalOK(p) /\ DOMAIN status = Hosts BY <1>1 DEF SyncsOK, Syncing, RowsOK
<1>7. loc[p].op \in ServiceOps BY <1>3, <1>6 DEF LocalOK, Working, Local, Updating
<1>8. loc[p].op \notin {"updateWithoutReload", "refreshWithoutReload"} BY <1>7 DEF Repairs
<1>9. pc[p] # "insert" => db[k].enabled /\ Free(File(db[k]), k) BY <1>5 DEF RecoverInv, OwnInv, Apart
<1>10. pc[p] \notin {"insert", "read"} => File(r) = File(db[k]) BY <1>5 DEF Asked
<1> QED BY <1>2, <1>3, <1>4, <1>5, <1>6, <1>8, <1>9, <1>10

-----------------------------------------------------------------------------
(* The steps of a request.                                                   *)
LEMMA RepairInsert ==
  ASSUME Repairs, RowsOK, SyncsOK, NEW p \in Procs, OwnInv(p), RecoverInv(p), RepairInv(p),
         boot' = boot, Insert(p)
  PROVE  RepairInv(p)'
<1> PICK k, r : k = loc[p].host /\ r = loc[p].row OBVIOUS
<1> DEFINE x == DataOf(k, r)
<1>1. pc[p] = "insert" /\ pc[p] \in Steps \ {"idle"} BY DEF Insert, Steps
<1>2. /\ boot = "serving" /\ Midway(p) /\ Asked(p) /\ LocalOK(p) /\ ~reloadPending
      /\ k \in Hosts /\ r \in Row /\ mpc[p] = "idle" /\ disk \in Disk
      /\ DOMAIN db = Hosts /\ DOMAIN status = Hosts /\ DOMAIN pc = Procs /\ DOMAIN mpc = Procs
      /\ DOMAIN job = Procs
  BY <1>1, MidwayHere
<1>3. db[k] = NoRow /\ Free(File(r), k) BY <1>1, <1>2 DEF Asked
<1>4. r.enabled BY <1>1 DEF RecoverInv
<1>5. loc[p].op = "create" BY <1>1, <1>2 DEF LocalOK, Working
<1>6. /\ db' = [db EXCEPT ![k] = r] /\ status' = [status EXCEPT ![k] = "ok"]
      /\ Call(p, "generate", x, File(r)) /\ To(p, "manager") /\ UNCHANGED <<loc, reloadPending, owed>>
  BY <1>1, <1>4 DEF Insert, Repairs, Recovers, Recoverable
<1>7. /\ x \in Datum /\ x.name = File(r) /\ File(r) \in Names /\ DataOf(k, r) = x BY <1>2, Data
<1> HIDE DEF x
<1>8. /\ mpc'[p] = "wait" /\ job'[p].op = "generate" /\ job'[p].data = x /\ UNCHANGED <<disk, running>>
  BY <1>2, <1>6, <1>7, Calling
<1>9. disk.conf[File(r)] = NoFile BY <1>3, <1>7, RowAssumption DEF OwnInv, OwnFiles, Own, Free, Exists, Disk, Datum
<1>10. pc'[p] = "manager" /\ db'[k] = r BY <1>2, <1>6 DEF To
<1>11. Generates(p)' BY <1>5, <1>6, <1>7, <1>8, <1>9 DEF Generates
<1>12. Midway(p)' BY <1>5, <1>6, <1>10, <1>11 DEF Midway
<1>13. Aside(k) BY <1>8 DEF Aside
<1> QED BY <1>1, <1>2, <1>6, <1>8, <1>10, <1>12, <1>13, RepairGoes DEF Steps

LEMMA RepairRead ==
  ASSUME Repairs, RowsOK, SyncsOK, NEW p \in Procs, OwnInv(p), RecoverInv(p), RepairInv(p),
         boot' = boot, Read(p)
  PROVE  RepairInv(p)'
<1> PICK k : k = loc[p].host OBVIOUS
<1> DEFINE q == loc[p].req
           m == Merge(db[k], q)
<1>1. pc[p] = "read" /\ pc[p] \in Steps \ {"idle"} BY DEF Read, Steps
<1>2. /\ boot = "serving" /\ Midway(p) /\ LocalOK(p) /\ ~reloadPending /\ k \in Hosts
      /\ loc[p].op # "reloader"
      /\ Exists(k) /\ db[k] \in Row /\ DOMAIN pc = Procs /\ DOMAIN loc = Procs
  BY <1>1, MidwayHere DEF Midway
<1>3. loc[p] \in Updating /\ q \in Requests BY <1>1, <1>2 DEF LocalOK, Working, Updating
<1>4. Fine(k) BY <1>1, <1>2 DEF Midway
<1>5. m.body \in BadBodies => db[k].body \in BadBodies
  BY <1>2, <1>3 DEF Merge, Row, Repairs
<1> HIDE DEF m
<1>6. /\ pc'[p] = "write" /\ loc' = [loc EXCEPT ![p] = [loc[p] EXCEPT !.row = m]]
      /\ UNCHANGED <<disk, running, mpc, job, db, status, reloadPending, owed>>
  BY <1>1, <1>2 DEF Read, To, managerVars, m
<1>7. loc'[p].host = k /\ loc'[p].row = m /\ loc'[p].op # "reloader"
  BY <1>2, <1>3, <1>6 DEF Updating
<1>8. Fine(k)' BY <1>4, <1>6 DEF Fine, Exists, Sound, TakenDown, Written, DataOf
<1>9. Midway(p)' BY <1>5, <1>6, <1>7, <1>8 DEF Midway
<1>10. Aside(k) BY <1>6 DEF Aside
<1> QED BY <1>1, <1>2, <1>6, <1>7, <1>9, <1>10, RepairGoes DEF Steps

LEMMA RepairWrite ==
  ASSUME Repairs, RowsOK, SyncsOK, NEW p \in Procs, OwnInv(p), RecoverInv(p), RepairInv(p),
         boot' = boot, Write(p)
  PROVE  RepairInv(p)'
<1> PICK k, r : k = loc[p].host /\ r = loc[p].row OBVIOUS
<1>1. pc[p] = "write" /\ pc[p] \in Steps \ {"idle"} BY DEF Write, Steps
<1>2. /\ boot = "serving" /\ Midway(p) /\ ~reloadPending /\ k \in Hosts /\ loc[p].op # "reloader"
      /\ Exists(k) /\ DOMAIN db = Hosts /\ DOMAIN pc = Procs /\ File(r) = File(db[k])
      /\ loc[p].op # "updateWithoutReload"
  BY <1>1, MidwayHere DEF Midway
<1>3. /\ pc'[p] = "configure" /\ db' = [db EXCEPT ![k] = r] /\ UNCHANGED loc
      /\ UNCHANGED <<disk, running, mpc, job, status, reloadPending, owed>>
  BY <1>1, <1>2 DEF Write, To, AfterWrite, managerVars, Repairs, Recovers, Recoverable
<1>4. db'[k] = r /\ \A h \in Hosts \ {k} : db'[h] = db[h] BY <1>2, <1>3
<1>5. Fine(k) /\ (r.body \in BadBodies => db[k].body \in BadBodies) BY <1>1, <1>2 DEF Midway
<1>6. Sound(k)' BY <1>2, <1>3, <1>4, <1>5 DEF Fine, Sound
<1>7. r.body \in BadBodies => TakenDown(k)' BY <1>2, <1>3, <1>4, <1>5 DEF Fine, TakenDown
<1>8. Midway(p)' BY <1>2, <1>3, <1>4, <1>6, <1>7 DEF Midway
<1>9. Aside(k) BY <1>3 DEF Aside
<1> QED BY <1>1, <1>2, <1>3, <1>4, <1>8, <1>9, RepairGoes DEF Steps

LEMMA RepairConfigures ==
  ASSUME Repairs, RowsOK, SyncsOK, NEW p \in Procs, OwnInv(p), RecoverInv(p), RepairInv(p),
         boot' = boot, ConfigureEnabled(p) \/ ConfigureDisabled(p) \/ ConfigureRow(p)
  PROVE  RepairInv(p)'
<1> PICK k, r : k = loc[p].host /\ r = loc[p].row OBVIOUS
<1> DEFINE x == DataOf(k, r)
<1>1. pc[p] = "configure" /\ pc[p] \in Steps \ {"idle"}
  BY DEF ConfigureEnabled, ConfigureDisabled, ConfigureRow, Steps
<1>2. /\ boot = "serving" /\ Midway(p) /\ ~reloadPending /\ k \in Hosts /\ r \in Row
      /\ loc[p].op # "reloader" /\ loc[p].old = NoFile /\ mpc[p] = "idle" /\ db[k].enabled
      /\ DOMAIN pc = Procs /\ DOMAIN mpc = Procs /\ DOMAIN job = Procs
  BY <1>1, MidwayHere DEF Midway
<1>3. db[k] = r /\ Sound(k) /\ (r.body \in BadBodies => TakenDown(k)) BY <1>1, <1>2 DEF Midway
<1>4. x \in Datum /\ x.name = File(r) /\ File(r) \in Names /\ DataOf(k, r) = x BY <1>2, Data
<1> HIDE DEF x
<1>5. /\ Call(p, IF loc[p].op = "delete" THEN "remove" ELSE "generate", x, File(r))
      /\ To(p, "manager") /\ UNCHANGED <<db, status, loc, reloadPending, owed>>
  BY <1>1, <1>2, <1>3 DEF ConfigureEnabled, ConfigureDisabled, ConfigureRow, Renamed, x
<1>6. /\ mpc'[p] = "wait" /\ job'[p].data = x /\ UNCHANGED <<disk, running>>
      /\ job'[p].op = IF loc[p].op = "delete" THEN "remove" ELSE "generate"
  <2>1. PICK op \in {"remove", "generate"} : /\ Call(p, op, x, File(r))
                                              /\ op = IF loc[p].op = "delete" THEN "remove" ELSE "generate"
    BY <1>5
  <2> QED BY <1>2, <1>4, <2>1, Calling
<1>7. pc'[p] = "manager" BY <1>2, <1>5 DEF To
<1>8. CASE loc[p].op = "delete"
  <2>1. Deletes(p)' BY <1>4, <1>5, <1>6, <1>8 DEF Deletes
  <2> QED BY <1>1, <1>2, <1>3, <1>5, <1>6, <1>7, <1>8, <2>1, RepairGoes DEF Midway, Aside, Steps
<1>9. CASE loc[p].op # "delete"
  <2>1. r.body \in BadBodies => disk.conf[x.name] = NoFile /\ status[k] = "error"
    BY <1>3, <1>4 DEF TakenDown
  <2>2. Generates(p)' BY <1>4, <1>5, <1>6, <1>9, <2>1 DEF Generates
  <2> QED BY <1>1, <1>2, <1>3, <1>5, <1>6, <1>7, <1>9, <2>2, RepairGoes DEF Midway, Aside, Steps
<1> QED BY <1>8, <1>9

\* UpdateDBOnly owes its host a configuration.
LEMMA RepairCleanup ==
  ASSUME Repairs, RowsOK, SyncsOK, NEW p \in Procs, OwnInv(p), RecoverInv(p), RepairInv(p),
         boot' = boot, CleanupDBOnly(p)
  PROVE  RepairInv(p)'
<1> PICK k, r : k = loc[p].host /\ r = loc[p].row OBVIOUS
<1>1. pc[p] = "configure" /\ pc[p] \in Steps \ {"idle"} BY DEF CleanupDBOnly, Steps
<1>2. /\ boot = "serving" /\ Midway(p) /\ ~reloadPending /\ k \in Hosts /\ loc[p].old = NoFile
      /\ DOMAIN pc = Procs
  BY <1>1, MidwayHere
<1>3. db[k] = r /\ Sound(k) /\ (r.body \in BadBodies => TakenDown(k)) BY <1>1, <1>2 DEF Midway
<1>4. /\ pc'[p] = "idle" /\ UNCHANGED <<disk, running, db, status, reloadPending>> /\ owed' = owed \cup {k}
  BY <1>2 DEF CleanupDBOnly, Renamed, Done, To
<1>5. Fine(k)' BY <1>3, <1>4 DEF Fine, Exists, Sound, TakenDown
<1>6. Aside(k) BY <1>4 DEF Aside
<1> QED BY <1>1, <1>2, <1>4, <1>5, <1>6, RepairGoes

\* A creation that is undone, and a deletion.
LEMMA RepairRowGoes ==
  ASSUME Repairs, RowsOK, SyncsOK, NEW p \in Procs, OwnInv(p), RecoverInv(p), RepairInv(p),
         boot' = boot, UndoFiles(p) \/ UndoRow(p) \/ DeleteRow(p)
  PROVE  RepairInv(p)'
<1> PICK k, r : k = loc[p].host /\ r = loc[p].row OBVIOUS
<1> DEFINE x == DataOf(k, r)
<1>1. pc[p] \in {"undoFiles", "undoRow", "deleteRow"} /\ pc[p] \in Steps \ {"idle"}
  BY DEF UndoFiles, UndoRow, DeleteRow, Steps
<1>2. /\ boot = "serving" /\ Midway(p) /\ ~reloadPending /\ k \in Hosts /\ r \in Row
      /\ loc[p].op # "reloader" /\ disk \in Disk /\ Exists(k) /\ Free(File(db[k]), k)
      /\ DOMAIN pc = Procs /\ DOMAIN db = Hosts
  BY <1>1, MidwayHere DEF Midway
<1>3. db[k] = r BY <1>1, <1>2 DEF Midway
<1>4. CASE UndoFiles(p)
  <2>1. x \in Datum /\ x.name = File(r) /\ x.host = k BY <1>2, Data
  <2>2. /\ disk' = WithoutConfig(disk, x) /\ UNCHANGED <<running, db, status, loc, reloadPending, owed>>
        /\ pc'[p] = "undoRow"
    BY <1>2, <1>4 DEF UndoFiles, To
  <2> HIDE DEF x
  <2>3. Aside(k) BY <1>2, <1>3, <2>1, <2>2, ConfigRemoved DEF Aside
  <2>4. Midway(p)' BY <1>2, <1>3, <2>2 DEF Midway
  <2> QED BY <1>1, <1>2, <2>2, <2>3, <2>4, RepairGoes DEF Steps
<1>5. CASE UndoRow(p) \/ DeleteRow(p)
  <2>1. /\ db' = [db EXCEPT ![k] = Gone] /\ pc'[p] = "idle"
        /\ UNCHANGED <<disk, running, status, reloadPending, owed>>
    BY <1>2, <1>5 DEF UndoRow, DeleteRow, DeletedRow, Done, To, managerVars, Repairs, Recovers, Recoverable
  <2>2. db'[k] = Gone BY <1>2, <2>1
  <2>3. Fine(k)' BY <2>2 DEF Fine, Exists
  <2>4. Aside(k) BY <2>1 DEF Aside
  <2> QED BY <1>1, <1>2, <2>1, <2>3, <2>4, RepairGoes
<1> QED BY <1>4, <1>5

\* The result of the manager: only a body nginx rejects fails.
LEMMA RepairResult ==
  ASSUME Repairs, RowsOK, SyncsOK, NEW p \in Procs, OwnInv(p), RecoverInv(p), RepairInv(p),
         boot' = boot, Succeeded(p) \/ Failed(p)
  PROVE  RepairInv(p)'
<1> PICK k, r : k = loc[p].host /\ r = loc[p].row OBVIOUS
<1> DEFINE x == DataOf(k, r)
<1>1. pc[p] = "manager" /\ pc[p] \in Steps \ {"idle"} BY DEF Succeeded, Failed, Steps
<1>2. /\ boot = "serving" /\ Midway(p) /\ ~reloadPending /\ k \in Hosts /\ r \in Row /\ LocalOK(p)
      /\ loc[p].op # "reloader" /\ Exists(k) /\ db[k].enabled /\ DOMAIN pc = Procs /\ DOMAIN status = Hosts
  BY <1>1, MidwayHere DEF Midway
<1>3. db[k] = r BY <1>1, <1>2 DEF Midway
<1>4. loc[p].op \in {"create", "update", "refresh", "regenerate", "delete"}
  BY <1>1, <1>2 DEF LocalOK, Working
<1>5. UNCHANGED <<disk, running, db, reloadPending>> /\ mpc[p] \in {"ok", "err"}
  BY DEF Succeeded, Failed, Result
<1>6. Aside(k) BY <1>5 DEF Aside
<1>7. x.name = File(r) /\ r.body = x.body /\ DataOf(k, r) = x BY <1>2, Data
<1> HIDE DEF x
<1>8. CASE loc[p].op = "delete"
  <2>1. mpc[p] = "ok" /\ Succeeded(p) BY <1>1, <1>2, <1>5, <1>8 DEF Midway, Deletes, Failed, Result
  <2>2. pc'[p] = "deleteRow" /\ UNCHANGED <<status, loc, owed>> BY <1>2, <1>8, <2>1 DEF Succeeded, To
  <2>3. Midway(p)' BY <1>2, <1>3, <1>5, <2>2 DEF Midway
  <2> QED BY <1>1, <1>2, <1>5, <1>6, <2>2, <2>3, RepairGoes DEF Steps
<1>9. CASE loc[p].op # "delete" /\ Succeeded(p)
  <2>1. mpc[p] = "ok" /\ Generates(p) BY <1>1, <1>2, <1>9 DEF Midway, Succeeded, Result
  <2>2. r.body \notin BadBodies /\ Written(disk, x) /\ Written(running, x)
    BY <1>7, <2>1 DEF Generates
  <2>3. Sound(k) BY <1>2, <1>3, <1>7, <2>2, WrittenIsSound
  <2>4. /\ pc'[p] = "idle" /\ owed' \in {owed, owed \ {k}}
        /\ status' \in {status, [status EXCEPT ![k] = "ok"]}
    BY <1>2, <1>4, <1>9 DEF Succeeded, Done, To, SetStatus, Repairs, Recovers, Recoverable
  <2>5. Fine(k)' BY <1>3, <1>5, <1>7, <2>2, <2>3 DEF Fine, Sound
  <2> QED BY <1>1, <1>2, <1>5, <1>6, <2>4, <2>5, RepairGoes
<1>10. CASE loc[p].op # "delete" /\ Failed(p)
  <2>1. mpc[p] = "err" /\ Generates(p) BY <1>1, <1>2, <1>10 DEF Midway, Failed, Result
  <2>2. r.body \in BadBodies /\ disk.conf[File(r)] = NoFile /\ (loc[p].op # "create" => status[k] = "error")
    BY <1>7, <2>1 DEF Generates
  <2>3. UNCHANGED owed /\ status' \in {status, [status EXCEPT ![k] = "error"]}
    BY <1>2, <1>10 DEF Failed, SetStatus, Repairs, Recovers, Recoverable
  <2>4. CASE loc[p].op = "create"
    <3>1. pc'[p] = "undoFiles" /\ UNCHANGED <<status, loc>> BY <1>2, <1>10, <2>4 DEF Failed, To
    <3>2. Midway(p)' BY <1>2, <1>3, <1>5, <3>1 DEF Midway
    <3> QED BY <1>1, <1>2, <1>5, <1>6, <2>3, <3>1, <3>2, RepairGoes DEF Steps
  <2>5. CASE loc[p].op # "create"
    <3>1. pc'[p] = "idle" BY <1>2, <1>3, <1>10, <2>5 DEF Failed, Done, To
    <3>2. TakenDown(k)' BY <1>2, <1>3, <1>5, <2>2, <2>3, <2>5 DEF TakenDown
    <3>3. Fine(k)' BY <1>3, <1>5, <2>2, <3>2 DEF Fine, Sound, TakenDown
    <3> QED BY <1>1, <1>2, <1>5, <1>6, <2>3, <3>1, <3>3, RepairGoes
  <2> QED BY <2>4, <2>5
<1> QED BY <1>8, <1>9, <1>10

LEMMA RepairService ==
  ASSUME Repairs, RowsOK, SyncsOK, NEW p \in Procs, OwnInv(p), RecoverInv(p), RepairInv(p),
         boot' = boot, Service(p)
  PROVE  RepairInv(p)'
<1>1. pc[p] \in Steps \ {"idle"}
  BY DEF Service, Insert, UndoFiles, UndoRow, Read, Write, ConfigureEnabled,
     ConfigureDisabled, CleanupDBOnly, WriteFiles, WriteWAFFile, CallTest, Tested, Abandon,
     ConfigureRow, DeleteRow, Succeeded, Failed, Restore, Steps
<1>2. Midway(p) BY <1>1, MidwayHere
<1>3. ~WriteFiles(p) /\ ~WriteWAFFile(p) /\ ~CallTest(p) /\ ~Tested(p) /\ ~Abandon(p) /\ ~Restore(p)
  BY <1>2 DEF Midway, WriteFiles, WriteWAFFile, CallTest, Tested, Abandon, Restore, Repairs, Recovers,
     Recoverable
<1> QED BY <1>3, RepairInsert, RepairRead, RepairWrite, RepairConfigures, RepairCleanup, RepairRowGoes,
        RepairResult DEF Service

-----------------------------------------------------------------------------
(* The call of a request.                                                    *)
LEMMA RepairCall ==
  ASSUME Repairs, RowsOK, SyncsOK, NEW p \in Procs, OwnInv(p), RecoverInv(p), RepairInv(p),
         pc[p] = "manager", NEW k, NEW r, k = loc[p].host, r = loc[p].row
  PROVE  /\ boot = "serving" /\ ~reloadPending /\ Midway(p) /\ k \in Hosts /\ r \in Row
         /\ disk \in Disk /\ running \in Disk /\ DOMAIN mpc = Procs /\ DOMAIN job = Procs
         /\ Exists(k) /\ db[k] = r /\ Free(File(r), k) /\ File(r) \in Names
         /\ loc[p].op = "delete" => Deletes(p) /\ Removes(p)
         /\ loc[p].op # "delete" => Generates(p)
<1>1. pc[p] \in Steps \ {"idle"} BY DEF Steps
<1>2. /\ boot = "serving" /\ ~reloadPending /\ Midway(p) /\ Asked(p) /\ k \in Hosts /\ r \in Row
      /\ disk \in Disk /\ running \in Disk /\ DOMAIN mpc = Procs /\ DOMAIN job = Procs
      /\ Exists(k) /\ Free(File(db[k]), k)
  BY <1>1, MidwayHere
<1>3. db[k] = r /\ (loc[p].op = "delete" => Deletes(p)) /\ (loc[p].op # "delete" => Generates(p))
  BY <1>2 DEF Midway
<1>4. loc[p].op = "delete" => Removes(p) BY <1>2 DEF Asked
<1>5. File(r) \in Names BY <1>2, RowFile
<1> QED BY <1>2, <1>3, <1>4, <1>5

LEMMA RepairCallGoes ==
  ASSUME RowsOK, NEW p \in Procs, RepairInv(p), pc[p] = "manager", UNCHANGED serviceVars,
         boot = "serving", boot' = boot, Midway(p), ~reloadPending, NEW k, k = loc[p].host, Aside(k),
         running' \in {running, disk}, IF loc[p].op = "delete" THEN Deletes(p)' ELSE Generates(p)'
  PROVE  RepairInv(p)'
<1>1. UNCHANGED <<db, status, pc, loc, reloadPending, owed>> BY DEF serviceVars
<1>2. Midway(p)' BY <1>1 DEF Midway
<1> QED BY <1>1, <1>2, RepairGoes DEF Steps

\* The files are accepted when those of the host the request works on are.
LEMMA RepairValid ==
  ASSUME NEW p \in Procs, OwnInv(p), RepairInv(p), pc[p] = "manager", boot = "serving",
         Exists(loc[p].host) => Sound(loc[p].host)
  PROVE  Valid(disk)
<1>1. \A h \in Hosts : h = loc[p].host \/ Fine(h) BY DEF RepairInv, SyncSteps
<1>2. \A h \in Hosts : Exists(h) => Sound(h) BY <1>1 DEF Fine
<1> QED BY <1>2, SoundIsValid

LEMMA RepairGenerate ==
  ASSUME Repairs, RowsOK, SyncsOK, NEW p \in Procs, OwnInv(p), RecoverInv(p), RepairInv(p),
         boot' = boot, UNCHANGED serviceVars, pc[p] = "manager", loc[p].op # "delete",
         Acquire(p) \/ Step(p)
  PROVE  RepairInv(p)'
<1> PICK k, r : k = loc[p].host /\ r = loc[p].row OBVIOUS
<1> DEFINE x == DataOf(k, r)
<1>1. /\ boot = "serving" /\ ~reloadPending /\ Midway(p) /\ k \in Hosts /\ r \in Row
      /\ disk \in Disk /\ DOMAIN mpc = Procs /\ DOMAIN job = Procs
      /\ Exists(k) /\ db[k] = r /\ Free(File(r), k) /\ Generates(p)
  BY RepairCall
<1>2. /\ x \in Datum /\ x.host = k /\ x.name = File(r) /\ x.body = r.body /\ x.name \in Names
      /\ DataOf(k, r) = x
  BY <1>1, Data
<1> HIDE DEF x
<1>3. /\ mpc[p] \in {"wait", "include", "conf", "waf", "test", "reload", "rollback"}
      /\ job[p].op = "generate" /\ job[p].data = x
  BY <1>1, <1>2 DEF Generates, Acquire, Step, WriteInclude, WriteConf, WriteWAF, RemoveOld, RemoveFiles,
     FileError, Writing, TestConfig, ReloadNginx, Rollback
<1>4. UNCHANGED <<loc, status, db>> BY DEF serviceVars
<1>5. CASE Acquire(p)
  <2>1. /\ mpc[p] = "wait" /\ mpc'[p] = "include" /\ job'[p].op = "generate" /\ job'[p].data = x
        /\ job'[p].savedConf = disk.conf[x.name] /\ UNCHANGED <<disk, running>>
    <3>1. mpc[p] = "wait" /\ job[p] \in Called
      BY <1>1, <1>5, AtCall DEF Acquire
    <3> QED BY <1>1, <1>3, <1>5, <3>1, Taken DEF FirstStep
  <2>2. Generates(p)' BY <1>1, <1>2, <1>4, <2>1 DEF Generates
  <2> QED BY <1>1, <1>5, <2>1, <2>2, RepairCallGoes DEF Aside
<1>6. CASE WriteInclude(p)
  <2>1. /\ mpc[p] = "include" /\ mpc'[p] = "conf" /\ UNCHANGED <<job, running>>
        /\ disk' = WithInclude(disk, x)
    BY <1>1, <1>3, <1>6 DEF WriteInclude, Goto
  <2>2. /\ disk'.conf = disk.conf /\ disk'.waf = disk.waf /\ disk'.cloud[k] = x.cloud
        /\ \A h \in Hosts \ {k} : disk'.cloud[h] = disk.cloud[h]
    BY <1>1, <1>2, <2>1, IncludeWritten
  <2>3. Generates(p)' BY <1>1, <1>2, <1>3, <1>4, <2>1, <2>2 DEF Generates
  <2> QED BY <1>1, <2>1, <2>2, <2>3, RepairCallGoes DEF Aside
<1>7. CASE WriteConf(p)
  <2>1. mpc[p] = "conf" /\ mpc'[p] = "waf" /\ UNCHANGED <<job, running>> /\ disk' = WithConf(disk, x)
    BY <1>1, <1>3, <1>7 DEF WriteConf, Goto
  <2>2. /\ disk'.waf = disk.waf /\ disk'.cloud = disk.cloud /\ disk'.conf[x.name] = x
        /\ \A n \in Names \ {x.name} : disk'.conf[n] = disk.conf[n]
    BY <1>1, <1>2, <2>1, ConfWritten
  <2>3. Generates(p)' BY <1>1, <1>2, <1>3, <1>4, <2>1, <2>2 DEF Generates
  <2> QED BY <1>1, <1>2, <2>1, <2>2, <2>3, RepairCallGoes DEF Aside
<1>8. CASE WriteWAF(p)
  <2>1. PICK w \in BOOLEAN : w = x.waf BY <1>2 DEF Datum
  <2>2. /\ mpc[p] = "waf" /\ mpc'[p] = "test" /\ UNCHANGED <<job, running>>
        /\ disk' = WithWAF(disk, x, w)
    BY <1>1, <1>3, <1>8, <2>1 DEF WriteWAF, Goto
  <2>3. /\ disk'.conf = disk.conf /\ disk'.cloud = disk.cloud
        /\ disk'.waf[k] = IF w THEN x.body ELSE NoFile
        /\ \A h \in Hosts \ {k} : disk'.waf[h] = disk.waf[h]
    BY <1>1, <1>2, <2>2, WAFWritten
  <2>4. disk.conf[x.name] = x /\ (x.cloud => disk.cloud[k]) BY <1>1, <1>2, <2>2 DEF Generates
  <2>5. Written(disk', x) BY <1>2, <2>1, <2>3, <2>4 DEF Written
  <2>6. Generates(p)' BY <1>1, <1>2, <1>3, <1>4, <2>2, <2>5 DEF Generates
  <2> QED BY <1>1, <2>2, <2>3, <2>6, RepairCallGoes DEF Aside
<1>9. CASE TestConfig(p)
  <2>1. mpc[p] = "test" /\ UNCHANGED <<disk, running>> BY <1>9 DEF TestConfig
  <2>2. Written(disk, x) BY <1>1, <1>2, <2>1 DEF Generates
  <2>3. Written(disk', x) BY <2>1, <2>2 DEF Written
  <2>4. CASE r.body \in BadBodies
    <3>1. ~Valid(disk) BY <1>2, <2>2, <2>4, WrittenIsBad
    <3>2. mpc'[p] = "rollback" /\ UNCHANGED job
      BY <1>1, <1>3, <1>9, <3>1 DEF TestConfig, Fail, HasRollback, Goto
    <3>3. Generates(p)' BY <1>1, <1>2, <1>3, <1>4, <2>1, <2>4, <3>2 DEF Generates
    <3> QED BY <1>1, <2>1, <3>3, RepairCallGoes DEF Aside
  <2>5. CASE r.body \notin BadBodies
    <3>1. Sound(k) BY <1>1, <1>2, <2>2, <2>5, WrittenIsSound
    <3>2. Valid(disk) BY <1>1, <3>1, RepairValid
    <3>3. mpc'[p] = "reload" /\ UNCHANGED job
      BY <1>1, <1>3, <1>9, <3>2 DEF TestConfig, Goto, Repairs, Recovers
    <3>4. Generates(p)' BY <1>1, <1>2, <1>3, <1>4, <2>3, <2>5, <3>3 DEF Generates
    <3> QED BY <1>1, <2>1, <3>4, RepairCallGoes DEF Aside
  <2> QED BY <2>4, <2>5
<1>10. CASE ReloadNginx(p)
  <2>1. mpc[p] = "reload" /\ UNCHANGED disk BY <1>10 DEF ReloadNginx
  <2>2. Written(disk, x) /\ r.body \notin BadBodies BY <1>1, <1>2, <2>1 DEF Generates
  <2>3. Sound(k) BY <1>1, <1>2, <2>2, WrittenIsSound
  <2>4. Valid(disk) BY <1>1, <2>3, RepairValid
  <2>5. running' = disk /\ mpc'[p] = "ok" BY <1>1, <1>10, <2>4 DEF ReloadNginx, Return, Repairs, Recovers
  <2>6. Written(disk', x) /\ Written(running', x) BY <2>1, <2>2, <2>5 DEF Written
  <2>7. Generates(p)' BY <1>1, <1>2, <1>4, <2>2, <2>5, <2>6 DEF Generates
  <2> QED BY <1>1, <2>1, <2>5, <2>7, RepairCallGoes DEF Aside
<1>11. CASE Rollback(p)
  <2>1. mpc[p] = "rollback" /\ mpc'[p] = "err" /\ UNCHANGED running BY <1>1, <1>11 DEF Rollback, Return
  <2>2. r.body \in BadBodies /\ job[p].savedConf = NoFile BY <1>1, <1>2, <2>1 DEF Generates
  <2>3. disk' = [disk EXCEPT !.conf[x.name] = NoFile, !.waf[k] = job[p].savedWaf]
    BY <1>2, <1>3, <1>11, <2>2 DEF Rollback, Restored, RestoredGenerate
  <2>4. /\ disk'.conf[x.name] = NoFile /\ disk'.cloud = disk.cloud
        /\ \A n \in Names \ {x.name} : disk'.conf[n] = disk.conf[n]
        /\ \A h \in Hosts \ {k} : disk'.waf[h] = disk.waf[h]
    BY <1>1, <1>2, <2>3 DEF Disk
  <2>5. Generates(p)' BY <1>1, <1>2, <1>4, <2>1, <2>2, <2>4 DEF Generates
  <2> QED BY <1>1, <1>2, <2>1, <2>4, <2>5, RepairCallGoes DEF Aside
<1> QED BY <1>3, <1>5, <1>6, <1>7, <1>8, <1>9, <1>10, <1>11
        DEF Step, RemoveOld, RemoveFiles, FileError, Repairs, Recovers, Recoverable

LEMMA RepairRemove ==
  ASSUME Repairs, RowsOK, SyncsOK, NEW p \in Procs, OwnInv(p), RecoverInv(p), RepairInv(p),
         boot' = boot, UNCHANGED serviceVars, pc[p] = "manager", loc[p].op = "delete",
         Acquire(p) \/ Step(p)
  PROVE  RepairInv(p)'
<1> PICK k, r : k = loc[p].host /\ r = loc[p].row OBVIOUS
<1> DEFINE x == DataOf(k, r)
<1>1. /\ boot = "serving" /\ ~reloadPending /\ Midway(p) /\ k \in Hosts /\ r \in Row
      /\ disk \in Disk /\ DOMAIN mpc = Procs /\ DOMAIN job = Procs
      /\ Exists(k) /\ db[k] = r /\ Free(File(r), k) /\ Deletes(p) /\ Removes(p)
  BY RepairCall
<1>2. x \in Datum /\ x.host = k /\ x.name = File(r) /\ x.name \in Names /\ DataOf(k, r) = x
  BY <1>1, Data
<1> HIDE DEF x
<1>3. /\ mpc[p] \in {"wait", "remove", "test", "reload"} /\ job[p].op = "remove" /\ job[p].data = x
  BY <1>1, <1>2 DEF Deletes, Acquire, Step, WriteInclude, WriteConf, WriteWAF, RemoveOld, RemoveFiles,
     FileError, Writing, TestConfig, ReloadNginx, Rollback
<1>4. UNCHANGED <<loc, db>> BY DEF serviceVars
<1>5. ASSUME mpc[p] \in {"test", "reload"} PROVE Valid(disk)
  <2>1. FilesIn(k, {}) BY <1>1, <1>5 DEF Removes
  <2>2. disk.conf[File(r)] = NoFile BY <1>1, <1>2, <2>1 DEF FilesIn, Free, OwnInv, OwnFiles, Own, Disk, Datum
  <2>3. Sound(k) BY <1>1, <2>2 DEF Sound
  <2> QED BY <1>1, <2>3, RepairValid
<1>6. CASE Acquire(p)
  <2>1. /\ mpc'[p] = "remove" /\ job'[p].op = "remove" /\ job'[p].data = x /\ UNCHANGED <<disk, running>>
    <3>1. mpc[p] = "wait" /\ job[p] \in Called BY <1>6, AtCall DEF Acquire
    <3> QED BY <1>1, <1>3, <1>6, <3>1, Taken DEF FirstStep
  <2>2. Deletes(p)' BY <1>2, <1>4, <2>1 DEF Deletes
  <2> QED BY <1>1, <2>1, <2>2, RepairCallGoes DEF Aside
<1>7. CASE RemoveFiles(p)
  <2>1. mpc'[p] = "test" /\ UNCHANGED <<job, running>> /\ disk' = WithoutConfig(disk, x)
    BY <1>1, <1>3, <1>7 DEF RemoveFiles, Goto
  <2>2. Deletes(p)' BY <1>2, <1>3, <1>4, <2>1 DEF Deletes
  <2>3. Aside(k) BY <1>1, <1>2, <2>1, ConfigRemoved DEF Aside
  <2> QED BY <1>1, <2>1, <2>2, <2>3, RepairCallGoes
<1>8. CASE TestConfig(p)
  <2>1. mpc'[p] = "reload" /\ UNCHANGED <<job, disk, running>>
    BY <1>1, <1>3, <1>5, <1>8 DEF TestConfig, Goto, Repairs, Recovers
  <2>2. Deletes(p)' BY <1>2, <1>3, <1>4, <2>1 DEF Deletes
  <2> QED BY <1>1, <2>1, <2>2, RepairCallGoes DEF Aside
<1>9. CASE ReloadNginx(p)
  <2>1. mpc'[p] = "ok" /\ running' = disk /\ UNCHANGED disk
    BY <1>1, <1>5, <1>9 DEF ReloadNginx, Return, Repairs, Recovers
  <2>2. Deletes(p)' BY <2>1 DEF Deletes
  <2> QED BY <1>1, <2>1, <2>2, RepairCallGoes DEF Aside
<1> QED BY <1>3, <1>6, <1>7, <1>8, <1>9
        DEF Step, WriteInclude, WriteConf, WriteWAF, RemoveOld, FileError, Rollback, Repairs, Recovers,
            Recoverable

-----------------------------------------------------------------------------
(* A synchronisation.                                                        *)
LEMMA RepairSyncGoes ==
  ASSUME NEW p \in Procs, RepairInv(p), pc[p] \in SyncSteps, pc'[p] \in SyncSteps, Recorded(p)',
         UNCHANGED <<boot, reloadPending>>
  PROVE  RepairInv(p)'
BY StepsApart DEF RepairInv, SyncSteps

LEMMA RepairSyncManager ==
  ASSUME Repairs, RowsOK, SyncsOK, NEW p \in Procs, OwnInv(p), RepairInv(p), boot' = boot,
         UNCHANGED serviceVars, pc[p] \in {"syncTested", "syncReloaded"}, Acquire(p) \/ Step(p)
  PROVE  RepairInv(p)'
<1> DEFINE at == IF pc[p] = "syncTested" THEN "test" ELSE "reload"
<1>1. pc[p] \in SyncSteps /\ UNCHANGED <<pc, loc, status, db, reloadPending>>
  BY DEF SyncSteps, serviceVars
<1>2. Answered(p) /\ disk \in Disk /\ DOMAIN mpc = Procs /\ DOMAIN job = Procs
  BY <1>1, SyncedHere DEF Synced
<1>3. /\ mpc[p] \in {"wait", at, "ok", "err"}
      /\ mpc[p] \in {"wait", at} => job[p] \in Called /\ job[p].op = at
  BY <1>2 DEF Answered
<1>4. Recorded(p) BY <1>1 DEF RepairInv
<1>5. CASE Acquire(p)
  <2>1. mpc[p] = "wait" BY <1>5 DEF Acquire
  <2>2. mpc'[p] = at /\ UNCHANGED disk
    BY <1>2, <1>3, <1>5, <2>1, Taken DEF FirstStep
  <2>3. Recorded(p)' BY <1>1, <1>4, <2>2 DEF Recorded, Valid
  <2> QED BY <1>1, <2>3, RepairSyncGoes
<1>6. CASE Step(p)
  <2>1. (TestConfig(p) /\ at = "test") \/ (ReloadNginx(p) /\ at = "reload")
    BY <1>3, <1>6 DEF Step, WriteInclude, WriteConf, WriteWAF, RemoveOld, RemoveFiles, FileError,
       Writing, TestConfig, ReloadNginx, Rollback
  <2>2. mpc[p] = at BY <2>1 DEF TestConfig, ReloadNginx
  <2>3. CASE TestConfig(p) /\ at = "test"
    <3>1. UNCHANGED disk /\ (mpc'[p] = "ok" => Valid(disk))
      BY <1>2, <1>3, <2>2, <2>3 DEF TestConfig, Return, Fail, HasRollback
    <3>2. Recorded(p)' BY <1>1, <2>3, <3>1 DEF Recorded, Valid
    <3> QED BY <1>1, <3>2, RepairSyncGoes
  <2>4. CASE ReloadNginx(p) /\ at = "reload"
    <3>1. pc[p] = "syncReloaded" /\ Valid(disk) BY <1>4, <2>4 DEF Recorded
    <3>2. UNCHANGED disk /\ mpc'[p] = "ok"
      BY <1>2, <2>4, <3>1 DEF ReloadNginx, Return, Repairs, Recovers
    <3>3. Recorded(p)' BY <1>1, <3>1, <3>2 DEF Recorded, Valid
    <3> QED BY <1>1, <3>3, RepairSyncGoes
  <2> QED BY <2>1, <2>3, <2>4
<1> QED BY <1>5, <1>6

\* It never has to give up: it may remove every host.
LEMMA NeverGivesUp ==
  ASSUME Repairs, RowsOK, SyncsOK, NEW p \in Procs, OwnInv(p), RecoverInv(p)
  PROVE  ~SyncGiveUp(p)
<1> SUFFICES ASSUME SyncGiveUp(p) PROVE FALSE
  OBVIOUS
<1>2. pc[p] \in SyncSteps BY DEF SyncGiveUp, SyncSteps
<1>1. Cardinality(Bad(loc[p])) > MaxAttempts
  <2>1. HasTo(loc[p]) BY GivesUp DEF Repairs
  <2>2. loc[p] \in Synchronisation BY <1>2, SyncedHere DEF Syncing
  <2>3. Unfound(loc[p]) = {}
    <3> SUFFICES ASSUME NEW h \in DOMAIN loc[p].rows PROVE h \in FoundByDomain(loc[p].rows, File(loc[p].rows[h]))
      BY DEF Unfound
    <3>1. loc[p].rows[h] \in Row BY <2>2 DEF Synchronisation
    <3> QED BY <3>1 DEF FoundByDomain, File, Repairs, Row
  <2> QED BY <2>1, <2>3 DEF HasTo
<1>3. Bad(loc[p]) \in SUBSET Hosts BY <1>2, SyncedHere DEF Bad
<1>4. /\ IsFiniteSet(Hosts) /\ IsFiniteSet(Bad(loc[p]))
      /\ Cardinality(Bad(loc[p])) <= Cardinality(Hosts)
  BY <1>3, FS_Subset DEF Repairs, Recovers
<1>5. Cardinality(Hosts) \in Nat /\ Cardinality(Bad(loc[p])) \in Nat BY <1>4, FS_CardinalityType
<1> QED BY <1>1, <1>4, <1>5, AttemptAssumption DEF Repairs

LEMMA RepairReloaded ==
  ASSUME Repairs, RowsOK, SyncsOK, NEW p \in Procs, OwnInv(p), RepairInv(p), SyncReloaded(p)
  PROVE  RepairInv(p)'
<1> PICK l : l = loc[p] OBVIOUS
<1>1. pc[p] = "syncReloaded" /\ pc[p] \in SyncSteps BY DEF SyncReloaded, SyncSteps
<1>2. /\ Generated(p) /\ l \in Synchronisation /\ l.todo = {} /\ DOMAIN pc = Procs /\ DOMAIN loc = Procs
  BY <1>1, SyncedHere DEF Synced, Syncing, Generated
<1>3. Valid(disk) /\ mpc[p] # "err" BY <1>1 DEF RepairInv, Recorded
<1>4. /\ pc'[p] = "syncRecord" /\ UNCHANGED <<disk, status, db, reloadPending, boot>>
      /\ loc' = [loc EXCEPT ![p] = [l EXCEPT !.todo = DOMAIN l.rows]]
  BY <1>2, <1>3 DEF SyncReloaded, Result, To, Synchronisation
<1>5. loc'[p].rows = l.rows /\ loc'[p].failed = l.failed /\ loc'[p].todo = DOMAIN l.rows
  BY <1>2, <1>4 DEF Synchronisation
<1>6. \A h \in DOMAIN l.rows \ l.failed : Written(disk, DataOf(h, l.rows[h]))
  BY <1>1, <1>2 DEF Generated
<1>7. \A h \in DOMAIN l.rows \ l.failed : Written(disk', DataOf(h, l.rows[h]))
  BY <1>4, <1>6 DEF Written
<1>8. Recorded(p)' BY <1>3, <1>4, <1>5, <1>7 DEF Recorded, Valid, DataOf
<1> QED BY <1>1, <1>4, <1>8, RepairSyncGoes DEF SyncSteps

LEMMA RepairRecord ==
  ASSUME Repairs, RowsOK, SyncsOK, NEW p \in Procs, OwnInv(p), RepairInv(p), SyncRecord(p)
  PROVE  RepairInv(p)'
<1> PICK l : l = loc[p] OBVIOUS
<1>1. pc[p] = "syncRecord" /\ pc[p] \in SyncSteps BY DEF SyncRecord, SyncSteps
<1>2. /\ l \in Synchronisation /\ l.todo \subseteq DOMAIN l.rows /\ DOMAIN loc = Procs
      /\ \A h \in DOMAIN l.rows : h \in Hosts /\ Exists(h)
  BY <1>1, SyncedHere DEF Syncing
<1>3. Recorded(p) BY <1>1 DEF RepairInv
<1>4. UNCHANGED <<disk, mpc, db, pc, reloadPending, boot>> BY DEF SyncRecord, managerVars
<1>5. PICK h \in l.todo :
        /\ status' = [status EXCEPT ![h] = IF h \in l.failed THEN "error" ELSE "ok"]
        /\ loc' = [loc EXCEPT ![p] = [l EXCEPT !.todo = l.todo \ {h}]]
  BY <1>2 DEF SyncRecord, Repairs, Recovers, Recoverable, Synchronisation
<1>6. loc'[p].rows = l.rows /\ loc'[p].failed = l.failed /\ loc'[p].todo = l.todo \ {h}
  BY <1>2, <1>5 DEF Synchronisation
<1>7. \A g \in DOMAIN l.rows \ (l.todo \ {h}) : g \in l.failed => status'[g] = "error"
  BY <1>1, <1>2, <1>3, <1>5 DEF Recorded, RowsOK
<1>8. \A g \in DOMAIN l.rows \ l.failed : Written(disk', DataOf(g, l.rows[g]))
  BY <1>1, <1>3, <1>4 DEF Recorded, Written
<1>9. Recorded(p)' BY <1>1, <1>3, <1>4, <1>6, <1>7, <1>8 DEF Recorded, Valid, DataOf
<1> QED BY <1>1, <1>4, <1>9, RepairSyncGoes

\* A synchronisation that ends has made every host fine.
LEMMA AllFine ==
  ASSUME Repairs, RowsOK, SyncsOK, NEW p \in Procs, OwnInv(p), RecoverInv(p), RepairInv(p),
         pc[p] = "syncRecord", loc[p].todo = {}, NEW h \in Hosts
  PROVE  Fine(h)
<1> SUFFICES ASSUME Exists(h) PROVE Fine(h)
  BY DEF Fine
<1> DEFINE l == loc[p]
           x == DataOf(h, db[h])
<1>1. pc[p] \in SyncSteps BY DEF SyncSteps
<1>2. /\ Generated(p) /\ List(p) /\ Answered(p) /\ h \in DOMAIN l.rows /\ l.rows[h] = db[h]
      /\ db[h] \in Row
  BY <1>1, SyncedHere DEF Synced, RecoverInv
<1>3. Recorded(p) BY <1>1 DEF RepairInv
<1>4. x \in Datum /\ x.body = db[h].body BY <1>2, Data
<1>5. CASE h \in l.failed
  <2>1. db[h].body \in BadBodies BY <1>2, <1>5 DEF List, Bad
  <2>2. disk.conf[File(db[h])] = NoFile /\ status[h] = "error"
    BY <1>2, <1>3, <1>5 DEF Generated, Recorded
  <2> QED BY <2>1, <2>2 DEF Fine, Sound, TakenDown
<1>6. CASE h \notin l.failed
  <2>1. Valid(disk) /\ Written(disk, x) /\ Written(running, x)
    BY <1>2, <1>3, <1>6 DEF Recorded, Answered
  <2>2. db[h].body \notin BadBodies
    <3> HIDE DEF x
    <3> QED BY <1>4, <2>1, WrittenIsBad
  <2>3. Sound(h) BY <1>2, <2>1, <2>2, WrittenIsSound
  <2> QED BY <2>1, <2>2, <2>3 DEF Fine
<1> QED BY <1>5, <1>6

LEMMA RepairEnd ==
  ASSUME Repairs, RowsOK, SyncsOK, boot \in {"serving", "crashed", "syncing"}, NEW p \in Procs,
         OwnInv(p), RecoverInv(p), RepairInv(p), SyncEnd(p)
  PROVE  RepairInv(p)'
<1>1. pc[p] = "syncRecord" /\ pc[p] \in SyncSteps /\ loc[p].todo = {} BY DEF SyncEnd, SyncSteps
<1>2. boot \in {"serving", "syncing"} /\ ~reloadPending BY <1>1 DEF RepairInv
<1>3. DOMAIN pc = Procs BY <1>1, SyncedHere
<1>4. /\ boot' = "serving" /\ pc'[p] = "idle"
      /\ UNCHANGED <<disk, running, db, status, owed, reloadPending>>
  BY <1>2, <1>3 DEF SyncEnd, SyncDone, Done, To, managerVars
<1>5. \A h \in Hosts : Fine(h) BY <1>1, AllFine
<1>6. \A h \in Hosts : Fine(h)'
  BY <1>4, <1>5 DEF Fine, Exists, Sound, TakenDown, Written, DataOf
<1> QED BY <1>2, <1>4, <1>6 DEF RepairInv, SyncSteps

LEMMA RepairSync ==
  ASSUME Repairs, RowsOK, SyncsOK, boot \in {"serving", "crashed", "syncing"}, NEW p \in Procs,
         OwnInv(p), RecoverInv(p), RepairInv(p), SyncStep(p)
  PROVE  RepairInv(p)'
<1>1. pc[p] \in SyncSteps /\ DOMAIN pc = Procs /\ DOMAIN mpc = Procs
  <2>1. pc[p] \in SyncSteps BY DEF SyncStep, SyncHost, SyncWAF, SyncTest, SyncRecover, SyncGiveUp,
        SyncReload, SyncReloaded, SyncRecord, SyncEnd, SyncSteps
  <2> QED BY <2>1, SyncedHere
<1>2. Recorded(p) BY <1>1 DEF RepairInv
<1>3. CASE SyncHost(p) \/ SyncWAF(p) \/ SyncRecover(p)
  <2>1. pc'[p] \in {"syncHost", "syncWAF"} /\ UNCHANGED <<boot, reloadPending>>
    BY <1>1, <1>3 DEF SyncHost, SyncWAF, SyncRecover, To
  <2>2. Recorded(p)' BY <2>1 DEF Recorded
  <2> QED BY <1>1, <2>1, <2>2, RepairSyncGoes DEF SyncSteps
<1>4. CASE SyncTest(p) \/ SyncReload(p)
  <2>1. /\ pc'[p] \in {"syncTested", "syncReloaded"} /\ mpc'[p] = "wait"
        /\ UNCHANGED <<boot, reloadPending, disk>>
        /\ pc'[p] = "syncReloaded" => pc[p] = "syncTested" /\ mpc[p] = "ok"
    BY <1>1, <1>4 DEF SyncTest, SyncReload, To, Call
  <2>2. Recorded(p)' BY <1>2, <2>1 DEF Recorded, Valid
  <2> QED BY <1>1, <2>1, <2>2, RepairSyncGoes DEF SyncSteps
<1> QED BY <1>3, <1>4, NeverGivesUp, RepairReloaded, RepairRecord, RepairEnd DEF SyncStep

-----------------------------------------------------------------------------
(* The steps between them.                                                   *)
LEMMA RepairBegin ==
  ASSUME SyncsOK, NEW p \in Procs, RepairInv(p), boot = "serving", boot' = boot,
         NEW l, NEW s \in {"insert", "read", "configure"}, Begin(p, l, s),
         l.op # "reloader", l.host \in Hosts, s = "configure" => Exists(l.host) /\ l.row = db[l.host]
  PROVE  RepairInv(p)'
<1>1. /\ pc[p] = "idle" /\ pc'[p] = s /\ loc'[p] = l
      /\ UNCHANGED <<disk, running, mpc, job, db, status, reloadPending, owed>>
  BY DEF Begin, To, managerVars, SyncsOK, Variables
<1>2. ~reloadPending /\ \A h \in Hosts : Fine(h) BY <1>1 DEF RepairInv, SyncSteps
<1>3. \A h \in Hosts : Fine(h)'
  BY <1>1, <1>2 DEF Fine, Exists, Sound, TakenDown, Written, DataOf
<1>4. s = "configure" => Sound(l.host) /\ (l.row.body \in BadBodies => TakenDown(l.host))
  BY <1>2 DEF Fine
<1>5. s = "configure" =>
        (db[l.host] = l.row /\ Sound(l.host) /\ (l.row.body \in BadBodies => TakenDown(l.host)))'
  BY <1>1, <1>4 DEF Sound, TakenDown
<1>6. Midway(p)' BY <1>1, <1>3, <1>5 DEF Midway
<1> QED BY <1>1, <1>2, <1>3, <1>6 DEF RepairInv, SyncSteps

LEMMA RepairStart ==
  ASSUME Repairs, SyncsOK, NEW p \in Procs, RepairInv(p), boot = "serving", boot' = boot, Start(p)
  PROVE  RepairInv(p)'
<1>1. PICK h \in Hosts :
        \/ \E row \in NewRows : Create(p, h, row)
        \/ \E op \in ServiceOps :
             \/ StartOnRow(p, op, h)
             \/ \E req \in Requests : StartUpdate(p, op, h, req)
  BY DEF Start
<1>2. ASSUME NEW row \in NewRows, Create(p, h, row) PROVE RepairInv(p)'
  <2> DEFINE l == [op |-> "create", host |-> h, row |-> row, old |-> NoFile]
  <2>1. Begin(p, l, "insert") BY <1>2 DEF Create
  <2>2. l.op # "reloader" /\ l.host = h OBVIOUS
  <2> HIDE DEF l
  <2> QED BY <2>1, <2>2, RepairBegin
<1>3. ASSUME NEW op \in ServiceOps, StartOnRow(p, op, h) PROVE RepairInv(p)'
  <2> DEFINE l == [op |-> op, host |-> h, row |-> db[h], old |-> NoFile]
  <2>1. Begin(p, l, "configure") /\ Exists(h) /\ op # "reloader" BY <1>3 DEF StartOnRow, Repairs
  <2>2. l.op # "reloader" /\ l.host = h /\ l.row = db[h] BY <2>1
  <2> HIDE DEF l
  <2> QED BY <2>1, <2>2, RepairBegin
<1>4. ASSUME NEW op \in ServiceOps, NEW req \in Requests, StartUpdate(p, op, h, req) PROVE RepairInv(p)'
  <2> DEFINE l == [op |-> op, host |-> h, row |-> NoRow, req |-> req,
                   old |-> IF "domain" \in DOMAIN req THEN File(db[h]) ELSE NoFile]
  <2>1. Begin(p, l, "read") /\ op # "reloader" BY <1>4 DEF StartUpdate
  <2>2. l.op # "reloader" /\ l.host = h BY <2>1
  <2> HIDE DEF l
  <2> QED BY <2>1, <2>2, RepairBegin
<1> QED BY <1>1, <1>2, <1>3, <1>4

LEMMA RepairManager ==
  ASSUME Repairs, RowsOK, SyncsOK, NEW p \in Procs, OwnInv(p), RecoverInv(p), RepairInv(p),
         boot' = boot, ManagerStep(p) \/ CancelCall(p)
  PROVE  RepairInv(p)'
<1>1. UNCHANGED serviceVars /\ (Acquire(p) \/ Step(p))
  BY DEF ManagerStep, CancelCall, Repairs, Recovers
<1>2. mpc[p] # "idle"
  BY <1>1 DEF Acquire, Step, WriteInclude, WriteConf, WriteWAF, RemoveOld, RemoveFiles, FileError,
     Writing, TestConfig, ReloadNginx, Rollback
<1>3. pc[p] \in {"manager", "rereload", "syncTested", "syncReloaded"} BY <1>2 DEF OwnInv, Doing
<1>4. pc[p] # "rereload"
  <2> SUFFICES ASSUME pc[p] = "rereload" PROVE FALSE
    OBVIOUS
  <2>1. Midway(p) BY MidwayHere DEF Steps
  <2> QED BY <2>1 DEF Midway
<1> QED BY <1>1, <1>3, <1>4, RepairGenerate, RepairRemove, RepairSyncManager

LEMMA RepairStep ==
  ASSUME Repairs, RowsOK, SyncsOK, boot \in {"serving", "crashed", "syncing"},
         NEW p, Procs = {p}, OwnInv(p), RecoverInv(p), RepairInv(p), [SyncNext]_syncVars
  PROVE  RepairInv(p)'
<1>1. CASE Request(p)
  <2>1. ~DebouncedReload(p) BY DEF RepairInv, DebouncedReload
  <2> QED BY <1>1, <2>1, RepairStart, RepairService, RepairManager DEF Request
<1>2. CASE StartSync(p) \/ Restart(p)
  <2>1. /\ pc'[p] = "syncHost" /\ boot' \in {"serving", "syncing"} /\ UNCHANGED reloadPending
    BY <1>2 DEF StartSync, Restart, Begins, To, SyncsOK, Variables
  <2>2. Recorded(p)' BY <2>1 DEF Recorded
  <2> QED BY <2>1, <2>2 DEF RepairInv, SyncSteps
<1>3. CASE SyncStep(p) BY <1>3, RepairSync
<1>4. CASE Crash BY <1>4 DEF Crash, RepairInv, SyncSteps
<1>5. CASE UNCHANGED syncVars
  <2>1. UNCHANGED <<disk, running, mpc, job, db, status, pc, loc, reloadPending, owed, boot>>
    BY <1>5 DEF syncVars, vars, managerVars, serviceVars
  <2>2. \A h : Fine(h)' = Fine(h) BY <2>1 DEF Fine, Exists, Sound, TakenDown, Written, DataOf
  <2>3. Generates(p)' = Generates(p) /\ Deletes(p)' = Deletes(p)
    BY <2>1 DEF Generates, Deletes, Written, DataOf
  <2>4. Midway(p)' = Midway(p) BY <2>1, <2>2, <2>3 DEF Midway, Sound, TakenDown
  <2>5. Recorded(p)' = Recorded(p) BY <2>1 DEF Recorded, Valid, Written, DataOf
  <2> QED BY <2>1, <2>2, <2>4, <2>5 DEF RepairInv
<1> QED BY <1>1, <1>2, <1>3, <1>4, <1>5 DEF SyncNext, SyncNothing, Repairs, Recovers, Recoverable

LEMMA RepairInit == ASSUME NEW p, Procs = {p}, SyncInit PROVE RepairInv(p)
BY DEF SyncInit, Init, RepairInv, SyncSteps, Fine, Exists

\* What it says once the API serves and is idle.
LEMMA RepairSays ==
  ASSUME RowsOK, NEW p, Procs = {p}, OwnInv(p), RecoverInv(p), RepairInv(p)
  PROVE  RestartRepairs /\ RemovedIsMarked /\ (Serving => Valid(disk))
<1> SUFFICES ASSUME Serving PROVE DBIsNginx /\ NoOrphans /\ Valid(disk) /\ RemovedIsMarked
  BY DEF RestartRepairs, RemovedIsMarked
<1>4. NoOrphans
  <2>1. \A n \in Names : disk.conf[n] # NoFile => disk.conf[n].host \in Hosts
    BY DEF OwnInv, Disk, Datum
  <2> QED BY <2>1 DEF NoOrphans, OwnInv, OwnFiles, Own, RecoverInv
<1>1. \A h \in Hosts : Fine(h) BY DEF Serving, Quiet, RepairInv, SyncSteps
<1>2. Valid(disk)
  <2>1. \A h \in Hosts : Exists(h) => Sound(h) BY <1>1 DEF Fine
  <2> QED BY <2>1, SoundIsValid
<1>3. ASSUME NEW h \in Hosts \ owed, Exists(h)
      PROVE  /\ status[h] = "ok" => Served(h)
             /\ disk.conf[File(db[h])] = NoFile => status[h] = "error"
  <2> DEFINE r == db[h]
             x == DataOf(h, r)
  <2>1. CASE r.body \in BadBodies BY <1>1, <1>3, <2>1 DEF Fine, TakenDown
  <2>2. CASE r.body \notin BadBodies
    <3>1. Written(disk, x) /\ Written(running, x) BY <1>1, <1>3, <2>2 DEF Fine
    <3>2. /\ x.name = File(r) /\ x.waf = r.waf /\ x.body = r.body /\ x.host = h /\ x # NoFile
          /\ File(r) \in Names
      BY <1>3, Data DEF RowsOK, Exists
    <3> HIDE DEF x
    <3>3. disk.conf[File(r)] # NoFile BY <3>1, <3>2 DEF Written
    <3>4. InForce(running)[File(r)] = <<x, IF r.waf THEN r.body ELSE NoFile>>
      BY <3>1, <3>2 DEF Written, InForce
    <3>5. Served(h) BY <3>4 DEF Served, x
    <3> QED BY <3>3, <3>5
  <2> QED BY <2>1, <2>2
<1> QED BY <1>2, <1>3, <1>4 DEF DBIsNginx, RemovedIsMarked

\* What a restart repairs.  With one client and only enabled hosts that keep their domain, each with
\* a file of its own, when writes and commands do not fail, no update saves a rejected body or leaves
\* the test to later, and every host can be found and removed: whenever the API serves and is idle,
\* after any creations nginx rejected, deletions, synchronisations and crashes, nginx serves every
\* host as its row says or the row is marked in error, every file is a host's that exists, and nginx
\* would start with the files.
THEOREM RestartRepaired == Repairs => (SyncSpec => [](RestartRepairs /\ (Serving => Valid(disk))))
<1> SUFFICES ASSUME Repairs PROVE SyncSpec => [](RestartRepairs /\ (Serving => Valid(disk)))
  OBVIOUS
<1> PICK c : Procs = {c} BY DEF Repairs, Recovers, Recoverable, Serial
<1> DEFINE Inv == SyncTypes /\ OwnInv(c) /\ RecoverInv(c) /\ RepairInv(c)
<1>1. SyncInit => Inv BY SyncInitTypes, OwnInit, RecoverInit, RepairInit
<1>2. Inv /\ [SyncNext]_syncVars => Inv'
  BY SyncTypesStep, OwnStep, RecoverStep, RepairStep DEF SyncTypes, Repairs, Recovers
<1>3. Inv => RestartRepairs /\ (Serving => Valid(disk)) BY RepairSays DEF SyncTypes
<1> QED BY <1>1, <1>2, <1>3, PTL DEF SyncSpec

\* No host is taken down in silence: under the same hypotheses, an enabled host that has no file once
\* the API serves and is idle is marked in error, unless a request to the row alone is still owed.
THEOREM RemovedMarked == Repairs => (SyncSpec => []RemovedIsMarked)
<1> SUFFICES ASSUME Repairs PROVE SyncSpec => []RemovedIsMarked
  OBVIOUS
<1> PICK c : Procs = {c} BY DEF Repairs, Recovers, Recoverable, Serial
<1> DEFINE Inv == SyncTypes /\ OwnInv(c) /\ RecoverInv(c) /\ RepairInv(c)
<1>1. SyncInit => Inv BY SyncInitTypes, OwnInit, RecoverInit, RepairInit
<1>2. Inv /\ [SyncNext]_syncVars => Inv'
  BY SyncTypesStep, OwnStep, RecoverStep, RepairStep DEF SyncTypes, Repairs, Recovers
<1>3. Inv => RemovedIsMarked BY RepairSays DEF SyncTypes
<1> QED BY <1>1, <1>2, <1>3, PTL DEF SyncSpec
=============================================================================
