---------------------------- MODULE Certificates ----------------------------
(***************************************************************************)
(* A certificate: its row, the pair of files nginx reads, and the tasks    *)
(* that work on both (CertificateService in api/internal/service).         *)
(*                                                                         *)
(* Issuance and renewal go on in goroutines that outlive their request.    *)
(* Renewals, by the scheduler or a client, are kept apart by a lock in     *)
(* Valkey that expires after ten minutes and is done without when Valkey   *)
(* is not there; nothing keeps the other tasks apart.  Every statement and *)
(* every file written is a step of its own, and may fail.  That the key of *)
(* an upload is the key of its certificate is checked by nobody but nginx. *)
(***************************************************************************)
EXTENDS Naturals, FiniteSets

CONSTANTS Tasks,
          Providers, \* what a certificate may be from: letsencrypt, selfsigned, custom
          NoTask,    \* nobody has the lock
          Lost,      \* somebody has it who will not release it
          MaxPairs,  \* pairs that are issued, generated or uploaded
          Unmatched, \* of those, the ones with the key of another certificate, if uploaded
          MaxFaults  \* statements, file operations and commands that fail, and crashes

ASSUME CertificateAssumption ==
  /\ Providers \subseteq {"letsencrypt", "selfsigned", "custom"}
  /\ NoTask # Lost /\ {NoTask, Lost} \cap Tasks = {}
  /\ MaxPairs \in Nat /\ MaxFaults \in Nat /\ Unmatched \subseteq 1 .. MaxPairs

VARIABLES provider, \* of the certificate
          row,      \* its row
          files,    \* fullchain.pem and privkey.pem
          backup,   \* their .bak files
          loaded,   \* the pair nginx has loaded
          lock,     \* who has the lock of its renewal
          task,     \* where each task is, and its local variables
          made,     \* the pairs there are so far
          faults,   \* what failed so far
          orderly,  \* so far only renewals overlapped, each under the lock; no deletion and no
                    \* process broke off
          alone     \* no two tasks overlapped yet

rowVars == <<provider, row>>
fileVars == <<files, backup, loaded>>
pastVars == <<faults, orderly, alone>>
vars == <<rowVars, fileVars, lock, task, made, pastVars>>

-----------------------------------------------------------------------------
\* A pair is a certificate and a key that came together; its two files have the same number.
None == 0
Torn == MaxPairs + 1
Pairs == 1 .. MaxPairs
Contents == {None, Torn} \cup Pairs
Files == [cert : Contents, key : Contents]
NoFiles == [cert |-> None, key |-> None]
Whole(d) == d.cert = d.key /\ d.cert \in Pairs

\* nginx takes a certificate with its own key only.
Fits(d) == Whole(d) /\ (provider = "custom" => d.cert \notin Unmatched)

\* What a row says: its status, the pair in its PEM columns, whether its paths were recorded.
Statuses == {"pending", "issued", "error", "renewing"}
Row == [status : Statuses, pem : {None} \cup Pairs, saved : BOOLEAN]
NoRow == [status |-> "none", pem |-> None, saved |-> FALSE]
Deleted == [NoRow EXCEPT !.status = "deleted"]
Exists == row \in Row

Operations == {"obtain", "renew", "upload", "replace", "delete", "deleteErrors"}
Steps == {"read", "lock", "mark", "generate", "order", "backup", "cert", "key", "restore",
          "update", "notify", "reread", "giveBack", "release", "remove", "drop", "list"}
Task == [op : Operations, at : Steps, row : Row \cup {NoRow}, pair : {None} \cup Pairs,
         had : SUBSET {"cert", "key"}]
Idle == [op |-> "none", at |-> "idle", row |-> NoRow, pair |-> None, had |-> {}]

AtWork == {t \in Tasks : task[t] # Idle}
Renewing == {t \in AtWork : task[t].op = "renew" /\ task[t].at \notin {"read", "lock"}}

\* Types; and as long as everything was orderly, whoever renews has the lock.
TypeOK ==
  /\ provider \in Providers /\ row \in Row \cup {NoRow, Deleted}
  /\ {files, backup} \subseteq Files /\ loaded \in {None} \cup Pairs
  /\ lock \in Tasks \cup {NoTask, Lost}
  /\ task \in [Tasks -> Task \cup {Idle}]
  /\ made \in 0 .. MaxPairs /\ faults \in 0 .. MaxFaults
  /\ {orderly, alone} \subseteq BOOLEAN
  /\ orderly => \A t \in Renewing : lock = t

Init ==
  /\ provider \in Providers /\ row = NoRow
  /\ files = NoFiles /\ backup = NoFiles /\ loaded = None
  /\ lock = NoTask
  /\ task = [t \in Tasks |-> Idle]
  /\ made = 0 /\ faults = 0
  /\ orderly = TRUE /\ alone = TRUE

-----------------------------------------------------------------------------
Goto(t, step) == task' = [task EXCEPT ![t].at = step]

Fault == faults < MaxFaults /\ faults' = faults + 1 /\ UNCHANGED <<orderly, alone>>
NoFault == UNCHANGED pastVars

\* A new task; it is orderly if no other is at work, or if all are renewals.
Begins(t, op, step, pair) ==
  /\ task[t] = Idle
  /\ task' = [task EXCEPT ![t] = [Idle EXCEPT !.op = op, !.at = step, !.pair = pair]]
  /\ alone' = (alone /\ AtWork = {})
  /\ orderly' = (orderly /\ \A u \in AtWork : {op, task[u].op} = {"renew"})
  /\ UNCHANGED <<provider, fileVars, lock, faults>>

\* Create: the row, and a goroutine for the rest.
Create(t) ==
  /\ row = NoRow /\ provider # "custom"
  /\ row' = [status |-> "pending", pem |-> None, saved |-> FALSE]
  /\ Begins(t, "obtain", "read", None)
  /\ UNCHANGED made

\* UploadCustom: the row is issued at once.  The certificate is checked, but not against the key.
UploadCustom(t) ==
  /\ row = NoRow /\ provider = "custom" /\ made < MaxPairs
  /\ made' = made + 1
  /\ row' = [status |-> "issued", pem |-> made', saved |-> FALSE]
  /\ Begins(t, "upload", "cert", made')

\* Renew, by a client or the scheduler, and UpdateCustom read the row first.
Start(t, op) ==
  /\ op = "replace" => provider = "custom" /\ made < MaxPairs
  /\ Exists
  /\ made' = IF op = "replace" THEN made + 1 ELSE made
  /\ Begins(t, op, "read", IF op = "replace" THEN made' ELSE None)
  /\ UNCHANGED row

\* Delete, and DeleteErrorCertificates, which lists the rows first.
StartDelete(t, op) ==
  /\ Exists
  /\ Begins(t, op, IF op = "delete" THEN "remove" ELSE "list", None)
  /\ UNCHANGED <<row, made>>

-----------------------------------------------------------------------------
Ends(t) == task' = [task EXCEPT ![t] = Idle]

\* What a task does is done: its backups go, a renewal has yet to release its lock.
Done(t) ==
  /\ IF task[t].op = "renew"
     THEN task' = [task EXCEPT ![t] = [Idle EXCEPT !.op = "renew", !.at = "release"]]
     ELSE Ends(t)
  /\ backup' = IF task[t].had = {} THEN backup ELSE NoFiles

\* Mutant of Fails: a failed renewal ends without giving back the status.
Fails_NoGiveBack(t) ==
  IF task[t].op = "obtain"
  THEN Goto(t, "reread") /\ UNCHANGED backup
  ELSE Done(t)

\* It fails: updateCertError and updateRenewalError set the status, an upload says so only.
Fails(t) ==
  IF task[t].op \in {"obtain", "renew"}
  THEN Goto(t, "reread") /\ UNCHANGED backup
  ELSE Done(t)

\* GetByID.  Without a row there is nothing to do, and updateCertError finds none either.
Read(t) ==
  /\ task[t].at = "read"
  /\ \/ /\ Exists /\ NoFault
        /\ IF task[t].op = "renew"
           THEN task' = [task EXCEPT ![t].at = "lock", ![t].row = row]
           ELSE Goto(t, IF task[t].op = "obtain" THEN "order" ELSE "backup")
     \/ /\ (~Exists /\ NoFault) \/ Fault
        /\ IF task[t].op = "obtain" THEN Goto(t, "reread") ELSE Ends(t)
  /\ UNCHANGED <<rowVars, fileVars, lock, made>>

\* Mutant of Lock: it is taken whoever has it.
Lock_Takes(t) ==
  /\ task[t].at = "lock"
  /\ lock' = t /\ Goto(t, "mark") /\ NoFault
  /\ UNCHANGED <<rowVars, fileVars, made>>

\* AcquireLock, or Valkey is not there and the renewal goes on without.
Lock(t) ==
  /\ task[t].at = "lock"
  /\ \/ lock = NoTask /\ lock' = t /\ Goto(t, "mark") /\ NoFault
     \/ lock # NoTask /\ UNCHANGED lock /\ Ends(t) /\ NoFault
     \/ /\ faults < MaxFaults /\ faults' = faults + 1
        /\ orderly' = FALSE
        /\ Goto(t, "mark")
        /\ UNCHANGED <<lock, alone>>
  /\ UNCHANGED <<rowVars, fileVars, made>>

\* Update of a row: without one it changes nothing, and is no error.
Writes(new) == row' = IF Exists THEN new ELSE row

\* The row as it was read says "renewing", and a goroutine begins.
Mark(t) ==
  /\ task[t].at = "mark"
  /\ \/ /\ Writes([task[t].row EXCEPT !.status = "renewing"]) /\ NoFault
        /\ task' = [task EXCEPT ![t].row = NoRow,
                                ![t].at = CASE provider = "letsencrypt" -> "order"
                                            [] provider = "selfsigned" -> "generate"
                                            [] provider = "custom" -> "reread"]
     \/ Fault /\ Goto(t, "release") /\ UNCHANGED row
  /\ UNCHANGED <<provider, fileVars, lock, made>>

\* generateSelfSignedCert reads the row again.
Generate(t) ==
  /\ task[t].at = "generate"
  /\ \/ Exists /\ NoFault /\ Goto(t, "order")
     \/ ((~Exists /\ NoFault) \/ Fault) /\ Goto(t, "reread")
  /\ UNCHANGED <<rowVars, fileVars, lock, made>>

\* The authority issues a pair, or refuses; or it is generated.  A renewal of Let's Encrypt goes
\* on to back up the files.
Order(t) ==
  /\ task[t].at = "order"
  /\ \/ /\ made < MaxPairs /\ made' = made + 1
        /\ task' = [task EXCEPT ![t].pair = made',
                                ![t].at = IF task[t].op = "renew" /\ provider = "letsencrypt"
                                          THEN "backup" ELSE "cert"]
     \/ Goto(t, "reread") /\ UNCHANGED made
  /\ UNCHANGED <<rowVars, fileVars, lock, pastVars>>

-----------------------------------------------------------------------------
\* The files named, copied over; what is not there is not copied.
Copied(names, from, to) ==
  [f \in {"cert", "key"} |-> IF f \in names /\ from[f] # None THEN from[f] ELSE to[f]]

\* BackupCertificateFiles; without a backup the task goes on.
BackUp(t) ==
  /\ task[t].at = "backup"
  /\ \/ /\ backup' = Copied({"cert", "key"}, files, backup) /\ NoFault
        /\ task' = [task EXCEPT ![t].had = {f \in {"cert", "key"} : files[f] # None}, ![t].at = "cert"]
     \/ files # NoFiles /\ Fault /\ backup' = [backup EXCEPT !.cert = None] /\ Goto(t, "cert")
  /\ UNCHANGED <<rowVars, files, loaded, lock, made>>

\* A file could not be written: it is as it was, or torn; a backup is restored.
SaveFails(t) ==
  IF task[t].had = {} THEN Fails(t) ELSE Goto(t, "restore") /\ UNCHANGED backup

\* SaveCertificateFiles, which makes the directory,
SaveCert(t) ==
  /\ task[t].at = "cert"
  /\ \/ files' = [files EXCEPT !.cert = task[t].pair] /\ Goto(t, "key") /\ NoFault /\ UNCHANGED backup
     \/ Fault /\ files' \in {files, [files EXCEPT !.cert = Torn]} /\ SaveFails(t)
  /\ UNCHANGED <<rowVars, loaded, lock, made>>

\* and the key, for which the directory may be gone by now.
SaveKey(t) ==
  /\ task[t].at = "key"
  /\ \/ files # NoFiles /\ files' = [files EXCEPT !.key = task[t].pair] /\ Goto(t, "update") /\ NoFault /\ UNCHANGED backup
     \/ files = NoFiles /\ NoFault /\ SaveFails(t) /\ UNCHANGED files
     \/ Fault /\ files' \in {files, [files EXCEPT !.key = Torn]} /\ SaveFails(t)
  /\ UNCHANGED <<rowVars, loaded, lock, made>>

\* After it, a renewal gives back the status and an upload ends.
Restored(t) ==
  /\ backup' = NoFiles
  /\ IF task[t].op = "renew" THEN Goto(t, "reread") ELSE Ends(t)

\* Mutant of Restore: only the certificate is put back.
Restore_CertOnly(t) ==
  /\ task[t].at = "restore"
  /\ files' = Copied(task[t].had \ {"key"}, backup, files) /\ NoFault
  /\ Restored(t)
  /\ UNCHANGED <<rowVars, loaded, lock, made>>

\* restore, of the files there were; copying one back may fail too.
Restore(t) ==
  /\ task[t].at = "restore"
  /\ \/ files' = Copied(task[t].had, backup, files) /\ NoFault
     \/ \E f \in task[t].had :
          /\ files' \in {[Copied(task[t].had, backup, files) EXCEPT ![f] = w] : w \in {files[f], Torn}}
          /\ Fault
  /\ Restored(t)
  /\ UNCHANGED <<rowVars, loaded, lock, made>>

\* Mutant of Update: the PEM columns keep what was read.
Update_KeepsPem(t) ==
  /\ task[t].at = "update"
  /\ \/ /\ Writes([row EXCEPT !.status = "issued", !.saved = TRUE]) /\ NoFault
        /\ IF task[t].op = "upload" THEN Done(t) ELSE Goto(t, "notify") /\ UNCHANGED backup
     \/ Fault /\ UNCHANGED row /\ Fails(t)
  /\ UNCHANGED <<provider, files, loaded, lock, made>>

\* The row is written as a whole; an upload writes the struct Create returned, which has no PEM.
Update(t) ==
  /\ task[t].at = "update"
  /\ \/ /\ Writes([status |-> "issued", saved |-> TRUE,
                   pem |-> IF task[t].op = "upload" THEN None ELSE task[t].pair])
        /\ NoFault
        /\ IF task[t].op = "upload" THEN Done(t) ELSE Goto(t, "notify") /\ UNCHANGED backup
     \/ Fault /\ UNCHANGED row /\ Fails(t)
  /\ UNCHANGED <<provider, files, loaded, lock, made>>

\* RegenerateConfigsForCertificate: nginx tests the files and loads them, or goes on with what it has.
Notify(t) ==
  /\ task[t].at = "notify"
  /\ \/ loaded' = (IF Fits(files) THEN files.cert ELSE loaded) /\ NoFault
     \/ Fault /\ UNCHANGED loaded
  /\ Done(t)
  /\ UNCHANGED <<rowVars, files, lock, made>>

-----------------------------------------------------------------------------
\* The status a failure leaves: a renewal of Let's Encrypt gives back "issued".
FailedStatus(t) ==
  IF task[t].op = "renew" /\ provider = "letsencrypt" THEN "issued" ELSE "error"

Reread(t) ==
  /\ task[t].at = "reread"
  /\ \/ /\ Exists /\ NoFault
        /\ task' = [task EXCEPT ![t].at = "giveBack", ![t].row = row]
        /\ UNCHANGED backup
     \/ ((~Exists /\ NoFault) \/ Fault) /\ Done(t)
  /\ UNCHANGED <<rowVars, files, loaded, lock, made>>

GiveBack(t) ==
  /\ task[t].at = "giveBack"
  /\ \/ Writes([task[t].row EXCEPT !.status = FailedStatus(t)]) /\ NoFault
     \/ Fault /\ UNCHANGED row
  /\ Done(t)
  /\ UNCHANGED <<provider, files, loaded, lock, made>>

\* ReleaseLock deletes the lock only if it still has this renewal's value.
Release(t) ==
  /\ task[t].at = "release"
  /\ \/ lock' = (IF lock = t THEN NoTask ELSE lock) /\ NoFault
     \/ Fault /\ lock' = (IF lock = t THEN Lost ELSE lock)
  /\ Ends(t)
  /\ UNCHANGED <<rowVars, fileVars, made>>

-----------------------------------------------------------------------------
List(t) ==
  /\ task[t].at = "list"
  /\ Goto(t, IF row.status = "error" THEN "remove" ELSE "drop")
  /\ UNCHANGED <<rowVars, fileVars, lock, made, pastVars>>

\* DeleteCertificateFiles; an error is ignored.
Remove(t) ==
  /\ task[t].at = "remove"
  /\ \/ files' = NoFiles /\ backup' = NoFiles /\ NoFault
     \/ Fault /\ UNCHANGED <<files, backup>>
  /\ Goto(t, "drop")
  /\ UNCHANGED <<rowVars, loaded, lock, made>>

\* The row: whatever its status, or only if it is "error".
Drop(t) ==
  /\ task[t].at = "drop"
  /\ \/ /\ row' = IF Exists /\ (task[t].op = "delete" \/ row.status = "error") THEN Deleted ELSE row
        /\ NoFault
     \/ /\ faults < MaxFaults /\ faults' = faults + 1
        /\ orderly' = FALSE
        /\ UNCHANGED <<row, alone>>
  /\ Ends(t)
  /\ UNCHANGED <<provider, fileVars, lock, made>>

\* The lock expires.
Expire ==
  /\ lock # NoTask
  /\ lock' = NoTask
  /\ orderly' = (orderly /\ lock \notin AtWork)
  /\ UNCHANGED <<rowVars, fileVars, task, made, faults, alone>>

\* The API ends: its tasks are gone, a lock stays until it expires.
Crash ==
  /\ AtWork # {}
  /\ faults < MaxFaults /\ faults' = faults + 1
  /\ task' = [t \in Tasks |-> Idle]
  /\ lock' = IF lock = NoTask THEN NoTask ELSE Lost
  /\ orderly' = FALSE
  /\ UNCHANGED <<rowVars, fileVars, made, alone>>

-----------------------------------------------------------------------------
Step(t) ==
  \/ Read(t) \/ Lock(t) \/ Mark(t) \/ Generate(t) \/ Order(t)
  \/ BackUp(t) \/ SaveCert(t) \/ SaveKey(t) \/ Restore(t) \/ Update(t) \/ Notify(t)
  \/ Reread(t) \/ GiveBack(t) \/ Release(t) \/ List(t) \/ Remove(t) \/ Drop(t)

Next ==
  \/ \E t \in Tasks :
       \/ Create(t) \/ UploadCustom(t) \/ Step(t)
       \/ \E op \in {"renew", "replace"} : Start(t, op)
       \/ \E op \in {"delete", "deleteErrors"} : StartDelete(t, op)
  \/ Expire \/ Crash

\* A task goes on: an order ends, as do statements, commands and file operations.
Spec == Init /\ [][Next]_vars /\ \A t \in Tasks : WF_vars(Step(t))

-----------------------------------------------------------------------------
Quiet == AtWork = {}

\* The two files of a certificate came together whenever no task is at work, whatever was refused
\* and whichever single write failed, and however renewals overlapped: nginx would not start with
\* a key left over from another pair.  For a pair that was issued or generated this is the
\* certificate's own key; of an upload nobody checks that.  A row without paths was never served,
\* or its upload failed.
PairIsWhole == Quiet /\ orderly /\ row.status = "issued" /\ row.saved => Whole(files)

\* Without overlaps and faults the row and the files agree on the pair, and nginx has loaded it
\* unless the key that was uploaded is not the certificate's; an upload leaves no pair in its row,
\* and is loaded when a host uses it.  A deleted certificate leaves no files.
RowIsServed ==
  Quiet /\ alone /\ faults = 0 =>
    /\ row = Deleted => files = NoFiles
    /\ row.status = "issued" /\ row.pem # None =>
         files = [cert |-> row.pem, key |-> row.pem] /\ (Fits(files) => loaded = row.pem)

\* A renewal ends: its certificate does not stay "renewing", which no scheduler renews again,
\* unless a statement failed or the API ended.
RenewalEnds == row.status = "renewing" ~> row.status # "renewing" \/ faults > 0
=============================================================================
