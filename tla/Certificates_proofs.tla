------------------------ MODULE Certificates_proofs ------------------------
(* Theorems about Certificates, for any tasks, providers and bounds. *)
EXTENDS Certificates, TLAPS

\* TypeOK in three parts: the tasks, the rest of the state, and who has the lock.
TaskOK == task \in [Tasks -> Task \cup {Idle}]

DataOK ==
  /\ provider \in Providers /\ row \in Row \cup {NoRow, Deleted}
  /\ files \in Files /\ backup \in Files /\ loaded \in {None} \cup Pairs
  /\ lock \in Tasks \cup {NoTask, Lost}
  /\ made \in 0 .. MaxPairs /\ faults \in 0 .. MaxFaults
  /\ orderly \in BOOLEAN /\ alone \in BOOLEAN

LockOK == orderly => \A t \in Renewing : lock = t

LEMMA TypeParts == TypeOK <=> TaskOK /\ DataOK /\ LockOK
BY DEF TypeOK, TaskOK, DataOK, LockOK

\* A record that is idle is no task's at work.
LEMMA AtWorkIsTask == ASSUME TaskOK, NEW t \in Tasks, task[t].at \in Steps PROVE task[t] \in Task
BY DEF TaskOK, Idle, Steps

-----------------------------------------------------------------------------
(* The tasks.                                                                *)
LEMMA GotoTask ==
  ASSUME TaskOK, NEW t \in Tasks, task[t].at \in Steps, NEW s \in Steps, Goto(t, s)
  PROVE  TaskOK'
<1>1. task[t] \in Task BY AtWorkIsTask
<1>2. [task[t] EXCEPT !.at = s] \in Task BY <1>1 DEF Task
<1> QED BY <1>2 DEF TaskOK, Goto

LEMMA EndsTask == ASSUME TaskOK, NEW t \in Tasks, Ends(t) PROVE TaskOK'
BY DEF TaskOK, Ends

LEMMA DoneTask == ASSUME TaskOK, NEW t \in Tasks, Done(t) PROVE TaskOK'
<1>1. [Idle EXCEPT !.op = "renew", !.at = "release"] \in Task
  BY DEF Idle, Task, Operations, Steps, NoRow, Row
<1> QED BY <1>1, EndsTask DEF TaskOK, Done

LEMMA FailsTask ==
  ASSUME TaskOK, NEW t \in Tasks, task[t].at \in Steps, Fails(t) PROVE TaskOK'
<1>1. "reread" \in Steps BY DEF Steps
<1> QED BY <1>1, GotoTask, DoneTask DEF Fails

LEMMA BeginsTask ==
  ASSUME TaskOK, NEW t \in Tasks, NEW op \in Operations, NEW s \in Steps,
         NEW p \in {None} \cup Pairs, Begins(t, op, s, p)
  PROVE  TaskOK'
<1>1. [Idle EXCEPT !.op = op, !.at = s, !.pair = p] \in Task BY DEF Idle, Task
<1> QED BY <1>1 DEF TaskOK, Begins

LEMMA TaskStep == TaskOK /\ DataOK /\ [Next]_vars => TaskOK'
<1> SUFFICES ASSUME TaskOK, DataOK, [Next]_vars PROVE TaskOK'
  OBVIOUS
<1> USE CertificateAssumption
<1>1. ASSUME NEW t \in Tasks, Create(t) \/ UploadCustom(t) PROVE TaskOK'
  <2>1. made' \in Pairs \/ Create(t) BY <1>1 DEF UploadCustom, DataOK, Pairs
  <2> QED BY <1>1, <2>1, BeginsTask DEF Create, UploadCustom, Operations, Steps
<1>2. ASSUME NEW t \in Tasks, NEW op \in {"renew", "replace"}, Start(t, op) PROVE TaskOK'
  <2>1. (IF op = "replace" THEN made' ELSE None) \in {None} \cup Pairs
    BY <1>2 DEF Start, DataOK, Pairs, None
  <2> QED BY <1>2, <2>1, BeginsTask DEF Start, Operations, Steps
<1>3. ASSUME NEW t \in Tasks, NEW op \in {"delete", "deleteErrors"}, StartDelete(t, op) PROVE TaskOK'
  BY <1>3, BeginsTask DEF StartDelete, Operations, Steps
<1>4. ASSUME NEW t \in Tasks, Step(t) PROVE TaskOK'
  <2>1. CASE Read(t)
    <3>1. task[t].at \in Steps BY <2>1 DEF Read, Steps
    <3>2. ASSUME Exists, task' = [task EXCEPT ![t].at = "lock", ![t].row = row] PROVE TaskOK'
      <4>1. [[task[t] EXCEPT !.at = "lock"] EXCEPT !.row = row] \in Task
        BY <3>1, <3>2, AtWorkIsTask DEF Task, Steps, Exists
      <4> QED BY <3>2, <4>1 DEF TaskOK
    <3> QED BY <2>1, <3>1, <3>2, GotoTask, EndsTask DEF Read, Steps
  <2>2. CASE Lock(t) BY <2>2, GotoTask, EndsTask DEF Lock, Steps
  <2>3. CASE Mark(t)
    <3>1. task[t] \in Task BY <2>3, AtWorkIsTask DEF Mark, Steps
    <3>2. ASSUME NEW s \in Steps, task' = [task EXCEPT ![t].row = NoRow, ![t].at = s] PROVE TaskOK'
      <4>1. [[task[t] EXCEPT !.row = NoRow] EXCEPT !.at = s] \in Task BY <3>1 DEF Task
      <4> QED BY <3>2, <4>1 DEF TaskOK
    <3>3. (CASE provider = "letsencrypt" -> "order" [] provider = "selfsigned" -> "generate"
             [] provider = "custom" -> "reread") \in Steps
      BY DEF DataOK, Steps
    <3> QED BY <2>3, <3>2, <3>3, GotoTask DEF Mark, Steps
  <2>4. CASE Generate(t) BY <2>4, GotoTask DEF Generate, Steps
  <2>5. CASE Order(t)
    <3>1. task[t] \in Task BY <2>5, AtWorkIsTask DEF Order, Steps
    <3>2. ASSUME NEW s \in {"backup", "cert"}, NEW n \in Pairs,
                 task' = [task EXCEPT ![t].pair = n, ![t].at = s]
          PROVE  TaskOK'
      <4>1. [[task[t] EXCEPT !.pair = n] EXCEPT !.at = s] \in Task BY <3>1 DEF Task, Steps
      <4> QED BY <3>2, <4>1 DEF TaskOK
    <3>3. made < MaxPairs => made + 1 \in Pairs BY DEF DataOK, Pairs
    <3> QED BY <2>5, <3>2, <3>3, GotoTask DEF Order, Steps
  <2>6. CASE BackUp(t)
    <3>1. task[t] \in Task BY <2>6, AtWorkIsTask DEF BackUp, Steps
    <3>2. ASSUME NEW fs \in SUBSET {"cert", "key"},
                 task' = [task EXCEPT ![t].had = fs, ![t].at = "cert"]
          PROVE  TaskOK'
      <4>1. [[task[t] EXCEPT !.had = fs] EXCEPT !.at = "cert"] \in Task BY <3>1 DEF Task, Steps
      <4> QED BY <3>2, <4>1 DEF TaskOK
    <3>3. {f \in {"cert", "key"} : files[f] # None} \in SUBSET {"cert", "key"} OBVIOUS
    <3>4. CASE Goto(t, "cert") BY <2>6, <3>4, GotoTask DEF BackUp, Steps
    <3> QED BY <2>6, <3>2, <3>3, <3>4 DEF BackUp
  <2>7. CASE SaveCert(t) BY <2>7, GotoTask, FailsTask DEF SaveCert, SaveFails, Steps
  <2>8. CASE SaveKey(t) BY <2>8, GotoTask, FailsTask DEF SaveKey, SaveFails, Steps
  <2>9. CASE Restore(t) BY <2>9, GotoTask, EndsTask DEF Restore, Restored, Steps
  <2>10. CASE Update(t) BY <2>10, GotoTask, DoneTask, FailsTask DEF Update, Steps
  <2>11. CASE Notify(t) BY <2>11, DoneTask DEF Notify
  <2>12. CASE Reread(t)
    <3>1. task[t] \in Task BY <2>12, AtWorkIsTask DEF Reread, Steps
    <3>2. ASSUME Exists, task' = [task EXCEPT ![t].at = "giveBack", ![t].row = row] PROVE TaskOK'
      <4>1. [[task[t] EXCEPT !.at = "giveBack"] EXCEPT !.row = row] \in Task
        BY <3>1, <3>2 DEF Task, Steps, Exists
      <4> QED BY <3>2, <4>1 DEF TaskOK
    <3> QED BY <2>12, <3>2, DoneTask DEF Reread
  <2>13. CASE GiveBack(t) BY <2>13, DoneTask DEF GiveBack
  <2>14. CASE Release(t) BY <2>14, EndsTask DEF Release
  <2>15. CASE List(t) BY <2>15, GotoTask DEF List, Steps
  <2>16. CASE Remove(t) BY <2>16, GotoTask DEF Remove, Steps
  <2>17. CASE Drop(t) BY <2>17, EndsTask DEF Drop
  <2> QED BY <1>4, <2>1, <2>2, <2>3, <2>4, <2>5, <2>6, <2>7, <2>8, <2>9, <2>10, <2>11, <2>12,
             <2>13, <2>14, <2>15, <2>16, <2>17 DEF Step
<1>5. CASE Expire BY <1>5 DEF Expire, TaskOK
<1>6. CASE Crash BY <1>6 DEF Crash, TaskOK
<1>7. CASE UNCHANGED vars BY <1>7 DEF vars, TaskOK
<1> QED BY <1>1, <1>2, <1>3, <1>4, <1>5, <1>6, <1>7 DEF Next

-----------------------------------------------------------------------------
(* The rest of the state.                                                    *)
LEMMA NewStatus ==
  ASSUME NEW r \in Row \cup {NoRow}, NEW s \in Statuses PROVE [r EXCEPT !.status = s] \in Row
<1>1. CASE r \in Row BY <1>1 DEF Row
<1>2. CASE r = NoRow BY <1>2 DEF Row, NoRow
<1> QED BY <1>1, <1>2

LEMMA PairIsContent == Pairs \subseteq Contents /\ None \in Contents /\ Torn \in Contents
BY DEF Contents

\* A file is written, or is not there.
LEMMA WrittenFile ==
  ASSUME NEW d \in Files, NEW w \in Contents
  PROVE  [d EXCEPT !.cert = w] \in Files /\ [d EXCEPT !.key = w] \in Files /\ NoFiles \in Files
BY PairIsContent DEF Files, NoFiles

LEMMA CopiedFiles ==
  ASSUME NEW names \in SUBSET {"cert", "key"}, NEW from \in Files, NEW to \in Files
  PROVE  Copied(names, from, to) \in Files
BY DEF Copied, Files

\* What a task writes into the row is a row.
LEMMA TaskRow ==
  ASSUME TaskOK, NEW t \in Tasks, task[t].at \in Steps
  PROVE  task[t].row \in Row \cup {NoRow} /\ task[t].pair \in {None} \cup Pairs
         /\ task[t].had \in SUBSET {"cert", "key"}
BY AtWorkIsTask DEF Task

LEMMA WritesRow ==
  ASSUME DataOK, NEW new \in Row, Writes(new) PROVE row' \in Row \cup {NoRow, Deleted}
BY DEF DataOK, Writes

\* What is counted, and what is remembered, by each step.
LEMMA PastStep ==
  ASSUME DataOK, Fault \/ NoFault
  PROVE  faults' \in 0 .. MaxFaults /\ orderly' \in BOOLEAN /\ alone' \in BOOLEAN
BY CertificateAssumption DEF DataOK, Fault, NoFault, pastVars

LEMMA BrokenOff ==
  ASSUME DataOK, faults < MaxFaults, faults' = faults + 1, orderly' = FALSE, UNCHANGED alone
  PROVE  faults' \in 0 .. MaxFaults /\ orderly' \in BOOLEAN /\ alone' \in BOOLEAN
<1>1. faults' \in 0 .. MaxFaults BY CertificateAssumption DEF DataOK
<1>2. alone' \in BOOLEAN BY DEF DataOK
<1> QED BY <1>1, <1>2

LEMMA BeginsData ==
  ASSUME DataOK, NEW t \in Tasks, NEW op, NEW s, NEW p, Begins(t, op, s, p),
         row' \in Row \cup {NoRow, Deleted}, made' \in 0 .. MaxPairs
  PROVE  DataOK'
<1>1. orderly' \in BOOLEAN /\ alone' \in BOOLEAN BY DEF Begins
<1> QED BY <1>1 DEF DataOK, Begins, fileVars

LEMMA DataStep == TaskOK /\ DataOK /\ [Next]_vars => DataOK'
<1> SUFFICES ASSUME TaskOK, DataOK, [Next]_vars PROVE DataOK'
  OBVIOUS
<1> USE CertificateAssumption
<1>1. ASSUME NEW t \in Tasks, Create(t) \/ UploadCustom(t) PROVE DataOK'
  <2>1. row' \in Row /\ made' \in 0 .. MaxPairs
    <3>1. CASE Create(t) BY <1>1, <3>1 DEF Create, DataOK, Row, Statuses
    <3>2. CASE UploadCustom(t)
      <4>1. made' \in Pairs BY <3>2 DEF UploadCustom, DataOK, Pairs
      <4> QED BY <3>2, <4>1 DEF UploadCustom, Row, Statuses, Pairs
    <3> QED BY <1>1, <3>1, <3>2
  <2> QED BY <1>1, <2>1, BeginsData DEF Create, UploadCustom
<1>2. ASSUME NEW t \in Tasks, NEW op \in {"renew", "replace"}, Start(t, op) PROVE DataOK'
  <2>1. row' = row /\ made' \in 0 .. MaxPairs BY <1>2 DEF Start, DataOK
  <2> QED BY <1>2, <2>1, BeginsData DEF Start, DataOK
<1>3. ASSUME NEW t \in Tasks, NEW op \in {"delete", "deleteErrors"}, StartDelete(t, op) PROVE DataOK'
  BY <1>3, BeginsData DEF StartDelete, DataOK
<1>4. ASSUME NEW t \in Tasks, Step(t) PROVE DataOK'
  <2> DEFINE Past == faults' \in 0 .. MaxFaults /\ orderly' \in BOOLEAN /\ alone' \in BOOLEAN
  <2>0. Fault \/ NoFault => Past BY PastStep
  <2>1. CASE Read(t) BY <2>0, <2>1 DEF Read, DataOK, rowVars, fileVars
  <2>2. CASE Lock(t)
    <3>1. Past BY <2>0, <2>2, BrokenOff DEF Lock
    <3>2. lock' \in Tasks \cup {NoTask, Lost} BY <2>2 DEF Lock, DataOK
    <3> QED BY <2>2, <3>1, <3>2 DEF Lock, DataOK, rowVars, fileVars
  <2>3. CASE Mark(t)
    <3>1. [task[t].row EXCEPT !.status = "renewing"] \in Row
      BY <2>3, TaskRow, NewStatus DEF Mark, Steps, Statuses
    <3>2. row' \in Row \cup {NoRow, Deleted} BY <2>3, <3>1, WritesRow DEF Mark, DataOK
    <3> QED BY <2>0, <2>3, <3>2 DEF Mark, DataOK, fileVars
  <2>4. CASE Generate(t) BY <2>0, <2>4 DEF Generate, DataOK, rowVars, fileVars
  <2>5. CASE Order(t) BY <2>5 DEF Order, DataOK, rowVars, fileVars, pastVars
  <2>6. CASE BackUp(t)
    <3>1. Copied({"cert", "key"}, files, backup) \in Files BY CopiedFiles DEF DataOK
    <3>2. [backup EXCEPT !.cert = None] \in Files BY WrittenFile, PairIsContent DEF DataOK
    <3>3. backup' \in Files BY <2>6, <3>1, <3>2 DEF BackUp
    <3> QED BY <2>0, <2>6, <3>3 DEF BackUp, DataOK, rowVars
  <2>7. CASE SaveCert(t)
    <3>1. task[t].pair \in Contents BY <2>7, TaskRow, PairIsContent DEF SaveCert, Steps
    <3>2. files' \in Files
      <4>1. \A w \in {task[t].pair, Torn} : [files EXCEPT !.cert = w] \in Files
        BY <3>1, WrittenFile, PairIsContent DEF DataOK
      <4> QED BY <2>7, <4>1 DEF SaveCert, DataOK
    <3>3. backup' \in Files
      BY <2>7, WrittenFile, PairIsContent DEF SaveCert, SaveFails, Fails, Done, DataOK
    <3> QED BY <2>0, <2>7, <3>2, <3>3 DEF SaveCert, DataOK, rowVars
  <2>8. CASE SaveKey(t)
    <3>1. task[t].pair \in Contents BY <2>8, TaskRow, PairIsContent DEF SaveKey, Steps
    <3>2. files' \in Files
      <4>1. \A w \in {task[t].pair, Torn} : [files EXCEPT !.key = w] \in Files
        BY <3>1, WrittenFile, PairIsContent DEF DataOK
      <4> QED BY <2>8, <4>1 DEF SaveKey, DataOK
    <3>3. backup' \in Files
      BY <2>8, WrittenFile, PairIsContent DEF SaveKey, SaveFails, Fails, Done, DataOK
    <3> QED BY <2>0, <2>8, <3>2, <3>3 DEF SaveKey, DataOK, rowVars
  <2>9. CASE Restore(t)
    <3> DEFINE Old == Copied(task[t].had, backup, files)
    <3>1. Old \in Files
      BY <2>9, TaskRow, CopiedFiles DEF Restore, DataOK, Steps
    <3>2. ASSUME NEW f \in {"cert", "key"}, NEW w \in {files[f], Torn} PROVE [Old EXCEPT ![f] = w] \in Files
      <4>1. w \in Contents BY <3>2, PairIsContent DEF DataOK, Files
      <4> QED BY <3>1, <4>1, WrittenFile
    <3>3. files' \in Files /\ backup' \in Files
      BY <2>9, <3>1, <3>2, TaskRow, WrittenFile, PairIsContent DEF Restore, Restored, Steps, DataOK
    <3>4. Past BY <2>0, <2>9 DEF Restore
    <3> QED BY <2>9, <3>3, <3>4 DEF Restore, DataOK, rowVars
  <2>10. CASE Update(t)
    <3>1. [status |-> "issued", saved |-> TRUE, pem |-> IF task[t].op = "upload" THEN None ELSE task[t].pair] \in Row
      BY <2>10, TaskRow DEF Update, Steps, Statuses, Row
    <3>2. row' \in Row \cup {NoRow, Deleted} BY <2>10, <3>1, WritesRow DEF Update, DataOK
    <3>3. backup' \in Files BY <2>10, WrittenFile, PairIsContent DEF Update, Fails, Done, DataOK
    <3> QED BY <2>0, <2>10, <3>2, <3>3 DEF Update, DataOK
  <2>11. CASE Notify(t)
    <3>1. loaded' \in {None} \cup Pairs BY <2>11 DEF Notify, Fits, Whole, DataOK
    <3>2. backup' \in Files BY <2>11, WrittenFile, PairIsContent DEF Notify, Done, DataOK
    <3> QED BY <2>0, <2>11, <3>1, <3>2 DEF Notify, DataOK, rowVars
  <2>12. CASE Reread(t)
    <3>1. backup' \in Files BY <2>12, WrittenFile, PairIsContent DEF Reread, Done, DataOK
    <3> QED BY <2>0, <2>12, <3>1 DEF Reread, DataOK, rowVars
  <2>13. CASE GiveBack(t)
    <3>1. [task[t].row EXCEPT !.status = FailedStatus(t)] \in Row
      BY <2>13, TaskRow, NewStatus DEF GiveBack, FailedStatus, Steps, Statuses
    <3>2. row' \in Row \cup {NoRow, Deleted} BY <2>13, <3>1, WritesRow DEF GiveBack, DataOK
    <3>3. backup' \in Files BY <2>13, WrittenFile, PairIsContent DEF GiveBack, Done, DataOK
    <3> QED BY <2>0, <2>13, <3>2, <3>3 DEF GiveBack, DataOK
  <2>14. CASE Release(t) BY <2>0, <2>14 DEF Release, DataOK, rowVars, fileVars
  <2>15. CASE List(t) BY <2>15 DEF List, DataOK, rowVars, fileVars, pastVars
  <2>16. CASE Remove(t)
    BY <2>0, <2>16, WrittenFile, PairIsContent DEF Remove, DataOK, rowVars
  <2>17. CASE Drop(t)
    <3>1. Past BY <2>0, <2>17, BrokenOff DEF Drop
    <3>2. row' \in Row \cup {NoRow, Deleted} BY <2>17 DEF Drop, DataOK
    <3> QED BY <2>17, <3>1, <3>2 DEF Drop, DataOK, fileVars
  <2> QED BY <1>4, <2>1, <2>2, <2>3, <2>4, <2>5, <2>6, <2>7, <2>8, <2>9, <2>10, <2>11, <2>12,
             <2>13, <2>14, <2>15, <2>16, <2>17 DEF Step
<1>5. CASE Expire
  <2>1. orderly' \in BOOLEAN BY <1>5 DEF Expire
  <2> QED BY <1>5, <2>1 DEF Expire, DataOK, rowVars, fileVars
<1>6. CASE Crash
  <2>1. faults' \in 0 .. MaxFaults BY <1>6 DEF Crash, DataOK
  <2>2. lock' \in Tasks \cup {NoTask, Lost} BY <1>6 DEF Crash
  <2> QED BY <1>6, <2>1, <2>2 DEF Crash, DataOK, rowVars, fileVars
<1>7. CASE UNCHANGED vars BY <1>7 DEF vars, DataOK, rowVars, fileVars, pastVars
<1> QED BY <1>1, <1>2, <1>3, <1>4, <1>5, <1>6, <1>7 DEF Next

-----------------------------------------------------------------------------
(* The lock.                                                                 *)

\* A task that renews after a step did so before, and it is not the step's that takes the lock.
Renews(t) == task[t] # Idle /\ task[t].op = "renew" /\ task[t].at \notin {"read", "lock"}

\* If nobody takes the lock who has it not, those who renew keep it.
LEMMA Keeps ==
  ASSUME LockOK, orderly' => orderly /\ lock' = lock,
         \A t \in Tasks : Renews(t)' => Renews(t)
  PROVE  LockOK'
BY DEF LockOK, Renewing, AtWork, Renews

\* A step of one task makes no other renew.
LEMMA Others ==
  ASSUME NEW t \in Tasks, \A u \in Tasks \ {t} : task'[u] = task[u]
  PROVE  \A u \in Tasks \ {t} : Renews(u)' => Renews(u)
BY DEF Renews

LEMMA OneTask ==
  ASSUME TaskOK, NEW t \in Tasks, Step(t)
  PROVE  \A u \in Tasks \ {t} : task'[u] = task[u]
BY DEF Step, TaskOK, Read, Lock, Mark, Generate, Order, BackUp, SaveCert, SaveKey, Restore, Restored,
       Update, Notify, Reread, GiveBack, Release, List, Remove, Drop, SaveFails, Fails, Done, Ends, Goto

\* A task goes on with what it does, or ends.
LEMMA KeepsOp ==
  ASSUME TaskOK, NEW t \in Tasks, Step(t)
  PROVE  task'[t] = Idle \/ (task[t] # Idle /\ task'[t].op = task[t].op)
<1>1. task[t].at \in Steps
  BY DEF Step, Steps, Read, Lock, Mark, Generate, Order, BackUp, SaveCert, SaveKey, Restore,
         Update, Notify, Reread, GiveBack, Release, List, Remove, Drop
<1>2. task[t] \in Task /\ task[t] # Idle BY <1>1, AtWorkIsTask DEF Idle, Steps
<1>3. \A s : Goto(t, s) => task'[t].op = task[t].op BY <1>2 DEF Goto, TaskOK, Task
<1>4. Ends(t) => task'[t] = Idle BY DEF Ends, TaskOK
<1>5. Done(t) => task'[t] = Idle \/ task'[t].op = task[t].op
  BY <1>4 DEF Done, TaskOK, Idle
<1>6. Fails(t) => task'[t] = Idle \/ task'[t].op = task[t].op BY <1>3, <1>5 DEF Fails
<1>7. CASE Read(t) BY <1>2, <1>3, <1>4, <1>7 DEF Read, TaskOK, Task
<1>8. CASE Mark(t) BY <1>2, <1>3, <1>8 DEF Mark, TaskOK, Task
<1>9. CASE Order(t) BY <1>2, <1>3, <1>9 DEF Order, TaskOK, Task
<1>10. CASE BackUp(t) BY <1>2, <1>3, <1>10 DEF BackUp, TaskOK, Task
<1>11. CASE Reread(t) BY <1>2, <1>5, <1>11 DEF Reread, TaskOK, Task
<1>12. CASE Lock(t) \/ Generate(t) \/ Release(t) \/ List(t) \/ Remove(t) \/ Drop(t) \/ Restore(t)
  BY <1>2, <1>3, <1>4, <1>12 DEF Lock, Generate, Release, List, Remove, Drop, Restore, Restored
<1>13. CASE SaveCert(t) \/ SaveKey(t) \/ Update(t) \/ Notify(t) \/ GiveBack(t)
  BY <1>2, <1>3, <1>5, <1>6, <1>13 DEF SaveCert, SaveKey, SaveFails, Update, Notify, GiveBack
<1> QED BY <1>7, <1>8, <1>9, <1>10, <1>11, <1>12, <1>13 DEF Step

\* A task that renews after its step did so before, unless it has just tried the lock.
LEMMA OwnStep ==
  ASSUME TaskOK, NEW t \in Tasks, Step(t), ~Lock(t), Renews(t)'
  PROVE  Renews(t)
<1>1. task[t] # Idle /\ task[t].op = "renew" BY KeepsOp DEF Renews
<1>2. ASSUME task[t].at = "read" PROVE FALSE
  <2>1. Read(t)
    BY <1>2 DEF Step, Lock, Mark, Generate, Order, BackUp, SaveCert, SaveKey, Restore,
                Update, Notify, Reread, GiveBack, Release, List, Remove, Drop
  <2>2. task[t] \in Task BY <1>2, AtWorkIsTask DEF Steps
  <2>3. task'[t].at = "lock" \/ task'[t] = Idle
    BY <1>1, <2>1, <2>2 DEF Read, Goto, Ends, TaskOK, Task
  <2> QED BY <2>3 DEF Renews
<1>3. task[t].at # "lock"
  BY DEF Step, Read, Mark, Generate, Order, BackUp, SaveCert, SaveKey, Restore,
         Update, Notify, Reread, GiveBack, Release, List, Remove, Drop
<1> QED BY <1>1, <1>2, <1>3 DEF Renews

LEMMA BeginsLock ==
  ASSUME TaskOK, LockOK, NEW t \in Tasks, NEW op, NEW s, NEW p, Begins(t, op, s, p),
         op # "renew" \/ s = "read"
  PROVE  LockOK'
<1>1. \A u \in Tasks : Renews(u)' => Renews(u) BY DEF Begins, Renews, TaskOK, Idle
<1>2. (orderly' => orderly) /\ lock' = lock BY DEF Begins
<1> QED BY <1>1, <1>2, Keeps

LEMMA LockStep == TaskOK /\ LockOK /\ [Next]_vars => LockOK'
<1> SUFFICES ASSUME TaskOK, LockOK, [Next]_vars PROVE LockOK'
  OBVIOUS
<1>1. ASSUME NEW t \in Tasks, Create(t) \/ UploadCustom(t) PROVE LockOK'
  BY <1>1, BeginsLock DEF Create, UploadCustom
<1>2. ASSUME NEW t \in Tasks, NEW op \in {"renew", "replace"}, Start(t, op) PROVE LockOK'
  BY <1>2, BeginsLock DEF Start
<1>3. ASSUME NEW t \in Tasks, NEW op \in {"delete", "deleteErrors"}, StartDelete(t, op) PROVE LockOK'
  BY <1>3, BeginsLock DEF StartDelete
<1>4. ASSUME NEW t \in Tasks, Step(t) PROVE LockOK'
  <2>1. \A u \in Tasks \ {t} : Renews(u)' => Renews(u) BY <1>4, OneTask, Others
  <2>2. CASE Lock(t)
    <3>1. CASE lock = NoTask /\ lock' = t /\ NoFault
      <4>1. orderly => \A u \in Tasks : ~Renews(u)
        BY <3>1, CertificateAssumption DEF LockOK, Renewing, AtWork, Renews
      <4>2. orderly' = orderly BY <3>1 DEF NoFault, pastVars
      <4> QED BY <2>1, <3>1, <4>1, <4>2 DEF LockOK, Renewing, AtWork, Renews
    <3>2. CASE lock' = lock /\ Ends(t) /\ NoFault
      <4>1. ~Renews(t)' BY <3>2 DEF Renews, Ends, TaskOK
      <4>2. orderly' = orderly BY <3>2 DEF NoFault, pastVars
      <4> QED BY <2>1, <3>2, <4>1, <4>2, Keeps
    <3>3. CASE orderly' = FALSE BY <3>3 DEF LockOK
    <3> QED BY <2>2, <3>1, <3>2, <3>3 DEF Lock
  <2>3. CASE Release(t)
    <3>1. ~Renews(t)' BY <2>3 DEF Release, Renews, Ends, TaskOK
    <3>2. orderly' = orderly BY <2>3 DEF Release, NoFault, Fault, pastVars
    <3>3. ASSUME orderly', NEW u \in Tasks, Renews(u)' PROVE lock' = u
      <4>1. u # t /\ lock = u
        BY <2>1, <3>1, <3>2, <3>3 DEF LockOK, Renewing, AtWork, Renews
      <4> QED BY <2>3, <4>1 DEF Release
    <3> QED BY <3>3 DEF LockOK, Renewing, AtWork, Renews
  <2>4. CASE ~Lock(t) /\ ~Release(t)
    <3>1. (orderly' => orderly) /\ lock' = lock
      BY <1>4, <2>4 DEF Step, Read, Mark, Generate, Order, BackUp, SaveCert, SaveKey, Restore,
         Update, Notify, Reread, GiveBack, List, Remove, Drop, Fault, NoFault, pastVars
    <3> QED BY <1>4, <2>1, <2>4, <3>1, OwnStep, Keeps
  <2> QED BY <2>2, <2>3, <2>4
<1>5. CASE Expire
  <2>1. ASSUME orderly' PROVE FALSE \/ \A u \in Tasks : ~Renews(u)'
    BY <1>5, <2>1 DEF Expire, LockOK, Renewing, AtWork, Renews
  <2> QED BY <2>1 DEF LockOK, Renewing, AtWork, Renews
<1>6. CASE Crash BY <1>6 DEF Crash, LockOK
<1>7. CASE UNCHANGED vars BY <1>7 DEF vars, pastVars, LockOK, Renewing, AtWork
<1> QED BY <1>1, <1>2, <1>3, <1>4, <1>5, <1>6, <1>7 DEF Next

LEMMA InitType == Init => TaskOK /\ DataOK /\ LockOK
<1> SUFFICES ASSUME Init PROVE TaskOK /\ DataOK /\ LockOK
  OBVIOUS
<1>1. TaskOK BY DEF Init, TaskOK
<1>2. DataOK
  BY CertificateAssumption, WrittenFile, PairIsContent DEF Init, DataOK, NoFiles, Files
<1>3. LockOK BY DEF Init, LockOK, Renewing, AtWork
<1> QED BY <1>1, <1>2, <1>3

-----------------------------------------------------------------------------
\* The types of a certificate, its files and its tasks; and whoever renews has the lock, however
\* many tasks there are and whatever fails, as long as no lock expired under a renewal, none was
\* done without, and no process broke off.
THEOREM TypeCorrect == Spec => []TypeOK
<1>1. TaskOK /\ DataOK /\ LockOK /\ [Next]_vars => (TaskOK /\ DataOK /\ LockOK)'
  BY TaskStep, DataStep, LockStep
<1>2. TaskOK /\ DataOK /\ LockOK => TypeOK BY TypeParts
<1> QED BY <1>1, <1>2, InitType, PTL DEF Spec

-----------------------------------------------------------------------------
(* Which operation is where, and what it has by then.                        *)
Route(t) ==
  LET at == task[t].at
      op == task[t].op
  IN /\ at = "read" => \/ op \in {"obtain", "renew"}
                       \/ op = "replace" /\ provider = "custom" /\ task[t].pair \in Pairs
     /\ at \in {"lock", "mark", "release"} => op = "renew"
     /\ at = "generate" => op = "renew" /\ provider # "custom"
     /\ at = "order" => op = "obtain" \/ (op = "renew" /\ provider # "custom")
     /\ at = "backup" => op \in {"renew", "replace"} /\ provider # "selfsigned"
     /\ at \in {"backup", "cert", "key", "update", "notify"} => task[t].pair \in Pairs
     /\ at = "list" => op = "deleteErrors"
     /\ at \in {"remove", "drop"} => op \in {"delete", "deleteErrors"}

RouteInv == \A t \in Tasks : Route(t)

\* What a step makes of its task.
LEMMA Moves ==
  ASSUME TaskOK, NEW t \in Tasks, task[t].at \in Steps
  PROVE  /\ \A s : Goto(t, s) => /\ task'[t].at = s /\ task'[t].op = task[t].op
                                 /\ task'[t].row = task[t].row /\ task'[t].pair = task[t].pair
                                 /\ task'[t].had = task[t].had
         /\ Ends(t) => task'[t] = Idle /\ task'[t].at = "idle"
         /\ Done(t) => \/ task'[t] = Idle /\ task'[t].at = "idle"
                       \/ /\ task[t].op = "renew" /\ task'[t].op = "renew"
                          /\ task'[t].at = "release"
<1>1. task[t] \in Task BY AtWorkIsTask
<1>2. \A s : Goto(t, s) => /\ task'[t].at = s /\ task'[t].op = task[t].op
                           /\ task'[t].row = task[t].row /\ task'[t].pair = task[t].pair
                           /\ task'[t].had = task[t].had
  BY <1>1 DEF Goto, TaskOK, Task
<1>3. Ends(t) => task'[t] = Idle /\ task'[t].at = "idle" BY DEF Ends, TaskOK, Idle
<1>4. Done(t) => \/ task'[t] = Idle /\ task'[t].at = "idle"
                 \/ /\ task[t].op = "renew" /\ task'[t].op = "renew"
                    /\ task'[t].at = "release"
  BY <1>3 DEF Done, TaskOK, Idle
<1> QED BY <1>2, <1>3, <1>4

LEMMA AtSteps ==
  ASSUME NEW t \in Tasks, Step(t) PROVE task[t].at \in Steps
BY DEF Step, Steps, Read, Lock, Mark, Generate, Order, BackUp, SaveCert, SaveKey, Restore,
       Update, Notify, Reread, GiveBack, Release, List, Remove, Drop

LEMMA SameProvider == [Next]_vars => provider' = provider
BY ZenonT(40) DEF Next, vars, rowVars, Begins, Create, UploadCustom, Start, StartDelete, Step, Read, Lock, Mark,
       Generate, Order, BackUp, SaveCert, SaveKey, Restore, Update, Notify, Reread, GiveBack,
       Release, List, Remove, Drop, Expire, Crash

LEMMA RouteStepOf ==
  ASSUME TaskOK, DataOK, NEW t \in Tasks, Route(t), Step(t) PROVE Route(t)'
<1> DEFINE x == task[t]
<1>1. provider' = provider BY SameProvider DEF Next
<1>2. x.at \in Steps /\ x \in Task BY AtSteps, AtWorkIsTask
<1>3. ASSUME Ends(t) \/ Done(t) PROVE Route(t)' BY <1>2, <1>3, Moves DEF Route
<1>4. ASSUME NEW s \in {"reread", "restore", "giveBack"}, Goto(t, s) PROVE Route(t)'
  BY <1>2, <1>4, Moves DEF Route
<1>5. ASSUME Fails(t) PROVE Route(t)' BY <1>3, <1>4, <1>5 DEF Fails
<1>6. CASE Read(t)
  <2>1. ASSUME task' = [task EXCEPT ![t].at = "lock", ![t].row = row], x.op = "renew"
        PROVE  Route(t)'
    <3>1. task'[t].at = "lock" /\ task'[t].op = "renew" BY <1>2, <2>1 DEF TaskOK, Task
    <3> QED BY <3>1 DEF Route
  <2>2. ASSUME NEW s, s = IF x.op = "obtain" THEN "order" ELSE "backup", Goto(t, s), x.op # "renew"
        PROVE  Route(t)'
    <3>1. x.op = "obtain" \/ (x.op = "replace" /\ provider = "custom" /\ x.pair \in Pairs)
      BY <1>6, <2>2 DEF Read, Route
    <3> QED BY <1>1, <1>2, <2>2, <3>1, Moves DEF Route
  <2> QED BY <1>3, <1>4, <1>6, <2>1, <2>2 DEF Read
<1>7. CASE Lock(t)
  <2>1. ASSUME Goto(t, "mark") PROVE Route(t)'
    <3>1. x.op = "renew" BY <1>7 DEF Lock, Route
    <3> QED BY <1>2, <2>1, <3>1, Moves DEF Route
  <2> QED BY <1>3, <1>7, <2>1 DEF Lock
<1>8. CASE Mark(t)
  <2>1. x.op = "renew" BY <1>8 DEF Mark, Route
  <2>2. ASSUME NEW s, task' = [task EXCEPT ![t].row = NoRow, ![t].at = s],
               s = CASE provider = "letsencrypt" -> "order"
                     [] provider = "selfsigned" -> "generate"
                     [] provider = "custom" -> "reread"
        PROVE  Route(t)'
    <3>1. task'[t].at = s /\ task'[t].op = "renew" BY <1>2, <2>1, <2>2 DEF TaskOK, Task
    <3>2. provider \in {"letsencrypt", "selfsigned", "custom"} BY CertificateAssumption DEF DataOK
    <3>3. \/ s \in {"order", "generate"} /\ provider # "custom"
          \/ s = "reread"
      BY <2>2, <3>2
    <3> QED BY <1>1, <3>1, <3>3 DEF Route
  <2>3. ASSUME Goto(t, "release") PROVE Route(t)' BY <1>2, <2>1, <2>3, Moves DEF Route
  <2> QED BY <1>8, <2>2, <2>3 DEF Mark
<1>9. CASE Generate(t)
  <2>1. ASSUME Goto(t, "order") PROVE Route(t)'
    BY <1>1, <1>2, <1>9, <2>1, Moves DEF Generate, Route
  <2> QED BY <1>4, <1>9, <2>1 DEF Generate
<1>10. CASE Order(t)
  <2>1. ASSUME NEW s, made < MaxPairs, made' = made + 1,
               task' = [task EXCEPT ![t].pair = made', ![t].at = s],
               s = IF x.op = "renew" /\ provider = "letsencrypt" THEN "backup" ELSE "cert"
        PROVE  Route(t)'
    <3>1. made' \in Pairs BY <2>1, CertificateAssumption DEF DataOK, Pairs
    <3>2. task'[t].at = s /\ task'[t].op = x.op /\ task'[t].pair = made'
      BY <1>2, <2>1 DEF TaskOK, Task
    <3> QED BY <1>1, <2>1, <3>1, <3>2, CertificateAssumption DEF Route, Pairs
  <2> QED BY <1>4, <1>10, <2>1 DEF Order
<1>11. CASE BackUp(t)
  <2>1. x.pair \in Pairs BY <1>11 DEF BackUp, Route
  <2>2. task'[t].at = "cert" /\ task'[t].pair = x.pair
    BY <1>2, <1>11 DEF BackUp, Goto, TaskOK, Task
  <2>3. x.pair \in Pairs => task'[t].pair \in Pairs' BY <2>2 DEF Pairs
  <2> QED BY <2>1, <2>2, <2>3 DEF Route
<1>12. CASE SaveCert(t)
  <2>1. ASSUME Goto(t, "key") PROVE Route(t)'
    BY <1>2, <1>12, <2>1, Moves DEF SaveCert, Route, Pairs
  <2> QED BY <1>4, <1>5, <1>12, <2>1 DEF SaveCert, SaveFails
<1>13. CASE SaveKey(t)
  <2>1. ASSUME Goto(t, "update") PROVE Route(t)'
    BY <1>2, <1>13, <2>1, Moves DEF SaveKey, Route, Pairs
  <2> QED BY <1>4, <1>5, <1>13, <2>1 DEF SaveKey, SaveFails
<1>14. CASE Restore(t) BY <1>3, <1>4, <1>14 DEF Restore, Restored
<1>15. CASE Update(t)
  <2>1. ASSUME Goto(t, "notify") PROVE Route(t)'
    BY <1>2, <1>15, <2>1, Moves DEF Update, Route, Pairs
  <2> QED BY <1>3, <1>5, <1>15, <2>1 DEF Update
<1>16. CASE Notify(t) \/ GiveBack(t) \/ Release(t) \/ Drop(t)
  BY <1>3, <1>16 DEF Notify, GiveBack, Release, Drop
<1>17. CASE Reread(t)
  <2>1. ASSUME task' = [task EXCEPT ![t].at = "giveBack", ![t].row = row] PROVE Route(t)'
    <3>1. task'[t].at = "giveBack" BY <1>2, <2>1 DEF TaskOK, Task
    <3> QED BY <3>1 DEF Route
  <2> QED BY <1>3, <1>17, <2>1 DEF Reread
<1>18. CASE List(t) \/ Remove(t)
  <2>1. x.op \in {"delete", "deleteErrors"} BY <1>18 DEF List, Remove, Route
  <2>2. PICK s \in {"remove", "drop"} : Goto(t, s) BY <1>18 DEF List, Remove
  <2> QED BY <1>2, <2>1, <2>2, Moves DEF Route
<1> QED BY <1>6, <1>7, <1>8, <1>9, <1>10, <1>11, <1>12, <1>13, <1>14, <1>15, <1>16, <1>17, <1>18
        DEF Step

\* What a new task is.
LEMMA NewTask ==
  ASSUME TaskOK, NEW t \in Tasks, NEW op, NEW s, NEW p, Begins(t, op, s, p)
  PROVE  /\ task[t] = Idle /\ task'[t].op = op /\ task'[t].at = s /\ task'[t].pair = p
         /\ task'[t].had = {}
         /\ \A u \in Tasks \ {t} : task'[u] = task[u]
BY DEF Begins, TaskOK, Idle

LEMMA RouteStep == TaskOK /\ DataOK /\ RouteInv /\ [Next]_vars => RouteInv'
<1> SUFFICES ASSUME TaskOK, DataOK, RouteInv, [Next]_vars PROVE RouteInv'
  OBVIOUS
<1>1. provider' = provider BY SameProvider
<1>2. ASSUME NEW u \in Tasks, task'[u] = task[u] PROVE Route(u)'
  BY <1>1, <1>2 DEF RouteInv, Route, Pairs
<1>3. ASSUME NEW t \in Tasks, Create(t) PROVE RouteInv'
  <2>1. Begins(t, "obtain", "read", None) BY <1>3 DEF Create
  <2>2. Route(t)' BY <2>1, NewTask DEF Route
  <2> QED BY <1>2, <2>1, <2>2, NewTask DEF RouteInv
<1>4. ASSUME NEW t \in Tasks, UploadCustom(t) PROVE RouteInv'
  <2>1. Begins(t, "upload", "cert", made') /\ made' \in Pairs'
    BY <1>4, CertificateAssumption DEF UploadCustom, DataOK, Pairs
  <2>2. Route(t)' BY <2>1, NewTask DEF Route
  <2> QED BY <1>2, <2>1, <2>2, NewTask DEF RouteInv
<1>5. ASSUME NEW t \in Tasks, NEW op \in {"renew", "replace"}, Start(t, op) PROVE RouteInv'
  <2>1. /\ Begins(t, op, "read", IF op = "replace" THEN made' ELSE None)
        /\ op = "replace" => provider = "custom" /\ made' \in Pairs'
    BY <1>5, CertificateAssumption DEF Start, DataOK, Pairs
  <2>2. Route(t)' BY <1>1, <2>1, NewTask DEF Route
  <2> QED BY <1>2, <2>1, <2>2, NewTask DEF RouteInv
<1>6. ASSUME NEW t \in Tasks, NEW op \in {"delete", "deleteErrors"}, StartDelete(t, op)
      PROVE  RouteInv'
  <2>1. Begins(t, op, IF op = "delete" THEN "remove" ELSE "list", None) BY <1>6 DEF StartDelete
  <2>2. Route(t)' BY <2>1, NewTask DEF Route
  <2> QED BY <1>2, <2>1, <2>2, NewTask DEF RouteInv
<1>7. ASSUME NEW t \in Tasks, Step(t) PROVE RouteInv'
  BY <1>2, <1>7, OneTask, RouteStepOf DEF RouteInv
<1>8. CASE Crash BY <1>8 DEF Crash, RouteInv, Route, Idle
<1>9. CASE task' = task BY <1>2, <1>9 DEF RouteInv
<1> QED BY <1>3, <1>4, <1>5, <1>6, <1>7, <1>8, <1>9 DEF Next, Expire, vars

-----------------------------------------------------------------------------
(* Without overlaps and faults.                                              *)

\* The pair in the row is the one in the files, and the one nginx has loaded if it could.
Agree ==
  row.pem # None =>
    files = [cert |-> row.pem, key |-> row.pem] /\ (Fits(files) => loaded = row.pem)

\* How far the one task at work is.
Place(t) ==
  LET at == task[t].at
      op == task[t].op
      pair == task[t].pair
  IN /\ Exists /\ at # "restore"
     /\ at \notin {"cert", "key", "update", "notify", "drop"} => Agree
     /\ at \in {"lock", "mark", "giveBack"} => task[t].row = row
     /\ at = "key" => files.cert = pair
     /\ at \in {"update", "notify"} => files = [cert |-> pair, key |-> pair]
     /\ at = "notify" => row.pem = pair
     /\ at = "remove" => op = "delete" \/ row.status = "error"
     /\ at = "drop" => \/ files = NoFiles /\ (op = "delete" \/ row.status = "error")
                       \/ Agree /\ op # "delete" /\ row.status # "error"

AtRest == Agree /\ (row = Deleted => files = NoFiles)

CleanInv ==
  alone /\ faults = 0 =>
    /\ \A t, u \in AtWork : t = u
    /\ \A t \in AtWork : Place(t)
    /\ Quiet => AtRest

\* What was clean after a step was so before.
LEMMA WasClean ==
  ASSUME DataOK, [Next]_vars, alone', faults' = 0
  PROVE  alone /\ faults = 0
<1>1. faults \in Nat BY DEF DataOK
<1>0. faults' # faults + 1 BY <1>1
<1>2. ~Fault BY <1>0 DEF Fault
<1>3. NoFault => alone /\ faults = 0 BY DEF NoFault, pastVars
<1>4. ASSUME NEW t \in Tasks, NEW op, NEW s, NEW p, Begins(t, op, s, p) PROVE alone /\ faults = 0
  BY <1>4 DEF Begins
<1>5. ASSUME NEW t \in Tasks, Step(t) PROVE alone /\ faults = 0
  <2>1. NoFault
    BY <1>0, <1>2, <1>5 DEF Step, Read, Lock, Mark, Generate, Order, BackUp, SaveCert, SaveKey,
       Restore, Update, Notify, Reread, GiveBack, Release, List, Remove, Drop, NoFault
  <2> QED BY <1>3, <2>1
<1>6. CASE Expire \/ UNCHANGED vars BY <1>6 DEF Expire, vars, pastVars
<1>7. ~Crash BY <1>0 DEF Crash
<1> QED BY <1>4, <1>5, <1>6, <1>7 DEF Next, Create, UploadCustom, Start, StartDelete

LEMMA CleanCombine ==
  ASSUME NEW t \in Tasks, \A u \in Tasks \ {t} : task[u] = Idle /\ task'[u] = task[u],
         (Place(t)' /\ task'[t] # Idle) \/ (AtRest' /\ task'[t] = Idle)
  PROVE  CleanInv'
BY DEF CleanInv, AtWork, Quiet

LEMMA ExistingRow == Exists => row \in Row /\ row # Deleted /\ row # NoRow
BY DEF Exists, Row, Statuses, Deleted, NoRow

LEMMA CleanStepOf ==
  ASSUME TaskOK, DataOK, RouteInv, CleanInv, alone, faults = 0, faults' = 0,
         NEW t \in Tasks, Step(t)
  PROVE  CleanInv'
<1> DEFINE x == task[t]  Rest == \A u \in Tasks \ {t} : task[u] = Idle /\ task'[u] = task[u]
<1>1. x.at \in Steps /\ x \in Task /\ x # Idle BY AtSteps, AtWorkIsTask DEF Steps, Idle
<1>2. Rest BY <1>1, OneTask DEF CleanInv, AtWork
<1>3. Place(t) /\ Exists /\ Route(t) BY <1>1 DEF CleanInv, AtWork, Place, RouteInv
<1>4. ~Fault BY DEF Fault
<1>5. row \in Row /\ row # Deleted BY <1>3, ExistingRow
<1> HIDE DEF Rest
<1>0. provider' = provider BY SameProvider DEF Next
<1> USE <1>0 DEF Fits, Whole
<1>6. ASSUME Place(t)', task'[t].at # "idle" PROVE CleanInv'
  <2>1. task'[t] # Idle BY <1>6 DEF Idle
  <2> QED BY <1>2, <1>6, <2>1 DEF Rest, CleanInv, AtWork, Quiet
<1>7. ASSUME row' = row, files' = files, loaded' = loaded, Agree, Ends(t) \/ Done(t)
      PROVE  CleanInv'
  <2>1. AtRest' BY <1>5, <1>7 DEF AtRest, Agree
  <2>2. CASE task'[t] = Idle BY <1>2, <2>1, <2>2, CleanCombine DEF Rest
  <2>3. CASE task'[t].at = "release" BY <1>3, <1>6, <1>7, <2>3 DEF Place, Agree, Exists
  <2> QED BY <1>1, <1>7, <2>2, <2>3, Moves
<1>8. ASSUME row' = row, files' = files, loaded' = loaded, Agree, task'[t].at \in
             {"order", "generate", "backup", "cert", "reread", "list", "release", "mark", "lock"},
             task'[t].at \in {"mark", "lock"} => task'[t].row = row
      PROVE  CleanInv'
  BY <1>3, <1>6, <1>8 DEF Place, Agree, Exists
<1>9. CASE Read(t)
  <2>1. row' = row /\ files' = files /\ loaded' = loaded /\ Agree /\ Exists
    BY <1>3, <1>9 DEF Read, rowVars, fileVars, Place
  <2>2. task' = [task EXCEPT ![t].at = "lock", ![t].row = row]
        => task'[t].at = "lock" /\ task'[t].row = row
    BY <1>1 DEF TaskOK, Task
  <2> QED BY <1>1, <1>4, <1>7, <1>8, <1>9, <2>1, <2>2, Moves DEF Read
<1>10. CASE Lock(t)
  <2>1. row' = row /\ files' = files /\ loaded' = loaded /\ Agree /\ x.row = row
    BY <1>3, <1>10 DEF Lock, rowVars, fileVars, Place
  <2> QED BY <1>1, <1>7, <1>8, <1>10, <2>1, Moves DEF Lock
<1>11. CASE Mark(t)
  <2>1. files' = files /\ loaded' = loaded /\ Agree /\ x.row = row
    BY <1>3, <1>11 DEF Mark, fileVars, Place
  <2>2. row' = [row EXCEPT !.status = "renewing"] BY <1>3, <1>4, <1>11, <2>1 DEF Mark, Writes
  <2>3. row' \in Row /\ row'.pem = row.pem BY <1>5, <2>2 DEF Row, Statuses
  <2>4. task'[t].at \in {"order", "generate", "reread"}
    <3>1. provider \in {"letsencrypt", "selfsigned", "custom"} BY CertificateAssumption DEF DataOK
    <3> QED BY <1>1, <1>4, <1>11, <3>1 DEF Mark, TaskOK, Task
  <2> QED BY <1>6, <2>1, <2>3, <2>4 DEF Place, Agree, Exists, Row
<1>12. CASE Generate(t)
  <2>1. row' = row /\ files' = files /\ loaded' = loaded /\ Agree
    BY <1>3, <1>12 DEF Generate, rowVars, fileVars, Place
  <2> QED BY <1>1, <1>3, <1>4, <1>8, <1>12, <2>1, Moves DEF Generate
<1>13. CASE Order(t)
  <2>1. row' = row /\ files' = files /\ loaded' = loaded /\ Agree
    BY <1>3, <1>13 DEF Order, rowVars, fileVars, Place
  <2>2. task'[t].at \in {"backup", "cert", "reread"}
    BY <1>1, <1>13, Moves DEF Order, TaskOK, Task
  <2> QED BY <1>8, <2>1, <2>2
<1>14. CASE BackUp(t)
  <2>1. row' = row /\ files' = files /\ loaded' = loaded /\ Agree
    BY <1>3, <1>14 DEF BackUp, rowVars, Place
  <2>2. task'[t].at = "cert" BY <1>1, <1>14 DEF BackUp, Goto, TaskOK, Task
  <2> QED BY <1>8, <2>1, <2>2
<1>15. CASE SaveCert(t)
  <2>1. row' = row /\ files' = [files EXCEPT !.cert = x.pair] /\ Goto(t, "key")
    BY <1>4, <1>15 DEF SaveCert, rowVars
  <2>2. files'.cert = x.pair BY <2>1 DEF DataOK, Files
  <2>3. task'[t].at = "key" /\ task'[t].pair = x.pair BY <1>1, <2>1, Moves
  <2> QED BY <1>3, <1>6, <2>1, <2>2, <2>3 DEF Place, Exists
<1>16. CASE SaveKey(t)
  <2>1. files.cert = x.pair /\ x.pair \in Pairs BY <1>3, <1>16 DEF SaveKey, Place, Route
  <2>2. files # NoFiles BY <2>1, CertificateAssumption DEF Pairs, NoFiles, None
  <2>3. row' = row /\ files' = [files EXCEPT !.key = x.pair] /\ Goto(t, "update")
    BY <1>4, <1>16, <2>2 DEF SaveKey, rowVars
  <2>4. files' = [cert |-> x.pair, key |-> x.pair] BY <2>1, <2>3 DEF DataOK, Files
  <2>5. task'[t].at = "update" /\ task'[t].pair = x.pair BY <1>1, <2>3, Moves
  <2> QED BY <1>3, <1>6, <2>3, <2>4, <2>5 DEF Place, Exists
<1>17. CASE Restore(t) BY <1>3, <1>17 DEF Restore, Place
<1>18. CASE Update(t)
  <2>1. files = [cert |-> x.pair, key |-> x.pair] /\ x.pair \in Pairs
    BY <1>3, <1>18 DEF Update, Place, Route
  <2>2. row' = [status |-> "issued", saved |-> TRUE, pem |-> IF x.op = "upload" THEN None ELSE x.pair]
        /\ files' = files
    BY <1>3, <1>4, <1>18 DEF Update, Writes
  <2>3. row' \in Row BY <2>1, <2>2 DEF Row, Statuses
  <2>4. CASE x.op = "upload"
    <3>1. task'[t] = Idle BY <1>1, <1>4, <1>18, <2>4, Moves DEF Update
    <3>2. AtRest' BY <2>2, <2>4 DEF AtRest, Agree, Deleted, NoRow
    <3> QED BY <1>2, <3>1, <3>2, CleanCombine DEF Rest
  <2>5. CASE x.op # "upload"
    <3>1. Goto(t, "notify") BY <1>4, <1>18, <2>5 DEF Update
    <3>2. task'[t].at = "notify" /\ task'[t].pair = x.pair BY <1>1, <3>1, Moves
    <3>3. Exists' BY <2>3 DEF Exists, Row, Statuses, Pairs
    <3> QED BY <1>6, <2>1, <2>2, <2>5, <3>2, <3>3 DEF Place
  <2> QED BY <2>4, <2>5
<1>19. CASE Notify(t)
  <2>1. files = [cert |-> x.pair, key |-> x.pair] /\ x.pair \in Pairs /\ row.pem = x.pair
    BY <1>3, <1>19 DEF Notify, Place, Route
  <2>2. row' = row /\ files' = files /\ (Fits(files) => loaded' = x.pair) /\ Done(t)
    BY <1>4, <1>19, <2>1 DEF Notify, rowVars
  <2>3. Agree' /\ AtRest' BY <1>5, <2>1, <2>2 DEF AtRest, Agree
  <2>4. CASE task'[t] = Idle BY <1>2, <2>3, <2>4, CleanCombine DEF Rest
  <2>5. CASE task'[t].at = "release" BY <1>3, <1>6, <2>2, <2>3, <2>5 DEF Place, Exists
  <2> QED BY <1>1, <2>2, <2>4, <2>5, Moves
<1>20. CASE Reread(t)
  <2>1. row' = row /\ files' = files /\ loaded' = loaded /\ Agree
    BY <1>3, <1>20 DEF Reread, rowVars, Place
  <2>2. CASE Done(t) BY <1>7, <2>1, <2>2
  <2>3. CASE task' = [task EXCEPT ![t].at = "giveBack", ![t].row = row]
    <3>1. task'[t].at = "giveBack" /\ task'[t].row = row BY <1>1, <2>3 DEF TaskOK, Task
    <3> QED BY <1>3, <1>6, <2>1, <3>1 DEF Place, Agree, Exists
  <2> QED BY <1>20, <2>2, <2>3 DEF Reread
<1>21. CASE GiveBack(t)
  <2>1. files' = files /\ loaded' = loaded /\ Agree /\ x.row = row /\ Done(t)
    BY <1>3, <1>21 DEF GiveBack, Place
  <2>2. row' = [row EXCEPT !.status = FailedStatus(t)] BY <1>3, <1>4, <1>21, <2>1 DEF GiveBack, Writes
  <2>3. FailedStatus(t) \in Statuses BY DEF FailedStatus, Statuses
  <2>4. row' \in Row /\ row'.pem = row.pem BY <1>5, <2>2, <2>3 DEF Row
  <2>5. Exists' /\ row' # Deleted BY <2>4 DEF Exists, Row, Statuses, Deleted, Pairs
  <2>6. Agree' /\ AtRest' BY <2>1, <2>4, <2>5 DEF AtRest, Agree
  <2>7. CASE task'[t] = Idle BY <1>2, <2>6, <2>7, CleanCombine DEF Rest
  <2>8. CASE task'[t].at = "release" BY <1>6, <2>5, <2>6, <2>8 DEF Place
  <2> QED BY <1>1, <2>1, <2>7, <2>8, Moves
<1>22. CASE Release(t)
  <2>1. row' = row /\ files' = files /\ loaded' = loaded /\ Agree /\ Ends(t)
    BY <1>3, <1>22 DEF Release, rowVars, fileVars, Place
  <2> QED BY <1>7, <2>1
<1>23. CASE List(t)
  <2>1. row' = row /\ files' = files /\ loaded' = loaded /\ Agree
    BY <1>3, <1>23 DEF List, rowVars, fileVars, Place
  <2>2. CASE row.status = "error"
    <3>1. task'[t].at = "remove" BY <1>1, <1>23, <2>2, Moves DEF List
    <3> QED BY <1>3, <1>6, <2>1, <2>2, <3>1 DEF Place, Agree, Exists
  <2>3. CASE row.status # "error" /\ x.op # "delete"
    <3>1. task'[t].at = "drop" /\ task'[t].op # "delete" BY <1>1, <1>23, <2>3, Moves DEF List
    <3> QED BY <1>3, <1>6, <2>1, <2>3, <3>1 DEF Place, Agree, Exists
  <2>4. x.op # "delete" BY <1>3, <1>23 DEF List, Route
  <2> QED BY <2>2, <2>3, <2>4
<1>24. CASE Remove(t)
  <2>1. row' = row /\ files' = NoFiles BY <1>4, <1>24 DEF Remove, rowVars
  <2>2. x.op = "delete" \/ row.status = "error" BY <1>3, <1>24 DEF Remove, Place
  <2>3. task'[t].at = "drop" /\ task'[t].op = x.op BY <1>1, <1>24, Moves DEF Remove
  <2> QED BY <1>3, <1>6, <2>1, <2>2, <2>3 DEF Place, Exists
<1>25. CASE Drop(t)
  <2>1. files' = files /\ loaded' = loaded /\ Ends(t) BY <1>25 DEF Drop, fileVars
  <2>2. row' = IF x.op = "delete" \/ row.status = "error" THEN Deleted ELSE row
    BY <1>3, <1>25 DEF Drop
  <2>3. \/ files = NoFiles /\ (x.op = "delete" \/ row.status = "error")
        \/ Agree /\ x.op # "delete" /\ row.status # "error"
    BY <1>3, <1>25 DEF Drop, Place
  <2>4. AtRest'
    <3>1. Deleted.pem = None BY DEF Deleted, NoRow
    <3> QED BY <1>5, <2>1, <2>2, <2>3, <3>1 DEF AtRest, Agree
  <2>5. task'[t] = Idle BY <1>1, <2>1, Moves
  <2> QED BY <1>2, <2>4, <2>5, CleanCombine DEF Rest
<1> QED BY <1>9, <1>10, <1>11, <1>12, <1>13, <1>14, <1>15, <1>16, <1>17, <1>18, <1>19, <1>20, <1>21,
           <1>22, <1>23, <1>24, <1>25 DEF Step

\* A task that begins when no other is at work.
LEMMA CleanStep ==
  TaskOK /\ DataOK /\ RouteInv /\ CleanInv /\ [Next]_vars => CleanInv'
<1> SUFFICES ASSUME TaskOK, DataOK, RouteInv, CleanInv, [Next]_vars, alone', faults' = 0
             PROVE  CleanInv'
  BY DEF CleanInv
<1>1. alone /\ faults = 0 BY WasClean
<1>0. provider' = provider BY SameProvider
<1> USE <1>0 DEF Fits, Whole
<1>2. ASSUME NEW t \in Tasks, NEW op, NEW s, NEW p, Begins(t, op, s, p)
      PROVE  /\ \A u \in Tasks \ {t} : task[u] = Idle /\ task'[u] = task[u]
             /\ AtRest /\ files' = files /\ loaded' = loaded
             /\ task'[t].op = op /\ task'[t].at = s
  <2>1. AtWork = {} BY <1>2 DEF Begins
  <2>2. \A u \in Tasks : task[u] = Idle BY <2>1 DEF AtWork
  <2>3. AtRest BY <1>1, <2>1 DEF CleanInv, Quiet
  <2>4. files' = files /\ loaded' = loaded BY <1>2 DEF Begins, fileVars
  <2>5. /\ task'[t].op = op /\ task'[t].at = s
        /\ \A u \in Tasks \ {t} : task'[u] = task[u]
    BY <1>2, NewTask
  <2> QED BY <2>2, <2>3, <2>4, <2>5
<1>3. ASSUME NEW t \in Tasks, NEW s \in Steps, task'[t].at = s, Place(t)',
             \A u \in Tasks \ {t} : task[u] = Idle /\ task'[u] = task[u]
      PROVE  CleanInv'
  <2>1. task'[t] # Idle BY <1>3 DEF Idle, Steps
  <2> QED BY <1>3, <2>1 DEF CleanInv, AtWork, Quiet
<1>4. ASSUME NEW t \in Tasks, Create(t) PROVE CleanInv'
  <2>1. Begins(t, "obtain", "read", None) BY <1>4 DEF Create
  <2>2. row' \in Row /\ row'.pem = None BY <1>4 DEF Create, Row, Statuses
  <2>3. Exists' BY <2>2 DEF Exists, Row, Statuses, Pairs
  <2>4. Place(t)' BY <1>2, <2>1, <2>2, <2>3 DEF Place, Agree
  <2> QED BY <1>2, <1>3, <2>1, <2>4 DEF Steps
<1>5. ASSUME NEW t \in Tasks, UploadCustom(t) PROVE CleanInv'
  <2>1. Begins(t, "upload", "cert", made') BY <1>5 DEF UploadCustom
  <2>2. row' \in Row BY <1>5, CertificateAssumption DEF UploadCustom, Row, Statuses, DataOK, Pairs
  <2>3. Exists' BY <2>2 DEF Exists, Row, Statuses, Pairs
  <2>4. Place(t)' BY <1>2, <2>1, <2>3 DEF Place
  <2> QED BY <1>2, <1>3, <2>1, <2>4 DEF Steps
<1>6. ASSUME NEW t \in Tasks, NEW op \in {"renew", "replace"}, Start(t, op) PROVE CleanInv'
  <2>1. Begins(t, op, "read", IF op = "replace" THEN made' ELSE None) /\ Exists /\ row' = row
    BY <1>6 DEF Start
  <2>2. Place(t)' BY <1>2, <2>1 DEF Place, AtRest, Agree, Exists
  <2> QED BY <1>2, <1>3, <2>1, <2>2 DEF Steps
<1>7. ASSUME NEW t \in Tasks, NEW op \in {"delete", "deleteErrors"}, StartDelete(t, op)
      PROVE  CleanInv'
  <2>1. Begins(t, op, IF op = "delete" THEN "remove" ELSE "list", None) /\ Exists /\ row' = row
    BY <1>7 DEF StartDelete
  <2>2. Place(t)' BY <1>2, <2>1 DEF Place, AtRest, Agree, Exists
  <2> QED BY <1>2, <1>3, <2>1, <2>2 DEF Steps
<1>8. ASSUME NEW t \in Tasks, Step(t) PROVE CleanInv' BY <1>1, <1>8, CleanStepOf
<1>9. CASE Expire \/ UNCHANGED vars
  <2>1. UNCHANGED <<row, files, loaded, task>>
    BY <1>9 DEF Expire, vars, rowVars, fileVars
  <2> QED BY <1>1, <2>1 DEF CleanInv, AtWork, Quiet, AtRest, Agree, Place, Exists
<1>10. ~Crash
  <2>1. faults' # faults + 1 BY <1>1 DEF DataOK
  <2> QED BY <2>1 DEF Crash
<1> QED BY <1>4, <1>5, <1>6, <1>7, <1>8, <1>9, <1>10 DEF Next

LEMMA InitRest == Init => RouteInv /\ CleanInv
<1> SUFFICES ASSUME Init PROVE RouteInv /\ CleanInv
  OBVIOUS
<1>1. RouteInv BY DEF Init, Idle, RouteInv, Route
<1>2. AtRest BY DEF Init, AtRest, Agree, NoRow
<1>3. CleanInv BY <1>2 DEF Init, CleanInv, AtWork
<1> QED BY <1>1, <1>3

\* The row, the files and nginx agree: whatever was created, uploaded, renewed, replaced or
\* deleted, and whatever the authority refused, as long as no two tasks overlapped and nothing
\* failed, an issued certificate is the pair in its files, and in nginx unless it was uploaded with
\* the key of another, and a deleted one has no files.
THEOREM Serves == Spec => []RowIsServed
<1>1. TaskOK /\ DataOK /\ LockOK /\ RouteInv /\ CleanInv /\ [Next]_vars
        => (TaskOK /\ DataOK /\ LockOK /\ RouteInv /\ CleanInv)'
  BY TaskStep, DataStep, LockStep, RouteStep, CleanStep
<1>2. CleanInv => RowIsServed BY DEF CleanInv, RowIsServed, AtRest, Agree
<1> QED BY <1>1, <1>2, InitType, InitRest, PTL DEF Spec

-----------------------------------------------------------------------------
(* With renewals that overlap, and one fault.                                *)
Waits(t) == task[t].at \in {"lock", "mark", "giveBack"}

\* Somebody may come to say that the certificate is issued, and its files are in place,
\* without writing them: the row, or a task that read it.  A self-signed one that failed
\* is only issued again when its files are written.
Pledged ==
  IF provider = "selfsigned"
  THEN row.saved /\ row.status = "issued"
  ELSE row.saved \/ \E t \in Tasks : Waits(t) /\ task[t].row.saved

\* The task that is writing the files, or about to remove the row of files it removed.
Unwhole(t) == \/ task[t].at \in {"key", "restore"}
              \/ task[t].at = "drop" /\ (task[t].op = "delete" \/ row.status = "error")

BackedUp(t) == task[t].had = {"cert", "key"} /\ Whole(backup)

\* While somebody has pledged whole files, a task writes them with a backup, unless there
\* will be no further fault.
Works(t) ==
  LET at == task[t].at
      op == task[t].op
      pair == task[t].pair
  IN /\ at \in {"cert", "key"} /\ Pledged => faults = MaxFaults \/ BackedUp(t)
     /\ at = "restore" => faults = MaxFaults /\ (Pledged => BackedUp(t))
     /\ at = "key" => files.cert = pair
     /\ at = "update" => Whole(files)
     /\ op \in {"obtain", "upload"} /\ at \in {"read", "order", "cert", "key", "update"} => ~row.saved
     /\ provider = "selfsigned" /\ op = "renew" /\ at \in {"generate", "order", "cert", "key", "update"}
          => row.status # "issued"
     /\ at = "remove" => op = "delete" \/ row.status = "error"

OnlyRenewals ==
  \A t, u \in Tasks : task[t] # Idle /\ task[u] # Idle =>
    t = u \/ (task[t].op = "renew" /\ task[u].op = "renew")

OrderInv ==
  orderly =>
    /\ OnlyRenewals
    /\ \A t \in Tasks : Works(t)
    /\ Pledged => Whole(files) \/ \E t \in Tasks : Unwhole(t)

\* While a task works, the others only wait to renew.
LEMMA OthersWait ==
  ASSUME TaskOK, LockOK, OrderInv, orderly, NEW t \in Tasks, task[t] # Idle,
         task[t].at \notin {"read", "lock"}, NEW u \in Tasks, u # t
  PROVE  task[u] = Idle \/ (task[u].op = "renew" /\ task[u].at \in {"read", "lock"}
                            /\ task[t].op = "renew")
<1> SUFFICES ASSUME task[u] # Idle
             PROVE  task[u].op = "renew" /\ task[u].at \in {"read", "lock"} /\ task[t].op = "renew"
  OBVIOUS
<1>1. task[t].op = "renew" /\ task[u].op = "renew" BY DEF OrderInv, OnlyRenewals
<1>2. lock = t BY <1>1 DEF LockOK, Renewing, AtWork
<1>3. task[u].at \notin {"read", "lock"} => lock = u BY <1>1 DEF LockOK, Renewing, AtWork
<1> QED BY <1>1, <1>2, <1>3

\* Nobody pledges what was not pledged before.
LEMMA PledgedBefore ==
  ASSUME NEW t \in Tasks, provider' = provider, \A u \in Tasks \ {t} : task'[u] = task[u],
         provider = "selfsigned" /\ row'.saved /\ row'.status = "issued"
           => row.saved /\ row.status = "issued",
         provider # "selfsigned" /\ row'.saved => row.saved \/ (Waits(t) /\ task[t].row.saved),
         Waits(t)' /\ task'[t].row.saved => row.saved \/ (Waits(t) /\ task[t].row.saved)
  PROVE  Pledged' => Pledged
<1> SUFFICES ASSUME Pledged' PROVE Pledged
  OBVIOUS
<1>1. CASE provider = "selfsigned" BY <1>1 DEF Pledged
<1>2. CASE provider # "selfsigned"
  <2>1. row'.saved \/ \E u \in Tasks : Waits(u)' /\ task'[u].row.saved BY <1>2 DEF Pledged
  <2>2. ASSUME NEW u \in Tasks, u # t, Waits(u)', task'[u].row.saved PROVE Pledged
    BY <1>2, <2>2 DEF Pledged, Waits
  <2>3. row.saved \/ (Waits(t) /\ task[t].row.saved) => Pledged BY <1>2 DEF Pledged
  <2> QED BY <1>2, <2>1, <2>2, <2>3
<1> QED BY <1>1, <1>2

LEMMA KeepsRenewals ==
  ASSUME TaskOK, OnlyRenewals, NEW t \in Tasks, Step(t) PROVE OnlyRenewals'
BY OneTask, KeepsOp DEF OnlyRenewals

\* What is left to show of a step of a task at work.
LEMMA OrderCombine ==
  ASSUME TaskOK, LockOK, OrderInv, orderly, NEW t \in Tasks, Step(t),
         task[t].at \notin {"read", "lock"},
         Works(t)', Pledged' => Whole(files)' \/ Unwhole(t)'
  PROVE  OrderInv'
<1>1. task[t] # Idle BY AtSteps DEF Steps, Idle
<1>2. OnlyRenewals' BY KeepsRenewals DEF OrderInv
<1>3. ASSUME NEW u \in Tasks, u # t PROVE Works(u)'
  <2>1. task[u] = Idle \/ (task[u].op = "renew" /\ task[u].at \in {"read", "lock"})
    BY <1>1, <1>3, OthersWait
  <2>2. task'[u] = task[u] BY <1>3, OneTask
  <2> QED BY <2>1, <2>2 DEF Works, Idle
<1> QED BY <1>2, <1>3 DEF OrderInv

\* The last fault there can be.
LEMMA LastFault ==
  ASSUME DataOK, MaxFaults <= 1, Fault PROVE faults < MaxFaults /\ faults' = MaxFaults
BY CertificateAssumption DEF DataOK, Fault

LEMMA NoMoreFaults == ASSUME DataOK, faults = MaxFaults PROVE ~Fault
BY CertificateAssumption DEF DataOK, Fault

\* A file could not be written: if whole files were pledged, there is a backup.
LEMMA SaveFailsOrder ==
  ASSUME TaskOK, DataOK, LockOK, OrderInv, orderly, MaxFaults <= 1,
         NEW t \in Tasks, task[t].at \in {"cert", "key"}, Step(t), SaveFails(t), Fault,
         UNCHANGED <<provider, row>>
  PROVE  OrderInv'
<1> DEFINE x == task[t]
<1>1. faults < MaxFaults /\ faults' = MaxFaults BY LastFault
<1>2. x.at \in Steps BY DEF Steps
<1>3. Works(t) /\ ~Waits(t) BY DEF OrderInv, Waits
<1>4. Pledged => BackedUp(t)
  <2>1. faults # MaxFaults BY <1>1, CertificateAssumption DEF DataOK
  <2> QED BY <1>3, <2>1 DEF Works
<1>5. CASE x.had = {}
  <2>1. Fails(t) BY <1>5 DEF SaveFails
  <2>2. task'[t] = Idle \/ task'[t].at \in {"reread", "release"} BY <1>2, <2>1, Moves DEF Fails
  <2>3. ~Waits(t)' BY <2>2 DEF Waits, Idle
  <2>4. Pledged' => Pledged BY <2>3, OneTask, PledgedBefore
  <2>5. ~Pledged BY <1>4, <1>5 DEF BackedUp
  <2>6. Works(t)' BY <2>2 DEF Works, Idle
  <2> QED BY <2>4, <2>5, <2>6, OrderCombine
<1>6. CASE x.had # {}
  <2>1. Goto(t, "restore") /\ backup' = backup BY <1>6 DEF SaveFails
  <2>2. task'[t].at = "restore" /\ task'[t].had = x.had BY <1>2, <2>1, Moves
  <2>3. ~Waits(t)' BY <2>2 DEF Waits
  <2>4. Pledged' => Pledged BY <2>3, OneTask, PledgedBefore
  <2>5. Pledged' => BackedUp(t)' BY <1>4, <2>1, <2>2, <2>4 DEF BackedUp, Whole, Pairs
  <2>6. Works(t)' BY <1>1, <2>2, <2>5 DEF Works
  <2>7. Unwhole(t)' BY <2>2 DEF Unwhole
  <2> QED BY <2>6, <2>7, OrderCombine
<1> QED BY <1>5, <1>6

\* A step of a task at work.
LEMMA OrderWork ==
  ASSUME TaskOK, DataOK, LockOK, RouteInv, OrderInv, orderly, orderly', MaxFaults <= 1,
         NEW t \in Tasks, Step(t), task[t].at \notin {"read", "lock"}
  PROVE  OrderInv'
<1> DEFINE x == task[t]
<1>1. x.at \in Steps /\ x \in Task /\ x # Idle BY AtSteps, AtWorkIsTask DEF Steps, Idle
<1>2. Works(t) /\ Route(t) BY DEF OrderInv, RouteInv
<1>3. \A u \in Tasks \ {t} : task[u] = Idle \/ (task[u].at \in {"read", "lock"} /\ x.op = "renew")
  BY <1>1, OthersWait
<1>4. provider' = provider /\ \A u \in Tasks \ {t} : task'[u] = task[u]
  BY SameProvider, OneTask DEF Next
<1>5. ~Unwhole(t) /\ Pledged => Whole(files) BY <1>3 DEF OrderInv, Unwhole, Idle
<1>6. ASSUME Pledged' => Pledged, files' = files, ~Unwhole(t), Works(t)' PROVE OrderInv'
  BY <1>5, <1>6, OrderCombine DEF Whole, Pairs
<1>7. ASSUME row' = row, ~Waits(t)' PROVE Pledged' => Pledged
  BY <1>4, <1>7, PledgedBefore
<1>8. ASSUME Ends(t) \/ Done(t) PROVE Works(t)' /\ ~Waits(t)'
  <2>1. task'[t] = Idle \/ task'[t].at = "release" BY <1>1, <1>8, Moves
  <2> QED BY <2>1 DEF Works, Waits, Idle
<1>9. ASSUME NEW s \in {"reread", "notify", "release", "list"}, Goto(t, s)
      PROVE  Works(t)' /\ ~Waits(t)'
  <2>1. task'[t].at = s BY <1>1, <1>9, Moves
  <2> QED BY <2>1 DEF Works, Waits
<1>10. ASSUME Fails(t) PROVE Works(t)' /\ ~Waits(t)' BY <1>8, <1>9, <1>10 DEF Fails
<1>11. CASE Mark(t)
  <2>1. files' = files /\ ~Unwhole(t) /\ Waits(t) BY <1>11 DEF Mark, fileVars, Unwhole, Waits
  <2>2. CASE Goto(t, "release") /\ row' = row
    BY <1>6, <1>7, <1>9, <2>1, <2>2
  <2> DEFINE new == [x.row EXCEPT !.status = "renewing"]
  <2>3. ASSUME Writes(new), NEW s, task' = [task EXCEPT ![t].row = NoRow, ![t].at = s],
               s \in {"order", "generate", "reread"}
        PROVE  OrderInv'
    <3>1. x.row \in Row \cup {NoRow} BY <1>1 DEF Task
    <3>2. new.status = "renewing" /\ new.saved = x.row.saved BY <3>1 DEF Row, NoRow
    <3> HIDE DEF new
    <3>3. row' = new \/ (row' = row /\ row \in {NoRow, Deleted})
      BY <2>3 DEF Writes, DataOK, Exists
    <3>4. NoRow.status # "issued" /\ Deleted.status # "issued" BY DEF NoRow, Deleted
    <3>5. row'.status # "issued" /\ (row'.saved => row.saved \/ x.row.saved)
      BY <3>2, <3>3, <3>4
    <3>6. x.op = "renew" BY <1>2, <1>11 DEF Mark, Route
    <3>7. task'[t].at = s /\ task'[t].op = "renew" BY <1>1, <2>3, <3>6 DEF TaskOK, Task
    <3>8. Works(t)' /\ ~Waits(t)' BY <2>3, <3>5, <3>7 DEF Works, Waits
    <3>9. Pledged' => Pledged BY <1>4, <2>1, <3>5, <3>8, PledgedBefore
    <3> QED BY <1>6, <2>1, <3>8, <3>9
  <2>4. provider \in {"letsencrypt", "selfsigned", "custom"} BY CertificateAssumption DEF DataOK
  <2>5. (CASE provider = "letsencrypt" -> "order" [] provider = "selfsigned" -> "generate"
           [] provider = "custom" -> "reread") \in {"order", "generate", "reread"}
    BY <2>4
  <2> QED BY <1>11, <2>2, <2>3, <2>5 DEF Mark
<1>12. CASE Generate(t)
  <2>1. row' = row /\ files' = files /\ ~Unwhole(t)
    BY <1>12 DEF Generate, rowVars, fileVars, Unwhole
  <2>2. ASSUME Goto(t, "order") PROVE Works(t)' /\ ~Waits(t)'
    <3>1. task'[t].at = "order" /\ task'[t].op = "renew"
      BY <1>1, <1>2, <1>12, <2>2, Moves DEF Generate, Route
    <3> QED BY <1>2, <1>4, <1>12, <2>1, <3>1 DEF Generate, Route, Works, Waits
  <2> QED BY <1>6, <1>7, <1>9, <1>12, <2>1, <2>2 DEF Generate
<1>13. CASE Order(t)
  <2>1. row' = row /\ files' = files /\ ~Unwhole(t)
    BY <1>13 DEF Order, rowVars, fileVars, Unwhole
  <2>2. ASSUME NEW s, task' = [task EXCEPT ![t].pair = made', ![t].at = s],
               s = IF x.op = "renew" /\ provider = "letsencrypt" THEN "backup" ELSE "cert"
        PROVE  Works(t)' /\ ~Waits(t)'
    <3>1. task'[t].at = s /\ task'[t].op = x.op BY <1>1, <2>2 DEF TaskOK, Task
    <3>2. ~Waits(t)' BY <2>2, <3>1 DEF Waits
    <3>3. Pledged' => Pledged BY <1>7, <2>1, <3>2
    <3>4. provider \in {"letsencrypt", "selfsigned", "custom"} BY CertificateAssumption DEF DataOK
    <3>5. CASE x.op = "obtain"
      <4>1. ~row.saved BY <1>2, <1>13, <3>5 DEF Order, Works
      <4>2. \A u \in Tasks : ~Waits(u) BY <1>3, <1>13, <3>5 DEF Order, Waits, Idle
      <4>3. ~Pledged BY <4>1, <4>2 DEF Pledged
      <4> QED BY <2>1, <2>2, <3>1, <3>2, <3>3, <3>5, <4>1, <4>3 DEF Works
    <3>6. CASE x.op = "renew" /\ provider = "letsencrypt"
      BY <2>2, <3>1, <3>2, <3>6 DEF Works
    <3>7. CASE x.op = "renew" /\ provider = "selfsigned"
      <4>1. row.status # "issued" BY <1>2, <1>13, <3>7 DEF Order, Works
      <4>2. ~Pledged BY <3>7, <4>1 DEF Pledged
      <4> QED BY <2>1, <2>2, <3>1, <3>2, <3>3, <3>7, <4>1, <4>2 DEF Works
    <3> QED BY <1>2, <1>13, <3>4, <3>5, <3>6, <3>7 DEF Order, Route
  <2>3. Works(t)' /\ ~Waits(t)' BY <1>9, <1>13, <2>2 DEF Order
  <2> QED BY <1>6, <1>7, <2>1, <2>3
<1>14. CASE BackUp(t)
  <2>1. row' = row /\ files' = files /\ ~Unwhole(t) /\ x.op \in {"renew", "replace"}
        /\ provider # "selfsigned"
    BY <1>2, <1>14 DEF BackUp, rowVars, Unwhole, Route
  <2>2. task'[t].at = "cert" /\ task'[t].op = x.op
    BY <1>1, <1>14 DEF BackUp, Goto, TaskOK, Task
  <2>3. ~Waits(t)' BY <2>2 DEF Waits
  <2>4. Pledged' => Pledged BY <1>7, <2>1, <2>3
  <2>5. Pledged => faults' = MaxFaults \/ BackedUp(t)'
    <3>1. CASE Fault BY <3>1, LastFault
    <3>2. CASE /\ backup' = Copied({"cert", "key"}, files, backup)
               /\ task' = [task EXCEPT ![t].had = {f \in {"cert", "key"} : files[f] # None},
                                       ![t].at = "cert"]
      <4> SUFFICES ASSUME Pledged PROVE BackedUp(t)'
        OBVIOUS
      <4>1. Whole(files) BY <1>5, <2>1
      <4>2. files.cert # None /\ files.key # None
        BY <4>1, CertificateAssumption DEF Whole, Pairs, None
      <4>3. {f \in {"cert", "key"} : files[f] # None} = {"cert", "key"} BY <4>2
      <4>4. task'[t].had = {"cert", "key"} BY <1>1, <3>2, <4>3 DEF TaskOK, Task
      <4>5. backup'.cert = files.cert /\ backup'.key = files.key BY <3>2, <4>2 DEF Copied
      <4>6. Whole(backup)' BY <4>1, <4>5 DEF Whole, Pairs
      <4> QED BY <4>4, <4>6 DEF BackedUp
    <3> QED BY <1>14, <3>1, <3>2 DEF BackUp
  <2>6. Works(t)' BY <1>4, <2>1, <2>2, <2>4, <2>5 DEF Works
  <2> QED BY <1>6, <2>1, <2>4, <2>6
<1>15. CASE SaveCert(t)
  <2>1. row' = row BY <1>15 DEF SaveCert, rowVars
  <2>2. CASE Fault /\ SaveFails(t) BY <1>4, <1>15, <2>1, <2>2, SaveFailsOrder DEF SaveCert
  <2>3. CASE /\ files' = [files EXCEPT !.cert = x.pair] /\ Goto(t, "key") /\ NoFault
             /\ UNCHANGED backup
    <3>1. /\ task'[t].at = "key" /\ task'[t].op = x.op /\ task'[t].pair = x.pair
          /\ task'[t].had = x.had
      BY <1>1, <2>3, Moves
    <3>2. ~Waits(t)' /\ Unwhole(t)' BY <3>1 DEF Waits, Unwhole
    <3>3. Pledged' => Pledged BY <1>7, <2>1, <3>2
    <3>4. files'.cert = x.pair /\ faults' = faults
      BY <2>3 DEF DataOK, Files, NoFault, pastVars
    <3>5. BackedUp(t) => BackedUp(t)' BY <2>3, <3>1 DEF BackedUp, Whole, Pairs
    <3>6. x.at = "cert" BY <1>15 DEF SaveCert
    <3>7. Works(t)' BY <1>2, <1>4, <2>1, <3>1, <3>3, <3>4, <3>5, <3>6 DEF Works
    <3> QED BY <3>2, <3>7, OrderCombine
  <2> QED BY <1>15, <2>2, <2>3 DEF SaveCert
<1>16. CASE SaveKey(t)
  <2>1. row' = row /\ x.at = "key" /\ files.cert = x.pair /\ x.pair \in Pairs
    BY <1>2, <1>16 DEF SaveKey, rowVars, Works, Route
  <2>2. files # NoFiles BY <2>1, CertificateAssumption DEF Pairs, NoFiles, None
  <2>3. CASE Fault /\ SaveFails(t) BY <1>4, <2>1, <2>3, SaveFailsOrder
  <2>4. CASE /\ files' = [files EXCEPT !.key = x.pair] /\ Goto(t, "update")
    <3>1. task'[t].at = "update" /\ task'[t].op = x.op BY <1>1, <2>4, Moves
    <3>2. Whole(files)'
      <4>1. files'.cert = x.pair /\ files'.key = x.pair BY <2>1, <2>4 DEF DataOK, Files
      <4> QED BY <2>1, <4>1 DEF Whole, Pairs
    <3>3. Works(t)' BY <1>2, <1>4, <2>1, <3>1, <3>2 DEF Works
    <3> QED BY <3>2, <3>3, OrderCombine
  <2> QED BY <1>16, <2>2, <2>3, <2>4 DEF SaveKey
<1>17. CASE Restore(t)
  <2>1. row' = row /\ faults = MaxFaults /\ (Pledged => BackedUp(t))
    BY <1>2, <1>17 DEF Restore, rowVars, Works
  <2>2. files' = Copied(x.had, backup, files) BY <1>17, <2>1, NoMoreFaults DEF Restore
  <2>3. Works(t)' /\ ~Waits(t)' BY <1>8, <1>9, <1>17 DEF Restore, Restored
  <2>4. Pledged' => Pledged BY <1>7, <2>1, <2>3
  <2>5. BackedUp(t) => Whole(files)'
    <3> SUFFICES ASSUME BackedUp(t) PROVE Whole(files)'
      OBVIOUS
    <3>1. x.had = {"cert", "key"} /\ Whole(backup) BY DEF BackedUp
    <3>2. backup.cert # None /\ backup.key # None
      BY <3>1, CertificateAssumption DEF Whole, Pairs, None
    <3>3. files'.cert = backup.cert /\ files'.key = backup.key BY <2>2, <3>1, <3>2 DEF Copied
    <3> QED BY <3>1, <3>3 DEF Whole, Pairs
  <2> QED BY <2>1, <2>3, <2>4, <2>5, OrderCombine
<1>18. CASE Update(t)
  <2>1. files' = files /\ Whole(files) BY <1>2, <1>18 DEF Update, Works
  <2>2. Works(t)' BY <1>8, <1>9, <1>10, <1>18 DEF Update
  <2> QED BY <2>1, <2>2, OrderCombine DEF Whole, Pairs
<1>19. CASE Notify(t)
  <2>1. row' = row /\ files' = files /\ ~Unwhole(t) /\ Done(t)
    BY <1>19 DEF Notify, rowVars, Unwhole
  <2> QED BY <1>6, <1>7, <1>8, <2>1
<1>20. CASE Reread(t)
  <2>1. row' = row /\ files' = files /\ ~Unwhole(t) BY <1>20 DEF Reread, rowVars, Unwhole
  <2>2. CASE Done(t) BY <1>6, <1>7, <1>8, <2>1, <2>2
  <2>3. CASE task' = [task EXCEPT ![t].at = "giveBack", ![t].row = row]
    <3>1. task'[t].at = "giveBack" /\ task'[t].row = row BY <1>1, <2>3 DEF TaskOK, Task
    <3>2. Works(t)' BY <3>1 DEF Works
    <3>3. Pledged' => Pledged BY <1>4, <2>1, <3>1, PledgedBefore
    <3> QED BY <1>6, <2>1, <3>2, <3>3
  <2> QED BY <1>20, <2>2, <2>3 DEF Reread
<1>21. CASE GiveBack(t)
  <2>1. files' = files /\ ~Unwhole(t) /\ Waits(t) /\ Done(t)
    BY <1>21 DEF GiveBack, Unwhole, Waits
  <2>2. x.row \in Row \cup {NoRow} BY <1>1 DEF Task
  <2> DEFINE new == [x.row EXCEPT !.status = FailedStatus(t)]
  <2>3. new.saved = x.row.saved /\ new.status = FailedStatus(t) BY <2>2 DEF Row, NoRow
  <2>4. row' = row \/ row' = new BY <1>21 DEF GiveBack, Writes
  <2> HIDE DEF new
  <2>5. provider = "selfsigned" => FailedStatus(t) = "error" BY DEF FailedStatus
  <2>6. Works(t)' /\ ~Waits(t)' BY <1>8, <2>1
  <2>7. Pledged' => Pledged BY <1>4, <2>1, <2>3, <2>4, <2>5, <2>6, PledgedBefore
  <2> QED BY <1>6, <2>1, <2>6, <2>7
<1>22. CASE Release(t)
  <2>1. row' = row /\ files' = files /\ ~Unwhole(t) /\ Ends(t)
    BY <1>22 DEF Release, rowVars, fileVars, Unwhole
  <2> QED BY <1>6, <1>7, <1>8, <2>1
<1>23. CASE List(t)
  <2>1. row' = row /\ files' = files /\ ~Unwhole(t) BY <1>23 DEF List, rowVars, fileVars, Unwhole
  <2>2. PICK s \in {"remove", "drop"} :
          Goto(t, s) /\ (s = "remove" => row.status = "error")
    BY <1>23 DEF List
  <2>3. task'[t].at = s /\ task'[t].op = "deleteErrors"
    BY <1>1, <1>2, <1>23, <2>2, Moves DEF List, Route
  <2>4. Works(t)' /\ ~Waits(t)' BY <2>1, <2>2, <2>3 DEF Works, Waits
  <2> QED BY <1>6, <1>7, <2>1, <2>4
<1>24. CASE Remove(t)
  <2>1. row' = row /\ (x.op = "delete" \/ row.status = "error")
    BY <1>2, <1>24 DEF Remove, rowVars, Works
  <2>2. task'[t].at = "drop" /\ task'[t].op = x.op BY <1>1, <1>24, Moves DEF Remove
  <2>3. Works(t)' /\ Unwhole(t)' BY <2>1, <2>2, <1>2, <1>24 DEF Works, Unwhole, Route, Remove
  <2> QED BY <2>3, OrderCombine
<1>25. CASE Drop(t)
  <2>1. files' = files /\ Ends(t) BY <1>25 DEF Drop, fileVars
  <2>2. row' = IF Exists /\ (x.op = "delete" \/ row.status = "error") THEN Deleted ELSE row
    BY <1>25 DEF Drop
  <2>3. Works(t)' /\ ~Waits(t)' BY <1>8, <2>1
  <2>4. CASE x.op # "delete" /\ row.status # "error"
    <3>1. row' = row /\ ~Unwhole(t) BY <1>25, <2>2, <2>4 DEF Unwhole, Drop
    <3> QED BY <1>6, <1>7, <2>1, <2>3, <3>1
  <2>5. CASE x.op = "delete" \/ row.status = "error"
    <3>1. row' \in {NoRow, Deleted} BY <2>2, <2>5 DEF DataOK, Exists
    <3>2. ~row'.saved BY <3>1 DEF NoRow, Deleted
    <3>3. x.op # "renew" BY <1>2, <1>25 DEF Drop, Route
    <3>4. \A u \in Tasks : ~Waits(u)' BY <1>3, <1>4, <2>3, <3>3 DEF Waits, Idle
    <3>5. ~Pledged' BY <3>2, <3>4 DEF Pledged
    <3> QED BY <2>3, <3>5, OrderCombine
  <2> QED BY <2>4, <2>5
<1>26. ~Read(t) /\ ~Lock(t) BY DEF Read, Lock
<1> QED BY <1>11, <1>12, <1>13, <1>14, <1>15, <1>16, <1>17, <1>18, <1>19, <1>20, <1>21,
           <1>22, <1>23, <1>24, <1>25, <1>26 DEF Step

\* A step of a task that reads the row, or tries the lock; others may be at work.
LEMMA OrderWait ==
  ASSUME TaskOK, DataOK, RouteInv, OrderInv, orderly, orderly', MaxFaults <= 1,
         NEW t \in Tasks, Read(t) \/ Lock(t)
  PROVE  OrderInv'
<1> DEFINE x == task[t]
<1>1. x.at \in {"read", "lock"} /\ x \in Task BY AtWorkIsTask DEF Read, Lock, Steps
<1>2. Works(t) /\ Route(t) BY DEF OrderInv, RouteInv
<1>3. Step(t) BY DEF Step
<1>4. row' = row /\ files' = files /\ backup' = backup /\ provider' = provider
  BY DEF Read, Lock, rowVars, fileVars
<1>5. \A u \in Tasks \ {t} : task'[u] = task[u] BY <1>3, OneTask
<1>6. faults = MaxFaults => faults' = MaxFaults
  BY NoMoreFaults, CertificateAssumption DEF DataOK, Read, Lock, NoFault, pastVars
<1>7. \/ task'[t].at \in {"mark", "order", "backup", "reread"} /\ task'[t].row = x.row
         /\ task'[t].op = x.op
      \/ task'[t].at = "lock" /\ task'[t].row = row /\ x.op = "renew"
      \/ task'[t] = Idle
  <2>1. task' = [task EXCEPT ![t].at = "lock", ![t].row = row]
        => task'[t].at = "lock" /\ task'[t].row = row
    BY <1>1 DEF TaskOK, Task
  <2> QED BY <1>1, <2>1, Moves DEF Read, Lock, Steps
<1>8. Waits(t)' /\ task'[t].row.saved => row.saved \/ (Waits(t) /\ x.row.saved)
  <2>1. CASE Lock(t) BY <1>4, <1>7, <2>1 DEF Waits, Idle, Lock
  <2>2. CASE Read(t)
    <3>1. task'[t].at # "mark" BY <1>1, <2>2, Moves DEF Read, Steps, TaskOK, Task
    <3> QED BY <1>7, <3>1 DEF Waits, Idle
  <2> QED BY <2>1, <2>2
<1>9. Pledged' => Pledged BY <1>4, <1>5, <1>8, PledgedBefore
<1>10. OnlyRenewals' BY <1>3, KeepsRenewals DEF OrderInv
<1>11. ASSUME NEW u \in Tasks, u # t PROVE Works(u)' /\ (Unwhole(u) => Unwhole(u)')
  <2>1. Works(u) /\ task'[u] = task[u] BY <1>5, <1>11 DEF OrderInv
  <2>2. BackedUp(u) => BackedUp(u)' BY <1>4, <2>1 DEF BackedUp, Whole, Pairs
  <2>3. Whole(files) => Whole(files)' BY <1>4 DEF Whole, Pairs
  <2> QED BY <1>4, <1>6, <1>9, <2>1, <2>2, <2>3 DEF Works, Unwhole
<1>12. Works(t)'
  <2>1. CASE task'[t] = Idle BY <2>1 DEF Works, Idle
  <2>2. CASE task'[t].at \in {"lock", "mark", "backup", "reread"} BY <2>2 DEF Works
  <2>3. CASE task'[t].at = "order"
    <3>1. x.op = "obtain" /\ x.at = "read"
      BY <1>1, <2>3, Moves DEF Read, Lock, Steps, TaskOK, Task
    <3>2. ~row.saved BY <1>2, <3>1 DEF Works
    <3>3. task'[t].op = "obtain" /\ ~row'.saved BY <1>4, <1>7, <2>3, <3>1, <3>2 DEF Idle
    <3> QED BY <2>3, <3>3 DEF Works
  <2> QED BY <1>7, <2>1, <2>2, <2>3
<1>13. ~Unwhole(t) BY <1>1 DEF Unwhole
<1>14. Pledged' => Whole(files)' \/ \E u \in Tasks : Unwhole(u)'
  BY <1>4, <1>9, <1>11, <1>13 DEF OrderInv, Whole, Pairs
<1> QED BY <1>10, <1>11, <1>12, <1>14 DEF OrderInv

\* What was orderly after a step was so before.
LEMMA WasOrderly == ASSUME [Next]_vars, orderly' PROVE orderly
BY ZenonT(40) DEF Next, Begins, Create, UploadCustom, Start, StartDelete, Step, Read, Lock, Mark, Generate,
       Order, BackUp, SaveCert, SaveKey, Restore, Update, Notify, Reread, GiveBack, Release, List,
       Remove, Drop, Expire, Crash, Fault, NoFault, pastVars, vars

\* A task that begins: alone, or a renewal beside renewals.
LEMMA OrderBegins ==
  ASSUME TaskOK, DataOK, OrderInv, orderly', NEW t \in Tasks, NEW op, NEW s, NEW p,
         Begins(t, op, s, p),
         \/ op \in {"obtain", "upload"} /\ s \in {"read", "cert"} /\ ~row'.saved
         \/ op \in {"renew", "replace"} /\ s = "read" /\ row' = row
         \/ op = "delete" /\ s = "remove" /\ row' = row
         \/ op = "deleteErrors" /\ s = "list" /\ row' = row
  PROVE  OrderInv'
<1>1. /\ task[t] = Idle /\ task'[t].op = op /\ task'[t].at = s
      /\ \A u \in Tasks \ {t} : task'[u] = task[u]
  BY NewTask
<1>2. orderly /\ \A u \in AtWork : op = "renew" /\ task[u].op = "renew" BY DEF Begins
<1>3. UNCHANGED <<provider, files, backup, faults>> BY DEF Begins, fileVars
<1>4. OnlyRenewals' BY <1>1, <1>2 DEF OrderInv, OnlyRenewals, AtWork
<1>5. ~Waits(t)' BY <1>1 DEF Waits
<1>6. CASE op \in {"obtain", "upload"} /\ ~row'.saved
  <2>1. \A u \in Tasks \ {t} : task'[u] = Idle BY <1>1, <1>2, <1>6 DEF AtWork
  <2>2. ~Pledged' BY <1>5, <1>6, <2>1 DEF Pledged, Waits, Idle
  <2>3. Works(t)' BY <1>1, <1>6, <2>2 DEF Works
  <2>4. \A u \in Tasks \ {t} : Works(u)' BY <2>1 DEF Works, Idle
  <2> QED BY <1>4, <2>2, <2>3, <2>4 DEF OrderInv
<1>7. CASE row' = row /\ op \notin {"obtain", "upload"}
  <2>1. Pledged' => Pledged BY <1>1, <1>3, <1>5, <1>7, PledgedBefore
  <2>2. ASSUME NEW u \in Tasks, u # t PROVE Works(u)' /\ (Unwhole(u) => Unwhole(u)')
    <3>1. Works(u) /\ task'[u] = task[u] BY <1>1, <1>2, <2>2 DEF OrderInv
    <3>2. BackedUp(u) => BackedUp(u)' BY <1>3, <3>1 DEF BackedUp, Whole, Pairs
    <3>3. Whole(files) => Whole(files)' BY <1>3 DEF Whole, Pairs
    <3> QED BY <1>3, <1>7, <2>1, <3>1, <3>2, <3>3 DEF Works, Unwhole
  <2>3. Works(t)' BY <1>1, <1>7 DEF Works
  <2>4. ~Unwhole(t) BY <1>1 DEF Unwhole, Idle
  <2> QED BY <1>2, <1>3, <1>4, <2>1, <2>2, <2>3, <2>4 DEF OrderInv, Whole, Pairs
<1> QED BY <1>6, <1>7

LEMMA OrderStep ==
  ASSUME MaxFaults <= 1
  PROVE  TaskOK /\ DataOK /\ LockOK /\ RouteInv /\ OrderInv /\ [Next]_vars => OrderInv'
<1> SUFFICES ASSUME TaskOK, DataOK, LockOK, RouteInv, OrderInv, [Next]_vars, orderly'
             PROVE  OrderInv'
  BY DEF OrderInv
<1>1. orderly BY WasOrderly
<1>2. ASSUME NEW t \in Tasks, Create(t) PROVE OrderInv'
  BY <1>2, OrderBegins DEF Create
<1>3. ASSUME NEW t \in Tasks, UploadCustom(t) PROVE OrderInv'
  BY <1>3, OrderBegins DEF UploadCustom
<1>4. ASSUME NEW t \in Tasks, NEW op \in {"renew", "replace"}, Start(t, op) PROVE OrderInv'
  BY <1>4, OrderBegins DEF Start
<1>5. ASSUME NEW t \in Tasks, NEW op \in {"delete", "deleteErrors"}, StartDelete(t, op)
      PROVE  OrderInv'
  BY <1>5, OrderBegins DEF StartDelete
<1>6. ASSUME NEW t \in Tasks, Step(t) PROVE OrderInv'
  <2>1. CASE task[t].at \in {"read", "lock"}
    <3>1. Read(t) \/ Lock(t)
      BY <1>6, <2>1 DEF Step, Mark, Generate, Order, BackUp, SaveCert, SaveKey, Restore, Update,
                        Notify, Reread, GiveBack, Release, List, Remove, Drop
    <3> QED BY <1>1, <3>1, OrderWait
  <2>2. CASE task[t].at \notin {"read", "lock"} BY <1>1, <1>6, <2>2, OrderWork
  <2> QED BY <2>1, <2>2
<1>7. CASE Expire \/ UNCHANGED vars
  <2>1. UNCHANGED <<provider, row, files, backup, task, faults>>
    BY <1>7 DEF Expire, vars, rowVars, fileVars, pastVars
  <2> QED BY <1>1, <2>1 DEF OrderInv, OnlyRenewals, Works, Pledged, Waits, BackedUp, Unwhole, Whole,
             Pairs
<1>8. ~Crash BY DEF Crash
<1> QED BY <1>2, <1>3, <1>4, <1>5, <1>6, <1>7, <1>8 DEF Next

LEMMA InitOrder == Init => OrderInv
BY DEF Init, OrderInv, OnlyRenewals, Works, Pledged, Waits, Idle, NoRow

\* The two files of an issued certificate came together whenever no task is at work, however
\* many renewals overlapped and wherever one statement, one write or the authority failed: the
\* backup is there when it is needed.  With a second fault the restore itself may fail.  That an
\* uploaded key is the certificate's is not claimed: the code does not check it.
THEOREM StaysWhole == MaxFaults <= 1 => (Spec => []PairIsWhole)
<1> SUFFICES ASSUME MaxFaults <= 1 PROVE Spec => []PairIsWhole
  OBVIOUS
<1>1. TaskOK /\ DataOK /\ LockOK /\ RouteInv /\ OrderInv /\ [Next]_vars
        => (TaskOK /\ DataOK /\ LockOK /\ RouteInv /\ OrderInv)'
  BY TaskStep, DataStep, LockStep, RouteStep, OrderStep
<1>2. OrderInv => PairIsWhole
  BY DEF OrderInv, PairIsWhole, Quiet, AtWork, Pledged, Unwhole, Idle
<1> QED BY <1>1, <1>2, InitType, InitRest, InitOrder, PTL DEF Spec
=============================================================================
