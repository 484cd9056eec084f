-------------------------- MODULE WebClient_proofs --------------------------
(***************************************************************************)
(* Theorems about WebClient, for any number of requests and of changes of  *)
(* the data.  What they need to know of the pages are the assumptions of   *)
(* WebClient, closed formulas about its tables, which TLC evaluates.       *)
(***************************************************************************)
EXTENDS WebClient, TLAPS

JobRow == [state : {"none", "sent", "done", "over", "failed"}, here : BOOLEAN,
           made : Versions, forHost : BOOLEAN]

\* TypeOK, by what an action touches, and what it rests on: a dialog that closes as its request
\* starts is no request's dialog.
CacheTypes ==
  /\ server \in Versions
  /\ entry \in [data : Versions \cup {NoData}, stale : BOOLEAN, crossed : BOOLEAN]
  /\ fetch \in [state : {"none", "asked", "read"}, data : Versions \cup {NoData}, crossed : BOOLEAN]
  /\ fetch.data # NoData <=> fetch.state = "read"
  /\ mounted \in BOOLEAN

FormTypes ==
  /\ own \in Versions
  /\ jobs \in [Jobs -> JobRow]
  /\ dialog \in BOOLEAN /\ \A n \in Jobs : jobs[n].here => dialog /\ InFlight(n)
  /\ edited \in BOOLEAN
  /\ edited => HasDraft(scene.control) /\ (Request.dialog => dialog)
  /\ Request.closes = "first" => \A n \in Jobs : ~jobs[n].here

SceneTypes == scene \in Scenes

LEMMA TypeParts == SceneTypes /\ CacheTypes /\ FormTypes => TypeOK
BY DEF SceneTypes, CacheTypes, FormTypes, TypeOK, Scenes, JobRow

LEMMA Bounds == MaxVersion \in Nat /\ MaxSends \in Nat /\ NoData \notin Versions /\ 0 \in Versions
BY BoundAssumption DEF NoData, Versions

LEMMA JobRecords ==
  /\ NoJob \in JobRow
  /\ \A result \in {"over", "failed"} :
       /\ Over(result) \in JobRow
       /\ Over(result).state = result /\ Over(result).here = FALSE
       /\ Over(result).made = 0 /\ Over(result).forHost = TRUE
<1>1. NoJob \in JobRow BY Bounds DEF NoJob, JobRow
<1>2. \A result \in {"over", "failed"} : Over(result) \in JobRow BY <1>1 DEF Over, JobRow
<1>3. \A result \in {"over", "failed"} :
        /\ Over(result).state = result /\ Over(result).here = FALSE
        /\ Over(result).made = 0 /\ Over(result).forHost = TRUE
  BY DEF Over, NoJob
<1> QED BY <1>1, <1>2, <1>3

\* The control and the entry are chosen once.
LEMMA SceneStays == [Next]_vars => scene' = scene
BY DEF Next, vars, Mount, Unmount, Focus, Poll, Read, Answer, FetchFails, Age, Collect, Other,
       Opens, Closes, Edit, Submit, Commit, Fails, Succeeds

\* The actions of the cache alone.
CacheStep ==
  Mount \/ Unmount \/ Focus \/ Poll \/ Read \/ FetchFails \/ Age \/ Collect \/ Other

LEMMA CacheStepLeavesForm == CacheStep => UNCHANGED formVars
BY DEF CacheStep, Mount, Unmount, Focus, Poll, Read, FetchFails, Age, Collect, Other

LEMMA FormSteps ==
  Next <=> \/ CacheStep \/ Answer \/ Opens \/ Closes \/ Edit
           \/ \E n \in Jobs : Submit(n) \/ Commit(n) \/ Fails(n) \/ Succeeds(n)
BY DEF Next, CacheStep

-----------------------------------------------------------------------------
(* Types.                                                                    *)
LEMMA InitTypes == Init => SceneTypes /\ CacheTypes /\ FormTypes
<1> SUFFICES ASSUME Init PROVE SceneTypes /\ CacheTypes /\ FormTypes
  OBVIOUS
<1>1. SceneTypes BY DEF Init, SceneTypes
<1>2. CacheTypes BY Bounds DEF Init, CacheTypes, NoEntry, NoFetch
<1>3. jobs \in [Jobs -> JobRow] /\ \A n \in Jobs : ~jobs[n].here
  BY Bounds DEF Init, NoJob, JobRow
<1>4. FormTypes BY <1>3, Bounds DEF Init, FormTypes
<1> QED BY <1>1, <1>2, <1>4

LEMMA InvalidateTypes ==
  ASSUME CacheTypes, Invalidate
  PROVE  /\ entry' \in [data : Versions \cup {NoData}, stale : BOOLEAN, crossed : BOOLEAN]
         /\ fetch' \in [state : {"none", "asked", "read"}, data : Versions \cup {NoData}, crossed : BOOLEAN]
         /\ fetch'.data # NoData <=> fetch'.state = "read"
BY DEF CacheTypes, Invalidate, Asked, NoFetch

LEMMA CacheTypesStep == CacheTypes /\ [Next]_vars => CacheTypes'
<1> SUFFICES ASSUME CacheTypes, [Next]_vars PROVE CacheTypes'
  OBVIOUS
<1> USE Bounds DEF CacheTypes
<1>1. CASE CacheStep
  <2>1. CASE Mount BY <2>1 DEF Mount, Asked, NoFetch
  <2>2. CASE Unmount BY <2>2 DEF Unmount
  <2>3. CASE Focus BY <2>3 DEF Focus, Asked, NoFetch
  <2>4. CASE Poll BY <2>4 DEF Poll, Asked, NoFetch
  <2>5. CASE Read BY <2>5 DEF Read
  <2>6. CASE FetchFails BY <2>6 DEF FetchFails, NoFetch
  <2>7. CASE Age BY <2>7 DEF Age
  <2>8. CASE Collect BY <2>8 DEF Collect, NoEntry
  <2>9. CASE Other BY <2>9 DEF Other, Versions
  <2> QED BY <1>1, <2>1, <2>2, <2>3, <2>4, <2>5, <2>6, <2>7, <2>8, <2>9 DEF CacheStep
<1>2. CASE Answer BY <1>2 DEF Answer, NoFetch
<1>3. CASE Opens \/ Closes \/ Edit BY <1>3 DEF Opens, Closes, Edit, cacheVars
<1>4. ASSUME NEW n \in Jobs, Submit(n) \/ Fails(n) PROVE CacheTypes'
  BY <1>4 DEF Submit, Fails, cacheVars
<1>5. ASSUME NEW n \in Jobs, Commit(n) PROVE CacheTypes'
  BY <1>5 DEF Commit, Versions
<1>6. ASSUME NEW n \in Jobs, Succeeds(n) PROVE CacheTypes'
  <2>1. CASE Invalidates BY <1>6, <2>1, InvalidateTypes DEF Succeeds
  <2>2. CASE ~Invalidates BY <1>6, <2>2 DEF Succeeds
  <2> QED BY <2>1, <2>2
<1>7. CASE UNCHANGED vars BY <1>7 DEF vars, cacheVars
<1> QED BY <1>1, <1>2, <1>3, <1>4, <1>5, <1>6, <1>7, FormSteps

LEMMA ElsewhereTypes ==
  ASSUME jobs \in [Jobs -> JobRow]
  PROVE  /\ Elsewhere \in [Jobs -> JobRow]
         /\ \A n \in Jobs : /\ ~Elsewhere[n].here
                            /\ Elsewhere[n].state = jobs[n].state
                            /\ Elsewhere[n].made = jobs[n].made
                            /\ Elsewhere[n].forHost = jobs[n].forHost
BY DEF Elsewhere, JobRow

\* What the answer to request n leaves of the others.
LEMMA AfterSuccess ==
  ASSUME jobs \in [Jobs -> JobRow], NEW n \in Jobs, Succeeds(n)
  PROVE  /\ jobs' \in [Jobs -> JobRow]
         /\ jobs'[n] = Over("over")
         /\ \A m \in Jobs \ {n} :
              /\ jobs'[m].state = jobs[m].state
              /\ jobs'[m].made = jobs[m].made
              /\ jobs'[m].forHost = jobs[m].forHost
              /\ jobs'[m].here = (dialog' /\ jobs[m].here)
<1>1. CASE dialog'
  <2>1. jobs' = [jobs EXCEPT ![n] = Over("over")] BY <1>1 DEF Succeeds
  <2> QED BY <1>1, <2>1, JobRecords DEF JobRow
<1>2. CASE ~dialog'
  <2>1. jobs' = [Elsewhere EXCEPT ![n] = Over("over")] BY <1>2 DEF Succeeds
  <2>2. \A m \in Jobs : jobs[m] \in JobRow /\ Elsewhere[m] \in JobRow BY ElsewhereTypes
  <2> QED BY <1>2, <2>1, <2>2, ElsewhereTypes, JobRecords DEF JobRow
<1> QED BY <1>1, <1>2

LEMMA FormTypesStep == CacheTypes /\ FormTypes /\ [Next]_vars => FormTypes'
<1> SUFFICES ASSUME CacheTypes, FormTypes, [Next]_vars PROVE FormTypes'
  OBVIOUS
<1>0. scene' = scene BY SceneStays
<1> USE <1>0, Bounds DEF FormTypes, Request, InFlight
<1>1. CASE CacheStep BY <1>1, CacheStepLeavesForm DEF formVars
<1>2. CASE Answer BY <1>2 DEF Answer
<1>3. CASE Opens BY <1>3 DEF Opens
<1>4. CASE Closes BY <1>4, ElsewhereTypes DEF Closes
<1>5. CASE Edit BY <1>5 DEF Edit
<1>6. ASSUME NEW n \in Jobs, Submit(n) PROVE FormTypes'
  <2>1. dialog' \in BOOLEAN /\ edited' \in BOOLEAN /\ own' = own BY <1>6 DEF Submit
  <2>2. jobs[n].here = FALSE BY <1>6 DEF Submit, NoJob
  <2>3. jobs'[n] \in JobRow /\ jobs'[n].state = "sent" /\ jobs'[n].here = dialog'
    BY <1>6, <2>1 DEF Submit, JobRow
  <2>4. jobs' \in [Jobs -> JobRow] /\ \A m \in Jobs \ {n} : jobs'[m] = jobs[m]
    BY <1>6, <2>3 DEF Submit
  <2>5. ASSUME NEW m \in Jobs, m # n, jobs[m].here PROVE dialog'
    BY <1>6, <2>5 DEF Submit
  <2>6. edited' => HasDraft(scene.control) /\ (Request.dialog => dialog') BY <1>6 DEF Submit
  <2>7. Request.closes = "first" => ~dialog' BY <1>6 DEF Submit
  <2> QED BY <2>1, <2>3, <2>4, <2>5, <2>6, <2>7
<1>7. ASSUME NEW n \in Jobs, Commit(n) PROVE FormTypes'
  <2>1. server' \in Versions BY <1>7 DEF Commit, Versions, CacheTypes
  <2>2. jobs' \in [Jobs -> JobRow] /\ \A m \in Jobs : jobs'[m].here = jobs[m].here
    BY <1>7, <2>1 DEF Commit, JobRow
  <2>3. \A m \in Jobs : InFlight(m)' = InFlight(m) BY <1>7 DEF Commit, JobRow
  <2> QED BY <1>7, <2>2, <2>3 DEF Commit
<1>8. ASSUME NEW n \in Jobs, Fails(n) PROVE FormTypes'
  BY <1>8, JobRecords DEF Fails
<1>9. ASSUME NEW n \in Jobs, Succeeds(n) PROVE FormTypes'
  <2>1. dialog' \in BOOLEAN /\ edited' \in BOOLEAN BY <1>9 DEF Succeeds
  <2>2. own' \in Versions BY <1>9 DEF Succeeds, JobRow
  <2>3. edited' => HasDraft(scene.control) /\ (Request.dialog => dialog')
    BY <1>9 DEF Succeeds
  <2>4. jobs' \in [Jobs -> JobRow] BY <1>9, AfterSuccess
  <2>5. ~jobs'[n].here BY <1>9, AfterSuccess, JobRecords
  <2>6. ASSUME NEW m \in Jobs, jobs'[m].here PROVE dialog' /\ InFlight(m)' /\ Request.closes # "first"
    <3>1. m # n BY <2>5, <2>6
    <3>2. jobs'[m].here = (dialog' /\ jobs[m].here) /\ jobs'[m].state = jobs[m].state
      BY <1>9, <3>1, AfterSuccess
    <3> QED BY <2>6, <3>2
  <2> QED BY <2>1, <2>2, <2>3, <2>4, <2>6
<1>10. CASE UNCHANGED vars BY <1>10 DEF vars, formVars
<1> QED BY <1>1, <1>2, <1>3, <1>4, <1>5, <1>6, <1>7, <1>8, <1>9, <1>10, FormSteps

\* The invariant of the types.
Types == SceneTypes /\ CacheTypes /\ FormTypes

LEMMA TypesStep == Types /\ [Next]_vars => Types'
BY CacheTypesStep, FormTypesStep, SceneStays DEF Types, SceneTypes

LEMMA TypesHold == Spec => []Types
<1>1. Init => Types BY InitTypes DEF Types
<1> QED BY <1>1, TypesStep, PTL DEF Spec

\* TypeOK for every control and entry: only the dialog that is open has requests of its own, only
\* an open dialog has a draft, and a fetch has a version exactly when the server has read.
THEOREM TypeCorrect == Spec => []TypeOK
<1>1. Types => TypeOK BY TypeParts DEF Types
<1> QED BY <1>1, TypesHold, PTL

-----------------------------------------------------------------------------
(* What a page sees of its own changes.                                      *)

\* No request knows of a later version than the server; one that does not write the entry knows
\* of none; and what a fetch brings that no change has crossed is no older than the last change.
OwnInv ==
  /\ own <= server /\ \A n \in Jobs : jobs[n].made <= server
  /\ ~WritesIt => own = 0 /\ \A n \in Jobs : jobs[n].made = 0
  /\ ~NotRefreshed /\ fetch.state = "read" /\ ~fetch.crossed => own <= fetch.data
  /\ OwnWritesShown

\* Who writes the entry and is not one of the exceptions refreshes it.
LEMMA Refreshing == Types /\ WritesIt => Invalidates \/ NotRefreshed
BY RefreshAssumption DEF Types, SceneTypes, WritesIt, Invalidates, NotRefreshed

LEMMA OwnStep == Types /\ OwnInv /\ [Next]_vars => OwnInv'
<1> SUFFICES ASSUME Types, OwnInv, [Next]_vars PROVE OwnInv'
  OBVIOUS
<1>0. scene' = scene BY SceneStays
<1>a. /\ server \in Nat /\ own \in Nat /\ \A n \in Jobs : jobs[n] \in JobRow /\ jobs[n].made \in Nat
      /\ entry.data \in Nat /\ fetch.data \in Nat
  BY Bounds DEF Types, CacheTypes, FormTypes, Versions, NoData, JobRow
<1>b. WritesIt' = WritesIt /\ NotRefreshed' = NotRefreshed
  BY <1>0 DEF WritesIt, NotRefreshed
<1> USE <1>a, <1>b DEF OwnInv, OwnWritesShown
<1>1. CASE CacheStep
  <2>0. own' = own /\ jobs' = jobs BY <1>1, CacheStepLeavesForm DEF formVars
  <2> USE <2>0
  <2>1. CASE Mount BY <2>1 DEF Mount, Asked, NoFetch
  <2>2. CASE Unmount BY <2>2 DEF Unmount
  <2>3. CASE Focus BY <2>3 DEF Focus, Asked, NoFetch
  <2>4. CASE Poll BY <2>4 DEF Poll, Asked, NoFetch
  <2>5. CASE Read BY <2>5 DEF Read, Types, CacheTypes
  <2>6. CASE FetchFails BY <2>6 DEF FetchFails, NoFetch
  <2>7. CASE Age BY <2>7 DEF Age, Types, CacheTypes
  <2>8. CASE Collect BY <2>8 DEF Collect, NoEntry
  <2>9. CASE Other BY <2>9 DEF Other
  <2> QED BY <1>1, <2>1, <2>2, <2>3, <2>4, <2>5, <2>6, <2>7, <2>8, <2>9 DEF CacheStep
<1>2. CASE Answer BY <1>2 DEF Answer, NoFetch
<1>3. CASE Opens BY <1>3 DEF Opens, cacheVars
<1>4. CASE Closes
  <2>1. \A n \in Jobs : jobs'[n].made = jobs[n].made
    BY <1>4, ElsewhereTypes DEF Closes, Types, FormTypes
  <2> QED BY <1>4, <2>1 DEF Closes, cacheVars
<1>5. CASE Edit BY <1>5 DEF Edit, cacheVars
<1>6. ASSUME NEW n \in Jobs, Submit(n) PROVE OwnInv'
  <2>1. \A m \in Jobs : jobs'[m].made = jobs[m].made \/ jobs'[m].made = 0
    BY <1>6 DEF Submit, Types, FormTypes
  <2> QED BY <1>6, <2>1 DEF Submit, cacheVars
<1>7. ASSUME NEW n \in Jobs, Commit(n) PROVE OwnInv'
  <2>1. CASE WritesIt
    <3>1. server' = server + 1 /\ jobs'[n].made = server'
          /\ \A m \in Jobs \ {n} : jobs'[m] = jobs[m]
      BY <1>7, <2>1 DEF Commit, Types, FormTypes, JobRow
    <3> QED BY <1>7, <2>1, <3>1 DEF Commit
  <2>2. CASE ~WritesIt
    <3>1. server' = server /\ \A m \in Jobs : jobs'[m].made = jobs[m].made
      BY <1>7, <2>2 DEF Commit, Types, FormTypes, JobRow
    <3> QED BY <1>7, <2>2, <3>1 DEF Commit
  <2> QED BY <2>1, <2>2
<1>8. ASSUME NEW n \in Jobs, Fails(n) PROVE OwnInv'
  <2>1. \A m \in Jobs : jobs'[m].made = jobs[m].made \/ jobs'[m].made = 0
    BY <1>8, JobRecords DEF Fails, Types, FormTypes
  <2> QED BY <1>8, <2>1 DEF Fails, cacheVars
<1>9. ASSUME NEW n \in Jobs, Succeeds(n) PROVE OwnInv'
  <2>1. \A m \in Jobs : jobs'[m].made = jobs[m].made \/ jobs'[m].made = 0
    BY <1>9, AfterSuccess, JobRecords DEF Types, FormTypes
  <2>2. server' = server /\ own' \in {own, jobs[n].made} /\ own' <= server
    BY <1>9 DEF Succeeds
  <2>3. ~WritesIt => own' = own BY <1>9 DEF Succeeds
  <2>4. CASE Invalidates
    <3>1. Invalidate BY <1>9, <2>4 DEF Succeeds
    <3>2. entry'.data = entry.data /\ (entry.data # NoData => entry'.stale)
      BY <3>1 DEF Invalidate, Types, CacheTypes
    <3>3. fetch'.state = "read" => fetch'.crossed
      BY <3>1 DEF Invalidate, Asked, NoFetch, Types, CacheTypes
    <3> QED BY <2>1, <2>2, <2>3, <3>2, <3>3
  <2>5. CASE ~Invalidates
    <3>1. UNCHANGED <<entry, fetch>> BY <1>9, <2>5 DEF Succeeds
    <3>2. ~NotRefreshed => own' = own BY <2>3, <2>5, Refreshing
    <3> QED BY <2>1, <2>2, <2>3, <3>1, <3>2
  <2> QED BY <2>4, <2>5
<1>10. CASE UNCHANGED vars BY <1>10 DEF vars, cacheVars, formVars
<1> QED BY <1>1, <1>2, <1>3, <1>4, <1>5, <1>6, <1>7, <1>8, <1>9, <1>10, FormSteps

\* OwnWritesShown: whatever is fetched, polled, given up or answered late meanwhile, and whoever
\* else changes the data, an entry that counts as fresh is no older than the last change the page
\* was told it has made.
THEOREM ShowsOwnWrites == Spec => []OwnWritesShown
<1>1. Init => OwnInv
  <2> SUFFICES ASSUME Init PROVE OwnInv
    OBVIOUS
  <2>1. \A n \in Jobs : jobs[n].made = 0 BY DEF Init, NoJob
  <2>2. entry.data = NoData /\ fetch.state = "none" BY DEF Init, NoEntry, NoFetch
  <2> QED BY <2>1, <2>2 DEF Init, OwnInv, OwnWritesShown
<1>2. OwnInv => OwnWritesShown BY DEF OwnInv
<1> QED BY <1>1, <1>2, OwnStep, TypesHold, PTL DEF Spec

-----------------------------------------------------------------------------
(* Requests of one control.                                                  *)

\* They are numbered as they are sent; an unused number is NoJob.
Numbered ==
  \A n \in Jobs : jobs[n].state = "none" =>
    jobs[n] = NoJob /\ \A m \in Jobs : n < m => jobs[m].state = "none"

\* Nothing is sent after a request in flight, whose dialog is there if the control has one of its own.
OneByOne ==
  Control \notin UsedAgain =>
    \A n \in Jobs : InFlight(n) =>
      /\ \A m \in Jobs : n < m => jobs[m].state = "none"
      /\ Request.own => jobs[n].here

\* The dialog whose answer closes the one shown belongs to the one request in flight.
OneDialog ==
  Control \notin LeftEarly /\ Request.closes = "shown" =>
    \A n \in Jobs : InFlight(n) => jobs[n].here /\ \A m \in Jobs : InFlight(m) => m = n

\* What the assumptions say of the control.
LEMMA ControlKeeps ==
  ASSUME Types
  PROVE  /\ Control \notin UsedAgain =>
              ~Request.again /\ (Request.own => Request.held /\ Request.dialog /\ Request.closes # "first")
         /\ Control \notin LeftEarly /\ Request.closes = "shown" =>
              Request.held /\ Request.dialog /\ ~Request.again
         /\ Control \notin FilledAnew /\ HasDraft(scene.control) => ~Draft.drops
         /\ Request.within = Query.key => Request.waits \/ Control \in BanForms
<1>1. scene \in Scenes /\ scene.control \in Controls BY DEF Types, SceneTypes, Scenes
<1> QED BY <1>1, DisabledAssumption, HeldAssumption, DraftAssumption, HostAssumption
        DEF Control, Request, Draft, Query

LEMMA Flight ==
  ASSUME FormTypes
  PROVE  \A n \in Jobs : jobs[n] \in JobRow /\ (jobs[n] = NoJob => jobs[n].state = "none" /\ ~InFlight(n))
BY DEF FormTypes, NoJob, InFlight

\* What an action may do to the jobs.
LEMMA JobsStep ==
  ASSUME Types, Numbered, [Next]_vars
  PROVE  \/ UNCHANGED <<jobs, dialog>>
         \/ UNCHANGED jobs /\ dialog'
         \/ Closes
         \/ \E n \in Jobs : Submit(n) \/ Commit(n) \/ Fails(n) \/ Succeeds(n)
<1>1. CASE CacheStep BY <1>1, CacheStepLeavesForm DEF formVars
<1>2. CASE Answer \/ Opens \/ Edit BY <1>2 DEF Answer, Opens, Edit
<1>3. CASE UNCHANGED vars BY <1>3 DEF vars, formVars
<1> QED BY <1>1, <1>2, <1>3, FormSteps

LEMMA NumberedStep == Types /\ Numbered /\ [Next]_vars => Numbered'
<1> SUFFICES ASSUME Types, Numbered, [Next]_vars PROVE Numbered'
  OBVIOUS
<1>a. jobs \in [Jobs -> JobRow] /\ jobs' \in [Jobs -> JobRow]
  BY TypesStep DEF Types, FormTypes
<1>b. Jobs \subseteq Nat BY Bounds DEF Jobs
<1> USE <1>b DEF Numbered
<1>1. CASE UNCHANGED jobs BY <1>1
<1>2. CASE Closes
  <2>1. jobs' = Elsewhere BY <1>2 DEF Closes
  <2>2. ASSUME NEW n \in Jobs, jobs[n] = NoJob PROVE jobs'[n] = NoJob
    <3>1. jobs'[n] = [NoJob EXCEPT !.here = FALSE] BY <2>1, <2>2 DEF Elsewhere
    <3> QED BY <3>1 DEF NoJob
  <2> QED BY <1>a, <2>1, <2>2, ElsewhereTypes
<1>3. ASSUME NEW n \in Jobs, Submit(n) PROVE Numbered'
  <2>1. jobs'[n].state = "sent" /\ \A m \in Jobs \ {n} : jobs'[m] = jobs[m]
    BY <1>3, <1>a DEF Submit
  <2>2. jobs[n].state = "none" BY <1>3 DEF Submit, NoJob
  <2>3. ASSUME NEW m \in Jobs, m < n PROVE jobs[m].state # "none"
    <3>1. n - 1 \in Jobs /\ (m = n - 1 \/ m < n - 1) BY <2>3, Bounds DEF Jobs
    <3>2. jobs[n - 1].state # "none" BY <1>3, <2>3, <3>1 DEF Submit, Jobs
    <3> QED BY <3>1, <3>2
  <2> QED BY <2>1, <2>2, <2>3
<1>4. ASSUME NEW n \in Jobs, Commit(n) \/ Fails(n) PROVE Numbered'
  <2>1. jobs[n].state # "none" BY <1>4 DEF Commit, Fails, InFlight
  <2>2. jobs'[n].state # "none" /\ \A m \in Jobs \ {n} : jobs'[m] = jobs[m]
    <3>1. CASE Commit(n) BY <1>a, <3>1 DEF Commit, JobRow
    <3>2. CASE Fails(n) BY <1>a, <3>2, JobRecords DEF Fails
    <3> QED BY <1>4, <3>1, <3>2
  <2> QED BY <2>1, <2>2
<1>5. ASSUME NEW n \in Jobs, Succeeds(n) PROVE Numbered'
  <2>1. jobs[n].state = "done" BY <1>5 DEF Succeeds
  <2>2. jobs'[n].state = "over" BY <1>5, <1>a, AfterSuccess, JobRecords
  <2>3. \A m \in Jobs \ {n} : jobs'[m].state = jobs[m].state BY <1>5, <1>a, AfterSuccess
  <2>4. ASSUME NEW m \in Jobs, m # n, jobs[m] = NoJob PROVE jobs'[m] = NoJob
    <3>1. CASE dialog' BY <1>5, <2>4, <3>1 DEF Succeeds
    <3>2. CASE ~dialog'
      <4>1. jobs'[m] = [NoJob EXCEPT !.here = FALSE] BY <1>5, <2>4, <3>2 DEF Succeeds, Elsewhere
      <4> QED BY <4>1 DEF NoJob
    <3> QED BY <3>1, <3>2
  <2> QED BY <2>1, <2>2, <2>3, <2>4
<1> QED BY <1>1, <1>2, <1>3, <1>4, <1>5, JobsStep

\* A control that keeps to its discipline is used when nothing is in flight.
LEMMA NothingInFlight ==
  ASSUME Types, NEW n \in Jobs, Submit(n),
         ~Request.again, \A m \in Jobs : InFlight(m) /\ Request.own => jobs[m].here
  PROVE  \A m \in Jobs : ~InFlight(m)
BY DEF Submit, Enabled, Types, FormTypes

\* A dialog that is held stays while one of its requests is in flight.
LEMMA HeldStays ==
  ASSUME Types, Closes, Request.held
  PROVE  \A m \in Jobs : ~jobs[m].here
BY DEF Closes

\* Which requests are in flight after a step.
LEMMA InFlightStep ==
  ASSUME Types, NEW n \in Jobs, Commit(n) \/ Fails(n) \/ Succeeds(n)
  PROVE  /\ InFlight(n) /\ jobs'[n].state # "none"
         /\ \A m \in Jobs : /\ InFlight(m)' => InFlight(m)
                            /\ m # n => jobs'[m].state = jobs[m].state
         /\ ~Succeeds(n) => \A m \in Jobs : InFlight(m)' => jobs'[m].here = jobs[m].here
         /\ Succeeds(n) => ~InFlight(n)'
<1>a. jobs \in [Jobs -> JobRow] BY DEF Types, FormTypes
<1>1. CASE Commit(n) BY <1>a, <1>1 DEF Commit, InFlight, JobRow, Succeeds
<1>2. CASE Fails(n)
  <2>1. jobs'[n].state = "failed" /\ \A m \in Jobs \ {n} : jobs'[m] = jobs[m]
    BY <1>a, <1>2, JobRecords DEF Fails
  <2>2. ~Succeeds(n)
    <3>1. Succeeds(n) => jobs'[n].state = "over" BY <1>a, AfterSuccess, JobRecords
    <3> QED BY <2>1, <3>1
  <2> QED BY <1>2, <2>1, <2>2 DEF Fails, InFlight
<1>3. CASE Succeeds(n)
  <2>1. jobs'[n].state = "over" BY <1>a, <1>3, AfterSuccess, JobRecords
  <2>2. \A m \in Jobs \ {n} : jobs'[m].state = jobs[m].state BY <1>a, <1>3, AfterSuccess
  <2> QED BY <1>3, <2>1, <2>2 DEF Succeeds, InFlight
<1> QED BY <1>1, <1>2, <1>3

LEMMA OneByOneStep == Types /\ Numbered /\ OneByOne /\ [Next]_vars => OneByOne'
<1> SUFFICES ASSUME Types, Numbered, OneByOne, [Next]_vars, Control \notin UsedAgain PROVE OneByOne'
  BY SceneStays DEF OneByOne, Control
<1>0. scene' = scene BY SceneStays
<1>a. ~Request.again /\ (Request.own => Request.held /\ Request.dialog /\ Request.closes # "first")
  BY ControlKeeps
<1>b. Jobs \subseteq Nat /\ jobs \in [Jobs -> JobRow] BY Bounds DEF Jobs, Types, FormTypes
<1> USE <1>0, <1>b DEF OneByOne, Request
<1>1. CASE UNCHANGED jobs BY <1>1 DEF InFlight
<1>2. CASE Closes
  <2>1. Request.own => \A m \in Jobs : ~InFlight(m) BY <1>2, <1>a, HeldStays
  <2>2. \A m \in Jobs : jobs'[m].state = jobs[m].state BY <1>2, ElsewhereTypes DEF Closes
  <2> QED BY <2>1, <2>2 DEF InFlight
<1>3. ASSUME NEW n \in Jobs, Submit(n) PROVE OneByOne'
  <2>1. \A m \in Jobs : ~InFlight(m) BY <1>3, <1>a, NothingInFlight
  <2>2. \A m \in Jobs \ {n} : jobs'[m] = jobs[m] BY <1>3 DEF Submit
  <2>3. Request.own => jobs'[n].here BY <1>3, <1>a DEF Submit, Enabled, Types, FormTypes
  <2>4. jobs[n].state = "none" BY <1>3 DEF Submit, NoJob
  <2> QED BY <2>1, <2>2, <2>3, <2>4 DEF Numbered, InFlight
<1>4. ASSUME NEW n \in Jobs, Commit(n) \/ Fails(n) \/ Succeeds(n) PROVE OneByOne'
  <2>1. ASSUME NEW m \in Jobs, InFlight(m)' PROVE \A k \in Jobs : m < k => jobs'[k].state = "none"
    <3>1. InFlight(m) BY <1>4, <2>1, InFlightStep
    <3>2. \A k \in Jobs : m < k => jobs[k].state = "none" /\ k # n
      BY <1>4, <3>1, InFlightStep DEF InFlight
    <3> QED BY <1>4, <3>2, InFlightStep
  <2>2. ASSUME NEW m \in Jobs, InFlight(m)', Request.own PROVE jobs'[m].here
    <3>1. InFlight(m) /\ jobs[m].here BY <1>4, <2>1, <2>2, InFlightStep
    <3>2. ~Succeeds(n)
      <4>1. SUFFICES ASSUME Succeeds(n) PROVE FALSE
        OBVIOUS
      <4>2. m # n BY <1>4, <2>2, <4>1, InFlightStep
      <4>3. InFlight(n) BY <1>4, InFlightStep
      <4>4. m < n \/ n < m BY <4>2
      <4> QED BY <3>1, <4>3, <4>4 DEF InFlight
    <3> QED BY <1>4, <2>2, <3>1, <3>2, InFlightStep
  <2> QED BY <2>1, <2>2
<1> QED BY <1>1, <1>2, <1>3, <1>4, JobsStep

LEMMA OneDialogStep == Types /\ Numbered /\ OneDialog /\ [Next]_vars => OneDialog'
<1> SUFFICES ASSUME Types, Numbered, OneDialog, [Next]_vars,
                    Control \notin LeftEarly, Request.closes = "shown"
             PROVE  OneDialog'
  BY SceneStays DEF OneDialog, Control, Request
<1>0. scene' = scene BY SceneStays
<1>a. Request.held /\ Request.dialog /\ ~Request.again BY ControlKeeps
<1>b. jobs \in [Jobs -> JobRow] BY DEF Types, FormTypes
<1> USE <1>0, <1>b DEF OneDialog, Request
<1>1. CASE UNCHANGED jobs BY <1>1 DEF InFlight
<1>2. CASE Closes
  <2>1. \A m \in Jobs : ~InFlight(m) BY <1>2, <1>a, HeldStays
  <2>2. \A m \in Jobs : jobs'[m].state = jobs[m].state BY <1>2, ElsewhereTypes DEF Closes
  <2> QED BY <2>1, <2>2 DEF InFlight
<1>3. ASSUME NEW n \in Jobs, Submit(n) PROVE OneDialog'
  <2>1. \A m \in Jobs : ~InFlight(m) BY <1>3, <1>a, NothingInFlight
  <2>2. \A m \in Jobs \ {n} : jobs'[m] = jobs[m] BY <1>3 DEF Submit
  <2>3. jobs'[n].here BY <1>3, <1>a DEF Submit, Enabled, Types, FormTypes
  <2> QED BY <2>1, <2>2, <2>3 DEF InFlight
<1>4. ASSUME NEW n \in Jobs, Commit(n) \/ Fails(n) \/ Succeeds(n) PROVE OneDialog'
  <2>1. \A m \in Jobs : InFlight(m)' => InFlight(m) /\ m = n BY <1>4, InFlightStep
  <2>2. \A m \in Jobs : InFlight(m)' => jobs'[m].here BY <1>4, <2>1, InFlightStep
  <2> QED BY <2>1, <2>2
<1> QED BY <1>1, <1>2, <1>3, <1>4, JobsStep

\* The invariant of the requests.
RequestInv == Numbered /\ OneByOne /\ OneDialog

LEMMA RequestsHold == Spec => []RequestInv
<1>1. Init => RequestInv
  BY DEF Init, RequestInv, Numbered, OneByOne, OneDialog, NoJob, InFlight
<1>2. Types /\ RequestInv /\ [Next]_vars => RequestInv'
  BY NumberedStep, OneByOneStep, OneDialogStep DEF RequestInv
<1> QED BY <1>1, <1>2, TypesHold, PTL DEF Spec

\* LastRequestWins: of two requests of a control that is disabled meanwhile, in whichever dialog it
\* stands, the server never does the first when the second is done.
THEOREM LastWins == Spec => LastRequestWins
<1>1. Types /\ RequestInv /\ [Next]_vars =>
        [Control \notin UsedAgain =>
           \A n, m \in Jobs : n < m /\ jobs[n].state = "sent" /\ jobs'[n].state = "done" =>
             jobs[m].state \notin {"done", "over"}]_vars
  BY DEF RequestInv, OneByOne, InFlight
<1> QED BY <1>1, TypesHold, RequestsHold, PTL DEF Spec, LastRequestWins

\* LandsOnItsDialog: an answer that closes a dialog closes the one its request was sent from,
\* whatever was cancelled, opened and typed since.
THEOREM LandsOnIts == Spec => LandsOnItsDialog
<1>1. ASSUME Types, RequestInv, [Next]_vars, Control \notin LeftEarly,
             NEW n \in Jobs, jobs[n].state = "done", jobs'[n].state = "over", dialog' # dialog
      PROVE  jobs[n].here
  <2>1. PICK m \in Jobs : Succeeds(m)
    <3>1. ASSUME NEW m \in Jobs, Submit(m) PROVE FALSE
      <4>1. jobs[m].state = "none" BY <3>1 DEF Submit, NoJob
      <4>2. jobs'[n] = jobs[n] BY <1>1, <3>1, <4>1 DEF Submit, Types, FormTypes
      <4> QED BY <1>1, <4>2
    <3>2. ASSUME NEW m \in Jobs, Commit(m) \/ Fails(m) PROVE FALSE BY <1>1, <3>2 DEF Commit, Fails
    <3>3. ~Closes
      <4>1. Closes => jobs'[n].state = jobs[n].state
        BY ElsewhereTypes, <1>1 DEF Closes, Types, FormTypes
      <4> QED BY <1>1, <4>1
    <3> QED BY <1>1, <3>1, <3>2, <3>3, JobsStep DEF RequestInv
  <2>2. m = n
    <3>1. m # n => jobs'[n].state = jobs[n].state BY <1>1, <2>1, AfterSuccess DEF Types, FormTypes
    <3> QED BY <1>1, <3>1
  <2>3. ClosesOn(n) BY <1>1, <2>1, <2>2 DEF Succeeds, Types, FormTypes
  <2> QED BY <1>1, <2>3 DEF ClosesOn, RequestInv, OneDialog, InFlight
<1>2. Types /\ RequestInv /\ [Next]_vars =>
        [Control \notin LeftEarly =>
           \A n \in Jobs : jobs[n].state = "done" /\ jobs'[n].state = "over" /\ dialog' # dialog =>
             jobs[n].here]_vars
  BY <1>1
<1> QED BY <1>2, TypesHold, RequestsHold, PTL DEF Spec, LandsOnItsDialog

\* RefetchKeepsEdits: what a poll, the focus or an invalidation brings in does not take back edits.
THEOREM KeepsWhatIsTyped == Spec => RefetchKeepsEdits
<1>1. ASSUME Types, [Next]_vars, Control \notin FilledAnew, edited, entry'.data # entry.data
      PROVE  edited'
  <2>1. ~Draft.drops BY <1>1, ControlKeeps DEF Types, FormTypes
  <2>2. CASE CacheStep BY <1>1, <2>2, CacheStepLeavesForm DEF formVars
  <2>3. CASE Answer BY <1>1, <2>1, <2>3 DEF Answer
  <2>4. CASE Opens \/ Closes \/ Edit BY <1>1, <2>4 DEF Opens, Closes, Edit, cacheVars
  <2>5. ASSUME NEW n \in Jobs, Submit(n) \/ Commit(n) \/ Fails(n) PROVE FALSE
    BY <1>1, <2>5 DEF Submit, Commit, Fails, cacheVars
  <2>6. ASSUME NEW n \in Jobs, Succeeds(n) PROVE FALSE
    BY <1>1, <2>6 DEF Succeeds, Invalidate, Types, CacheTypes
  <2>7. CASE UNCHANGED vars BY <1>1, <2>7 DEF vars, cacheVars
  <2> QED BY <1>1, <2>2, <2>3, <2>4, <2>5, <2>6, <2>7, FormSteps
<1>2. Types /\ [Next]_vars =>
        [Control \notin FilledAnew /\ edited /\ entry'.data # entry.data => edited']_vars
  BY <1>1
<1> QED BY <1>2, TypesHold, PTL DEF Spec, RefetchKeepsEdits

\* ForItsHost: a request that names the host of a log entry goes out for that host, however late
\* the host is looked up.
THEOREM GoesToItsHost == Spec => []ForItsHost
<1>1. Init => ForItsHost BY DEF Init, ForItsHost, NoJob
<1>2. Types /\ Numbered /\ ForItsHost /\ [Next]_vars => ForItsHost'
  <2> SUFFICES ASSUME Types, Numbered, ForItsHost, [Next]_vars, Control \notin BanForms PROVE ForItsHost'
    BY SceneStays DEF ForItsHost, Control
  <2>a. jobs \in [Jobs -> JobRow] BY DEF Types, FormTypes
  <2> USE <2>a, SceneStays DEF ForItsHost
  <2>1. CASE UNCHANGED jobs BY <2>1
  <2>2. CASE Closes BY <2>2, ElsewhereTypes DEF Closes
  <2>3. ASSUME NEW n \in Jobs, Submit(n) PROVE ForItsHost'
    <3>1. ~(Request.within = Query.key /\ entry.data = NoData) BY <2>3, ControlKeeps DEF Submit, Enabled
    <3>2. jobs'[n].forHost /\ \A m \in Jobs \ {n} : jobs'[m] = jobs[m] BY <2>3, <3>1 DEF Submit
    <3> QED BY <3>2
  <2>4. ASSUME NEW n \in Jobs, Commit(n) PROVE ForItsHost'
    <3>1. \A m \in Jobs : jobs'[m].forHost = jobs[m].forHost BY <2>4 DEF Commit, JobRow
    <3> QED BY <3>1
  <2>5. ASSUME NEW n \in Jobs, Fails(n) PROVE ForItsHost' BY <2>5, JobRecords DEF Fails
  <2>6. ASSUME NEW n \in Jobs, Succeeds(n) PROVE ForItsHost' BY <2>6, AfterSuccess, JobRecords
  <2> QED BY <2>1, <2>2, <2>3, <2>4, <2>5, <2>6, JobsStep
<1>3. RequestInv => Numbered BY DEF RequestInv
<1> QED BY <1>1, <1>2, <1>3, TypesHold, RequestsHold, PTL DEF Spec
=============================================================================
