------------------------------ MODULE WebClient ------------------------------
(***************************************************************************)
(* One control of a page of the web interface, the requests it sends, the  *)
(* dialog and the draft it stands in, and one entry of the query cache     *)
(* (main.tsx: TanStack Query, fresh for 30 s, kept for 5 min) that another *)
(* or the same page shows.  A behaviour begins by choosing the control and *)
(* the entry: the runs check all pairs that have data in common.           *)
(*                                                                         *)
(* Other administrators, other tabs and background jobs change the data;   *)
(* fetches and requests are answered late, in any order, or fail.          *)
(***************************************************************************)
EXTENDS WebHosts, WebSecurity, WebLogs, WebSettings, Naturals, SequencesExt

CONSTANTS MaxVersion,  \* changes of the data
          MaxSends     \* requests of the control

ASSUME BoundAssumption == {MaxVersion, MaxSends} \subseteq Nat \ {0}

VARIABLES scene,    \* the control and the entry
          server,   \* the version of the data on the server
          entry,    \* the entry of the cache
          fetch,    \* its fetch in flight
          mounted,  \* a page that shows the entry is there
          jobs,     \* the requests, in the order they were sent
          own,      \* the latest version this page was told it has made
          dialog,   \* a dialog is open
          edited    \* the draft has edits that are not sent

cacheVars == <<server, entry, fetch, mounted>>
formVars == <<jobs, own, dialog, edited>>
vars == <<scene, cacheVars, formVars>>

-----------------------------------------------------------------------------
\* The pages of the router and the dialogs they open.
HostPages == [
  ProxyHostList |-> ProxyHostList, SyncButton |-> SyncButton, ProxyHostForm |-> ProxyHostForm, UpstreamTab |-> UpstreamTab,
  ProtectionTab |-> ProtectionTab, SecurityTab |-> SecurityTab, CloneModal |-> CloneModal,
  AccessListManager |-> AccessListManager, RedirectHostManager |-> RedirectHostManager,
  CertificateList |-> CertificateList, CertificateForm |-> CertificateForm,
  CertificateUpdateForm |-> CertificateUpdateForm, CertificateDetail |-> CertificateDetail,
  CertificateHistory |-> CertificateHistory, DNSProviderList |-> DNSProviderList,
  DNSProviderForm |-> DNSProviderForm]

SecurityPages == [
  GlobalWAFSettings |-> GlobalWAFSettings, WAFRulesModal |-> WAFRulesModal, WAFSettings |-> WAFSettings,
  GlobalExploitRules |-> GlobalExploitRules, HostExploitRulesModal |-> HostExploitRulesModal,
  PatternEditModal |-> PatternEditModal, ExploitBlockRules |-> ExploitBlockRules,
  GlobalExploitExceptions |-> GlobalExploitExceptions, HostExceptionsModal |-> HostExceptionsModal,
  URIBlockManager |-> URIBlockManager, URIBlockHostModal |-> URIBlockHostModal,
  BannedIPList |-> BannedIPList, BanHistoryTab |-> BanHistoryTab, IPLogsModal |-> IPLogsModal,
  Fail2banManagement |-> Fail2banManagement, WAFTester |-> WAFTester,
  FilterSubscriptionList |-> FilterSubscriptionList, SubscriptionSettingsModal |-> SubscriptionSettingsModal]

LogPages == [
  LogViewer |-> LogViewer, LogSettingsModal |-> LogSettingsModal, LogDetailModal |-> LogDetailModal,
  RelatedLogsModal |-> RelatedLogsModal, ExploitBlockLogs |-> ExploitBlockLogs,
  ExploitLogDetail |-> ExploitLogDetail, BotFilterLogs |-> BotFilterLogs,
  SystemLogViewer |-> SystemLogViewer, AuditLog |-> AuditLog, RawLogFiles |-> RawLogFiles]

SettingsPages == [
  MaintenanceSettings |-> MaintenanceSettings, WAFAutoBanSettings |-> WAFAutoBanSettings,
  BotFilterSettings |-> BotFilterSettings, SSLACMESettings |-> SSLACMESettings,
  GeoIPSettings |-> GeoIPSettings, GlobalSettings |-> GlobalSettings,
  ChallengeSettings |-> ChallengeSettings, SystemLogSettings |-> SystemLogSettings,
  Dashboard |-> Dashboard, HostResourcesSection |-> HostResourcesSection,
  BackupManager |-> BackupManager, APITokenManager |-> APITokenManager]

Pages == HostPages @@ SecurityPages @@ LogPages @@ SettingsPages

-----------------------------------------------------------------------------
\* A control, and its name.
NameOf(c) == <<c.page, c.request>>
Controls == UNION {{[page |-> p, request |-> r] : r \in DOMAIN Pages[p].sends} : p \in DOMAIN Pages}
Queries == UNION {Pages[p].shows : p \in DOMAIN Pages}

RequestOf(c) == Pages[c.page].sends[c.request]
HasDraft(c) == c.request \in DOMAIN Pages[c.page].drafts
DraftOf(c) == Pages[c.page].drafts[c.request]

Shared(c, q) == RequestOf(c).writes \cap q.reads # {}
IsUsed(c, q) ==
  \/ q.key = RequestOf(c).within
  \/ HasDraft(c) /\ q.key = DraftOf(c).key

\* A control and an entry that have to do with each other, or one of its page if there is none.
Related(c) == {q \in Queries : Shared(c, q) \/ IsUsed(c, q)}
Scenes ==
  {s \in [control : Controls, query : Queries] :
     s.query \in IF Related(s.control) # {} THEN Related(s.control) ELSE Pages[s.control.page].shows}

\* invalidateQueries matches the keys that begin with one of those given.
Refreshes(c, q) == \E key \in RequestOf(c).refreshes : IsPrefix(key, q.key)

Request == RequestOf(scene.control)
Query == scene.query
Draft == DraftOf(scene.control)
WritesIt == Shared(scene.control, scene.query)
Invalidates == Refreshes(scene.control, scene.query)

NoData == MaxVersion + 1
NoFetch == [state |-> "none", data |-> NoData, crossed |-> FALSE]
NoEntry == [data |-> NoData, stale |-> FALSE, crossed |-> FALSE]
NoJob == [state |-> "none", here |-> FALSE, made |-> 0, forHost |-> TRUE]
Over(state) == [NoJob EXCEPT !.state = state]

Versions == 0 .. MaxVersion
Jobs == 1 .. MaxSends

InFlight(n) == jobs[n].state \in {"sent", "done"}

\* Types; only an open dialog and a page have a draft; a fetch that has read carries a version.
TypeOK ==
  /\ scene.control \in Controls /\ scene.query \in Queries
  /\ server \in Versions /\ own \in Versions
  /\ entry \in [data : Versions \cup {NoData}, stale : BOOLEAN, crossed : BOOLEAN]
  /\ fetch \in [state : {"none", "asked", "read"}, data : Versions \cup {NoData}, crossed : BOOLEAN]
  /\ fetch.data # NoData <=> fetch.state = "read"
  /\ mounted \in BOOLEAN
  /\ jobs \in [Jobs -> [state : {"none", "sent", "done", "over", "failed"}, here : BOOLEAN,
                        made : Versions, forHost : BOOLEAN]]
  /\ dialog \in BOOLEAN /\ \A n \in Jobs : jobs[n].here => dialog /\ InFlight(n)
  /\ edited \in BOOLEAN
  /\ edited => HasDraft(scene.control) /\ (Request.dialog => dialog)

Init ==
  /\ scene \in Scenes
  /\ server = 0 /\ own = 0
  /\ entry = NoEntry /\ fetch = NoFetch /\ mounted = FALSE
  /\ jobs = [n \in Jobs |-> NoJob]
  /\ dialog = FALSE /\ edited = FALSE

-----------------------------------------------------------------------------
(* The entry.                                                                *)
Asked == [NoFetch EXCEPT !.state = "asked"]

\* useQuery: a component comes, and fetches unless the entry is fresh or being fetched.
Mount ==
  /\ ~mounted
  /\ mounted' = TRUE
  /\ fetch' = IF fetch.state = "none" /\ (entry.data = NoData \/ entry.stale) THEN Asked ELSE fetch
  /\ UNCHANGED <<scene, server, entry, formVars>>

\* A fetch in flight goes on.
Unmount ==
  /\ mounted
  /\ mounted' = FALSE
  /\ UNCHANGED <<scene, server, entry, fetch, formVars>>

\* refetchOnWindowFocus.
Focus ==
  /\ mounted /\ fetch.state = "none"
  /\ entry.data = NoData \/ entry.stale
  /\ fetch' = Asked
  /\ UNCHANGED <<scene, server, entry, mounted, formVars>>

\* Mutant of Poll: only until there is an answer.
Poll_UntilAnswered ==
  /\ mounted /\ fetch.state = "none" /\ Query.polled
  /\ entry.data = NoData
  /\ fetch' = Asked
  /\ UNCHANGED <<scene, server, entry, mounted, formVars>>

\* refetchInterval.
Poll ==
  /\ mounted /\ fetch.state = "none" /\ Query.polled
  /\ fetch' = Asked
  /\ UNCHANGED <<scene, server, entry, mounted, formVars>>

\* The server reads the data,
Read ==
  /\ fetch.state = "asked"
  /\ fetch' = [fetch EXCEPT !.state = "read", !.data = server]
  /\ UNCHANGED <<scene, server, entry, mounted, formVars>>

\* Mutant of Answer: an effect fills every form anew with whatever is fetched.
Answer_FillsForm ==
  /\ fetch.state = "read"
  /\ entry' = [data |-> fetch.data, stale |-> FALSE, crossed |-> fetch.crossed]
  /\ fetch' = NoFetch
  /\ edited' = (edited /\ ~(Draft.key = Query.key /\ entry.data # fetch.data))
  /\ UNCHANGED <<scene, server, mounted, jobs, own, dialog>>

\* and the answer replaces the entry, which then is fresh.  Content that is the same stays the
\* same object, for which no effect runs.
Answer ==
  /\ fetch.state = "read"
  /\ entry' = [data |-> fetch.data, stale |-> FALSE, crossed |-> fetch.crossed]
  /\ fetch' = NoFetch
  /\ edited' = (edited /\ ~(Draft.drops /\ Draft.key = Query.key /\ entry.data # fetch.data))
  /\ UNCHANGED <<scene, server, mounted, jobs, own, dialog>>

\* The fetch and its one retry fail: the entry stays as it is.
FetchFails ==
  /\ fetch.state # "none"
  /\ fetch' = NoFetch
  /\ UNCHANGED <<scene, server, entry, mounted, formVars>>

\* staleTime.
Age ==
  /\ entry.data # NoData /\ ~entry.stale
  /\ entry' = [entry EXCEPT !.stale = TRUE]
  /\ UNCHANGED <<scene, server, fetch, mounted, formVars>>

\* gcTime.
Collect ==
  /\ ~mounted /\ fetch.state = "none" /\ entry # NoEntry
  /\ entry' = NoEntry
  /\ UNCHANGED <<scene, server, fetch, mounted, formVars>>

\* Somebody else changes the data.
Other ==
  /\ server < MaxVersion
  /\ server' = server + 1
  /\ UNCHANGED <<scene, entry, fetch, mounted, formVars>>

-----------------------------------------------------------------------------
(* The control.  A job is here while the dialog it was sent from is open.    *)
Elsewhere == [n \in Jobs |-> [jobs[n] EXCEPT !.here = FALSE]]

Opens ==
  /\ Request.dialog /\ ~dialog
  /\ dialog' = TRUE
  /\ UNCHANGED <<scene, cacheVars, jobs, own, edited>>

\* Mutant of Closes: what was typed is there again when the dialog is opened anew.
Closes_KeepsEdits ==
  /\ dialog
  /\ ~(Request.held /\ \E n \in Jobs : jobs[n].here)
  /\ dialog' = FALSE /\ jobs' = Elsewhere
  /\ UNCHANGED <<scene, cacheVars, own, edited>>

\* Mutant of Closes: no dialog is held.
Closes_NotHeld ==
  /\ dialog
  /\ dialog' = FALSE /\ edited' = FALSE /\ jobs' = Elsewhere
  /\ UNCHANGED <<scene, cacheVars, own>>

\* Escape, Cancel or a click beside it, unless the dialog is held.
Closes ==
  /\ dialog
  /\ ~(Request.held /\ \E n \in Jobs : jobs[n].here)
  /\ dialog' = FALSE /\ edited' = FALSE /\ jobs' = Elsewhere
  /\ UNCHANGED <<scene, cacheVars, own>>

Edit ==
  /\ HasDraft(scene.control) /\ ~edited
  /\ Request.dialog => dialog
  /\ edited' = TRUE
  /\ UNCHANGED <<scene, cacheVars, jobs, own, dialog>>

\* Mutant of Enabled: nothing waits for an answer it depends on.
Enabled_NotWaiting ==
  /\ Request.dialog => dialog
  /\ Request.again \/ \A n \in Jobs : InFlight(n) => Request.own /\ ~jobs[n].here

\* disabled={isPending}.
Enabled ==
  /\ Request.dialog => dialog
  /\ Request.again \/ \A n \in Jobs : InFlight(n) => Request.own /\ ~jobs[n].here
  /\ Request.waits /\ Request.within = Query.key => entry.data # NoData

\* Mutant of Submit: a control that is not disabled.
Submit_NotDisabled(n) ==
  /\ jobs[n] = NoJob /\ (n > 1 => jobs[n - 1] # NoJob)
  /\ Request.dialog => dialog
  /\ jobs' = [jobs EXCEPT ![n] = [NoJob EXCEPT !.state = "sent", !.here = dialog]]
  /\ UNCHANGED <<scene, cacheVars, own, dialog, edited>>

\* mutate, or the handler of a plain form: the edits go with the request.
Submit(n) ==
  /\ jobs[n] = NoJob /\ (n > 1 => jobs[n - 1] # NoJob)
  /\ Enabled
  /\ dialog' = (dialog /\ Request.closes # "first")
  /\ edited' = (edited /\ Request.closes # "first")
  /\ jobs' = [jobs EXCEPT ![n] =
       [state |-> "sent", here |-> dialog', made |-> 0,
        forHost |-> ~(Request.within = Query.key /\ entry.data = NoData)]]
  /\ UNCHANGED <<scene, cacheVars, own>>

\* The server does what the request asks for.
Commit(n) ==
  /\ jobs[n].state = "sent"
  /\ IF WritesIt
     THEN /\ server < MaxVersion
          /\ server' = server + 1
          /\ jobs' = [jobs EXCEPT ![n].state = "done", ![n].made = server']
     ELSE /\ jobs' = [jobs EXCEPT ![n].state = "done"]
          /\ UNCHANGED server
  /\ UNCHANGED <<scene, entry, fetch, mounted, own, dialog, edited>>

\* It refuses, or the answer is lost: an error is shown, nothing is invalidated.
Fails(n) ==
  /\ InFlight(n)
  /\ jobs' = [jobs EXCEPT ![n] = Over("failed")]
  /\ UNCHANGED <<scene, cacheVars, own, dialog, edited>>

\* Mutant of Invalidate: a fetch in flight is as good as a new one.
Invalidate_KeepsFetch ==
  /\ entry' = [entry EXCEPT !.stale = entry.data # NoData]
  /\ fetch' = IF mounted /\ fetch.state = "none" THEN Asked ELSE fetch

\* invalidateQueries: the entry is stale, and fetched anew where it is shown.  The fetch in
\* flight is given up for that if the entry has data; without data, or out of sight, it goes on,
\* and what it read before counts as fresh.
Invalidate ==
  /\ entry' = [entry EXCEPT !.stale = entry.data # NoData]
  /\ fetch' = IF mounted /\ (fetch.state = "none" \/ entry.data # NoData) THEN Asked
              ELSE [fetch EXCEPT !.crossed = fetch.state # "none"]

\* Whether the answer to request n closes the dialog.
ClosesOn(n) ==
  /\ dialog
  /\ \/ Request.closes = "shown"
     \/ Request.closes = "own" /\ jobs[n].here

\* onSuccess.
Succeeds(n) ==
  /\ jobs[n].state = "done"
  /\ dialog' = (dialog /\ ~ClosesOn(n))
  /\ jobs' = [IF dialog' THEN jobs ELSE Elsewhere EXCEPT ![n] = Over("over")]
  /\ own' = IF jobs[n].made > own THEN jobs[n].made ELSE own
  /\ IF Invalidates THEN Invalidate ELSE UNCHANGED <<entry, fetch>>
  /\ edited' = (edited /\ ~ClosesOn(n) /\ ~Draft.clears)
  /\ UNCHANGED <<scene, server, mounted>>

-----------------------------------------------------------------------------
Next ==
  \/ Mount \/ Unmount \/ Focus \/ Poll \/ Read \/ Answer \/ FetchFails \/ Age \/ Collect \/ Other
  \/ Opens \/ Closes \/ Edit
  \/ \E n \in Jobs : Submit(n) \/ Commit(n) \/ Fails(n) \/ Succeeds(n)

\* The timer of a polled entry runs while it is shown, and a server that is asked again and
\* again answers some time.
Spec ==
  /\ Init /\ [][Next]_vars
  /\ WF_vars(Poll) /\ SF_vars(Read) /\ SF_vars(Answer)

-----------------------------------------------------------------------------
Control == NameOf(scene.control)

\* Queries of data that is also kept under another key, and the histories: no request
\* invalidates them for the data they show.
SecondCopies == {
  "proxy-hosts-all", "proxy-hosts-list", "proxy-hosts-for-certs", "certificate-linked-hosts",
  "proxyHostByDomain", "proxyHostsForExclusion", "certificate", "certificates-for-clone",
  "dns-providers-for-clone", "accessLists", "dnsProviders", "certificate-history", "ip-ban-history", "ip-ban-history-stats"}

\* Queries whose rows also show the hosts, which only the requests of their own page invalidate.
ShowHostsToo == {"waf-hosts", "exploit-rule-hosts", "uri-blocks"}

\* The rules and subscriptions of a page whose other page or history keeps what it showed.
HalfRefreshed == {
  <<"ProxyHostForm", "blockedCloudProviders">>, <<"UpstreamTab", "upstream-health">>,
  <<"GlobalExploitRules", "host-exploit-rules">>, <<"ExploitLogDetail", "host-exploit-rules">>,
  <<"ExploitLogDetail", "exploit-rule-hosts">>, <<"LogDetailModal", "waf-policy-history">>,
  <<"LogDetailModal", "global-waf-policy-history">>, <<"LogDetailModal", "uri-blocks">>,
  <<"LogDetailModal", "uri-block-history">>, <<"URIBlockManager", "uri-block-history">>,
  <<"URIBlockHostModal", "uri-block-history">>,
  <<"FilterSubscriptionList", "filterSubscriptionDetail">>,
  <<"SubscriptionSettingsModal", "filterSubscriptionDetail">>}

\* The two keys of the system settings; the pages of the logs other than the log page itself.
SettingsTwice == {"system-settings", "systemSettings"}
OtherLogs == {
  "bot-filter-logs", "bot-filter-stats", "bot-filter-total", "exploit-block-logs",
  "exploit-block-total", "geoIPStats", "ip-logs", "related-logs"}

\* Requests that change rows of other pages too: those a foreign key clears or removes, the status
\* of every host, and all.
ChangesMore == {
  <<"AccessListManager", "delete">>, <<"CertificateList", "delete">>, <<"CertificateList", "bulkDelete">>,
  <<"DNSProviderList", "delete">>, <<"ProxyHostList", "delete">>,
  <<"SyncButton", "sync">>, <<"BackupManager", "restore">>, <<"BackupManager", "uploadRestore">>}

LeftAsItIs(c, q) ==
  /\ ~Refreshes(c, q)
  /\ \/ q.key[1] \in SecondCopies \cup SettingsTwice
     \/ "proxy_hosts" \in q.reads \cap RequestOf(c).writes /\ q.key[1] \in ShowHostsToo
     \/ <<c.page, q.key[1]>> \in HalfRefreshed
     \/ NameOf(c) = <<"LogSettingsModal", "cleanup">> /\ q.key[1] \in OtherLogs
     \/ NameOf(c) \in ChangesMore

\* The requests refresh the entries of what they write.
ASSUME RefreshAssumption ==
  \A s \in Scenes : Shared(s.control, s.query) =>
    Refreshes(s.control, s.query) \/ LeftAsItIs(s.control, s.query)

NotRefreshed == LeftAsItIs(scene.control, scene.query)

\* The administrator sees what he has done: an entry that counts as fresh is no older than the
\* last change of it that succeeded on this page, whatever was fetched meanwhile.  Excepted are
\* the entries above, and a fetch that began before the change and could not be given up.
OwnWritesShown ==
  entry.data # NoData /\ ~entry.stale /\ ~entry.crossed /\ ~NotRefreshed => entry.data >= own

\* Rows and dialogs whose control can be used again, here or in the dialog opened anew, before
\* the first request is answered.
UsedAgain == {
  <<"ProxyHostList", "delete">>, <<"ProxyHostList", "favorite">>, <<"ProxyHostList", "test">>,
  <<"ProxyHostForm", "order">>, <<"ProxyHostForm", "create">>, <<"ProxyHostForm", "update">>,
  <<"ProxyHostForm", "bot">>, <<"ProxyHostForm", "geo">>, <<"ProxyHostForm", "cloud">>,
  <<"UpstreamTab", "save">>, <<"UpstreamTab", "delete">>, <<"SecurityTab", "fail2ban">>,
  <<"ProtectionTab", "headers">>, <<"ProtectionTab", "limit">>,
  <<"AccessListManager", "submit">>, <<"RedirectHostManager", "submit">>,
  <<"WAFRulesModal", "bulkDisable">>, <<"WAFRulesModal", "bulkEnable">>,
  <<"PatternEditModal", "update">>, <<"HostExceptionsModal", "save">>,
  <<"URIBlockHostModal", "update">>, <<"URIBlockHostModal", "removeRule">>,
  <<"URIBlockHostModal", "addRule">>, <<"URIBlockHostModal", "bulkAdd">>, <<"URIBlockHostModal", "delete">>,
  <<"Fail2banManagement", "save">>, <<"WAFTester", "test">>, <<"FilterSubscriptionList", "delete">>,
  <<"SubscriptionSettingsModal", "update">>, <<"SubscriptionSettingsModal", "addExclusion">>,
  <<"SubscriptionSettingsModal", "removeExclusion">>, <<"LogSettingsModal", "save">>,
  <<"LogSettingsModal", "cleanup">>, <<"LogDetailModal", "ban">>, <<"LogDetailModal", "blockURI">>,
  <<"LogDetailModal", "disable">>, <<"LogDetailModal", "disableEverywhere">>,
  <<"ExploitLogDetail", "ban">>, <<"ExploitLogDetail", "exclude">>,
  <<"ExploitLogDetail", "excludeEverywhere">>, <<"RawLogFiles", "view">>,
  <<"APITokenManager", "revoke">>, <<"APITokenManager", "delete">>}

\* The other controls are disabled while their request is in flight; one that forgets it with its
\* dialog stands in a dialog that is held.
ASSUME DisabledAssumption ==
  \A c \in Controls : NameOf(c) \notin UsedAgain =>
    /\ ~RequestOf(c).again
    /\ RequestOf(c).own => RequestOf(c).held /\ RequestOf(c).dialog /\ RequestOf(c).closes # "first"

\* The last word wins: the server never does an earlier request of a control after a later one,
\* so what was asked for last is what remains.
LastRequestWins ==
  [][Control \notin UsedAgain =>
       \A n, m \in Jobs : n < m /\ jobs[n].state = "sent" /\ jobs'[n].state = "done" =>
         jobs[m].state \notin {"done", "over"}]_vars

\* Dialogs that can be left while their request is in flight, and whose answer then goes to
\* the one that is open.
LeftEarly == {
  <<"ProxyHostList", "clone">>, <<"ProxyHostList", "test">>, <<"ProxyHostForm", "create">>,
  <<"ProxyHostForm", "update">>, <<"UpstreamTab", "delete">>, <<"AccessListManager", "submit">>,
  <<"RedirectHostManager", "submit">>, <<"PatternEditModal", "update">>, <<"URIBlockManager", "create">>,
  <<"URIBlockHostModal", "delete">>, <<"BannedIPList", "ban">>, <<"Fail2banManagement", "save">>,
  <<"FilterSubscriptionList", "create">>, <<"SubscriptionSettingsModal", "update">>,
  <<"LogSettingsModal", "save">>, <<"RawLogFiles", "delete">>, <<"RawLogFiles", "view">>,
  <<"BackupManager", "create">>, <<"BackupManager", "uploadRestore">>,
  <<"APITokenManager", "create">>, <<"APITokenManager", "update">>}

\* The other dialogs whose answer closes the one that is shown are held.
ASSUME HeldAssumption ==
  \A c \in Controls : NameOf(c) \notin LeftEarly /\ RequestOf(c).closes = "shown" =>
    RequestOf(c).held /\ RequestOf(c).dialog /\ ~RequestOf(c).again

\* An answer closes no dialog but the one its request was sent from: whoever cancels, opens the
\* next and types is not interrupted by the success of the first.
LandsOnItsDialog ==
  [][Control \notin LeftEarly =>
       \A n \in Jobs : jobs[n].state = "done" /\ jobs'[n].state = "over" /\ dialog' # dialog =>
         jobs[n].here]_vars

\* Forms that an effect fills anew whenever their entry changes.
FilledAnew == {
  <<"ProxyHostForm", "bot">>, <<"ProxyHostForm", "geo">>, <<"ProxyHostForm", "cloud">>, <<"UpstreamTab", "save">>,
  <<"GlobalExploitExceptions", "save">>, <<"URIBlockManager", "saveGlobal">>, <<"CertificateForm", "create">>}

\* No other form has such an effect.
ASSUME DraftAssumption ==
  \A c \in Controls : HasDraft(c) /\ NameOf(c) \notin FilledAnew => ~DraftOf(c).drops

\* What is being typed outlives a refetch: a change by somebody else that a poll, the focus or
\* an invalidation brings in does not take back edits.
RefetchKeepsEdits ==
  [][Control \notin FilledAnew /\ edited /\ entry'.data # entry.data => edited']_vars

\* The ban forms of the log entries.
BanForms == {<<"LogDetailModal", "ban">>, <<"ExploitLogDetail", "ban">>}

\* Every other control waits for the host it looks up.
ASSUME HostAssumption ==
  \A s \in Scenes :
    RequestOf(s.control).within = s.query.key =>
      RequestOf(s.control).waits \/ NameOf(s.control) \in BanForms

\* A request meant for the host of a log entry goes out for that host, however late the host is
\* looked up.  Excepted are the two ban forms, which then ban for every host.
ForItsHost ==
  Control \notin BanForms =>
    \A n \in Jobs : jobs[n].forHost

\* A polled entry catches up: the last change on the server is shown some time, though fetches
\* fail, cross or are given up, as long as somebody looks.
CatchesUp ==
  mounted /\ Query.polled /\ server = MaxVersion ~> ~mounted \/ entry.data = MaxVersion
=============================================================================
