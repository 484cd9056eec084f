# Specifications of Nginx Proxy Guard

TLA+ models of Nginx Proxy Guard: on the server, what decides what nginx serves (the
configuration manager, the debounced reloader, the proxy host service above them, the
synchronisation that repairs the configuration at start-up, the cached repository of rows,
and certificates with their files); in the browser, the pages of the web interface over its
query cache, and the form of a proxy host. Each is translated from the sources under `api/`
and `ui/`; `PROJECT.json` gives the lines every definition stands for. TLC checks them on
small instances, TLAPS proves some of their properties for every instance.

    tlc -config MCManagerRollback.cfg MCNginxManager.tla
    tlapm NginxManager_proofs.tla

## 1. The system

The API server (Go, `api/`) keeps the configuration of a reverse proxy in PostgreSQL,
writes nginx configuration files from it into a shared directory, and drives nginx with
`docker exec` (`nginx -t`, `nginx -s reload`). Valkey, when present, caches rows and holds
locks. A web interface (React, `ui/`) calls the HTTP API; schedulers inside the API process
do the same from timers. `ARCHITECTURE.md` states the rules the code follows: *DB = Nginx
State*, *Fail-Safe* (a rejected configuration is never loaded and the old one is kept),
*Global Mutex*, *Graceful Degradation* without the cache, and auto-recovery of
`SyncAllConfigs`.

| component | state | operations | interacts with |
|---|---|---|---|
| Configuration manager `internal/nginx` | files on disk, nginx, `globalNginxMutex` | generate, generate with cleanup, WAF only, remove, test, reload, test and reload, each with a rollback | called by every service; nginx through docker |
| Debounced reloader `service/nginx_reload.go` | `pending`, `timer` under `r.mu` | request, immediate request, flush, timer callback | manager (reload) |
| Proxy host service `service/proxy_host.go` | rows of `proxy_hosts`, `config_status` | create, update, update without row, update without reload, row only, delete, regenerate | repository, manager, reloader |
| Synchronisation `service/proxy_host_sync.go` | none of its own | write all, test, remove the host nginx names, reload, record | manager, repository; start-up, settings |
| Repository and cache `repository/proxy_host.go`, `pkg/cache` | table row, cached row (5 min) | get, update, status, favourite, delete | PostgreSQL, Valkey |
| Certificates `service/certificate*.go`, `pkg/acme`, `scheduler/renewal.go` | row, two files and their backups, lock in Valkey | issue, renew, upload, replace, delete, delete those in error | certificate authority, nginx |
| Pages `ui/src/components` | entries of the query cache, dialogs, drafts, requests in flight | show, poll, refetch, open, edit, submit | the HTTP API through `ui/src/api` |
| Proxy host form `proxy-host/hooks/useProxyHostForm.ts` | fields, lookups, a certificate order, the requests of a submission | submit, order and wait, save host, save extras, regenerate, close | the HTTP API |
| Bans `service/waf_auto_ban.go`, `service/fail2ban.go` | event windows, ban rows, history | count, ban, expire, unban | proxy host service |
| Sessions `service/auth.go`, `middleware/` | sessions, temporary 2FA tokens, API tokens, counters | log in, verify, refresh, revoke, limit | all handlers |
| Filter lists and cloud ranges `service/filter_subscription.go`, `service/cloud_provider.go` | subscriptions, entries, shared files | refresh, retry, subscribe, exclude | synchronisation |
| Redirect hosts, default server `nginx/redirect_config.go` | rows, files | create, update, delete | manager |
| Settings, backup, logs, challenge, GeoIP, statistics, access lists | rows; buffers of log lines | single-table operations; batch insert | synchronisation where nginx is affected |

What makes it hard:

* **Concurrency.** Requests, schedulers and timer callbacks are goroutines. The manager
  serialises its own operations, but a request reads, writes its row, calls the manager and
  records the result in separate steps with no lock around them, and
  `UpdateWithoutReload`, the rollback of `Create`, `UpdateDBOnly` and `SyncAllConfigs` write
  files without the mutex. Issuance and renewal go on in goroutines after their request was
  answered; only renewals have a lock, and it expires.
* **Partial failure.** An operation writes up to three files before nginx judges them; each
  must be put back. A `docker exec` may fail or time out before or after it took effect.
  A statement may fail after the files were changed. A certificate and its key are two files.
* **Crash.** The row and the files are changed in separate steps; the start-up
  synchronisation must repair whatever a crash interrupted.
* **Ordering.** `time.Timer.Stop` does not stop a callback that has begun; a cache fill may
  overtake an invalidation. In the browser, answers arrive after the dialog they were asked
  from is gone, a fetch crosses the change it does not see, two clicks become two requests.
* **Limits.** Auto-recovery removes at most five hosts (`maxAutoRecoveryAttempts`); a
  renewal lock lives ten minutes; the form waits two minutes for a certificate.

What makes each component correct: the manager leaves valid files and runs what is on disk,
whatever was rejected; the reloader loses no request, and serves each once requests pause;
the service leaves the row, the files and nginx in agreement and no file without an owner,
as long as every domain has a file of its own; the synchronisation takes down only hosts
nginx rejects, and records them; a restart repairs; the cache never invents a row, and an
update changes what it names; a certificate on disk is there with the key it came with, and
a renewal that fails keeps the old one in use; the pages show what was done on them and land
answers where they belong; the form says "complete" only when nginx runs what the database
says; calls end.

## 2. Modules

    NginxReloader                      HostCache
      '- NginxReloader_proofs            '- HostCache_proofs
    NginxManager  ==> ServedConfig     Certificates
      |- NginxManager_proofs             '- Certificates_proofs
      '- ProxyHosts                    WebApi
           |- ProxyHosts_proofs          |- WebScreen
           '- ConfigSync                 |    |- WebHosts, WebSecurity, WebLogs, WebSettings
                '- ConfigSync_proofs     |         '- WebClient
                                         |              '- WebClient_proofs
                                         '- HostForm
                                              '- HostForm_proofs

ConfigSync_proofs also extends ProxyHosts_proofs, whose lemmas it takes further.

A module extends the one above it; `==>` is a refinement. `MC*.tla` give the constants of
the runs. Mutants (`..._NoCleanup`, `..._KeepsLock`, ...) stand before the definition they
change; no specification uses them, they show that a property notices the mistake they make.

**NginxManager** - `disk` is what is in the directory: for a file name the datum its
configuration was generated from, for a host the contents of its WAF file and whether its
cloud-provider include exists. `running` is the disk nginx last loaded. Content is
abstracted to what `nginx -t` distinguishes (`Valid`): a rejected body, an include that is
missing, and zones (upstream, rate limit) declared twice, which two files of one host do.
`lock` is `globalNginxMutex`; `mpc` and `job` are the position and the local variables of
each goroutine in `executeWithLock`: its backups are taken on entry. Every write of a file
is an action (`WriteInclude`, `WriteConf`, `WriteWAF`, `RemoveOld`, `RemoveFiles`), and so are
the test, the reload and the rollback, which differs between the three operations that
have one (`RestoredGenerate`, `RestoredCleanup`, `RestoredWAF`) exactly as in the code.
`Cancel` is a context that ends while the caller waits, `FileError` a write that fails.
The lock is held from `Acquire` to the end of the operation.

**ServedConfig** - what the manager promises to whoever is served: one variable, the
configuration in force, changed by whole operations on one host (`Configure`, `RenewWAF`,
`Remove`) of data nginx accepts. NginxManager implements it with
`served <- InForce(running)`: all its steps but a successful reload or restart are stutters.

**NginxReloader** - one action per critical section of `r.mu`: `RequestReload`,
`RequestReloadImmediate`, `Flush`, `ExecuteReload` and `RecordReload`; `Fire` is the timer that
starts its callback. A timer that `Stop` comes too late for is in state `fired`. `disk`,
`loaded` and `asked` count configurations so that a lost request can be told.

**ProxyHosts** - `db` and `status` are the rows and `config_status`; `pc` and `loc` the steps
and local variables of each request. The `body` of a row stands for every setting that only
changes the text of the file, those of other tables (WAF rules, bots, access lists, ...)
included. Its `domain` is the first domain of the host, `FileOf` what `sanitizeFilename` makes
of it: two domains (`*.a.b` and `a.b`, `a_b.c` and `a.b.c`, `A.b` and `a.b`) may have one file,
while `DomainTaken`, as `CheckDomainExists`, compares domains. Each statement, each write of
files outside the mutex, and each call of the manager is an action; a call goes on as in
NginxManager (`ManagerStep`) and comes back as `Succeeded`, `Failed`, `Tested` or `Restore`.
`owed` remembers hosts whose files `UpdateDBOnly` left to a later `RegenerateConfigForHost`, and
in ConfigSync those a synchronisation that gave up left to a later one. Reads in ProxyHosts are
of the table; the cache before it is the subject of HostCache.

**ConfigSync** - extends `pc` by the steps of `SyncAllConfigsWithDetails`. `SyncRecover` removes
the host nginx's message names: `Blamable` is the files a message may name, `FoundByDomain` the
hosts `findHostByDomain` may take it for. That function reads a domain from the name of the
file, a dot for every underscore, and compares by prefix; which file leads to which domain is
the constant `Matches`, so that a wildcard may lead to nobody and `a.b` to `a.b.c`. `Crash`
drops every goroutine, the mutex and the pending reload, and keeps the table, the files and
nginx; `Restart` synchronises before the API serves.

**HostCache** - each SQL statement and each cache command is an action; a cache command
may fail. `DeleteReferenced` is the deletion of a certificate or an access list: the foreign keys
(`ON DELETE SET NULL`) clear the columns that name it in every row (`Cleared`), nothing tells
the cache, and a later `Write` that names it is refused (`Exist`). `past` is a history variable:
every value the columns of a row have had; `alone` says that no two calls overlapped so far
and no cache command failed.

**Certificates** - one certificate. A PEM pair is a number; `files` and `backup` hold, for the
certificate and the key each, the pair they belong to, nothing, or the torn rest of a write;
`row` is the status, the pair in the PEM columns and whether the paths were recorded; `loaded`
the pair nginx has loaded. A pair is what came together; the constant `Unmatched` has those
whose key, when they are uploaded, is another certificate's, which nobody but nginx notices
(`Fits`). `task` is the step and the local variables of each goroutine, among them the row a
renewal read before it took the lock. Six operations run through the steps they share: `Order`
is the certificate authority (or the generation of a self-signed pair), `SaveCert` and `SaveKey`
the two writes of `SaveCertificateFiles`, `BackUp` and `Restore` the functions of
`BackupCertificateFiles`, `Reread` and `GiveBack` the status a failure leaves. `Lock` goes on
without the lock when Valkey fails, `Expire` is its ten minutes, and each step that can fail
does so while `faults < MaxFaults`. `orderly` and `alone` are history variables: only renewals
under their locks overlapped; nothing did.

**WebApi** names the calls of `ui/src/api`: the data (tables, logs, ...) each reads or writes,
foreign keys with their `ON DELETE` included, and whether its 401 signs the session out, which
depends on the wrapper a call goes through. **WebScreen** is the vocabulary of a component: what
it shows under which key, what a mutation sends and invalidates, when its control is disabled,
what closes its dialog, what becomes of its draft. **WebHosts**, **WebSecurity**, **WebLogs**
and **WebSettings** describe each page, list, dialog and form of the interface in these words:
56 of them, with 102 controls that send a request, the tabs of the host form among them.

**WebClient** - the behaviour of any of them: one control and one entry of the query cache. A
behaviour begins by choosing the pair (`scene`) among all controls and all queries whose data
they may change or that they use. `server`, `entry` and `fetch` carry versions of the data;
`crossed` marks a fetch that an invalidation could not give up. `jobs` are the requests of the
control in the order they were sent, `here` says that the dialog a request was sent from is
still the one that is open. `Mount`, `Focus`, `Age`, `Collect`, `Invalidate` are the rules of
the query cache with the options of `main.tsx`; `Other` is somebody else's change. The controls
that lack a guard are listed by name (`NotRefreshed`, `UsedAgain`, `LeftEarly`, `FilledAnew`,
`BanForms`). That every other control of the tables has the guard is said once, in five
assumptions without parameters (`RefreshAssumption`, `DisabledAssumption`, ...), which TLC
evaluates.

**HostForm** - the submission of `useProxyHostForm.ts`: `step` is where `handleSubmit` and the
mutations are; `typed` the fields (one datum for the host, the access list, one for each extra
setting), `shown` what the lookups that fill them answered, `stored` and `host` the rows,
`applied` that nginx runs them. `NewRow` is the row an update leaves: a field that is undefined
is not sent, and stays. GeoIP and the cloud providers are columns of one row, which a deletion
of the first takes with it (`Deletes`). `HostFails`, `ExtraFails` and `RegenerateFails` include
an answer that is lost after the work was done. `left`, `asShown`, `request` and `swallowed` are
history variables for the properties.

## 3. What is checked

Twelve runs. "Proved" says that TLAPS also shows the property for every value of the
constants (section 5).

| run | instance | properties |
|---|---|---|
| `reloader` | 2 callers, 3 timers, 3 configurations | `TypeOK`, `PendingHasTimer`, `NoLostReload` (all proved), `RequestServed` |
| `manager_rollback` | 2 goroutines, 2 hosts; generate, WAF only and remove, with bodies nginx rejects, no failing commands | `TypeOK`, `FailSafe`, `DiskIsRunning`, `ServedAtomically` (all proved) |
| `manager_ends` | 2 goroutines, 1 host with two names, all seven operations, failing commands and writes | `ReloadIsTested` (proved), `CallReturns` |
| `hosts_serial` | 1 client, 2 hosts, 2 domains with a file each, all eight requests, no rejected bodies | `ServiceTypeOK`, `DBIsNginx`, `NoOrphans` (all proved) |
| `hosts_end` | 2 clients on 1 host, failing commands, writes and statements, rejected renames | `RequestEnds` |
| `sync_crash` | 3 hosts that may be rejected, 2 attempts, a domain that is not found by its file, a crash in any state; create, update, delete, synchronise | `RestartRepairs`, `RemovedIsMarked`, `RestIsServed`, `RecoversIfItCan` (all proved) |
| `sync_ends` | 2 hosts, 1 attempt, everything fails, domains that are prefixes of one another | `SyncTypeOK` (proved), `RestartEnds` |
| `cache` | 2 clients, 1 host, 2 columns, one a foreign key, 2 values, a cache that may fail | `TypeOK`, `CacheIsCommitted`, `CacheIsRow`, `OnlyRequested` (all proved) |
| `certs` | 2 tasks, 3 providers, 2 pairs, one with another key if uploaded, 1 fault | `TypeOK`, `PairIsWhole`, `RowIsServed` (all proved), `RenewalEnds` |
| `web_pages` | every control with every query that has to do with it, 2 requests, 2 changes | `TypeOK`, `OwnWritesShown`, `ForItsHost`, `LastRequestWins`, `LandsOnItsDialog`, `RefetchKeepsEdits` (all proved), `CatchesUp` |
| `host_form` | GeoIP and cloud providers, 2 values, 1 certificate order | `TypeOK`, `CompleteIsTrue`, `CertificateIsThere`, `ClosesItsForm` (all proved), `SubmissionEnds` |
| `manager_cloud` | a host changes its cloud blocking | `FailSafe` violated |

What the runs say, in words:

* *Rollback.* After any sequence of generations, WAF regenerations and removals, rejected or
  not, nginx would start with what is on disk, and runs it. Whoever is served sees the
  configuration change by whole operations (`ServedAtomically`, the refinement).
* *Reloads.* However Stop, callbacks, immediate requests and flushes interleave, a request is
  never lost, and once requests pause it is served by a reload that started after it, unless
  that reload fails.
* *Requests, one at a time.* If every domain has a file of its own, nginx serves each enabled
  host as its row says, and no file is left for a host that is deleted, disabled or renamed.
* *Auto-recovery.* A synchronisation alone takes down only hosts nginx rejects, serves all
  the others, and gives up only when more are rejected than it has attempts, or one is that its
  file does not lead back to, also after crashes.
* *Crash.* Unless it gives up, after a crash at any step of a creation, an update that keeps
  domain and switch, a deletion or a synchronisation, the start-up synchronisation brings the
  files, nginx and `config_status` in line with the rows, leaves no file over, and nginx would
  start with them. The hosts a synchronisation that gave up has left as they were are `owed` a
  later one.
* *Cache.* One client at a time sees the table through the cache, but for references the foreign
  keys have cleared, and an update changes what it names. With several, or with failing cache
  commands, what is seen was at least committed once.
* *Certificates.* Renewals exclude one another while their locks live. Whatever single step
  fails, a certificate that counts as issued has the key beside it that it came with; without
  faults or overlaps the row, the files and nginx agree, unless an upload has another key; and
  no renewal stays "renewing".
* *Pages.* For each of 387 pairs of a control and an entry it changes, either the entry shows
  the change or it is one of the exceptions the properties name: 136 pairs are always
  refreshed, the others may be up to 30 seconds old. The same for controls that may be used
  twice, dialogs that can be left, and forms that are filled anew.
* *Form.* "Complete" appears only when nginx runs the rows, whatever was refused, lost, typed
  or looked up before, and what the form showed, but for two losses: an access list that was to
  be taken away stays, and cloud providers go with a GeoIP restriction that is switched off. A
  host is never saved with a certificate that was not issued.
* *Progress.* Calls of the manager, requests, restarts, renewals, submissions and polls end.

### Bounds

Two goroutines are enough for a mutex to be contended and for two requests to interleave; a
third client repeats what the second does. Two names and two hosts make a rename, a clash and an
unaffected neighbour possible; `sync_crash` has a third host, so that rejected, served and
disturbed hosts can meet, and has two attempts (five in the code, a constant `MaxAttempts`
here); `sync_crash` and `sync_ends` have fewer attempts than hosts, and the first is checked up
to the names of the hosts, which nothing depends on (`HostSymmetry`). Three timers let a
callback be late while another is armed and a third is reloading. Bodies are `good`, `other` and
`bad`: two that differ and one that is rejected. A row of `cache` has a column that is a foreign
key and one that is not. Two certificate tasks are an overlap; two pairs are an old and a new
one (of two overlapping renewals one may then be refused by the authority); one fault may be any
statement, file, command or crash. Two requests of a control can be reordered, and two changes
make an entry be behind by its own or by somebody else's. Two extra settings are one that is
deleted at its default and one whose 401 ends the session, and share a row; an order may fail,
and the submission be tried again without. `MaxWrites` bounds the configurations the callers of
the reloader write, not their requests: a request may be made with nothing new, as often as one
likes.

Ids are not reused, so that the supply of hosts bounds creations: when it is spent and
nothing is enabled the system stops, which is why the runs of ProxyHosts and ConfigSync
have `CHECK_DEADLOCK FALSE`; so do `certs`, where a deleted certificate leaves nothing to do,
and `host_form`, where a form that is closed is over. The manager, the reloader, the cache and
the pages are checked for deadlock.

### Fairness

`WF` on the steps of a goroutine that is not waiting: Go's scheduler runs it and every `docker
exec` has a timeout. `SF` on `Acquire`, because `sync.Mutex` hands the lock to a goroutine that
has waited for a millisecond. Timer callbacks have `WF`: the runtime fires timers. `WF` on the
steps of a certificate task: orders, statements and file operations end, well or not. In the
browser `WF` on a submission that is answered or whose connection ends, `WF` on the timer of a
polled entry, and `SF` on the answer to a fetch, since a server that is asked again and again
answers some time. No fairness is assumed of clients (they need not call), of `Crash` or
`Expire`, or of a command's success: `RequestServed` and `RestartEnds` hold when every reload
fails, and `SubmissionEnds` when no certificate is ever issued.

### Where the code and its documents differ

One run shows a disagreement as a counterexample:

* `manager_cloud`: a change that drops the cloud-provider blocking of a host removes the include
  before the test; the rollback restores the configuration that includes it.

The models have more behaviours that the passing runs leave out, or except, on purpose, most of
them named in a hazard of `PROJECT.json`. Changing the configuration of a run as described shows
it.

* `RequestServed` without its exception: requests that keep coming within the debounce window
  put the reload off for ever.
* `NoOrphans` with two clients that delete one host: the second takes "no such row" for a
  failed deletion and generates the configuration again.
* `DBIsNginx` with two clients, or with rejected bodies: the row is written before nginx is
  asked, and `Update` neither restores it nor records the rejection; two updates may write
  rows in one order and files in the other.
* `FailSafe` with `cleanup` in `Ops`: a host without an old file that is enabled under a new
  name with settings nginx rejects keeps the rejected file.
* `ReloadIsTested` in ProxyHosts with `updateWithoutReload` and two clients: that request
  writes between the test and the reload of the other.
* `DBIsNginx`, `NoOrphans`, `RestIsServed`, `RestartRepairs` and `RemovedIsMarked` with domains
  that share a file (`FileOf`), as `*.example.com` and `example.com` do: the check for a free
  domain does not see it, and the configuration of the first host is overwritten by that of the
  second, or removed with it. One client is enough, and nothing has to fail.
* `RestartRepairs` with `updateWithoutReload` and a rejected body, whose files stay; with a
  crash in a rename, whose old file the synchronisation does not know of, or in an update that
  disables a host, whose file it neither writes nor removes.
* `RecoversIfItCan` without its exception: of a rejected host with only a wildcard, or with an
  underscore in its domain, the file leads to nobody, and the synchronisation gives up at once.
* `RestartRepairs` and `RemovedIsMarked` without their exception (`owed`): a synchronisation that
  gives up has removed files and recorded nothing.
* `RestIsServed` with domains that are prefixes of one another: `findHostByDomain` may take
  the healthy host for the rejected one.
* `CacheIsRow` without its exception: a certificate or an access list is deleted, and the cached
  row goes on naming it for up to five minutes, in which every partial update of that host is
  refused by the foreign key.
* `CacheIsRow` and `OnlyRequested` without `alone`: an invalidation is overtaken, or lost, and
  the next update writes the old columns back.
* `PairIsWhole` without `orderly`, or with two faults: a replacement or an expired lock lets two
  tasks write the two files in turn; a backup that failed cannot be restored. Without
  `row.saved`: a certificate in error whose renewal fails becomes issued without files.
* `RowIsServed` without `alone`: a renewal read its row before another one finished. With an
  uploaded pair that does not match: the row says issued, and nginx does not take it.
* `RenewalEnds` without its exception: after a crash a certificate stays "renewing", and the
  scheduler skips it.
* `ForItsHost` without its two exceptions: the ban forms of the log pages ban for every host
  if the host of the entry has not been looked up yet.
* `OwnWritesShown`, `LastRequestWins`, `LandsOnItsDialog` and `RefetchKeepsEdits` without the
  sets they except (`NotRefreshed`, `UsedAgain`, `LeftEarly`, `FilledAnew` in WebClient): the
  controls of the tables whose code lacks the guard in question, among them the host form and
  its tabs, whose fields are filled anew, saved by a timer, or forgotten with the tab.
* `ClosesItsForm` without its exception: a form left during a certificate order creates its
  host all the same, and then closes whichever form is open.
* `CompleteIsTrue` without `asShown`: a form submitted before its lookups answered saves
  defaults over the extra settings; without `swallowed`: an extra setting that could not be
  saved is only logged; without `KeepsAccess`: "no access list" is left out of the request, and
  the row keeps the one it had; without `MayLoseCloud`: an update that switches GeoIP off and
  blocks cloud providers sends the deletion of the one and the other at the same time, both
  change one row, and if the deletion comes second "complete" is shown and nothing is blocked.

## 4. What is not modelled

Inside the modelled parts: the text of the files; a rename inside `writeFileAtomic` is atomic;
removals and the writes of a rollback of the manager succeed; the include and the configuration
written outside the mutex are one step; every host has a rate limit or an upstream, so that two
files of one host clash; domains and file names are values, with `FileOf` and `Matches` between
them, and a host has one domain (others only add to `Matches`); the file nginx blames is any
file that is at fault. Cloning a host, the connection tester,
`RegenerateConfigsForCloudProviders` and `RegenerateConfigsForExploitRules` are not modelled;
`RegenerateConfigsForCertificate` is the step `Notify` of a certificate. Of certificates, the
ACME protocol, that a PEM can be parsed, the progress log, `ClearError` and the choice of the
scheduler (a renewal may begin at any time).

Of the web interface: layout, texts and their translation, charts and maps, the checks of single
fields, the order of rows. The variable parts of a key (page, filter, id) are one value, "any",
the one at hand; a page is not left while its control is used; polling counts as switched on
where it can be; a request whose answer is lost was done or will never be. In HostForm nobody
else changes the host, and one submission is followed: the progress that covers the form does
not keep the keyboard from it, so that during the 800 ms "complete" is shown the form could be
submitted again. A tab of the form that is left forgets the requests it has in flight; what they
do is as for the other controls. The account page, the login, the first set-up and the language
of the user are not modelled, nor is the session they depend on; a logout keeps the entries of
the query cache. About 7200 of the 44000 lines of TypeScript are in components that nothing
reachable from `main.tsx` renders (`system-settings/`, `security-panel/`,
`proxy-host-settings/`, `LogFilters`, `LogModals`, `LogCharts`, `GlobeVisualization`,
`UpstreamPanel`, `URIBlockSettings`, `GeoRestrictionPanel`, `SystemSettings`, ...), and most of
the rest is markup; types and translation tables have no behaviour.

Other components: bans, sessions, filter lists and cloud ranges, redirect hosts, backup and
log collection have logic worth modelling (section 6). Settings, access lists, upstreams,
DNS providers, statistics, GeoIP and the handlers are single statements, aggregations, or
input and output, and what they mean for nginx is in the body of a row; deleting an access
list deletes its row and clears `proxy_hosts.access_list_id` (HostCache has that), and the
hosts that used it are configured anew when next saved.
`PROJECT.json` lists each with its reason.

## 5. What is proved

Eight proof modules, checked by `tlapm` to the last leaf, from the assumptions on the constants
that the modules state (`ProcAssumption`, `FileAssumption`, `RequestAssumption`, ...). A theorem
that needs more says so as a hypothesis of its own, a formula on the constants that the instance
of the run also satisfies, but for `Repairs`, see below; what happens without it is in section
3.

* **NginxReloader_proofs.** `TypeCorrect`, `PendingIsTimed`, `RequestsAreKept`, for any
  callers, timers and bound. `PendingHasTimer` is not inductive by itself: a callback that
  was too late to be stopped clears the handle of a newer timer, so that the proof carries
  it with the types, which say that the handle is of a timer whose callback has not run.
* **NginxManager_proofs.** `TypeCorrect` (types and mutual exclusion), for all seven operations
  with failing commands and writes. `TestedFirst`: what is reloaded is what was tested, because
  everyone else is outside the critical sections. `StaysValid`: with `Settled`, the files
  outside critical sections are always valid. Its invariant says, for the goroutine in the
  critical section, that *putting its backup back* gives valid files (`CanGoBack`), whatever it
  has written so far, and that every configuration on disk is one some caller asked for under
  its own name. `Settled` (no failing writes, no `cleanup`, a host keeps its name and its
  cloud-provider blocking) is needed: without it the rollback of the code does not restore what
  was there (section 3). `RunsWhatIsThere` (`DiskIsRunning`) and `ServesAtomically`, the
  refinement of ServedConfig, need `Reliable`, which is `Settled` and no failing command: a
  reload that is reported to have failed may have been done. Their invariant `MirrorInv` says of
  the goroutine in the critical section that putting its backup back gives *what nginx runs*,
  and how far its own files are written; a reload is then one step of ServedConfig (`Configure`,
  `RenewWAF` or `Remove`), and every other step a stutter.
* **HostCache_proofs.** `TypeCorrect` and `Committed`, for any clients, with failing cache
  commands and concurrent deletions. The invariant adds that what a call carries towards the
  cache (`WillCache`) was committed; an update that has not written yet carries something that
  was not, which is why its steps are told apart. `ShowsTheRow` (`CacheIsRow`) and `NothingElse`
  (`OnlyRequested`) are about calls that did not overlap: `AloneInv` says that then at most one
  client is at work, and what it has read of the row and the cache is still so, up to columns
  the foreign keys have cleared since. That an update never brings such a column back rests on
  the check of the foreign keys (`Exist`).
* **Certificates_proofs.** `TypeCorrect`: the types, and for any number of tasks that whoever
  renews has the lock while everything is orderly. Types and lock are preserved together: that a
  lock which expires belongs to nobody at work, and that a renewal which broke off ends
  `orderly`, is what makes the lock part inductive. `Serves` (`RowIsServed`): `RouteInv` says
  which steps each operation goes through, `CleanInv`, of the one task at work, which pair it
  holds and how far the row, the files and nginx have it; nginx has it only if it `Fits`.
  `StaysWhole` (`PairIsWhole`), for `MaxFaults <= 1`: renewals may overlap, and `OrderInv` says
  which task may still write, that what it would restore is whole, and that a fault leaves none
  for its restore; with a second fault the restore itself may fail.
* **HostForm_proofs.** `TypeCorrect`; `CertificateFirst` (the order a submission goes on with was
  issued, in every step before the host is saved); `OwnFormOnly` (whose invariant says that a
  submission whose form was left has its order behind it); `CompleteTells`, for any settings and
  values: between the answer to the host and the end, each extra setting is stored as typed
  or is in flight with what was typed (`ExtraOK`), but for the cloud providers of an update that
  switches GeoIP off (`MayLoseCloud`); the access list is the one typed unless that is none.
* **ProxyHosts_proofs.** `TypeCorrect` (`ServiceTypeOK`), for any clients, requests and
  failures: whoever is past its read has a row. `ServesTheRows` (`DBIsNginx`) and `LeavesNoFile`
  (`NoOrphans`), for any hosts, domains and rows and all eight requests, when there is one
  client (`Serial`), nothing fails, no body is rejected and no two domains share a file
  (`Untroubled`). Without these the properties do not hold of the code: requests are not
  serialised, a failed update keeps its row, and files are shared. `SerialInv` says that the
  files of every host nobody works on are those of its row (`OnDisk`), that nginx has them or a
  reload is to come, and of the request at work where its files, its row and its call of the
  manager are. It needs that the files of two hosts are apart, which `DomainTaken` gives because
  domains have different files, and that a renamed host leaves its old file free.
* **ConfigSync_proofs.** `SyncTypeCorrect` (`SyncTypeOK`), for any clients, failures and
  crashes. `RestRunsOn` (`RestIsServed`), for one client, any hosts and rejected bodies, any
  number of attempts, failing nginx commands and crashes in any state, under `Recoverable`:
  writes to files and rows do not fail, no update changes a domain, no two domains share a file,
  and a file leads to no other host than its own, though it may lead to none (`findHostByDomain`
  may otherwise take down the wrong host, section 3). `OwnInv` is what a crash in the middle of
  anything leaves true: every file belongs to a host that exists and has that file. So the file
  nginx blames is a listed host's, and of a listed host everything but the body is in order once
  it is written (`BlamedIsBad`). `GivesUpOnlyThen` (`RecoversIfItCan`) adds `RecoverInv`: an
  attempt takes down exactly one host more, so that a synchronisation which has used them all
  has as many rejected hosts behind it and one before it; or it has met a rejected host that its
  file does not lead back to (`Unfound`), which the property excepts. Its hypothesis `Recovers`
  adds that commands do not fail, that every host is enabled, which puts each file's host on the
  list (the file of a host that `UpdateDBOnly` has disabled is not found there), and that there
  are finitely many hosts. `RestartRepaired` (`RestartRepairs`) and `RemovedMarked`
  (`RemovedIsMarked`) hold under `Repairs`: `Recovers`, no more hosts than attempts, every file
  leads back to its domain, no update that saves a rejected body, and no request that leaves the
  test to later (`updateWithoutReload`, `refreshWithoutReload`). Then a synchronisation never
  gives up, and what it may otherwise leave `owed`, as in the run, is not needed: the files are
  valid whenever the API serves. Creations may be rejected, at any step, and crash. While the
  API serves, `RepairInv` has every host but the one a request works on `Fine`: its file is one
  nginx accepts, and is on disk and in nginx as its row says, or its body is rejected, it has no
  file and is marked in error. `Midway` says how far the request at work is with its own host. A
  crash leaves nothing of that but `OwnInv`; what brings it back is what a synchronisation has
  tested and recorded (`Recorded`): it never gives up (`NeverGivesUp`), and at its end every
  host is fine (`AllFine`).
* **WebClient_proofs.** `TypeCorrect`, `ShowsOwnWrites` (`OwnWritesShown`), `LastWins`
  (`LastRequestWins`), `LandsOnIts` (`LandsOnItsDialog`), `KeepsWhatIsTyped`
  (`RefetchKeepsEdits`) and `GoesToItsHost` (`ForItsHost`), for every control and entry and any
  number of requests and changes. The provers do not expand the merge of functions (`@@` of
  module TLC) the tables of queries are built with, so that all the proofs know of the pages are
  the five assumptions, which have no parameters and are therefore settled by TLC once and for
  all. `OwnInv` adds to `OwnWritesShown` that an answer under way, if no change crossed it, has
  what the control did too; `RequestInv`, that requests are numbered in the order they were
  sent, that a disabled control has one in flight at most, and that at most one dialog belongs
  to a request. `FormTypes` carries `TypeOK`: a dialog that closes as its request starts is no
  request's dialog.

Only model-checked: liveness (`RequestServed`, `CallReturns`, `RequestEnds`, `RestartEnds`,
`RenewalEnds`, `SubmissionEnds`, `CatchesUp`), which is out of the prover's reach. Every
invariant and every action property of a passing run is proved.

## 6. Plan

What is left, in this order:

1. **Bans** - windows, threshold, ban, expiry and history, over the row of a host; the
   abstract specification is a set of banned addresses with expiry times, refined by the
   two-statement ban of `repository/rate_limit.go`.
2. **BatchRegenerate** - the batch regenerations of `proxy_host_sync.go` composed with
   ProxyHosts (a stale list of hosts is written while requests run).
3. **Sessions** - log in with two factors, refresh, revocation and the rate limiter, with the
   account page and the login of the interface.
4. **FilterRefresh** - periodic refresh, retry and replacement of entries, shared files.
5. **Redirect hosts** over the manager, **LogBuffer**, **Backup**.
6. Proofs: those of these modules; of the present ones only liveness is left.
