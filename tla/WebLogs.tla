------------------------------ MODULE WebLogs ------------------------------
(* The pages of the interface that show logs, and what can be done about an   *)
(* entry of a log: ban the address, block the URI, switch the rule off.       *)
EXTENDS WebScreen

-----------------------------------------------------------------------------
(* Access, error and WAF logs.                                                *)
LogViewerShows == {
  Polled(Shows(<<"logs", "any">>, LogsApi.fetchLogs)),
  Polled(Shows(<<"log-stats", "any">>, LogsApi.fetchLogStats)),
  Shows(<<"log-settings">>, LogsApi.fetchLogSettings)}

LogViewer == Page(LogViewerShows, Nothing, Nothing, NoDrafts)

\* The settings dialog of the log page.
LogSettingsModal ==
  Page({}, [save    |-> Sends(LogsApi.updateLogSettings, {<<"log-settings">>}),
            cleanup |-> Sends(LogsApi.cleanupLogs, {<<"logs">>, <<"log-stats">>})],
       [save |-> ClosesAfter(BusyHere), cleanup |-> StaysOpen(BusyHere)],
       [save |-> KeepsEdits(<<"log-settings">>)])

\* The host of an entry, looked up when one of the forms below opens.
HostOfEntry == Shows(<<"proxyHostByDomain", "any">>, GuardedGet({"proxy_hosts"}))

\* An entry of the log.  With the host not looked up yet, a ban is one for every host.
LogDetailBan == [ban |-> Within(<<"proxyHostByDomain", "any">>, Sends(BansApi.banIP, {<<"banned-ips">>}))]

LogDetailBlock == [
  blockURI |-> Within(<<"proxyHostByDomain", "any">>,
                      Sends(URIBlocksApi.addURIBlockRule, {<<"uriBlock", "any">>}))]

LogDetailDisable ==
  LET refreshes == {<<"global-waf-rules">>, <<"waf-rules">>, <<"waf-hosts">>}
  IN [disableEverywhere |-> Sends(GlobalWAFApi.disableGlobalWAFRule, refreshes),
      disable           |-> Sends(WAFHostsApi.disableWAFRuleByHost, refreshes)]

LogDetailBanForm == [ban |-> ClosesOwn(BusyHere)]

LogDetailForms == [blockURI          |-> ClosesOwn(Waits(BusyHere)),
                   disableEverywhere |-> ClosesOwn(BusyHere),
                   disable           |-> ClosesOwn(BusyHere)]

LogDetailModal == Page({HostOfEntry}, LogDetailBan @@ LogDetailBlock @@ LogDetailDisable,
                       LogDetailBanForm @@ LogDetailForms, NoDrafts)

RelatedLogsModal == Page({Shows(<<"related-logs", "any">>, LogsApi.fetchLogs)}, Nothing, Nothing, NoDrafts)

-----------------------------------------------------------------------------
(* What the exploit rules blocked.                                            *)
ExploitLogShows == {
  Shows(<<"exploit-rules">>, ExploitRulesApi.fetchExploitRules),
  Polled(Shows(<<"exploit-block-logs", "any">>, LogsApi.fetchLogs)),
  Polled(Shows(<<"exploit-block-total", "any">>, LogsApi.fetchLogStats))}

ExploitBlockLogs == Page(ExploitLogShows, Nothing, Nothing, NoDrafts)

ExploitLogSends == [
  excludeEverywhere |-> Sends(ExploitRulesApi.addGlobalExploitExclusion, {<<"exploit-rules">>}),
  exclude           |-> Sends(HostExploitRulesApi.addHostExploitExclusion, {<<"exploit-rules">>}),
  ban               |-> Within(<<"proxyHostByDomain", "any">>, Sends(BansApi.banIP, {<<"banned-ips">>}))]

ExploitLogBanForm == [ban |-> ClosesOwn(BusyHere)]

ExploitLogExceptionForm == [excludeEverywhere |-> ClosesOwn(BusyHere), exclude |-> ClosesOwn(BusyHere)]

ExploitLogDetail == Page({HostOfEntry, Shows(<<"exploit-rule-hosts">>, HostExploitRulesApi.fetchExploitRuleHosts)},
                         ExploitLogSends, ExploitLogBanForm @@ ExploitLogExceptionForm, NoDrafts)

-----------------------------------------------------------------------------
(* Logs that are only read.                                                   *)
BotFilterLogs == Page({Polled(Shows(<<"bot-filter-logs", "any">>, LogsApi.fetchLogs)),
                       Polled(Shows(<<"bot-filter-stats", "any">>, LogsApi.fetchLogStats)),
                       Polled(Shows(<<"bot-filter-total", "any">>, LogsApi.fetchLogStats))},
                      Nothing, Nothing, NoDrafts)

SystemLogViewer == Page({Polled(Shows(<<"system-logs", "any">>, SystemLogsApi.fetchSystemLogs)),
                         Polled(Shows(<<"system-log-stats">>, SystemLogsApi.fetchSystemLogStats)),
                         Shows(<<"log-sources">>, SystemLogsApi.fetchLogSources)},
                        Nothing, Nothing, NoDrafts)

\* Every change above leaves a line in the audit log.
AuditLog == Page({Shows(<<"audit-logs", "any">>, Get({"audit"})),
                  Shows(<<"api-token-logs", "any">>, Get({"audit"}))}, Nothing, Nothing, NoDrafts)

-----------------------------------------------------------------------------
(* The files nginx writes.                                                    *)
RawLogShows == {
  Shows(<<"systemSettings">>, SystemSettingsApi.getSystemSettings),
  Shows(<<"logFiles">>, LogFilesApi.getLogFiles)}

RawLogSends == [
  save   |-> Sends(SystemSettingsApi.updateSystemSettings, {<<"systemSettings">>, <<"logFiles">>}),
  view   |-> Sends(LogFilesApi.viewLogFile, {}),
  rotate |-> Sends(LogFilesApi.triggerLogRotation, {<<"logFiles">>}),
  delete |-> Sends(LogFilesApi.deleteLogFile, {<<"logFiles">>})]

RawLogSettings == [save |-> Busy, rotate |-> Busy]

RawLogDialogs == [view |-> ClosesAfter(BusyHere), delete |-> ClosesAfter(Busy)]

RawLogFiles == Page(RawLogShows, RawLogSends, RawLogSettings @@ RawLogDialogs,
                    [save |-> EditsApart(<<"systemSettings">>)])
=============================================================================
