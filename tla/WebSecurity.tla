---------------------------- MODULE WebSecurity ----------------------------
(* The pages of the interface about attacks: WAF rules, exploit rules, URI    *)
(* blocks, banned addresses, and subscriptions to block lists.                *)
EXTENDS WebScreen

-----------------------------------------------------------------------------
(* WAF rules for every host: a rule is switched on at once and off through a  *)
(* dialog that closes as the request starts.                                  *)
GlobalWAFShows == {
  Shows(<<"global-waf-rules">>, GlobalWAFApi.fetchGlobalWAFRules),
  Shows(<<"global-waf-policy-history">>, GlobalWAFApi.fetchGlobalWAFPolicyHistory)}

GlobalWAFSends ==
  LET refreshes == {<<"global-waf-rules">>, <<"global-waf-policy-history">>,
                    <<"waf-rules">>, <<"waf-hosts">>}
  IN [disable |-> Sends(GlobalWAFApi.disableGlobalWAFRule, refreshes),
      enable  |-> Sends(GlobalWAFApi.enableGlobalWAFRule, refreshes)]

GlobalWAFDialog == [disable |-> ClosesFirst(Busy)]

GlobalWAFRow == [enable |-> Busy]

GlobalWAFSettings == Page(GlobalWAFShows, GlobalWAFSends, GlobalWAFDialog @@ GlobalWAFRow, NoDrafts)

-----------------------------------------------------------------------------
(* WAF rules of one host.  The buttons of a category send one request for     *)
(* each of its rules; isPending then follows the last of them only.           *)
WAFRulesShows == {
  Shows(<<"waf-rules", "any">>, WAFHostsApi.fetchWAFRules),
  Shows(<<"waf-policy-history", "any">>, WAFHostsApi.fetchWAFPolicyHistory)}

WAFRulesSends ==
  LET refreshes == {<<"waf-rules", "any">>, <<"waf-hosts">>, <<"waf-policy-history", "any">>}
  IN [disable     |-> Sends(WAFHostsApi.disableWAFRule, refreshes),
      enable      |-> Sends(WAFHostsApi.enableWAFRule, refreshes),
      bulkDisable |-> Sends(WAFHostsApi.disableWAFRule, refreshes),
      bulkEnable  |-> Sends(WAFHostsApi.enableWAFRule, refreshes)]

WAFRulesDialog == [disable |-> ClosesFirst(Busy)]

WAFRulesRows == [bulkDisable |-> Free, bulkEnable |-> Free, enable |-> Busy]

WAFRulesModal == Page(WAFRulesShows, WAFRulesSends, WAFRulesDialog @@ WAFRulesRows, NoDrafts)

\* The list of hosts that leads to the dialog above.
WAFSettings == Page({Shows(<<"waf-hosts">>, WAFHostsApi.fetchWAFHostConfigs)}, Nothing, Nothing, NoDrafts)

-----------------------------------------------------------------------------
(* Exploit rules for every host, for one host, and their exceptions.          *)
GlobalExploitSends ==
  LET refreshes == {<<"exploit-rules">>, <<"exploit-rule-hosts">>}
  IN [disable |-> Sends(ExploitRulesApi.addGlobalExploitExclusion, refreshes),
      enable  |-> Sends(ExploitRulesApi.removeGlobalExploitExclusion, refreshes)]

GlobalExploitDialog == [disable |-> ClosesFirst(Busy), enable |-> Busy]

GlobalExploitRules == Page({Shows(<<"exploit-rules">>, ExploitRulesApi.fetchExploitRules)},
                           GlobalExploitSends, GlobalExploitDialog, NoDrafts)

HostExploitSends ==
  LET refreshes == {<<"host-exploit-rules", "any">>, <<"exploit-rule-hosts">>}
  IN [disable |-> Sends(HostExploitRulesApi.addHostExploitExclusion, refreshes),
      enable  |-> Sends(HostExploitRulesApi.removeHostExploitExclusion, refreshes)]

HostExploitDialog == [disable |-> ClosesFirst(Busy), enable |-> Busy]

HostExploitRulesModal == Page({Shows(<<"host-exploit-rules", "any">>, HostExploitRulesApi.fetchHostExploitRules)},
                              HostExploitSends, HostExploitDialog, NoDrafts)

\* The pattern of a rule, opened from either list above.
PatternEditModal ==
  LET refreshes == {<<"exploit-rules">>, <<"host-exploit-rules">>}
  IN Page({}, [update |-> Sends(ExploitRulesApi.updateExploitRule, refreshes)],
          [update |-> ClosesAfter(BusyHere)], [update |-> KeepsEdits(<<"exploit-rules">>)])

ExploitBlockRules == Page({Shows(<<"exploit-rule-hosts">>, HostExploitRulesApi.fetchExploitRuleHosts),
                           Shows(<<"proxy-hosts">>, ProxyHostsApi.fetchProxyHosts)},
                          Nothing, Nothing, NoDrafts)

\* The exceptions of all hosts are one field of the system settings.
GlobalExploitExceptions ==
  Page({Shows(<<"system-settings">>, SystemSettingsApi.getSystemSettings)},
       [save |-> Sends(SystemSettingsApi.updateSystemSettings, {<<"system-settings">>})], [save |-> Busy],
       [save |-> DropsEdits(<<"system-settings">>)])

\* The exceptions of one host are one field of the host.
HostExceptionsModal ==
  Page({}, [save |-> Sends(ProxyHostsApi.updateProxyHost, {<<"proxy-hosts">>})], [save |-> StaysOpen(BusyHere)],
       [save |-> KeepsEdits(<<"proxy-hosts">>)])

-----------------------------------------------------------------------------
(* URI blocks: those of all hosts are edited apart from what is shown, and    *)
(* the edits are given up whenever the entry changes.                         *)
URIBlockShows == {
  Polled(Shows(<<"global-uri-block">>, GlobalURIBlockApi.getGlobalURIBlock)),
  Polled(Shows(<<"uri-blocks">>, URIBlocksApi.listAllURIBlocks)),
  Shows(<<"proxy-hosts-all">>, ProxyHostsApi.fetchProxyHosts),
  Polled(Shows(<<"uri-block-history">>, GuardedGet({"uri_history"})))}

URIBlockSends == [
  toggle     |-> Sends(URIBlocksApi.updateURIBlock, {<<"uri-blocks">>}),
  create     |-> Sends(URIBlocksApi.updateURIBlock, {<<"uri-blocks">>}),
  saveGlobal |-> Sends(GlobalURIBlockApi.updateGlobalURIBlock, {<<"global-uri-block">>, <<"uri-block-history">>}),
  delete     |-> Sends(URIBlocksApi.deleteURIBlock, {<<"uri-blocks">>, <<"uri-block-history">>})]

URIBlockDialog == [create |-> ClosesAfter(Busy)]

URIBlockGlobalTab == [saveGlobal |-> Busy]

URIBlockRows == [toggle |-> Busy, delete |-> Busy]

URIBlockManager == Page(URIBlockShows, URIBlockSends,
                        URIBlockDialog @@ URIBlockGlobalTab @@ URIBlockRows,
                        [saveGlobal |-> Cleared(DropsEdits(<<"global-uri-block">>)),
                         toggle     |-> KeepsEdits(<<"uri-blocks">>)])

\* The dialog of one host.
URIBlockHostSends == [
  update     |-> Sends(URIBlocksApi.updateURIBlock, {<<"uri-blocks">>}),
  removeRule |-> Sends(URIBlocksApi.removeURIBlockRule, {<<"uri-blocks">>}),
  addRule    |-> Sends(URIBlocksApi.addURIBlockRule, {<<"uri-blocks">>}),
  bulkAdd    |-> Sends(URIBlocksApi.bulkAddURIBlockRule, {<<"uri-blocks">>, <<"uri-block-history">>}),
  delete     |-> Sends(URIBlocksApi.deleteURIBlock, {<<"uri-blocks">>, <<"uri-block-history">>})]

\* The switch for private addresses and the removal of an address are not disabled.
URIBlockHostView == [
  update     |-> StaysOpen(Free),
  removeRule |-> StaysOpen(BusyHere),
  addRule    |-> StaysOpen(BusyHere),
  bulkAdd    |-> StaysOpen(BusyHere),
  delete     |-> ClosesAfter(BusyHere)]

URIBlockHostModal == Page({}, URIBlockHostSends, URIBlockHostView,
                          [update |-> KeepsEdits(<<"uri-blocks">>)])

-----------------------------------------------------------------------------
(* Banned addresses and the history of bans.                                  *)
BannedIPShows == {
  Shows(<<"proxy-hosts-list">>, BannedIPsApi.fetchProxyHostsForBan),
  Polled(Shows(<<"banned-ips", "any">>, BannedIPsApi.fetchBannedIPs))}

BannedIPSends == [
  unban |-> Sends(BannedIPsApi.unban, {<<"banned-ips">>}),
  ban   |-> Sends(BannedIPsApi.ban, {<<"banned-ips">>})]

BannedIPRows == [unban |-> Busy]

BannedIPDialog == [ban |-> ClosesAfter(Busy)]

BannedIPList == Page(BannedIPShows, BannedIPSends, BannedIPRows @@ BannedIPDialog, NoDrafts)

BanHistoryTab == Page({Polled(Shows(<<"ip-ban-history", "any">>, BanHistoryApi.getIPBanHistory)),
                       Polled(Shows(<<"ip-ban-history-stats">>, BanHistoryApi.getIPBanHistoryStats))},
                      Nothing, Nothing, NoDrafts)

IPLogsModal == Page({Shows(<<"ip-logs", "any">>, BannedIPsApi.fetchIPLogs)}, Nothing, Nothing, NoDrafts)

-----------------------------------------------------------------------------
(* Fail2ban of each host: the switch sends back the settings shown, the       *)
(* dialog those it was opened with.                                           *)
Fail2banRow == [toggle |-> Sends(Fail2banApi.updateFail2ban, {<<"fail2ban", "any">>})]

Fail2banEditModal == [save |-> Sends(Fail2banApi.updateFail2ban, {<<"fail2ban", "any">>})]

Fail2banManagement == Page({Shows(<<"proxy-hosts">>, ProxyHostsApi.fetchProxyHosts),
                            Shows(<<"fail2ban", "any">>, Fail2banApi.getFail2ban)},
                           Fail2banRow @@ Fail2banEditModal,
                           [toggle |-> Busy, save |-> ClosesAfter(BusyHere)],
                           [toggle |-> KeepsEdits(<<"fail2ban", "any">>),
                            save   |-> KeepsEdits(<<"fail2ban", "any">>)])

\* The tester changes nothing on the server.
WAFTester == Page({Shows(<<"proxy-hosts">>, ProxyHostsApi.fetchProxyHosts),
                   Shows(<<"attack-patterns">>, WAFTestApi.fetchAttackPatterns)},
                  [test    |-> Sends(WAFTestApi.testAttack, {}),
                   testAll |-> Sends(WAFTestApi.testAllAttacks, {})],
                  [test |-> Free, testAll |-> Busy], NoDrafts)

-----------------------------------------------------------------------------
(* Subscriptions to block lists.                                              *)
SubscriptionShows == {
  Shows(<<"filterSubscriptions">>, FilterSubscriptionsApi.fetchFilterSubscriptions),
  Shows(<<"filterSubscriptionDetail", "any">>, FilterSubscriptionsApi.fetchFilterSubscription)}

SubscriptionSends == [
  create    |-> Sends(FilterSubscriptionsApi.createFilterSubscription, {<<"filterSubscriptions">>}),
  addPreset |-> Sends(FilterSubscriptionsApi.createFilterSubscription, {<<"filterSubscriptions">>}),
  delete    |-> Sends(FilterSubscriptionsApi.deleteFilterSubscription, {<<"filterSubscriptions">>}),
  refresh   |-> Sends(FilterSubscriptionsApi.refreshFilterSubscription,
                      {<<"filterSubscriptions">>, <<"filterSubscriptionDetail">>}),
  toggle    |-> Sends(FilterSubscriptionsApi.updateFilterSubscription, {<<"filterSubscriptions">>}),
  exclude   |-> Sends(FilterSubscriptionsApi.addEntryExclusion, {<<"filterSubscriptionDetail">>}),
  include   |-> Sends(FilterSubscriptionsApi.removeEntryExclusion, {<<"filterSubscriptionDetail">>})]

\* Deleting is not disabled; refreshing only for the row that was refreshed last.
SubscriptionRows == [addPreset |-> Busy, delete |-> Free, refresh |-> Busy, toggle |-> Busy,
                     exclude |-> Busy, include |-> Busy]

SubscriptionDialog == [create |-> ClosesAfter(Busy)]

FilterSubscriptionList == Page(SubscriptionShows, SubscriptionSends,
                               SubscriptionRows @@ SubscriptionDialog, NoDrafts)

\* The settings of one subscription: what differs from the row the dialog was opened with is sent.
SubscriptionSettingsModal ==
  Page({Shows(<<"filterExclusions", "any">>, FilterSubscriptionsApi.fetchExclusions),
        Shows(<<"proxyHostsForExclusion">>, ProxyHostsApi.fetchProxyHosts)},
       [update          |-> Sends(FilterSubscriptionsApi.updateFilterSubscription, {<<"filterSubscriptions">>}),
        addExclusion    |-> Sends(FilterSubscriptionsApi.addExclusion, {<<"filterExclusions", "any">>}),
        removeExclusion |-> Sends(FilterSubscriptionsApi.removeExclusion, {<<"filterExclusions", "any">>})],
       [update |-> ClosesAfter(BusyHere), addExclusion |-> StaysOpen(Free), removeExclusion |-> StaysOpen(Free)],
       [update |-> KeepsEdits(<<"filterSubscriptions">>)])
=============================================================================
