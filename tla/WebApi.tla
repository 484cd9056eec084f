------------------------------- MODULE WebApi -------------------------------
(* The calls of the web interface (ui/src/api): which of the server's data a  *)
(* call reads or writes, and whether its answer 401 ends the session.         *)
EXTENDS TLC

\* A call whose 401 is an error like any other, as with fetch and getAuthHeaders.
Get(data) == [reads |-> data, writes |-> {}, signsOut |-> FALSE]
Send(data) == [reads |-> {}, writes |-> data, signsOut |-> FALSE]

\* A call through client.ts (or logs.ts): its 401 removes the token and reloads the page.
Guarded(call) == [call EXCEPT !.signsOut = TRUE]
GuardedGet(data) == Guarded(Get(data))
GuardedSend(data) == Guarded(Send(data))

-----------------------------------------------------------------------------
AccessListsApi == [
  getAccessLists   |-> Get({"access_lists"}),
  createAccessList |-> Send({"access_lists"}),
  updateAccessList |-> Send({"access_lists"}),
  \* proxy_hosts.access_list_id is ON DELETE SET NULL.
  deleteAccessList |-> Send({"access_lists", "proxy_hosts"})]

RedirectHostsApi == [
  getRedirectHosts   |-> Get({"redirect_hosts"}),
  createRedirectHost |-> Send({"redirect_hosts"}),
  updateRedirectHost |-> Send({"redirect_hosts"}),
  deleteRedirectHost |-> Send({"redirect_hosts"})]

\* The cloud providers a host blocks are in the row of its GeoIP restriction and go with it.
GeoApi == [
  getGeoRestriction    |-> Get({"geo"}),
  setGeoRestriction    |-> Send({"geo"}),
  deleteGeoRestriction |-> Send({"geo", "cloud_blocks"}),
  getCountryCodes      |-> Get({})]

CloudProvidersApi == [
  getProvidersByRegion |-> GuardedGet({}),
  getBlockedProviders  |-> GuardedGet({"cloud_blocks"}),
  setBlockedProviders  |-> GuardedSend({"cloud_blocks"})]

\* What belongs to a host and goes with it (ON DELETE CASCADE).
HostTables == {
  "bans", "uri_blocks", "geo", "cloud_blocks", "bot_filter", "rate_limit", "fail2ban",
  "security_headers", "upstreams", "waf_exclusions", "exploit_exclusions", "host_exclusions"}

ProxyHostsApi == [
  fetchProxyHosts         |-> GuardedGet({"proxy_hosts"}),
  fetchProxyHost          |-> GuardedGet({"proxy_hosts"}),
  createProxyHost         |-> GuardedSend({"proxy_hosts"}),
  updateProxyHost         |-> GuardedSend({"proxy_hosts"}),
  deleteProxyHost         |-> GuardedSend({"proxy_hosts", "waf_history"} \cup HostTables),
  testProxyHost           |-> GuardedGet({}),
  testNginxConfig         |-> GuardedGet({}),
  syncAllConfigs          |-> GuardedSend({"proxy_hosts"}),
  regenerateHostConfig    |-> GuardedSend({}),
  testProxyHostConfig     |-> GuardedGet({}),
  toggleProxyHostFavorite |-> GuardedSend({"proxy_hosts"}),
  cloneProxyHost          |-> GuardedSend({"proxy_hosts", "certificates"})]

CertificatesApi == [
  listCertificates            |-> Get({"certificates"}),
  \* certificate_id of proxy and redirect hosts is ON DELETE SET NULL; the history cascades.
  bulkDeleteErrorCertificates |-> Send({"certificates", "certificate_history",
                                        "proxy_hosts", "redirect_hosts"}),
  getCertificate              |-> Get({"certificates"}),
  createCertificate           |-> Send({"certificates", "certificate_history"}),
  uploadCertificate           |-> Send({"certificates", "certificate_history"}),
  updateCertificate           |-> Send({"certificates"}),
  deleteCertificate           |-> Send({"certificates", "certificate_history",
                                        "proxy_hosts", "redirect_hosts"}),
  clearCertificateError       |-> Send({"certificates"}),
  renewCertificate            |-> Send({"certificates", "certificate_history"}),
  getCertificateLogs          |-> Get({"certificates"}),
  getCertificateHistory       |-> Get({"certificate_history"}),
  downloadCertificate         |-> Get({})]

DNSProvidersApi == [
  listDNSProviders  |-> Get({"dns_providers"}),
  createDNSProvider |-> Send({"dns_providers"}),
  updateDNSProvider |-> Send({"dns_providers"}),
  \* certificates.dns_provider_id is ON DELETE SET NULL.
  deleteDNSProvider |-> Send({"dns_providers", "certificates"}),
  testDNSProvider   |-> Get({})]

UpstreamApi == [
  getUpstream       |-> Get({"upstreams"}),
  updateUpstream    |-> Send({"upstreams"}),
  deleteUpstream    |-> Send({"upstreams"}),
  getUpstreamHealth |-> Get({"upstreams"})]

-----------------------------------------------------------------------------
RateLimitApi == [
  getRateLimit    |-> Get({"rate_limit"}),
  updateRateLimit |-> Send({"rate_limit"}),
  deleteRateLimit |-> Send({"rate_limit"})]

Fail2banApi == [
  getFail2ban    |-> Get({"fail2ban"}),
  updateFail2ban |-> Send({"fail2ban"}),
  deleteFail2ban |-> Send({"fail2ban"})]

\* Bans, as security.ts asks for them.
BansApi == [
  listBannedIPs    |-> Get({"bans"}),
  banIP            |-> Send({"bans", "ban_history"}),
  unbanIP          |-> Send({"bans", "ban_history"}),
  unbanIPByAddress |-> Send({"bans", "ban_history"})]

\* Bans, as banned-ips.ts asks for them through client.ts.
BannedIPsApi == [
  fetchBannedIPs        |-> GuardedGet({"bans"}),
  fetchProxyHostsForBan |-> GuardedGet({"proxy_hosts"}),
  unban                 |-> GuardedSend({"bans", "ban_history"}),
  ban                   |-> GuardedSend({"bans", "ban_history"}),
  fetchIPLogs           |-> GuardedGet({"logs"})]

BanHistoryApi == [
  getIPBanHistory      |-> Get({"ban_history"}),
  getIPBanHistoryStats |-> Get({"ban_history"})]

BotFilterApi == [
  getBotFilter    |-> Get({"bot_filter"}),
  updateBotFilter |-> Send({"bot_filter"}),
  deleteBotFilter |-> Send({"bot_filter"}),
  getKnownBots    |-> Get({})]

SecurityHeadersApi == [
  getSecurityHeaders        |-> Get({"security_headers"}),
  updateSecurityHeaders     |-> Send({"security_headers"}),
  deleteSecurityHeaders     |-> Send({"security_headers"}),
  getSecurityHeaderPresets  |-> Get({}),
  applySecurityHeaderPreset |-> Send({"security_headers"})]

\* Blocked URIs of the hosts; the list of all shows the hosts' names and state.
URIBlocksApi == [
  getURIBlock         |-> Get({"uri_blocks"}),
  updateURIBlock      |-> Send({"uri_blocks", "uri_history"}),
  deleteURIBlock      |-> Send({"uri_blocks", "uri_history"}),
  addURIBlockRule     |-> Send({"uri_blocks", "uri_history"}),
  removeURIBlockRule  |-> Send({"uri_blocks", "uri_history"}),
  listAllURIBlocks    |-> Get({"uri_blocks", "proxy_hosts"}),
  bulkAddURIBlockRule |-> Send({"uri_blocks", "uri_history"})]

GlobalURIBlockApi == [
  getGlobalURIBlock        |-> Get({"global_uri_block"}),
  updateGlobalURIBlock     |-> Send({"global_uri_block"}),
  addGlobalURIBlockRule    |-> Send({"global_uri_block"}),
  removeGlobalURIBlockRule |-> Send({"global_uri_block"})]

\* A host's rules show its own exclusions and the global ones.
WAFHostsApi == [
  fetchWAFRules        |-> Get({"waf_exclusions", "waf_global"}),
  fetchWAFHostConfigs  |-> Get({"waf_exclusions", "proxy_hosts"}),
  disableWAFRule       |-> Send({"waf_exclusions", "waf_history"}),
  enableWAFRule        |-> Send({"waf_exclusions", "waf_history"}),
  disableWAFRuleByHost |-> Send({"waf_exclusions", "waf_history"}),
  fetchWAFPolicyHistory |-> Get({"waf_history"})]

GlobalWAFApi == [
  fetchGlobalWAFRules         |-> Get({"waf_global"}),
  disableGlobalWAFRule        |-> Send({"waf_global", "waf_global_history"}),
  enableGlobalWAFRule         |-> Send({"waf_global", "waf_global_history"}),
  fetchGlobalWAFPolicyHistory |-> Get({"waf_global_history"})]

\* The rules show which are excluded for all hosts.
ExploitRulesApi == [
  fetchExploitRules            |-> Get({"exploit_rules", "exploit_global"}),
  createExploitRule            |-> Send({"exploit_rules"}),
  updateExploitRule            |-> Send({"exploit_rules"}),
  deleteExploitRule            |-> Send({"exploit_rules"}),
  toggleExploitRule            |-> Send({"exploit_rules"}),
  addGlobalExploitExclusion    |-> Send({"exploit_global"}),
  removeGlobalExploitExclusion |-> Send({"exploit_global"})]

HostExploitRulesApi == [
  fetchExploitRuleHosts      |-> Get({"proxy_hosts", "exploit_exclusions"}),
  fetchHostExploitRules      |-> Get({"exploit_rules", "exploit_global", "exploit_exclusions"}),
  addHostExploitExclusion    |-> Send({"exploit_exclusions"}),
  removeHostExploitExclusion |-> Send({"exploit_exclusions"})]

WAFTestApi == [
  fetchAttackPatterns |-> Get({}),
  testAttack          |-> Get({}),
  testAllAttacks      |-> Get({})]

\* A subscription's detail holds its entries and its exclusions.
FilterSubscriptionsApi == [
  fetchFilterSubscriptions |-> GuardedGet({"subscriptions"}),
  fetchFilterSubscription  |-> GuardedGet({"subscriptions", "host_exclusions",
                                           "entry_exclusions"}),
  createFilterSubscription  |-> GuardedSend({"subscriptions"}),
  updateFilterSubscription  |-> GuardedSend({"subscriptions"}),
  deleteFilterSubscription  |-> GuardedSend({"subscriptions"}),
  refreshFilterSubscription |-> GuardedSend({"subscriptions"}),
  fetchFilterCatalog        |-> GuardedGet({"subscriptions"}),
  subscribeFromCatalog      |-> GuardedSend({"subscriptions"}),
  fetchExclusions           |-> GuardedGet({"host_exclusions"}),
  addExclusion              |-> GuardedSend({"host_exclusions"}),
  removeExclusion           |-> GuardedSend({"host_exclusions"}),
  addEntryExclusion         |-> GuardedSend({"entry_exclusions"}),
  removeEntryExclusion      |-> GuardedSend({"entry_exclusions"})]

-----------------------------------------------------------------------------
GlobalSettingsApi == [
  getGlobalSettings    |-> Get({"settings"}),
  updateGlobalSettings |-> Send({"settings"}),
  resetGlobalSettings  |-> Send({"settings"}),
  getSettingsPresets   |-> Get({}),
  applySettingsPreset  |-> Send({"settings"})]

DashboardApi == [
  getDashboard           |-> Get({"statistics"}),
  getSystemHealth        |-> Get({"statistics"}),
  getSystemHealthHistory |-> Get({"statistics"}),
  getContainerStats      |-> Get({"containers"}),
  getGeoIPStats          |-> Get({"logs"}),
  runSelfCheck           |-> Get({"containers"})]

\* Restoring a backup replaces what the rest of the interface shows.
BackupsApi == [
  listBackups    |-> Get({"backups"}),
  createBackup   |-> Send({"backups"}),
  deleteBackup   |-> Send({"backups"}),
  restoreBackup  |-> Send({"proxy_hosts", "redirect_hosts", "certificates", "access_lists",
                           "dns_providers", "settings"}),
  getBackupStats |-> Get({"backups"}),
  downloadBackup |-> Get({}),
  uploadAndRestoreBackup |-> Send({"backups", "proxy_hosts", "redirect_hosts", "certificates",
                                   "access_lists", "dns_providers", "settings"})]

SystemSettingsApi == [
  getSystemSettings    |-> Get({"system_settings"}),
  updateSystemSettings |-> Send({"system_settings"}),
  getGeoIPStatus       |-> Get({"geoip"}),
  triggerGeoIPUpdate   |-> Send({"geoip"}),
  getGeoIPHistory      |-> Get({"geoip"}),
  testACME             |-> Get({})]

LogFilesApi == [
  getLogFiles        |-> Get({"log_files"}),
  viewLogFile        |-> Get({"log_files"}),
  downloadLogFile    |-> Get({}),
  deleteLogFile      |-> Send({"log_files"}),
  triggerLogRotation |-> Send({"log_files"})]

SystemLogConfigApi == [
  getSystemLogConfig    |-> Get({"log_config"}),
  updateSystemLogConfig |-> Send({"log_config"})]

LogsApi == [
  fetchLogs           |-> GuardedGet({"logs"}),
  fetchLogStats       |-> GuardedGet({"logs"}),
  fetchLogSettings    |-> GuardedGet({"log_settings"}),
  updateLogSettings   |-> GuardedSend({"log_settings"}),
  cleanupLogs         |-> GuardedSend({"logs"}),
  fetchDistinct       |-> GuardedGet({"logs"})]

SystemLogsApi == [
  fetchSystemLogs     |-> Get({"system_logs"}),
  fetchSystemLogStats |-> Get({"system_logs"}),
  fetchLogSources     |-> Get({}),
  cleanupSystemLogs   |-> Send({"system_logs"})]

ChallengeApi == [
  getGlobalChallengeConfig    |-> GuardedGet({"challenge"}),
  updateGlobalChallengeConfig |-> GuardedSend({"challenge"}),
  getChallengeStats           |-> GuardedGet({"challenge_log"})]

DockerApi == [fetchDockerContainers |-> GuardedGet({"containers"})]

APITokensApi == [
  getAPITokens   |-> Get({"api_tokens"}),
  createAPIToken |-> Send({"api_tokens"}),
  updateAPIToken |-> Send({"api_tokens"}),
  revokeAPIToken |-> Send({"api_tokens"}),
  deleteAPIToken |-> Send({"api_tokens"}),
  getTokenUsage  |-> Get({"api_tokens"}),
  getPermissions |-> Get({})]

AccountApi == [
  getAccountInfo |-> Get({"account"}),
  setup2FA       |-> Send({}),
  enable2FA      |-> Send({"account"}),
  disable2FA     |-> Send({"account"}),
  changeUsername |-> Send({"account"}),
  changePassword |-> Send({"account"}),
  getLanguage    |-> Get({"language"}),
  setLanguage    |-> Send({"language"}),
  getFontFamily  |-> Get({"font"}),
  setFontFamily  |-> Send({"font"})]
=============================================================================
