---------------------------- MODULE WebSettings ----------------------------
(* The settings pages of the interface, the dashboard, backups, API tokens    *)
(* and the account.                                                           *)
EXTENDS WebScreen

-----------------------------------------------------------------------------
(* Pages that edit the system settings: each keeps its edits apart, sends     *)
(* them alone, and clears them when the request succeeds.                     *)
SystemSettingsEdits == [save |-> EditsApart(<<"systemSettings">>)]

SystemSettingsSends == [save |-> Sends(SystemSettingsApi.updateSystemSettings, {<<"systemSettings">>})]

SystemSettingsShows == {Shows(<<"systemSettings">>, SystemSettingsApi.getSystemSettings)}

MaintenanceSettings == Page(SystemSettingsShows, SystemSettingsSends, [save |-> Busy], SystemSettingsEdits)

WAFAutoBanSettings == Page(SystemSettingsShows, SystemSettingsSends, [save |-> Busy], SystemSettingsEdits)

BotFilterSettings == Page(SystemSettingsShows, SystemSettingsSends, [save |-> Busy], SystemSettingsEdits)

SSLACMESettings == Page(SystemSettingsShows,
                        SystemSettingsSends @@ [test |-> Sends(SystemSettingsApi.testACME, {})],
                        [save |-> Busy, test |-> Busy], SystemSettingsEdits)

GeoIPShows == SystemSettingsShows \cup {
  Shows(<<"geoipStatus">>, SystemSettingsApi.getGeoIPStatus),
  Polled(Shows(<<"geoipHistory">>, SystemSettingsApi.getGeoIPHistory))}

\* An update of the databases refetches the history at once, and both some seconds later.
GeoIPSends == [
  save   |-> Sends(SystemSettingsApi.updateSystemSettings, {<<"systemSettings">>, <<"geoipStatus">>}),
  update |-> Sends(SystemSettingsApi.triggerGeoIPUpdate, {<<"geoipHistory">>, <<"geoipStatus">>})]

GeoIPSettings == Page(GeoIPShows, GeoIPSends, [save |-> Busy, update |-> Busy], SystemSettingsEdits)

-----------------------------------------------------------------------------
(* Settings of their own.                                                     *)
GlobalSettings == Page({Shows(<<"globalSettings">>, GlobalSettingsApi.getGlobalSettings)},
                       [save  |-> Sends(GlobalSettingsApi.updateGlobalSettings, {<<"globalSettings">>}),
                        reset |-> Sends(GlobalSettingsApi.resetGlobalSettings, {<<"globalSettings">>})],
                       [save |-> Busy, reset |-> Busy],
                       [save |-> EditsApart(<<"globalSettings">>)])

ChallengeSettings == Page({Shows(<<"challengeConfig">>, ChallengeApi.getGlobalChallengeConfig),
                           Polled(Shows(<<"challengeStats">>, ChallengeApi.getChallengeStats))},
                          [save |-> Sends(ChallengeApi.updateGlobalChallengeConfig, {<<"challengeConfig">>})],
                          [save |-> Busy], [save |-> EditsApart(<<"challengeConfig">>)])

\* The edits go over the configuration that is shown, and all of it is sent.
SystemLogSettings == Page({Shows(<<"systemLogConfig">>, SystemLogConfigApi.getSystemLogConfig)},
                          [save |-> Sends(SystemLogConfigApi.updateSystemLogConfig, {<<"systemLogConfig">>})],
                          [save |-> Busy], [save |-> Cleared(KeepsEdits(<<"systemLogConfig">>))])

-----------------------------------------------------------------------------
(* The dashboard only shows; its self check runs when it is asked for.        *)
Dashboard == Page({Polled(Shows(<<"dashboard">>, DashboardApi.getDashboard)),
                   Shows(<<"selfCheck">>, DashboardApi.runSelfCheck),
                   Polled(Shows(<<"containerStats">>, DashboardApi.getContainerStats)),
                   Polled(Shows(<<"geoIPStats">>, DashboardApi.getGeoIPStats))}, Nothing, Nothing, NoDrafts)

HostResourcesSection == Page({Polled(Shows(<<"systemHealthHistory", "any">>, DashboardApi.getSystemHealthHistory))},
                             Nothing, Nothing, NoDrafts)

-----------------------------------------------------------------------------
(* Backups, and the settings of the automatic ones.                           *)
BackupShows == SystemSettingsShows \cup {
  Polled(Shows(<<"backups">>, BackupsApi.listBackups)),
  Shows(<<"backupStats">>, BackupsApi.getBackupStats)}

BackupSends ==
  LET refreshes == {<<"backups">>, <<"backupStats">>}
  IN [create        |-> Sends(BackupsApi.createBackup, refreshes),
      delete        |-> Sends(BackupsApi.deleteBackup, refreshes),
      restore       |-> Sends(BackupsApi.restoreBackup, refreshes),
      uploadRestore |-> Sends(BackupsApi.uploadAndRestoreBackup, refreshes),
      save          |-> Sends(SystemSettingsApi.updateSystemSettings, {<<"systemSettings">>})]

BackupRows == [delete |-> Busy, restore |-> Busy]

BackupSettings == [save |-> Busy]

BackupDialogs == [create |-> ClosesAfter(Busy), uploadRestore |-> ClosesAfter(Busy)]

BackupManager == Page(BackupShows, BackupSends, BackupRows @@ BackupSettings @@ BackupDialogs,
                      SystemSettingsEdits)

-----------------------------------------------------------------------------
(* API tokens: revoking and deleting are not disabled, and the fields being   *)
(* edited are those of the row when editing began.                            *)
APITokenShows == {
  Shows(<<"api-tokens">>, APITokensApi.getAPITokens),
  Shows(<<"api-permissions">>, APITokensApi.getPermissions)}

APITokenSends == [
  create |-> Sends(APITokensApi.createAPIToken, {<<"api-tokens">>}),
  update |-> Sends(APITokensApi.updateAPIToken, {<<"api-tokens">>}),
  revoke |-> Sends(APITokensApi.revokeAPIToken, {<<"api-tokens">>}),
  delete |-> Sends(APITokensApi.deleteAPIToken, {<<"api-tokens">>})]

APITokenForm == [create |-> ClosesAfter(Busy)]

APITokenRows == [update |-> ClosesAfter(Busy), revoke |-> Free, delete |-> Free]

APITokenManager == Page(APITokenShows, APITokenSends, APITokenForm @@ APITokenRows,
                        [update |-> KeepsEdits(<<"api-tokens">>)])

=============================================================================
