------------------------------ MODULE WebHosts ------------------------------
(* The pages of the interface about proxy hosts, redirects, access lists,     *)
(* certificates and DNS providers.                                            *)
EXTENDS WebScreen

-----------------------------------------------------------------------------
(* The list of proxy hosts.                                                   *)
ProxyHostShows == {Shows(<<"proxy-hosts", "any">>, ProxyHostsApi.fetchProxyHosts)}

ProxyHostSends == [
  delete    |-> Sends(ProxyHostsApi.deleteProxyHost, {<<"proxy-hosts">>}),
  toggle    |-> Sends(ProxyHostsApi.updateProxyHost, {<<"proxy-hosts">>}),
  favorite  |-> Sends(ProxyHostsApi.toggleProxyHostFavorite, {<<"proxy-hosts">>}),
  clone     |-> Sends(ProxyHostsApi.cloneProxyHost, {<<"proxy-hosts">>, <<"certificates">>}),
  test      |-> Sends(ProxyHostsApi.testProxyHostConfig, {})]

\* Deleting and the star are not disabled while their request is in flight.
ProxyHostRows == [delete |-> Free, favorite |-> Free]

\* The switch asks in a dialog that closes as the request starts; what a test or a clone
\* answers goes to the dialog that is shown then.
ProxyHostDialogs == [toggle |-> ClosesFirst(Busy), test |-> ClosesAfter(BusyHere), clone |-> ClosesAfter(Busy)]

ProxyHostList == Page(ProxyHostShows, ProxyHostSends, ProxyHostRows @@ ProxyHostDialogs, NoDrafts)

\* The button above every page that synchronises all hosts; it refreshes nothing.
SyncButton == Page({}, [sync |-> Sends(ProxyHostsApi.syncAllConfigs, {})], [sync |-> Busy], NoDrafts)

\* The form of a host, and the requests a submission of it makes one after the other; the form
\* that is shown when the last is answered is closed.  Escape leaves it while a certificate is
\* awaited.  What the extra lookups answer fills their fields anew.
ProxyHostFormShows == {
  Shows(<<"certificates">>, CertificatesApi.listCertificates),
  Shows(<<"accessLists">>, AccessListsApi.getAccessLists),
  Shows(<<"dnsProviders">>, DNSProvidersApi.listDNSProviders),
  Shows(<<"botFilter", "any">>, BotFilterApi.getBotFilter),
  Shows(<<"geoRestriction", "any">>, GeoApi.getGeoRestriction),
  Shows(<<"blockedCloudProviders", "any">>, CloudProvidersApi.getBlockedProviders)}

ProxyHostFormSends == [
  order  |-> Sends(CertificatesApi.createCertificate, {<<"certificates">>}),
  create |-> Sends(ProxyHostsApi.createProxyHost, {<<"proxy-hosts">>}),
  update |-> Sends(ProxyHostsApi.updateProxyHost, {<<"proxy-hosts">>}),
  bot    |-> Sends(BotFilterApi.updateBotFilter, {<<"botFilter", "any">>}),
  geo    |-> Sends(GeoApi.deleteGeoRestriction, {<<"geoRestriction", "any">>}),
  cloud  |-> Sends(CloudProvidersApi.setBlockedProviders, {<<"blockedCloudProviders", "any">>})]

ProxyHostFormView == [
  r \in DOMAIN ProxyHostFormSends |->
    IF r \in {"create", "update"} THEN ClosesAfter(BusyHere) ELSE StaysOpen(BusyHere)]

ProxyHostForm == Page(ProxyHostFormShows, ProxyHostFormSends, ProxyHostFormView,
                      [update |-> KeepsEdits(<<"proxy-hosts", "any">>),
                       bot    |-> DropsEdits(<<"botFilter", "any">>),
                       geo    |-> DropsEdits(<<"geoRestriction", "any">>),
                       cloud  |-> DropsEdits(<<"blockedCloudProviders", "any">>)])

\* Its tabs with requests of their own.  A tab that is left forgets what was typed, and what is
\* in flight.  An effect fills the upstream anew; the question before a deletion is closed by the
\* answer.
UpstreamTab == Page({Shows(<<"upstream", "any">>, UpstreamApi.getUpstream),
                     Shows(<<"upstream-health", "any">>, UpstreamApi.getUpstreamHealth)},
                    [save   |-> Sends(UpstreamApi.updateUpstream, {<<"upstream", "any">>}),
                     delete |-> Sends(UpstreamApi.deleteUpstream, {<<"upstream", "any">>})],
                    [save |-> StaysOpen(BusyHere), delete |-> ClosesAfter(BusyHere)],
                    [save |-> DropsEdits(<<"upstream", "any">>)])

\* Two sections that save what is typed a second later; they are filled once.
ProtectionTab == Page({Shows(<<"security-headers", "any">>, SecurityHeadersApi.getSecurityHeaders),
                       Shows(<<"rate-limit", "any">>, RateLimitApi.getRateLimit)},
                      [headers |-> Sends(SecurityHeadersApi.updateSecurityHeaders, {<<"security-headers", "any">>}),
                       limit   |-> Sends(RateLimitApi.updateRateLimit, {<<"rate-limit", "any">>})],
                      [headers |-> StaysOpen(Free), limit |-> StaysOpen(Free)],
                      [headers |-> KeepsEdits(<<"security-headers", "any">>),
                       limit   |-> KeepsEdits(<<"rate-limit", "any">>)])

\* The switch of fail2ban.
SecurityTab == Page({Shows(<<"fail2ban", "any">>, Fail2banApi.getFail2ban)},
                    [fail2ban |-> Sends(Fail2banApi.updateFail2ban, {<<"fail2ban", "any">>})],
                    [fail2ban |-> StaysOpen(BusyHere)], NoDrafts)

CloneModal == Page({Shows(<<"certificates-for-clone">>, CertificatesApi.listCertificates),
                    Shows(<<"dns-providers-for-clone">>, DNSProvidersApi.listDNSProviders)},
                   Nothing, Nothing, NoDrafts)

-----------------------------------------------------------------------------
(* Access lists and redirects: the same form twice.  A plain handler disables *)
(* the submit button, but Escape and Cancel leave the form; its success       *)
(* closes whichever form is then open.                                        *)
AccessListForm == [submit |-> ClosesAfter(BusyHere)]

AccessListSends == [
  submit |-> Sends(AccessListsApi.updateAccessList, {<<"access-lists">>}),
  delete |-> Sends(AccessListsApi.deleteAccessList, {<<"access-lists">>})]

AccessListManager == Page({Shows(<<"access-lists">>, AccessListsApi.getAccessLists)}, AccessListSends,
                          AccessListForm @@ [delete |-> Busy],
                          [submit |-> KeepsEdits(<<"access-lists">>)])

RedirectHostForm == [submit |-> ClosesAfter(BusyHere)]

RedirectHostSends == [
  submit |-> Sends(RedirectHostsApi.updateRedirectHost, {<<"redirect-hosts">>}),
  delete |-> Sends(RedirectHostsApi.deleteRedirectHost, {<<"redirect-hosts">>})]

RedirectHostManager == Page({Shows(<<"redirect-hosts">>, RedirectHostsApi.getRedirectHosts),
                             Shows(<<"certificates">>, CertificatesApi.listCertificates)},
                            RedirectHostSends, RedirectHostForm @@ [delete |-> Busy],
                            [submit |-> KeepsEdits(<<"redirect-hosts">>)])

-----------------------------------------------------------------------------
(* Certificates.                                                              *)
CertificateShows == {
  Polled(Shows(<<"certificates", "any">>, CertificatesApi.listCertificates)),
  Shows(<<"proxy-hosts-for-certs">>, ProxyHostsApi.fetchProxyHosts)}

CertificateSends == [
  delete     |-> Sends(CertificatesApi.deleteCertificate, {<<"certificates">>}),
  renew      |-> Sends(CertificatesApi.renewCertificate, {<<"certificates">>}),
  clearError |-> Sends(CertificatesApi.clearCertificateError, {<<"certificates">>}),
  bulkDelete |-> Sends(CertificatesApi.bulkDeleteErrorCertificates, {<<"certificates">>})]

CertificateRows == [delete |-> Busy, renew |-> Busy, clearError |-> Busy, bulkDelete |-> Busy]

CertificateList == Page(CertificateShows, CertificateSends, CertificateRows, NoDrafts)

\* The form of a new certificate stays until its request is answered; for an order, the answer
\* stands for the end of the order, when the log in front of the form can be closed.
CertificateFormSends == [
  create |-> Sends(CertificatesApi.createCertificate, {<<"certificates">>}),
  upload |-> Sends(CertificatesApi.uploadCertificate, {<<"certificates">>})]

CertificateFormView == [create |-> Held(ClosesAfter(BusyHere)), upload |-> Held(ClosesAfter(BusyHere))]

CertificateForm == Page({Shows(<<"dns-providers">>, DNSProvidersApi.listDNSProviders)},
                        CertificateFormSends, CertificateFormView,
                        [create |-> DropsEdits(<<"dns-providers">>)])

CertificateUpdateForm == Page({}, [update |-> Sends(CertificatesApi.updateCertificate, {<<"certificates">>})],
                              [update |-> Held(ClosesAfter(BusyHere))], NoDrafts)

CertificateDetail == Page({Shows(<<"certificate", "any">>, CertificatesApi.getCertificate),
                           Shows(<<"certificate-linked-hosts", "any">>, ProxyHostsApi.fetchProxyHosts)},
                          Nothing, Nothing, NoDrafts)

CertificateHistory == Page({Shows(<<"certificate-history", "any">>, CertificatesApi.getCertificateHistory)},
                           Nothing, Nothing, NoDrafts)

-----------------------------------------------------------------------------
(* DNS providers.                                                             *)
DNSProviderList == Page({Shows(<<"dns-providers">>, DNSProvidersApi.listDNSProviders)},
                        [delete |-> Sends(DNSProvidersApi.deleteDNSProvider, {<<"dns-providers">>})],
                        [delete |-> Busy], NoDrafts)

\* Credentials are sent only when they were edited; the other fields always.
DNSProviderFormSends == [
  create |-> Sends(DNSProvidersApi.createDNSProvider, {<<"dns-providers">>}),
  update |-> Sends(DNSProvidersApi.updateDNSProvider, {<<"dns-providers">>})]

DNSProviderFormView == [create |-> Held(ClosesAfter(BusyHere)), update |-> Held(ClosesAfter(BusyHere))]

DNSProviderForm == Page({}, DNSProviderFormSends, DNSProviderFormView,
                        [update |-> KeepsEdits(<<"dns-providers">>)])
=============================================================================
