------------------------------ MODULE HostForm ------------------------------
(***************************************************************************)
(* The form of a proxy host (useProxyHostForm.ts): it saves the host and   *)
(* its extra settings (bot filter, GeoIP, cloud providers) by requests of  *)
(* their own, which write rows only, and has the configuration generated   *)
(* from the rows at the end.  Before all that it may order a certificate   *)
(* and wait for it.                                                        *)
(*                                                                         *)
(* One form is followed, for a new host or for one that is there; nobody   *)
(* else changes the host.  Requests are answered late or fail, the answer  *)
(* may be lost, and the session may end.                                   *)
(***************************************************************************)
EXTENDS WebApi, Naturals

CONSTANTS Extras,     \* the extra settings of a host
          Values,     \* settings a field may have
          Default,    \* those of a host nobody has set up
          MaxOrders   \* certificates the form orders

ASSUME FormAssumption ==
  /\ Extras \subseteq {"bot", "geo", "cloud"} /\ {"bot", "cloud"} \cap Extras # {}
  /\ Default \in Values /\ MaxOrders \in Nat

VARIABLES editing,    \* the host was there before
          window,     \* the form on the screen: this one, another one, none
          step,       \* where the submission is
          typed,      \* the fields, as typed
          shown,      \* what the lookups of the extras answered
          certs,      \* the certificates ordered
          order,      \* the one the submission waits for or uses, 0 for none
          host,       \* the row of the host
          stored,     \* the rows of the extras
          sending,    \* the requests of the extras in flight
          applied,    \* nginx runs what these rows say
          left,       \* the form was closed before its submission ended
          swallowed,  \* an error of a request was only logged
          request,    \* the fields of the host, as submitted, until they are sent
          asShown     \* the form was submitted showing the rows, and not edited since

screenVars == <<editing, window, typed, shown, left>>
savedVars == <<host, stored, applied>>
requestVars == <<request, asShown>>
vars == <<screenVars, savedVars, step, certs, order, sending, swallowed, requestVars>>

-----------------------------------------------------------------------------
\* The fields of the host itself; an access list can be chosen, or none, which is the default.
HostFields == {"host", "access"}
Fields == Extras \cup HostFields
Orders == 1 .. MaxOrders

NoRequest == [f \in HostFields |-> Default]
NoHost == [data |-> Default, access |-> Default, certificate |-> MaxOrders + 1]
Unknown == [unknown |-> TRUE]
Nothing == [e \in Extras |-> Unknown]
Known(v) == [value |-> v]

\* The calls that save the extras: of these only the last one goes through client.ts.
Saves == [bot |-> BotFilterApi.updateBotFilter,
          geo |-> GeoApi.setGeoRestriction, cloud |-> CloudProvidersApi.setBlockedProviders]

Steps == {"form", "order", "poll", "server", "extras", "regenerate", "complete", "error", "over"}
Rows == [data : Values, access : Values, certificate : 0 .. MaxOrders]
Answers == {Known(v) : v \in Values} \cup {Unknown}

\* Types; a host that is edited is there; no request of an extra outlives its step; who left is
\* not back on the same form.
TypeOK ==
  /\ {editing, applied, left, swallowed, asShown} \subseteq BOOLEAN
  /\ window \in {"this", "other", "none"} /\ step \in Steps
  /\ typed \in [Fields -> Values] /\ request \in [HostFields -> Values]
  /\ {shown, sending} \subseteq [Extras -> Answers]
  /\ certs \in [Orders -> {"none", "pending", "issued", "failed"}] /\ order \in 0 .. MaxOrders
  /\ host \in Rows \cup {NoHost} /\ (editing => host # NoHost) /\ stored \in [Extras -> Values]
  /\ step # "extras" => sending = Nothing
  /\ left => window # "this"

Init ==
  /\ editing \in BOOLEAN
  /\ window = "this" /\ step = "form" /\ left = FALSE
  /\ host \in IF editing THEN [data : {Default}, access : Values, certificate : {0}] ELSE {NoHost}
  /\ stored \in IF editing THEN [Extras -> Values] ELSE [Extras -> {Default}]
  /\ applied = TRUE /\ swallowed = FALSE
  /\ typed = [[f \in Fields |-> Default] EXCEPT !["access"] = host.access]
  /\ shown = Nothing
  /\ certs = [n \in Orders |-> "none"] /\ order = 0
  /\ sending = Nothing
  /\ request = NoRequest /\ asShown = FALSE

-----------------------------------------------------------------------------
(* The screen.                                                               *)
Waiting == step \in {"order", "poll"}
Saving == step \in {"server", "extras", "regenerate", "complete"}

\* The form can be typed in; the progress of saving covers it, but not for the keyboard.
Type(f, v) ==
  /\ window = "this"
  /\ typed[f] # v
  /\ typed' = [typed EXCEPT ![f] = v]
  /\ asShown' = FALSE
  /\ UNCHANGED <<editing, window, shown, left, savedVars, step, certs, order, sending, swallowed, request>>

\* A lookup is answered, for the first time or after an invalidation; the effect fills the
\* fields with an answer that is new.
LookedUp(e) ==
  /\ window = "this" /\ editing
  /\ shown[e] # Known(stored[e])
  /\ shown' = [shown EXCEPT ![e] = Known(stored[e])]
  /\ typed' = [typed EXCEPT ![e] = stored[e]]
  /\ UNCHANGED <<editing, window, left, savedVars, step, certs, order, sending, swallowed, requestVars>>

\* Mutant of Close: Escape is not taken away while the form is saved.
Close_Always ==
  /\ window = "this"
  /\ window' = "none" /\ left' = (Waiting \/ Saving)
  /\ step' = IF left' THEN step ELSE "over"
  /\ UNCHANGED <<editing, typed, shown, savedVars, certs, order, sending, swallowed, requestVars>>

\* Escape or Cancel.  What handleSubmit waits for goes on without the form.
Close ==
  /\ window = "this" /\ ~Saving
  /\ window' = "none" /\ left' = Waiting
  /\ step' = IF Waiting THEN step ELSE "over"
  /\ UNCHANGED <<editing, typed, shown, savedVars, certs, order, sending, swallowed, requestVars>>

\* The form is opened for another host.
OpenOther ==
  /\ left /\ window = "none" /\ step # "over"
  /\ window' = "other"
  /\ UNCHANGED <<editing, typed, shown, left, savedVars, step, certs, order, sending, swallowed, requestVars>>

\* The progress of a submission that failed is closed, and the form is there again.
CloseSaveProgress ==
  /\ step = "error" /\ window = "this"
  /\ step' = "form" /\ order' = 0
  /\ UNCHANGED <<screenVars, savedVars, certs, sending, swallowed, requestVars>>

-----------------------------------------------------------------------------
(* A certificate.                                                            *)

\* handleSubmit, with a new certificate or without.
Submit(orders) ==
  /\ window = "this" /\ step = "form"
  /\ orders => \E n \in Orders : certs[n] = "none"
  /\ step' = IF orders THEN "order" ELSE "server"
  /\ order' = 0 /\ swallowed' = FALSE
  /\ request' = [f \in HostFields |-> typed[f]]
  /\ asShown' = (editing => \A e \in Extras : shown[e] = Known(stored[e]))
  /\ UNCHANGED <<screenVars, savedVars, certs, sending>>

\* createCertificate; a provider may issue at once.
Order(n) ==
  /\ step = "order"
  /\ certs[n] = "none" /\ \A m \in Orders : m < n => certs[m] # "none"
  /\ \E status \in {"pending", "issued"} :
       /\ certs' = [certs EXCEPT ![n] = status]
       /\ step' = IF status = "issued" THEN "server" ELSE "poll"
  /\ order' = n
  /\ UNCHANGED <<screenVars, savedVars, sending, swallowed, requestVars>>

OrderFails ==
  /\ step = "order"
  /\ step' = "form"
  /\ UNCHANGED <<screenVars, savedVars, certs, order, sending, swallowed, requestVars>>

\* The authority answers; it need not.
Issue(n) ==
  /\ certs[n] = "pending"
  /\ \E status \in {"issued", "failed"} : certs' = [certs EXCEPT ![n] = status]
  /\ UNCHANGED <<screenVars, savedVars, step, order, sending, swallowed, requestVars>>

\* Mutant of WaitForCertificate: what has not failed counts as issued.
WaitForCertificate_NotFailed ==
  /\ step = "poll"
  /\ step' = IF certs[order] = "failed" THEN "form" ELSE "server"
  /\ order' = IF certs[order] = "failed" THEN 0 ELSE order
  /\ UNCHANGED <<screenVars, savedVars, certs, sending, swallowed, requestVars>>

\* Mutant of WaitForCertificate: it waits without a limit.
WaitForCertificate_NoLimit ==
  /\ step = "poll" /\ certs[order] # "pending"
  /\ step' = IF certs[order] = "issued" THEN "server" ELSE "form"
  /\ order' = IF certs[order] = "issued" THEN order ELSE 0
  /\ UNCHANGED <<screenVars, savedVars, certs, sending, swallowed, requestVars>>

\* waitForCertificate sees the end of the order, or two minutes have gone.
WaitForCertificate ==
  /\ step = "poll"
  /\ step' = IF certs[order] = "issued" THEN "server" ELSE "form"
  /\ order' = IF certs[order] = "issued" THEN order ELSE 0
  /\ UNCHANGED <<screenVars, savedVars, certs, sending, swallowed, requestVars>>

-----------------------------------------------------------------------------
(* The rows.  The host is sent as it was submitted, the extras as they are   *)
(* when the host has been saved.                                             *)

\* The row, as created or updated.  JSON leaves out a field that is undefined, as "no access list"
\* is and a certificate that was not chosen, and the update of a row keeps what is left out.
NewRow(certificate) ==
  [data        |-> request["host"],
   access      |-> IF editing /\ request["access"] = Default THEN host.access ELSE request["access"],
   certificate |-> certificate]

Taken == ~editing /\ host # NoHost

\* The certificate ordered; without an order the one chosen among those that were there before,
\* or, in an update, the one of the row.
Certificates ==
  IF order # 0 THEN {order} ELSE {0} \cup (IF editing THEN {host.certificate} ELSE {})

\* createProxyHost also applies the host; the update writes its row only.
WritesHost ==
  /\ \E certificate \in Certificates : host' = NewRow(certificate)
  /\ applied' = ~editing

\* Mutant of Sent: a restriction that is switched off is not deleted.
Sent_NeverDeletes(e) ==
  IF (~editing \/ e = "geo") /\ typed[e] = Default THEN Unknown ELSE Known(typed[e])

\* Of a new host only settings that are not the default are sent; a GeoIP restriction that is
\* the default is only sent, as a deletion, if its lookup was answered, which it is without one too.
Sent(e) ==
  IF \/ ~editing /\ typed[e] = Default
     \/ e = "geo" /\ typed[e] = Default /\ shown[e] = Unknown
  THEN Unknown ELSE Known(typed[e])

HostSaved ==
  /\ step = "server" /\ ~Taken
  /\ WritesHost
  /\ sending' = [e \in Extras |-> Sent(e)]
  /\ step' = IF sending' = Nothing THEN "complete" ELSE "extras"
  /\ request' = NoRequest
  /\ UNCHANGED <<screenVars, stored, certs, order, swallowed, asShown>>

\* A refusal, or the answer is lost.
HostFails ==
  /\ step = "server"
  /\ \/ ~Taken /\ WritesHost
     \/ UNCHANGED <<host, applied>>
  /\ step' = "error" /\ request' = NoRequest
  /\ UNCHANGED <<screenVars, stored, certs, order, sending, swallowed, asShown>>

\* Mutant of Deletes: every update of a restriction empties its row.
Deletes_Always(es) == "geo" \in es

\* The restriction is deleted, and with its row the cloud providers.
Deletes(es) == "geo" \in es /\ sending["geo"] = Known(Default)

\* Requests of the extras write their rows, with skip_reload.  That of the cloud providers writes
\* into the row of the restriction, or inserts one: a deletion in between has the effect of one
\* before or after both.
Writes(es) ==
  /\ stored' = [e \in Extras |-> IF e \in es THEN sending[e].value
                                ELSE IF e = "cloud" /\ Deletes(es) THEN Default ELSE stored[e]]
  /\ applied' = (applied /\ es = {})
  /\ UNCHANGED host

ExtraSaved(e) ==
  /\ sending[e] # Unknown
  /\ Writes({e})
  /\ sending' = [sending EXCEPT ![e] = Unknown]
  /\ UNCHANGED <<screenVars, step, certs, order, swallowed, requestVars>>

\* The error is logged to the console.
ExtraFails(e) ==
  /\ sending[e] # Unknown
  /\ Writes({}) \/ Writes({e})
  /\ sending' = [sending EXCEPT ![e] = Unknown]
  /\ swallowed' = TRUE
  /\ UNCHANGED <<screenVars, step, certs, order, requestVars>>

\* Mutant of ExtrasAnswered: the requests are not awaited.
ExtrasAnswered_NoAwait ==
  /\ step = "extras"
  /\ step' = "regenerate"
  /\ UNCHANGED <<screenVars, savedVars, certs, order, sending, swallowed, requestVars>>

ExtrasAnswered ==
  /\ step = "extras" /\ sending = Nothing
  /\ step' = "regenerate"
  /\ UNCHANGED <<screenVars, savedVars, certs, order, sending, swallowed, requestVars>>

\* RegenerateConfigForHost reads the rows and applies them,
Regenerated ==
  /\ step = "regenerate"
  /\ applied' = TRUE
  /\ step' = "complete"
  /\ UNCHANGED <<screenVars, host, stored, certs, order, sending, swallowed, requestVars>>

\* or nginx rejects them, or the answer is lost.
RegenerateFails ==
  /\ step = "regenerate"
  /\ applied' \in {applied, TRUE}
  /\ step' = "error"
  /\ UNCHANGED <<screenVars, host, stored, certs, order, sending, swallowed, requestVars>>

\* closeProgressWithDelay: 800 ms later the form on the screen is closed.
Finish ==
  /\ step = "complete"
  /\ window' = "none" /\ step' = "over"
  /\ UNCHANGED <<editing, typed, shown, left, savedVars, certs, order, sending, swallowed, requestVars>>

\* The answer 401 to a call through client.ts reloads the page; other requests in flight are
\* done or not.
SignedOut ==
  /\ \/ step = "server" /\ ProxyHostsApi.createProxyHost.signsOut /\ ProxyHostsApi.updateProxyHost.signsOut
     \/ step = "regenerate" /\ ProxyHostsApi.regenerateHostConfig.signsOut
     \/ \E e \in Extras : sending[e] # Unknown /\ Saves[e].signsOut
  /\ \E es \in SUBSET {e \in Extras : sending[e] # Unknown /\ ~Saves[e].signsOut} : Writes(es)
  /\ window' = "none" /\ step' = "over" /\ sending' = Nothing
  /\ UNCHANGED <<editing, typed, shown, left, certs, order, swallowed, requestVars>>

-----------------------------------------------------------------------------
Screen ==
  \/ Close \/ OpenOther \/ CloseSaveProgress
  \/ \E f \in Fields, v \in Values : Type(f, v)
  \/ \E e \in Extras : LookedUp(e)
  \/ \E orders \in BOOLEAN : Submit(orders)

\* What a submission waits for: answers, and timers.
Answered ==
  \/ OrderFails \/ WaitForCertificate \/ HostSaved \/ HostFails \/ ExtrasAnswered
  \/ Regenerated \/ RegenerateFails \/ Finish \/ SignedOut
  \/ \E n \in Orders : Order(n)
  \/ \E e \in Extras : ExtraSaved(e) \/ ExtraFails(e)

Next == Screen \/ Answered \/ \E n \in Orders : Issue(n)

\* Every request is answered or its connection ends, and the timers run.
Spec == Init /\ [][Next]_vars /\ WF_vars(Answered)

-----------------------------------------------------------------------------
\* An update cannot take an access list away: the row keeps the one it has.
KeepsAccess == editing /\ typed["access"] = Default
\* An update with GeoIP switched off deletes the row that the request of the cloud providers, sent
\* at the same time, may have written just before.
MayLoseCloud == editing /\ {"geo", "cloud"} \subseteq Extras /\ typed["geo"] = Default

\* "Complete" is shown only when nginx runs what the database says of the host, whatever
\* requests failed before: the configuration is generated after the last row was written.  And
\* the database says what the form shows as it closes, if the form showed the rows when it was
\* submitted, nothing was typed since, and no error was swallowed.  Excepted are an access list
\* taken away, and the cloud providers of a host whose update switches GeoIP off.
CompleteIsTrue ==
  step = "complete" =>
    /\ applied
    /\ asShown /\ ~swallowed =>
         /\ host.data = typed["host"]
         /\ host.access = typed["access"] \/ KeepsAccess
         /\ \A e \in Extras : stored[e] = typed[e] \/ (e = "cloud" /\ MayLoseCloud)

\* A host is never saved with a certificate that was ordered but not issued, on which nginx
\* would fail to start.
CertificateIsThere == host \in Rows /\ host.certificate # 0 => certs[host.certificate] = "issued"

\* A submission closes no form but its own, unless that was left while a certificate was awaited.
ClosesItsForm == [][window = "other" /\ window' = "none" => left /\ order # 0]_vars

\* Every submission comes to an end: the form closes, shows an error, or can be submitted again.
\* An error of a form that was left is shown nowhere.
SubmissionEnds == Waiting \/ Saving ~> step \in {"form", "error", "over"}
=============================================================================
