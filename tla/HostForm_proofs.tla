-------------------------- MODULE HostForm_proofs --------------------------
(* Theorems about HostForm, for any settings and any number of orders. *)
EXTENDS HostForm, TLAPS

\* TypeOK, with each variable on its own.
Types ==
  /\ editing \in BOOLEAN /\ applied \in BOOLEAN /\ left \in BOOLEAN
  /\ swallowed \in BOOLEAN /\ asShown \in BOOLEAN
  /\ window \in {"this", "other", "none"} /\ step \in Steps
  /\ typed \in [Fields -> Values] /\ request \in [HostFields -> Values]
  /\ shown \in [Extras -> Answers] /\ sending \in [Extras -> Answers]
  /\ certs \in [Orders -> {"none", "pending", "issued", "failed"}] /\ order \in 0 .. MaxOrders
  /\ host \in Rows \cup {NoHost} /\ (editing => host # NoHost) /\ stored \in [Extras -> Values]
  /\ step # "extras" => sending = Nothing
  /\ left => window # "this"

LEMMA TypeParts == Types <=> TypeOK
BY DEF Types, TypeOK

\* What is known of an answer.
LEMMA AnswerCases ==
  /\ \A v : Known(v) # Unknown
  /\ \A v, w : Known(v) = Known(w) => v = w
  /\ \A v : Known(v).value = v
<1>1. \A v : DOMAIN Known(v) = {"value"} BY DEF Known
<1>2. DOMAIN Unknown = {"unknown"} BY DEF Unknown
<1>3. \A v : Known(v).value = v BY DEF Known
<1> QED BY <1>1, <1>2, <1>3

LEMMA AnswerValue == \A a \in Answers : a # Unknown => a = Known(a.value) /\ a.value \in Values
BY AnswerCases DEF Answers

LEMMA HostIsNoExtra == "host" \notin Extras /\ "access" \notin Extras
BY FormAssumption

LEMMA NoHostIsNoRow == NoHost \notin Rows
BY FormAssumption DEF NoHost, Rows

LEMMA SentIsAnswer == Types => \A e \in Extras : Sent(e) \in Answers
BY DEF Types, Sent, Answers, Fields

LEMMA RowIsRow == Types => \A c \in Certificates : NewRow(c) \in Rows
<1> SUFFICES ASSUME Types, NEW c \in Certificates PROVE NewRow(c) \in Rows
  OBVIOUS
<1>1. editing => host \in Rows BY DEF Types
<1>2. c \in 0 .. MaxOrders BY <1>1, FormAssumption DEF Certificates, Types, Rows
<1>3. request["host"] \in Values /\ request["access"] \in Values BY DEF Types, HostFields
<1> QED BY <1>1, <1>2, <1>3 DEF NewRow, Rows

-----------------------------------------------------------------------------
(* Types.                                                                    *)
LEMMA InitTypes == Init => Types
<1> SUFFICES ASSUME Init PROVE Types
  OBVIOUS
<1> USE FormAssumption
<1>1. host \in Rows \cup {NoHost} /\ (editing => host # NoHost) BY NoHostIsNoRow DEF Init, Rows
<1>2. typed \in [Fields -> Values] /\ request \in [HostFields -> Values]
  <2>1. host.access \in Values BY <1>1 DEF Rows, NoHost
  <2> QED BY <2>1 DEF Init, NoRequest
<1>3. shown \in [Extras -> Answers] /\ sending \in [Extras -> Answers] BY DEF Init, Nothing, Answers
<1>4. stored \in [Extras -> Values] BY DEF Init
<1>5. order \in 0 .. MaxOrders BY DEF Init
<1> QED BY <1>1, <1>2, <1>3, <1>4, <1>5 DEF Init, Types, Steps

LEMMA TypesStep == Types /\ [Next]_vars => Types'
<1> SUFFICES ASSUME Types, [Next]_vars PROVE Types'
  OBVIOUS
<1> USE FormAssumption
<1>1. CASE Close BY <1>1 DEF Close, Types, Steps, savedVars, requestVars, Waiting, Saving
<1>2. CASE OpenOther BY <1>2 DEF OpenOther, Types, savedVars, requestVars
<1>3. CASE CloseSaveProgress BY <1>3 DEF CloseSaveProgress, Types, Steps, screenVars, savedVars, requestVars
<1>4. ASSUME NEW f \in Fields, NEW v \in Values, Type(f, v) PROVE Types'
  BY <1>4 DEF Type, Types, savedVars
<1>5. ASSUME NEW e \in Extras, LookedUp(e) PROVE Types'
  <2>1. typed' \in [Fields -> Values] BY <1>5 DEF LookedUp, Types, Fields
  <2>2. shown' \in [Extras -> Answers] BY <1>5 DEF LookedUp, Types, Answers
  <2> QED BY <1>5, <2>1, <2>2 DEF LookedUp, Types, savedVars, requestVars
<1>6. ASSUME NEW o \in BOOLEAN, Submit(o) PROVE Types'
  <2>1. request' \in [HostFields -> Values] BY <1>6 DEF Submit, Types, Fields
  <2>2. asShown' \in BOOLEAN BY <1>6 DEF Submit
  <2>3. step' \in Steps /\ order' \in 0 .. MaxOrders /\ sending = Nothing
    BY <1>6 DEF Submit, Steps, Types
  <2> QED BY <1>6, <2>1, <2>2, <2>3 DEF Submit, Types, screenVars, savedVars
<1>7. CASE OrderFails BY <1>7 DEF OrderFails, Types, Steps, screenVars, savedVars, requestVars
<1>8. CASE WaitForCertificate
  BY <1>8 DEF WaitForCertificate, Types, Steps, screenVars, savedVars, requestVars
<1>9. CASE HostSaved
  <2>1. host' \in Rows /\ host' # NoHost /\ applied' \in BOOLEAN
    BY <1>9, RowIsRow, NoHostIsNoRow DEF HostSaved, WritesHost, Types
  <2>4. request' \in [HostFields -> Values] /\ UNCHANGED asShown BY <1>9 DEF HostSaved, NoRequest
  <2>2. sending' \in [Extras -> Answers] BY <1>9, SentIsAnswer DEF HostSaved
  <2>3. step' \in Steps /\ (step' # "extras" => sending' = Nothing) BY <1>9 DEF HostSaved, Steps
  <2> QED BY <1>9, <2>1, <2>2, <2>3, <2>4 DEF HostSaved, Types, screenVars
<1>10. CASE HostFails
  <2>1. host' \in Rows \cup {NoHost} /\ (editing => host' # NoHost) /\ applied' \in BOOLEAN
    BY <1>10, RowIsRow, NoHostIsNoRow DEF HostFails, WritesHost, Types
  <2>2. request' \in [HostFields -> Values] BY <1>10 DEF HostFails, NoRequest
  <2> QED BY <1>10, <2>1, <2>2 DEF HostFails, Types, Steps, screenVars
<1>11. CASE ExtrasAnswered
  BY <1>11 DEF ExtrasAnswered, Types, Steps, screenVars, savedVars, requestVars
<1>12. CASE Regenerated \/ RegenerateFails
  <2>1. applied' \in BOOLEAN BY <1>12 DEF Regenerated, RegenerateFails, Types
  <2>2. step = "regenerate" /\ step' \in {"complete", "error"}
    BY <1>12 DEF Regenerated, RegenerateFails
  <2>3. UNCHANGED <<screenVars, host, stored, certs, order, sending, swallowed, requestVars>>
    BY <1>12 DEF Regenerated, RegenerateFails
  <2> QED BY <2>1, <2>2, <2>3 DEF Types, Steps, screenVars, requestVars
<1>13. CASE Finish BY <1>13 DEF Finish, Types, Steps, savedVars, requestVars
<1>14. ASSUME NEW es \in SUBSET Extras, \A e \in es : sending[e] # Unknown, Writes(es)
       PROVE  stored' \in [Extras -> Values] /\ applied' \in BOOLEAN /\ host' = host
  <2>1. \A e \in es : sending[e].value \in Values BY <1>14, AnswerValue DEF Types
  <2> QED BY <1>14, <2>1 DEF Writes, Types
<1>15. CASE SignedOut
  <2>1. stored' \in [Extras -> Values] /\ applied' \in BOOLEAN /\ host' = host
    BY <1>14, <1>15 DEF SignedOut
  <2>2. sending' = Nothing /\ Nothing \in [Extras -> Answers] BY <1>15 DEF SignedOut, Nothing, Answers
  <2> QED BY <1>15, <2>1, <2>2 DEF SignedOut, Types, Steps, requestVars
<1>16. ASSUME NEW n \in Orders, Order(n) PROVE Types'
  <2>1. n \in 0 .. MaxOrders BY DEF Orders
  <2> QED BY <1>16, <2>1 DEF Order, Types, Steps, screenVars, savedVars, requestVars
<1>17. ASSUME NEW e \in Extras, ExtraSaved(e) \/ ExtraFails(e) PROVE Types'
  <2>1. stored' \in [Extras -> Values] /\ applied' \in BOOLEAN /\ host' = host
    BY <1>14, <1>17 DEF ExtraSaved, ExtraFails
  <2>2. sending' \in [Extras -> Answers] BY <1>17 DEF ExtraSaved, ExtraFails, Types, Answers
  <2>3. step = "extras" BY <1>17 DEF ExtraSaved, ExtraFails, Types, Nothing
  <2>4. swallowed' \in BOOLEAN BY <1>17 DEF ExtraSaved, ExtraFails, Types
  <2> QED BY <1>17, <2>1, <2>2, <2>3, <2>4 DEF ExtraSaved, ExtraFails, Types, screenVars, requestVars
<1>18. ASSUME NEW n \in Orders, Issue(n) PROVE Types'
  BY <1>18 DEF Issue, Types, screenVars, savedVars, requestVars
<1>19. CASE UNCHANGED vars BY <1>19 DEF vars, Types, screenVars, savedVars, requestVars
<1> QED BY <1>1, <1>2, <1>3, <1>4, <1>5, <1>6, <1>7, <1>8, <1>9, <1>10, <1>11, <1>12, <1>13,
           <1>15, <1>16, <1>17, <1>18, <1>19 DEF Next, Screen, Answered

-----------------------------------------------------------------------------
(* The certificate, and the form that is left.                               *)

\* A host is sent with a certificate only when it has been issued; who left the form did so
\* while a certificate was awaited, and what goes on without it uses that certificate.
OrderInv ==
  /\ step = "poll" => order # 0
  /\ step = "server" /\ order # 0 => certs[order] = "issued"
  /\ CertificateIsThere
  /\ window = "other" => left
  /\ left /\ Saving => order # 0

LEMMA OrderStep == Types /\ OrderInv /\ [Next]_vars => OrderInv'
<1> SUFFICES ASSUME Types, OrderInv, [Next]_vars PROVE OrderInv'
  OBVIOUS
<1> USE FormAssumption DEF OrderInv, CertificateIsThere, Saving, Waiting
<1>1. CASE Close BY <1>1 DEF Close, Types, savedVars, requestVars
<1>2. CASE OpenOther BY <1>2 DEF OpenOther, savedVars, requestVars
<1>3. CASE CloseSaveProgress BY <1>3 DEF CloseSaveProgress, screenVars, savedVars, requestVars
<1>4. ASSUME NEW f \in Fields, NEW v \in Values, Type(f, v) PROVE OrderInv'
  BY <1>4 DEF Type, savedVars
<1>5. ASSUME NEW e \in Extras, LookedUp(e) PROVE OrderInv'
  BY <1>5 DEF LookedUp, savedVars, requestVars
<1>6. ASSUME NEW o \in BOOLEAN, Submit(o) PROVE OrderInv'
  BY <1>6 DEF Submit, Types, screenVars, savedVars
<1>7. CASE OrderFails BY <1>7 DEF OrderFails, screenVars, savedVars, requestVars
<1>8. CASE WaitForCertificate BY <1>8 DEF WaitForCertificate, screenVars, savedVars, requestVars
<1>9. ASSUME step = "server", host' = host \/ WritesHost, certs' = certs PROVE CertificateIsThere'
  <2>1. CASE host' = host BY <1>9, <2>1 DEF Rows
  <2>2. CASE WritesHost
    <3>1. PICK c \in Certificates : host' = NewRow(c) BY <2>2 DEF WritesHost
    <3>2. c = 0 \/ c = order \/ (editing /\ c = host.certificate) BY DEF Certificates
    <3>3. editing => host \in Rows BY DEF Types
    <3>4. c = 0 \/ certs[c] = "issued" BY <1>9, <3>2, <3>3
    <3> QED BY <1>9, <3>1, <3>4 DEF NewRow
  <2> QED BY <1>9, <2>1, <2>2
<1>10. CASE HostSaved \/ HostFails
  <2>1. CertificateIsThere' BY <1>9, <1>10 DEF HostSaved, HostFails
  <2>2. UNCHANGED <<window, left, order>> /\ step = "server" /\ step' \in {"extras", "complete", "error"}
    BY <1>10 DEF HostSaved, HostFails, screenVars
  <2> QED BY <2>1, <2>2
<1>11. CASE ExtrasAnswered BY <1>11 DEF ExtrasAnswered, screenVars, savedVars, requestVars
<1>12. CASE Regenerated \/ RegenerateFails
  <2>1. step = "regenerate" /\ step' \in {"complete", "error"}
    BY <1>12 DEF Regenerated, RegenerateFails
  <2>2. UNCHANGED <<screenVars, host, certs, order>> BY <1>12 DEF Regenerated, RegenerateFails
  <2> QED BY <2>1, <2>2 DEF screenVars
<1>13. CASE Finish BY <1>13 DEF Finish, savedVars, requestVars
<1>14. CASE SignedOut BY <1>14 DEF SignedOut, Writes, requestVars
<1>15. ASSUME NEW n \in Orders, Order(n) PROVE OrderInv'
  <2>1. n # 0 BY DEF Orders
  <2>2. certs' = [certs EXCEPT ![n] = certs'[n]] BY <1>15 DEF Order, Types
  <2>3. step' = "server" => certs'[n] = "issued" BY <1>15 DEF Order, Types
  <2>4. \A m \in Orders : certs[m] = "issued" => certs'[m] = "issued"
    BY <1>15 DEF Order, Types
  <2>5. host \in Rows /\ host.certificate # 0 => host.certificate \in Orders
    BY DEF Rows, Orders
  <2> QED BY <1>15, <2>1, <2>3, <2>4, <2>5 DEF Order, screenVars, savedVars, requestVars
<1>16. ASSUME NEW e \in Extras, ExtraSaved(e) \/ ExtraFails(e) PROVE OrderInv'
  BY <1>16 DEF ExtraSaved, ExtraFails, Writes, screenVars, requestVars
<1>17. ASSUME NEW n \in Orders, Issue(n) PROVE OrderInv'
  <2>1. \A m \in Orders : certs[m] = "issued" => certs'[m] = "issued" BY <1>17 DEF Issue, Types
  <2>2. host \in Rows /\ host.certificate # 0 => host.certificate \in Orders BY DEF Rows, Orders
  <2>3. order # 0 => order \in Orders BY DEF Types, Orders
  <2> QED BY <1>17, <2>1, <2>2, <2>3 DEF Issue, screenVars, savedVars, requestVars
<1>18. CASE UNCHANGED vars BY <1>18 DEF vars, screenVars, savedVars, requestVars
<1> QED BY <1>1, <1>2, <1>3, <1>4, <1>5, <1>6, <1>7, <1>8, <1>9, <1>10, <1>11, <1>12, <1>13,
           <1>14, <1>15, <1>16, <1>17, <1>18 DEF Next, Screen, Answered

LEMMA InitOrder == Init => OrderInv
BY NoHostIsNoRow DEF Init, OrderInv, CertificateIsThere, Saving

-----------------------------------------------------------------------------
(* What is saved.                                                            *)

Before == step \in {"order", "poll", "server"}
After == step \in {"extras", "regenerate", "complete"}
ShownRow(e) == shown[e] = Known(stored[e])
MayBeLost(e) == e = "cloud" /\ MayLoseCloud

\* The extra setting is as the form shows it, or is about to be.
ExtraOK(e) ==
  /\ Before /\ editing => ShownRow(e)
  /\ After => \/ sending[e] = Known(typed[e]) /\ (editing => ShownRow(e))
              \/ sending[e] = Unknown /\ stored[e] = typed[e]
              \/ MayBeLost(e)

\* So is the row of the host.
HostOK ==
  /\ Before => request = [f \in HostFields |-> typed[f]]
  /\ After => host.data = typed["host"] /\ (host.access = typed["access"] \/ KeepsAccess)

\* A new host has no extras before it is there, and none is sent that is the default.  A submission that shows the rows and swallowed
\* no error saves what was typed, and the configuration comes last.
SavedInv ==
  /\ ~editing /\ host = NoHost => \A e \in Extras : stored[e] = Default
  /\ ~editing => \A e \in Extras : sending[e] # Known(Default)
  /\ After => host # NoHost
  /\ step = "complete" => applied = TRUE
  /\ asShown = TRUE /\ swallowed = FALSE /\ (Before \/ After) => HostOK /\ \A e \in Extras : ExtraOK(e)

LEMMA InitSaved == Init => SavedInv
BY AnswerCases DEF Init, SavedInv, Before, After, Nothing

\* What an extra is sent as, if the form shows its row.
LEMMA SentExtra ==
  ASSUME Types, NEW e \in Extras,
         IF editing THEN ShownRow(e) ELSE stored[e] = Default
  PROVE  Sent(e) = Known(typed[e]) \/ (Sent(e) = Unknown /\ stored[e] = typed[e])
<1>1. CASE editing
  <2>1. shown[e] # Unknown BY <1>1, AnswerCases DEF ShownRow
  <2> QED BY <1>1, <2>1 DEF Sent
<1>2. CASE ~editing
  <2>1. Sent(e) = Unknown => typed[e] = Default BY <1>2, AnswerCases DEF Sent
  <2> QED BY <1>2, <2>1 DEF Sent
<1> QED BY <1>1, <1>2

\* An update of a host always has an extra to send, so that its configuration is generated.
LEMMA UpdateSends == ASSUME Types, editing PROVE \E e \in Extras : Sent(e) # Unknown
<1>1. PICK e \in Extras : e \in {"bot", "cloud"} BY FormAssumption
<1>2. Sent(e) = Known(typed[e]) BY <1>1 DEF Sent
<1> QED BY <1>2, AnswerCases

\* Steps that leave what was submitted, sent and saved alone.
LEMMA SavedKept ==
  ASSUME SavedInv, UNCHANGED <<editing, host, stored, typed, shown, sending, request, applied>>,
         step' = "complete" => step = "complete",
         Before' => Before \/ asShown' = FALSE, After' => After,
         asShown' = asShown \/ asShown' = FALSE,
         swallowed' = swallowed
  PROVE  SavedInv'
<1>1. /\ (~editing /\ host = NoHost => \A e \in Extras : stored[e] = Default)'
      /\ (~editing => \A e \in Extras : sending[e] # Known(Default))'
  BY DEF SavedInv
<1>2. (step = "complete" => applied = TRUE)' /\ (After => host # NoHost)' BY DEF SavedInv
<1>3. ASSUME (asShown = TRUE)', (swallowed = FALSE)', (Before \/ After)'
      PROVE  (HostOK /\ \A e \in Extras : ExtraOK(e))'
  <2>1. asShown = TRUE /\ swallowed = FALSE /\ (Before \/ After) BY <1>3
  <2>2. HostOK /\ \A e \in Extras : ExtraOK(e) BY <2>1 DEF SavedInv
  <2>3. Before' => Before BY <1>3
  <2>4. HostOK' BY <2>2, <2>3 DEF HostOK, KeepsAccess
  <2>5. (\A e \in Extras : ExtraOK(e))' BY <2>2, <2>3 DEF ExtraOK, ShownRow, MayBeLost, MayLoseCloud
  <2> QED BY <2>4, <2>5
<1> QED BY <1>1, <1>2, <1>3 DEF SavedInv

LEMMA SavedStep == Types /\ SavedInv /\ [Next]_vars => SavedInv'
<1> SUFFICES ASSUME Types, SavedInv, [Next]_vars PROVE SavedInv'
  OBVIOUS
<1>1. CASE Close
  <2>1. (Before' => Before) /\ (After' => After) /\ (step' = "complete" => step = "complete")
    BY <1>1 DEF Close, Before, After
  <2> QED BY <1>1, <2>1, SavedKept DEF Close, savedVars, requestVars
<1>2. CASE OpenOther
  BY <1>2, SavedKept DEF OpenOther, savedVars, requestVars, Before, After
<1>3. CASE CloseSaveProgress
  BY <1>3, SavedKept DEF CloseSaveProgress, screenVars, savedVars, requestVars, Before, After
<1>4. ASSUME NEW f \in Fields, NEW v \in Values, Type(f, v) PROVE SavedInv'
  <2>1. step' = step /\ asShown' = FALSE BY <1>4 DEF Type
  <2>2. UNCHANGED <<editing, host, stored, applied, sending>> BY <1>4 DEF Type, savedVars
  <2>3. ~(asShown = TRUE)' BY <2>1
  <2>4. (After => host # NoHost)' /\ (step = "complete" => applied = TRUE)'
    BY <2>1, <2>2 DEF SavedInv, After
  <2>5. /\ (~editing /\ host = NoHost => \A e \in Extras : stored[e] = Default)'
        /\ (~editing => \A e \in Extras : sending[e] # Known(Default))'
    BY <2>2 DEF SavedInv
  <2> QED BY <2>3, <2>4, <2>5 DEF SavedInv
<1>5. ASSUME NEW e \in Extras, LookedUp(e) PROVE SavedInv'
  <2>1. UNCHANGED <<editing, host, stored, applied, step, sending, swallowed, request, asShown>>
    BY <1>5 DEF LookedUp, savedVars, requestVars
  <2>2. editing BY <1>5 DEF LookedUp
  <2>3. shown'[e] = Known(stored[e]) /\ typed'[e] = stored[e] /\ ~ShownRow(e)
    BY <1>5 DEF LookedUp, Types, Fields, ShownRow
  <2>4. \A f \in Fields : f # e => typed'[f] = typed[f] BY <1>5 DEF LookedUp, Types
  <2>5. \A d \in Extras : d # e => shown'[d] = shown[d] BY <1>5 DEF LookedUp, Types
  <2>6. HostOK => HostOK'
    <3>1. \A f \in HostFields : typed'[f] = typed[f]
      BY <2>4, HostIsNoExtra DEF HostFields, Fields
    <3>2. typed'["host"] = typed["host"] /\ typed'["access"] = typed["access"] BY <3>1 DEF HostFields
    <3> QED BY <2>1, <3>1, <3>2 DEF HostOK, KeepsAccess, Before, After
  <2>7. ASSUME ExtraOK("geo"), "geo" \in Extras, Before \/ After PROVE typed'["geo"] = typed["geo"]
    <3>1. CASE e = "geo"
      <4>1. After /\ stored["geo"] = typed["geo"]
        BY <2>2, <2>3, <2>7, <3>1 DEF ExtraOK, MayBeLost, Before, After
      <4> QED BY <2>3, <3>1, <4>1
    <3>2. CASE e # "geo" BY <2>4, <2>7, <3>2 DEF Fields
    <3> QED BY <3>1, <3>2
  <2>8. ASSUME NEW d \in Extras, \A x \in Extras : ExtraOK(x), Before \/ After PROVE ExtraOK(d)'
    <3>1. MayBeLost(d) => MayBeLost(d)' BY <2>1, <2>7, <2>8 DEF MayBeLost, MayLoseCloud
    <3>2. CASE d = e
      <4>1. CASE Before BY <2>2, <2>3, <2>8, <3>2, <4>1 DEF ExtraOK
      <4>2. CASE After
        <5>1. MayBeLost(e) \/ (sending[e] = Unknown /\ stored[e] = typed[e])
          BY <2>2, <2>3, <2>8, <4>2 DEF ExtraOK
        <5> QED BY <2>1, <2>3, <3>1, <3>2, <4>2, <5>1 DEF ExtraOK, Before, After
      <4> QED BY <2>8, <4>1, <4>2
    <3>3. CASE d # e
      <4>1. shown'[d] = shown[d] /\ typed'[d] = typed[d] BY <2>4, <2>5, <3>3 DEF Fields
      <4> QED BY <2>1, <2>8, <3>1, <4>1 DEF ExtraOK, ShownRow, Before, After
    <3> QED BY <3>2, <3>3
  <2> QED BY <2>1, <2>2, <2>6, <2>8 DEF SavedInv, Before, After
<1>6. ASSUME NEW o \in BOOLEAN, Submit(o) PROVE SavedInv'
  <2>1. UNCHANGED <<editing, host, stored, typed, shown, sending, applied>>
    BY <1>6 DEF Submit, screenVars, savedVars
  <2>2. request' = [f \in HostFields |-> typed[f]] /\ step' \in {"order", "server"} BY <1>6 DEF Submit
  <2>3. (asShown = TRUE)' => (editing => \A e \in Extras : ShownRow(e))
    BY <1>6 DEF Submit, ShownRow
  <2>4. HostOK' BY <2>1, <2>2 DEF HostOK, After
  <2> QED BY <2>1, <2>2, <2>3, <2>4 DEF SavedInv, ExtraOK, ShownRow, Before, After
<1>7. CASE OrderFails
  BY <1>7, SavedKept DEF OrderFails, screenVars, savedVars, requestVars, Before, After
<1>8. CASE WaitForCertificate
  BY <1>8, SavedKept DEF WaitForCertificate, screenVars, savedVars, requestVars, Before, After
<1>9. CASE HostSaved
  <2>1. UNCHANGED <<editing, stored, typed, shown, swallowed, asShown>> BY <1>9 DEF HostSaved, screenVars
  <2>2. step = "server" /\ (~editing => host = NoHost) BY <1>9 DEF HostSaved, Taken
  <2>3. PICK c \in Certificates : host' = NewRow(c) BY <1>9 DEF HostSaved, WritesHost
  <2>9. host' # NoHost BY <2>3, RowIsRow, NoHostIsNoRow
  <2>4. \A e \in Extras : sending'[e] = Sent(e) BY <1>9 DEF HostSaved
  <2>5. step' \in {"extras", "complete"} BY <1>9 DEF HostSaved
  <2>6. (step = "complete" => applied = TRUE)'
    <3>1. ASSUME (step = "complete")' PROVE ~editing
      <4>1. sending' = Nothing BY <1>9, <3>1 DEF HostSaved
      <4>2. \A e \in Extras : Sent(e) = Unknown BY <2>4, <4>1 DEF Nothing
      <4> QED BY <4>2, UpdateSends
    <3> QED BY <1>9, <3>1 DEF HostSaved, WritesHost
  <2>7. ASSUME (asShown = TRUE)', (swallowed = FALSE)', NEW e \in Extras
        PROVE  ExtraOK(e)'
    <3>1. asShown = TRUE /\ swallowed = FALSE BY <2>1, <2>7
    <3>2. ExtraOK(e) BY <2>2, <3>1 DEF SavedInv, Before
    <3>3. IF editing THEN ShownRow(e) ELSE stored[e] = Default
      BY <2>2, <3>2 DEF ExtraOK, SavedInv, Before
    <3>4. Sent(e) = Known(typed[e]) \/ (Sent(e) = Unknown /\ stored[e] = typed[e])
      BY <3>3, SentExtra
    <3>5. ~Before' BY <2>5 DEF Before
    <3> QED BY <2>1, <2>4, <3>2, <3>3, <3>4, <3>5 DEF ExtraOK, ShownRow
  <2>8. ASSUME (asShown = TRUE)', (swallowed = FALSE)' PROVE HostOK'
    <3>1. request = [f \in HostFields |-> typed[f]]
      BY <2>1, <2>2, <2>8 DEF SavedInv, HostOK, Before
    <3>2. request["host"] = typed["host"] /\ request["access"] = typed["access"] BY <3>1 DEF HostFields
    <3>3. ~Before' BY <2>5 DEF Before
    <3> QED BY <2>1, <2>3, <3>2, <3>3 DEF HostOK, NewRow, KeepsAccess
  <2>10. (~editing => \A e \in Extras : sending[e] # Known(Default))'
    <3>1. ~editing => \A e \in Extras : Sent(e) # Known(Default) BY AnswerCases DEF Sent
    <3> QED BY <2>1, <2>4, <3>1
  <2> QED BY <2>1, <2>6, <2>7, <2>8, <2>9, <2>10 DEF SavedInv
<1>10. CASE HostFails
  <2>1. ~Before' /\ ~After' /\ step' # "complete" BY <1>10 DEF HostFails, Before, After
  <2>2. host' = NoHost => host = NoHost
    BY <1>10, RowIsRow, NoHostIsNoRow DEF HostFails, WritesHost
  <2>3. UNCHANGED <<editing, stored, sending>> BY <1>10 DEF HostFails, screenVars
  <2> QED BY <2>1, <2>2, <2>3 DEF SavedInv
<1>11. CASE ExtrasAnswered
  BY <1>11, SavedKept DEF ExtrasAnswered, screenVars, savedVars, requestVars, Before, After
<1>12. CASE Regenerated
  <2>1. UNCHANGED <<editing, host, stored, typed, shown, sending, swallowed, request, asShown>>
    BY <1>12 DEF Regenerated, screenVars, requestVars
  <2>2. After /\ After' /\ ~Before' BY <1>12 DEF Regenerated, Before, After
  <2>3. (step = "complete" => applied = TRUE)' BY <1>12 DEF Regenerated
  <2>4. HostOK => HostOK' BY <2>1, <2>2 DEF HostOK, KeepsAccess
  <2>5. \A e \in Extras : ExtraOK(e) => ExtraOK(e)'
    BY <2>1, <2>2 DEF ExtraOK, ShownRow, MayBeLost, MayLoseCloud
  <2> QED BY <2>1, <2>2, <2>3, <2>4, <2>5 DEF SavedInv
<1>13. CASE RegenerateFails
  <2>1. UNCHANGED <<editing, host, stored, sending>> BY <1>13 DEF RegenerateFails, screenVars
  <2>2. ~After' /\ ~Before' /\ step' # "complete" BY <1>13 DEF RegenerateFails, Before, After
  <2> QED BY <2>1, <2>2 DEF SavedInv
<1>14. CASE Finish
  BY <1>14, SavedKept DEF Finish, savedVars, requestVars, Before, After
<1>15. CASE SignedOut
  <2>1. ~After' /\ ~Before' /\ step' # "complete" BY <1>15 DEF SignedOut, Before, After
  <2>2. editing' = editing /\ host' = host BY <1>15 DEF SignedOut, Writes
  <2>3. ASSUME host = NoHost PROVE stored' = stored
    <3>1. sending = Nothing BY <2>3 DEF SavedInv, After, Types
    <3>2. PICK es \in SUBSET {e \in Extras : sending[e] # Unknown} : Writes(es)
      BY <1>15 DEF SignedOut
    <3>3. es = {} BY <3>1 DEF Nothing
    <3> QED BY <3>2, <3>3 DEF Writes, Deletes, Types
  <2>4. \A e \in Extras : sending'[e] # Known(Default) BY <1>15, AnswerCases DEF SignedOut, Nothing
  <2> QED BY <2>1, <2>2, <2>3, <2>4 DEF SavedInv
<1>16. ASSUME NEW n \in Orders, Order(n) PROVE SavedInv'
  BY <1>16, SavedKept DEF Order, screenVars, savedVars, requestVars, Before, After
<1>17. ASSUME NEW e \in Extras, ExtraSaved(e) PROVE SavedInv'
  <2>1. UNCHANGED <<editing, host, typed, shown, step, swallowed, request, asShown>>
    BY <1>17 DEF ExtraSaved, Writes, screenVars, requestVars
  <2>2. step = "extras" BY <1>17 DEF ExtraSaved, Types, Nothing
  <2>3. host # NoHost BY <2>2 DEF SavedInv, After
  <2>4. \A d \in Extras : sending'[d] = (IF d = e THEN Unknown ELSE sending[d])
    BY <1>17 DEF ExtraSaved, Types
  <2>5. ASSUME NEW d \in Extras, \A x \in Extras : ExtraOK(x) PROVE ExtraOK(d)'
    <3>1. MayBeLost(d)' <=> MayBeLost(d) BY <2>1 DEF MayBeLost, MayLoseCloud
    <3>2. CASE MayBeLost(d) BY <2>1, <2>2, <3>1, <3>2 DEF ExtraOK, Before, After
    <3>3. CASE ~MayBeLost(d) /\ d = e
      <4>1. sending[e] = Known(typed[e])
        BY <1>17, <2>2, <2>5, <3>3 DEF ExtraSaved, ExtraOK, After
      <4>2. stored'[e] = typed[e] BY <1>17, <4>1, AnswerCases DEF ExtraSaved, Writes
      <4>3. sending'[e] = Unknown BY <2>4
      <4> QED BY <2>1, <2>2, <3>3, <4>2, <4>3 DEF ExtraOK, Before, After
    <3>4. CASE ~MayBeLost(d) /\ d # e
      <4>1. ASSUME d = "cloud", Deletes({e}) PROVE FALSE
        <5>1. "geo" = e /\ sending["geo"] = Known(Default) BY <4>1 DEF Deletes
        <5>2. editing BY <5>1 DEF SavedInv
        <5>3. sending["geo"] = Known(typed["geo"])
          BY <2>2, <2>5, <5>1, AnswerCases DEF ExtraOK, MayBeLost, After
        <5>4. typed["geo"] = Default BY <5>1, <5>3, AnswerCases
        <5> QED BY <3>4, <4>1, <5>1, <5>2, <5>4 DEF MayBeLost, MayLoseCloud
      <4>2. sending'[d] = sending[d] /\ stored'[d] = stored[d]
        BY <1>17, <2>4, <3>4, <4>1 DEF ExtraSaved, Writes
      <4> QED BY <2>1, <2>2, <2>5, <3>4, <4>2 DEF ExtraOK, ShownRow, Before, After
    <3> QED BY <3>2, <3>3, <3>4
  <2>6. HostOK => HostOK' BY <2>1, <2>2 DEF HostOK, KeepsAccess, Before, After
  <2>7. (~editing => \A d \in Extras : sending[d] # Known(Default))'
    BY <2>1, <2>4, AnswerCases DEF SavedInv
  <2> QED BY <2>1, <2>2, <2>3, <2>5, <2>6, <2>7 DEF SavedInv, Before, After
<1>18. ASSUME NEW e \in Extras, ExtraFails(e) PROVE SavedInv'
  <2>1. host' = host /\ step' = step /\ editing' = editing /\ (swallowed = TRUE)'
    BY <1>18 DEF ExtraFails, Writes, screenVars
  <2>2. step = "extras" BY <1>18 DEF ExtraFails, Types, Nothing
  <2>3. host # NoHost BY <2>2 DEF SavedInv, After
  <2>4. \A d \in Extras : sending'[d] \in {Unknown, sending[d]} BY <1>18 DEF ExtraFails, Types
  <2> QED BY <2>1, <2>2, <2>3, <2>4, AnswerCases DEF SavedInv
<1>19. ASSUME NEW n \in Orders, Issue(n) PROVE SavedInv'
  BY <1>19, SavedKept DEF Issue, screenVars, savedVars, requestVars, Before, After
<1>20. CASE UNCHANGED vars
  BY <1>20, SavedKept DEF vars, screenVars, savedVars, requestVars, Before, After
<1> QED BY <1>1, <1>2, <1>3, <1>4, <1>5, <1>6, <1>7, <1>8, <1>9, <1>10, <1>11, <1>12, <1>13,
           <1>14, <1>15, <1>16, <1>17, <1>18, <1>19, <1>20 DEF Next, Screen, Answered

-----------------------------------------------------------------------------
\* The types of the form hold for any settings and any number of orders.
THEOREM TypeCorrect == Spec => []TypeOK
BY InitTypes, TypesStep, TypeParts, PTL DEF Spec

\* A host is only saved with a certificate that was issued, whatever is typed, closed, refused or
\* answered late.
THEOREM CertificateFirst == Spec => []CertificateIsThere
<1>1. OrderInv => CertificateIsThere BY DEF OrderInv
<1> QED BY <1>1, InitTypes, TypesStep, InitOrder, OrderStep, PTL DEF Spec

\* A submission closes a form that is not its own only if its own was left for the sake of a
\* certificate.
THEOREM OwnFormOnly == Spec => ClosesItsForm
<1>1. Types /\ OrderInv /\ [Next]_vars => [window = "other" /\ window' = "none" => left /\ order # 0]_vars
  <2> SUFFICES ASSUME Types, OrderInv, Next, window = "other", window' = "none" PROVE order # 0
    BY DEF OrderInv
  <2>1. Finish \/ SignedOut
    BY DEF Next, Screen, Answered, Close, OpenOther, CloseSaveProgress, Type, LookedUp, Submit,
           OrderFails, WaitForCertificate, HostSaved, HostFails, ExtrasAnswered, Regenerated,
           RegenerateFails, Order, ExtraSaved, ExtraFails, Issue, screenVars
  <2>2. Saving BY <2>1 DEF Finish, SignedOut, Types, Nothing, Saving
  <2> QED BY <2>2 DEF OrderInv
<1> QED BY <1>1, InitTypes, TypesStep, InitOrder, OrderStep, PTL DEF Spec, ClosesItsForm

\* When "complete" is shown, nginx runs what the database says of the host, and that is what the
\* form shows, if it showed the rows and no error was swallowed: for any settings, and whatever
\* was refused, ordered, typed or looked up before.  Only an access list may have stayed that was
\* to be taken away, and the cloud providers of an update that switches GeoIP off may be gone.
THEOREM CompleteTells == Spec => []CompleteIsTrue
<1>1. Types /\ SavedInv => CompleteIsTrue
  <2> SUFFICES ASSUME Types, SavedInv, step = "complete" PROVE CompleteIsTrue
    BY DEF CompleteIsTrue
  <2>1. applied BY DEF SavedInv
  <2>2. ASSUME asShown, ~swallowed
        PROVE  /\ host.data = typed["host"] /\ (host.access = typed["access"] \/ KeepsAccess)
               /\ \A e \in Extras : stored[e] = typed[e] \/ MayBeLost(e)
    <3>1. asShown = TRUE /\ swallowed = FALSE BY <2>2 DEF Types
    <3>2. sending = Nothing /\ After BY DEF Types, After
    <3>3. HostOK /\ \A e \in Extras : ExtraOK(e) BY <3>1, <3>2 DEF SavedInv
    <3>4. \A e \in Extras : stored[e] = typed[e] \/ MayBeLost(e)
      BY <3>2, <3>3, AnswerCases DEF ExtraOK, Nothing
    <3> QED BY <3>2, <3>3, <3>4 DEF HostOK
  <2> QED BY <2>1, <2>2 DEF CompleteIsTrue, MayBeLost
<1> QED BY <1>1, InitTypes, TypesStep, InitSaved, SavedStep, PTL DEF Spec
=============================================================================
