--------------------------- MODULE EndpointChange ---------------------------
(***************************************************************************)
(* Changing the server's IKEv2 endpoint (vpnEndpointManager.js and the     *)
(* wizard) and its relay identity (ikeRelay.js): both write ipsec.conf     *)
(* through the root helper and a row of panel_settings, in steps any of    *)
(* which may fail, with or without its effect.                             *)
(*                                                                         *)
(* One endpoint change at a time (nothing in the code prevents a second);  *)
(* relay jobs come from an administrator, from the hourly check and from   *)
(* the change itself.  A backup may be imported between two changes.       *)
(***************************************************************************)
EXTENDS Integers

CONSTANTS
    Endpoint,      \* addresses of this server
    First,         \* the one it was installed with
    RelayHost,     \* relay host names
    LateFaults     \* cert-info, the health check or the history's INSERT may fail
                   \* after the save

Off == "off"
Unknown == "unknown"

ASSUME EndpointAssumption ==
    /\ First \in Endpoint /\ LateFaults \in BOOLEAN
    /\ {Off, Unknown} \cap RelayHost = {}

Policy == RelayHost \cup {Off}
Nothing == [at |-> "idle"]

VARIABLES
    vpn, policy,           \* panel_settings
    leftid, included,      \* ipsec.conf: identity, and the relay's include line
    cert,                  \* what the certificate names
    conn,                  \* the relay's own connection file
    applied,               \* ikeRelay.js: what it provisioned last
    change,                \* the endpoint change in progress
    job,                   \* the relay job in progress (`tail')
    broken,                \* history: a change was cut short or its rollback failed,
                           \* or an import replaced the address or the certificate
    doubt                  \* history: the last relay job failed or was cut short,
                           \* or an import replaced the policy

confVars  == <<leftid, included, cert>>
relayVars == <<policy, conn, applied, job, doubt>>
endpointVars == <<vpn, confVars, relayVars, change, broken>>

ChangeSteps == {"backup", "cert", "leftid", "relay", "restart", "save", "check"}
Backup == [leftid : Endpoint, included : BOOLEAN, cert : Endpoint]
Change == [at : ChangeSteps \cup {"rollback", "resync"}, to : Endpoint, reissue : BOOLEAN,
           saved : Backup \cup {Nothing}]
RelayJob == [at : {"provision", "save", "undo"}, by : {"admin", "worker", "change"},
             with : Policy, before : Policy]

EndpointType ==
    /\ vpn \in Endpoint /\ leftid \in Endpoint /\ cert \in Endpoint
    /\ included \in BOOLEAN /\ broken \in BOOLEAN /\ doubt \in BOOLEAN
    /\ policy \in Policy /\ conn \in Policy /\ applied \in Policy \cup {Unknown}
    /\ change \in Change \cup {Nothing} /\ job \in RelayJob \cup {Nothing}

EndpointInit ==
    /\ vpn = First /\ leftid = First /\ cert = First
    /\ policy = Off /\ conn = Off /\ included = FALSE /\ applied = Unknown
    /\ change = Nothing /\ job = Nothing
    /\ broken = FALSE /\ doubt = FALSE

\* The identity strongSwan offers through the relay.
Relay == IF included THEN conn ELSE Off

-----------------------------------------------------------------------------
(* Relay jobs *)

\* Mutant: jobs are not serialized (two of them here: one that has provisioned
\* lets another in before it saves).
FreeUnsaved == job = Nothing \/ job.at = "save"

\* serialize
FreeRelay == job = Nothing

\* syncIkeRelay: nothing to do if the policy is the one last provisioned
StartSync(by, force) ==
    /\ FreeRelay
    /\ by = "change" => change.at \in {"relay", "resync"}
    /\ job' = IF force \/ policy # applied
                THEN [at |-> "provision", by |-> by, with |-> policy, before |-> policy]
                ELSE Nothing
    /\ UNCHANGED <<vpn, confVars, policy, conn, applied, doubt, change, broken>>

\* applyIkeRelay, past RELAY_ORIGIN_MUST_DIFFER and the lookup of the name
StartApply(p) ==
    /\ FreeRelay /\ p # vpn
    /\ job' = [at |-> "provision", by |-> "admin", with |-> p, before |-> policy]
    /\ UNCHANGED <<vpn, confVars, policy, conn, applied, doubt, change, broken>>

\* A job of the change lets it go on, to the restart or to the end.
ResumeChange(ok) ==
    change' = IF job.by # "change" THEN change
              ELSE IF change.at = "resync" THEN Nothing
              ELSE [change EXCEPT !.at = IF ok THEN "restart" ELSE "rollback"]

\* provision: the runtime file, then the helper
Provision ==
    /\ job.at = "provision"
    /\ conn' = job.with /\ included' = TRUE /\ applied' = job.with
    /\ doubt' = (job.by # "admin" /\ job.with # policy)
    /\ job' = IF job.by = "admin" THEN [job EXCEPT !.at = "save"] ELSE Nothing
    /\ ResumeChange(TRUE)
    /\ UNCHANGED <<vpn, leftid, cert, policy, broken>>

\* It throws, after the helper put everything back or behind a helper that
\* took longer than 45 s and did it.
ProvisionFails(late) ==
    /\ job.at = "provision"
    /\ IF late THEN conn' = job.with /\ included' = TRUE ELSE UNCHANGED <<conn, included>>
    /\ doubt' = TRUE /\ job' = Nothing
    /\ ResumeChange(FALSE)
    /\ UNCHANGED <<vpn, leftid, cert, policy, applied, broken>>

SaveRelay ==
    /\ job.at = "save"
    /\ policy' = job.with /\ job' = Nothing
    /\ UNCHANGED <<vpn, confVars, conn, applied, doubt, change, broken>>

SaveRelayFails ==
    /\ job.at = "save"
    /\ job' = [job EXCEPT !.at = "undo"]
    /\ UNCHANGED <<vpn, confVars, policy, conn, applied, doubt, change, broken>>

\* provision(before), its own failure swallowed
Undo(ok) ==
    /\ job.at = "undo"
    /\ IF ok THEN conn' = job.before /\ included' = TRUE /\ applied' = job.before
             ELSE UNCHANGED <<conn, included, applied>>
    /\ doubt' = (~ok \/ job.before # policy) /\ job' = Nothing
    /\ UNCHANGED <<vpn, leftid, cert, policy, change, broken>>

-----------------------------------------------------------------------------
(* The endpoint change *)

\* Mutant: a certificate is issued when the address changes.
ReissueIfMoved(e) == vpn # e

\* needsNewCert
Reissue(e) == cert # e

\* `unchanged' does not look at the certificate.
Changed(e) == vpn # e \/ leftid # e

\* The wizard's last step: a certificate of another name needs a tick.
Consent(e, confirmed) == Reissue(e) => confirmed

\* applyEndpointChange up to its refusals: UNCHANGED, and without consent
\* CERT_CONFIRM_REQUIRED
StartChange(e, confirmed) ==
    /\ change = Nothing
    /\ Changed(e)
    /\ Consent(e, confirmed)
    /\ change' = [at |-> "backup", to |-> e, reissue |-> Reissue(e), saved |-> Nothing]
    /\ UNCHANGED <<vpn, confVars, relayVars, broken>>

Reached(step) == change # Nothing /\ change.at = step
Goto(step) == change' = [change EXCEPT !.at = step]

\* endpoint-backup
BackUp ==
    /\ Reached("backup")
    /\ change' = [change EXCEPT !.at = "cert",
                    !.saved = [leftid |-> leftid, included |-> included, cert |-> cert]]
    /\ UNCHANGED <<vpn, confVars, relayVars, broken>>

IssueCert ==
    /\ Reached("cert") /\ Goto("leftid")
    /\ cert' = IF change.reissue THEN change.to ELSE cert
    /\ UNCHANGED <<vpn, leftid, included, relayVars, broken>>

\* set-leftid and normalize-conn
SetLeftid ==
    /\ Reached("leftid") /\ Goto("relay")
    /\ leftid' = change.to
    /\ UNCHANGED <<vpn, cert, included, relayVars, broken>>

Restart ==
    /\ Reached("restart") /\ Goto("save")
    /\ UNCHANGED <<vpn, confVars, relayVars, broken>>

\* updateSettings('vpn'), before the checks
SaveEndpoint ==
    /\ Reached("save") /\ Goto("check")
    /\ vpn' = change.to
    /\ UNCHANGED <<confVars, relayVars, broken>>

\* The change is recorded as applied and reported.
Applied ==
    /\ Reached("check")
    /\ change' = Nothing /\ broken' = FALSE
    /\ UNCHANGED <<vpn, confVars, relayVars>>

\* A helper call fails, perhaps after it took effect; without a backup there is
\* nothing to roll back.
StepFails ==
    /\ change # Nothing
    /\ change.at \in ChangeSteps \ {"relay"}
    /\ change.at = "cert" => change.reissue    \* no call otherwise
    /\ change.at = "check" => LateFaults
    /\ cert' \in {cert, IF Reached("cert") THEN change.to ELSE cert}
    /\ leftid' \in {leftid, IF Reached("leftid") THEN change.to ELSE leftid}
    /\ change' = IF Reached("backup") THEN Nothing ELSE [change EXCEPT !.at = "rollback"]
    /\ UNCHANGED <<vpn, included, relayVars, broken>>

\* Mutant: the relay is not provisioned again after a rollback.
RolledBackFinally == Nothing

\* syncIkeRelay(true) comes next.
RolledBack == [change EXCEPT !.at = "resync"]

Restore == leftid' = change.saved.leftid /\ included' = change.saved.included
           /\ cert' = change.saved.cert

Rollback ==
    /\ Reached("rollback") /\ Restore
    /\ change' = RolledBack
    /\ UNCHANGED <<vpn, relayVars, broken>>

\* endpoint-rollback fails, perhaps at its last line, and the relay is left.
RollbackFails ==
    /\ Reached("rollback")
    /\ Restore \/ UNCHANGED confVars
    /\ change' = Nothing /\ broken' = TRUE /\ doubt' = TRUE
    /\ UNCHANGED <<vpn, policy, conn, applied, job>>

\* A killed panel leaves everything where it was.
PanelKilled ==
    /\ broken' = (broken \/ change # Nothing)
    /\ doubt' = (doubt \/ job # Nothing \/ change # Nothing)
    /\ change' = Nothing /\ job' = Nothing /\ applied' = Unknown
    /\ UNCHANGED <<vpn, confVars, policy, conn>>

\* The files are replaced in every mode, the settings unless `users-only'; what
\* strongSwan's configuration says is not looked at.
ImportSettings(e, c, p) ==
    /\ change = Nothing
    /\ vpn' = e /\ cert' = c /\ policy' = p
    /\ broken' = (broken \/ vpn # e \/ cert # c) /\ doubt' = (doubt \/ policy # p)
    /\ UNCHANGED <<leftid, included, conn, applied, change, job>>

EndpointNext ==
    \/ \E force \in BOOLEAN : StartSync("worker", force)
    \/ StartSync("change", TRUE)
    \/ \E p \in Policy : StartApply(p)
    \/ Provision \/ \E late \in BOOLEAN : ProvisionFails(late)
    \/ SaveRelay \/ SaveRelayFails \/ \E ok \in BOOLEAN : Undo(ok)
    \/ \E e \in Endpoint, confirmed \in BOOLEAN : StartChange(e, confirmed)
    \/ BackUp \/ IssueCert \/ SetLeftid \/ Restart \/ SaveEndpoint \/ Applied
    \/ StepFails \/ Rollback \/ RollbackFails
    \/ PanelKilled
    \/ \E e, c \in Endpoint, p \in Policy : ImportSettings(e, c, p)

EndpointSpec == EndpointInit /\ [][EndpointNext]_endpointVars

-----------------------------------------------------------------------------
(* Properties *)

\* Between changes the address in the profiles, the identity strongSwan sends
\* and the name in its certificate are one, unless a change was killed, its
\* rollback failed or an import replaced a part; the next change reported as
\* applied mends even that (vpnEndpointManager.js:182-253; the wizard promises a
\* rollback on error, VpnEndpointWizard.tsx:165).
EndpointAgrees == change = Nothing /\ ~broken => leftid = vpn /\ cert = vpn

\* When nothing is in progress strongSwan offers the relay that was saved,
\* unless the last provisioning failed or a backup was imported since: neither
\* overlapping jobs, nor a save that fails, nor an ipsec.conf rolled back under it
\* part the two (ikeRelay.js:13-54).
RelayFollows == change = Nothing /\ job = Nothing /\ ~doubt => Relay = policy

=============================================================================
