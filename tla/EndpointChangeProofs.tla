------------------------ MODULE EndpointChangeProofs ------------------------
(***************************************************************************)
(* Proofs about EndpointChange, for any addresses and relay hosts.         *)
(*                                                                         *)
(* ChangeFollows says what the files hold at each step of a change, and    *)
(* what its backup holds while nothing was cut short; RelayInStep does the *)
(* same for a relay job, whose relay an ipsec.conf rolled back under it    *)
(* may take away until the job that ends the change. The second part holds *)
(* whatever fails after the save; only the first needs that nothing does.  *)
(***************************************************************************)
EXTENDS EndpointChange, TLAPS

\* Jobs of the change run while it waits for them.
JobOfChange ==
    job # Nothing /\ job.by = "change" => Reached("relay") \/ Reached("resync")

Aligned == leftid = vpn /\ cert = vpn

\* Past a step, what the step has set
CertIssued  == {"leftid", "relay", "restart", "save", "check"}
LeftidSet   == {"relay", "restart", "save", "check"}
HasBackup   == {"cert", "leftid", "relay", "restart", "save", "check", "rollback"}

ChangeFollows ==
    /\ change = Nothing /\ ~broken => Aligned
    /\ change # Nothing =>
         /\ change.at \in {"backup", "cert"} => (change.reissue <=> cert # change.to)
         /\ change.at \in CertIssued => cert = change.to
         /\ change.at \in LeftidSet => leftid = change.to
         /\ change.at = "check" => vpn = change.to
         /\ change.at \in HasBackup \ {"check"} /\ ~broken =>
               change.saved.leftid = vpn /\ change.saved.cert = vpn
         /\ change.at \in {"backup", "resync"} /\ ~broken => Aligned

\* A change that has a backup to go back to
BackedUp == change # Nothing /\ change.at \in HasBackup => change.saved \in Backup

RelayInStep ==
    ~doubt /\ ~Reached("resync") =>
        /\ job = Nothing \/ job.at = "provision" => Relay = policy
        /\ job.at = "save" => Relay = job.with

\* The relay's part holds even where the last step may fail late.
RelayInv == EndpointType /\ BackedUp /\ JobOfChange /\ RelayInStep
EndpointInv == RelayInv /\ ChangeFollows

JobSteps == {"provision", "save", "undo"}

\* A step of the change that leaves the relay alone
ChangeStep ==
    \/ \E e \in Endpoint, confirmed \in BOOLEAN : StartChange(e, confirmed)
    \/ BackUp \/ IssueCert \/ SetLeftid \/ Restart \/ SaveEndpoint \/ Applied \/ StepFails

RelayStep ==
    \/ \E by \in {"worker", "change"}, force \in BOOLEAN : StartSync(by, force)
    \/ \E p \in Policy : StartApply(p)
    \/ Provision \/ \E late \in BOOLEAN : ProvisionFails(late)
    \/ SaveRelay \/ SaveRelayFails \/ \E ok \in BOOLEAN : Undo(ok)

-----------------------------------------------------------------------------
\* Nothing is in progress, or a job (a change) of the type is.
LEMMA JobKind ==
  ASSUME EndpointType, job.at \in JobSteps \/ job # Nothing PROVE job \in RelayJob
BY DEF EndpointType, Nothing, JobSteps

LEMMA ChangeKind == ASSUME EndpointType, change # Nothing PROVE change \in Change
BY DEF EndpointType

LEMMA NothingIsIdle == Nothing.at = "idle"
BY DEF Nothing

LEMMA ChangeTyped ==
  ASSUME EndpointType, change # Nothing, NEW step \in ChangeSteps \cup {"rollback", "resync"}
  PROVE  [change EXCEPT !.at = step] \in Change
BY ChangeKind DEF Change

\* A step of the change keeps the types.
LEMMA ChangeStepType ==
  ASSUME EndpointType, ChangeStep PROVE EndpointType'
<1> USE DEF EndpointType, ChangeSteps
<1>1. ASSUME NEW e \in Endpoint, NEW confirmed \in BOOLEAN, StartChange(e, confirmed)
      PROVE  EndpointType'
  <2>1. change' \in Change
    BY <1>1 DEF StartChange, Change, Reissue
  <2> QED BY <1>1, <2>1 DEF StartChange, confVars, relayVars
<1>2. CASE BackUp
  <2>1. [leftid |-> leftid, included |-> included, cert |-> cert] \in Backup
    BY DEF Backup
  <2>2. change \in Change
    BY <1>2, ChangeKind DEF BackUp, Reached
  <2>3. change' \in Change
    BY <1>2, <2>1, <2>2 DEF BackUp, Change
  <2> QED BY <1>2, <2>3 DEF BackUp, confVars, relayVars
<1>3. CASE IssueCert
  <2>1. change \in Change /\ change' \in Change
    BY <1>3, ChangeKind, ChangeTyped DEF IssueCert, Reached, Goto
  <2>2. cert' \in Endpoint
    BY <1>3, <2>1 DEF IssueCert, Change
  <2> QED BY <1>3, <2>1, <2>2 DEF IssueCert, relayVars
<1>4. CASE SetLeftid
  <2>1. change \in Change /\ change' \in Change
    BY <1>4, ChangeKind, ChangeTyped DEF SetLeftid, Reached, Goto
  <2>2. leftid' \in Endpoint
    BY <1>4, <2>1 DEF SetLeftid, Change
  <2> QED BY <1>4, <2>1, <2>2 DEF SetLeftid, relayVars
<1>5. CASE Restart
  <2>1. change' \in Change
    BY <1>5, ChangeTyped DEF Restart, Reached, Goto
  <2> QED BY <1>5, <2>1 DEF Restart, confVars, relayVars
<1>6. CASE SaveEndpoint
  <2>1. change \in Change /\ change' \in Change
    BY <1>6, ChangeKind, ChangeTyped DEF SaveEndpoint, Reached, Goto
  <2>2. vpn' \in Endpoint
    BY <1>6, <2>1 DEF SaveEndpoint, Change
  <2> QED BY <1>6, <2>1, <2>2 DEF SaveEndpoint, confVars, relayVars
<1>7. CASE Applied
  BY <1>7 DEF Applied, confVars, relayVars
<1>8. CASE StepFails
  <2>1. change \in Change /\ change' \in Change \cup {Nothing}
    BY <1>8, ChangeKind, ChangeTyped DEF StepFails
  <2>2. cert' \in Endpoint /\ leftid' \in Endpoint
    BY <1>8, <2>1 DEF StepFails, Change
  <2> QED BY <1>8, <2>1, <2>2 DEF StepFails, relayVars
<1> QED BY <1>1, <1>2, <1>3, <1>4, <1>5, <1>6, <1>7, <1>8 DEF ChangeStep

\* So does a step of a relay job.
LEMMA RelayStepType ==
  ASSUME EndpointType, JobOfChange, RelayStep PROVE EndpointType'
<1> USE DEF EndpointType
<1>r. ASSUME NEW ok \in BOOLEAN, job \in RelayJob, ResumeChange(ok)
      PROVE  change' \in Change \cup {Nothing}
  <2>1. CASE job.by # "change" \/ change.at = "resync"
    BY <1>r, <2>1 DEF ResumeChange
  <2>2. CASE job.by = "change" /\ change.at # "resync"
    <3>1. change # Nothing
      BY <1>r, <2>2, NothingIsIdle DEF JobOfChange, Reached, RelayJob
    <3> QED BY <1>r, <2>2, <3>1, ChangeTyped DEF ResumeChange, ChangeSteps
  <2> QED BY <2>1, <2>2
<1>1. ASSUME NEW by \in {"worker", "change"}, NEW force \in BOOLEAN, StartSync(by, force)
      PROVE  EndpointType'
  <2>1. job' \in RelayJob \cup {Nothing}
    BY <1>1 DEF StartSync, RelayJob
  <2> QED BY <1>1, <2>1 DEF StartSync, confVars
<1>2. ASSUME NEW p \in Policy, StartApply(p) PROVE EndpointType'
  <2>1. job' \in RelayJob
    BY <1>2 DEF StartApply, RelayJob
  <2> QED BY <1>2, <2>1 DEF StartApply, confVars
<1>3. CASE Provision
  <2>1. job \in RelayJob
    BY <1>3, JobKind DEF Provision, JobSteps
  <2>2. change' \in Change \cup {Nothing}
    BY <1>3, <1>r, <2>1 DEF Provision
  <2>3. job' \in RelayJob \cup {Nothing}
    BY <1>3, <2>1 DEF Provision, RelayJob
  <2>4. conn' \in Policy /\ applied' \in Policy \cup {Unknown} /\ doubt' \in BOOLEAN
          /\ included' \in BOOLEAN
    BY <1>3, <2>1 DEF Provision, RelayJob
  <2> QED BY <1>3, <2>2, <2>3, <2>4 DEF Provision
<1>4. ASSUME NEW late \in BOOLEAN, ProvisionFails(late) PROVE EndpointType'
  <2>1. job \in RelayJob
    BY <1>4, JobKind DEF ProvisionFails, JobSteps
  <2>2. change' \in Change \cup {Nothing}
    BY <1>4, <1>r, <2>1 DEF ProvisionFails
  <2>3. conn' \in Policy /\ included' \in BOOLEAN
    BY <1>4, <2>1 DEF ProvisionFails, RelayJob
  <2> QED BY <1>4, <2>2, <2>3 DEF ProvisionFails
<1>5. CASE SaveRelay
  <2>1. policy' \in Policy
    BY <1>5, JobKind DEF SaveRelay, JobSteps, RelayJob
  <2> QED BY <1>5, <2>1 DEF SaveRelay, confVars
<1>6. CASE SaveRelayFails
  <2>1. job' \in RelayJob
    BY <1>6, JobKind DEF SaveRelayFails, JobSteps, RelayJob
  <2> QED BY <1>6, <2>1 DEF SaveRelayFails, confVars
<1>7. ASSUME NEW ok \in BOOLEAN, Undo(ok) PROVE EndpointType'
  <2>1. job \in RelayJob
    BY <1>7, JobKind DEF Undo, JobSteps
  <2>2. conn' \in Policy /\ included' \in BOOLEAN /\ applied' \in Policy \cup {Unknown}
          /\ doubt' \in BOOLEAN
    BY <1>7, <2>1 DEF Undo, RelayJob
  <2> QED BY <1>7, <2>2 DEF Undo
<1> QED BY <1>1, <1>2, <1>3, <1>4, <1>5, <1>6, <1>7 DEF RelayStep

\* And the rest: a rollback, a killed panel, an import.
LEMMA OtherStepType ==
  ASSUME EndpointType, BackedUp,
         Rollback \/ RollbackFails \/ PanelKilled
           \/ \E e, c \in Endpoint, p \in Policy : ImportSettings(e, c, p)
  PROVE  EndpointType'
<1> USE DEF EndpointType
<1>b. ASSUME Reached("rollback") PROVE change.saved \in Backup
  BY <1>b DEF BackedUp, Reached, HasBackup
<1>1. CASE Rollback
  <2>1. change' \in Change
    BY <1>1, ChangeTyped DEF Rollback, RolledBack, Reached
  <2> QED BY <1>1, <1>b, <2>1 DEF Rollback, Restore, Backup, relayVars
<1>2. CASE RollbackFails
  BY <1>2, <1>b DEF RollbackFails, Restore, Backup, confVars
<1>3. CASE PanelKilled
  BY <1>3 DEF PanelKilled, confVars
<1>4. ASSUME NEW e \in Endpoint, NEW c \in Endpoint, NEW p \in Policy, ImportSettings(e, c, p)
      PROVE  EndpointType'
  BY <1>4 DEF ImportSettings
<1> QED BY <1>1, <1>2, <1>3, <1>4

-----------------------------------------------------------------------------
\* Nothing the change does alone moves the relay, and no job of its own is at
\* work while it does.
LEMMA ChangeStepRelay ==
  ASSUME RelayInv, ChangeStep PROVE JobOfChange' /\ RelayInStep'
<1> USE NothingIsIdle
<1>1. /\ UNCHANGED <<policy, conn, included, job, doubt>>
      /\ ~Reached("relay") /\ ~Reached("resync")
  BY DEF ChangeStep, StartChange, BackUp, IssueCert, SetLeftid, Restart, SaveEndpoint, Applied,
         StepFails, Reached, ChangeSteps, confVars, relayVars
<1>2. ~(job # Nothing /\ job.by = "change")
  BY <1>1 DEF RelayInv, JobOfChange
<1>3. JobOfChange'
  BY <1>1, <1>2 DEF JobOfChange
<1>4. Relay' = Relay
  BY <1>1 DEF Relay
<1> QED BY <1>1, <1>3, <1>4 DEF RelayInv, RelayInStep

\* Each step of the change does its part; none but the last may fail late.
LEMMA ChangeStepFollows ==
  ASSUME ~LateFaults, EndpointInv, ChangeStep PROVE ChangeFollows'
<1> USE NothingIsIdle DEF EndpointInv, RelayInv, BackedUp, CertIssued, LeftidSet, HasBackup, Aligned
<1>k. change # Nothing => change \in Change
  BY ChangeKind
<1>1. ASSUME NEW e \in Endpoint, NEW confirmed \in BOOLEAN, StartChange(e, confirmed)
      PROVE  ChangeFollows'
  BY <1>1 DEF StartChange, ChangeFollows, Reissue, confVars
<1>2. CASE BackUp
  <2>1. /\ change'.at = "cert" /\ change'.to = change.to /\ change'.reissue = change.reissue
        /\ change'.saved = [leftid |-> leftid, included |-> included, cert |-> cert]
    BY <1>2, <1>k DEF BackUp, Reached, Change
  <2>2. change'.saved \in Backup
    BY <2>1 DEF EndpointType, Backup
  <2> QED BY <1>2, <2>1, <2>2 DEF BackUp, Reached, ChangeFollows, confVars
\* A step that is passed
<1>g. ASSUME NEW at, NEW step, Reached(at), Goto(step)
      PROVE  /\ change'.at = step /\ change'.to = change.to /\ change'.saved = change.saved
             /\ change'.reissue = change.reissue
  BY <1>g, <1>k DEF Reached, Goto, Change
<1>3. CASE IssueCert
  <2>1. change'.at = "leftid" /\ change'.to = change.to /\ change'.saved = change.saved
    BY <1>3, <1>g DEF IssueCert
  <2>2. cert' = change.to
    BY <1>3 DEF IssueCert, Reached, ChangeFollows
  <2> QED BY <1>3, <2>1, <2>2 DEF IssueCert, Reached, ChangeFollows
<1>4. CASE SetLeftid
  <2>1. change'.at = "relay" /\ change'.to = change.to /\ change'.saved = change.saved
    BY <1>4, <1>g DEF SetLeftid
  <2> QED BY <1>4, <2>1 DEF SetLeftid, Reached, ChangeFollows
<1>5. CASE Restart
  <2>1. change'.at = "save" /\ change'.to = change.to /\ change'.saved = change.saved
    BY <1>5, <1>g DEF Restart
  <2> QED BY <1>5, <2>1 DEF Restart, Reached, ChangeFollows, confVars
<1>6. CASE SaveEndpoint
  <2>1. change'.at = "check" /\ change'.to = change.to /\ change'.saved = change.saved
    BY <1>6, <1>g DEF SaveEndpoint
  <2> QED BY <1>6, <2>1 DEF SaveEndpoint, Reached, ChangeFollows, confVars
<1>7. CASE Applied
  BY <1>7 DEF Applied, Reached, ChangeFollows, confVars
<1>8. CASE StepFails
  <2>1. CASE Reached("backup")
    BY <1>8, <2>1 DEF StepFails, Reached, ChangeFollows
  <2>2. CASE ~Reached("backup")
    <3>1. change'.at = "rollback" /\ change'.saved = change.saved
      BY <1>8, <1>k, <2>2 DEF StepFails, Change
    <3>2. change.at \in HasBackup \ {"check"}
      BY <1>8, <2>2 DEF StepFails, Reached, ChangeSteps
    <3> QED BY <1>8, <3>1, <3>2 DEF StepFails, ChangeFollows
  <2> QED BY <2>1, <2>2
<1> QED BY <1>1, <1>2, <1>3, <1>4, <1>5, <1>6, <1>7, <1>8 DEF ChangeStep

-----------------------------------------------------------------------------
\* A relay job leaves the endpoint; the one that was waited for passes the
\* change on.
LEMMA RelayStepFollows ==
  ASSUME EndpointInv, RelayStep PROVE ChangeFollows'
<1> USE NothingIsIdle DEF EndpointInv, RelayInv
<1>1. UNCHANGED <<vpn, leftid, cert, broken>>
  BY DEF RelayStep, StartSync, StartApply, Provision, ProvisionFails, SaveRelay, SaveRelayFails,
         Undo, confVars
<1>2. CASE change' = change
  BY <1>1, <1>2 DEF ChangeFollows, Aligned
<1>3. CASE change' # change
  <2>1. PICK ok \in BOOLEAN : ResumeChange(ok) /\ job.at = "provision"
    BY <1>3 DEF RelayStep, StartSync, StartApply, Provision, ProvisionFails, SaveRelay,
       SaveRelayFails, Undo
  <2>2. change # Nothing /\ change.at \in {"relay", "resync"}
    BY <1>3, <2>1 DEF ResumeChange, JobOfChange, Reached
  <2>3. CASE change.at = "resync"
    <3>1. change' = Nothing
      BY <1>3, <2>1, <2>3 DEF ResumeChange
    <3> QED BY <1>1, <2>2, <2>3, <3>1 DEF ChangeFollows, Aligned
  <2>4. CASE change.at = "relay"
    <3>1. change \in Change
      BY <2>2, ChangeKind
    <3>2. /\ change'.at \in {"restart", "rollback"}
          /\ change'.to = change.to /\ change'.saved = change.saved
      BY <1>3, <2>1, <2>4, <3>1 DEF ResumeChange, Change
    <3> QED BY <1>1, <2>2, <2>4, <3>2 DEF ChangeFollows, CertIssued, LeftidSet, HasBackup
  <2> QED BY <2>2, <2>3, <2>4
<1> QED BY <1>2, <1>3

\* One job at a time, and a relay that is what it left.
LEMMA RelayStepRelay ==
  ASSUME RelayInv, RelayStep PROVE JobOfChange' /\ RelayInStep'
<1> USE NothingIsIdle DEF RelayInv
<1>1. ASSUME NEW by \in {"worker", "change"}, NEW force \in BOOLEAN, StartSync(by, force)
      PROVE  JobOfChange' /\ RelayInStep'
  <2>1. change' = change /\ Relay' = Relay /\ policy' = policy /\ doubt' = doubt
    BY <1>1 DEF StartSync, Relay, confVars
  <2>2. job = Nothing /\ (job' = Nothing \/ (job'.at = "provision" /\ job'.by = by))
    BY <1>1 DEF StartSync, FreeRelay
  <2>3. by = "change" => Reached("relay") \/ Reached("resync")
    BY <1>1 DEF StartSync, Reached
  <2> QED BY <2>1, <2>2, <2>3 DEF JobOfChange, RelayInStep, Reached
<1>2. ASSUME NEW p \in Policy, StartApply(p) PROVE JobOfChange' /\ RelayInStep'
  <2>1. change' = change /\ Relay' = Relay /\ policy' = policy /\ doubt' = doubt
    BY <1>2 DEF StartApply, Relay, confVars
  <2>2. job = Nothing /\ job'.at = "provision" /\ job'.by = "admin"
    BY <1>2 DEF StartApply, FreeRelay
  <2> QED BY <2>1, <2>2 DEF JobOfChange, RelayInStep, Reached
<1>3. CASE Provision
  <2>1. job \in RelayJob
    BY <1>3, JobKind DEF Provision, JobSteps
  <2>2. Relay' = job.with /\ policy' = policy
    BY <1>3 DEF Provision, Relay
  <2>3. CASE job.by = "admin"
    <3>1. job'.at = "save" /\ job'.by = "admin" /\ job'.with = job.with
      BY <1>3, <2>1, <2>3 DEF Provision, RelayJob
    <3> QED BY <2>2, <3>1 DEF JobOfChange, RelayInStep
  <2>4. CASE job.by # "admin"
    <3>1. job' = Nothing /\ (doubt' <=> job.with # policy)
      BY <1>3, <2>4 DEF Provision
    <3> QED BY <2>2, <3>1 DEF JobOfChange, RelayInStep
  <2> QED BY <2>3, <2>4
<1>4. ASSUME NEW late \in BOOLEAN, ProvisionFails(late) PROVE JobOfChange' /\ RelayInStep'
  BY <1>4 DEF ProvisionFails, JobOfChange, RelayInStep
<1>5. CASE SaveRelay
  BY <1>5 DEF SaveRelay, JobOfChange, RelayInStep, Reached, Relay, confVars
<1>6. CASE SaveRelayFails
  <2>1. job \in RelayJob
    BY <1>6, JobKind DEF SaveRelayFails, JobSteps
  <2>2. job'.at = "undo" /\ job'.by = job.by /\ change' = change /\ job # Nothing
    BY <1>6, <2>1 DEF SaveRelayFails, RelayJob
  <2> QED BY <2>2 DEF JobOfChange, RelayInStep, Reached
<1>7. ASSUME NEW ok \in BOOLEAN, Undo(ok) PROVE JobOfChange' /\ RelayInStep'
  BY <1>7 DEF Undo, JobOfChange, RelayInStep, Relay
<1> QED BY <1>1, <1>2, <1>3, <1>4, <1>5, <1>6, <1>7 DEF RelayStep

-----------------------------------------------------------------------------
\* A rollback has the relay provisioned again; a kill, an import or a rollback
\* that fails is remembered.
LEMMA OtherStepRelay ==
  ASSUME RelayInv,
         Rollback \/ RollbackFails \/ PanelKilled
           \/ \E e, c \in Endpoint, p \in Policy : ImportSettings(e, c, p)
  PROVE  JobOfChange' /\ RelayInStep'
<1> USE NothingIsIdle DEF RelayInv
<1>1. CASE Rollback
  <2>1. change \in Change
    BY <1>1, ChangeKind DEF Rollback, Reached
  <2>2. change' # Nothing /\ change'.at = "resync" /\ job' = job
    BY <1>1, <2>1 DEF Rollback, RolledBack, Change, relayVars
  <2> QED BY <2>2 DEF JobOfChange, RelayInStep, Reached
<1>2. CASE RollbackFails
  BY <1>2 DEF RollbackFails, JobOfChange, RelayInStep, Reached
<1>3. CASE PanelKilled
  <2>1. ~doubt' => change = Nothing /\ job = Nothing /\ ~doubt
    BY <1>3 DEF PanelKilled, EndpointType
  <2>2. UNCHANGED <<vpn, leftid, cert, included, conn, policy>>
    BY <1>3 DEF PanelKilled, confVars
  <2>3. change' = Nothing /\ job' = Nothing
    BY <1>3 DEF PanelKilled
  <2>4. RelayInStep'
    BY <2>1, <2>2, <2>3 DEF RelayInStep, Relay, Reached
  <2> QED BY <2>3, <2>4 DEF JobOfChange
<1>4. ASSUME NEW e \in Endpoint, NEW c \in Endpoint, NEW p \in Policy, ImportSettings(e, c, p)
      PROVE  JobOfChange' /\ RelayInStep'
  <2>1. ~doubt' => ~doubt /\ policy' = policy
    BY <1>4 DEF ImportSettings, EndpointType
  <2>2. change = Nothing /\ change' = Nothing /\ UNCHANGED <<leftid, included, conn, job>>
    BY <1>4 DEF ImportSettings
  <2>3. RelayInStep'
    BY <2>1, <2>2 DEF RelayInStep, Relay, Reached
  <2> QED BY <2>2, <2>3 DEF JobOfChange, Reached
<1> QED BY <1>1, <1>2, <1>3, <1>4

\* A rollback brings back what the backup holds.
LEMMA OtherStepFollows ==
  ASSUME EndpointInv,
         Rollback \/ RollbackFails \/ PanelKilled
           \/ \E e, c \in Endpoint, p \in Policy : ImportSettings(e, c, p)
  PROVE  ChangeFollows'
<1> USE NothingIsIdle DEF EndpointInv, RelayInv
<1>1. CASE Rollback
  <2>1. change \in Change
    BY <1>1, ChangeKind DEF Rollback, Reached
  <2>2. change' # Nothing /\ change'.at = "resync"
    BY <1>1, <2>1 DEF Rollback, RolledBack, Change
  <2>3. ~broken' => Aligned'
    BY <1>1 DEF Rollback, Restore, Reached, ChangeFollows, Aligned, HasBackup
  <2> QED BY <2>2, <2>3 DEF ChangeFollows, CertIssued, LeftidSet, HasBackup
<1>2. CASE RollbackFails
  BY <1>2 DEF RollbackFails, ChangeFollows
<1>3. CASE PanelKilled
  <2>1. ~broken' => change = Nothing /\ ~broken
    BY <1>3 DEF PanelKilled, EndpointType
  <2>2. UNCHANGED <<vpn, leftid, cert>> /\ change' = Nothing
    BY <1>3 DEF PanelKilled, confVars
  <2> QED BY <2>1, <2>2 DEF ChangeFollows, Aligned
<1>4. ASSUME NEW e \in Endpoint, NEW c \in Endpoint, NEW p \in Policy, ImportSettings(e, c, p)
      PROVE  ChangeFollows'
  <2>1. ~broken' => ~broken /\ vpn = vpn' /\ cert = cert'
    BY <1>4 DEF ImportSettings, EndpointType
  <2>2. change = Nothing /\ change' = Nothing /\ UNCHANGED leftid
    BY <1>4 DEF ImportSettings
  <2> QED BY <2>1, <2>2 DEF ChangeFollows, Aligned
<1> QED BY <1>1, <1>2, <1>3, <1>4

\* What a change saved before its first effect it keeps until it is over.
LEMMA BackedUpStep ==
  ASSUME EndpointType, JobOfChange, BackedUp, [EndpointNext]_endpointVars PROVE BackedUp'
<1> USE NothingIsIdle DEF BackedUp
<1>k. change # Nothing => change \in Change
  BY ChangeKind
<1>1. CASE change' = change \/ change' = Nothing
  BY <1>1
<1>2. ASSUME NEW e \in Endpoint, NEW confirmed \in BOOLEAN, StartChange(e, confirmed)
      PROVE  BackedUp'
  BY <1>2 DEF StartChange, HasBackup
<1>3. CASE BackUp
  <2>1. change'.saved = [leftid |-> leftid, included |-> included, cert |-> cert]
    BY <1>3, <1>k DEF BackUp, Reached, Change
  <2> QED BY <2>1 DEF EndpointType, Backup
\* A step that is passed, to the next or to the rollback
<1>g. ASSUME change # Nothing, change.at \in HasBackup, NEW step,
             change' = [change EXCEPT !.at = step]
      PROVE  BackedUp'
  <2>1. change'.saved = change.saved
    BY <1>g, <1>k DEF Change
  <2> QED BY <1>g, <2>1
<1>4. CASE IssueCert \/ SetLeftid \/ Restart \/ SaveEndpoint
  BY <1>4, <1>g DEF IssueCert, SetLeftid, Restart, SaveEndpoint, Reached, Goto, HasBackup
<1>5. CASE StepFails
  <2>1. CASE Reached("backup")
    BY <1>1, <1>5, <2>1 DEF StepFails
  <2>2. CASE ~Reached("backup")
    BY <1>5, <1>g, <2>2 DEF StepFails, Reached, ChangeSteps, HasBackup
  <2> QED BY <2>1, <2>2
<1>6. ASSUME NEW ok \in BOOLEAN, ResumeChange(ok), job.at = "provision" PROVE BackedUp'
  <2>1. CASE job.by # "change" \/ change.at = "resync"
    BY <1>1, <1>6, <2>1 DEF ResumeChange
  <2>2. CASE job.by = "change" /\ change.at # "resync"
    <3>1. change # Nothing /\ change.at \in HasBackup
      BY <1>6, <2>2 DEF JobOfChange, Reached, HasBackup
    <3> QED BY <1>6, <1>g, <2>2, <3>1 DEF ResumeChange
  <2> QED BY <2>1, <2>2
<1>7. CASE Provision \/ \E late \in BOOLEAN : ProvisionFails(late)
  BY <1>6, <1>7 DEF Provision, ProvisionFails
<1>8. CASE Rollback
  BY <1>8, <1>k DEF Rollback, RolledBack, Reached, Change, HasBackup
<1>9. CASE \/ \E by \in {"worker", "change"}, force \in BOOLEAN : StartSync(by, force)
           \/ \E p \in Policy : StartApply(p)
           \/ SaveRelay \/ SaveRelayFails \/ \E ok \in BOOLEAN : Undo(ok)
           \/ Applied \/ RollbackFails \/ PanelKilled
           \/ \E e, c \in Endpoint, p \in Policy : ImportSettings(e, c, p)
           \/ UNCHANGED endpointVars
  BY <1>1, <1>9 DEF StartSync, StartApply, SaveRelay, SaveRelayFails, Undo, Applied,
                    RollbackFails, PanelKilled, ImportSettings, endpointVars
<1> QED BY <1>2, <1>3, <1>4, <1>5, <1>7, <1>8, <1>9 DEF EndpointNext

-----------------------------------------------------------------------------
LEMMA EndpointStart == EndpointInit => EndpointInv
<1> SUFFICES ASSUME EndpointInit PROVE EndpointInv
  OBVIOUS
<1> USE EndpointAssumption DEF EndpointAssumption, EndpointInit
<1>1. EndpointType
  BY DEF EndpointType, Policy
<1>2. JobOfChange /\ BackedUp /\ ChangeFollows /\ RelayInStep
  BY NothingIsIdle DEF JobOfChange, BackedUp, ChangeFollows, RelayInStep, Aligned, Relay
<1> QED BY <1>1, <1>2 DEF EndpointInv, RelayInv

LEMMA RelayInvStep ==
  ASSUME RelayInv, [EndpointNext]_endpointVars PROVE RelayInv'
<1>b. BackedUp'
  BY BackedUpStep DEF RelayInv
<1>1. CASE ChangeStep
  BY <1>1, <1>b, ChangeStepType, ChangeStepRelay DEF RelayInv
<1>2. CASE RelayStep
  BY <1>2, <1>b, RelayStepType, RelayStepRelay DEF RelayInv
<1>3. CASE Rollback \/ RollbackFails \/ PanelKilled
             \/ \E e, c \in Endpoint, p \in Policy : ImportSettings(e, c, p)
  BY <1>3, <1>b, OtherStepType, OtherStepRelay DEF RelayInv
<1>4. CASE UNCHANGED endpointVars
  <2> USE <1>4 DEF endpointVars, confVars, relayVars, RelayInv
  <2>1. EndpointType'
    BY DEF EndpointType
  <2>2. JobOfChange' /\ RelayInStep'
    BY DEF JobOfChange, RelayInStep, Relay, Reached
  <2> QED BY <1>b, <2>1, <2>2
<1> QED BY <1>1, <1>2, <1>3, <1>4 DEF EndpointNext, ChangeStep, RelayStep

LEMMA EndpointStep ==
  ASSUME ~LateFaults, EndpointInv, [EndpointNext]_endpointVars PROVE EndpointInv'
<1>r. RelayInv'
  BY RelayInvStep DEF EndpointInv
<1>1. CASE ChangeStep
  BY <1>1, <1>r, ChangeStepFollows DEF EndpointInv
<1>2. CASE RelayStep
  BY <1>2, <1>r, RelayStepFollows DEF EndpointInv
<1>3. CASE Rollback \/ RollbackFails \/ PanelKilled
             \/ \E e, c \in Endpoint, p \in Policy : ImportSettings(e, c, p)
  BY <1>3, <1>r, OtherStepFollows DEF EndpointInv
<1>4. CASE UNCHANGED endpointVars
  <2>1. ChangeFollows'
    BY <1>4 DEF endpointVars, confVars, EndpointInv, ChangeFollows, Aligned
  <2> QED BY <1>r, <2>1 DEF EndpointInv
<1> QED BY <1>1, <1>2, <1>3, <1>4 DEF EndpointNext, ChangeStep, RelayStep

LEMMA RelayInvAlways == EndpointSpec => []RelayInv
<1>1. EndpointInit => RelayInv
  BY EndpointStart DEF EndpointInv
<1>2. RelayInv /\ [EndpointNext]_endpointVars => RelayInv'
  BY RelayInvStep
<1> QED BY <1>1, <1>2, PTL DEF EndpointSpec

\* Settings, configuration, change and relay job are of their types, whatever
\* fails: no rollback starts without a backup to go back to, and no job of a
\* change runs on without it (vpnEndpointManager.js:182-253, ikeRelay.js:13-54).
THEOREM EndpointTypeCorrect == EndpointSpec => []EndpointType
<1>1. RelayInv => EndpointType
  BY DEF RelayInv
<1> QED BY <1>1, RelayInvAlways, PTL

\* Between changes the address, the identity and the certificate are one, whatever
\* step fails, with or without its effect, unless a rollback or its panel dies or
\* an import replaces a part; if the checks after the save cannot fail, for the
\* change is then rolled back under settings already saved
\* (vpnEndpointManager.js:205-239).
THEOREM EndpointAgreesAlways == ~LateFaults /\ EndpointSpec => []EndpointAgrees
<1>1. EndpointInv => EndpointAgrees
  BY DEF EndpointInv, ChangeFollows, EndpointAgrees, Aligned
<1>2. CASE LateFaults
  BY <1>2
<1>3. CASE ~LateFaults
  <2>1. EndpointInv /\ [EndpointNext]_endpointVars => EndpointInv'
    BY <1>3, EndpointStep
  <2> QED BY <1>1, <2>1, EndpointStart, PTL DEF EndpointSpec
<1> QED BY <1>2, <1>3

\* With nothing in progress the relay strongSwan offers is the saved one, whoever
\* asked for the jobs and whatever was rolled back under them, unless the last
\* provisioning failed or an import replaced the policy (ikeRelay.js:13-54).
THEOREM RelayFollowsAlways == EndpointSpec => []RelayFollows
<1>1. RelayInv => RelayFollows
  BY NothingIsIdle DEF RelayInv, RelayInStep, RelayFollows, Reached
<1> QED BY <1>1, RelayInvAlways, PTL

=============================================================================
