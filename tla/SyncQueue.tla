------------------------------ MODULE SyncQueue ------------------------------
(***************************************************************************)
(* How an account change in PostgreSQL reaches the two protocol servers:   *)
(* the serialized jobs of services/syncQueue.js, each running syncSecrets  *)
(* (vpn.js) and syncXray (services/xray.js) with the root helper behind it *)
(* (xray-apply.py), fed by administrators' edits, the worker's quota pass  *)
(* (worker.js) and the 15 s retry timer.                                   *)
(*                                                                         *)
(* A generated configuration is the set of accounts it serves.  `blocked'  *)
(* is quota_blocked; `over' an account beyond its daily or total quota,    *)
(* `expired' one past expires_at.  Deleting or adding an account acts on   *)
(* the servers as switching it off or on.                                  *)
(***************************************************************************)
EXTENDS Integers, FiniteSets

CONSTANTS
    User,           \* accounts
    Stopped,        \* the core runs no configuration
    NoFile,         \* the runtime copy xray.json is absent
    Causes,         \* bound: what may change an account
    MaxQueue,       \* bound: waiting jobs told apart (they all do the same)
    HelperFaults,   \* a helper, the drain or a job's database call may fail
    WarpFaults,     \* prepareWarpPolicy may fail, or change the policy
    WorkerFaults,   \* a query of enforceQuotas may fail
    CoreCrashes,    \* the core may die and be restarted by systemd
    KillPoints      \* steps of a job at which the panel may be restarted

Steps == {"idle", "secrets", "install", "users", "compare", "write", "apply", "mark"}

ASSUME SyncAssumption ==
    /\ \A S \in SUBSET User : S # Stopped /\ S # NoFile
    /\ Causes \subseteq {"switch", "quota", "expiry"}
    /\ MaxQueue \in Nat \ {0}
    /\ {HelperFaults, WarpFaults, WorkerFaults, CoreCrashes} \subseteq BOOLEAN
    /\ KillPoints \subseteq Steps

VARIABLES
    \* vpn_users
    enabled, over, expired, blocked,
    \* the servers and the files
    ike,     \* accounts whose secret strongSwan has loaded
    core,    \* accounts the running Xray core serves, or Stopped
    halted,  \* the core was stopped with systemctl: systemd leaves it alone
    root,    \* the applied configuration, owned by root
    file,    \* the runtime copy the next job compares with, or NoFile
    \* the sync queue
    pc,      \* where the running job is
    list,    \* the accounts it read last
    warpErr, \* prepareWarpPolicy failed in it (warpError)
    queue,   \* jobs waiting for it
    timer,   \* the retry timer is armed
    owed,    \* who has committed a change and not yet queued the sync
    \* the worker
    wpc, seen, due, todo, changed   \* its pass: accounts read as blocked, as due
                                    \* to be, rows left, `changed'

dbVars     == <<enabled, over, expired, blocked>>
serverVars == <<ike, core, halted, root, file>>
jobVars    == <<pc, list, warpErr>>
queueVars  == <<queue, timer, owed>>
workerVars == <<wpc, seen, due, todo, changed>>
vars == <<dbVars, serverVars, jobVars, queueVars, workerVars>>

\* The WHERE of syncSecrets and eligibleUser agree.
Eligible == enabled \ (blocked \cup expired)

DbType ==
    /\ enabled \subseteq User /\ over \subseteq User
    /\ expired \subseteq User /\ blocked \subseteq User

ServerType ==
    /\ ike \subseteq User /\ root \subseteq User
    /\ core = Stopped \/ core \subseteq User
    /\ file = NoFile \/ file \subseteq User

QueueType ==
    /\ pc \in Steps /\ list \subseteq User
    /\ queue \in 0..MaxQueue /\ owed \subseteq {"admin", "worker"}

WorkerType ==
    /\ wpc \in {"idle", "enforce"}
    /\ seen \subseteq User /\ due \subseteq User /\ todo \subseteq User

FlagType ==
    halted \in BOOLEAN /\ warpErr \in BOOLEAN /\ timer \in BOOLEAN /\ changed \in BOOLEAN

\* Everything is well formed, a core stopped on purpose does not run, and the
\* copy being applied is the list that was read.
TypeOK ==
    /\ DbType /\ ServerType /\ QueueType /\ WorkerType /\ FlagType
    /\ halted => core = Stopped
    /\ pc = "apply" => file = list

\* Mutant: a sync asked for while a job runs is taken to be covered by it.
EnqueuedIfIdle == IF pc = "idle" THEN 1 ELSE queue

\* enqueueSync, up to the bound
Enqueued == IF queue < MaxQueue THEN queue + 1 ELSE queue

\* server.js: the startup sync is the first job of a fresh process.
Init ==
    /\ enabled = User /\ over = {} /\ expired = {} /\ blocked = {}
    /\ ike = {} /\ core = Stopped /\ halted = TRUE /\ root = {} /\ file = NoFile
    /\ pc = "idle" /\ list = {} /\ warpErr = FALSE
    /\ queue = 1 /\ timer = FALSE /\ owed = {}
    /\ wpc = "idle" /\ seen = {} /\ due = {} /\ todo = {} /\ changed = FALSE

-----------------------------------------------------------------------------
(* Accounts: edits commit first and queue a sync afterwards. *)

\* updateUser switches an account on or off.
Toggle(u) ==
    /\ "switch" \in Causes /\ "admin" \notin owed
    /\ enabled' = IF u \in enabled THEN enabled \ {u} ELSE enabled \cup {u}
    /\ owed' = owed \cup {"admin"}
    /\ UNCHANGED <<over, expired, blocked, serverVars, jobVars, queue, timer, workerVars>>

\* addTraffic, or updateUser with resetUsage
Release(u) ==
    /\ "quota" \in Causes /\ "admin" \notin owed
    /\ over' = over \ {u} /\ blocked' = blocked \ {u}
    /\ owed' = owed \cup {"admin"}
    /\ UNCHANGED <<enabled, expired, serverVars, jobVars, queue, timer, workerVars>>

\* extendUser lifts the block whatever its reason.
Extend(u) ==
    /\ "expiry" \in Causes /\ "admin" \notin owed
    /\ expired' = expired \ {u} /\ blocked' = blocked \ {u}
    /\ owed' = owed \cup {"admin"}
    /\ UNCHANGED <<enabled, over, serverVars, jobVars, queue, timer, workerVars>>

\* updateUser with expiresAt moves the date and leaves the block.
SetExpiry(u) ==
    /\ "expiry" \in Causes /\ "admin" \notin owed
    /\ expired' \in {expired \cup {u}, expired \ {u}}
    /\ owed' = owed \cup {"admin"}
    /\ UNCHANGED <<enabled, over, blocked, serverVars, jobVars, queue, timer, workerVars>>

\* Traffic and the calendar: nobody is told.
QuotaChanges(u) ==
    /\ "quota" \in Causes
    /\ over' = IF u \in over THEN over \ {u} ELSE over \cup {u}
    /\ UNCHANGED <<enabled, expired, blocked, serverVars, jobVars, queueVars, workerVars>>

Expires(u) ==
    /\ "expiry" \in Causes
    /\ expired' = expired \cup {u}
    /\ UNCHANGED <<enabled, over, blocked, serverVars, jobVars, queueVars, workerVars>>

\* queueSyncSecrets
QueueSync(who) ==
    /\ who \in owed
    /\ owed' = owed \ {who} /\ queue' = Enqueued
    /\ UNCHANGED <<dbVars, serverVars, jobVars, timer, workerVars>>

-----------------------------------------------------------------------------
(* The worker: collectXrayUsage, then enforceQuotas. *)

StopCore == core' = Stopped /\ halted' = TRUE

\* stop-xray with its error swallowed
TryStop == StopCore \/ (HelperFaults /\ UNCHANGED <<core, halted>>)

\* tick: a failed collection stops the core and queues a sync.
CollectFails ==
    /\ wpc = "idle" /\ HelperFaults /\ "worker" \notin owed
    /\ TryStop
    /\ owed' = owed \cup {"worker"}
    /\ UNCHANGED <<dbVars, ike, root, file, jobVars, queue, timer, workerVars>>

\* enforceQuotas reads every row once.
ReadRows ==
    /\ wpc = "idle"
    /\ wpc' = "enforce" /\ todo' = User /\ changed' = FALSE
    /\ seen' = blocked /\ due' = over \cup expired
    /\ UNCHANGED <<dbVars, serverVars, jobVars, queueVars>>

\* One row: shouldBlock, by the row as it was read and the clock of now; it
\* is rewritten if the flag that was read differs, or the reason (not modelled).
EnforceRow(u, shouldBlock, rewrite) ==
    /\ wpc = "enforce" /\ u \in todo
    /\ u \in due => shouldBlock
    /\ shouldBlock => u \in due \cup expired
    /\ shouldBlock # (u \in seen) => rewrite
    /\ rewrite => shouldBlock \/ u \in seen
    /\ blocked' = IF ~rewrite THEN blocked
                  ELSE IF shouldBlock THEN blocked \cup {u} ELSE blocked \ {u}
    /\ changed' = (changed \/ rewrite)
    /\ todo' = todo \ {u}
    /\ UNCHANGED <<enabled, over, expired, serverVars, jobVars, queueVars, wpc, seen, due>>

Ended == wpc' = "idle" /\ seen' = {} /\ due' = {} /\ todo' = {} /\ changed' = FALSE

\* if (changed) queueSyncSecrets()
EndRows ==
    /\ wpc = "enforce" /\ todo = {}
    /\ queue' = IF changed THEN Enqueued ELSE queue
    /\ Ended
    /\ UNCHANGED <<dbVars, serverVars, jobVars, timer, owed>>

\* The UPDATE of a later row fails: tick logs the error and is over.
AbortRows ==
    /\ WorkerFaults /\ wpc = "enforce" /\ todo # {}
    /\ Ended
    /\ UNCHANGED <<dbVars, serverVars, jobVars, queueVars>>

-----------------------------------------------------------------------------
(* One job of the queue. *)

StartJob ==
    /\ pc = "idle" /\ queue > 0
    /\ queue' = queue - 1 /\ pc' = "secrets" /\ warpErr' = FALSE
    /\ UNCHANGED <<dbVars, serverVars, list, timer, owed, workerVars>>

\* The catch of the job: unless only the optional policy failed, stop the
\* core; arm the retry timer; the job is over.
Fail(optional) ==
    /\ IF optional THEN UNCHANGED <<core, halted>> ELSE TryStop
    /\ timer' = TRUE
    /\ pc' = "idle" /\ list' = {} /\ warpErr' = FALSE
    /\ UNCHANGED <<dbVars, ike, root, queue, owed, workerVars>>

\* syncSecrets reads the accounts.
ReadSecrets ==
    /\ pc = "secrets"
    /\ list' = Eligible /\ pc' = "install"
    /\ UNCHANGED <<dbVars, serverVars, warpErr, queueVars, workerVars>>

\* rename, sync-secrets, normalize-conn
Install ==
    /\ pc = "install"
    /\ ike' = list /\ pc' = "users"
    /\ UNCHANGED <<dbVars, core, halted, root, file, list, warpErr, queueVars, workerVars>>

\* The read, the rename or sync-secrets fails.
InstallFails ==
    /\ pc = "install" /\ HelperFaults
    /\ Fail(FALSE) /\ UNCHANGED file

\* sync-secrets took effect, and it or normalize-conn still failed.
InstallHalfFails ==
    /\ pc = "install" /\ HelperFaults
    /\ ike' = list
    /\ TryStop /\ timer' = TRUE
    /\ pc' = "idle" /\ list' = {} /\ warpErr' = FALSE
    /\ UNCHANGED <<dbVars, root, file, queue, owed, workerVars>>

\* syncXray reads the accounts and prepares the routing policy; a changed
\* policy skips the comparison.
ReadAccounts ==
    /\ pc = "users"
    /\ list' = Eligible
    /\ \E changedPolicy, failed \in BOOLEAN :
        /\ WarpFaults \/ ~(changedPolicy \/ failed)
        /\ ~(changedPolicy /\ failed)
        /\ warpErr' = failed
        /\ pc' = IF changedPolicy THEN "write" ELSE "compare"
    /\ UNCHANGED <<dbVars, serverVars, queueVars, workerVars>>

\* Mutant: the comparison trusts the copy also when the core is stopped.
UpToDateFile == file = list

\* desired === json and the core is running
UpToDate == file = list /\ core # Stopped

\* Nothing to apply; a failed policy is still the job's failure.
Skip ==
    /\ pc = "compare" /\ UpToDate
    /\ IF warpErr
         THEN Fail(TRUE) /\ UNCHANGED <<ike, file>>
         ELSE /\ pc' = "mark"
              /\ UNCHANGED <<dbVars, serverVars, list, warpErr, queueVars, workerVars>>

\* The counters are drained next (module XrayMetering), then the copy written.
Differs ==
    /\ pc = "compare" /\ ~UpToDate
    /\ pc' = "write"
    /\ UNCHANGED <<dbVars, serverVars, list, warpErr, queueVars, workerVars>>

\* Reading accounts, comparing, draining or writing the copy fails.
PrepareFails ==
    /\ pc \in {"compare", "write"} /\ HelperFaults
    /\ Fail(FALSE) /\ UNCHANGED file

\* The copy is replaced atomically.
WriteFile ==
    /\ pc = "write"
    /\ file' = list /\ pc' = "apply"
    /\ UNCHANGED <<dbVars, ike, core, halted, root, list, warpErr, queueVars, workerVars>>

\* xray-apply.py: the applied configuration is replaced, the core restarted.
Apply ==
    /\ pc = "apply"
    /\ root' = file /\ core' = file /\ halted' = FALSE
    /\ IF warpErr
         THEN /\ timer' = TRUE /\ pc' = "idle" /\ list' = {} /\ warpErr' = FALSE
         ELSE pc' = "mark" /\ UNCHANGED <<timer, list, warpErr>>
    /\ UNCHANGED <<dbVars, ike, file, queue, owed, workerVars>>

\* Mutant: the copy of a failed application is left in place.
FileLeft == file

\* fs.rm of the copy whose application failed
FileDropped == NoFile

\* sync-xray fails before or after it replaced the applied configuration:
\* stop the core and drop the copy, whatever stop-xray answers.
ApplyFails ==
    /\ pc = "apply" /\ HelperFaults
    /\ root' \in {root, file}
    /\ TryStop \/ (core' = root' /\ halted' = FALSE)
    /\ file' = FileDropped
    /\ timer' = TRUE
    /\ pc' = "idle" /\ list' = {} /\ warpErr' = FALSE
    /\ UNCHANGED <<dbVars, ike, queue, owed, workerVars>>

\* provisioning_status: the job succeeded and disarms the retry timer.
Mark ==
    /\ pc = "mark"
    /\ timer' = FALSE
    /\ pc' = "idle" /\ list' = {}
    /\ UNCHANGED <<dbVars, serverVars, warpErr, queue, owed, workerVars>>

MarkFails ==
    /\ pc = "mark" /\ HelperFaults
    /\ Fail(FALSE) /\ UNCHANGED file

\* 15 s after a failed job
Retry ==
    /\ timer
    /\ timer' = FALSE /\ queue' = Enqueued
    /\ UNCHANGED <<dbVars, serverVars, jobVars, owed, workerVars>>

-----------------------------------------------------------------------------
(* Crashes *)

CoreDies ==
    /\ CoreCrashes /\ core # Stopped
    /\ core' = Stopped
    /\ UNCHANGED <<dbVars, ike, halted, root, file, jobVars, queueVars, workerVars>>

\* Mutant: whatever stopped the core, systemd starts it again.
RestartAlways == core = Stopped

\* Restart=on-failure
RestartOnFailure == core = Stopped /\ ~halted

\* systemd starts the core again, from the applied configuration.
CoreRestarts ==
    /\ RestartOnFailure
    /\ core' = root
    /\ UNCHANGED <<dbVars, ike, halted, root, file, jobVars, queueVars, workerVars>>

\* Queue, timer and pass are lost; the new process starts with a sync.
PanelRestart ==
    /\ pc \in KillPoints
    /\ pc' = "idle" /\ list' = {} /\ warpErr' = FALSE
    /\ queue' = 1 /\ timer' = FALSE /\ owed' = {}
    /\ Ended
    /\ UNCHANGED <<dbVars, serverVars>>

Job ==
    \/ StartJob
    \/ ReadSecrets
    \/ Install
    \/ InstallFails
    \/ InstallHalfFails
    \/ ReadAccounts
    \/ Skip
    \/ Differs
    \/ PrepareFails
    \/ WriteFile
    \/ Apply
    \/ ApplyFails
    \/ Mark
    \/ MarkFails

Next ==
    \/ \E u \in User : Toggle(u)
    \/ \E u \in User : Release(u)
    \/ \E u \in User : Extend(u)
    \/ \E u \in User : SetExpiry(u)
    \/ \E u \in User : QuotaChanges(u)
    \/ \E u \in User : Expires(u)
    \/ \E who \in {"admin", "worker"} : QueueSync(who)
    \/ CollectFails
    \/ ReadRows
    \/ \E u \in User, b, r \in BOOLEAN : EnforceRow(u, b, r)
    \/ EndRows
    \/ AbortRows
    \/ Job
    \/ Retry
    \/ CoreDies
    \/ CoreRestarts
    \/ PanelRestart

Spec == Init /\ [][Next]_vars

\* A job moves on, the worker and the timers fire, and no call fails for ever.
Fairness ==
    /\ \A who \in {"admin", "worker"} : WF_vars(QueueSync(who))
    /\ WF_vars(ReadRows) /\ WF_vars(EndRows)
    /\ \A u \in User : WF_vars(\E b, r \in BOOLEAN : EnforceRow(u, b, r))
    /\ WF_vars(Retry) /\ WF_vars(StartJob) /\ WF_vars(ReadSecrets) /\ WF_vars(ReadAccounts)
    /\ WF_vars(Mark \/ MarkFails) /\ WF_vars(CoreRestarts)
    /\ SF_vars(Install) /\ SF_vars(Skip \/ Differs) /\ SF_vars(WriteFile) /\ SF_vars(Apply)

FairSpec == Spec /\ Fairness

-----------------------------------------------------------------------------
(* Properties *)

\* The accounts the core accepts
Served == IF core = Stopped THEN {} ELSE core

\* A job will follow, or a pass is going to queue one.
Owing == queue > 0 \/ owed # {} \/ changed

Quiet == pc = "idle" /\ ~timer /\ ~Owing

\* Outside the application itself, the copy that syncXray compares with is the
\* applied configuration, and the one a running core serves: the comparison
\* may stand in for asking the core (xray.js:90-95).
CopyIsApplied ==
    pc # "apply" /\ file # NoFile => root = file /\ core \in {Stopped, root}

\* When nothing is queued, running, owed or waiting for the retry timer, both
\* servers accept exactly the accounts the database allows, but for those
\* that have expired since and a core that is down: no edit, quota decision,
\* failure or restart slips between the jobs.
QuietMeansSynced ==
    Quiet => /\ ike \ expired = Eligible
             /\ core # Stopped => core \ expired = Eligible

\* The half of it that the documentation states: disabled, expired or blocked
\* accounts are not allowed to connect (docs/XRAY-RECOVERY.md:11).
IneligibleRefused == Quiet => (ike \cup Served) \ expired \subseteq Eligible

\* An account that stays disabled, expired or blocked is in the end refused by
\* both servers for good, whatever fails on the way (syncQueue.js:31-39).
CutOff ==
    \A u \in User :
        <>[](u \notin Eligible) => <>[](u \notin ike \cup Served)

\* An account that stays allowed is again and again accepted by both: no run
\* of failures, stops and retries leaves the core down for good.
KeptServed ==
    \A u \in User :
        <>[](u \in Eligible) => []<>(u \in ike \cap Served)

=============================================================================
