# ZVPN in TLA+

TLA+ models of the ZVPN panel (the Node.js backend under `src/backend/src`, its
worker, the root helper under `src/ops/helper` that acts on strongSwan and Xray,
the Firefox sidecar under `src/ops/firefox`, and the console's forms as far as
they hold state), TLC configurations that check them on small instances, and TLAPS proofs
of what holds for every instance.

    tlc -workers 2 -config Sync.cfg MCSyncQueue.tla     # any run of the table below
    tlapm SyncQueueProofs.tla                           # any of the *Proofs modules

`PROJECT.json` lists the components, the runs, the source lines of every
definition, the hazards and the theorems.

## 1. The system

One Node.js process ("the panel") serves the API, holds a few pieces of state in
memory and keeps everything else in PostgreSQL. It drives two protocol servers
through `sudo zvpn-helper <action>`: strongSwan (IKEv2) and the Xray core
(VLESS). The process is single threaded, so steps interleave at every `await`;
`systemd` restarts it (`Restart=always`), and restarts a core that died
(`Restart=on-failure`) but not one that was stopped with `systemctl stop`.

| component | state it keeps | operations |
|---|---|---|
| Device-limit reconciler (`sessionReconciler.js`, `worker.js`, `sessionTermination.js`) | `users` map: over-limit timestamp and termination outcomes per id; table `session_reconcile_state` | one pass per poll: forget, grace, terminate, save; administrators' disconnect |
| Xray metering (`xray.js`, `sharedUsage.js`, `xrayConfig.js`, `usageReset.js`) | `usageTail`; cursor tables per transport; balances of `vpn_users` | collect (poll, drain, reset, removal), record one account, reset, remove |
| Account synchronization (`syncQueue.js`, `vpn.js`, `xray.js`, `xray-apply.py`, `worker.js`, `users.js`) | promise chain, retry timer; `ipsec-users.secrets`, runtime `xray.json`, root's `config.json`; `quota_blocked` | edit, quota pass, job: secrets, compare, write, apply, mark; retry |
| IKE metering (`ikeUsage.js`, `ikeCounters.js`, `worker.js`) | `sa_snapshots`: a row per id with identity, child counters, last seen | list, record one SA per transaction, prune |
| Account administration (`users.js`, the edit forms of `UsersPage.tsx` and `UserDetailPage.tsx`, `worker.js`, `sharedUsage.js`, `backup.js`) | the row of `vpn_users`: term, first connection, limits, status, password; open forms; requests that wait for a job | edit, extend, add traffic, reset the activation, start the term, create, re-key, remove, import |
| Administrator authentication (`auth.js`, `LoginPage.tsx`) | `admins.password_hash`, `admin_sessions`, the cookie | login, logout, password change, expiry |
| Endpoint change (`vpnEndpointManager.js`, `VpnEndpointWizard.tsx`) | certificate, `ipsec.conf`, the `vpn` settings, the helper's backup | six steps, rollback |
| IKE relay (`ikeRelay.js`) | the `ikeRelay` settings, the connection file and its include line, what was provisioned last | provision, save, undo; hourly check |
| Profiles and portal (`profiles.js`, `vpnConfig.js`) | a cache over the `vpn` settings, the CA read once per process | download, save, invalidate |
| Backups (`githubBackup.js`, `telegramBackup.js`, `settings.js`) | `lastBackupAt`, the timers, a lock, what the chat received | dispatch by hand or by the clock, record, save a form |
| Firefox sidecar (`ops/firefox/service.mjs`) | generation, credential and its file, pass, refresh, SOCKS clients and their count | tunnel, refresh, country, login, logout, renew, check |
| Import (`backup.js`) | all of the above | an action of each module it writes to |
| Selective routing, observability, migrations, installation | files, append-only tables | see section 5 |

How they interact: the worker's tick runs the metering, then reads the SAs,
records their counters and runs the quota pass, whose eligible sessions go to
the reconciler. A change of an account (by an administrator or the quota pass)
is committed first and queues a synchronization job afterwards; the job drains
the Xray counters before it restarts the core. A failed reading of the counters
stops the core and queues a job. The first four components therefore meet in
`tick` and in `syncXray`. The others meet through rows: a term is started by
either meter and edited by forms (`AccountEdits`), which also save the traffic limit
(`LimitEdits`); a request for an account waits
for a job of the queue and then disconnects what the last poll listed
(`Provisioning`); an endpoint change runs a job of the relay and is read back by
the profiles' cache; an import overwrites the rows of all of them without telling
anybody.

What makes them hard: state read before an `await` and used after it; helper
commands that time out after taking effect; a panel killed between two steps; a
core or a charon that restarts and starts counting or numbering anew; database
errors that are swallowed; forms and handlers that write back what they read long
ago; locks that cover one caller and not another; and work that must follow eventually (a retry, a
blocked account that must be cut off). `PROJECT.json` lists each hazard at its
line with the property that covers it, or why none does.

## 2. The modules

    SessionReconciler --- MCSessionReconciler      (TLC)
                      \-- SessionReconcilerProofs  (TLAPS)
    UsageLedger  <== refined by ==  XrayMetering --- MCXrayMetering (TLC)
                                                 \-- XrayMeteringProofs (TLAPS)
    IkeMetering --- MCIkeMetering      (TLC)
                \-- IkeMeteringProofs  (TLAPS)
    SyncQueue --- MCSyncQueue      (TLC)
              \-- SyncQueueProofs  (TLAPS)
    AccountEdits, LimitEdits, Provisioning ------\
    EndpointChange -------------------------------\
    AdminSessions, Profiles, BackupSchedule ------- MCPanel (TLC)
    SlotPool <== refined by == FirefoxSidecar ----/
    AccountProofs (of AccountEdits, LimitEdits, Provisioning),
    EndpointChangeProofs, FirefoxSidecarProofs, MCPanel --- PanelProofs (TLAPS)

### SessionReconciler

Models `tick` from `list-sas` on, as it concerns sessions. `sa`, `closing` and
`nextId` are strongSwan; `eligible`, `limit` and `row` the database; `pc` and
`snap` ... `cmds` the locals of the tick (`snap` is also `lastSessions`);
`since`, `done` and `failed` the `users` map of the class (`overLimitSince` and the
two outcomes of `terminations`). Actions follow the awaits: `ReadSas`,
`ReadUsers`, `CutSession` (enforceQuotas' immediate terminations),
`StartReconcile` (now(), the clean-up loop), then per account `LeaveAlone`,
`InGrace` or `Enforce`, one `Command` per awaited terminate in the order of the
extras, `FinishUser` (saveState), `EndPass`. Around them: `Connect`,
`Disconnect`, `DaemonRestart`, `FlipEligible`, `SetLimit`, `AdminDisconnect`,
`PanelRestart` at the points of a tick in `KillPoints`, and `Elapse`.

Abstractions: timestamps are kept as elapsed time and capped where the code no
longer tells values apart; `lag` is the time since the pass took `now()`. Ids
are small numbers that grow between two restarts of charon, so the code's order
by age and then id is the order of ids. The clean-up loop and its deletes are one
action; the order of accounts within a pass is left open.

History variables: `over` (time since the current unbroken run of over-limit
polls began), `firstOver` (since the first ever), `acked` (live ids whose
termination was acknowledged).

### UsageLedger and XrayMetering

`UsageLedger` is what metering promises: each byte an incarnation of the core
carried is charged at most once and not before it was carried, the balance
moves by exactly the charge, and only a reset or removal clears it.

`XrayMetering` is `collectXrayUsage` with its callers. A caller (`worker`,
`sync`, `reset`, `remove`) enters with `Call` and waits for `usageTail` (`Free`);
`ReadEpoch`, `QueryStats`, `CheckEpoch` are the awaits of `readXrayUsage`;
`Record` and `RecordNobody` the per-account transaction; `CollectDone` and
`CollectFails` the end. Then the caller acts outside the chain:
`WorkerContinues` (a failure stops the core), `SyncRestarts` or `SyncStops`,
`ResetUsage`, `RemoveUser`, `RequestFails`. `Serve`, `CoreStops`, `CoreStarts`
are the core. `PanelRestart` loses everything in memory.

Abstractions: uplink and downlink follow one rule and are one counter; the epoch
string (boot id, pid, start time) is the number of the incarnation; daily and
hourly rows move with the balance and are left out. `bill`, `asked` and
`forgiven` are history. The refinement mapping is the identity on `traffic`,
`bill` and `balance`.

### IkeMetering

The polling half of `tick`. `live`, `age`, `nextId`, `carried` and `retired` are
strongSwan: an SA is named by its pair of SPIs, its id is the number that a
restarted charon hands out again. `row` is `sa_snapshots`, `account` says which SAs
still have an account. `List` is `list-sas` with `parseSas`: it leaves out retired
children, and any other child may be missing for one reading (the case the comment
in `ikeCounterDelta` speaks of); `EmptyLists` says whether all of them may at once.
`Record` is `recordSession` of one SA, in any order, with the cursor rules of
`ikeCounterDelta` (`Same`, `Last`, `Baseline`, `Delta`, `Due`, `Cursors`); `Prune`
the DELETE at the end of `enforceQuotas`; `Abandon` a throw anywhere in the tick,
or the end of the panel. `Connect`, `Disconnect`, `DaemonRestart`, `Carry`,
`Retire`, `Elapse` and `RemoveUser` come in between at any point.

Abstractions: upload and download follow one rule; time is counted in polls and
capped where the code tells no more; daily and hourly rows, the activity calendar,
the first-connect activation and the relay's share are left out, and so are rows
from before migration 015 and an account created anew under a surviving SA. An
account is told apart only by its SAs. `Elapse` keeps a tick shorter than the ten
minutes after which the rows it recorded would be pruned. `charged` and `waived`
(bytes a baseline let pass) are history.

### SyncQueue

A generated configuration is the set of accounts it serves. `ike` is what
strongSwan has loaded, `core` what the running core serves (or `Stopped`),
`halted` whether it was stopped on purpose, `root` the applied `config.json`,
`file` the runtime copy that `syncXray` compares with. `queue` counts waiting jobs
(they all do the same, so `MaxQueue` jobs stand for more), `timer` is the 15 s
retry, `owed` an edit that is committed and whose `queueSyncSecrets` has not run.
The worker's pass reads all rows (`ReadRows`), decides row by row over what it
read (`EnforceRow`) and queues at the end (`EndRows`), or fails on the way
(`AbortRows`). A job is `StartJob`, `ReadSecrets`, `Install`, `ReadAccounts`,
`Skip` or `Differs`, `WriteFile`, `Apply`, `Mark`, with the failures that leave
each of them (`InstallFails`, `InstallHalfFails`, `PrepareFails`, `ApplyFails`,
`MarkFails`, all through `Fail`). `CoreDies`, `CoreRestarts` and `PanelRestart` are
the crashes; `KillPoints` says at which steps of a job the panel may be killed.

Abstractions: the routing policy and the relay are outcomes of a job (failed,
changed, unchanged); the drain is an outcome here and a component of its own in
`XrayMetering`; a removed or added account is one that is switched off or on. Xray
is installed and enabled. A row is judged by the account's expiry when it is
processed, which also covers an administrator who moves the date in between.

### AccountEdits

One row and everybody who writes its term. `OpenForm` fills a form with the row as
the page shows it (`Shown`: a date field keeps minutes on one page and days on the
other), `SubmitForm` writes whatever the administrator made of it back (`Sent`,
`Patch`); `ReadExtend`/`WriteExtend` is the handler that computes in JavaScript from a
SELECT; `ResetActivation`, `Export` and `Import` are single statements on the row.
`IkeSees`/`IkeActivates` and `XrayActivates` are the two meters that start a term: the
first reads the row before its UPDATE, the second under the row's lock. `seen` (nobody
has written the row since it was read) is history.

### LimitEdits

The other columns the same forms save: the traffic limit, which no statement computes
from the term or the term from it. `FilledLimit` is what a form shows: the limit in
gigabytes with two decimals (`Rounded`, the round trip through `bytesToGb` and
`gbToBytes`) and the switch. `LimitSent` is what it sends: no limit when the switch says
unlimited, so saving an unlimited account erases the limit it may still hold.
`ReadTraffic`/`WriteTraffic` is `addTraffic`, which adds any number of bytes to a limit
that may be none and becomes one. `Limited` is how quota enforcement reads the columns: a limit of zero
is one (disagreement 8).

Abstractions: a hundredth of a gigabyte is a whole number of bytes (`Hundredth`; the
last rounding, to a byte, is left out). The daily limit goes through the same two
conversions and nothing but the forms writes it; it is left out, like the other columns
only forms write.

### Provisioning

Requests around the queue. `Commit` is what `provisionUser` and `resetPassword` share:
the row first, then a job of one's own (`Queued`), awaited for a minute (`Timeout`
leaves the job in the chain). A job is `ReadList`, `Load`, `MarkActive` or
`JobFails`; `SyncQueue` has the whole of it. `EndCreate`, `EndReset` (which
disconnects the last poll's sessions), `ResetFails`, and the removal of one account
or a selection (`Delete`, `DeleteNext`, `DeleteRow`, `EndDelete`) follow the awaits.
`session`, `listed` and `Poll` are the SAs and `lastSessions`. `told` is the newest
password somebody was told is in force. When a creation's own job failed the code reads
the status back, and may so answer with what another job wrote; `told` follows the
request's own job.

### AdminSessions

Login is two queries (`VerifyAdmin`, `SignAdmin`), the password change three
(`ComparePassword`, `UpdatePassword`, `RevokeAll`), and any number of browsers are
between them. Passwords are numbered, so `with < changed` says that a session was
opened with an older one. `ImportAdmins` replaces the hash, `Me`, `Return`, `Logout`
(answered or not) and `Expire` complete the routes. The rate limits, roles and
token formats are left out.

### EndpointChange

`change` walks through the steps of `applyEndpointChange`: `BackUp`, `IssueCert`,
`SetLeftid`, the relay's job, `Restart`, `SaveEndpoint`, `Applied`. `StepFails` is
the failure of any of them, with or without its effect, and leads to `Rollback` (or
`RollbackFails`) and the relay's job again. `job` is the one job of `ikeRelay.js`
that `serialize` lets run, for an administrator (`Provision`, `SaveRelay`, `Undo`),
the hourly check or the change. `PanelKilled` cuts both anywhere and `ImportSettings`
replaces settings and certificates between changes. `broken` and `doubt` are history:
what a kill, a failed rollback or an import left behind, until the next change or
job mends it. One change runs at a time: nothing in the code prevents a second
one, which is left out.

### Profiles

A download looks the CA up first (`Ask`, `CaInfo`) and then the endpoint, from the
cache (`ServeCached`) or by a query (`Query`, `Answered`) whose answer is kept.
`SaveSite` and `InvalidateSaved` are the two halves of a save; `ImportFiles`,
`ImportInvalidates` and `ImportCommits` the steps of an import, which invalidates
inside its transaction. `Served` says what each kind of file names.

### BackupSchedule

Time passes in steps of a check, `Interval` of them between two backups, and every
timestamp is an age. `Send`, `MakeArchive`, `SendPart`, `SendFails`, `Record` are a
Telegram dispatch under the `sending` lock; `CheckTelegram` is the minute's timer.
`RunGithub`, `GithubTimer`, `GithubDone`, `GithubFails` have no lock. `SaveSettings`
saves a form that may be old and `Merged` is the merge in `updateSettings` that keeps
the stored `lastBackupAt`; `PanelStarts` sets the GitHub timer as it is then. `chat` is
what the chat received last, `since` the true time of the last success, `lost` the
targets whose record failed or was imported over.

### FirefoxSidecar and SlotPool

`SlotPool` is what a limit on simultaneous clients promises: one slot per client,
never more than `Slots`, and a slot comes back once (to several at a time, when the
answer they wait for fails, or to all when the process ends). `FirefoxSidecar` has
`sock`, one record per SOCKS connection: the stage of its handshake and, separately,
whether its socket is open, destroyed or closed, because the handshake's `finally`
and the close event release the same slot. A tunnel is set up in the awaits
`OpenTunnel`, `PickServer`, `Opened`, with one retry (`Rejected`); `refresh` is the
one `refreshJob` all share (`PassGranted`, `PassRefused`); `writes` is the chain of
`persist`, where a write whose generation is over is not begun (`BeginWrite`,
`EndWrite`); `control` is the busy flag with the operations of the card; `Restarted`
reads the file again. The refinement maps the pool's `holders` to the connections
that have not released. Left out: the write that the OAuth exchange makes for
itself, the pause of a minute after a refused refresh (`tokenRetryAt`), the server
catalogue and TLS.

### MCPanel

These eight parts share no variable and none waits for another, so one run explores
them as alternatives: `part` chooses, and only that part takes steps. The symmetry
exchanges administrators, browsers, rows, endpoints, connections and visitors. The
variables of the other parts stay as they began, so the view `PartState` tells states
apart by those of the part that runs.

## 3. Runs

`Panel` takes about three minutes on two workers, every other run at most a minute and
a half.

| run | instance | shows |
|---|---|---|
| `Reconciler` | 1 account, 3 ids per charon life, limit 1, grace 2, a pass may take 1, terminated SAs linger 1; `reject_newest`; polls and terminations fail, charon restarts | `GraceHonoured`, `NoRepeatedCommand` |
| `ReconcilerFaults` | limit up to 2, grace 1; `disconnect_oldest`; polls and every database call fail, the panel is killed anywhere | `TypeOK`, `OldOffender`, `KeepsAllowance` |
| `ReconcilerLive` | fair; polls and terminations fail; 3 ids at a time, recycled, so connections never run out | `Converges` |
| `ReconcilerIdReuse` | fair; charon restarts; nothing recycled | violates `Converges` |
| `ReconcilerStaleRow` | 4 ids; the panel restarts between ticks | violates `GraceHonoured` |
| `Metering` | 1 account, 1 transport, 2 incarnations, 2 bytes each, 2 of the 4 callers at a time; every failure and restart | `TypeOK`, `NeverRegressed`, `ResetForgives`, `DrainedBeforeRestart`, `ImplementsLedger` |
| `IkeMetering` | 2 SAs that share one id, 2 children of 1 byte, rows live 3 polls; every failure and restart | `TypeOK`, `ChargedOnce`, `CursorExact`, `PruneKeepsLive`, `ForgivesFirstSightOnly` |
| `IkeChildGap` | the same, and a reading may miss every child | violates `ChargedOnce` |
| `Sync` | 1 account, every cause of change, every failure, panel killed at every step but `apply` | `TypeOK`, `CopyIsApplied`, `QuietMeansSynced` |
| `SyncLive` | fair; 1 account, quota changes, helper failures, core crashes | `CutOff`, `KeptServed` |
| `SyncPanelCrash` | no failure but a panel killed anywhere | violates `IneligibleRefused` |
| `Panel` | 2 administrators and 1 account, 2 browsers and 3 session rows, 3 endpoints and 1 relay host, 2 downloads, 2 parts per archive, 2 SOCKS connections for 1 slot; every failure, crash and import but the two reported below | `PanelType` and the 18 properties of the eight parts |

Why the bounds are enough. Reconciler: accounts do not share state, except that one pass
handles them in turn, which `lag` stands for. Three ids with limit 1 give two
extras in a pass, and a reconnect after each; `Grace = 2` with `MaxLag = 1`
separates "grace over when read" from "grace over at now()". A terminated SA
lingers less long than the grace period: with a longer one the account can fall
to its limit, or a poll fail, while a closing SA is still listed; the memory of it is
dropped and the command repeated (with `Grace = 1` TLC shows it; `NoRepeatTheorem`
needs exactly `MaxLinger < Grace`). For liveness three connections in a lifetime would be
no bound but a premise: in `ReconcilerLive` an id nobody refers to any more is given out
again and the others move down (`Recycle` in `MCSessionReconciler`; the panel only looks
ids up and compares them), so a behaviour has as many connections as it likes and three
bounds the SAs that are alive or remembered at once. The stale row of
`ReconcilerStaleRow` takes four ids: two sessions for the first over-limit period, which
end, and two for the second. Metering: two incarnations give every
mix-up of counters and cursors of different lives, two bytes a reading strictly
between two others, two concurrent callers every pair; transports have cursor
tables of their own and do not interact. IKE metering: one id shared by two SAs is
what makes cursors of different SAs meet, two children are what a rekey overlaps;
one byte tells a first charge from a second; three polls separate the baseline's
limit from the rows' lifetime. Sync: what a job does to one account
does not depend on another, except that a failing row loses the changes of
earlier ones (disagreement 4). Panel: two of everything that
may overlap (administrators, browsers, connections, downloads, requests) give every
order of their steps, and a third browser or form adds none, since each only reads
and writes the shared row. Three session rows leave one to a login that comes after
the change; three passwords an import or a second change. A clock of 1 before
`Term = 1` and days of 2 put dates on both sides of a field's precision; limits up to 4
bytes with 3 to the hundredth are below, on and between two shown values, rounded either
way. Three
endpoints tell the old, the new and the imported one apart. One slot for two
connections makes the pool full, two generations are the change and what it cuts
off, two writes in the queue are one that is overtaken. Two parts of an archive are
what another dispatch may come between. The proofs remove the bounds for most
safety properties.

`CutOff` and `KeptServed` leave the panel's crash out (`SyncPanelCrash` shows what it
does), and `KeepsAllowance` the policy `reject_newest`, where a closing SA that is
older than a reconnect takes the reconnect's place in the allowance.

### Properties, by the question they answer

- Can a session be terminated too early (`GraceHonoured`; with crashes
  `OldOffender`), twice (`NoRepeatedCommand`), or below the allowance
  (`KeepsAllowance`)? Is the limit enforced in the end (`Converges`)?
- Can a byte be charged twice or before it is carried (`ImplementsLedger`),
  come back after a reset (`ResetForgives`), or be lost by a managed restart
  (`DrainedBeforeRestart`)? Can two collectors trip the regression check
  (`NeverRegressed`)?
- Can a rekey, a reused id, a gap or an abandoned tick charge IKEv2 traffic twice
  (`ChargedOnce`) or lose it (`CursorExact`)? Can an outage make a metered SA free
  (`PruneKeepsLive`, `ForgivesFirstSightOnly`)?
- May the job trust the copy it compares with (`CopyIsApplied`)? When nothing is
  pending, do both servers agree with the database (`QuietMeansSynced`, and
  its documented half `IneligibleRefused`)? Is a blocked account cut off
  (`CutOff`) and an allowed one served (`KeptServed`) in the end?
- Does an account sold by duration always get its date (`TermStarts`), once
  (`FirstConnectionStands`)? May two administrators take away what one has sold
  or an untouched form take it back (`SaleKept`)? Does a traffic limit stand through
  additions, rounding and saves of untouched forms (`LimitStands`)?
- Is a password that was reported as changed in force (`ReportedLoaded`) and the old
  sessions closed (`ResetCutsOff`)? Is every failed, abandoned or overtaken request
  made good when the queue is empty (`QuietSynced`)?
- Does a password change of the administrator end every older session
  (`OldSessionsEnd`)?
- Do address, identity and certificate agree after a change that failed anywhere
  (`EndpointAgrees`), and the relay with its settings (`RelayFollows`)? Do profiles
  name the saved endpoint (`ProfilesCurrent`)?
- Is the time of the last backup true (`RecordStands`), no automatic backup too early
  (`Spaced`) and an archive received whole (`WholeArchive`)?
- Is the count of SOCKS clients exact (`SlotsExact`, `BoundedSlots`)? Does any tunnel
  outlive the change that was to end it (`OnlyCurrent`)? Is what an operation reported
  on disk (`ReportedOnDisk`)?

### Fairness

Assumed, and why. `setInterval` calls `tick` for ever and the `running` flag is
cleared in `finally`, every helper call has a timeout and every await of the
process ends, so the internal steps of a tick and of a job are weakly fair. `timer` and
`setImmediate` callbacks run (`Retry`, `QueueSync`). `systemd` restarts a core that
died (`CoreRestarts`). Strong fairness, "what is tried again and again succeeds
in the end", is assumed of exactly the calls that can fail: `list-sas` and a
terminate in the reconciler; `Install`, `Skip \/ Differs`, `WriteFile` and
`Apply` in the sync queue; and of time (`Elapse`), which a pass in progress
suspends. `Mark \/ MarkFails` is only weakly fair: the marking may fail for
ever. Nothing is assumed of clients, administrators, crashes or database faults.
`Converges` has two more premises, both from some point on and stated in the property.
Every poll answers, since each failed poll reads as "everybody left" and restarts the
grace period. And nobody connects to an account that is over its limit: the reconciler
cuts what a poll lists and refuses nothing, so a client that is back each time before
its terminated SA has gone keeps the account over its limit for ever (without this
premise TLC finds that behaviour). Connections to accounts within their limit, which may
bring them over it, go on for ever. `Panel` states safety only and no fairness. It does
not check for deadlock: its parts may stop, because rows, passwords, generations and the clock are bounded.

### Disagreements found

Each is a finding in `PROJECT.json`. The first three and the fifth have a run of
their own, 4, 6 and 7 the change of a constant that shows them; the rest are seen in the
code and in the action that models it.

1. `ReconcilerIdReuse`: the comment at `sessionReconciler.js:101-103` says forgetting
   vanished ids permits a reconnect with the same id after a daemon restart. If
   the id comes back between two polls it is never seen to vanish, and the new SA
   is skipped for as long as it lives.
2. `ReconcilerStaleRow`: migration 005 says the stored timestamp prevents a restart
   from terminating a brand-new reconnect at once. An account is over its limit and its
   row saved; the panel restarts between two ticks and the account's sessions end; in the
   next poll it has none, so neither line 104 nor line 115 deletes the row; the next two
   connections are over the limit, and one is terminated with no grace period. (A
   kill within a tick, before line 115's deletion, leaves the row too; `KillPoints` of the
   run allows only the restart between ticks.)
3. `SyncPanelCrash`: a panel killed after renaming the runtime copy and before
   `sync-xray` leaves a disabled account served by the core, with nothing
   queued: the startup job finds the copy up to date.
4. A quota pass that fails after writing one `quota_blocked` loses the sync for it;
   later passes see no change. (`SyncPanelCrash.cfg` with `User <- TwoUsers`,
   `WorkerFaults = TRUE`, `KillPoints <- NoKills` violates `IneligibleRefused`.)
5. `IkeChildGap`: the comment at `ikeCounters.js:20-21` says an absent CHILD_SA must
   not be billed twice. A reading with no child at all stores no cursors, and the
   children's bytes are billed again when they are back.
6. The wizard promises a rollback on error. The settings are saved before the
   certificate is read back and the health check runs; a failure of these rolls
   strongSwan back and leaves the settings. (`Panel.cfg` with `LateFaults = TRUE`
   violates `EndpointAgrees`.)
7. The edit forms speak of days from the first connection. An account that has
   connected and is switched to a duration never gets a date. (`Panel.cfg` with
   `LateDuration = TRUE` violates `TermStarts`.)
8. Quota enforcement (`worker.js:74-75`) takes a limit of zero for a limit: node-postgres
   returns a bigint as a string, and '0' is true. The pages, `accountLifecycle.js:4` and
   migration 009 take it for none. A form saved with 0, or untouched with a limit below
   0.005 GB, cuts an account off that the pages show as unlimited.
9. The restore dialog wants a `version` that the panel's own exports do not have.
10. `merge`, `full` and `users-only` do not do what the dialog says of them.
11. `githubBackup.js:116` says it reschedules when settings change; it is called once.
12. `FIREFOX.md` says that a disconnect cancels stale refresh results; one that is
    already being saved is joined by new clients.

## 4. Proofs

Every theorem holds for all values of the constants that satisfy the named
assumptions of its module (`ReconcilerAssumption`, `MeteringAssumption`,
`IkeAssumption`, `SyncAssumption`, `EditsAssumption`, `LimitAssumption`, `ProvisioningAssumption`,
`AuthAssumption`, `EndpointAssumption`, `ProfilesAssumption`, `BackupAssumption`,
`SidecarAssumption`: the accounts are any set, the bounds any numbers; only the set
of SOCKS connections must be finite). Every safety property a passing run checks,
invariant, action property or refinement, is proved, some under a named condition
on the faults.

- `SessionReconcilerProofs`: `TypeCorrect` (`TypeOK` is inductive as it stands: the
  delicate part is that a success and a failure of one id exclude each other).
  `GraceTheorem` (no panel restarts or database failures): `GraceInv` adds that
  every entry and every row of an account is at most as old as the
  account's run of over-limit polls, so that what `Enforce` compares with
  `graceMs` is a lower bound of that run. It is false with panel restarts
  (`ReconcilerStaleRow`). What remains with every crash and failure is
  `OldOffenderTheorem`: `OldInv` says the same of the first over-limit poll ever,
  which no restart moves, and so needs no exception for entries about to go.
  `NoRepeatTheorem` (no restarts or database failures, `MaxLinger < Grace`): the
  memory of an acknowledged termination may be dropped while the SA lingers, but only
  together with the account's timestamp, so `RepeatInv` says that such an
  acknowledgement is at least as old as the account's entry (`Remembered`); by the end of the
  new grace period the SA is gone. `IdsUnique` is where a restart of strongSwan would
  break it.
  `AllowanceTheorem` (`disconnect_oldest`, no command fails, no restart of strongSwan):
  `AllowInv` says that the terminations acknowledged and the commands still to come are
  the account's oldest SAs (`OldestFirst`, `OlderPicked`), that a poll lists what is
  older than what it lists (`OlderListed`), and that a remembered success is an
  acknowledgement (`DoneAcked`). TLC shows that none of the three assumptions can go:
  a failed command leaves an older SA behind an acknowledged one, a restart reuses ids,
  and `reject_newest` counts a closing SA.
- `XrayMeteringProofs`: `MeteringInvariant` says that the cursor of a key is the
  number of bytes charged for the incarnation it names, that bytes charged never
  exceed bytes carried, and that a running job's reading lies between the two
  for the entries it has still to record. The last part needs that only one job runs
  (`running`), which is what `usageTail` is for. `MeteringTypeCorrect`,
  `NeverRegressedTheorem` and `LedgerTheorem` (step by step: `Record` is a charge
  or a stutter, `Serve` carries, resets and removals clear, everything else stutters) follow.
  `DrainedTheorem`: what a caller asked to have collected is in the reading its job
  records (`AskedSound`), what a job has recorded is billed (`RecordedCharged`), and so
  is, after a successful collection, everything that was asked for, except of an
  incarnation no job will read any more (`CollectedCharged`, `Dead`).
  `ResetForgivesTheorem`: there is a bill at the last reset (`ResetInv` says it exists,
  no variable holds it) such that the balance is at most the bytes billed
  beyond it, and it covers what was forgiven except for dead incarnations, which bill
  nothing more. The sum over incarnations is the recursive function `Total`; that it is
  monotone and zero on zeros goes by the lemma `UpTo`, an induction over 0..n in first-order
  form (a least counterexample, by `WFMin` over the subsets of an interval).
- `IkeMeteringProofs`: `IkeTyped`, `IkeChargedOnce`, `IkeCursorExact`,
  `IkePruneKeepsLive` and `IkeForgivesFirstSight`, if no reading misses every child of
  an SA (`IkeChildGap` is why). `CursorExact` alone is not inductive: a row that was
  overwritten or deleted must not have been the only trace of a charge. `IkeInv`
  therefore follows an SA through the three places that name it: daemon, reading and
  row use one id (`OneId`), a row of an SA that is up was listed by this tick and is
  young once recorded (`RowCurrent`, `RowYoung`), an SA without a row and a child
  without a cursor were never charged (`Unmet`, `Uncursored`, `NothingListed`), and
  a reading lies between the cursor and the daemon (`ReadingBetween`).
- `SyncQueueProofs`: `TypeCorrect`; `CopyTheorem` if the panel is not killed while a
  copy is being applied; `QuietTheorem` and `RefusedTheorem` if in addition the quota pass does
  not fail midway. The invariant `SyncInv` follows one job: while nothing is owed,
  the list it read is still the list of eligible accounts (`ListCurrent`), from
  `Install` on strongSwan has it (`IkeCurrent`), after `Apply` the core
  (`CoreCurrent`), and a job that does not get there arms the timer. The two
  assumptions are exactly the two violation runs.

- `AccountProofs`, on `AccountEdits`: `EditsInv` adds to the types what somebody may
  still write back: an extension under way holds at least the date it read with the term
  on top, a form holds what was shown, both as long as nobody wrote the row since (`seen`).
  `SaleTheorem` follows, and `FirstConnectionTheorem`.
  `TermTheorem` needs that a form in duration mode is saved only while the account waits
  (`LateDuration`, disagreement 7); its invariant `TermsSound` is about both rows that
  may come back, the table's and the one in an exported file.
- `AccountProofs`, on `LimitEdits`: `LimitTypeCorrect` and `LimitTheorem`. `LimitInv` says
  that an addition under way holds the limit it read and the bytes added, and a form the
  limit rounded, while nobody wrote the columns since; `RoundedLimit` that rounding
  moves a limit by at most half a hundredth, whatever a hundredth is.
- `AccountProofs`, on `Provisioning`: `ProvisioningInv` says that a waiting request is in
  one link of the chain (`OneWait`), that passwords only advance from the row to the
  job's list to strongSwan (`Advance`), that the job a request waits for has read its
  password (`ReadByJob`), and that whatever is out of date has a job to come or a
  timer, and an account in `provisioning` a creation under way (`Pending`).
  `ReportedTheorem`, `QuietTheorem` and the action property `CutsOffTheorem` follow.
- `EndpointChangeProofs`: `RelayInv` says what the backup is when a rollback may need it
  (`BackedUp`), whose job may run (`JobOfChange`), and that without doubt the relay is the
  policy, or a job or the change is about to provision it (`RelayInStep`). It is
  inductive whatever fails, and gives `EndpointTypeCorrect` and `RelayFollowsAlways`.
  `EndpointAgreesAlways` needs that nothing fails after the save (`LateFaults`,
  disagreement 6): `ChangeFollows` adds, for each step of a change, what the saved
  backup, the identity and the certificate are then.
- `FirefoxSidecarProofs`: `SidecarTypeCorrect`, `SlotsExactAlways`, `PoolTheorem`
  (the refinement: `Accept` takes a slot, handshakes, closes, refused refreshes and
  restarts give some back, everything else stutters), `OnlyCurrentAlways` and
  `ReportedOnDiskAlways`. The count is exact because a connection has released
  exactly when it is over or its socket had closed before its handshake ended; a
  connected tunnel passed a check of the generation in the step that connected it,
  and a new generation ends it; of the queued writes of the current
  generation the last one carries what is in memory.

- `PanelProofs`, the remaining parts: `AuthTypeCorrect` and `OldSessionsEndAlways` follow a
  password from the comparison to the last query (a session or a login that
  carries a password older than `changed` is marked late, or a change is still to
  revoke it). `BackupTypeCorrect`, `RecordStandsAlways`, `WholeArchiveAlways`:
  `DispatchInv` says that the lock admits one dispatch, and that while it sends, the
  chat's last documents are the parts sent so far; `SpacedTheorem` follows from the
  record that stands. `ProfilesTheorem`: an answer under way and the cache name the endpoint
  saved last unless they were overtaken, an invalidation is owed, or an import came
  after the cache was filled (`AnswersCurrent`, `CacheCurrent`), and the process holds
  the certificate on disk unless an import replaced it (`RootCurrent`).
- `PanelProofs`, what the run `Panel` explores: a behaviour of `PanelSpec` is one of each
  part (`PanelParts`), so `PanelTypeCorrect`, `PanelInvariants` and `PanelSteps` carry the
  parts' theorems over to it without an assumption, and `PanelAgreements` (`TermStarts`,
  `EndpointAgrees`) under the two that `Panel.cfg` makes too.

Only model-checked are the liveness properties `Converges`, `CutOff` and `KeptServed`:
liveness under fairness and ENABLED are outside TLAPS's reach. The violation runs show
what the conditions of the theorems above are for. The library's
induction theorems, which take an operator, cannot be used with the provers at hand;
the one induction over data that was needed is the lemma `UpTo`. There are no
RECURSIVE operators.

## 5. Not modelled, and what could follow

Not modelled, and why:

- The router daemon behind WARP and Psiphon (`warp-router.py`, `warp_policy.py`): a
  Python loop that turns a policy file into nftables rules and routes. What the panel
  sees of it, whether `prepareWarpPolicy` failed or changed something, is an outcome in
  `SyncQueue`. The case of a `sync-warp` that takes effect while the rest of the job fails
  (the file then says unchanged) needs the daemon's own state.
- The rest of the IKE metering: activity calendar, daily and hourly rows and rows from
  before migration 015 (they move with the balance). The first connection is in
  `AccountEdits`.
- An account that comes back with an old name or id (removal and creation, an import)
  while its SA or its core runs on: `IkeMetering` and `XrayMetering` would have to be
  composed with `Provisioning` and the import, whose product is beyond TLC here. The
  hazard is listed without a property.
- Two endpoint changes at once, DNS and port checks, the history rows.
- The settings that only become constants of the parts (intervals, device policy,
  relay names), and the merge of sections nobody else writes.
- What no property is about: request validation and routing, rate limits and roles,
  the text of profiles and subscriptions, the parsing of `list-sas`, dashboards, the audit
  page and layout of the web interface, logs, observability and audit (append-only),
  migrations (sequential, before the panel serves), cryptographic calls, the relay's
  edge function (stateless), the retention and listing of archives.
- Installation, upgrade, the shell restores and the Windows client: file and package
  operations run by hand.

What could follow, in this order: the composition of an import and of an account that
comes back with the metering's cursors (its invariants would be proved with the lemmas
of `XrayMeteringProofs`, TLC seeing only small products); the router daemon with
`SyncQueue`; weaker conditions in place of the constants that switch faults off, as
`RelayFollowsAlways` has (for `QuietTheorem` of the queue: a history of the kills that
matter).
