---------------------------- MODULE XrayMetering ----------------------------
(***************************************************************************)
(* Metering of the Xray core: collectXrayUsage and readXrayUsage           *)
(* (services/xray.js), recordXrayCounters (services/sharedUsage.js), and   *)
(* the four callers that act on the outcome: the worker's poll, the drain  *)
(* before a managed restart, a usage reset and an account removal.         *)
(*                                                                         *)
(* The core counts bytes per account and transport from 0 in every         *)
(* incarnation; xray-epoch names the incarnation (boot id, pid and start   *)
(* time, never reused).  Upload and download follow the same rule, so a    *)
(* key has one counter, the sum.  Statistics entries without bytes charge  *)
(* nothing and are left out.                                               *)
(***************************************************************************)
EXTENDS Integers, FiniteSets

CONSTANTS
    User,           \* accounts
    Transport,      \* direct, netlify and iran: one cursor table each
    NoCaller,
    MaxEpoch,       \* bound: incarnations of the core
    MaxBytes,       \* bound: bytes a key carries per incarnation
    MaxCalls,       \* bound: callers that are not idle at the same time
    HelperFaults,   \* a helper, the statistics query or a transaction may fail
    PanelRestarts   \* the panel process may be killed and started again

Caller == {"worker", "sync", "reset", "remove"}

ASSUME MeteringAssumption ==
    /\ MaxEpoch \in Nat \ {0} /\ MaxBytes \in Nat \ {0}
    /\ MaxCalls \in Nat
    /\ NoCaller \notin Caller
    /\ HelperFaults \in BOOLEAN /\ PanelRestarts \in BOOLEAN

Key == User \X Transport
Epoch == 1..MaxEpoch
Stopped == 0            \* what xray-epoch prints without a process; no cursor
NoBytes == [k \in Key |-> 0]
KeysOf(u) == {k \in Key : k[1] = u}

VARIABLES
    \* the core
    up, epoch,   \* whether it runs; its latest incarnation
    traffic,     \* the counters of every incarnation (of the latest: statsquery)
    \* PostgreSQL
    account,     \* rows of vpn_users
    cursor,      \* the snapshot tables: epoch (0: no row) and bytes
    balance,     \* the transport's share of usage_total
    \* the panel process
    running,     \* the caller whose job usageTail is executing
    pc,          \* where each caller is
    seen,        \* `before', the epoch a job read first
    reading,     \* the counters a job read
    left,        \* entries it has still to record
    target,      \* the account an administrator's request is about
    \* history, for the properties only
    bill,        \* bytes charged, per incarnation
    asked,       \* traffic when the caller asked for the collection
    forgiven     \* traffic when the last committed reset was asked for

coreVars   == <<up, epoch, traffic>>
dbVars     == <<account, cursor, balance>>
jobVars    == <<seen, reading, left>>
panelVars  == <<running, pc, jobVars, target>>
ghostVars  == <<bill, asked, forgiven>>
vars == <<coreVars, dbVars, panelVars, ghostVars>>

Counters == [Epoch -> [Key -> 0..MaxBytes]]
States == {"idle", "waiting", "stats", "after", "record", "done", "failed"}

\* Counters, cursors, balances and the callers' jobs are well formed.
TypeOK ==
    /\ up \in BOOLEAN /\ epoch \in 0..MaxEpoch /\ (up => epoch # Stopped)
    /\ traffic \in Counters
    /\ account \subseteq User
    /\ cursor \in [Key -> [epoch : 0..MaxEpoch, bytes : 0..MaxBytes]]
    /\ balance \in [Key -> Nat]
    /\ running \in Caller \cup {NoCaller} /\ pc \in [Caller -> States]
    /\ seen \in [Caller -> 0..MaxEpoch]
    /\ reading \in [Caller -> [Key -> 0..MaxBytes]]
    /\ left \in [Caller -> SUBSET Key]
    /\ target \in [{"reset", "remove"} -> User]
    /\ bill \in Counters
    /\ asked \in [Caller -> Counters] /\ forgiven \in Counters

Nothing == [e \in Epoch |-> NoBytes]

Init ==
    /\ up = FALSE /\ epoch = Stopped /\ traffic = Nothing
    /\ account = User
    /\ cursor = [k \in Key |-> [epoch |-> Stopped, bytes |-> 0]]
    /\ balance = NoBytes
    /\ running = NoCaller /\ pc = [c \in Caller |-> "idle"]
    /\ seen = [c \in Caller |-> Stopped]
    /\ reading = [c \in Caller |-> NoBytes]
    /\ left = [c \in Caller |-> {}]
    /\ target \in [{"reset", "remove"} -> User]
    /\ bill = Nothing /\ asked = [c \in Caller |-> Nothing] /\ forgiven = Nothing

-----------------------------------------------------------------------------
(* The core and its service manager. *)

Serve(k) ==
    /\ up /\ traffic[epoch][k] < MaxBytes
    /\ traffic' = [traffic EXCEPT ![epoch][k] = @ + 1]
    /\ UNCHANGED <<up, epoch, dbVars, panelVars, ghostVars>>

CoreStops ==
    /\ up /\ up' = FALSE
    /\ UNCHANGED <<epoch, traffic, dbVars, panelVars, ghostVars>>

CoreStarts ==
    /\ ~up /\ epoch < MaxEpoch
    /\ up' = TRUE /\ epoch' = epoch + 1
    /\ UNCHANGED <<traffic, dbVars, panelVars, ghostVars>>

-----------------------------------------------------------------------------
(* collectXrayUsage: one job at a time, the callers wait on usageTail. *)

\* Mutant: jobs are not chained on usageTail.
FreeAlways == TRUE

Free == running = NoCaller

\* `c' calls collectXrayUsage; an administrator names an account that exists.
Call(c) ==
    /\ pc[c] = "idle" /\ Cardinality({d \in Caller : pc[d] # "idle"}) < MaxCalls
    /\ IF c \in {"reset", "remove"}
         THEN \E u \in account : target' = [target EXCEPT ![c] = u]
         ELSE UNCHANGED target
    /\ pc' = [pc EXCEPT ![c] = "waiting"]
    /\ asked' = IF c \in {"sync", "reset"} THEN [asked EXCEPT ![c] = traffic] ELSE asked
    /\ UNCHANGED <<coreVars, dbVars, running, jobVars, bill, forgiven>>

\* The job ends; its locals die and the next one may start.
Ends(c, outcome) ==
    /\ pc' = [pc EXCEPT ![c] = outcome]
    /\ running' = NoCaller
    /\ seen' = [seen EXCEPT ![c] = Stopped]
    /\ reading' = [reading EXCEPT ![c] = NoBytes]
    /\ left' = [left EXCEPT ![c] = {}]

\* before = xray-epoch; a stopped core has nothing to collect
ReadEpoch(c) ==
    /\ Free /\ pc[c] = "waiting"
    /\ IF up
         THEN /\ running' = c /\ pc' = [pc EXCEPT ![c] = "stats"]
              /\ seen' = [seen EXCEPT ![c] = epoch]
              /\ UNCHANGED <<reading, left>>
         ELSE Ends(c, "done")
    /\ UNCHANGED <<coreVars, dbVars, target, ghostVars>>

\* Without a process nobody answers on the API port.
QueryStats(c) ==
    /\ running = c /\ pc[c] = "stats"
    /\ IF up
         THEN /\ reading' = [reading EXCEPT ![c] = traffic[epoch]]
              /\ pc' = [pc EXCEPT ![c] = "after"]
              /\ UNCHANGED <<running, seen, left>>
         ELSE Ends(c, "failed")
    /\ UNCHANGED <<coreVars, dbVars, target, ghostVars>>

\* Mutant: the epoch is not read again after the statistics.
SameCoreAlways(c) == TRUE

\* after === before
SameCore(c) == up /\ epoch = seen[c]

CheckEpoch(c) ==
    /\ running = c /\ pc[c] = "after"
    /\ IF SameCore(c)
         THEN /\ pc' = [pc EXCEPT ![c] = "record"]
              /\ left' = [left EXCEPT ![c] = {k \in Key : reading[c][k] > 0}]
              /\ UNCHANGED <<running, seen, reading>>
         ELSE Ends(c, "failed")
    /\ UNCHANGED <<coreVars, dbVars, target, ghostVars>>

\* Mutant: the previous reading is not subtracted.
LastNone(c, k) == 0

\* `last' of counterDelta: the cursor counts only within its incarnation
Last(c, k) == IF cursor[k].epoch = seen[c] THEN cursor[k].bytes ELSE 0

\* recordXrayCounters, one transaction: the row is locked and charged with the
\* bytes since the cursor; a counter below it is XRAY_COUNTER_REGRESSED.
Record(c, k) ==
    /\ running = c /\ pc[c] = "record" /\ k \in left[c] /\ k[1] \in account
    /\ LET delta == reading[c][k] - Last(c, k) IN
        IF delta >= 0
          THEN /\ balance' = [balance EXCEPT ![k] = @ + delta]
               /\ bill' = [bill EXCEPT ![seen[c]][k] = @ + delta]
               /\ cursor' = [cursor EXCEPT
                               ![k] = [epoch |-> seen[c], bytes |-> reading[c][k]]]
               /\ left' = [left EXCEPT ![c] = @ \ {k}]
               /\ UNCHANGED <<running, pc, seen, reading>>
          ELSE Ends(c, "failed") /\ UNCHANGED <<balance, bill, cursor>>
    /\ UNCHANGED <<coreVars, account, target, asked, forgiven>>

\* The account is gone: the transaction does nothing.
RecordNobody(c, k) ==
    /\ running = c /\ pc[c] = "record" /\ k \in left[c]
    /\ k[1] \notin account
    /\ left' = [left EXCEPT ![c] = @ \ {k}]
    /\ UNCHANGED <<coreVars, dbVars, running, pc, seen, reading, target, ghostVars>>

CollectDone(c) ==
    /\ running = c /\ pc[c] = "record" /\ left[c] = {}
    /\ Ends(c, "done")
    /\ UNCHANGED <<coreVars, dbVars, target, ghostVars>>

\* A helper call, the query, its parsing or a transaction fails.
CollectFails(c) ==
    /\ HelperFaults
    /\ \/ running = c
       \/ Free /\ pc[c] = "waiting"
    /\ Ends(c, "failed")
    /\ UNCHANGED <<coreVars, dbVars, target, ghostVars>>

-----------------------------------------------------------------------------
(* What the callers do with the outcome; none of it waits on usageTail. *)

Back(c) ==
    /\ pc' = [pc EXCEPT ![c] = "idle"]
    /\ asked' = [asked EXCEPT ![c] = Nothing]

\* stop-xray, whose own failure is only logged
Stop == up' \in (IF HelperFaults THEN {FALSE, up} ELSE {FALSE}) /\ UNCHANGED <<epoch, traffic>>

\* tick: a failed collection stops the core (and queues a sync)
WorkerContinues ==
    /\ \/ pc["worker"] = "done" /\ UNCHANGED coreVars
       \/ pc["worker"] = "failed" /\ Stop
    /\ Back("worker")
    /\ UNCHANGED <<dbVars, running, jobVars, target, bill, forgiven>>

\* Mutant: the managed restart goes on whether or not the drain succeeded.
DrainedAlways == pc["sync"] \in {"done", "failed"}

Drained == pc["sync"] = "done"

\* syncXray after the drain: sync-xray restarts the core
SyncRestarts ==
    /\ Drained /\ epoch < MaxEpoch
    /\ up' = TRUE /\ epoch' = epoch + 1 /\ UNCHANGED traffic
    /\ Back("sync")
    /\ UNCHANGED <<dbVars, running, jobVars, target, bill, forgiven>>

\* The drain failed, or sync-xray did: the core is stopped.
SyncStops ==
    /\ pc["sync"] = "failed" \/ (HelperFaults /\ pc["sync"] = "done")
    /\ Stop /\ Back("sync")
    /\ UNCHANGED <<dbVars, running, jobVars, target, bill, forgiven>>

\* Mutant: the cursors are cleared together with the balance.
CursorsCleared(u) ==
    cursor' = [k \in Key |-> IF k[1] = u THEN [epoch |-> Stopped, bytes |-> 0] ELSE cursor[k]]

\* resetUsage retains the cursors
CursorsKept(u) == cursor' = cursor

\* updateUser with resetUsage: the transaction of resetUsage
ResetUsage ==
    /\ pc["reset"] = "done"
    /\ LET u == target["reset"] IN
        /\ u \in account
        /\ balance' = [k \in Key |-> IF k[1] = u THEN 0 ELSE balance[k]]
        /\ CursorsKept(u)
        /\ forgiven' = [e \in Epoch |-> [k \in Key |->
                          IF k[1] = u THEN asked["reset"][e][k] ELSE forgiven[e][k]]]
    /\ Back("reset")
    /\ UNCHANGED <<coreVars, account, running, jobVars, target, bill>>

\* deleteUser: the row goes, and its cursors with it (ON DELETE CASCADE)
RemoveUser ==
    /\ pc["remove"] = "done"
    /\ LET u == target["remove"] IN
        /\ account' = account \ {u}
        /\ balance' = [k \in Key |-> IF k[1] = u THEN 0 ELSE balance[k]]
        /\ cursor' = [k \in Key |->
                        IF k[1] = u THEN [epoch |-> Stopped, bytes |-> 0] ELSE cursor[k]]
    /\ Back("remove")
    /\ UNCHANGED <<coreVars, running, jobVars, target, bill, forgiven>>

\* The collection failed, the account is gone or the database refuses: the
\* request is answered with an error and nothing changes.
RequestFails(c) ==
    /\ c \in {"reset", "remove"}
    /\ \/ pc[c] = "failed"
       \/ pc[c] = "done" /\ (HelperFaults \/ target[c] \notin account)
    /\ Back(c)
    /\ UNCHANGED <<coreVars, dbVars, running, jobVars, target, bill, forgiven>>

\* An open transaction is rolled back with its connection.
PanelRestart ==
    /\ PanelRestarts
    /\ running' = NoCaller /\ pc' = [c \in Caller |-> "idle"]
    /\ seen' = [c \in Caller |-> Stopped] /\ reading' = [c \in Caller |-> NoBytes]
    /\ left' = [c \in Caller |-> {}] /\ asked' = [c \in Caller |-> Nothing]
    /\ UNCHANGED <<coreVars, dbVars, target, bill, forgiven>>

Collect(c) ==
    \/ Call(c)
    \/ ReadEpoch(c)
    \/ QueryStats(c)
    \/ CheckEpoch(c)
    \/ \E k \in Key : Record(c, k)
    \/ \E k \in Key : RecordNobody(c, k)
    \/ CollectDone(c)
    \/ CollectFails(c)

Next ==
    \/ \E k \in Key : Serve(k)
    \/ CoreStops
    \/ CoreStarts
    \/ \E c \in Caller : Collect(c)
    \/ WorkerContinues
    \/ SyncRestarts
    \/ SyncStops
    \/ ResetUsage
    \/ RemoveUser
    \/ \E c \in Caller : RequestFails(c)
    \/ PanelRestart

Spec == Init /\ [][Next]_vars

-----------------------------------------------------------------------------
(* Properties *)

\* XRAY_COUNTER_REGRESSED is never thrown (it would stop the core for everyone):
\* however the four callers, crashes and restarts interleave, no job records
\* counters older than the cursor ("concurrent sync/worker cannot double
\* charge", sharedUsage.js:9).
NeverRegressed ==
    \A c \in Caller : \A k \in left[c] : k[1] \in account => reading[c][k] >= Last(c, k)

\* What the incarnations add up to.
Total(bytes) ==
    LET sum[e \in 0..MaxEpoch] == IF e = 0 THEN 0 ELSE sum[e - 1] + bytes[e]
    IN  sum[MaxEpoch]

\* After a usage reset the account is charged only for bytes carried since the
\* reset was asked for: nothing counted before can reappear in the new balance
\* (usageReset.js:1-2, and the collection updateUser awaits first).
ResetForgives ==
    \A k \in Key : balance[k] <= Total([e \in Epoch |-> traffic[e][k] - forgiven[e][k]])

\* "Drain counters before managed restarts" (xray.js:96-97): when a sync restarts
\* a core that ran throughout, every byte carried before the sync asked for the
\* drain has been charged to its account.
DrainedBeforeRestart ==
    [][SyncRestarts /\ up =>
        \A k \in Key : k[1] \in account => bill[epoch][k] >= asked["sync"][epoch][k]]_vars

\* The metering implements the ledger: each byte of each incarnation is charged
\* at most once and after it was carried, whatever restarts, fails or is retried.
Ledger == INSTANCE UsageLedger
            WITH Key <- Key, Epoch <- Epoch, traffic <- traffic, bill <- bill, balance <- balance
ImplementsLedger == Ledger!Spec

=============================================================================
