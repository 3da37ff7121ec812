-------------------------- MODULE SessionReconciler --------------------------
(***************************************************************************)
(* The max-devices policy: one poll of the worker (worker.js, tick and     *)
(* enforceQuotas) against strongSwan, and the SessionReconciler class it   *)
(* drives (services/sessionReconciler.js), interleaved at every await with *)
(* strongSwan, the administrator, the clock and panel restarts.            *)
(*                                                                         *)
(* Time is relative: every timestamp the code stores is modelled by the    *)
(* time elapsed since it, capped where the code stops telling values       *)
(* apart.  `lag' is the time elapsed since the current pass of reconcile   *)
(* evaluated now(), so the code's "now - t" is "elapsed(t) - lag".         *)
(*                                                                         *)
(* strongSwan numbers its IKE_SAs upwards and forgets all of them when the *)
(* daemon restarts, so among the live SAs a larger id is a younger SA and  *)
(* the code's order (age, then id) is the order of ids.                    *)
(***************************************************************************)
EXTENDS Integers, FiniteSets

CONSTANTS
    User,            \* VPN accounts
    NoUser,          \* marks an id that is absent from a snapshot
    MaxId,           \* bound: SAs strongSwan sets up between two of its restarts
    MaxLimit,        \* bound: the largest max_devices of an account
    Grace,           \* graceMs, in clock units
    Retry,           \* retryMs, in clock units
    MaxLag,          \* bound: clock units one pass of reconcile may take
    MaxLinger,       \* clock units a terminated SA may stay in list-sas
    KeepNewest,      \* TRUE: policy disconnect_oldest, FALSE: reject_newest
    ReadFaults,      \* list-sas may fail
    TerminateFaults, \* a terminate command may fail
    DbFaults,        \* a database call may fail
    DaemonRestarts,  \* charon may be restarted, and number SAs from 1 again
    KillPoints       \* where tick may be when the panel process is killed

ASSUME ReconcilerAssumption ==
    /\ NoUser \notin User
    /\ MaxId \in Nat \ {0} /\ MaxLimit \in Nat \ {0}
    /\ Grace \in Nat /\ Retry \in Nat \ {0}
    /\ MaxLag \in Nat /\ MaxLinger \in Nat
    /\ {KeepNewest, ReadFaults, TerminateFaults, DbFaults, DaemonRestarts} \subseteq BOOLEAN
    /\ KillPoints \subseteq {"idle", "users", "cut", "reconcile", "enforce"}

Id == 1..MaxId
None == -1                          \* "no timestamp"
\* Elapsed times beyond these compare like the cap itself.
GraceCap == Grace + MaxLag
RetryCap == Retry + MaxLag

VARIABLES
    \* strongSwan
    sa,          \* the account of each established IKE_SA, or NoUser
    closing,     \* per id: time since a terminate it accepted, or None; list-sas
                 \* still calls it ESTABLISHED (parseSas drops it afterwards)
    nextId,
    \* vpn_users and session_reconcile_state
    eligible,    \* accounts that are enabled and not quota_blocked
    limit,       \* max_devices
    row,         \* over_limit_since of the persisted row, or None
    \* the worker's memory
    pc, snap,    \* where tick is; lastSessions
    fresh,       \* list-sas answered in this tick
    snapEligible, snapLimit, cut,   \* what enforceQuotas read and has to cut
    lag, todo, cur, cmds,           \* where reconcile is
    since,       \* users.get(u).overLimitSince, or None without an entry
    done,        \* ids with terminations.get(id).ok = true
    failed,      \* per id: time since terminations.get(id).at when ok = false
    \* history, for the properties only
    over,        \* time since the unbroken run of over-limit observations began
    firstOver,   \* time since the first over-limit observation of all
    acked        \* live ids whose policy termination was acknowledged

swanVars   == <<sa, closing, nextId>>
rowVars    == <<eligible, limit, row>>
tickVars   == <<pc, snap, fresh, snapEligible, snapLimit, cut>>
passVars   == <<lag, todo, cur, cmds>>
memoryVars == <<since, done, failed>>
ghostVars  == <<over, firstOver, acked>>
vars == <<swanVars, rowVars, tickVars, passVars, memoryVars, ghostVars>>

\* The worker's memory, the two tables and strongSwan's SAs are well formed;
\* an SA has one recorded termination outcome (the value of a Map entry).
TypeOK ==
    /\ sa \in [Id -> User \cup {NoUser}]
    /\ closing \in [Id -> None..MaxLinger] /\ nextId \in 1..(MaxId + 1)
    /\ eligible \subseteq User /\ limit \in [User -> 1..MaxLimit]
    /\ row \in [User -> None..GraceCap]
    /\ pc \in {"idle", "users", "cut", "reconcile", "enforce"}
    /\ snap \in [Id -> User \cup {NoUser}] /\ fresh \in BOOLEAN
    /\ snapEligible \subseteq User /\ snapLimit \in [User -> 1..MaxLimit]
    /\ cut \subseteq Id
    /\ lag \in 0..MaxLag /\ todo \subseteq User /\ cur \in User \cup {NoUser}
    /\ cmds \subseteq Id
    /\ since \in [User -> None..GraceCap] /\ done \in [User -> SUBSET Id]
    /\ failed \in [User -> [Id -> None..RetryCap]]
    /\ \A u \in User : \A i \in done[u] : failed[u][i] = None
    /\ over \in [User -> None..GraceCap] /\ firstOver \in [User -> None..GraceCap]
    /\ acked \subseteq Id

NoFailure == [i \in Id |-> None]
live == {i \in Id : sa[i] # NoUser}

Init ==
    /\ sa = [i \in Id |-> NoUser] /\ closing = NoFailure /\ nextId = 1
    /\ eligible = User /\ limit \in [User -> 1..MaxLimit]
    /\ row = [u \in User |-> None]
    /\ pc = "idle" /\ snap = [i \in Id |-> NoUser] /\ fresh = FALSE
    /\ snapEligible = {} /\ snapLimit = limit /\ cut = {}
    /\ lag = 0 /\ todo = {} /\ cur = NoUser /\ cmds = {}
    /\ since = row /\ done = [u \in User |-> {}] /\ failed = [u \in User |-> NoFailure]
    /\ over = row /\ firstOver = row /\ acked = {}

-----------------------------------------------------------------------------
(* The sessions reconcile was given, and what the policy picks from them.  *)

Mine(u) == {i \in Id : snap[i] = u /\ u \in snapEligible}
Within(u) == Cardinality(Mine(u)) <= snapLimit[u]

\* Mutant: the old/new inversion the module's header warns of.
PreferredInverted(i, j) == IF KeepNewest THEN i < j ELSE i > j

Preferred(i, j) == IF KeepNewest THEN i > j ELSE i < j

\* selectExcessSessions: all but the snapLimit[u] sessions the policy keeps
Excess(u) ==
    {i \in Mine(u) : Cardinality({j \in Mine(u) : Preferred(j, i)}) >= snapLimit[u]}

\* !byUser.has(username)
Gone(u) == Mine(u) = {}

\* Mutant: a missing row parses as timestamp 0.
EntrySinceEpoch(u, loaded) ==
    IF since[u] # None THEN since[u] ELSE IF loaded # None THEN loaded ELSE GraceCap

\* overLimitSince of the entry reconcile works with; `loaded' is what
\* loadState returned, and without a row the entry starts now
EntrySince(u, loaded) ==
    IF since[u] # None THEN since[u] ELSE IF loaded # None THEN loaded ELSE lag

\* Mutant: only a recent failure is skipped.
SkippedIfFailed(u, i) == failed[u][i] # None /\ failed[u][i] - lag < Retry

\* Mutant: a failed termination is never retried.
SkippedForever(u, i) == i \in done[u] \/ failed[u][i] # None

\* previous?.ok, or a failure less than retryMs ago
Skipped(u, i) == i \in done[u] \/ (failed[u][i] # None /\ failed[u][i] - lag < Retry)

\* Mutant: a success is recorded on top of the failure it follows.
FailedAtAlways(ok) == lag

\* the `at' of { ok: false, at: now }
FailedAt(ok) == IF ok THEN None ELSE lag

-----------------------------------------------------------------------------
(* strongSwan, the clock and the administrator. *)

Connect(u) ==
    /\ nextId <= MaxId
    /\ sa' = [sa EXCEPT ![nextId] = u]
    /\ nextId' = nextId + 1
    /\ UNCHANGED <<closing, rowVars, tickVars, passVars, memoryVars, ghostVars>>

\* The client leaves, or a termination strongSwan accepted completes.
Disconnect(i) ==
    /\ i \in live
    /\ sa' = [sa EXCEPT ![i] = NoUser] /\ closing' = [closing EXCEPT ![i] = None]
    /\ acked' = acked \ {i}
    /\ UNCHANGED <<nextId, rowVars, tickVars, passVars, memoryVars, over, firstOver>>

DaemonRestart ==
    /\ DaemonRestarts /\ nextId > 1
    /\ sa' = [i \in Id |-> NoUser] /\ closing' = NoFailure /\ nextId' = 1 /\ acked' = {}
    /\ UNCHANGED <<rowVars, tickVars, passVars, memoryVars, over, firstOver>>

\* Quota enforcement, expiry or an administrator blocks or releases u.
FlipEligible(u) ==
    /\ eligible' = IF u \in eligible THEN eligible \ {u} ELSE eligible \cup {u}
    /\ UNCHANGED <<swanVars, limit, row, tickVars, passVars, memoryVars, ghostVars>>

SetLimit(u, n) ==
    /\ n # limit[u]
    /\ limit' = [limit EXCEPT ![u] = n]
    /\ UNCHANGED <<swanVars, eligible, row, tickVars, passVars, memoryVars, ghostVars>>

Later(t, cap) == IF t = None \/ t = cap THEN t ELSE t + 1

\* One clock unit.  An SA strongSwan agreed to terminate is gone MaxLinger
\* units later, and one pass of reconcile takes at most MaxLag.
Elapse ==
    /\ \A i \in Id : closing[i] < MaxLinger
    /\ IF pc \in {"reconcile", "enforce"} THEN lag < MaxLag /\ lag' = lag + 1
                                          ELSE lag' = lag
    /\ closing' = [i \in Id |-> IF closing[i] = None THEN None ELSE closing[i] + 1]
    /\ row' = [u \in User |-> Later(row[u], GraceCap)]
    /\ since' = [u \in User |-> Later(since[u], GraceCap)]
    /\ failed' = [u \in User |-> [i \in Id |-> Later(failed[u][i], RetryCap)]]
    /\ over' = [u \in User |-> Later(over[u], GraceCap)]
    /\ firstOver' = [u \in User |-> Later(firstOver[u], GraceCap)]
    /\ UNCHANGED <<sa, nextId, eligible, limit, tickVars, todo, cur, cmds, done, acked>>

-----------------------------------------------------------------------------
(* terminateIkeSession: success means the SA is gone, or accepted and about *)
(* to go; a failure may still have taken effect.                            *)

Terminate(i, ok) ==
    \/ /\ ok /\ i \in live
       /\ sa' = [sa EXCEPT ![i] = NoUser] /\ closing' = [closing EXCEPT ![i] = None]
    \/ /\ i \in live /\ MaxLinger > 0 /\ (ok \/ TerminateFaults)
       /\ sa' = sa /\ closing' = [closing EXCEPT ![i] = IF @ = None THEN 0 ELSE @]
    \/ /\ IF ok THEN i \notin live ELSE TerminateFaults
       /\ UNCHANGED <<sa, closing>>

\* disconnectUser: terminates in parallel what the last poll listed for u;
\* the errors are dropped.
AdminDisconnect(u) ==
    LET mine == {i \in live : snap[i] = u} IN
    /\ mine # {}
    /\ \E hit \in SUBSET mine : \E slow \in SUBSET hit :
        /\ TerminateFaults \/ hit = mine
        /\ MaxLinger > 0 \/ slow = {}
        /\ sa' = [i \in Id |-> IF i \in hit \ slow THEN NoUser ELSE sa[i]]
        /\ closing' = [i \in Id |-> IF i \in hit \ slow THEN None
                                    ELSE IF i \in slow /\ closing[i] = None THEN 0
                                    ELSE closing[i]]
        /\ acked' = acked \ (hit \ slow)
    /\ UNCHANGED <<nextId, rowVars, tickVars, passVars, memoryVars, over, firstOver>>

-----------------------------------------------------------------------------
(* The worker's tick. *)

\* parseSas(await rawSas()): a failed read is an empty list
ReadSas(ok) ==
    /\ pc = "idle" /\ (ok \/ ReadFaults)
    /\ snap' = IF ok THEN sa ELSE [i \in Id |-> NoUser]
    /\ fresh' = ok /\ pc' = "users"
    /\ UNCHANGED <<swanVars, rowVars, snapEligible, snapLimit, cut, passVars, memoryVars, ghostVars>>

ReadUsers ==
    /\ pc = "users"
    /\ snapEligible' = eligible /\ snapLimit' = limit
    /\ cut' = {i \in Id : snap[i] \in User \ eligible}
    /\ pc' = "cut"
    /\ UNCHANGED <<swanVars, rowVars, snap, fresh, passVars, memoryVars, ghostVars>>

\* A query of enforceQuotas fails: tick logs the error and is over.
AbortTick ==
    /\ pc \in {"users", "cut"} /\ DbFaults
    /\ pc' = "idle" /\ cut' = {} /\ snapEligible' = {} /\ snapLimit' = limit
    /\ UNCHANGED <<swanVars, rowVars, snap, fresh, passVars, memoryVars, ghostVars>>

\* A session of a disabled or blocked account is terminated at once.
CutSession(i, ok) ==
    /\ pc = "cut" /\ i \in cut
    /\ Terminate(i, ok) /\ acked' = acked \cap live'
    /\ cut' = cut \ {i}
    /\ UNCHANGED <<nextId, rowVars, pc, snap, fresh, snapEligible, snapLimit,
                   passVars, memoryVars, over, firstOver>>

\* The observation the pass makes of u, for the history variables.
Observed(u, t) == IF ~fresh THEN t
                  ELSE IF Within(u) THEN None
                  ELSE IF t = None THEN 0 ELSE t

\* reconcile takes now(), forgets vanished ids and drops the entry of every
\* user without sessions, with its row unless deleting it fails.
StartReconcile ==
    /\ pc = "cut" /\ cut = {}
    /\ pc' = "reconcile" /\ lag' = 0
    /\ todo' = {u \in User : Mine(u) # {}}
    /\ since' = [u \in User |-> IF Gone(u) THEN None ELSE since[u]]
    /\ done' = [u \in User |-> done[u] \cap Mine(u)]
    /\ failed' = [u \in User |-> [i \in Id |->
                    IF i \in Mine(u) THEN failed[u][i] ELSE None]]
    /\ \E deleted \in SUBSET {u \in User : Gone(u) /\ since[u] # None} :
        /\ DbFaults \/ deleted = {u \in User : Gone(u) /\ since[u] # None}
        /\ row' = [u \in User |-> IF u \in deleted THEN None ELSE row[u]]
    /\ over' = [u \in User |-> Observed(u, over[u])]
    /\ firstOver' = [u \in User |->
                        IF firstOver[u] = None THEN Observed(u, None) ELSE firstOver[u]]
    /\ UNCHANGED <<swanVars, eligible, limit, snap, fresh, snapEligible, snapLimit, cut,
                   cur, cmds, acked>>

\* mine.length <= max
LeaveAlone(u) ==
    /\ pc = "reconcile" /\ u \in todo /\ Within(u)
    /\ since' = [since EXCEPT ![u] = None]
    /\ done' = [done EXCEPT ![u] = {}] /\ failed' = [failed EXCEPT ![u] = NoFailure]
    /\ \E dbOk \in BOOLEAN :
        /\ dbOk \/ DbFaults
        /\ row' = IF dbOk THEN [row EXCEPT ![u] = None] ELSE row
    /\ todo' = todo \ {u}
    /\ UNCHANGED <<swanVars, eligible, limit, tickVars, lag, cur, cmds, ghostVars>>

\* The entry reconcile finds or creates, and loadState when it creates one.
Entry(u, t) ==
    \/ t = EntrySince(u, row[u])
    \/ DbFaults /\ t = EntrySince(u, None)

\* age < graceMs: the pass goes on to the next user
InGrace(u) ==
    /\ pc = "reconcile" /\ u \in todo /\ ~Within(u)
    /\ \E t \in 0..GraceCap :
        /\ Entry(u, t) /\ t - lag < Grace
        /\ since' = [since EXCEPT ![u] = t]
    /\ todo' = todo \ {u}
    /\ UNCHANGED <<swanVars, rowVars, tickVars, lag, cur, cmds, done, failed, ghostVars>>

Enforce(u) ==
    /\ pc = "reconcile" /\ u \in todo /\ ~Within(u)
    /\ \E t \in 0..GraceCap :
        /\ Entry(u, t) /\ t - lag >= Grace
        /\ since' = [since EXCEPT ![u] = t]
    /\ todo' = todo \ {u}
    /\ pc' = "enforce" /\ cur' = u
    /\ cmds' = {i \in Excess(u) : ~Skipped(u, i)}
    /\ UNCHANGED <<swanVars, rowVars, snap, fresh, snapEligible, snapLimit, cut, lag,
                   done, failed, ghostVars>>

\* The awaited terminate of the next of the extras, and its result.
Command(i, ok) ==
    /\ pc = "enforce" /\ i \in cmds /\ \A j \in cmds : i = j \/ Preferred(j, i)
    /\ Terminate(i, ok)
    /\ done' = [done EXCEPT ![cur] = IF ok THEN @ \cup {i} ELSE @ \ {i}]
    /\ failed' = [failed EXCEPT ![cur][i] = FailedAt(ok)]
    /\ cmds' = cmds \ {i}
    /\ acked' = (IF ok THEN acked \cup {i} ELSE acked) \cap live'
    /\ UNCHANGED <<nextId, rowVars, tickVars, lag, todo, cur, since, over, firstOver>>

\* saveState, after the last of the extras
FinishUser ==
    /\ pc = "enforce" /\ cmds = {}
    /\ \E dbOk \in BOOLEAN :
        /\ dbOk \/ DbFaults
        /\ row' = IF dbOk THEN [row EXCEPT ![cur] = since[cur]] ELSE row
    /\ pc' = "reconcile" /\ cur' = NoUser
    /\ UNCHANGED <<swanVars, eligible, limit, snap, fresh, snapEligible, snapLimit, cut,
                   lag, todo, cmds, memoryVars, ghostVars>>

\* tick is over; its locals die, lastSessions stays
EndPass ==
    /\ pc = "reconcile" /\ todo = {}
    /\ pc' = "idle" /\ lag' = 0 /\ snapEligible' = {} /\ snapLimit' = limit
    /\ UNCHANGED <<swanVars, rowVars, snap, fresh, cut, todo, cur, cmds, memoryVars, ghostVars>>

\* The process is killed between two ticks or inside one, and started again.
PanelRestart ==
    /\ pc \in KillPoints
    /\ pc' = "idle" /\ snap' = [i \in Id |-> NoUser] /\ fresh' = FALSE
    /\ snapEligible' = {} /\ snapLimit' = limit /\ cut' = {}
    /\ lag' = 0 /\ todo' = {} /\ cur' = NoUser /\ cmds' = {}
    /\ since' = [u \in User |-> None] /\ done' = [u \in User |-> {}]
    /\ failed' = [u \in User |-> NoFailure]
    /\ UNCHANGED <<swanVars, rowVars, ghostVars>>

Worker ==
    \/ \E ok \in BOOLEAN : ReadSas(ok)
    \/ ReadUsers
    \/ AbortTick
    \/ \E i \in Id, ok \in BOOLEAN : CutSession(i, ok)
    \/ StartReconcile
    \/ \E u \in User : LeaveAlone(u)
    \/ \E u \in User : InGrace(u)
    \/ \E u \in User : Enforce(u)
    \/ \E i \in Id, ok \in BOOLEAN : Command(i, ok)
    \/ FinishUser
    \/ EndPass

Environment ==
    \/ \E u \in User : Connect(u)
    \/ \E i \in Id : Disconnect(i)
    \/ DaemonRestart
    \/ \E u \in User : FlipEligible(u)
    \/ \E u \in User, n \in 1..MaxLimit : SetLimit(u, n)
    \/ \E u \in User : AdminDisconnect(u)
    \/ PanelRestart

Next == Worker \/ Environment \/ Elapse

Spec == Init /\ [][Next]_vars

\* setInterval runs tick forever, and every await in it ends; a list-sas or a
\* terminate that is issued again and again succeeds in the end; time passes
\* and an SA strongSwan agreed to terminate goes away.  Nothing is assumed of
\* clients, administrators, crashes or database failures.
Fairness ==
    /\ SF_vars(Elapse)
    /\ SF_vars(ReadSas(TRUE)) /\ WF_vars(ReadUsers)
    /\ \A i \in Id : WF_vars(\E ok \in BOOLEAN : CutSession(i, ok))
    /\ WF_vars(StartReconcile)
    /\ \A u \in User : WF_vars(LeaveAlone(u) \/ InGrace(u) \/ Enforce(u))
    /\ \A i \in Id : /\ WF_vars(\E ok \in BOOLEAN : Command(i, ok))
                      /\ SF_vars(Command(i, TRUE))
                      /\ WF_vars(closing[i] # None /\ Disconnect(i))
    /\ WF_vars(FinishUser) /\ WF_vars(EndPass)

FairSpec == Spec /\ Fairness

-----------------------------------------------------------------------------
(* Properties *)

\* No session is terminated for the device limit unless every complete poll
\* of at least the last graceMs saw its account over the limit (the guard
\* `age < this.graceMs' and everything that feeds it).
GraceHonoured == cmds # {} => over[cur] - lag >= Grace

\* Whatever crashes, fails or restarts: an account whose sessions are
\* terminated for the limit is over it in the poll at hand and was already
\* seen over it graceMs ago; a missing or unreadable row never counts as an
\* old one (the `|| now' and `Number.isFinite' fallbacks of reconcile).
OldOffender == cmds # {} => ~Within(cur) /\ firstOver[cur] - lag >= Grace

\* "a slow strongSwan response cannot result in repeated terminate commands"
\* (sessionReconciler.js:57-59): no command is due for an SA whose policy
\* termination strongSwan acknowledged.
NoRepeatedCommand == cmds \cap acked = {}

\* When a pass picks sessions of an account to terminate, at least max_devices
\* of the sessions in the poll are left that the policy has not terminated,
\* also when SAs an earlier pass terminated are still listed
\* (selectExcessSessions counts those, and previous?.ok skips them).
KeepsAllowance ==
    [][\A u \in User : Enforce(u) =>
        LET picked == {i \in cmds' \ acked : sa[i] = u}
        IN picked # {} =>
            Cardinality(Mine(u) \ acked) - Cardinality(picked) >= snapLimit[u]]_vars

OverLimit(u) == Cardinality({i \in Id : sa[i] = u}) > limit[u]

\* An account that is over its limit is brought back to it, however clients
\* come and go before and administrators interfere, on two conditions that hold
\* from some point on: list-sas answers every poll (one failed poll restarts the
\* grace period), and nobody connects to an account that is over its limit.  A
\* client that is back before its terminated SA is gone undoes every pass:
\* selectExcessSessions cuts what a poll lists and refuses nothing.
Converges ==
    /\ <>[](pc = "users" => fresh)
    /\ <>[][\A u \in User : Connect(u) => ~OverLimit(u)]_vars
    => \A u \in User :
        OverLimit(u) /\ u \in eligible ~> ~OverLimit(u) \/ u \notin eligible

=============================================================================
