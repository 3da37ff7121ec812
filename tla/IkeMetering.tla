----------------------------- MODULE IkeMetering -----------------------------
(***************************************************************************)
(* Metering of IKEv2 traffic: the polling half of the worker (worker.js,   *)
(* tick, recordSession and the pruning at the end of enforceQuotas),       *)
(* parseSas (services/saParser.js), recordIkeSession (services/ikeUsage.js)*)
(* and ikeCounterDelta (services/ikeCounters.js), against strongSwan.      *)
(*                                                                         *)
(* An SA is one IKE_SA, named by its pair of SPIs (the parser's            *)
(* "identity"); its id is the number list-sas gives it, which a restarted  *)
(* daemon hands out again.  A child is one CHILD_SA, named by its SPIs,    *)
(* with one counter: incoming and outgoing follow the same rule.  Bytes    *)
(* appear in list-sas only in children, so an SA's aggregate counter is    *)
(* the sum of its listed children, and 0 when there are none.              *)
(*                                                                         *)
(* Time is counted in polls (pollMs).  Rows written before the migration   *)
(* that added identities and child counters are left out.                  *)
(***************************************************************************)
EXTENDS Integers, FiniteSets

CONSTANTS
    Child,        \* CHILD_SAs of an SA
    MaxSa,        \* bound: SAs strongSwan ever sets up
    MaxId,        \* bound: SAs it sets up between two restarts
    MaxBytes,     \* bound: bytes a child carries
    Stale,        \* the age in polls at which a row of sa_snapshots is deleted
    EmptyLists    \* list-sas may omit every CHILD_SA of an SA at once

\* pollMs is 15 seconds unless configured otherwise; rows live 10 minutes, which
\* is assumed to be more than two polls.
ASSUME IkeAssumption ==
    /\ MaxSa \in Nat \ {0} /\ MaxId \in Nat \ {0} /\ MaxBytes \in Nat \ {0}
    /\ Stale \in Nat /\ Stale > 2
    /\ EmptyLists \in BOOLEAN

Sa == 1..MaxSa
Id == 1..MaxId
NoSa == 0
None == -1                       \* a child without a cursor, or not listed
Old == 3                         \* older than two polls; the code tells no more
Unlisted == [c \in Child |-> None]
NoRow == [sa |-> NoSa, at |-> Unlisted, idle |-> 0]
NoReading == [i \in Id |-> [sa |-> NoSa, old |-> FALSE, bytes |-> Unlisted]]

VARIABLES
    \* strongSwan
    live,       \* the SA that bears each id, or NoSa
    age,        \* its "established", capped at Old
    started,    \* SAs set up so far
    nextId,
    carried,    \* bytes of every child
    retired,    \* children strongSwan has replaced and never lists again
    \* PostgreSQL
    account,    \* SAs whose account still exists in vpn_users
    row,        \* sa_snapshots: identity, child counters (none: null), idle time
    \* the worker
    pc, reading,    \* where tick is; what parseSas returned
    left,           \* listed ids it has still to record
    \* history, for the properties only
    charged,    \* bytes of each child added to usage_total
    waived      \* bytes a baseline let pass

swanVars == <<live, age, started, nextId, carried, retired>>
tickVars == <<pc, reading, left>>
vars == <<swanVars, account, row, tickVars, charged, waived>>

Bytes == None..MaxBytes
Counters == [Sa -> [Child -> 0..MaxBytes]]

\* Daemon, rows and the worker's reading are well formed.
TypeOK ==
    /\ live \in [Id -> 0..MaxSa] /\ age \in [Id -> 0..Old]
    /\ started \in 0..MaxSa /\ nextId \in 1..(MaxId + 1)
    /\ carried \in Counters /\ retired \in [Sa -> SUBSET Child]
    /\ account \subseteq Sa
    /\ row \in [Id -> [sa : 0..MaxSa, at : [Child -> Bytes], idle : 0..Stale]]
    /\ pc \in {"idle", "record", "enforce"}
    /\ reading \in [Id -> [sa : 0..MaxSa, old : BOOLEAN, bytes : [Child -> Bytes]]]
    /\ left \subseteq Id
    /\ charged \in Counters /\ waived \in [Sa -> [Child -> Nat]]

Nothing == [x \in Sa |-> [c \in Child |-> 0]]

Init ==
    /\ live = [i \in Id |-> NoSa] /\ age = [i \in Id |-> 0]
    /\ started = 0 /\ nextId = 1
    /\ carried = Nothing /\ retired = [x \in Sa |-> {}]
    /\ account = Sa
    /\ row = [i \in Id |-> NoRow]
    /\ pc = "idle" /\ reading = NoReading /\ left = {}
    /\ charged = Nothing /\ waived = Nothing

-----------------------------------------------------------------------------
(* strongSwan, the clock and the administrator. *)

Connect ==
    /\ started < MaxSa /\ nextId <= MaxId
    /\ started' = started + 1 /\ nextId' = nextId + 1
    /\ live' = [live EXCEPT ![nextId] = started + 1]
    /\ age' = [age EXCEPT ![nextId] = 0]
    /\ UNCHANGED <<carried, retired, account, row, tickVars, charged, waived>>

Disconnect(i) ==
    /\ live[i] # NoSa /\ live' = [live EXCEPT ![i] = NoSa]
    /\ age' = [age EXCEPT ![i] = 0]
    /\ UNCHANGED <<started, nextId, carried, retired, account, row, tickVars,
                   charged, waived>>

\* charon restarts: every SA is gone and the numbering starts again.
DaemonRestart ==
    /\ nextId > 1 /\ nextId' = 1
    /\ live' = [i \in Id |-> NoSa] /\ age' = [i \in Id |-> 0]
    /\ UNCHANGED <<started, carried, retired, account, row, tickVars,
                   charged, waived>>

Carry(i, c) ==
    /\ live[i] # NoSa /\ c \notin retired[live[i]]
    /\ carried[live[i]][c] < MaxBytes
    /\ carried' = [carried EXCEPT ![live[i]][c] = @ + 1]
    /\ UNCHANGED <<live, age, started, nextId, retired, account, row, tickVars,
                   charged, waived>>

\* A CHILD_SA that was rekeyed or deleted leaves list-sas for good.  (One that
\* carried nothing cannot be told from one that is not installed yet.)
Retire(i, c) ==
    /\ live[i] # NoSa /\ c \notin retired[live[i]] /\ carried[live[i]][c] > 0
    /\ retired' = [retired EXCEPT ![live[i]] = @ \cup {c}]
    /\ UNCHANGED <<live, age, started, nextId, carried, account, row, tickVars,
                   charged, waived>>

Later(t, cap) == IF t < cap THEN t + 1 ELSE cap

\* Bound: a tick does not take the ten minutes that make a row it recorded stale.
Elapse ==
    /\ pc # "idle" => \A i \in Id : row[i].idle + 1 < Stale \/ i \in left
                                      \/ row[i].sa # reading[i].sa \/ reading[i].sa = NoSa
    /\ age' = [i \in Id |-> IF live[i] = NoSa THEN 0 ELSE Later(age[i], Old)]
    /\ row' = [i \in Id |-> IF row[i].sa = NoSa THEN row[i]
                            ELSE [row[i] EXCEPT !.idle = Later(row[i].idle, Stale)]]
    /\ UNCHANGED <<live, started, nextId, carried, retired, account, tickVars,
                   charged, waived>>

\* deleteUser: the rows of its SAs go with the account (ON DELETE CASCADE);
\* disconnectUser may have failed, so an SA can outlive it.
RemoveUser(x) ==
    /\ x \in account /\ x <= started /\ account' = account \ {x}
    /\ row' = [i \in Id |-> IF row[i].sa = x THEN NoRow ELSE row[i]]
    /\ UNCHANGED <<swanVars, tickVars, charged, waived>>

-----------------------------------------------------------------------------
(* The worker. *)

\* What parseSas may see of `x': a child that was replaced is missing, and so
\* may be any other for the time of one reading.
Visible(x, L) ==
    /\ L \cap retired[x] = {}
    /\ EmptyLists \/ L # {} \/ \A c \in Child \ retired[x] : carried[x][c] = 0

Listing(x, old, L) ==
    [sa |-> x, old |-> old, bytes |-> [c \in Child |-> IF c \in L THEN carried[x][c] ELSE None]]

\* tick: list-sas and parseSas.
List ==
    /\ pc = "idle"
    /\ \E L \in [Id -> SUBSET Child] :
        /\ \A i \in Id : IF live[i] = NoSa THEN L[i] = {} ELSE Visible(live[i], L[i])
        /\ reading' = [i \in Id |-> IF live[i] = NoSa THEN NoReading[i]
                                    ELSE Listing(live[i], age[i] = Old, L[i])]
    /\ left' = {i \in Id : live[i] # NoSa}
    /\ pc' = IF left' = {} THEN "enforce" ELSE "record"
    /\ UNCHANGED <<swanVars, account, row, charged, waived>>

\* Mutant: the cursor of whatever SA bore this id last.
SameIgnoringIdentity(i) == row[i].sa # NoSa

\* The row at this id is about the SA that bears it now.
Same(i) == row[i].sa = reading[i].sa

Last(i, c) == IF Same(i) THEN row[i].at[c] ELSE None

\* Mutant: every old SA is taken as a baseline, whatever the row says.
BaselineByAge(i) == reading[i].old

\* An SA met for the first time when it is older than two polls.
Baseline(i) == row[i].sa = NoSa /\ reading[i].old

Delta(value, last) == IF value >= last THEN value - last ELSE value

Listed(i) == {c \in Child : reading[i].bytes[c] # None}

\* Mutant: a baseline that charges.
DueWithoutBaseline(i, c) ==
    IF c \notin Listed(i) THEN 0
    ELSE Delta(reading[i].bytes[c], IF Last(i, c) = None THEN 0 ELSE Last(i, c))

\* What ikeCounterDelta finds unpaid on child `c'.  Without child counters in
\* the row the aggregate is charged, whose cursor is then 0.
Due(i, c) ==
    IF Baseline(i) \/ c \notin Listed(i) THEN 0
    ELSE Delta(reading[i].bytes[c], IF Last(i, c) = None THEN 0 ELSE Last(i, c))

\* Mutant: the counters of children that are not listed are dropped.
CursorsOfListed(i) == reading[i].bytes

\* Cursors of unlisted children are retained, unless no child is listed: then
\* the column becomes null.
Cursors(i) ==
    IF Listed(i) = {} THEN Unlisted
    ELSE [c \in Child |-> IF c \in Listed(i) THEN reading[i].bytes[c] ELSE Last(i, c)]

\* Mutant: last_seen_at is only set when the row is inserted.
WrittenIdle(i) ==
    [sa |-> reading[i].sa, at |-> Cursors(i), idle |-> IF Same(i) THEN row[i].idle ELSE 0]

\* The row recordIkeSession upserts.
Written(i) == [sa |-> reading[i].sa, at |-> Cursors(i), idle |-> 0]

Settle(i) ==
    LET x == reading[i].sa IN
    /\ charged' = [charged EXCEPT ![x] = [c \in Child |-> @[c] + Due(i, c)]]
    /\ waived' = IF Baseline(i)
                 THEN [waived EXCEPT ![x] = [c \in Child |->
                          IF c \in Listed(i) THEN reading[i].bytes[c] - charged[x][c] ELSE @[c]]]
                 ELSE waived

\* recordSession of one listed SA, one transaction; without the account it
\* does nothing.
Record(i) ==
    /\ pc = "record" /\ i \in left
    /\ left' = left \ {i}
    /\ pc' = IF left' = {} THEN "enforce" ELSE "record"
    /\ IF reading[i].sa \in account
         THEN row' = [row EXCEPT ![i] = Written(i)] /\ Settle(i)
         ELSE UNCHANGED <<row, charged, waived>>
    /\ UNCHANGED <<swanVars, account, reading>>

EndTick == pc' = "idle" /\ reading' = NoReading /\ left' = {}

\* The DELETE at the end of enforceQuotas.
Prune ==
    /\ pc = "enforce" /\ EndTick
    /\ row' = [i \in Id |-> IF row[i].idle >= Stale THEN NoRow ELSE row[i]]
    /\ UNCHANGED <<swanVars, account, charged, waived>>

\* Something in tick throws (a transaction, enforceQuotas), or the panel dies:
\* only the rows survive.
Abandon ==
    /\ pc # "idle" /\ EndTick
    /\ UNCHANGED <<swanVars, account, row, charged, waived>>

Next ==
    \/ Connect
    \/ \E i \in Id : Disconnect(i)
    \/ DaemonRestart
    \/ \E i \in Id, c \in Child : Carry(i, c)
    \/ \E i \in Id, c \in Child : Retire(i, c)
    \/ Elapse
    \/ \E x \in Sa : RemoveUser(x)
    \/ List
    \/ \E i \in Id : Record(i)
    \/ Prune
    \/ Abandon

Spec == Init /\ [][Next]_vars

-----------------------------------------------------------------------------
(* Properties. *)

\* No byte is charged twice, charged after a baseline let it pass, or charged
\* before it was carried: id reuse, rekeying, missing children, failed
\* transactions and restarts included (ikeCounterDelta's cursor rules).
ChargedOnce ==
    \A x \in Sa, c \in Child : charged[x][c] + waived[x][c] <= carried[x][c]

\* No byte is lost either: what a row says of a child is exactly what was
\* charged or let pass (recordIkeSession writes cursor and balance in one
\* transaction).
CursorExact ==
    \A i \in Id, c \in Child :
        row[i].sa # NoSa /\ row[i].at[c] # None =>
            charged[row[i].sa][c] + waived[row[i].sa][c] = row[i].at[c]

\* Pruning never forgets an SA that is still up, even after ten minutes
\* without a successful poll: tick records before enforceQuotas prunes.
PruneKeepsLive ==
    [][pc = "enforce" => \A i \in Id :
          live[i] # NoSa /\ row[i].sa = live[i] /\ row[i].sa \in account'
              => row'[i].sa = live[i]]_vars

\* A baseline forgives traffic only of an SA nothing was ever charged or
\* forgiven of: an outage of the panel, a failed poll or a reused id never
\* makes a metered SA free (the condition on `baseline' in ikeCounterDelta).
ForgivesFirstSightOnly ==
    [][\A x \in Sa : waived'[x] # waived[x] =>
          \A c \in Child : charged[x][c] = 0 /\ waived[x][c] = 0]_vars

=============================================================================
