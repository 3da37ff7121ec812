---------------------------- MODULE Provisioning ----------------------------
(***************************************************************************)
(* Creating, re-keying and removing accounts (services/users.js behind the *)
(* routes of server.js and the console's pages).  The first two wait for   *)
(* the job they queued in services/syncQueue.js, for at most a minute; the *)
(* third disconnects, deletes and leaves the rest to the queue.            *)
(*                                                                         *)
(* What a job does to one server is one step here (all of it is in         *)
(* SyncQueue); every account is enabled.                                   *)
(***************************************************************************)
EXTENDS Integers, Sequences

CONSTANTS
    Operator,      \* administrators whose requests overlap
    Account,       \* ids: a name taken again is another account
    MaxSecret,     \* bound: passwords an account is given
    MaxSession,    \* bound: sessions ever
    MaxChain       \* bound: jobs in the chain

ASSUME ProvisioningAssumption ==
    /\ MaxSecret \in Nat /\ MaxSession \in Nat /\ MaxChain \in Nat
    /\ "nobody" \notin Account /\ "next" \notin Account    \* ids are numbers

VARIABLES
    secret, status,  \* vpn_users: number of the password, provisioning_status
    loaded,          \* the password strongSwan has, 0 for none
    chain,           \* the jobs, the running one first: who waits for each
    step, snapshot,  \* the running job, and the passwords it has read
    retry,           \* the timer of 15 s
    request,         \* what each operator's request is at
    session,         \* the SAs: account and password they were opened with
    listed,          \* those of the last poll (lastSessions)
    missed,          \* history: a terminate failed
    told             \* history: the newest password reported as in force

provisioningVars ==
    <<secret, status, loaded, chain, step, snapshot, retry, request, session, listed, missed, told>>
rowVars == <<secret, status>>
runVars == <<loaded, step, snapshot, retry>>
saVars  == <<session, listed, missed>>

SessionId == 1..MaxSession
Secret == 0..MaxSecret
Nowhere == [who |-> "nobody"]
NoRequest == [kind |-> "idle"]
Exists(u) == status[u] \in {"provisioning", "active", "failed"}

Request ==
    [kind : {"create", "reset"}, who : Account, with : Secret, at : {"sync", "done", "failed"}]
        \cup [kind : {"delete"}, left : SUBSET Account, at : Account \cup {"next"}]

ProvisioningType ==
    /\ secret \in [Account -> Secret]
    /\ status \in [Account -> {"none", "provisioning", "active", "failed", "deleted"}]
    /\ loaded \in [Account -> Secret] /\ snapshot \in [Account -> Secret]
    /\ chain \in Seq(SUBSET Operator) /\ Len(chain) <= MaxChain
    /\ step \in {"idle", "read", "loaded"} /\ (step # "idle" => chain # <<>>)
    /\ retry \in BOOLEAN
    /\ request \in [Operator -> Request \cup {NoRequest}]
    /\ session \in [SessionId -> [who : Account, with : Secret] \cup {Nowhere}]
    /\ listed \subseteq SessionId /\ missed \subseteq SessionId
    /\ told \in [Account -> Secret]

ProvisioningInit ==
    /\ secret = [u \in Account |-> 0] /\ status = [u \in Account |-> "none"]
    /\ loaded = secret /\ snapshot = secret /\ told = secret
    /\ chain = <<>> /\ step = "idle" /\ retry = FALSE
    /\ request = [a \in Operator |-> NoRequest]
    /\ session = [s \in SessionId |-> Nowhere] /\ listed = {} /\ missed = {}

-----------------------------------------------------------------------------
(* The queue *)

\* Mutant: a request that finds a job running waits for that one.
JoinedRunning(w) == IF chain = <<>> THEN <<w>> ELSE [chain EXCEPT ![1] = @ \cup w]

\* enqueueSync: always a job of one's own, behind the others
Queued(w) == Append(chain, w)

Room == Len(chain) < MaxChain

ReadList ==
    /\ step = "idle" /\ chain # <<>>
    /\ step' = "read"
    /\ snapshot' = [u \in Account |-> IF Exists(u) THEN secret[u] ELSE 0]
    /\ UNCHANGED <<rowVars, loaded, chain, retry, request, saVars, told>>

Load ==
    /\ step = "read"
    /\ loaded' = snapshot /\ step' = "loaded"
    /\ UNCHANGED <<rowVars, snapshot, chain, retry, request, saVars, told>>

\* The promise of the job settles for those who still wait.
Settle(outcome) ==
    /\ chain' = Tail(chain) /\ step' = "idle"
    /\ request' = [a \in Operator |->
                     IF a \in Head(chain) THEN [request[a] EXCEPT !.at = outcome] ELSE request[a]]

\* provisioning_status of every account, whoever waits for it
MarkActive ==
    /\ step = "loaded"
    /\ status' = [u \in Account |-> IF Exists(u) THEN "active" ELSE status[u]]
    /\ retry' = FALSE
    /\ Settle("done")
    /\ UNCHANGED <<secret, loaded, snapshot, saVars, told>>

\* Mutant: only a job nobody waits for is tried again.
RetriedUnreported == Head(chain) = {}

\* setTimeout in the catch of the job
Retried == TRUE

JobFails ==
    /\ step # "idle"
    /\ retry' = (retry \/ Retried)
    /\ Settle("failed")
    /\ UNCHANGED <<rowVars, loaded, snapshot, saVars, told>>

RetryJob ==
    /\ retry /\ Room
    /\ retry' = FALSE /\ chain' = Queued({})
    /\ UNCHANGED <<rowVars, loaded, step, snapshot, request, saVars, told>>

\* syncSecretsNow stops waiting; its job stays in the chain.
Timeout(a) ==
    /\ \E j \in 1..Len(chain) : a \in chain[j]
    /\ chain' = [j \in 1..Len(chain) |-> chain[j] \ {a}]
    /\ request' = [request EXCEPT ![a].at = "failed"]
    /\ UNCHANGED <<rowVars, runVars, saVars, told>>

-----------------------------------------------------------------------------
(* Requests *)

\* Both commit the row first.
Commit(a, kind, u, newStatus) ==
    /\ request[a] = NoRequest /\ secret[u] < MaxSecret /\ Room
    /\ secret' = [secret EXCEPT ![u] = @ + 1]
    /\ status' = [status EXCEPT ![u] = newStatus]
    /\ chain' = Queued({a})
    /\ request' = [request EXCEPT ![a] =
                       [kind |-> kind, who |-> u, with |-> secret[u] + 1, at |-> "sync"]]
    /\ UNCHANGED <<runVars, saVars, told>>

Create(a, u) == status[u] = "none" /\ Commit(a, "create", u, "provisioning")

ResetPassword(a, u) == Exists(u) /\ Commit(a, "reset", u, status[u])

\* Sessions of u in the last poll are told to close; some terminates may fail.
Listed(u) == {s \in listed : session[s].who = u}
Cut(S) == \E failed \in SUBSET S :
    /\ session' = [s \in SessionId |-> IF s \in S \ failed THEN Nowhere ELSE session[s]]
    /\ missed' = missed \cup failed /\ UNCHANGED listed

\* What the request's own job made sure of.  (provisionUser reads the status
\* back, and may find `active' written by another's job.)
Told(a) == told' = [told EXCEPT ![request[a].who] =
                        IF @ > request[a].with THEN @ ELSE request[a].with]

\* provisionUser's second UPDATE, of a row that may be gone
EndCreate(a) ==
    /\ request[a].kind = "create" /\ request[a].at # "sync"
    /\ LET u == request[a].who
           written == IF request[a].at = "done" THEN "active" ELSE "failed"
       IN  status' = [status EXCEPT ![u] = IF Exists(u) THEN written ELSE @]
    /\ IF request[a].at = "done" THEN Told(a) ELSE UNCHANGED told
    /\ request' = [request EXCEPT ![a] = NoRequest]
    /\ UNCHANGED <<secret, chain, runVars, saVars>>

\* Mutant: nobody is disconnected: the next rekey will ask for the password.
KeptConnected(u) == {}

\* if (syncOk) await disconnectUser(...)
Disconnected(u) == Listed(u)

EndReset(a) ==
    /\ request[a].kind = "reset" /\ request[a].at = "done"
    /\ Cut(Disconnected(request[a].who)) /\ Told(a)
    /\ request' = [request EXCEPT ![a] = NoRequest]
    /\ UNCHANGED <<rowVars, chain, runVars>>

ResetFails(a) ==
    /\ request[a].kind = "reset" /\ request[a].at = "failed" /\ Room
    /\ chain' = Queued({})
    /\ request' = [request EXCEPT ![a] = NoRequest]
    /\ UNCHANGED <<rowVars, runVars, saVars, told>>

\* One id, or the selection of the list
Delete(a, ids) ==
    /\ request[a] = NoRequest /\ ids # {}
    /\ request' = [request EXCEPT ![a] = [kind |-> "delete", left |-> ids, at |-> "next"]]
    /\ UNCHANGED <<rowVars, chain, runVars, saVars, told>>

\* deleteUser up to disconnectUser; an id without a row is passed over.
DeleteNext(a, u) ==
    /\ request[a].kind = "delete" /\ request[a].at = "next" /\ u \in request[a].left
    /\ request' = [request EXCEPT ![a].left = @ \ {u}, ![a].at = IF Exists(u) THEN u ELSE @]
    /\ IF Exists(u) THEN Cut(Listed(u)) ELSE UNCHANGED saVars
    /\ UNCHANGED <<rowVars, chain, runVars, told>>

DeleteRow(a) ==
    /\ request[a].kind = "delete" /\ request[a].at # "next" /\ Room
    /\ status' = [status EXCEPT ![request[a].at] = "deleted"]
    /\ chain' = Queued({})
    /\ request' = [request EXCEPT ![a].at = "next"]
    /\ UNCHANGED <<secret, runVars, saVars, told>>

\* Every id has had its turn, or collectXrayUsage throws at the next one.
EndDelete(a) ==
    /\ request[a].kind = "delete" /\ request[a].at = "next"
    /\ request' = [request EXCEPT ![a] = NoRequest]
    /\ UNCHANGED <<rowVars, chain, runVars, saVars, told>>

\* The sessions page closes one, or all of its list.
DisconnectListed(S) ==
    /\ S \subseteq listed /\ Cut({s \in S : session[s] # Nowhere})
    /\ UNCHANGED <<rowVars, chain, runVars, request, told>>

-----------------------------------------------------------------------------
(* strongSwan and the poll *)

Connect(u, s) ==
    /\ loaded[u] # 0 /\ session[s] = Nowhere /\ s \notin listed \cup missed
    /\ session' = [session EXCEPT ![s] = [who |-> u, with |-> loaded[u]]]
    /\ UNCHANGED <<rowVars, chain, runVars, request, listed, missed, told>>

Poll ==
    /\ listed' = {s \in SessionId : session[s] # Nowhere}
    /\ UNCHANGED <<rowVars, chain, runVars, request, session, missed, told>>

ProvisioningNext ==
    \/ ReadList \/ Load \/ MarkActive \/ JobFails \/ RetryJob \/ Poll
    \/ \E a \in Operator :
        \/ Timeout(a) \/ EndCreate(a) \/ EndReset(a) \/ ResetFails(a)
        \/ \E u \in Account : Create(a, u) \/ ResetPassword(a, u) \/ DeleteNext(a, u)
        \/ \E ids \in SUBSET Account : Delete(a, ids)
        \/ DeleteRow(a) \/ EndDelete(a)
    \/ \E S \in SUBSET listed : DisconnectListed(S)
    \/ \E u \in Account, s \in SessionId : Connect(u, s)

ProvisioningSpec == ProvisioningInit /\ [][ProvisioningNext]_provisioningVars

-----------------------------------------------------------------------------
(* Properties *)

\* A password reported as in force (syncOk) is, or a newer one: however many
\* jobs were queued, running or given up on when it was written ("it is never
\* silently reported as a successful password change", users.js:130).
ReportedLoaded == \A u \in Account : Exists(u) => loaded[u] >= told[u]

\* When it is reported, no session of the last poll still runs on an older one,
\* except where strongSwan refused to close it (users.js:128-129).
ResetCutsOff ==
    [][\A u \in Account : told'[u] > told[u] =>
         \A s \in listed \ missed' :
             session'[s].who = u => session'[s].with >= told'[u]]_provisioningVars

\* When no job is queued, running or due again and no request is open, what is
\* loaded is what the rows say, and no account is left `provisioning': failed
\* jobs, requests that gave up and deletions amid them are all made good.
QuietSynced ==
    chain = <<>> /\ ~retry /\ (\A a \in Operator : request[a] = NoRequest) =>
        \A u \in Account : /\ loaded[u] = IF Exists(u) THEN secret[u] ELSE 0
                           /\ status[u] # "provisioning"

=============================================================================
