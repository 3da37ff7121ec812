--------------------------- MODULE FirefoxSidecar ---------------------------
(***************************************************************************)
(* The Firefox provider (ops/firefox/service.mjs): one Mozilla account,    *)
(* its credential on disk, a proxy pass refreshed once for all who ask,    *)
(* and SOCKS clients whose tunnels are set up across several awaits while  *)
(* the administrator changes the country or disconnects the account.       *)
(* `gen' is the program's generation: whoever started under an older one   *)
(* is to be turned away.                                                   *)
(***************************************************************************)
EXTENDS Integers, Sequences, FiniteSets

CONSTANTS
    Owner,        \* administrators of the panel
    Mozilla,      \* Mozilla accounts
    Country,      \* other than REC
    Socket,       \* SOCKS connections
    Limit,        \* 64 in the code
    MaxGen,       \* bound on generation
    MaxWrites     \* bound on the queue of writes

Nobody == "none"
Rec == "REC"

ASSUME SidecarAssumption ==
    /\ IsFiniteSet(Socket) /\ Limit \in Nat /\ MaxGen \in Nat
    /\ Nobody \notin Mozilla \cup Owner /\ Rec \notin Country

NoOperation == [op |-> "idle"]
Empty == [account |-> Nobody, country |-> Rec]

VARIABLES
    gen, saved, pass,   \* generation, saved, proxy (its account)
    refresh,            \* refreshJob
    pending,            \* who asked for the login attempt
    control,            \* the control operation in progress (busy)
    writes,             \* writes: queued persists, the head perhaps under way
    disk,               \* account.enc
    sock,               \* SOCKS connections
    reservations,
    assured             \* history: what the last operation reported as saved, if sure

accountVars == <<gen, saved, pass, refresh, pending, control, writes, disk, assured>>
sidecarVars == <<accountVars, sock, reservations>>

Credential == [account : Mozilla \cup {Nobody}, country : Country \cup {Rec}]
QueuedWrite == [data : Credential, gen : 0..MaxGen, by : {"control", "job", "check"},
                begun : BOOLEAN]
Before == {"reading", "token", "server", "open", "retoken", "reopen", "cut"}
Stage == {"free", "piped", "ended"} \cup Before
Conn == [at : Stage, gen : 0..MaxGen, account : Mozilla \cup {Nobody},
         country : Country \cup {Rec}, socket : {"open", "destroyed", "closed"},
         released : BOOLEAN]
Fresh == [at |-> "free", gen |-> 0, account |-> Nobody, country |-> Rec,
          socket |-> "open", released |-> FALSE]

SidecarType ==
    /\ gen \in 0..MaxGen /\ saved \in Credential /\ disk \in Credential
    /\ pass \in Mozilla \cup {Nobody} /\ pending \in Owner \cup {Nobody}
    /\ refresh \in {NoOperation} \cup
                    [at : {"asking", "saving"}, gen : 0..MaxGen, account : Mozilla]
    /\ control \in [op : {"persist", "renew", "check", "quota", "probe"}] \cup {NoOperation}
    /\ writes \in Seq(QueuedWrite) /\ sock \in [Socket -> Conn]
    /\ reservations \in 0..Cardinality(Socket)
    /\ assured \in Credential \cup {NoOperation}

SidecarInit ==
    /\ gen = 0 /\ saved = Empty /\ disk = Empty /\ assured = Empty
    /\ pass = Nobody /\ refresh = NoOperation /\ pending = Nobody /\ control = NoOperation
    /\ writes = <<>>
    /\ sock = [s \in Socket |-> Fresh] /\ reservations = 0

-----------------------------------------------------------------------------
(* The credential on disk *)

\* persist
Persist(data, g, by) ==
    /\ Len(writes) < MaxWrites
    /\ writes' = Append(writes, [data |-> data, gen |-> g, by |-> by, begun |-> FALSE])

\* Mutant: every write starts at once.
AnyWrite == DOMAIN writes

\* The chain of promises: one write at a time, in order.
NextWrite == DOMAIN writes \cap {1}

Without(i) == SubSeq(writes, 1, i - 1) \o SubSeq(writes, i + 1, Len(writes))

\* A write of an older generation is not begun; its caller is told it is done.
BeginWrite(i) ==
    /\ ~writes[i].begun /\ writes[i].gen = gen
    /\ writes' = [writes EXCEPT ![i].begun = TRUE]
    /\ UNCHANGED <<gen, saved, pass, refresh, pending, control, disk, assured, sock, reservations>>

Waiters == {s \in Socket : sock[s].at \in {"token", "retoken"}}

\* Those waiting for the refresh: with a pass they go on, else they fail, and a
\* connection that is gone gives its slot back.
Resumed(s, account) ==
    IF account # Nobody
      THEN [sock[s] EXCEPT !.account = account,
                           !.at = IF @ = "token" THEN "server" ELSE "reopen"]
    ELSE IF sock[s].socket = "closed" THEN Fresh
    ELSE [sock[s] EXCEPT !.at = "ended", !.released = sock[s].socket = "destroyed"]

ResumeWaiters(account) ==
    /\ sock' = [s \in Socket |-> IF s \in Waiters THEN Resumed(s, account) ELSE sock[s]]
    /\ reservations' = reservations - (IF account # Nobody THEN 0
                         ELSE Cardinality({s \in Waiters : sock[s].socket # "open"}))
    /\ refresh' = NoOperation

\* The end of a write, kept on disk or not, lets its caller go on: a control
\* operation reports, a refresh hands out its pass.
EndWrite(i, ok) ==
    LET w == writes[i] IN
    /\ w.begun \/ w.gen # gen
    /\ ok \/ w.begun
    /\ writes' = Without(i)
    /\ disk' = IF w.begun /\ ok THEN w.data ELSE disk
    /\ control' = CASE w.by = "control" -> NoOperation
                   [] w.by = "check" -> IF ok THEN [op |-> "probe"] ELSE NoOperation
                   [] OTHER -> control
    /\ assured' = IF w.by = "control" /\ ok THEN saved ELSE assured
    /\ IF w.by = "job" /\ refresh # NoOperation /\ refresh.at = "saving"
         THEN ResumeWaiters(IF ok THEN refresh.account ELSE Nobody)
         ELSE UNCHANGED <<refresh, sock, reservations>>
    /\ UNCHANGED <<gen, saved, pass, pending>>

-----------------------------------------------------------------------------
(* The pass *)

NewRefresh == [at |-> "asking", gen |-> gen, account |-> saved.account]

StillCurrent == refresh.gen = gen

\* fpn/token answers
PassGranted ==
    /\ refresh # NoOperation /\ refresh.at = "asking" /\ StillCurrent
    /\ pass' = refresh.account
    /\ refresh' = [refresh EXCEPT !.at = "saving"]
    /\ Persist(saved, gen, "job")
    /\ UNCHANGED <<gen, saved, pending, control, disk, assured, sock, reservations>>

\* no answer, a refusal, or ACCOUNT_CHANGED
PassRefused ==
    /\ refresh # NoOperation /\ refresh.at = "asking"
    /\ ResumeWaiters(Nobody)
    /\ UNCHANGED <<gen, saved, pass, pending, control, writes, disk, assured>>

-----------------------------------------------------------------------------
(* SOCKS connections *)

SetSock(s, conn) == sock' = [sock EXCEPT ![s] = conn]
In(s, stages) == sock[s].at \in stages

Accept(s) ==
    /\ In(s, {"free"}) /\ reservations < Limit
    /\ SetSock(s, [Fresh EXCEPT !.at = "reading"])
    /\ reservations' = reservations + 1
    /\ UNCHANGED accountVars

\* Mutant: release does not look whether it already has.
ReleasedAgain(s) == reservations - 1

\* release
Released(s) == reservations - (IF sock[s].released THEN 0 ELSE 1)

\* The end of the handshake (finally): a connection destroyed in the meantime
\* gives its slot back here, the others when they close.
Handshaken(s, conn) ==
    /\ IF sock[s].socket = "open" THEN SetSock(s, conn) /\ UNCHANGED reservations
       ELSE /\ SetSock(s, IF sock[s].socket = "closed" THEN Fresh
                      ELSE [conn EXCEPT !.at = "ended", !.released = TRUE])
            /\ reservations' = Released(s)

FailHandshake(s) == Handshaken(s, [sock[s] EXCEPT !.at = "ended"])

HandshakeFails(s) ==
    /\ In(s, {"reading", "server", "open", "reopen", "cut"})
    /\ FailHandshake(s) /\ UNCHANGED accountVars

\* proxyPass: the pass there is, the refresh under way, or a new one
AskPass(s, conn, wait, go) ==
    \/ /\ pass # Nobody
       /\ SetSock(s, [conn EXCEPT !.at = go, !.account = pass])
       /\ UNCHANGED <<refresh, reservations>>
    \/ /\ pass = Nobody /\ (refresh # NoOperation \/ saved.account # Nobody)
       /\ SetSock(s, [conn EXCEPT !.at = wait])
       /\ refresh' = IF refresh = NoOperation THEN NewRefresh ELSE refresh
       /\ UNCHANGED reservations

\* tunnel, up to its first await
OpenTunnel(s) ==
    /\ In(s, {"reading"})
    /\ AskPass(s, [sock[s] EXCEPT !.gen = gen], "token", "server")
    /\ UNCHANGED <<gen, saved, pass, pending, control, writes, disk, assured>>

\* selectedServer, and the check after it
PickServer(s) ==
    /\ In(s, {"server"}) /\ sock[s].gen = gen
    /\ SetSock(s, [sock[s] EXCEPT !.at = "open", !.country = saved.country])
    /\ UNCHANGED <<accountVars, reservations>>

\* The proxy rejects the pass: one more attempt, at the same server.
Rejected(s) ==
    /\ In(s, {"open"}) /\ sock[s].gen = gen
    /\ refresh # NoOperation \/ saved.account # Nobody
    /\ refresh' = IF refresh = NoOperation THEN NewRefresh ELSE refresh
    /\ SetSock(s, [sock[s] EXCEPT !.at = "retoken"])
    /\ pass' = Nobody
    /\ UNCHANGED <<gen, saved, pending, control, writes, disk, assured, reservations>>

\* Mutant: no check after pool.open.
OpenAnyway(s) == TRUE

OpenCurrent(s) == sock[s].gen = gen

\* pool.open succeeds, and the check after it
Opened(s) ==
    /\ In(s, {"open", "reopen"}) /\ OpenCurrent(s)
    /\ Handshaken(s, [sock[s] EXCEPT !.at = "piped"])
    /\ UNCHANGED accountVars

\* The client leaves, a timeout, or the tunnel closes.
Destroyed(s) ==
    /\ ~In(s, {"free"}) /\ sock[s].socket = "open"
    /\ SetSock(s, [sock[s] EXCEPT !.socket = "destroyed",
                                  !.at = IF @ = "piped" THEN "ended" ELSE @])
    /\ UNCHANGED <<accountVars, reservations>>

\* the close event
Closed(s) ==
    /\ sock[s].socket = "destroyed"
    /\ IF In(s, {"ended"}) THEN SetSock(s, Fresh) /\ reservations' = Released(s)
       ELSE SetSock(s, [sock[s] EXCEPT !.socket = "closed"]) /\ UNCHANGED reservations
    /\ UNCHANGED accountVars

-----------------------------------------------------------------------------
(* Control operations, one at a time *)

\* A second operation is answered BUSY.
NotBusy == control = NoOperation

CutStage(at) == CASE at = "piped" -> "ended"
                [] at \in {"open", "reopen"} -> "cut"
                [] OTHER -> at

\* closeTunnels
CloseTunnels == sock' = [s \in Socket |-> [sock[s] EXCEPT !.at = CutStage(@)]]

NewGeneration ==
    /\ gen < MaxGen /\ gen' = gen + 1
    /\ CloseTunnels /\ pass' = Nobody
    /\ UNCHANGED <<refresh, disk, reservations>>

\* Saving what the operation has changed; it reports when that is done.
SaveAndReport(data, g) ==
    /\ saved' = data /\ Persist(data, g, "control")
    /\ control' = [op |-> "persist"] /\ assured' = NoOperation

SetCountry(c) ==
    /\ NotBusy /\ c # saved.country
    /\ NewGeneration /\ SaveAndReport([saved EXCEPT !.country = c], gen + 1)
    /\ UNCHANGED pending

LogoutAccount ==
    /\ NotBusy
    /\ NewGeneration /\ SaveAndReport(Empty, gen + 1)
    /\ pending' = Nobody

\* The callback counts for the administrator of the last attempt.
Asked(o) == pending = o

StartLogin(o) ==
    /\ NotBusy /\ saved.account = Nobody
    /\ pending' = o
    /\ UNCHANGED <<gen, saved, pass, refresh, control, writes, disk, assured, sock, reservations>>

\* login/complete: the attempt is used up even if the exchange fails.
CompleteLogin(o, a) ==
    /\ NotBusy /\ saved.account = Nobody /\ Asked(o)
    /\ pending' = Nobody
    /\ IF a = Nobody THEN UNCHANGED <<saved, control, writes, assured>>
       ELSE SaveAndReport([saved EXCEPT !.account = a], gen)
    /\ UNCHANGED <<gen, pass, refresh, disk, sock, reservations>>

ControlGoes(op) ==
    /\ control' = [op |-> op]
    /\ UNCHANGED <<gen, saved, refresh, pending, disk, assured, sock, reservations>>

\* renew waits for the refresh under way, drops the pass and checks.
Renew ==
    /\ NotBusy /\ saved.account # Nobody /\ ControlGoes("renew")
    /\ UNCHANGED <<pass, writes>>

DropPass ==
    /\ control = [op |-> "renew"] /\ refresh = NoOperation /\ ControlGoes("check")
    /\ pass' = Nobody /\ UNCHANGED writes

Reconnect ==
    /\ NotBusy /\ NewGeneration /\ control' = [op |-> "check"]
    /\ UNCHANGED <<saved, pending, writes, assured>>

Check ==
    /\ NotBusy /\ ControlGoes("check")
    /\ UNCHANGED <<pass, writes>>

SaveQuota ==
    /\ control = [op |-> "check"] /\ saved.account # Nobody /\ ControlGoes("quota")
    /\ Persist(saved, gen, "check") /\ UNCHANGED pass

\* The probe asks for a pass; its own tunnel is left out.
Checked ==
    /\ control.op \in {"check", "probe"} /\ control' = NoOperation
    /\ \/ UNCHANGED refresh
       \/ /\ control.op = "probe" /\ saved.account # Nobody
          /\ refresh = NoOperation /\ pass = Nobody
          /\ refresh' = NewRefresh
    /\ UNCHANGED <<gen, saved, pass, pending, writes, disk, assured, sock, reservations>>

\* What the page offers.
FirefoxCard ==
    \/ \E c \in Country \cup {Rec} : SetCountry(c)
    \/ LogoutAccount \/ Renew \/ Check
    \/ \E o \in Owner : StartLogin(o) \/ \E a \in Mozilla \cup {Nobody} : CompleteLogin(o, a)

\* A stop, a crash or an update: the next start reads the file.
Restarted ==
    /\ gen' = 0 /\ saved' = disk /\ pass' = Nobody /\ refresh' = NoOperation
    /\ pending' = Nobody /\ control' = NoOperation /\ writes' = <<>>
    /\ sock' = [s \in Socket |-> Fresh] /\ reservations' = 0
    /\ UNCHANGED <<disk, assured>>

SidecarNext ==
    \/ \E i \in NextWrite : BeginWrite(i) \/ \E ok \in BOOLEAN : EndWrite(i, ok)
    \/ PassGranted \/ PassRefused
    \/ \E s \in Socket :
         \/ Accept(s) \/ HandshakeFails(s) \/ OpenTunnel(s) \/ PickServer(s)
         \/ Rejected(s) \/ Opened(s) \/ Destroyed(s) \/ Closed(s)
    \/ FirefoxCard \/ Reconnect
    \/ DropPass \/ SaveQuota \/ Checked
    \/ Restarted

SidecarSpec == SidecarInit /\ [][SidecarNext]_sidecarVars

-----------------------------------------------------------------------------
(* Properties *)

Holders == {s \in Socket : sock[s].at # "free" /\ ~sock[s].released}

\* The counter of SOCKS clients is exact however a handshake and its connection
\* end: no slot leaks, none comes back twice (service.mjs:187-209).
SlotsExact == reservations = Cardinality(Holders)

Pool == INSTANCE SlotPool WITH Client <- Socket, Slots <- Limit, holders <- Holders

\* The connections that hold a slot behave as a pool of Limit slots: the code
\* admits by its counter alone (service.mjs:189).
BoundedSlots == Pool!PoolSpec

\* Nothing outlives the change that was to end it: a connected tunnel was asked
\* for after the last change of country, account or transport and leaves through
\* the country chosen (service.mjs:88-99, 150-158), and the proxy pass kept is the
\* linked account's (service.mjs:64-74).
TunnelCurrent(s) == sock[s].gen = gen /\ sock[s].country = saved.country
OnlyCurrent ==
    /\ pass # Nobody => pass = saved.account
    /\ \A s \in Socket : In(s, {"piped"}) => TunnelCurrent(s)

\* The account and country an operation reported are what the next start will
\* read, whatever was still being written when it began (service.mjs:17-23).
ReportedOnDisk == assured # NoOperation => disk = assured

=============================================================================
