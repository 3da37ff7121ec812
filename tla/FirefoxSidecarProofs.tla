------------------------ MODULE FirefoxSidecarProofs ------------------------
(***************************************************************************)
(* Proofs about FirefoxSidecar, for any accounts, countries, sockets and   *)
(* limit.  Three inductive invariants on top of the types:                 *)
(*   - SlotState: a connection that has given its slot back has ended and  *)
(*     waits for its close event, so nothing releases it again;            *)
(*   - NewInvalidatesOld: whatever carries the generation of the program   *)
(*     was started for the account and country that are chosen now;        *)
(*   - QueueInv: the queue of writes holds what is saved under the         *)
(*     generation it is saved under, in order, and at most one write of a  *)
(*     control operation.                                                  *)
(***************************************************************************)
EXTENDS FirefoxSidecar, FiniteSetTheorems, SequenceTheorems, TLAPS

Refresh == [at : {"asking", "saving"}, gen : 0..MaxGen, account : Mozilla]
Control == [op : {"persist", "renew", "check", "quota", "probe"}]

FlowType ==
    /\ gen \in 0..MaxGen /\ saved \in Credential /\ disk \in Credential
    /\ pass \in Mozilla \cup {Nobody} /\ pending \in Owner \cup {Nobody}
    /\ refresh \in {NoOperation} \cup Refresh
    /\ control \in Control \cup {NoOperation}
    /\ writes \in Seq(QueuedWrite)
    /\ assured \in Credential \cup {NoOperation}

SockType == sock \in [Socket -> Conn]

SlotState ==
    \A s \in Socket :
        /\ sock[s].released => sock[s].at = "ended" /\ sock[s].socket = "destroyed"
        /\ sock[s].at \in {"free", "piped"} => sock[s].socket = "open"
        /\ sock[s].at = "ended" => sock[s].socket # "closed"

SlotInv == FlowType /\ SockType /\ SlotState /\ SlotsExact

Opening == {"open", "retoken", "reopen", "piped"}

NewInvalidatesOld ==
    /\ refresh # NoOperation =>
         /\ refresh.gen <= gen
         /\ refresh.gen = gen => refresh.account = saved.account
    /\ \A s \in Socket :
         /\ sock[s].gen <= gen
         /\ sock[s].at \in Opening /\ sock[s].gen = gen => sock[s].country = saved.country
         /\ sock[s].at = "piped" => sock[s].gen = gen

CurrentInv == SlotInv /\ NewInvalidatesOld /\ OnlyCurrent

-----------------------------------------------------------------------------
LEMMA NoCredentialIsIdle ==
  /\ NoOperation.op = "idle"
  /\ NoOperation \notin Credential /\ NoOperation \notin Control /\ NoOperation \notin Refresh
BY DEF NoOperation, Credential, Control, Refresh

LEMMA Names ==
  /\ IsFiniteSet(Socket) /\ Limit \in Nat /\ MaxGen \in Nat
  /\ Nobody \notin Mozilla /\ Nobody \notin Owner /\ Rec \notin Country
BY SidecarAssumption DEF SidecarAssumption

\* What happens to the writes queued, one at a time
LEMMA PersistQueue ==
  ASSUME FlowType, NEW data \in Credential, NEW g \in 0..MaxGen,
         NEW by \in {"control", "job", "check"}, Persist(data, g, by)
  PROVE  /\ writes' \in Seq(QueuedWrite) /\ Len(writes') = Len(writes) + 1
         /\ \A i \in 1..Len(writes) : writes'[i] = writes[i]
         /\ writes'[Len(writes) + 1] = [data |-> data, gen |-> g, by |-> by, begun |-> FALSE]
<1> DEFINE w == [data |-> data, gen |-> g, by |-> by, begun |-> FALSE]
<1>1. w \in QueuedWrite
  BY DEF QueuedWrite
<1>2. writes \in Seq(QueuedWrite) /\ writes' = Append(writes, w)
  BY DEF FlowType, Persist
<1> HIDE DEF w
<1>3. /\ writes' \in Seq(QueuedWrite) /\ Len(writes') = Len(writes) + 1
      /\ \A i \in 1..Len(writes) : writes'[i] = writes[i]
      /\ writes'[Len(writes) + 1] = w
  BY <1>1, <1>2, AppendProperties
<1> QED BY <1>3 DEF w

LEMMA BegunQueue ==
  ASSUME FlowType, NEW i \in NextWrite, BeginWrite(i)
  PROVE  /\ i = 1 /\ Len(writes) > 0 /\ writes[1].gen = gen
         /\ writes' \in Seq(QueuedWrite) /\ Len(writes') = Len(writes)
         /\ writes'[1] = [writes[1] EXCEPT !.begun = TRUE]
         /\ \A j \in 2..Len(writes) : writes'[j] = writes[j]
<1>1. i = 1 /\ 1 \in 1..Len(writes)
  BY DEF FlowType, NextWrite
<1>2. writes[1] \in QueuedWrite
  BY <1>1, ElementOfSeq DEF FlowType
<1>3. [writes[1] EXCEPT !.begun = TRUE] \in QueuedWrite
  BY <1>2 DEF QueuedWrite
<1> DEFINE w == [writes[1] EXCEPT !.begun = TRUE]
<1>4. writes' = [writes EXCEPT ![1] = w] /\ writes[1].gen = gen
  BY <1>1 DEF BeginWrite
<1>5. w \in QueuedWrite
  BY <1>3
<1> HIDE DEF w
<1>6. /\ writes' \in Seq(QueuedWrite) /\ Len(writes') = Len(writes)
      /\ \A j \in 1..Len(writes) : writes'[j] = IF j = 1 THEN w ELSE writes[j]
  BY <1>1, <1>4, <1>5, ExceptSeq DEF FlowType
<1>7. Len(writes) \in Nat
  BY DEF FlowType
<1>8. writes'[1] = w /\ \A j \in 2..Len(writes) : writes'[j] = writes[j]
  BY <1>1, <1>6, <1>7
<1> QED BY <1>1, <1>4, <1>6, <1>7, <1>8 DEF w

LEMMA EndedQueue ==
  ASSUME FlowType, NEW i \in NextWrite, NEW ok, EndWrite(i, ok)
  PROVE  /\ i = 1 /\ Len(writes) > 0 /\ writes[1] \in QueuedWrite
         /\ writes' \in Seq(QueuedWrite) /\ Len(writes') = Len(writes) - 1
         /\ \A j \in 1..Len(writes') : writes'[j] = writes[j + 1]
<1>1. i = 1 /\ 1 \in 1..Len(writes) /\ writes \in Seq(QueuedWrite)
  BY DEF FlowType, NextWrite
<1>2. writes[1] \in QueuedWrite
  BY <1>1, ElementOfSeq
<1>3. writes' = SubSeq(writes, 1, 0) \o SubSeq(writes, 2, Len(writes))
  BY <1>1 DEF EndWrite, Without
<1>4. SubSeq(writes, 1, 0) = <<>>
  BY <1>1
<1>5. SubSeq(writes, 2, Len(writes)) \in Seq(QueuedWrite)
  BY <1>1
<1>6. writes' = SubSeq(writes, 2, Len(writes))
  BY <1>3, <1>4, <1>5
<1>7. \A j \in 2..Len(writes) : writes[j] \in QueuedWrite
  BY <1>1, ElementOfSeq
<1>8. /\ Len(writes') = Len(writes) - 1
      /\ \A j \in 1..(Len(writes) - 1) : writes'[j] = writes[j + 1]
  <2>1. PICK n \in Nat : n = Len(writes) /\ n >= 1
    BY <1>1
  <2>2. /\ Len(writes') = IF 2 <= n THEN n - 2 + 1 ELSE 0
        /\ \A j \in 1..(n - 2 + 1) : writes'[j] = writes[2 + j - 1]
    BY <1>6, <1>7, <2>1, SubSeqProperties
  <2>3. Len(writes') = n - 1
    BY <2>1, <2>2
  <2>4. ASSUME NEW j \in 1..(n - 1) PROVE writes'[j] = writes[j + 1]
    <3>1. j \in 1..(n - 2 + 1) /\ 2 + j - 1 = j + 1
      BY <2>1, <2>4
    <3> QED BY <2>2, <3>1
  <2> QED BY <2>1, <2>3, <2>4
<1> QED BY <1>1, <1>2, <1>5, <1>6, <1>8

-----------------------------------------------------------------------------
(* Types *)

LEMMA FreshType == Fresh \in Conn
BY Names DEF Fresh, Conn, Stage

\* The end of a refresh leaves the connections of their types.
LEMMA ResumeType ==
  ASSUME SockType, NEW account \in Mozilla \cup {Nobody}, ResumeWaiters(account)
  PROVE  SockType' /\ refresh' = NoOperation
<1>1. ASSUME NEW s \in Waiters PROVE Resumed(s, account) \in Conn
  <2>1. sock[s] \in Conn /\ sock[s].at \in {"token", "retoken"}
    BY <1>1 DEF Waiters, SockType
  <2>2. CASE account # Nobody
    <3> DEFINE at == IF sock[s].at = "token" THEN "server" ELSE "reopen"
    <3>1. at \in Stage
      BY DEF Stage, Before
    <3>2. Resumed(s, account) = [sock[s] EXCEPT !.account = account, !.at = at]
      BY <2>2 DEF Resumed
    <3> HIDE DEF at
    <3> QED BY <2>1, <3>1, <3>2 DEF Conn
  <2>3. CASE account = Nobody /\ sock[s].socket = "closed"
    BY <2>3, FreshType DEF Resumed
  <2>4. CASE account = Nobody /\ sock[s].socket # "closed"
    <3> DEFINE released == sock[s].socket = "destroyed"
    <3>1. Resumed(s, account) = [sock[s] EXCEPT !.at = "ended", !.released = released]
      BY <2>4 DEF Resumed
    <3>2. "ended" \in Stage /\ released \in BOOLEAN
      BY DEF Stage
    <3> HIDE DEF released
    <3> QED BY <2>1, <3>1, <3>2 DEF Conn
  <2> QED BY <2>2, <2>3, <2>4
<1>2. sock' = [s \in Socket |-> IF s \in Waiters THEN Resumed(s, account) ELSE sock[s]]
        /\ refresh' = NoOperation
  BY DEF ResumeWaiters
<1> QED BY <1>1, <1>2 DEF SockType

LEMMA NewRefreshType ==
  ASSUME FlowType, saved.account # Nobody
  PROVE  NewRefresh \in Refresh /\ NewRefresh.gen = gen /\ NewRefresh.account = saved.account
BY DEF NewRefresh, FlowType, Refresh, Credential

\* What a step of connection s may do: `sock' changes at s only, and of the rest
\* only the pass may be dropped and a refresh begun.
SockStep(s) ==
    \/ Accept(s) \/ HandshakeFails(s) \/ OpenTunnel(s) \/ PickServer(s)
    \/ Rejected(s) \/ Opened(s) \/ Destroyed(s) \/ Closed(s)

Quiet ==
    /\ UNCHANGED <<gen, saved, pending, control, writes, disk, assured>>
    /\ pass' \in {pass, Nobody}
    /\ refresh' = refresh \/ (refresh = NoOperation /\ saved.account # Nobody /\ refresh' = NewRefresh)

LEMMA SockStepQuiet == ASSUME NEW s \in Socket, SockStep(s) PROVE Quiet
<1>1. ASSUME NEW conn, NEW wait, NEW go, AskPass(s, conn, wait, go)
      PROVE  refresh' = refresh
               \/ (refresh = NoOperation /\ saved.account # Nobody /\ refresh' = NewRefresh)
  BY <1>1 DEF AskPass
<1>2. CASE OpenTunnel(s)
  BY <1>1, <1>2 DEF OpenTunnel, Quiet
<1>3. CASE Rejected(s)
  BY <1>3 DEF Rejected, Quiet
<1>4. CASE ~OpenTunnel(s) /\ ~Rejected(s)
  BY <1>4 DEF SockStep, Accept, HandshakeFails, PickServer, Opened, Destroyed, Closed, Quiet,
     accountVars
<1> QED BY <1>2, <1>3, <1>4

LEMMA QuietType == ASSUME FlowType, Quiet PROVE FlowType'
BY NewRefreshType DEF FlowType, Quiet

-----------------------------------------------------------------------------
(* Slots *)

Holds(c) == c.at # "free" /\ ~c.released

WellFormed(c) ==
    /\ c.released => c.at = "ended" /\ c.socket = "destroyed"
    /\ c.at \in {"free", "piped"} => c.socket = "open"
    /\ c.at = "ended" => c.socket # "closed"

Slot(c) == IF Holds(c) THEN 1 ELSE 0

LEMMA HoldersFinite == IsFiniteSet(Holders) /\ Cardinality(Holders) \in Nat
<1>1. Holders \in SUBSET Socket
  BY DEF Holders
<1> QED BY <1>1, Names, FS_Subset, FS_CardinalityType

\* One connection changes, and the counter by the slot it took or gave back.
LEMMA Moved ==
  ASSUME SockType, SlotState, SlotsExact, NEW s \in Socket, NEW conn \in Conn,
         SetSock(s, conn), WellFormed(conn),
         reservations' = reservations + Slot(conn) - Slot(sock[s])
  PROVE  /\ SockType' /\ SlotState' /\ SlotsExact'
         /\ Holders' = IF Holds(conn) THEN Holders \cup {s} ELSE Holders \ {s}
<1>1. SockType' /\ sock'[s] = conn /\ \A o \in Socket \ {s} : sock'[o] = sock[o]
  BY DEF SockType, SetSock
<1>2. SlotState'
  BY <1>1 DEF SlotState, WellFormed
<1>3. Holders' = IF Holds(conn) THEN Holders \cup {s} ELSE Holders \ {s}
  BY <1>1 DEF Holders, Holds
<1>4. (s \in Holders) <=> Holds(sock[s])
  BY DEF Holders, Holds
<1>5. IsFiniteSet(Holders) /\ Cardinality(Holders) \in Nat /\ reservations = Cardinality(Holders)
  BY HoldersFinite DEF SlotsExact
<1>6. Cardinality(Holders \cup {s}) = IF s \in Holders THEN Cardinality(Holders)
                                                      ELSE Cardinality(Holders) + 1
  BY <1>5, FS_AddElement
<1>7. Cardinality(Holders \ {s}) = IF s \in Holders THEN Cardinality(Holders) - 1
                                                     ELSE Cardinality(Holders)
  BY <1>5, FS_RemoveElement
<1>8. reservations' = Cardinality(Holders')
  BY <1>3, <1>4, <1>5, <1>6, <1>7 DEF Slot
<1> QED BY <1>1, <1>2, <1>3, <1>8 DEF SlotsExact

\* A connection that changes and keeps its slot
LEMMA Kept ==
  ASSUME SlotInv, NEW s \in Socket, NEW conn \in Conn, SetSock(s, conn), WellFormed(conn),
         UNCHANGED reservations, Holds(conn) <=> Holds(sock[s])
  PROVE  SockType' /\ SlotState' /\ SlotsExact' /\ Holders' = Holders
<1>1. reservations \in Nat
  BY HoldersFinite DEF SlotInv, SlotsExact
<1>2. Slot(conn) = Slot(sock[s]) /\ Slot(conn) \in Nat
  BY DEF Slot
<1>3. reservations' = reservations + Slot(conn) - Slot(sock[s])
  BY <1>1, <1>2
<1>4. Holders' = IF Holds(conn) THEN Holders \cup {s} ELSE Holders \ {s}
  BY <1>3, Moved DEF SlotInv
<1>5. Holders' = Holders
  BY <1>4 DEF Holders, Holds
<1> QED BY <1>3, <1>5, Moved DEF SlotInv

\* The end of a handshake
LEMMA HandshakenSlots ==
  ASSUME SlotInv, NEW s \in Socket, NEW conn \in Conn, Handshaken(s, conn),
         sock[s].at \in Before, conn.at \in {"ended", "piped"},
         conn.socket = sock[s].socket, ~conn.released
  PROVE  SockType' /\ SlotState' /\ SlotsExact' /\ Holders' \subseteq Holders
<1> USE DEF SlotInv
<1>1. sock[s] \in Conn /\ ~sock[s].released /\ Holds(sock[s]) /\ reservations \in Nat
  BY HoldersFinite DEF SockType, SlotState, SlotsExact, Holds, Before
<1>2. CASE sock[s].socket = "open"
  <2>1. SetSock(s, conn) /\ UNCHANGED reservations
    BY <1>2 DEF Handshaken
  <2>2. WellFormed(conn) /\ Holds(conn)
    BY <1>2 DEF WellFormed, Holds
  <2> QED BY <1>1, <2>1, <2>2, Kept
<1>3. CASE sock[s].socket # "open"
  <2> DEFINE end == IF sock[s].socket = "closed" THEN Fresh
                    ELSE [conn EXCEPT !.at = "ended", !.released = TRUE]
  <2>1. SetSock(s, end) /\ reservations' = reservations - 1
    BY <1>1, <1>3 DEF Handshaken, Released
  <2>2. CASE sock[s].socket = "closed"
    <3>1. end \in Conn /\ WellFormed(end) /\ ~Holds(end)
      BY <2>2, FreshType DEF WellFormed, Holds, Fresh
    <3>2. reservations' = reservations + Slot(end) - Slot(sock[s])
      BY <1>1, <2>1, <3>1 DEF Slot
    <3> HIDE DEF end
    <3>3. /\ SockType' /\ SlotState' /\ SlotsExact'
          /\ Holders' = IF Holds(end) THEN Holders \cup {s} ELSE Holders \ {s}
      BY <2>1, <3>1, <3>2, Moved
    <3> QED BY <3>1, <3>3
  <2>3. CASE sock[s].socket # "closed"
    <3>1. end = [conn EXCEPT !.at = "ended", !.released = TRUE]
      BY <2>3
    <3>2. sock[s].socket = "destroyed" /\ "ended" \in Stage
      BY <1>1, <1>3, <2>3 DEF Conn, Stage
    <3>3. end \in Conn /\ end.at = "ended" /\ end.released /\ end.socket = "destroyed"
      BY <3>1, <3>2 DEF Conn
    <3>4. WellFormed(end) /\ ~Holds(end)
      BY <3>3 DEF WellFormed, Holds
    <3>5. reservations' = reservations + Slot(end) - Slot(sock[s])
      BY <1>1, <2>1, <3>4 DEF Slot
    <3> HIDE DEF end
    <3>6. /\ SockType' /\ SlotState' /\ SlotsExact'
          /\ Holders' = IF Holds(end) THEN Holders \cup {s} ELSE Holders \ {s}
      BY <2>1, <3>3, <3>4, <3>5, Moved
    <3> QED BY <3>4, <3>6
  <2> QED BY <2>2, <2>3
<1> QED BY <1>2, <1>3

\* A step of a connection keeps the counter exact, and only Accept takes a slot.
LEMMA SockStepSlots ==
  ASSUME SlotInv, NEW s \in Socket, SockStep(s)
  PROVE  /\ SockType' /\ SlotState' /\ SlotsExact'
         /\ Accept(s) \/ Holders' \subseteq Holders
<1> DEFINE Goal == SockType' /\ SlotState' /\ SlotsExact'
<1> DEFINE c == sock[s]
<1>0. /\ c \in Conn /\ WellFormed(c) /\ reservations \in Nat
      /\ gen \in 0..MaxGen /\ saved.country \in Country \cup {Rec}
      /\ pass \in Mozilla \cup {Nobody}
  BY HoldersFinite DEF SlotInv, SockType, SlotState, WellFormed, SlotsExact, FlowType, Credential
<1> HIDE DEF c
<1>c. c = sock[s]
  BY DEF c
\* A handshake that goes on
<1>g. ASSUME NEW conn \in Conn, c.at \in Before, conn.at \in Before,
             conn.socket = c.socket, conn.released = c.released,
             SetSock(s, conn), UNCHANGED reservations
      PROVE  Goal /\ Holders' = Holders
  <2>1. WellFormed(conn) /\ (Holds(conn) <=> Holds(c))
    BY <1>0, <1>g DEF WellFormed, Holds, Before
  <2> QED BY <1>c, <1>g, <2>1, Kept
<1>1. CASE Accept(s)
  <2> DEFINE conn == [Fresh EXCEPT !.at = "reading"]
  <2>1. /\ conn \in Conn /\ conn.at = "reading" /\ conn.socket = "open" /\ ~conn.released
    BY FreshType DEF Fresh, Conn, Stage, Before
  <2>2. SetSock(s, conn) /\ reservations' = reservations + 1 /\ c.at = "free"
    BY <1>1, <1>c DEF Accept, In
  <2> HIDE DEF conn
  <2>3. WellFormed(conn) /\ Holds(conn) /\ ~Holds(c)
    BY <2>1, <2>2 DEF WellFormed, Holds
  <2>4. reservations' = reservations + Slot(conn) - Slot(c)
    BY <1>0, <2>2, <2>3 DEF Slot
  <2> QED BY <1>1, <1>c, <2>1, <2>2, <2>3, <2>4, Moved DEF SlotInv
<1>h. ASSUME NEW at \in {"ended", "piped"}, c.at \in Before,
             Handshaken(s, [sock[s] EXCEPT !.at = at])
      PROVE  Goal /\ Holders' \subseteq Holders
  <2> DEFINE conn == [sock[s] EXCEPT !.at = at]
  <2>1. at \in Stage /\ ~c.released
    BY <1>0, <1>h DEF Stage, WellFormed, Before
  <2>2. conn \in Conn /\ conn.at = at /\ conn.socket = c.socket /\ ~conn.released
    BY <1>0, <1>c, <2>1 DEF Conn
  <2> HIDE DEF conn
  <2>3. Handshaken(s, conn)
    BY <1>h DEF conn
  <2> QED BY <1>c, <1>h, <2>2, <2>3, HandshakenSlots
<1>2. CASE HandshakeFails(s)
  <2>1. c.at \in Before /\ Handshaken(s, [sock[s] EXCEPT !.at = "ended"])
    BY <1>2, <1>c DEF HandshakeFails, FailHandshake, In, Before
  <2> QED BY <1>h, <2>1
<1>3. CASE OpenTunnel(s)
  <2>1. c.at = "reading" /\ AskPass(s, [sock[s] EXCEPT !.gen = gen], "token", "server")
    BY <1>3, <1>c DEF OpenTunnel, In
  <2> DEFINE begun == [sock[s] EXCEPT !.gen = gen]
  <2>2. begun \in Conn /\ begun.socket = c.socket /\ begun.released = c.released
    BY <1>0, <1>c DEF Conn
  <2>3. AskPass(s, begun, "token", "server") /\ {"token", "server"} \subseteq Stage \cap Before
    BY <2>1 DEF Stage, Before
  <2> HIDE DEF begun
  <2>4. CASE pass # Nobody
    <3> DEFINE conn == [begun EXCEPT !.at = "server", !.account = pass]
    <3>1. conn \in Conn /\ conn.at = "server" /\ conn.socket = c.socket /\ conn.released = c.released
      BY <1>0, <2>2, <2>3 DEF Conn
    <3>2. SetSock(s, conn) /\ UNCHANGED reservations
      BY <2>3, <2>4 DEF AskPass
    <3> HIDE DEF conn
    <3> QED BY <1>g, <2>1, <3>1, <3>2 DEF Before
  <2>5. CASE pass = Nobody
    <3> DEFINE conn == [begun EXCEPT !.at = "token"]
    <3>1. conn \in Conn /\ conn.at = "token" /\ conn.socket = c.socket /\ conn.released = c.released
      BY <2>2, <2>3 DEF Conn
    <3>2. SetSock(s, conn) /\ UNCHANGED reservations
      BY <2>3, <2>5 DEF AskPass
    <3> HIDE DEF conn
    <3> QED BY <1>g, <2>1, <3>1, <3>2 DEF Before
  <2> QED BY <2>4, <2>5
<1>4. CASE PickServer(s)
  <2> DEFINE conn == [sock[s] EXCEPT !.at = "open", !.country = saved.country]
  <2>1. c.at \in Before /\ UNCHANGED reservations /\ SetSock(s, conn)
    BY <1>4, <1>c DEF PickServer, In, Before
  <2>2. "open" \in Stage \cap Before
    BY DEF Stage, Before
  <2>3. conn \in Conn /\ conn.at = "open" /\ conn.socket = c.socket /\ conn.released = c.released
    BY <1>0, <1>c, <2>2 DEF Conn
  <2> HIDE DEF conn
  <2> QED BY <1>g, <2>1, <2>2, <2>3
<1>5. CASE Rejected(s)
  <2> DEFINE conn == [sock[s] EXCEPT !.at = "retoken"]
  <2>1. c.at \in Before /\ UNCHANGED reservations /\ SetSock(s, conn)
    BY <1>5, <1>c DEF Rejected, In, Before
  <2>2. "retoken" \in Stage \cap Before
    BY DEF Stage, Before
  <2>3. conn \in Conn /\ conn.at = "retoken" /\ conn.socket = c.socket /\ conn.released = c.released
    BY <1>0, <1>c, <2>2 DEF Conn
  <2> HIDE DEF conn
  <2> QED BY <1>g, <2>1, <2>2, <2>3
<1>6. CASE Opened(s)
  <2>1. c.at \in Before /\ Handshaken(s, [sock[s] EXCEPT !.at = "piped"])
    BY <1>6, <1>c DEF Opened, In, Before
  <2> QED BY <1>h, <2>1
<1>7. CASE Destroyed(s)
  <2> DEFINE at == IF c.at = "piped" THEN "ended" ELSE c.at
  <2> DEFINE conn == [sock[s] EXCEPT !.socket = "destroyed", !.at = at]
  <2>1. SetSock(s, conn) /\ UNCHANGED reservations /\ c.at # "free" /\ c.socket = "open"
    BY <1>7, <1>c DEF Destroyed, In
  <2>2. at \in Stage /\ at \notin {"free", "piped"}
    BY <1>0, <2>1 DEF Conn, Stage
  <2>3. /\ conn \in Conn /\ conn.at = at /\ conn.socket = "destroyed"
        /\ conn.released = c.released
    <3> HIDE DEF at
    <3> QED BY <1>0, <1>c, <2>2 DEF Conn
  <2>4. ~c.released
    BY <1>0, <2>1 DEF WellFormed
  <2> HIDE DEF conn, at
  <2>5. WellFormed(conn) /\ Holds(conn) /\ Holds(c)
    BY <2>1, <2>2, <2>3, <2>4 DEF WellFormed, Holds
  <2> QED BY <1>c, <2>1, <2>3, <2>5, Kept
<1>8. CASE Closed(s)
  <2>1. CASE c.at = "ended"
    <3>1. SetSock(s, Fresh) /\ reservations' = Released(s)
      BY <1>8, <1>c, <2>1 DEF Closed, In
    <3>2. WellFormed(Fresh) /\ ~Holds(Fresh)
      BY DEF WellFormed, Holds, Fresh
    <3>3. c.released \in BOOLEAN
      BY <1>0 DEF Conn
    <3>4. reservations' = reservations + Slot(Fresh) - Slot(c)
      BY <1>0, <1>c, <2>1, <3>1, <3>2, <3>3 DEF Released, Slot, Holds
    <3> QED BY <1>c, <3>1, <3>2, <3>4, FreshType, Moved DEF SlotInv
  <2>2. CASE c.at # "ended"
    <3> DEFINE conn == [sock[s] EXCEPT !.socket = "closed"]
    <3>1. SetSock(s, conn) /\ UNCHANGED reservations /\ c.socket = "destroyed"
      BY <1>8, <1>c, <2>2 DEF Closed, In
    <3>2. conn \in Conn /\ conn.at = c.at /\ conn.socket = "closed" /\ conn.released = c.released
      BY <1>0, <1>c DEF Conn
    <3> HIDE DEF conn
    <3>3. WellFormed(conn) /\ (Holds(conn) <=> Holds(c))
      BY <1>0, <2>2, <3>1, <3>2 DEF WellFormed, Holds
    <3> QED BY <1>c, <3>1, <3>2, <3>3, Kept
  <2> QED BY <2>1, <2>2
<1> QED BY <1>1, <1>2, <1>3, <1>4, <1>5, <1>6, <1>7, <1>8 DEF SockStep

\* The end of a refresh frees the slots of those it fails that are gone.
LEMMA ResumeSlots ==
  ASSUME SlotInv, NEW account \in Mozilla \cup {Nobody}, ResumeWaiters(account)
  PROVE  SockType' /\ SlotState' /\ SlotsExact' /\ Holders' \subseteq Holders
<1> USE DEF SlotInv
<1> DEFINE gone == IF account # Nobody THEN {} ELSE {s \in Waiters : sock[s].socket # "open"}
<1>1. SockType'
  BY ResumeType
<1>2. \A s \in Socket : sock'[s] = IF s \in Waiters THEN Resumed(s, account) ELSE sock[s]
  BY DEF ResumeWaiters
<1>3. ASSUME NEW s \in Waiters
      PROVE  /\ WellFormed(Resumed(s, account))
             /\ Holds(Resumed(s, account)) <=> s \notin gone
             /\ s \in Holders
  <2>1. /\ s \in Socket /\ sock[s] \in Conn /\ sock[s].at \in {"token", "retoken"}
        /\ ~sock[s].released /\ s \in Holders
    BY DEF Waiters, SockType, SlotState, Holders
  <2>2. CASE account # Nobody
    <3> DEFINE at == IF sock[s].at = "token" THEN "server" ELSE "reopen"
    <3>1. Resumed(s, account) = [sock[s] EXCEPT !.account = account, !.at = at]
      BY <2>2 DEF Resumed
    <3>2. at \in {"server", "reopen"} /\ s \notin gone
      BY <2>2
    <3> HIDE DEF at
    <3>3. Resumed(s, account).at = at /\ ~Resumed(s, account).released
      BY <2>1, <3>1 DEF Conn
    <3> QED BY <2>1, <3>2, <3>3 DEF WellFormed, Holds
  <2>3. CASE account = Nobody /\ sock[s].socket = "closed"
    <3>1. Resumed(s, account) = Fresh /\ s \in gone
      BY <2>3 DEF Resumed
    <3> QED BY <2>1, <3>1 DEF WellFormed, Holds, Fresh
  <2>4. CASE account = Nobody /\ sock[s].socket # "closed"
    <3> DEFINE released == sock[s].socket = "destroyed"
    <3>1. Resumed(s, account) = [sock[s] EXCEPT !.at = "ended", !.released = released]
      BY <2>4 DEF Resumed
    <3>2. (s \in gone <=> released) /\ released \in BOOLEAN
      BY <2>1, <2>4 DEF Conn
    <3>3. released => sock[s].socket = "destroyed"
      OBVIOUS
    <3> HIDE DEF released, gone
    <3>4. /\ Resumed(s, account).at = "ended" /\ Resumed(s, account).socket = sock[s].socket
          /\ Resumed(s, account).released = released
      BY <2>1, <3>1 DEF Conn
    <3> QED BY <2>1, <2>4, <3>2, <3>3, <3>4 DEF WellFormed, Holds
  <2> QED BY <2>2, <2>3, <2>4
<1>4. SlotState'
  BY <1>2, <1>3 DEF SlotState, WellFormed
<1>5. gone \subseteq Waiters /\ gone \subseteq Holders /\ Waiters \subseteq Socket
  BY <1>3 DEF Waiters
<1>6. Holders' = Holders \ gone
  <2>1. ASSUME NEW s \in Socket PROVE s \in Holders' <=> s \in Holders \ gone
    <3>1. s \in Holders' <=> Holds(sock'[s])
      BY DEF Holders, Holds
    <3>2. s \in Holders <=> Holds(sock[s])
      BY DEF Holders, Holds
    <3> HIDE DEF gone
    <3>3. CASE s \in Waiters
      BY <1>2, <1>3, <3>1, <3>3
    <3>4. CASE s \notin Waiters
      BY <1>2, <1>5, <3>1, <3>2, <3>4
    <3> QED BY <3>3, <3>4
  <2>2. Holders \subseteq Socket /\ Holders' \subseteq Socket
    BY DEF Holders
  <2> QED BY <2>1, <2>2
<1>7. reservations' = reservations - Cardinality(gone)
  <2>1. CASE account # Nobody
    <3>1. Cardinality(gone) = 0
      BY <2>1, FS_EmptySet
    <3>2. reservations' = reservations - 0
      BY <2>1 DEF ResumeWaiters
    <3> QED BY <3>1, <3>2
  <2>2. CASE account = Nobody
    BY <2>2 DEF ResumeWaiters
  <2> QED BY <2>1, <2>2
<1>8. Cardinality(Holders \ gone) = Cardinality(Holders) - Cardinality(Holders \cap gone)
  BY HoldersFinite, FS_Difference
<1>9. Holders \cap gone = gone
  BY <1>5
<1>10. SlotsExact'
  BY <1>6, <1>7, <1>8, <1>9 DEF SlotsExact
<1> QED BY <1>1, <1>4, <1>6, <1>10

\* Cutting the tunnels ends some connections and frees no slot.
LEMMA CutSlots ==
  ASSUME SlotInv, CloseTunnels, UNCHANGED reservations
  PROVE  SockType' /\ SlotState' /\ SlotsExact' /\ Holders' = Holders
<1> USE DEF SlotInv
<1>1. ASSUME NEW s \in Socket
      PROVE  /\ sock'[s] \in Conn /\ WellFormed(sock'[s])
             /\ Holds(sock'[s]) <=> Holds(sock[s])
  <2> DEFINE at == CutStage(sock[s].at)
  <2>1. sock[s] \in Conn /\ sock'[s] = [sock[s] EXCEPT !.at = at] /\ WellFormed(sock[s])
    BY DEF CloseTunnels, SockType, SlotState, WellFormed
  <2>2. /\ at \in Stage
        /\ at = sock[s].at \/ (sock[s].at = "piped" /\ at = "ended")
             \/ (sock[s].at \in {"open", "reopen"} /\ at = "cut")
    BY <2>1 DEF CutStage, Conn, Stage, Before
  <2> HIDE DEF at
  <2>3. /\ sock'[s] \in Conn /\ sock'[s].at = at
        /\ sock'[s].socket = sock[s].socket /\ sock'[s].released = sock[s].released
    BY <2>1, <2>2 DEF Conn
  <2> QED BY <2>1, <2>2, <2>3 DEF WellFormed, Holds
<1>2. SockType' /\ SlotState'
  BY <1>1 DEF CloseTunnels, SockType, SlotState, WellFormed
<1>3. Holders' = Holders
  BY <1>1 DEF Holders, Holds
<1> QED BY <1>2, <1>3 DEF SlotsExact

-----------------------------------------------------------------------------
(* The steps that are not a connection's *)

WriteStep == \E i \in NextWrite : BeginWrite(i) \/ \E ok \in BOOLEAN : EndWrite(i, ok)

PassStep == PassGranted \/ PassRefused

ControlStep == FirefoxCard \/ Reconnect \/ DropPass \/ SaveQuota \/ Checked

LEMMA WriteStepType == ASSUME FlowType, WriteStep PROVE FlowType'
<1>1. ASSUME NEW i \in NextWrite, BeginWrite(i) PROVE FlowType'
  <2>1. writes' \in Seq(QueuedWrite)
    BY <1>1, BegunQueue
  <2> QED BY <1>1, <2>1 DEF BeginWrite, FlowType
<1>2. ASSUME NEW i \in NextWrite, NEW ok \in BOOLEAN, EndWrite(i, ok) PROVE FlowType'
  <2>1. i = 1 /\ writes[1] \in QueuedWrite /\ writes' \in Seq(QueuedWrite)
    BY <1>2, EndedQueue
  <2>2. disk' \in Credential
    BY <1>2, <2>1 DEF EndWrite, FlowType, QueuedWrite
  <2>3. control' \in Control \cup {NoOperation}
    <3>1. control' \in {control, NoOperation, [op |-> "probe"]}
      BY <1>2 DEF EndWrite
    <3> QED BY <3>1 DEF FlowType, Control
  <2>4. assured' \in Credential \cup {NoOperation}
    BY <1>2 DEF EndWrite, FlowType
  <2>5. refresh' \in {refresh, NoOperation}
    BY <1>2 DEF EndWrite, ResumeWaiters
  <2> QED BY <1>2, <2>1, <2>2, <2>3, <2>4, <2>5 DEF EndWrite, FlowType
<1> QED BY <1>1, <1>2 DEF WriteStep

LEMMA PassStepType == ASSUME FlowType, PassStep PROVE FlowType'
<1>1. CASE PassGranted
  <2>1. writes' \in Seq(QueuedWrite)
    BY <1>1, PersistQueue DEF PassGranted, FlowType
  <2>2. refresh \in Refresh
    BY <1>1 DEF PassGranted, FlowType
  <2>3. refresh' \in Refresh /\ pass' \in Mozilla
    BY <1>1, <2>2 DEF PassGranted, Refresh
  <2> QED BY <1>1, <2>1, <2>3 DEF PassGranted, FlowType
<1>2. CASE PassRefused
  BY <1>2 DEF PassRefused, ResumeWaiters, FlowType
<1> QED BY <1>1, <1>2 DEF PassStep

\* What a control operation may do to what is saved and to what is queued
LEMMA ControlStepType == ASSUME FlowType, ControlStep PROVE FlowType'
<1> USE DEF FlowType
<1>p. ASSUME NEW data \in Credential, NEW g \in 0..MaxGen, SaveAndReport(data, g)
      PROVE  /\ writes' \in Seq(QueuedWrite) /\ saved' \in Credential
             /\ control' \in Control /\ assured' = NoOperation
  BY <1>p, PersistQueue DEF SaveAndReport, Control
<1>g. ASSUME NewGeneration PROVE gen + 1 \in 0..MaxGen /\ gen' \in 0..MaxGen
  BY <1>g, Names DEF NewGeneration
<1>o. ASSUME NEW op \in {"renew", "check", "quota"}, ControlGoes(op)
      PROVE  control' \in Control
  BY <1>o DEF ControlGoes, Control
<1>1. ASSUME NEW c \in Country \cup {Rec}, SetCountry(c) PROVE FlowType'
  <2>1. [saved EXCEPT !.country = c] \in Credential
    BY DEF Credential
  <2> QED BY <1>1, <1>g, <1>p, <2>1 DEF SetCountry, NewGeneration
<1>2. CASE LogoutAccount
  <2>1. Empty \in Credential
    BY DEF Empty, Credential
  <2> QED BY <1>2, <1>g, <1>p, <2>1 DEF LogoutAccount, NewGeneration
<1>3. CASE Renew \/ DropPass \/ Check
  BY <1>3, <1>o DEF Renew, DropPass, Check, ControlGoes
<1>4. ASSUME NEW o \in Owner, StartLogin(o) PROVE FlowType'
  BY <1>4 DEF StartLogin
<1>5. ASSUME NEW o \in Owner, NEW a \in Mozilla \cup {Nobody}, CompleteLogin(o, a)
      PROVE  FlowType'
  <2>1. [saved EXCEPT !.account = a] \in Credential
    BY DEF Credential
  <2> QED BY <1>5, <1>p, <2>1 DEF CompleteLogin
<1>6. CASE Reconnect
  BY <1>6, <1>g DEF Reconnect, NewGeneration, Control
<1>7. CASE SaveQuota
  <2>1. writes' \in Seq(QueuedWrite)
    BY <1>7, PersistQueue DEF SaveQuota
  <2> QED BY <1>7, <1>o, <2>1 DEF SaveQuota, ControlGoes
<1>8. CASE Checked
  BY <1>8, NewRefreshType DEF Checked
<1> QED BY <1>1, <1>2, <1>3, <1>4, <1>5, <1>6, <1>7, <1>8 DEF ControlStep, FirefoxCard

LEMMA ControlSock ==
  ASSUME ControlStep PROVE UNCHANGED reservations /\ (UNCHANGED sock \/ CloseTunnels)
BY DEF ControlStep, FirefoxCard, SetCountry, LogoutAccount, Renew, Check, StartLogin,
       CompleteLogin, Reconnect, DropPass, SaveQuota, Checked, NewGeneration, ControlGoes

LEMMA SameSock ==
  ASSUME SlotInv, UNCHANGED <<sock, reservations>>
  PROVE  SockType' /\ SlotState' /\ SlotsExact' /\ Holders' = Holders
<1>1. Holders' = Holders
  BY DEF Holders
<1> QED BY <1>1 DEF SlotInv, SockType, SlotState, SlotsExact

LEMMA RestartSlots ==
  ASSUME FlowType, Restarted
  PROVE  FlowType' /\ SockType' /\ SlotState' /\ SlotsExact' /\ Holders' = {}
<1>1. Holders' = {}
  BY DEF Restarted, Holders, Fresh
<1>2. SockType' /\ SlotState'
  BY FreshType DEF Restarted, SockType, SlotState, Fresh
<1>3. SlotsExact'
  BY <1>1, FS_EmptySet DEF Restarted, SlotsExact
<1>4. <<>> \in Seq(QueuedWrite) /\ 0 \in 0..MaxGen
  BY Names
<1>5. FlowType'
  BY <1>4 DEF Restarted, FlowType, Credential
<1> QED BY <1>1, <1>2, <1>3, <1>5

\* Every step keeps the counter exact, and is a step of the pool.
LEMMA SlotStep ==
  ASSUME SlotInv, [SidecarNext]_sidecarVars
  PROVE  SlotInv' /\ [Pool!PoolNext]_Holders
<1> USE DEF SlotInv
<1> DEFINE Goal == FlowType' /\ SockType' /\ SlotState' /\ SlotsExact'
\* Slots given back
<1>g. ASSUME Holders' \subseteq Holders PROVE [Pool!PoolNext]_Holders
  <2> DEFINE C == Holders \ Holders'
  <2>1. C \in SUBSET Holders /\ Holders' = Holders \ C
    BY <1>g
  <2>2. Pool!Give(C)
    BY <2>1 DEF Pool!Give
  <2> HIDE DEF C
  <2> QED BY <2>1, <2>2 DEF Pool!PoolNext
<1>1. ASSUME NEW s \in Socket, SockStep(s) PROVE Goal /\ [Pool!PoolNext]_Holders
  <2>1. Goal /\ (Accept(s) \/ Holders' \subseteq Holders)
    BY <1>1, SockStepSlots, SockStepQuiet, QuietType
  <2>2. ASSUME Accept(s) PROVE Pool!PoolNext
    <3>1. s \notin Holders /\ Cardinality(Holders) < Limit
      BY <2>2 DEF Accept, In, Holders, SlotsExact
    <3>2. sock'[s].at = "reading" /\ ~sock'[s].released
            /\ \A o \in Socket \ {s} : sock'[o] = sock[o]
      BY <2>2 DEF Accept, SetSock, SockType, Fresh
    <3>3. Holders' = Holders \cup {s}
      BY <3>2 DEF Holders
    <3>4. Pool!Cardinality(Holders) = Cardinality(Holders)
      BY DEF Pool!Cardinality, Cardinality
    <3>5. Pool!Take(s)
      BY <3>1, <3>3, <3>4 DEF Pool!Take
    <3> QED BY <3>5 DEF Pool!PoolNext
  <2> QED BY <1>g, <2>1, <2>2
<1>2. ASSUME WriteStep PROVE Goal /\ [Pool!PoolNext]_Holders
  <2>1. FlowType'
    BY <1>2, WriteStepType
  <2>2. (SockType' /\ SlotState' /\ SlotsExact' /\ Holders' = Holders)
          \/ \E account \in Mozilla \cup {Nobody} : ResumeWaiters(account)
    <3>1. ASSUME NEW i \in NextWrite, BeginWrite(i) PROVE UNCHANGED <<sock, reservations>>
      BY <3>1 DEF BeginWrite
    <3>2. ASSUME NEW i \in NextWrite, NEW ok \in BOOLEAN, EndWrite(i, ok)
          PROVE  UNCHANGED <<sock, reservations>>
                   \/ \E account \in Mozilla \cup {Nobody} : ResumeWaiters(account)
      <4>1. CASE writes[i].by = "job" /\ refresh # NoOperation /\ refresh.at = "saving"
        <5>1. refresh.account \in Mozilla
          BY <4>1 DEF FlowType, Refresh
        <5>2. ResumeWaiters(IF ok THEN refresh.account ELSE Nobody)
          BY <3>2, <4>1 DEF EndWrite
        <5> QED BY <5>1, <5>2
      <4>2. CASE ~(writes[i].by = "job" /\ refresh # NoOperation /\ refresh.at = "saving")
        BY <3>2, <4>2 DEF EndWrite
      <4> QED BY <4>1, <4>2
    <3> QED BY <1>2, <3>1, <3>2, SameSock DEF WriteStep
  <2> QED BY <1>g, <2>1, <2>2, ResumeSlots
<1>3. ASSUME PassStep PROVE Goal /\ [Pool!PoolNext]_Holders
  <2>1. FlowType'
    BY <1>3, PassStepType
  <2>2. UNCHANGED <<sock, reservations>> \/ ResumeWaiters(Nobody)
    BY <1>3 DEF PassStep, PassGranted, PassRefused
  <2> QED BY <1>g, <2>1, <2>2, ResumeSlots, SameSock
<1>4. ASSUME ControlStep PROVE Goal /\ [Pool!PoolNext]_Holders
  BY <1>4, <1>g, ControlStepType, ControlSock, SameSock, CutSlots
<1>5. ASSUME Restarted PROVE Goal /\ [Pool!PoolNext]_Holders
  BY <1>5, <1>g, RestartSlots
<1>6. ASSUME UNCHANGED sidecarVars PROVE Goal /\ [Pool!PoolNext]_Holders
  <2>1. FlowType'
    BY <1>6 DEF FlowType, sidecarVars, accountVars
  <2> QED BY <1>6, <1>g, <2>1, SameSock DEF sidecarVars
<1>7. \/ \E s \in Socket : SockStep(s)
      \/ WriteStep \/ PassStep \/ ControlStep \/ Restarted \/ UNCHANGED sidecarVars
  BY DEF SidecarNext, SockStep, WriteStep, PassStep, ControlStep
<1> QED BY <1>1, <1>2, <1>3, <1>4, <1>5, <1>6, <1>7

LEMMA SidecarStart == SidecarInit => SlotInv /\ Holders = {}
<1> SUFFICES ASSUME SidecarInit PROVE SlotInv /\ Holders = {}
  OBVIOUS
<1> USE DEF SidecarInit
<1>1. Holders = {}
  BY DEF Holders, Fresh
<1>2. SockType /\ SlotState
  BY FreshType DEF SockType, SlotState, Fresh
<1>3. Empty \in Credential /\ <<>> \in Seq(QueuedWrite) /\ 0 \in 0..MaxGen
  BY Names DEF Empty, Credential
<1>4. FlowType
  BY <1>3 DEF FlowType
<1> QED BY <1>1, <1>2, <1>4, FS_EmptySet DEF SlotInv, SlotsExact

LEMMA SlotInvariant == SidecarSpec => []SlotInv
<1>1. SlotInv /\ [SidecarNext]_sidecarVars => SlotInv'
  BY SlotStep
<1>2. SidecarInit => SlotInv
  BY SidecarStart
<1> QED BY <1>1, <1>2, PTL DEF SidecarSpec

\* The sidecar's variables are of their types; the counter of SOCKS clients never
\* passes the number of connections.
THEOREM SidecarTypeCorrect == SidecarSpec => []SidecarType
<1>1. SlotInv => SidecarType
  <2> SUFFICES ASSUME SlotInv PROVE SidecarType
    OBVIOUS
  <2>1. Holders \in SUBSET Socket
    BY DEF Holders
  <2>2. Cardinality(Holders) <= Cardinality(Socket) /\ Cardinality(Socket) \in Nat
    BY <2>1, Names, FS_Subset, FS_CardinalityType
  <2>3. reservations \in 0..Cardinality(Socket)
    BY <2>2, HoldersFinite DEF SlotInv, SlotsExact
  <2> QED BY <2>3 DEF SlotInv, FlowType, SockType, SidecarType, Refresh, Control
<1> QED BY <1>1, SlotInvariant, PTL

\* The counter of SOCKS clients is exact, whatever way a handshake, its client, its
\* tunnel or the refresh it waits for ends first (service.mjs:187-209).
THEOREM SlotsExactAlways == SidecarSpec => []SlotsExact
<1>1. SlotInv => SlotsExact
  BY DEF SlotInv
<1> QED BY <1>1, SlotInvariant, PTL

\* The sidecar's clients implement a pool of Limit slots (service.mjs:189).
THEOREM PoolTheorem == SidecarSpec => BoundedSlots
<1>1. SidecarInit => Pool!PoolInit
  BY SidecarStart DEF Pool!PoolInit
<1>2. SlotInv /\ [SidecarNext]_sidecarVars => [Pool!PoolNext]_Holders
  BY SlotStep
<1> QED BY <1>1, <1>2, SlotInvariant, PTL DEF SidecarSpec, BoundedSlots, Pool!PoolSpec

-----------------------------------------------------------------------------
(* Nothing outlives the change that was to end it *)

\* A connection whose tunnel, if it is being opened, was asked for under the
\* program's generation leaves through the chosen country.
UpToDate(c) ==
    /\ c.gen <= gen
    /\ c.at \in Opening /\ c.gen = gen => c.country = saved.country
    /\ c.at = "piped" => c.gen = gen

RefreshCurrent ==
    refresh # NoOperation =>
        /\ refresh.gen <= gen
        /\ refresh.gen = gen => refresh.account = saved.account

PassCurrent == pass # Nobody => pass = saved.account

LEMMA CurrentParts ==
  /\ NewInvalidatesOld <=> RefreshCurrent /\ \A s \in Socket : UpToDate(sock[s])
  /\ NewInvalidatesOld /\ PassCurrent => OnlyCurrent
  /\ OnlyCurrent => PassCurrent
BY DEF NewInvalidatesOld, RefreshCurrent, UpToDate, OnlyCurrent, PassCurrent, TunnelCurrent, In,
       Opening

\* A step of a connection leaves it current.
LEMMA SockStepCurrent ==
  ASSUME CurrentInv, NEW s \in Socket, SockStep(s)
  PROVE  RefreshCurrent' /\ PassCurrent' /\ \A o \in Socket : UpToDate(sock[o])'
<1> USE DEF CurrentInv, SlotInv
<1>0. /\ gen \in Nat /\ sock[s] \in Conn /\ sock[s].gen \in Nat /\ UpToDate(sock[s])
      /\ PassCurrent /\ RefreshCurrent
  BY CurrentParts DEF FlowType, SockType, Conn
<1>1. Quiet
  BY SockStepQuiet
<1>2. RefreshCurrent'
  <2>1. CASE refresh' = refresh
    BY <1>0, <1>1, <2>1 DEF Quiet, RefreshCurrent
  <2>2. CASE refresh' # refresh
    <3>1. refresh' = NewRefresh /\ saved.account # Nobody
      BY <1>1, <2>2 DEF Quiet
    <3> QED BY <1>0, <1>1, <3>1, NewRefreshType DEF Quiet, RefreshCurrent
  <2> QED BY <2>1, <2>2
<1>3. PassCurrent'
  BY <1>0, <1>1 DEF Quiet, PassCurrent
<1>4. gen' = gen /\ saved' = saved
  BY <1>1 DEF Quiet
\* What is asked of the new value of the connection
<1>f. UpToDate(Fresh)
  BY <1>0 DEF UpToDate, Fresh, Opening
<1>e. UpToDate([sock[s] EXCEPT !.at = "ended"])
        /\ UpToDate([sock[s] EXCEPT !.at = "ended", !.released = TRUE])
        /\ \A at : UpToDate([[sock[s] EXCEPT !.at = at] EXCEPT !.at = "ended", !.released = TRUE])
  BY <1>0 DEF UpToDate, Conn, Opening
<1>h. ASSUME NEW at \in {"ended", "piped"}, Handshaken(s, [sock[s] EXCEPT !.at = at]),
             UpToDate([sock[s] EXCEPT !.at = at])
      PROVE  \E conn : SetSock(s, conn) /\ UpToDate(conn)
  BY <1>h, <1>e, <1>f DEF Handshaken
<1>5. \E conn : SetSock(s, conn) /\ UpToDate(conn)
  <2>1. CASE Accept(s)
    <3>1. UpToDate([Fresh EXCEPT !.at = "reading"])
      BY <1>0 DEF UpToDate, Fresh, Opening
    <3> QED BY <2>1, <3>1 DEF Accept
  <2>2. CASE HandshakeFails(s)
    BY <2>2, <1>e, <1>h DEF HandshakeFails, FailHandshake
  <2>3. CASE OpenTunnel(s)
    <3> DEFINE begun == [sock[s] EXCEPT !.gen = gen]
    <3>1. UpToDate([begun EXCEPT !.at = "server", !.account = pass])
            /\ UpToDate([begun EXCEPT !.at = "token"])
      BY <1>0 DEF UpToDate, Conn, Opening
    <3>2. AskPass(s, begun, "token", "server")
      BY <2>3 DEF OpenTunnel
    <3> HIDE DEF begun
    <3> QED BY <3>1, <3>2 DEF AskPass
  <2>4. CASE PickServer(s)
    <3>1. UpToDate([sock[s] EXCEPT !.at = "open", !.country = saved.country])
      BY <1>0 DEF UpToDate, Conn, Opening
    <3> QED BY <2>4, <3>1 DEF PickServer
  <2>5. CASE Rejected(s)
    <3>1. sock[s].at = "open"
      BY <2>5 DEF Rejected, In
    <3>2. UpToDate([sock[s] EXCEPT !.at = "retoken"])
      BY <1>0, <3>1 DEF UpToDate, Conn, Opening
    <3> QED BY <2>5, <3>2 DEF Rejected
  <2>6. CASE Opened(s)
    <3>1. sock[s].at \in {"open", "reopen"} /\ sock[s].gen = gen
      BY <2>6 DEF Opened, OpenCurrent, In
    <3>2. UpToDate([sock[s] EXCEPT !.at = "piped"])
      BY <1>0, <3>1 DEF UpToDate, Conn, Opening
    <3> QED BY <2>6, <1>h, <3>2 DEF Opened
  <2>7. CASE Destroyed(s)
    <3> DEFINE at == IF sock[s].at = "piped" THEN "ended" ELSE sock[s].at
    <3>1. at \notin {"piped"} /\ (at \in Opening => at = sock[s].at)
      BY DEF Opening
    <3>2. SetSock(s, [sock[s] EXCEPT !.socket = "destroyed", !.at = at])
      BY <2>7 DEF Destroyed
    <3> HIDE DEF at
    <3>3. UpToDate([sock[s] EXCEPT !.socket = "destroyed", !.at = at])
      BY <1>0, <3>1 DEF UpToDate, Conn
    <3> QED BY <3>2, <3>3
  <2>8. CASE Closed(s)
    <3>1. UpToDate([sock[s] EXCEPT !.socket = "closed"])
      BY <1>0 DEF UpToDate, Conn
    <3> QED BY <2>8, <1>f, <3>1 DEF Closed
  <2> QED BY <2>1, <2>2, <2>3, <2>4, <2>5, <2>6, <2>7, <2>8 DEF SockStep
<1>6. ASSUME NEW o \in Socket PROVE UpToDate(sock[o])'
  <2>1. PICK conn : SetSock(s, conn) /\ UpToDate(conn)
    BY <1>5
  <2>2. sock'[o] = IF o = s THEN conn ELSE sock[o]
    BY <2>1 DEF SetSock, SockType
  <2>3. UpToDate(sock[o])
    BY CurrentParts
  <2> QED BY <1>4, <2>1, <2>2, <2>3 DEF UpToDate
<1> QED BY <1>2, <1>3, <1>6

\* So do the end of a refresh and a new generation.
LEMMA ResumeCurrent ==
  ASSUME CurrentInv, UNCHANGED <<gen, saved>>,
         NEW account \in Mozilla \cup {Nobody}, ResumeWaiters(account)
  PROVE  RefreshCurrent' /\ \A s \in Socket : UpToDate(sock[s])'
<1>1. refresh' = NoOperation
  BY DEF ResumeWaiters
<1>2. ASSUME NEW s \in Socket PROVE UpToDate(sock[s])'
  <2>1. /\ sock[s] \in Conn /\ UpToDate(sock[s]) /\ gen \in Nat
        /\ sock'[s] = IF s \in Waiters THEN Resumed(s, account) ELSE sock[s]
    BY CurrentParts DEF CurrentInv, SlotInv, SockType, FlowType, ResumeWaiters
  <2>2. CASE s \notin Waiters
    BY <2>1, <2>2 DEF UpToDate
  <2>3. CASE s \in Waiters /\ account # Nobody
    <3> DEFINE at == IF sock[s].at = "token" THEN "server" ELSE "reopen"
    <3>1. sock'[s] = [sock[s] EXCEPT !.account = account, !.at = at]
      BY <2>1, <2>3 DEF Resumed
    <3>2. at # "piped" /\ (at \in Opening => sock[s].at \in Opening)
      BY <2>3 DEF Opening, Waiters
    <3> HIDE DEF at
    <3>3. sock'[s].at = at /\ sock'[s].gen = sock[s].gen /\ sock'[s].country = sock[s].country
      BY <2>1, <3>1 DEF Conn
    <3> QED BY <2>1, <3>2, <3>3 DEF UpToDate
  <2>4. CASE s \in Waiters /\ account = Nobody
    <3>1. sock'[s] = Fresh \/ (sock'[s].at = "ended" /\ sock'[s].gen = sock[s].gen)
      BY <2>1, <2>4 DEF Resumed, Conn
    <3>2. CASE sock'[s] = Fresh
      BY <2>1, <3>2 DEF UpToDate, Fresh, Opening
    <3> QED BY <2>1, <3>1, <3>2 DEF UpToDate, Opening
  <2> QED BY <2>2, <2>3, <2>4
<1> QED BY <1>1, <1>2 DEF RefreshCurrent

LEMMA GenerationCurrent ==
  ASSUME CurrentInv, NewGeneration
  PROVE  RefreshCurrent' /\ PassCurrent' /\ \A s \in Socket : UpToDate(sock[s])'
<1>0. gen \in Nat /\ gen' = gen + 1
  BY DEF CurrentInv, SlotInv, FlowType, NewGeneration
<1>1. RefreshCurrent'
  <2>1. refresh # NoOperation => refresh.gen \in Nat /\ refresh.gen <= gen
    BY CurrentParts DEF CurrentInv, SlotInv, FlowType, Refresh, RefreshCurrent
  <2>2. refresh' = refresh
    BY DEF NewGeneration
  <2> QED BY <1>0, <2>1, <2>2 DEF RefreshCurrent
<1>2. PassCurrent'
  BY DEF NewGeneration, PassCurrent
<1>3. ASSUME NEW s \in Socket PROVE UpToDate(sock[s])'
  <2> DEFINE at == CutStage(sock[s].at)
  <2>1. /\ sock[s] \in Conn /\ UpToDate(sock[s]) /\ sock[s].gen \in Nat
        /\ sock'[s] = [sock[s] EXCEPT !.at = at]
    BY CurrentParts DEF CurrentInv, SlotInv, SockType, Conn, NewGeneration, CloseTunnels
  <2>2. at # "piped"
    BY DEF CutStage
  <2> HIDE DEF at
  <2>3. sock'[s].at # "piped" /\ sock'[s].gen = sock[s].gen
    BY <2>1, <2>2 DEF Conn
  <2> QED BY <1>0, <2>1, <2>3 DEF UpToDate
<1> QED BY <1>1, <1>2, <1>3

\* So does a control operation, whether it begins a generation or not.
LEMMA ControlCurrent ==
  ASSUME CurrentInv, ControlStep
  PROVE  RefreshCurrent' /\ PassCurrent' /\ \A s \in Socket : UpToDate(sock[s])'
<1>0. PassCurrent /\ RefreshCurrent /\ \A s \in Socket : UpToDate(sock[s])
  BY CurrentParts DEF CurrentInv
<1>1. CASE NewGeneration
  BY <1>1, GenerationCurrent
<1>2. ASSUME UNCHANGED <<gen, saved, sock, refresh>>, pass' \in {pass, Nobody}
      PROVE  RefreshCurrent' /\ PassCurrent' /\ \A s \in Socket : UpToDate(sock[s])'
  BY <1>0, <1>2 DEF RefreshCurrent, PassCurrent, UpToDate
<1>3. CASE Checked
  <2>1. UNCHANGED <<gen, saved, sock, pass>>
    BY <1>3 DEF Checked
  <2>2. CASE refresh' = refresh
    BY <1>2, <2>1, <2>2
  <2>3. CASE refresh' # refresh
    <3>1. refresh' = NewRefresh /\ NewRefresh.gen = gen /\ NewRefresh.account = saved.account
      BY <1>3, <2>3, NewRefreshType DEF Checked, CurrentInv, SlotInv
    <3>2. gen \in Nat
      BY DEF CurrentInv, SlotInv, FlowType
    <3>3. RefreshCurrent'
      BY <2>1, <3>1, <3>2 DEF RefreshCurrent
    <3> QED BY <1>0, <2>1, <3>3 DEF PassCurrent, UpToDate
  <2> QED BY <2>2, <2>3
<1>4. ASSUME NEW o \in Owner, NEW a \in Mozilla \cup {Nobody}, CompleteLogin(o, a)
      PROVE  RefreshCurrent' /\ PassCurrent' /\ \A s \in Socket : UpToDate(sock[s])'
  <2>1. saved.account = Nobody /\ UNCHANGED <<gen, pass, refresh, sock>>
    BY <1>4 DEF CompleteLogin
  <2>2. saved'.country = saved.country
    BY <1>4 DEF CompleteLogin, SaveAndReport, CurrentInv, SlotInv, FlowType, Credential
  <2>3. refresh # NoOperation => refresh.account # Nobody
    BY Names DEF CurrentInv, SlotInv, FlowType, Refresh
  <2>4. RefreshCurrent'
    BY <1>0, <2>1, <2>3 DEF RefreshCurrent
  <2>5. PassCurrent'
    BY <1>0, <2>1 DEF PassCurrent
  <2> QED BY <1>0, <2>1, <2>2, <2>4, <2>5 DEF UpToDate
<1>5. CASE Renew \/ DropPass \/ Check \/ SaveQuota
  BY <1>2, <1>5 DEF Renew, DropPass, Check, SaveQuota, ControlGoes
<1>6. ASSUME NEW o \in Owner, StartLogin(o)
      PROVE  RefreshCurrent' /\ PassCurrent' /\ \A s \in Socket : UpToDate(sock[s])'
  BY <1>2, <1>6 DEF StartLogin
<1> QED
  BY <1>1, <1>3, <1>4, <1>5, <1>6 DEF ControlStep, FirefoxCard, SetCountry, LogoutAccount, Reconnect

LEMMA CurrentStep ==
  ASSUME CurrentInv, [SidecarNext]_sidecarVars PROVE CurrentInv'
<1> DEFINE Goal == RefreshCurrent' /\ PassCurrent' /\ \A s \in Socket : UpToDate(sock[s])'
<1>0. PassCurrent /\ RefreshCurrent /\ (\A s \in Socket : UpToDate(sock[s])) /\ SlotInv
  BY CurrentParts DEF CurrentInv
<1>s. SlotInv'
  BY <1>0, SlotStep
<1>1. ASSUME NEW s \in Socket, SockStep(s) PROVE Goal
  BY <1>1, SockStepCurrent
<1>u. ASSUME UNCHANGED <<gen, saved, pass, refresh, sock>> PROVE Goal
  BY <1>0, <1>u DEF RefreshCurrent, PassCurrent, UpToDate
<1>r. ASSUME UNCHANGED <<gen, saved, pass>>, NEW account \in Mozilla \cup {Nobody},
             ResumeWaiters(account)
      PROVE  Goal
  BY <1>0, <1>r, ResumeCurrent DEF PassCurrent
<1>2. ASSUME WriteStep PROVE Goal
  <2>1. UNCHANGED <<gen, saved, pass>>
    BY <1>2 DEF WriteStep, BeginWrite, EndWrite
  <2>2. UNCHANGED <<refresh, sock>>
          \/ \E account \in Mozilla \cup {Nobody} : ResumeWaiters(account)
    <3>1. ASSUME NEW i \in NextWrite, NEW ok \in BOOLEAN, EndWrite(i, ok)
          PROVE  UNCHANGED <<refresh, sock>>
                   \/ \E account \in Mozilla \cup {Nobody} : ResumeWaiters(account)
      <4>1. CASE writes[i].by = "job" /\ refresh # NoOperation /\ refresh.at = "saving"
        <5>1. refresh.account \in Mozilla
          BY <1>0, <4>1 DEF SlotInv, FlowType, Refresh
        <5>2. ResumeWaiters(IF ok THEN refresh.account ELSE Nobody)
          BY <3>1, <4>1 DEF EndWrite
        <5> QED BY <5>1, <5>2
      <4>2. CASE ~(writes[i].by = "job" /\ refresh # NoOperation /\ refresh.at = "saving")
        BY <3>1, <4>2 DEF EndWrite
      <4> QED BY <4>1, <4>2
    <3> QED BY <1>2, <3>1 DEF WriteStep, BeginWrite
  <2> QED BY <1>u, <1>r, <2>1, <2>2
<1>3. ASSUME PassGranted PROVE Goal
  <2>1. /\ refresh \in Refresh /\ refresh.account = saved.account
        /\ refresh # NoOperation /\ refresh.gen = gen
    BY <1>0, <1>3 DEF PassGranted, StillCurrent, SlotInv, FlowType, RefreshCurrent
  <2>2. /\ pass' = saved.account /\ UNCHANGED <<gen, saved, sock>>
        /\ refresh'.gen = refresh.gen /\ refresh'.account = refresh.account
    BY <1>3, <2>1 DEF PassGranted, Refresh
  <2>3. RefreshCurrent' /\ PassCurrent'
    BY <1>0, <2>1, <2>2 DEF RefreshCurrent, PassCurrent
  <2> QED BY <1>0, <2>2, <2>3 DEF UpToDate
<1>4. ASSUME PassRefused PROVE Goal
  BY <1>4, <1>r DEF PassRefused
<1>5. ASSUME ControlStep PROVE Goal
  BY <1>5, ControlCurrent
<1>6. ASSUME Restarted PROVE Goal
  <2>1. gen' = 0 /\ pass' = Nobody /\ refresh' = NoOperation /\ \A s \in Socket : sock'[s] = Fresh
    BY <1>6 DEF Restarted
  <2> QED BY <2>1 DEF RefreshCurrent, PassCurrent, UpToDate, Fresh, Opening
<1>7. ASSUME UNCHANGED sidecarVars PROVE Goal
  BY <1>7, <1>u DEF sidecarVars, accountVars
<1>8. Goal
  BY <1>1, <1>2, <1>3, <1>4, <1>5, <1>6, <1>7
  DEF SidecarNext, SockStep, WriteStep, PassStep, ControlStep
<1>9. NewInvalidatesOld' /\ OnlyCurrent'
  BY <1>8 DEF NewInvalidatesOld, RefreshCurrent, UpToDate, OnlyCurrent, PassCurrent, TunnelCurrent,
     In, Opening
<1> QED BY <1>s, <1>9 DEF CurrentInv

LEMMA CurrentInvariant == SidecarSpec => []CurrentInv
<1>1. SidecarInit => CurrentInv
  <2> SUFFICES ASSUME SidecarInit PROVE CurrentInv
    OBVIOUS
  <2>1. SlotInv
    BY SidecarStart
  <2>2. NewInvalidatesOld /\ OnlyCurrent
    BY DEF SidecarInit, NewInvalidatesOld, OnlyCurrent, Fresh, Opening, In
  <2> QED BY <2>1, <2>2 DEF CurrentInv
<1>2. CurrentInv /\ [SidecarNext]_sidecarVars => CurrentInv'
  BY CurrentStep
<1> QED BY <1>1, <1>2, PTL DEF SidecarSpec

\* A connected tunnel was asked for after the last change and leaves through the
\* chosen country, and a pass that is kept is the linked account's, across
\* refreshes, rejections, restarts and tunnels cut half way (service.mjs:54-99,
\* 150-158).
THEOREM OnlyCurrentAlways == SidecarSpec => []OnlyCurrent
<1>1. CurrentInv => OnlyCurrent
  BY DEF CurrentInv
<1> QED BY <1>1, CurrentInvariant, PTL

-----------------------------------------------------------------------------
(* What is reported as saved is on disk *)

\* A write in the queue, in a program of generation g that has `now' saved, runs
\* the operation op and has reported `told'
QueuedFor(w, g, now, op, told) ==
    /\ w.gen <= g
    /\ w.gen = g => w.data = now
    /\ w.by = "control" => w.gen = g /\ op = "persist"
    /\ w.by = "check" => op = "quota"
    /\ w.by # "control" => w.data.account # Nobody
    /\ told # NoOperation => w.data = told

Awaited(w) == w.by \in {"control", "check"}

AllQueued == \A i \in 1..Len(writes) : QueuedFor(writes[i], gen, saved, control.op, assured)

InOrder == \A i, j \in 1..Len(writes) : i < j => writes[i].gen <= writes[j].gen

OneAwaited == \A i, j \in 1..Len(writes) : Awaited(writes[i]) /\ Awaited(writes[j]) => i = j

SavedReported == assured # NoOperation => saved = assured

QueueInv == ReportedOnDisk /\ SavedReported /\ AllQueued /\ InOrder /\ OneAwaited

DiskInv == CurrentInv /\ QueueInv

\* Nothing is awaited but by the operation that waits.
LEMMA NobodyWaits ==
  ASSUME QueueInv, control.op \notin {"persist", "quota"}
  PROVE  \A i \in 1..Len(writes) : ~Awaited(writes[i])
BY DEF QueueInv, AllQueued, QueuedFor, Awaited

\* A write joins the queue: it fits, those before it still do, it is of the
\* current generation, and if it is awaited it is the only one.
LEMMA QueuePersist ==
  ASSUME FlowType, QueueInv, NEW data \in Credential, NEW g \in 0..MaxGen,
         NEW by \in {"control", "job", "check"}, Persist(data, g, by),
         gen <= g,
         \A i \in 1..Len(writes) : QueuedFor(writes[i], gen', saved', control'.op, assured'),
         \A w : w.data = data /\ w.gen = g /\ w.by = by =>
                  QueuedFor(w, gen', saved', control'.op, assured'),
         by # "job" => \A i \in 1..Len(writes) : ~Awaited(writes[i])
  PROVE  AllQueued' /\ InOrder' /\ OneAwaited'
<1> DEFINE new == [data |-> data, gen |-> g, by |-> by, begun |-> FALSE]
<1>1. PICK n \in Nat : n = Len(writes)
  BY DEF FlowType
<1>2. /\ Len(writes') = n + 1 /\ writes'[n + 1] = new
      /\ \A i \in 1..n : writes'[i] = writes[i]
  BY <1>1, PersistQueue
<1>3. new.data = data /\ new.gen = g /\ new.by = by
  OBVIOUS
<1> HIDE DEF new
<1>4. ASSUME NEW i \in 1..(n + 1) PROVE i \in 1..n \/ i = n + 1
  BY <1>1
<1>5. AllQueued'
  <2> SUFFICES ASSUME NEW i \in 1..(n + 1)
               PROVE  QueuedFor(writes'[i], gen', saved', control'.op, assured')
    BY <1>2 DEF AllQueued
  <2>1. CASE i \in 1..n
    BY <1>1, <1>2, <2>1
  <2>2. CASE i = n + 1
    BY <1>2, <1>3, <2>2
  <2> QED BY <1>4, <2>1, <2>2
<1>6. ASSUME NEW i \in 1..n
      PROVE  writes'[i].gen <= g /\ writes[i].gen \in Nat
  <2>1. writes[i] \in QueuedWrite
    BY <1>1, ElementOfSeq DEF FlowType
  <2>2. writes[i].gen <= gen
    BY <1>1 DEF QueueInv, AllQueued, QueuedFor
  <2> QED BY <1>2, <2>1, <2>2 DEF QueuedWrite, FlowType
<1>7. InOrder'
  <2> SUFFICES ASSUME NEW i \in 1..(n + 1), NEW j \in 1..(n + 1), i < j
               PROVE  writes'[i].gen <= writes'[j].gen
    BY <1>2 DEF InOrder
  <2>1. i \in 1..n
    BY <1>1
  <2>2. CASE j \in 1..n
    BY <1>1, <1>2, <2>1, <2>2 DEF QueueInv, InOrder
  <2>3. CASE j = n + 1
    BY <1>2, <1>3, <1>6, <2>1, <2>3
  <2> QED BY <1>4, <2>2, <2>3
<1>8. OneAwaited'
  <2> SUFFICES ASSUME NEW i \in 1..(n + 1), NEW j \in 1..(n + 1),
                      Awaited(writes'[i]), Awaited(writes'[j])
               PROVE  i = j
    BY <1>2 DEF OneAwaited
  <2>1. CASE i \in 1..n /\ j \in 1..n
    BY <1>1, <1>2, <2>1 DEF QueueInv, OneAwaited
  <2>2. CASE by = "job"
    <3>1. i # n + 1 /\ j # n + 1
      BY <1>2, <1>3, <2>2 DEF Awaited
    <3> QED BY <1>4, <2>1, <3>1
  <2>3. CASE by # "job"
    <3>1. i \notin 1..n /\ j \notin 1..n
      BY <1>1, <1>2, <2>3
    <3> QED BY <1>4, <3>1
  <2> QED BY <2>2, <2>3
<1> QED BY <1>5, <1>7, <1>8

\* Nothing that matters to the queue changes.
LEMMA SameQueue ==
  ASSUME QueueInv, UNCHANGED <<gen, saved, control, writes, disk, assured>> PROVE QueueInv'
BY DEF QueueInv, ReportedOnDisk, SavedReported, AllQueued, InOrder, OneAwaited

\* An operation that nobody waits for begins or ends.
LEMMA FreeQueue ==
  ASSUME QueueInv, control.op \notin {"persist", "quota"},
         UNCHANGED <<saved, writes, disk, assured>>, gen' = gen
  PROVE  QueueInv'
<1>1. \A i \in 1..Len(writes) : ~Awaited(writes[i])
  BY NobodyWaits
<1>2. AllQueued'
  BY <1>1 DEF QueueInv, AllQueued, QueuedFor, Awaited
<1> QED BY <1>2 DEF QueueInv, ReportedOnDisk, SavedReported, InOrder, OneAwaited

LEMMA WriteTypes ==
  ASSUME FlowType, NEW i \in 1..Len(writes)
  PROVE  writes[i] \in QueuedWrite /\ writes[i].gen \in Nat /\ writes[i].data \in Credential
<1>1. writes[i] \in QueuedWrite
  BY ElementOfSeq DEF FlowType
<1> QED BY <1>1 DEF QueuedWrite

\* After a new generation nothing queued is of the program's.
LEMMA OlderQueued ==
  ASSUME FlowType, QueueInv, control = NoOperation, NEW g, g = gen + 1,
         NEW now, NEW op, NEW told, told = NoOperation \/ told = assured,
         NEW i \in 1..Len(writes)
  PROVE  QueuedFor(writes[i], g, now, op, told)
<1>1. ~Awaited(writes[i])
  BY NobodyWaits, NoCredentialIsIdle
<1>2. writes[i].gen \in Nat /\ gen \in Nat
  BY WriteTypes DEF FlowType
<1>3. QueuedFor(writes[i], gen, saved, control.op, assured)
  BY DEF QueueInv, AllQueued
<1>4. writes[i].gen < g
  BY <1>2, <1>3 DEF QueuedFor
<1>5. ~(writes[i].gen = g) /\ writes[i].gen <= g
  BY <1>2, <1>4
<1> QED BY <1>1, <1>3, <1>5 DEF QueuedFor, Awaited

\* The head of the queue is written, and only it.
LEMMA WriteQueue == ASSUME DiskInv, WriteStep PROVE QueueInv'
<1> USE DEF DiskInv
<1>0. FlowType /\ NoOperation \notin Credential
  BY NoCredentialIsIdle DEF CurrentInv, SlotInv
<1>1. ASSUME NEW i \in NextWrite, BeginWrite(i) PROVE QueueInv'
  <2>1. /\ Len(writes') = Len(writes) /\ Len(writes) \in Nat /\ Len(writes) > 0
        /\ writes'[1] = [writes[1] EXCEPT !.begun = TRUE]
        /\ \A j \in 2..Len(writes) : writes'[j] = writes[j]
    <3>1. Len(writes) \in Nat
      BY <1>0 DEF FlowType
    <3> QED BY <1>0, <1>1, <3>1, BegunQueue
  <2>2. writes[1] \in QueuedWrite
    BY <1>0, <2>1, WriteTypes
  <2>3. writes'[1].gen = writes[1].gen /\ writes'[1].data = writes[1].data
          /\ writes'[1].by = writes[1].by
    BY <2>1, <2>2 DEF QueuedWrite
  <2>4. ASSUME NEW j \in 1..Len(writes)
        PROVE  writes'[j].gen = writes[j].gen /\ writes'[j].data = writes[j].data
                 /\ writes'[j].by = writes[j].by
    <3>1. j = 1 \/ j \in 2..Len(writes)
      BY <2>1
    <3> QED BY <2>1, <2>3, <3>1
  <2>5. UNCHANGED <<gen, saved, control, disk, assured>>
    BY <1>1 DEF BeginWrite
  <2>6. AllQueued' /\ InOrder' /\ OneAwaited'
    BY <2>1, <2>4, <2>5 DEF QueueInv, AllQueued, QueuedFor, InOrder, OneAwaited, Awaited
  <2> QED BY <2>5, <2>6 DEF QueueInv, ReportedOnDisk, SavedReported
<1>2. ASSUME NEW i \in NextWrite, NEW ok \in BOOLEAN, EndWrite(i, ok) PROVE QueueInv'
  <2> DEFINE w == writes[1]
  <2>1. PICK n \in Nat : n = Len(writes) /\ n > 0
    BY <1>0, <1>2, EndedQueue DEF FlowType
  <2>2. i = 1 /\ Len(writes') = n - 1 /\ \A j \in 1..(n - 1) : writes'[j] = writes[j + 1]
    BY <1>0, <1>2, <2>1, EndedQueue
  <2>3. UNCHANGED <<gen, saved>>
    BY <1>2 DEF EndWrite
  <2>4. /\ disk' = IF w.begun /\ ok THEN w.data ELSE disk
        /\ assured' = IF w.by = "control" /\ ok THEN saved ELSE assured
        /\ w.begun \/ w.gen # gen
        /\ w.by = "job" => control' = control
    BY <1>2, <2>2 DEF EndWrite
  <2>5. QueuedFor(w, gen, saved, control.op, assured)
    BY <2>1 DEF QueueInv, AllQueued
  <2>6. ReportedOnDisk' /\ SavedReported'
    <3>1. CASE w.by = "control" /\ ok
      <4>1. disk' = saved /\ assured' = saved
        BY <2>4, <2>5, <3>1 DEF QueuedFor
      <4> QED BY <2>3, <4>1 DEF ReportedOnDisk, SavedReported
    <3>2. CASE ~(w.by = "control" /\ ok)
      <4>1. assured' = assured /\ (assured # NoOperation => disk' = assured)
        BY <2>4, <2>5, <3>2 DEF QueuedFor, QueueInv, ReportedOnDisk
      <4> QED BY <2>3, <4>1 DEF QueueInv, ReportedOnDisk, SavedReported
    <3> QED BY <3>1, <3>2
  \* Those behind it
  <2>7. ASSUME NEW j \in 1..(n - 1)
        PROVE  /\ writes'[j] = writes[j + 1] /\ j + 1 \in 1..n
               /\ QueuedFor(writes[j + 1], gen, saved, control.op, assured)
               /\ w.gen <= writes[j + 1].gen
               /\ Awaited(w) => ~Awaited(writes[j + 1])
    <3>1. j + 1 \in 1..n /\ 1 \in 1..n /\ 1 < j + 1 /\ j + 1 # 1
      BY <2>1
    <3> QED BY <2>1, <2>2, <3>1 DEF QueueInv, AllQueued, InOrder, OneAwaited
  <2>8. AllQueued'
    <3> SUFFICES ASSUME NEW j \in 1..(n - 1)
                 PROVE  QueuedFor(writes'[j], gen', saved', control'.op, assured')
      BY <2>2 DEF AllQueued
    <3> DEFINE v == writes[j + 1]
    <3>1. QueuedFor(v, gen, saved, control.op, assured) /\ writes'[j] = v
      BY <2>7
    <3>2. Awaited(v) => control' = control
      <4>1. w.by \in {"control", "check", "job"}
        BY <1>0, <2>1, WriteTypes DEF QueuedWrite
      <4>2. Awaited(v) => ~Awaited(w)
        BY <2>7
      <4>3. ~Awaited(w) => w.by = "job"
        BY <4>1 DEF Awaited
      <4> QED BY <2>4, <4>2, <4>3
    <3>3. v.gen \in Nat /\ w.gen \in Nat /\ gen \in Nat
      BY <1>0, <2>1, <2>7, WriteTypes DEF FlowType
    <3>4. assured' # NoOperation => v.data = assured'
      <4>1. CASE w.by = "control" /\ ok
        <5>1. w.gen = gen /\ assured' = saved
          BY <2>4, <2>5, <4>1 DEF QueuedFor
        <5>2. v.gen <= gen
          BY <3>1 DEF QueuedFor
        <5>3. w.gen <= v.gen
          BY <2>7
        <5>4. v.gen = gen
          BY <3>3, <5>1, <5>2, <5>3
        <5> QED BY <3>1, <5>1, <5>4 DEF QueuedFor
      <4>2. CASE ~(w.by = "control" /\ ok)
        BY <2>4, <3>1, <4>2 DEF QueuedFor
      <4> QED BY <4>1, <4>2
    <3> HIDE DEF v
    <3> QED BY <2>3, <3>1, <3>2, <3>4 DEF QueuedFor, Awaited
  <2>9. InOrder'
    <3> SUFFICES ASSUME NEW j \in 1..(n - 1), NEW k \in 1..(n - 1), j < k
                 PROVE  writes'[j].gen <= writes'[k].gen
      BY <2>2 DEF InOrder
    <3>1. j + 1 \in 1..n /\ k + 1 \in 1..n /\ j + 1 < k + 1
      BY <2>1
    <3> QED BY <2>1, <2>2, <3>1 DEF QueueInv, InOrder
  <2>10. OneAwaited'
    <3> SUFFICES ASSUME NEW j \in 1..(n - 1), NEW k \in 1..(n - 1),
                        Awaited(writes'[j]), Awaited(writes'[k])
                 PROVE  j = k
      BY <2>2 DEF OneAwaited
    <3>1. j + 1 \in 1..n /\ k + 1 \in 1..n
      BY <2>1
    <3>2. j + 1 = k + 1
      BY <2>1, <2>2, <3>1 DEF QueueInv, OneAwaited
    <3> QED BY <2>1, <3>2
  <2> QED BY <2>6, <2>8, <2>9, <2>10 DEF QueueInv
<1> QED BY <1>1, <1>2 DEF WriteStep

\* The write of a refresh holds what is saved.
LEMMA PassQueue == ASSUME DiskInv, PassStep PROVE QueueInv'
<1> USE DEF DiskInv
<1>0. FlowType /\ RefreshCurrent
  BY CurrentParts DEF CurrentInv, SlotInv
<1>1. CASE PassRefused
  BY <1>1, SameQueue DEF PassRefused
<1>2. CASE PassGranted
  <2>1. UNCHANGED <<gen, saved, control, disk, assured>> /\ Persist(saved, gen, "job")
    BY <1>2 DEF PassGranted
  <2>2. saved.account # Nobody
    BY <1>0, <1>2, Names DEF PassGranted, StillCurrent, RefreshCurrent, FlowType, Refresh
  <2>3. \A i \in 1..Len(writes) : QueuedFor(writes[i], gen', saved', control'.op, assured')
    BY <2>1 DEF QueueInv, AllQueued
  <2>4. \A w : w.data = saved /\ w.gen = gen /\ w.by = "job" =>
                 QueuedFor(w, gen', saved', control'.op, assured')
    BY <1>0, <2>1, <2>2 DEF QueuedFor, QueueInv, SavedReported, FlowType
  <2>5. saved \in Credential /\ gen \in 0..MaxGen /\ gen <= gen
    BY <1>0 DEF FlowType
  <2>6. AllQueued' /\ InOrder' /\ OneAwaited'
    BY <1>0, <2>1, <2>3, <2>4, <2>5, QueuePersist
  <2> QED BY <2>1, <2>6 DEF QueueInv, ReportedOnDisk, SavedReported
<1> QED BY <1>1, <1>2 DEF PassStep

\* What an operation saves is queued behind older writes, which no longer matter,
\* and is not reported before it is written.
LEMMA ControlQueue == ASSUME DiskInv, ControlStep PROVE QueueInv'
<1> USE DEF DiskInv
<1>0. /\ FlowType /\ gen \in Nat /\ saved \in Credential
      /\ NoOperation.op = "idle" /\ FlowType'
  BY NoCredentialIsIdle, ControlStepType DEF CurrentInv, SlotInv, FlowType
\* An operation that saves under a new generation
<1>s. ASSUME NEW data \in Credential, NotBusy, NewGeneration, SaveAndReport(data, gen + 1)
      PROVE  QueueInv'
  <2>1. gen' = gen + 1 /\ gen' \in 0..MaxGen
    BY <1>0, <1>s DEF NewGeneration, FlowType
  <2>2. saved' = data /\ control'.op = "persist" /\ assured' = NoOperation
    BY <1>s DEF SaveAndReport
  <2>3. \A i \in 1..Len(writes) : QueuedFor(writes[i], gen', saved', control'.op, assured')
    BY <1>0, <1>s, <2>1, <2>2, OlderQueued DEF NotBusy
  <2>4. \A w : w.data = data /\ w.gen = gen' /\ w.by = "control" =>
                 QueuedFor(w, gen', saved', control'.op, assured')
    BY <2>1, <2>2 DEF QueuedFor
  <2>5. \A i \in 1..Len(writes) : ~Awaited(writes[i])
    BY <1>0, <1>s, NobodyWaits DEF NotBusy
  <2>6. Persist(data, gen', "control") /\ gen <= gen'
    BY <1>0, <1>s, <2>1 DEF SaveAndReport
  <2>7. AllQueued' /\ InOrder' /\ OneAwaited'
    BY <1>0, <2>1, <2>3, <2>4, <2>5, <2>6, QueuePersist
  <2> QED BY <2>2, <2>7 DEF QueueInv, ReportedOnDisk, SavedReported
<1>1. ASSUME NEW c \in Country \cup {Rec}, SetCountry(c) PROVE QueueInv'
  <2>1. [saved EXCEPT !.country = c] \in Credential
    BY <1>0 DEF Credential
  <2> QED BY <1>1, <1>s, <2>1 DEF SetCountry
<1>2. CASE LogoutAccount
  <2>1. Empty \in Credential
    BY DEF Empty, Credential
  <2> QED BY <1>2, <1>s, <2>1 DEF LogoutAccount
<1>3. ASSUME NEW o \in Owner, NEW a \in Mozilla \cup {Nobody}, CompleteLogin(o, a)
      PROVE  QueueInv'
  <2>1. UNCHANGED <<gen, disk>> /\ control = NoOperation /\ saved.account = Nobody
    BY <1>3 DEF CompleteLogin, NotBusy
  <2>2. CASE a = Nobody
    BY <1>3, <2>1, <2>2, SameQueue DEF CompleteLogin
  <2>3. CASE a # Nobody
    <3> DEFINE data == [saved EXCEPT !.account = a]
    <3>1. data \in Credential
      BY <1>0 DEF Credential
    <3>2. SaveAndReport(data, gen)
      BY <1>3, <2>3 DEF CompleteLogin
    <3> HIDE DEF data
    <3>3. /\ saved' = data /\ control'.op = "persist" /\ assured' = NoOperation
          /\ Persist(data, gen, "control") /\ gen \in 0..MaxGen /\ gen <= gen
      BY <1>0, <3>2 DEF SaveAndReport, FlowType
    <3>4. \A i \in 1..Len(writes) : ~Awaited(writes[i])
      BY <1>0, <2>1, NobodyWaits
    <3>5. \A i \in 1..Len(writes) : QueuedFor(writes[i], gen', saved', control'.op, assured')
      BY <2>1, <3>3, <3>4 DEF QueueInv, AllQueued, QueuedFor, Awaited
    <3>6. \A w : w.data = data /\ w.gen = gen /\ w.by = "control" =>
                   QueuedFor(w, gen', saved', control'.op, assured')
      BY <2>1, <3>3 DEF QueuedFor
    <3>7. AllQueued' /\ InOrder' /\ OneAwaited'
      BY <1>0, <3>1, <3>3, <3>4, <3>5, <3>6, QueuePersist
    <3> QED BY <3>3, <3>7 DEF QueueInv, ReportedOnDisk, SavedReported
  <2> QED BY <2>2, <2>3
<1>4. CASE Renew \/ DropPass \/ Check \/ Checked
  BY <1>0, <1>4, FreeQueue DEF Renew, DropPass, Check, Checked, ControlGoes, NotBusy
<1>5. ASSUME NEW o \in Owner, StartLogin(o) PROVE QueueInv'
  BY <1>5, SameQueue DEF StartLogin
<1>6. CASE Reconnect
  <2>1. /\ gen' = gen + 1 /\ control = NoOperation /\ UNCHANGED <<saved, writes, disk, assured>>
    BY <1>6 DEF Reconnect, NewGeneration, NotBusy
  <2>2. \A i \in 1..Len(writes) : QueuedFor(writes[i], gen', saved', control'.op, assured')
    BY <1>0, <2>1, OlderQueued
  <2> QED BY <2>1, <2>2 DEF QueueInv, ReportedOnDisk, SavedReported, AllQueued, InOrder, OneAwaited
<1>7. CASE SaveQuota
  <2>1. /\ UNCHANGED <<gen, saved, disk, assured>> /\ control.op = "check" /\ control'.op = "quota"
        /\ saved.account # Nobody /\ Persist(saved, gen, "check") /\ gen \in 0..MaxGen /\ gen <= gen
    BY <1>0, <1>7 DEF SaveQuota, ControlGoes, FlowType
  <2>2. \A i \in 1..Len(writes) : ~Awaited(writes[i])
    BY <2>1, NobodyWaits
  <2>3. \A i \in 1..Len(writes) : QueuedFor(writes[i], gen', saved', control'.op, assured')
    BY <2>1, <2>2 DEF QueueInv, AllQueued, QueuedFor, Awaited
  <2>4. \A w : w.data = saved /\ w.gen = gen /\ w.by = "check" =>
                 QueuedFor(w, gen', saved', control'.op, assured')
    BY <2>1 DEF QueuedFor, QueueInv, SavedReported
  <2>5. AllQueued' /\ InOrder' /\ OneAwaited'
    BY <1>0, <2>1, <2>2, <2>3, <2>4, QueuePersist
  <2> QED BY <2>1, <2>5 DEF QueueInv, ReportedOnDisk, SavedReported
<1> QED
  BY <1>1, <1>2, <1>3, <1>4, <1>5, <1>6, <1>7 DEF ControlStep, FirefoxCard

LEMMA DiskStep == ASSUME DiskInv, [SidecarNext]_sidecarVars PROVE DiskInv'
<1> USE DEF DiskInv
<1>0. CurrentInv'
  BY CurrentStep
<1>1. ASSUME NEW s \in Socket, SockStep(s) PROVE QueueInv'
  BY <1>1, SockStepQuiet, SameQueue DEF Quiet
<1>2. CASE Restarted
  <2>1. Len(writes') = 0 /\ saved' = disk /\ disk' = disk /\ assured' = assured
    BY <1>2 DEF Restarted
  <2> QED BY <1>0, <2>1 DEF QueueInv, ReportedOnDisk, SavedReported, AllQueued, InOrder, OneAwaited
<1>3. CASE UNCHANGED sidecarVars
  BY <1>0, <1>3, SameQueue DEF sidecarVars, accountVars
<1> QED
  BY <1>0, <1>1, <1>2, <1>3, WriteQueue, PassQueue, ControlQueue
  DEF SidecarNext, SockStep, WriteStep, PassStep, ControlStep

\* The account and the country an operation has reported are on disk, whatever
\* writes were queued before it and whatever is saved after, so the next start
\* reads them (service.mjs:17-23).
THEOREM ReportedOnDiskAlways == SidecarSpec => []ReportedOnDisk
<1>1. SidecarInit => QueueInv
  BY DEF SidecarInit, QueueInv, ReportedOnDisk, SavedReported, AllQueued, InOrder, OneAwaited
<1>2. CurrentInv /\ QueueInv /\ [SidecarNext]_sidecarVars => QueueInv'
  BY DiskStep DEF DiskInv
<1>3. QueueInv => ReportedOnDisk
  BY DEF QueueInv
<1> QED BY <1>1, <1>2, <1>3, CurrentInvariant, PTL DEF SidecarSpec

=============================================================================
