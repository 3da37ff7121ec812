----------------------- MODULE SessionReconcilerProofs -----------------------
(***************************************************************************)
(* Proofs about SessionReconciler, for every set of users, every number of *)
(* sessions and every value of the durations.                              *)
(***************************************************************************)
EXTENDS SessionReconciler, FiniteSetTheorems, WellFoundedInduction, TLAPS

\* The constants' types in the form the steps below use.
LEMMA Durations ==
    /\ MaxId \in Nat /\ MaxLimit \in Nat /\ MaxLimit >= 1 /\ MaxLinger \in Nat
    /\ Grace \in Nat /\ MaxLag \in Nat /\ None \in Int /\ None = -1
    /\ GraceCap \in Nat /\ RetryCap \in Nat
    /\ MaxLag <= GraceCap /\ MaxLag <= RetryCap
    /\ GraceCap = Grace + MaxLag /\ NoUser \notin User
  BY ReconcilerAssumption DEF None, GraceCap, RetryCap

\* A timestamp that ages stays within its cap and never becomes absent.
LEMMA LaterType ==
    ASSUME NEW cap \in Nat, NEW t \in None..cap
    PROVE  Later(t, cap) \in None..cap /\ (Later(t, cap) = None <=> t = None)
  BY DEF Later, None

\* Ageing keeps the order of two timestamps.
LEMMA LaterMonotone ==
    ASSUME NEW cap \in Nat, NEW s \in None..cap, NEW t \in None..cap, s <= t
    PROVE  Later(s, cap) <= Later(t, cap)
  BY DEF Later, None

-----------------------------------------------------------------------------

LEMMA NoFailureType == NoFailure \in [Id -> None..RetryCap] /\ NoFailure \in [Id -> None..MaxLinger]
  BY Durations DEF NoFailure, None

LEMMA InitTypeOK == Init => TypeOK
  <1> SUFFICES ASSUME Init PROVE TypeOK
    OBVIOUS
  <1> USE Durations, NoFailureType
  <1>1. row \in [User -> None..GraceCap] /\ since = row /\ over = row /\ firstOver = row
    BY DEF Init
  <1>2. failed \in [User -> [Id -> None..RetryCap]] /\ done \in [User -> SUBSET Id]
    BY DEF Init
  <1>3. sa \in [Id -> User \cup {NoUser}] /\ snap \in [Id -> User \cup {NoUser}]
    BY DEF Init
  <1>4. nextId \in 1..(MaxId + 1) /\ lag \in 0..MaxLag
    BY DEF Init
  <1>5. QED
    BY <1>1, <1>2, <1>3, <1>4 DEF Init, TypeOK

\* Whatever terminateIkeSession does, strongSwan's table stays well formed.
LEMMA TerminateType ==
    ASSUME TypeOK, NEW i \in Id, NEW ok \in BOOLEAN, Terminate(i, ok)
    PROVE  sa' \in [Id -> User \cup {NoUser}] /\ closing' \in [Id -> None..MaxLinger]
  <1> USE Durations
  <1>1. sa \in [Id -> User \cup {NoUser}] /\ closing \in [Id -> None..MaxLinger]
    BY DEF TypeOK
  <1>2. CASE sa' = [sa EXCEPT ![i] = NoUser] /\ closing' = [closing EXCEPT ![i] = None]
    BY <1>1, <1>2
  <1>3. CASE /\ sa' = sa /\ MaxLinger > 0
             /\ closing' = [closing EXCEPT ![i] = IF @ = None THEN 0 ELSE @]
    BY <1>1, <1>3
  <1>4. CASE UNCHANGED <<sa, closing>>
    BY <1>1, <1>4
  <1>5. QED
    BY <1>2, <1>3, <1>4 DEF Terminate

LEMMA LiveType == TypeOK => live \subseteq Id
  BY DEF live

LEMMA WorkerTypeOK == TypeOK /\ Worker => TypeOK'
  <1> SUFFICES ASSUME TypeOK, Worker PROVE TypeOK'
    OBVIOUS
  <1> USE Durations
  <1>1. ASSUME NEW ok \in BOOLEAN, ReadSas(ok) PROVE TypeOK'
    BY <1>1 DEF ReadSas, TypeOK, swanVars, rowVars, passVars, memoryVars, ghostVars
  <1>2. CASE ReadUsers
    BY <1>2 DEF ReadUsers, TypeOK, swanVars, rowVars, passVars, memoryVars, ghostVars
  <1>3. CASE AbortTick
    BY <1>3 DEF AbortTick, TypeOK, swanVars, rowVars, passVars, memoryVars, ghostVars
  <1>4. ASSUME NEW i \in Id, NEW ok \in BOOLEAN, CutSession(i, ok) PROVE TypeOK'
    <2>1. sa' \in [Id -> User \cup {NoUser}] /\ closing' \in [Id -> None..MaxLinger]
      BY <1>4, TerminateType DEF CutSession
    <2>2. QED
      BY <1>4, <2>1 DEF CutSession, TypeOK, rowVars, passVars, memoryVars
  <1>5. CASE StartReconcile
    <2>1. over' \in [User -> None..GraceCap] /\ firstOver' \in [User -> None..GraceCap]
      BY <1>5 DEF StartReconcile, TypeOK, Observed, None
    <2>2. since' \in [User -> None..GraceCap] /\ row' \in [User -> None..GraceCap]
      BY <1>5 DEF StartReconcile, TypeOK, None
    <2>3. /\ done' \in [User -> SUBSET Id] /\ failed' \in [User -> [Id -> None..RetryCap]]
          /\ \A u \in User : \A i \in done'[u] : failed'[u][i] = None
      BY <1>5 DEF StartReconcile, TypeOK, None
    <2>4. QED
      BY <1>5, <2>1, <2>2, <2>3 DEF StartReconcile, TypeOK, swanVars
  <1>6. ASSUME NEW u \in User, LeaveAlone(u) PROVE TypeOK'
    BY <1>6, NoFailureType
       DEF LeaveAlone, TypeOK, swanVars, tickVars, ghostVars, None
  <1>7. ASSUME NEW u \in User, InGrace(u) PROVE TypeOK'
    <2>1. since' \in [User -> None..GraceCap]
      BY <1>7 DEF InGrace, TypeOK, None
    <2>2. QED
      BY <1>7, <2>1 DEF InGrace, TypeOK, swanVars, rowVars, tickVars, ghostVars
  <1>8. ASSUME NEW u \in User, Enforce(u) PROVE TypeOK'
    <2>1. since' \in [User -> None..GraceCap]
      BY <1>8 DEF Enforce, TypeOK, None
    <2>2. cmds' \subseteq Id
      BY <1>8 DEF Enforce, Excess, Mine
    <2>3. QED
      BY <1>8, <2>1, <2>2 DEF Enforce, TypeOK, swanVars, rowVars, ghostVars
  <1>9. ASSUME NEW i \in Id, NEW ok \in BOOLEAN, Command(i, ok) PROVE TypeOK'
    <2>1. sa' \in [Id -> User \cup {NoUser}] /\ closing' \in [Id -> None..MaxLinger]
      BY <1>9, TerminateType DEF Command
    <2>2. done' \in [User -> SUBSET Id]
      BY <1>9 DEF Command, TypeOK
    <2>3. failed' \in [User -> [Id -> None..RetryCap]]
      <3> DEFINE t == FailedAt(ok)
      <3>1. t \in None..RetryCap
        BY DEF TypeOK, FailedAt
      <3>2. failed \in [User -> [Id -> None..RetryCap]] /\ cur \in User \cup {NoUser}
        BY DEF TypeOK
      <3>3. failed' = [failed EXCEPT ![cur] = [failed[cur] EXCEPT ![i] = t]]
        BY <1>9, <3>2 DEF Command
      <3> HIDE DEF t
      <3>4. CASE cur \in User
        BY <3>1, <3>2, <3>3, <3>4
      <3>5. CASE cur = NoUser
        BY <3>2, <3>3, <3>5
      <3>6. QED
        BY <3>2, <3>4, <3>5
    <2>4. acked' \subseteq Id
      BY <1>9 DEF Command, TypeOK
    <2>5. ASSUME NEW v \in User, NEW j \in done'[v] PROVE failed'[v][j] = None
      <3>1. CASE v # cur
        BY <1>9, <3>1 DEF Command, TypeOK
      <3>2. CASE v = cur /\ j # i
        BY <1>9, <3>2 DEF Command, TypeOK
      <3>3. CASE v = cur /\ j = i
        BY <1>9, <3>3 DEF Command, TypeOK, FailedAt
      <3>4. QED
        BY <3>1, <3>2, <3>3
    <2>6. QED
      BY <1>9, <2>1, <2>2, <2>3, <2>4, <2>5 DEF Command, TypeOK, rowVars, tickVars
  <1>10. CASE FinishUser
    BY <1>10 DEF FinishUser, TypeOK, swanVars, memoryVars, ghostVars
  <1>11. CASE EndPass
    BY <1>11 DEF EndPass, TypeOK, swanVars, rowVars, memoryVars, ghostVars
  <1>12. QED
    BY <1>1, <1>2, <1>3, <1>4, <1>5, <1>6, <1>7, <1>8, <1>9, <1>10, <1>11 DEF Worker

LEMMA EnvironmentTypeOK == TypeOK /\ Environment => TypeOK'
  <1> SUFFICES ASSUME TypeOK, Environment PROVE TypeOK'
    OBVIOUS
  <1> USE Durations
  <1>1. ASSUME NEW u \in User, Connect(u) PROVE TypeOK'
    <2>1. sa' \in [Id -> User \cup {NoUser}]
      BY <1>1 DEF Connect, TypeOK
    <2>2. nextId' \in 1..(MaxId + 1)
      BY <1>1 DEF Connect, TypeOK
    <2>3. QED
      BY <1>1, <2>1, <2>2 DEF Connect, TypeOK, rowVars, tickVars, passVars, memoryVars, ghostVars
  <1>2. ASSUME NEW i \in Id, Disconnect(i) PROVE TypeOK'
    BY <1>2 DEF Disconnect, TypeOK, None, rowVars, tickVars, passVars, memoryVars
  <1>3. CASE DaemonRestart
    BY <1>3, NoFailureType DEF DaemonRestart, TypeOK, rowVars, tickVars, passVars, memoryVars
  <1>4. ASSUME NEW u \in User, FlipEligible(u) PROVE TypeOK'
    BY <1>4 DEF FlipEligible, TypeOK, swanVars, tickVars, passVars, memoryVars, ghostVars
  <1>5. ASSUME NEW u \in User, NEW n \in 1..MaxLimit, SetLimit(u, n) PROVE TypeOK'
    BY <1>5 DEF SetLimit, TypeOK, swanVars, tickVars, passVars, memoryVars, ghostVars
  <1>6. ASSUME NEW u \in User, AdminDisconnect(u) PROVE TypeOK'
    <2>1. closing' \in [Id -> None..MaxLinger]
      BY <1>6 DEF AdminDisconnect, TypeOK, None
    <2>2. sa' \in [Id -> User \cup {NoUser}] /\ acked' \subseteq Id
      BY <1>6 DEF AdminDisconnect, TypeOK
    <2>3. QED
      BY <1>6, <2>1, <2>2 DEF AdminDisconnect, TypeOK, rowVars, tickVars, passVars, memoryVars
  <1>7. CASE PanelRestart
    <2>1. since' \in [User -> None..GraceCap] /\ done' \in [User -> SUBSET Id]
      BY <1>7 DEF PanelRestart, None
    <2>2. failed' \in [User -> [Id -> None..RetryCap]]
      BY <1>7, NoFailureType DEF PanelRestart
    <2>3. snap' \in [Id -> User \cup {NoUser}]
      BY <1>7 DEF PanelRestart
    <2>4. lag' \in 0..MaxLag /\ snapLimit' \in [User -> 1..MaxLimit]
      BY <1>7 DEF PanelRestart, TypeOK
    <2>5. QED
      BY <1>7, <2>1, <2>2, <2>3, <2>4 DEF PanelRestart, TypeOK, swanVars, rowVars, ghostVars
  <1>8. QED
    BY <1>1, <1>2, <1>3, <1>4, <1>5, <1>6, <1>7 DEF Environment

LEMMA ElapseTypeOK == TypeOK /\ Elapse => TypeOK'
  <1> SUFFICES ASSUME TypeOK, Elapse PROVE TypeOK'
    OBVIOUS
  <1> USE Durations
  <1>1. closing' \in [Id -> None..MaxLinger]
    BY DEF Elapse, TypeOK, None
  <1>2. lag' \in 0..MaxLag
    BY DEF Elapse, TypeOK
  <1>3. /\ row' \in [User -> None..GraceCap] /\ since' \in [User -> None..GraceCap]
        /\ over' \in [User -> None..GraceCap] /\ firstOver' \in [User -> None..GraceCap]
    BY LaterType DEF Elapse, TypeOK
  <1>4. /\ failed' \in [User -> [Id -> None..RetryCap]]
        /\ \A u \in User : \A i \in done[u] : failed'[u][i] = None
    BY LaterType DEF Elapse, TypeOK
  <1>5. QED
    BY <1>1, <1>2, <1>3, <1>4 DEF Elapse, TypeOK, tickVars

\* The state of the worker, of strongSwan and of the database stays well
\* formed through every failure and restart the model has.
THEOREM TypeCorrect == Spec => []TypeOK
  <1>1. TypeOK /\ [Next]_vars => TypeOK'
    <2>1. TypeOK /\ UNCHANGED vars => TypeOK'
      BY DEF TypeOK, vars, swanVars, rowVars, tickVars, passVars, memoryVars, ghostVars
    <2>2. QED
      BY <2>1, WorkerTypeOK, EnvironmentTypeOK, ElapseTypeOK DEF Next
  <1>2. QED
    BY <1>1, InitTypeOK, PTL DEF Spec

-----------------------------------------------------------------------------
(* The grace period.  Without panel restarts and database failures the      *)
(* reconciler's own timestamp never runs ahead of the history variable, nor *)
(* does the row it may be reloaded from.                                    *)

InPass == pc \in {"reconcile", "enforce"}

\* The inductive invariant behind GraceHonoured.  An account the pass has yet
\* to look at and will leave alone is exempt: its entry is about to go.
GraceInv ==
    /\ \A u \in User : row[u] # None => row[u] = since[u]
    /\ \A u \in User : (u \in todo /\ Within(u)) \/ since[u] <= over[u]
    /\ \A u \in todo : Within(u) \/ lag <= over[u]
    /\ todo # {} => InPass
    /\ pc # "enforce" => cmds = {}
    /\ pc = "enforce" => cur \in User /\ over[cur] - lag >= Grace
    /\ ~fresh => \A i \in Id : snap[i] = NoUser

\* Whether an account is within its limit is a matter of what tick has read.
LEMMA WithinUnchanged ==
    ASSUME UNCHANGED <<snap, snapEligible, snapLimit>>, NEW u
    PROVE  Mine(u)' = Mine(u) /\ Within(u)' = Within(u)
  BY DEF Mine, Within

\* A step that leaves the reconciler's timestamps and the pass alone.
LEMMA GraceInvFrame ==
    ASSUME GraceInv, UNCHANGED <<row, since, over, todo, lag, cmds, cur, snap, fresh, pc>>,
           todo # {} => UNCHANGED <<snapEligible, snapLimit>>
    PROVE  GraceInv'
  <1>1. \A u \in todo : Within(u)' = Within(u)
    BY WithinUnchanged
  <1>2. QED
    BY <1>1 DEF GraceInv, InPass

LEMMA GraceInvEnvironment ==
    ASSUME KillPoints = {}, GraceInv, Environment
    PROVE  GraceInv'
  <1>1. UNCHANGED <<row, since, over, todo, lag, cmds, cur, snap, fresh, pc, snapEligible, snapLimit>>
    BY DEF Environment, Connect, Disconnect, DaemonRestart, FlipEligible, SetLimit,
           AdminDisconnect, PanelRestart, rowVars, tickVars, passVars, memoryVars, ghostVars
  <1>2. QED
    BY <1>1, GraceInvFrame

LEMMA GraceInvElapse ==
    ASSUME TypeOK, GraceInv, Elapse
    PROVE  GraceInv'
  <1> USE Durations
  <1>1. UNCHANGED <<pc, snap, fresh, snapEligible, snapLimit, todo, cur, cmds>>
    BY DEF Elapse, tickVars
  <1>2. \A u \in User : Within(u)' = Within(u)
    BY <1>1, WithinUnchanged
  <1>3. lag' \in 0..MaxLag /\ (lag' = lag \/ lag' = lag + 1) /\ lag \in 0..MaxLag
    BY DEF Elapse, TypeOK
  <1>4. ASSUME NEW u \in User
        PROVE  /\ row'[u] # None => row'[u] = since'[u]
               /\ since[u] <= over[u] => since'[u] <= over'[u]
    BY LaterType, LaterMonotone DEF Elapse, TypeOK, GraceInv
  <1>5. ASSUME NEW u \in User, NEW d \in Nat, d <= Grace, over[u] - lag >= d
        PROVE  over'[u] - lag' >= d
    BY <1>3, <1>5 DEF Elapse, TypeOK, Later
  <1>6. ASSUME NEW u \in todo
        PROVE  Within(u)' \/ lag' <= over'[u]
    <2>1. u \in User /\ over[u] \in Int /\ over'[u] \in Int
      BY LaterType DEF TypeOK, Elapse
    <2>2. CASE Within(u)
      BY <2>1, <2>2, <1>2
    <2>3. CASE lag <= over[u]
      BY <1>3, <1>5, <2>1, <2>3
    <2>4. QED
      BY <2>2, <2>3 DEF GraceInv
  <1>7. QED
    BY <1>1, <1>2, <1>4, <1>5, <1>6 DEF GraceInv, InPass

LEMMA GraceInvWorker ==
    ASSUME ~DbFaults, TypeOK, GraceInv, Worker
    PROVE  GraceInv'
  <1> USE Durations
  <1>1. ASSUME NEW ok \in BOOLEAN, ReadSas(ok) PROVE GraceInv'
    <2>1. todo = {}
      BY <1>1 DEF GraceInv, InPass, ReadSas
    <2>2. QED
      BY <1>1, <2>1 DEF ReadSas, GraceInv, InPass, rowVars, passVars, memoryVars, ghostVars
  <1>2. CASE ReadUsers
    <2>1. todo = {}
      BY <1>2 DEF GraceInv, InPass, ReadUsers
    <2>2. QED
      BY <1>2, <2>1 DEF ReadUsers, GraceInv, InPass, rowVars, passVars, memoryVars, ghostVars
  <1>3. CASE AbortTick
    BY <1>3 DEF AbortTick
  <1>4. ASSUME NEW i \in Id, NEW ok \in BOOLEAN, CutSession(i, ok) PROVE GraceInv'
    BY <1>4, GraceInvFrame DEF CutSession, rowVars, passVars, memoryVars
  <1>5. CASE StartReconcile
    <2>1. todo = {} /\ cmds = {} /\ pc' = "reconcile" /\ lag' = 0 /\ cmds' = {}
      BY <1>5 DEF StartReconcile, GraceInv, InPass
    <2>2. UNCHANGED <<snap, fresh, snapEligible, snapLimit, cur>>
      BY <1>5 DEF StartReconcile
    <2>3. \A u \in User : Within(u)' = Within(u)
      BY <2>2, WithinUnchanged
    <2>4. ASSUME NEW u \in User PROVE row'[u] # None => row'[u] = since'[u]
      BY <1>5 DEF StartReconcile, Gone, GraceInv, TypeOK
    <2>5. ASSUME NEW u \in User
          PROVE  /\ (u \in todo' /\ Within(u)) \/ since'[u] <= over'[u]
                 /\ u \in todo' => Within(u) \/ lag' <= over'[u]
      <3>1. /\ since[u] <= over[u]
            /\ since[u] \in None..GraceCap /\ over[u] \in None..GraceCap
        BY <2>1 DEF GraceInv, TypeOK
      <3>2. CASE Mine(u) = {}
        <4>1. since'[u] = None /\ u \notin todo' /\ over'[u] = Observed(u, over[u])
          BY <1>5, <3>2 DEF StartReconcile, Gone, TypeOK
        <4>2. over'[u] \in None..GraceCap
          BY <3>1, <4>1 DEF Observed, None
        <4>3. QED
          BY <4>1, <4>2
      <3>3. CASE Mine(u) # {}
        <4>1. fresh
          BY <3>3 DEF GraceInv, Mine
        <4>2. since'[u] = since[u] /\ u \in todo' /\ over'[u] = Observed(u, over[u])
          BY <1>5, <3>3 DEF StartReconcile, Gone, TypeOK
        <4>3. CASE Within(u)
          BY <4>2, <4>3
        <4>4. CASE ~Within(u)
          <5>1. over'[u] = IF over[u] = None THEN 0 ELSE over[u]
            BY <4>1, <4>2, <4>4 DEF Observed
          <5>2. since'[u] <= over'[u] /\ lag' <= over'[u]
            BY <2>1, <3>1, <4>2, <5>1
          <5>3. QED
            BY <5>2
        <4>5. QED
          BY <4>3, <4>4
      <3>4. QED
        BY <3>2, <3>3
    <2>6. todo' \subseteq User
      BY <1>5 DEF StartReconcile
    <2>7. QED
      BY <2>1, <2>2, <2>3, <2>4, <2>5, <2>6 DEF GraceInv, InPass
  <1>6. ASSUME NEW u \in User, LeaveAlone(u) PROVE GraceInv'
    <2>1. UNCHANGED <<snap, fresh, snapEligible, snapLimit, lag, cur, cmds, pc, over>>
      BY <1>6 DEF LeaveAlone, tickVars, ghostVars
    <2>2. \A v \in User : Within(v)' = Within(v)
      BY <2>1, WithinUnchanged
    <2>3. /\ since' = [since EXCEPT ![u] = None] /\ row' = [row EXCEPT ![u] = None]
          /\ todo' = todo \ {u} /\ pc = "reconcile"
      BY <1>6 DEF LeaveAlone
    <2>4. \A v \in User : over[v] >= None
      BY DEF TypeOK
    <2>5. QED
      BY <2>1, <2>2, <2>3, <2>4 DEF GraceInv, InPass, TypeOK
  <1>7. ASSUME NEW u \in User, u \in todo, ~Within(u), NEW t \in 0..GraceCap, Entry(u, t)
        PROVE  t <= over[u] /\ (row[u] # None => row[u] = t)
    <2>1. t = EntrySince(u, row[u])
      BY <1>7 DEF Entry
    <2>2. since[u] <= over[u] /\ lag <= over[u] /\ (row[u] # None => row[u] = since[u])
      BY <1>7 DEF GraceInv
    <2>3. QED
      BY <2>1, <2>2 DEF EntrySince, TypeOK
  <1>8. ASSUME NEW u \in User, InGrace(u) PROVE GraceInv'
    <2>1. UNCHANGED <<row, snap, fresh, snapEligible, snapLimit, lag, cur, cmds, pc, over>>
      BY <1>8 DEF InGrace, tickVars, rowVars, ghostVars
    <2>2. \A v \in User : Within(v)' = Within(v)
      BY <2>1, WithinUnchanged
    <2>3. PICK t \in 0..GraceCap : Entry(u, t) /\ since' = [since EXCEPT ![u] = t]
      BY <1>8 DEF InGrace
    <2>4. u \in todo /\ ~Within(u) /\ todo' = todo \ {u} /\ pc = "reconcile"
      BY <1>8 DEF InGrace
    <2>5. t <= over[u] /\ (row[u] # None => row[u] = t)
      BY <1>7, <2>3, <2>4
    <2>6. QED
      BY <2>1, <2>2, <2>3, <2>4, <2>5 DEF GraceInv, InPass, TypeOK
  <1>9. ASSUME NEW u \in User, Enforce(u) PROVE GraceInv'
    <2>1. UNCHANGED <<row, snap, fresh, snapEligible, snapLimit, lag, over>>
      BY <1>9 DEF Enforce, rowVars, ghostVars
    <2>2. \A v \in User : Within(v)' = Within(v)
      BY <2>1, WithinUnchanged
    <2>3. PICK t \in 0..GraceCap :
              Entry(u, t) /\ t - lag >= Grace /\ since' = [since EXCEPT ![u] = t]
      BY <1>9 DEF Enforce
    <2>4. /\ u \in todo /\ ~Within(u) /\ todo' = todo \ {u}
          /\ pc' = "enforce" /\ cur' = u
      BY <1>9 DEF Enforce
    <2>5. t <= over[u] /\ (row[u] # None => row[u] = t)
      BY <1>7, <2>3, <2>4
    <2>6. over[u] - lag >= Grace
      BY <2>3, <2>5 DEF TypeOK
    <2>7. QED
      BY <2>1, <2>2, <2>3, <2>4, <2>5, <2>6 DEF GraceInv, InPass, TypeOK
  <1>10. ASSUME NEW i \in Id, NEW ok \in BOOLEAN, Command(i, ok) PROVE GraceInv'
    <2>1. /\ UNCHANGED <<row, since, over, todo, lag, cur, snap, fresh, pc, snapEligible, snapLimit>>
          /\ pc = "enforce"
      BY <1>10 DEF Command, rowVars, tickVars
    <2>2. \A v \in User : Within(v)' = Within(v)
      BY <2>1, WithinUnchanged
    <2>3. todo \subseteq User
      BY DEF TypeOK
    <2>4. QED
      BY <2>1, <2>2, <2>3 DEF GraceInv, InPass
  <1>11. CASE FinishUser
    <2>1. /\ UNCHANGED <<since, over, todo, lag, cmds, snap, fresh, snapEligible, snapLimit>>
          /\ pc = "enforce" /\ pc' = "reconcile" /\ cmds = {}
          /\ row' = [row EXCEPT ![cur] = since[cur]]
      BY <1>11 DEF FinishUser, memoryVars, ghostVars
    <2>2. \A v \in User : Within(v)' = Within(v)
      BY <2>1, WithinUnchanged
    <2>3. cur \in User /\ todo \subseteq User
      BY <2>1 DEF GraceInv, TypeOK
    <2>4. QED
      BY <2>1, <2>2, <2>3 DEF GraceInv, InPass, TypeOK
  <1>12. CASE EndPass
    <2>1. UNCHANGED <<row, since, over, todo, cmds, cur, snap, fresh>> /\ todo = {} /\ pc' = "idle"
          /\ pc = "reconcile"
      BY <1>12 DEF EndPass, rowVars, memoryVars, ghostVars
    <2>2. QED
      BY <2>1 DEF GraceInv, InPass
  <1>13. QED
    BY <1>1, <1>2, <1>3, <1>4, <1>5, <1>6, <1>8, <1>9, <1>10, <1>11, <1>12 DEF Worker

\* While the panel stays up and its database answers, no session is
\* terminated for the device limit unless its account was over the limit in
\* every complete poll of the last graceMs.
THEOREM GraceTheorem ==
    ASSUME KillPoints = {}, ~DbFaults
    PROVE  Spec => []GraceHonoured
  <1>1. Init => GraceInv
    BY Durations DEF Init, GraceInv, InPass
  <1>2. TypeOK /\ GraceInv /\ [Next]_vars => GraceInv'
    <2>1. ASSUME GraceInv, UNCHANGED vars PROVE GraceInv'
      BY <2>1, GraceInvFrame DEF vars, rowVars, tickVars, passVars, memoryVars, ghostVars
    <2>2. QED
      BY <2>1, GraceInvEnvironment, GraceInvElapse, GraceInvWorker DEF Next
  <1>3. GraceInv => GraceHonoured
    BY DEF GraceInv, GraceHonoured
  <1>4. QED
    BY <1>1, <1>2, <1>3, TypeCorrect, PTL DEF Spec

-----------------------------------------------------------------------------
(* An old offender.  Whatever restarts or fails, the reconciler's timestamps *)
(* never reach back beyond the first time the account was seen over its      *)
(* limit: a restart loses the entry, and a failed query only makes it start  *)
(* again at the pass at hand.                                                *)

\* The inductive invariant behind OldOffender.  firstOver never restarts, so
\* unlike in GraceInv no entry is exempt.
OldInv ==
    /\ \A u \in User : row[u] <= firstOver[u] /\ since[u] <= firstOver[u]
    /\ \A u \in todo : Within(u) \/ lag <= firstOver[u]
    /\ todo # {} => InPass
    /\ pc # "enforce" => cmds = {}
    /\ pc = "enforce" => /\ cur \in User /\ ~Within(cur)
                         /\ firstOver[cur] - lag >= Grace
    /\ ~fresh => \A i \in Id : snap[i] = NoUser

\* A step that leaves the timestamps and the pass alone.
LEMMA OldInvFrame ==
    ASSUME OldInv, UNCHANGED <<row, since, firstOver, todo, lag, cmds, cur, snap, fresh, pc>>,
           InPass => UNCHANGED <<snapEligible, snapLimit>>
    PROVE  OldInv'
  <1>1. \A u \in todo : Within(u)' = Within(u)
    BY WithinUnchanged DEF OldInv
  <1>2. pc = "enforce" => Within(cur)' = Within(cur)
    BY WithinUnchanged DEF InPass, Within, Mine
  <1>3. QED
    BY <1>1, <1>2 DEF OldInv, InPass

LEMMA OldInvEnvironment ==
    ASSUME TypeOK, OldInv, Environment
    PROVE  OldInv'
  <1> USE Durations
  <1>1. CASE PanelRestart
    BY <1>1 DEF PanelRestart, OldInv, InPass, TypeOK, rowVars, ghostVars
  <1>2. CASE ~PanelRestart
    <2>1. UNCHANGED <<row, since, firstOver, todo, lag, cmds, cur, snap, fresh, pc,
                      snapEligible, snapLimit>>
      BY <1>2 DEF Environment, Connect, Disconnect, DaemonRestart, FlipEligible, SetLimit,
             AdminDisconnect, rowVars, tickVars, passVars, memoryVars, ghostVars
    <2>2. QED
      BY <2>1, OldInvFrame
  <1>3. QED
    BY <1>1, <1>2

LEMMA OldInvElapse ==
    ASSUME TypeOK, OldInv, Elapse
    PROVE  OldInv'
  <1> USE Durations
  <1>1. UNCHANGED <<pc, snap, fresh, snapEligible, snapLimit, todo, cur, cmds>>
    BY DEF Elapse, tickVars
  <1>2. \A u \in User : Within(u)' = Within(u)
    BY <1>1, WithinUnchanged
  <1>3. lag' \in 0..MaxLag /\ (lag' = lag \/ lag' = lag + 1) /\ lag \in 0..MaxLag
    BY DEF Elapse, TypeOK
  <1>4. ASSUME NEW u \in User
        PROVE  row'[u] <= firstOver'[u] /\ since'[u] <= firstOver'[u]
    BY LaterType, LaterMonotone DEF Elapse, TypeOK, OldInv
  <1>5. ASSUME NEW u \in User, NEW d \in Nat, d <= Grace, firstOver[u] - lag >= d
        PROVE  firstOver'[u] - lag' >= d
    BY <1>3, <1>5 DEF Elapse, TypeOK, Later
  <1>6. ASSUME NEW u \in todo
        PROVE  Within(u)' \/ lag' <= firstOver'[u]
    <2>1. u \in User /\ firstOver[u] \in Int /\ firstOver'[u] \in Int
      BY LaterType DEF TypeOK, Elapse
    <2>2. CASE Within(u)
      BY <2>1, <2>2, <1>2
    <2>3. CASE lag <= firstOver[u]
      BY <1>3, <1>5, <2>1, <2>3
    <2>4. QED
      BY <2>2, <2>3 DEF OldInv
  <1>7. pc = "enforce" => /\ cur' \in User /\ ~Within(cur)'
                         /\ firstOver'[cur] - lag' >= Grace
    BY <1>1, <1>2, <1>5 DEF OldInv
  <1>8. QED
    BY <1>1, <1>2, <1>4, <1>6, <1>7 DEF OldInv, InPass

LEMMA OldInvWorker ==
    ASSUME TypeOK, OldInv, Worker
    PROVE  OldInv'
  <1> USE Durations
  <1>0. todo \subseteq User
    BY DEF TypeOK
  <1>1. ASSUME NEW ok \in BOOLEAN, ReadSas(ok) PROVE OldInv'
    <2>1. todo = {} /\ cmds = {}
      BY <1>1 DEF OldInv, InPass, ReadSas
    <2>2. QED
      BY <1>1, <2>1 DEF ReadSas, OldInv, InPass, rowVars, passVars, memoryVars, ghostVars
  <1>2. CASE ReadUsers
    <2>1. todo = {} /\ cmds = {}
      BY <1>2 DEF OldInv, InPass, ReadUsers
    <2>2. QED
      BY <1>2, <2>1 DEF ReadUsers, OldInv, InPass, rowVars, passVars, memoryVars, ghostVars
  <1>3. CASE AbortTick
    <2>1. todo = {} /\ cmds = {}
      BY <1>3 DEF OldInv, InPass, AbortTick
    <2>2. QED
      BY <1>3, <2>1 DEF AbortTick, OldInv, InPass, rowVars, passVars, memoryVars, ghostVars
  <1>4. ASSUME NEW i \in Id, NEW ok \in BOOLEAN, CutSession(i, ok) PROVE OldInv'
    BY <1>4, OldInvFrame DEF CutSession, rowVars, passVars, memoryVars
  <1>5. CASE StartReconcile
    <2>1. todo = {} /\ cmds = {} /\ pc' = "reconcile" /\ lag' = 0 /\ cmds' = {}
      BY <1>5 DEF StartReconcile, OldInv, InPass
    <2>2. UNCHANGED <<snap, fresh, snapEligible, snapLimit, cur>>
      BY <1>5 DEF StartReconcile
    <2>3. \A u \in User : Within(u)' = Within(u)
      BY <2>2, WithinUnchanged
    <2>4. ASSUME NEW u \in User
          PROVE  /\ row'[u] \in {None, row[u]} /\ since'[u] \in {None, since[u]}
                 /\ u \in todo' => Mine(u) # {}
                 /\ firstOver'[u] = IF firstOver[u] = None THEN Observed(u, None)
                                    ELSE firstOver[u]
      BY <1>5 DEF StartReconcile, TypeOK
    <2>5. ASSUME NEW u \in User
          PROVE  /\ row'[u] <= firstOver'[u] /\ since'[u] <= firstOver'[u]
                 /\ u \in todo' => Within(u) \/ lag' <= firstOver'[u]
      <3>1. /\ row[u] <= firstOver[u] /\ since[u] <= firstOver[u]
            /\ row[u] \in None..GraceCap /\ since[u] \in None..GraceCap
            /\ firstOver[u] \in None..GraceCap
        BY DEF OldInv, TypeOK
      <3>2. firstOver'[u] \in Int /\ firstOver'[u] >= firstOver[u] /\ firstOver'[u] >= None
        BY <2>4, <3>1 DEF Observed
      <3>3. row'[u] <= firstOver'[u] /\ since'[u] <= firstOver'[u]
        BY <2>4, <3>1, <3>2
      <3>4. ASSUME u \in todo', ~Within(u) PROVE lag' <= firstOver'[u]
        <4>1. fresh
          BY <2>4, <3>4 DEF OldInv, Mine
        <4>2. firstOver'[u] = IF firstOver[u] = None THEN 0 ELSE firstOver[u]
          BY <2>4, <3>4, <4>1 DEF Observed
        <4>3. QED
          BY <2>1, <3>1, <4>2
      <3>5. QED
        BY <3>3, <3>4
    <2>6. todo' \subseteq User
      BY <1>5 DEF StartReconcile
    <2>7. QED
      BY <2>1, <2>2, <2>3, <2>5, <2>6 DEF OldInv, InPass
  <1>6. ASSUME NEW u \in User, LeaveAlone(u) PROVE OldInv'
    <2>1. UNCHANGED <<snap, fresh, snapEligible, snapLimit, lag, cur, cmds, pc, firstOver>>
      BY <1>6 DEF LeaveAlone, tickVars, ghostVars
    <2>2. \A v \in User : Within(v)' = Within(v)
      BY <2>1, WithinUnchanged
    <2>3. /\ since' = [since EXCEPT ![u] = None] /\ row' \in {row, [row EXCEPT ![u] = None]}
          /\ todo' = todo \ {u} /\ pc = "reconcile"
      BY <1>6 DEF LeaveAlone
    <2>4. \A v \in User : firstOver[v] >= None
      BY DEF TypeOK
    <2>5. \A v \in User : row'[v] <= firstOver[v] /\ since'[v] <= firstOver[v]
      BY <2>3, <2>4 DEF OldInv, TypeOK
    <2>6. QED
      BY <1>0, <2>1, <2>2, <2>3, <2>5 DEF OldInv, InPass
  <1>7. ASSUME NEW u \in User, u \in todo, ~Within(u), NEW t \in 0..GraceCap, Entry(u, t)
        PROVE  t <= firstOver[u]
    <2>1. t = EntrySince(u, row[u]) \/ t = EntrySince(u, None)
      BY <1>7 DEF Entry
    <2>2. since[u] <= firstOver[u] /\ lag <= firstOver[u] /\ row[u] <= firstOver[u]
      BY <1>7 DEF OldInv
    <2>3. QED
      BY <2>1, <2>2 DEF EntrySince, TypeOK
  <1>8. ASSUME NEW u \in User, InGrace(u) PROVE OldInv'
    <2>1. UNCHANGED <<row, snap, fresh, snapEligible, snapLimit, lag, cur, cmds, pc, firstOver>>
      BY <1>8 DEF InGrace, tickVars, rowVars, ghostVars
    <2>2. \A v \in User : Within(v)' = Within(v)
      BY <2>1, WithinUnchanged
    <2>3. PICK t \in 0..GraceCap : Entry(u, t) /\ since' = [since EXCEPT ![u] = t]
      BY <1>8 DEF InGrace
    <2>4. u \in todo /\ ~Within(u) /\ todo' = todo \ {u} /\ pc = "reconcile"
      BY <1>8 DEF InGrace
    <2>5. t <= firstOver[u]
      BY <1>7, <2>3, <2>4
    <2>6. \A v \in User : row'[v] <= firstOver[v] /\ since'[v] <= firstOver[v]
      BY <2>1, <2>3, <2>5 DEF OldInv, TypeOK
    <2>7. QED
      BY <1>0, <2>1, <2>2, <2>4, <2>6 DEF OldInv, InPass
  <1>9. ASSUME NEW u \in User, Enforce(u) PROVE OldInv'
    <2>1. UNCHANGED <<row, snap, fresh, snapEligible, snapLimit, lag, firstOver>>
      BY <1>9 DEF Enforce, rowVars, ghostVars
    <2>2. \A v \in User : Within(v)' = Within(v)
      BY <2>1, WithinUnchanged
    <2>3. PICK t \in 0..GraceCap :
              Entry(u, t) /\ t - lag >= Grace /\ since' = [since EXCEPT ![u] = t]
      BY <1>9 DEF Enforce
    <2>4. /\ u \in todo /\ ~Within(u) /\ todo' = todo \ {u}
          /\ pc' = "enforce" /\ cur' = u
      BY <1>9 DEF Enforce
    <2>5. t <= firstOver[u]
      BY <1>7, <2>3, <2>4
    <2>6. firstOver[u] - lag >= Grace
      BY <2>3, <2>5 DEF TypeOK
    <2>7. \A v \in User : row'[v] <= firstOver[v] /\ since'[v] <= firstOver[v]
      BY <2>1, <2>3, <2>5 DEF OldInv, TypeOK
    <2>8. ~Within(u)'
      BY <2>2, <2>4
    <2>9. QED
      BY <1>0, <2>1, <2>2, <2>4, <2>6, <2>7, <2>8 DEF OldInv, InPass
  <1>10. ASSUME NEW i \in Id, NEW ok \in BOOLEAN, Command(i, ok) PROVE OldInv'
    <2>1. /\ UNCHANGED <<row, since, firstOver, todo, lag, cur, snap, fresh, pc, snapEligible,
                         snapLimit>>
          /\ pc = "enforce"
      BY <1>10 DEF Command, rowVars, tickVars
    <2>2. \A v \in User : Within(v)' = Within(v)
      BY <2>1, WithinUnchanged
    <2>3. QED
      BY <1>0, <2>1, <2>2 DEF OldInv, InPass
  <1>11. CASE FinishUser
    <2>1. /\ UNCHANGED <<since, firstOver, todo, lag, cmds, snap, fresh, snapEligible, snapLimit>>
          /\ pc = "enforce" /\ pc' = "reconcile" /\ cmds = {}
          /\ row' \in {row, [row EXCEPT ![cur] = since[cur]]}
      BY <1>11 DEF FinishUser, memoryVars, ghostVars
    <2>2. \A v \in User : Within(v)' = Within(v)
      BY <2>1, WithinUnchanged
    <2>3. cur \in User
      BY <2>1 DEF OldInv
    <2>4. \A v \in User : row'[v] <= firstOver[v]
      BY <2>1, <2>3 DEF OldInv, TypeOK
    <2>5. QED
      BY <1>0, <2>1, <2>2, <2>4 DEF OldInv, InPass
  <1>12. CASE EndPass
    <2>1. /\ UNCHANGED <<row, since, firstOver, todo, cmds, cur, snap, fresh>>
          /\ todo = {} /\ pc' = "idle" /\ pc = "reconcile"
      BY <1>12 DEF EndPass, rowVars, memoryVars, ghostVars
    <2>2. QED
      BY <2>1 DEF OldInv, InPass
  <1>13. QED
    BY <1>1, <1>2, <1>3, <1>4, <1>5, <1>6, <1>8, <1>9, <1>10, <1>11, <1>12 DEF Worker

\* Through restarts of the panel and of strongSwan and failures of every
\* query: sessions are only terminated for the limit of an account that the
\* poll at hand shows over it and that was already seen over it graceMs ago.
THEOREM OldOffenderTheorem == Spec => []OldOffender
  <1>1. Init => OldInv
    BY Durations DEF Init, OldInv, InPass
  <1>2. TypeOK /\ OldInv /\ [Next]_vars => OldInv'
    <2>1. ASSUME OldInv, UNCHANGED vars PROVE OldInv'
      BY <2>1, OldInvFrame DEF vars, rowVars, tickVars, passVars, memoryVars, ghostVars
    <2>2. QED
      BY <2>1, OldInvEnvironment, OldInvElapse, OldInvWorker DEF Next
  <1>3. OldInv => OldOffender
    BY DEF OldInv, OldOffender
  <1>4. QED
    BY <1>1, <1>2, <1>3, TypeCorrect, PTL DEF Spec

-----------------------------------------------------------------------------
(* No repeated command.  The memory of an acknowledged termination may be    *)
(* dropped while the SA is still listed (the list could not be read, the     *)
(* account was blocked or within its limit for a poll), but then the entry's *)
(* timestamp goes with it, and the SA is gone before a new grace period ends *)
(* if strongSwan is quicker than that.                                       *)

\* An acknowledged termination is remembered, or its account's entry is no
\* older than the acknowledgement.
Remembered(i) ==
    \/ i \in done[sa[i]]
    \/ since[sa[i]] <= closing[i] /\ (sa[i] \in todo => lag <= closing[i])

\* Without a restart of strongSwan an id stands for one SA.
IdsUnique ==
    /\ \A i \in Id : sa[i] # NoUser \/ snap[i] # NoUser => i < nextId
    /\ \A i \in Id : snap[i] # NoUser /\ sa[i] # NoUser => snap[i] = sa[i]

RepeatInv ==
    /\ \A i \in acked : sa[i] # NoUser /\ closing[i] # None
    /\ \A i \in acked : Remembered(i)
    /\ IdsUnique
    /\ pc \in {"users", "cut"} /\ fresh => \A i \in acked : snap[i] = sa[i]
    /\ \A i \in cmds : snap[i] = cur
    /\ cmds \cap acked = {}

\* What terminateIkeSession may do to strongSwan's table.
LEMMA TerminateKeeps ==
    ASSUME TypeOK, NEW i \in Id, NEW ok \in BOOLEAN, Terminate(i, ok)
    PROVE  /\ \A k \in Id : sa'[k] \in {NoUser, sa[k]}
           /\ \A k \in Id : sa'[k] # NoUser /\ closing[k] # None => closing'[k] = closing[k]
           /\ ok /\ sa'[i] # NoUser => closing'[i] # None
  <1> USE Durations
  <1>1. sa \in [Id -> User \cup {NoUser}] /\ closing \in [Id -> None..MaxLinger]
    BY DEF TypeOK
  <1>2. CASE sa' = [sa EXCEPT ![i] = NoUser] /\ closing' = [closing EXCEPT ![i] = None]
    BY <1>1, <1>2
  <1>3. CASE /\ sa' = sa /\ i \in live
             /\ closing' = [closing EXCEPT ![i] = IF @ = None THEN 0 ELSE @]
    BY <1>1, <1>3
  <1>4. CASE UNCHANGED <<sa, closing>> /\ (ok => i \notin live)
    BY <1>1, <1>4 DEF live
  <1>5. QED
    BY <1>2, <1>3, <1>4 DEF Terminate

\* A step of strongSwan's table that only takes SAs away, and forgets the
\* acknowledgements of those.
LEMMA RepeatInvShrinks ==
    ASSUME TypeOK, RepeatInv,
           \A k \in Id : sa'[k] \in {NoUser, sa[k]},
           \A k \in acked' : k \in acked /\ sa'[k] # NoUser /\ closing'[k] = closing[k],
           UNCHANGED <<nextId, since, done, todo, lag, snap, fresh, pc, cmds, cur>>
    PROVE  RepeatInv'
  <1>0. acked \subseteq Id
    BY DEF TypeOK
  <1>1. \A k \in acked' : k \in acked /\ k \in Id /\ sa'[k] = sa[k] /\ closing'[k] = closing[k]
    BY <1>0
  <1>2. \A k \in acked' : Remembered(k)'
    BY <1>1 DEF RepeatInv, Remembered
  <1>3. IdsUnique'
    BY DEF RepeatInv, IdsUnique
  <1>4. QED
    BY <1>1, <1>2, <1>3 DEF RepeatInv

LEMMA RepeatInvEnvironment ==
    ASSUME KillPoints = {}, ~DaemonRestarts, TypeOK, RepeatInv, Environment
    PROVE  RepeatInv'
  <1> USE Durations
  <1>0. acked \subseteq Id /\ sa \in [Id -> User \cup {NoUser}] /\ closing \in [Id -> None..MaxLinger]
    BY DEF TypeOK
  <1>1. ASSUME NEW u \in User, Connect(u) PROVE RepeatInv'
    <2>1. /\ UNCHANGED <<closing, since, done, todo, lag, snap, fresh, pc, cmds, cur, acked>>
          /\ nextId \in Id /\ nextId' = nextId + 1 /\ sa' = [sa EXCEPT ![nextId] = u]
      BY <1>1 DEF Connect, TypeOK, Id, tickVars, passVars, memoryVars, ghostVars
    <2>2. sa[nextId] = NoUser /\ snap[nextId] = NoUser /\ nextId \notin acked
      BY <2>1 DEF RepeatInv, IdsUnique, Id
    <2>3. \A k \in acked : sa'[k] = sa[k]
      BY <1>0, <2>1, <2>2
    <2>4. \A k \in acked : Remembered(k)'
      BY <2>1, <2>3 DEF RepeatInv, Remembered
    <2>5. IdsUnique'
      BY <1>0, <2>1, <2>2 DEF RepeatInv, IdsUnique, Id
    <2>6. QED
      BY <2>1, <2>3, <2>4, <2>5 DEF RepeatInv
  <1>2. ASSUME NEW i \in Id, Disconnect(i) PROVE RepeatInv'
    <2>1. /\ \A k \in Id : sa'[k] \in {NoUser, sa[k]}
          /\ \A k \in acked' : k \in acked /\ sa'[k] = sa[k] /\ closing'[k] = closing[k]
      BY <1>0, <1>2 DEF Disconnect
    <2>2. QED
      BY <1>2, <2>1, RepeatInvShrinks
         DEF Disconnect, RepeatInv, tickVars, passVars, memoryVars
  <1>3. CASE DaemonRestart \/ PanelRestart
    BY <1>3 DEF DaemonRestart, PanelRestart
  <1>4. ASSUME NEW u \in User, AdminDisconnect(u) PROVE RepeatInv'
    <2> DEFINE mine == {i \in live : snap[i] = u}
    <2>1. PICK hit \in SUBSET mine, slow \in SUBSET mine :
             /\ slow \subseteq hit
             /\ sa' = [i \in Id |-> IF i \in hit \ slow THEN NoUser ELSE sa[i]]
             /\ closing' = [i \in Id |-> IF i \in hit \ slow THEN None
                                        ELSE IF i \in slow /\ closing[i] = None THEN 0
                                        ELSE closing[i]]
             /\ acked' = acked \ (hit \ slow)
      BY <1>4 DEF AdminDisconnect
    <2>2. \A k \in acked' : k \in acked /\ sa'[k] = sa[k] /\ closing'[k] = closing[k]
      BY <1>0, <2>1 DEF RepeatInv
    <2>3. \A k \in Id : sa'[k] \in {NoUser, sa[k]}
      BY <1>0, <2>1
    <2>4. QED
      BY <1>4, <2>2, <2>3, RepeatInvShrinks
         DEF AdminDisconnect, RepeatInv, tickVars, passVars, memoryVars
  <1>5. ASSUME \/ \E u \in User : FlipEligible(u)
               \/ \E u \in User, n \in 1..MaxLimit : SetLimit(u, n)
        PROVE  RepeatInv'
    <2>1. UNCHANGED <<sa, closing, acked, nextId, since, done, todo, lag, snap, fresh, pc, cmds, cur>>
      BY <1>5 DEF FlipEligible, SetLimit, swanVars, tickVars, passVars, memoryVars, ghostVars
    <2>2. QED
      BY <1>0, <2>1, RepeatInvShrinks DEF RepeatInv
  <1>6. QED
    BY <1>1, <1>2, <1>3, <1>4, <1>5 DEF Environment

LEMMA RepeatInvElapse ==
    ASSUME TypeOK, RepeatInv, Elapse
    PROVE  RepeatInv'
  <1> USE Durations
  <1>1. UNCHANGED <<sa, nextId, pc, snap, fresh, todo, cur, cmds, done, acked>>
    BY DEF Elapse, tickVars
  <1>2. ASSUME NEW i \in acked PROVE Remembered(i)' /\ closing'[i] # None
    <2>1. /\ i \in Id /\ closing[i] \in 0..MaxLinger /\ closing'[i] = closing[i] + 1
          /\ sa[i] \in User
      BY <1>2 DEF TypeOK, RepeatInv, Elapse
    <2>2. since[sa[i]] <= closing[i] => since'[sa[i]] <= closing'[i]
      BY <2>1 DEF Elapse, TypeOK, Later
    <2>3. lag <= closing[i] => lag' <= closing'[i]
      BY <2>1 DEF Elapse, TypeOK
    <2>4. Remembered(i)'
      BY <1>1, <2>2, <2>3 DEF RepeatInv, Remembered
    <2>5. QED
      BY <2>1, <2>4
  <1>3. IdsUnique'
    BY <1>1 DEF RepeatInv, IdsUnique
  <1>4. QED
    BY <1>1, <1>2, <1>3 DEF RepeatInv

LEMMA RepeatInvWorker ==
    ASSUME ~DbFaults, MaxLinger < Grace, TypeOK, GraceInv, RepeatInv, Worker
    PROVE  RepeatInv'
  <1> USE Durations
  <1>0. /\ acked \subseteq Id /\ todo \subseteq User /\ cmds \subseteq Id
        /\ sa \in [Id -> User \cup {NoUser}] /\ closing \in [Id -> None..MaxLinger]
    BY DEF TypeOK
  <1>A. \A i \in acked : i \in Id /\ sa[i] \in User /\ closing[i] \in 0..MaxLinger
    BY <1>0 DEF RepeatInv
  <1>1. ASSUME NEW ok \in BOOLEAN, ReadSas(ok) PROVE RepeatInv'
    <2>1. /\ UNCHANGED <<sa, closing, nextId, since, done, todo, lag, cmds, cur, acked>>
          /\ cmds = {}
      BY <1>1 DEF ReadSas, GraceInv, swanVars, passVars, memoryVars, ghostVars
    <2>2. /\ snap' = sa \/ snap' = [i \in Id |-> NoUser]
          /\ fresh' => snap' = sa
      BY <1>1 DEF ReadSas
    <2>3. IdsUnique' /\ \A i \in acked : Remembered(i)'
      BY <2>1, <2>2 DEF RepeatInv, IdsUnique, Remembered
    <2>4. QED
      BY <2>1, <2>2, <2>3 DEF RepeatInv
  <1>2. CASE ReadUsers
    <2>1. /\ UNCHANGED <<sa, closing, nextId, since, done, todo, lag, cmds, cur, acked, snap, fresh>>
          /\ pc = "users"
      BY <1>2 DEF ReadUsers, swanVars, passVars, memoryVars, ghostVars
    <2>2. IdsUnique' /\ \A i \in acked : Remembered(i)'
      BY <2>1 DEF RepeatInv, IdsUnique, Remembered
    <2>3. QED
      BY <2>1, <2>2 DEF RepeatInv
  <1>3. CASE AbortTick
    BY <1>3 DEF AbortTick
  <1>4. ASSUME NEW i \in Id, NEW ok \in BOOLEAN, CutSession(i, ok) PROVE RepeatInv'
    <2>1. /\ UNCHANGED <<nextId, since, done, todo, lag, snap, fresh, pc, cmds, cur>>
          /\ acked' = acked \cap live'
      BY <1>4 DEF CutSession, passVars, memoryVars
    <2>2. /\ \A k \in Id : sa'[k] \in {NoUser, sa[k]}
          /\ \A k \in Id : sa'[k] # NoUser /\ closing[k] # None => closing'[k] = closing[k]
      BY <1>4, TerminateKeeps DEF CutSession
    <2>3. \A k \in acked' : k \in acked /\ sa'[k] # NoUser /\ closing'[k] = closing[k]
      BY <1>A, <2>1, <2>2 DEF live, RepeatInv
    <2>4. QED
      BY <2>1, <2>2, <2>3, RepeatInvShrinks
  <1>5. CASE StartReconcile
    <2>1. /\ UNCHANGED <<sa, closing, nextId, snap, fresh, cmds, cur, acked>>
          /\ pc = "cut" /\ cmds = {} /\ pc' = "reconcile" /\ lag' = 0
      BY <1>5 DEF StartReconcile, GraceInv, swanVars
    <2>2. ASSUME NEW i \in acked PROVE Remembered(i)'
      <3> DEFINE u == sa[i]
      <3>1. u \in User /\ closing[i] \in 0..MaxLinger /\ i \in Id
        BY <1>A
      <3>2. /\ since'[u] = IF Gone(u) THEN None ELSE since[u]
            /\ done'[u] = done[u] \cap Mine(u)
        BY <1>5, <3>1 DEF StartReconcile
      <3>3. CASE i \in Mine(u)
        <4>1. ~Gone(u)
          BY <3>3 DEF Gone
        <4>2. QED
          BY <2>1, <3>1, <3>2, <3>3, <4>1 DEF RepeatInv, Remembered
      <3>4. CASE i \notin Mine(u)
        <4>1. Gone(u)
          <5>1. CASE fresh
            BY <2>1, <3>1, <3>4, <5>1 DEF RepeatInv, Gone, Mine
          <5>2. CASE ~fresh
            BY <3>1, <5>2 DEF GraceInv, Gone, Mine
          <5>3. QED
            BY <5>1, <5>2
        <4>2. QED
          BY <2>1, <3>1, <3>2, <4>1 DEF Remembered
      <3>5. QED
        BY <3>3, <3>4
    <2>3. IdsUnique'
      BY <2>1 DEF RepeatInv, IdsUnique
    <2>4. QED
      BY <2>1, <2>2, <2>3 DEF RepeatInv
  <1>6. ASSUME NEW u \in User, LeaveAlone(u) PROVE RepeatInv'
    <2>1. /\ UNCHANGED <<sa, closing, nextId, snap, fresh, lag, cmds, cur, acked, pc>>
          /\ since' = [since EXCEPT ![u] = None] /\ done' = [done EXCEPT ![u] = {}]
          /\ todo' = todo \ {u}
      BY <1>6 DEF LeaveAlone, swanVars, tickVars, ghostVars
    <2>2. ASSUME NEW i \in acked PROVE Remembered(i)'
      <3>1. CASE sa[i] = u
        <4>1. since'[sa[i]] = None /\ sa[i] \notin todo'
          BY <1>A, <2>1, <3>1 DEF TypeOK
        <4>2. QED
          BY <1>A, <2>1, <4>1 DEF Remembered
      <3>2. CASE sa[i] # u
        <4>1. since'[sa[i]] = since[sa[i]] /\ done'[sa[i]] = done[sa[i]]
          BY <1>A, <2>1, <3>2 DEF TypeOK
        <4>2. QED
          BY <2>1, <4>1 DEF RepeatInv, Remembered
      <3>3. QED
        BY <3>1, <3>2
    <2>3. IdsUnique'
      BY <2>1 DEF RepeatInv, IdsUnique
    <2>4. QED
      BY <2>1, <2>2, <2>3 DEF RepeatInv
  \* The entry of an account that is over its limit is no older than an
  \* acknowledgement nobody remembers.
  <1>7. ASSUME NEW u \in User, u \in todo, NEW t \in 0..GraceCap, Entry(u, t),
               NEW i \in acked, sa[i] = u, i \notin done[u]
        PROVE  t <= closing[i]
    <2>1. t = EntrySince(u, row[u])
      BY <1>7 DEF Entry
    <2>2. since[u] <= closing[i] /\ lag <= closing[i] /\ (row[u] # None => row[u] = since[u])
      BY <1>7 DEF RepeatInv, Remembered, GraceInv
    <2>3. QED
      BY <2>1, <2>2 DEF EntrySince
  <1>8. ASSUME NEW u \in User, u \in todo, NEW t \in 0..GraceCap, Entry(u, t),
               since' = [since EXCEPT ![u] = t], todo' = todo \ {u},
               UNCHANGED <<sa, closing, done, lag, acked>>
        PROVE  \A i \in acked : Remembered(i)'
    <2> SUFFICES ASSUME NEW i \in acked PROVE Remembered(i)'
      OBVIOUS
    <2>1. CASE i \in done[sa[i]]
      BY <1>8, <2>1 DEF Remembered
    <2>2. CASE i \notin done[sa[i]] /\ sa[i] = u
      <3>1. t <= closing[i] /\ since'[u] = t
        BY <1>7, <1>8, <2>2 DEF TypeOK
      <3>2. QED
        BY <1>8, <2>2, <3>1 DEF Remembered
    <2>3. CASE i \notin done[sa[i]] /\ sa[i] # u
      <3>1. since'[sa[i]] = since[sa[i]]
        BY <1>A, <1>8, <2>3 DEF TypeOK
      <3>2. QED
        BY <1>8, <2>3, <3>1 DEF RepeatInv, Remembered
    <2>4. QED
      BY <2>1, <2>2, <2>3
  <1>9. ASSUME NEW u \in User, InGrace(u) PROVE RepeatInv'
    <2>1. /\ UNCHANGED <<sa, closing, nextId, snap, fresh, lag, cmds, cur, acked, pc, done>>
          /\ u \in todo /\ todo' = todo \ {u}
      BY <1>9 DEF InGrace, swanVars, tickVars, ghostVars
    <2>2. PICK t \in 0..GraceCap : Entry(u, t) /\ since' = [since EXCEPT ![u] = t]
      BY <1>9 DEF InGrace
    <2>3. \A i \in acked : Remembered(i)'
      BY <1>8, <2>1, <2>2
    <2>4. IdsUnique'
      BY <2>1 DEF RepeatInv, IdsUnique
    <2>5. QED
      BY <2>1, <2>3, <2>4 DEF RepeatInv
  <1>10. ASSUME NEW u \in User, Enforce(u) PROVE RepeatInv'
    <2>1. /\ UNCHANGED <<sa, closing, nextId, snap, fresh, lag, acked, done>>
          /\ u \in todo /\ todo' = todo \ {u} /\ pc' = "enforce" /\ cur' = u
          /\ cmds' = {i \in Excess(u) : ~Skipped(u, i)}
      BY <1>10 DEF Enforce, swanVars, ghostVars
    <2>2. PICK t \in 0..GraceCap :
              Entry(u, t) /\ t - lag >= Grace /\ since' = [since EXCEPT ![u] = t]
      BY <1>10 DEF Enforce
    <2>3. \A i \in acked : Remembered(i)'
      BY <1>8, <2>1, <2>2
    <2>4. IdsUnique'
      BY <2>1 DEF RepeatInv, IdsUnique
    <2>5. \A i \in cmds' : i \in Id /\ snap[i] = u /\ i \notin done[u]
      BY <2>1 DEF Excess, Mine, Skipped
    <2>6. ASSUME NEW i \in cmds', i \in acked PROVE FALSE
      <3>1. sa[i] = u
        BY <1>A, <2>5, <2>6 DEF RepeatInv, IdsUnique
      <3>2. t <= closing[i]
        BY <1>7, <2>1, <2>2, <2>5, <2>6, <3>1
      <3>3. t - lag >= Grace /\ lag \in Nat /\ closing[i] \in 0..MaxLinger
        BY <1>A, <2>2, <2>6 DEF TypeOK
      <3>4. QED
        BY <3>2, <3>3
    <2>7. QED
      BY <2>1, <2>3, <2>4, <2>5, <2>6 DEF RepeatInv
  <1>11. ASSUME NEW j \in Id, NEW ok \in BOOLEAN, Command(j, ok) PROVE RepeatInv'
    <2>1. /\ UNCHANGED <<nextId, since, todo, lag, snap, fresh, pc, cur>>
          /\ pc = "enforce" /\ j \in cmds /\ cmds' = cmds \ {j}
          /\ acked' = (IF ok THEN acked \cup {j} ELSE acked) \cap live'
          /\ done' = [done EXCEPT ![cur] = IF ok THEN @ \cup {j} ELSE @ \ {j}]
      BY <1>11 DEF Command, tickVars
    <2>2. /\ \A k \in Id : sa'[k] \in {NoUser, sa[k]}
          /\ \A k \in Id : sa'[k] # NoUser /\ closing[k] # None => closing'[k] = closing[k]
          /\ ok /\ sa'[j] # NoUser => closing'[j] # None
      BY <1>11, TerminateKeeps DEF Command
    <2>3. j \notin acked /\ snap[j] = cur /\ cur \in User
      BY <2>1 DEF RepeatInv, GraceInv
    <2>4. ASSUME NEW k \in acked'
          PROVE  k \in Id /\ sa'[k] # NoUser /\ sa'[k] = sa[k] /\ closing'[k] # None
                 /\ Remembered(k)'
      <3>1. k \in Id /\ sa'[k] # NoUser /\ sa'[k] = sa[k]
        BY <1>0, <2>1, <2>2 DEF live
      <3>2. CASE k = j
        <4>1. ok
          BY <2>1, <2>3, <3>2
        <4>2. sa[k] = cur
          BY <2>3, <3>1, <3>2 DEF RepeatInv, IdsUnique
        <4>3. k \in done'[cur]
          BY <2>1, <2>3, <3>2, <4>1 DEF TypeOK
        <4>4. QED
          BY <2>2, <3>1, <3>2, <4>1, <4>2, <4>3 DEF Remembered
      <3>3. CASE k # j
        <4>1. k \in acked
          BY <2>1, <3>3
        <4>2. closing'[k] = closing[k] /\ sa[k] \in User
          BY <1>A, <2>2, <3>1, <4>1 DEF RepeatInv
        <4>3. k \in done[sa[k]] => k \in done'[sa[k]]
          BY <2>1, <3>3, <4>2 DEF TypeOK
        <4>4. QED
          BY <2>1, <3>1, <4>1, <4>2, <4>3 DEF RepeatInv, Remembered
      <3>4. QED
        BY <3>2, <3>3
    <2>5. IdsUnique'
      BY <2>1, <2>2 DEF RepeatInv, IdsUnique
    <2>6. cmds' \cap acked' = {}
      BY <2>1 DEF RepeatInv
    <2>7. \A i \in cmds' : snap'[i] = cur'
      BY <2>1 DEF RepeatInv
    <2>8. QED
      BY <2>1, <2>4, <2>5, <2>6, <2>7 DEF RepeatInv
  <1>12. CASE FinishUser
    <2>1. /\ UNCHANGED <<sa, closing, nextId, snap, fresh, lag, acked, done, since, todo, cmds>>
          /\ cmds = {} /\ pc' = "reconcile"
      BY <1>12 DEF FinishUser, swanVars, memoryVars, ghostVars
    <2>2. IdsUnique' /\ \A i \in acked : Remembered(i)'
      BY <2>1 DEF RepeatInv, IdsUnique, Remembered
    <2>3. QED
      BY <2>1, <2>2 DEF RepeatInv
  <1>13. CASE EndPass
    <2>1. /\ UNCHANGED <<sa, closing, nextId, snap, fresh, acked, done, since, todo, cmds, cur>>
          /\ todo = {} /\ pc' = "idle"
      BY <1>13 DEF EndPass, swanVars, memoryVars, ghostVars
    <2>2. IdsUnique' /\ \A i \in acked : Remembered(i)'
      BY <2>1 DEF RepeatInv, IdsUnique, Remembered
    <2>3. QED
      BY <2>1, <2>2 DEF RepeatInv
  <1>14. QED
    BY <1>1, <1>2, <1>3, <1>4, <1>5, <1>6, <1>9, <1>10, <1>11, <1>12, <1>13 DEF Worker

\* While the panel, its database and strongSwan stay up, and strongSwan
\* finishes a termination it accepted within a grace period, no command is due
\* for an SA whose termination for the limit was acknowledged, whatever the
\* polls in between could read and however limits and accounts are edited.
THEOREM NoRepeatTheorem ==
    ASSUME KillPoints = {}, ~DbFaults, ~DaemonRestarts, MaxLinger < Grace
    PROVE  Spec => []NoRepeatedCommand
  <1> DEFINE AllInv == GraceInv /\ RepeatInv
  <1>1. Init => AllInv
    <2>1. Init => GraceInv
      BY Durations DEF Init, GraceInv, InPass
    <2>2. Init => RepeatInv
      BY Durations DEF Init, RepeatInv, IdsUnique
    <2>3. QED
      BY <2>1, <2>2
  <1>2. TypeOK /\ AllInv /\ [Next]_vars => AllInv'
    <2>1. ASSUME GraceInv, UNCHANGED vars PROVE GraceInv'
      BY <2>1, GraceInvFrame DEF vars, rowVars, tickVars, passVars, memoryVars, ghostVars
    <2>2. ASSUME RepeatInv, UNCHANGED vars PROVE RepeatInv'
      BY <2>2 DEF vars, swanVars, tickVars, passVars, memoryVars, ghostVars,
         RepeatInv, IdsUnique, Remembered
    <2>3. TypeOK /\ GraceInv /\ [Next]_vars => GraceInv'
      BY <2>1, GraceInvEnvironment, GraceInvElapse, GraceInvWorker DEF Next
    <2>4. TypeOK /\ GraceInv /\ RepeatInv /\ [Next]_vars => RepeatInv'
      BY <2>2, RepeatInvEnvironment, RepeatInvElapse, RepeatInvWorker DEF Next
    <2>5. QED
      BY <2>3, <2>4
  <1>3. AllInv => NoRepeatedCommand
    BY DEF RepeatInv, NoRepeatedCommand
  <1>4. QED
    BY <1>1, <1>2, <1>3, TypeCorrect, PTL DEF Spec

-----------------------------------------------------------------------------
(* The allowance.  With the policy `disconnect_oldest', no failing command   *)
(* and no restart of strongSwan, an account's acknowledged terminations are  *)
(* the oldest of its sessions, and those the policy would pick first: they   *)
(* take nobody's place among the sessions it keeps.                          *)

\* A set of ids that is not empty has a youngest: the SAs set up after it are
\* fewest.  (Strict inclusion of finite sets is well-founded.)
LEMMA YoungestOf ==
    ASSUME NEW S \in SUBSET Id, S # {}
    PROVE  \E m \in S : \A n \in S : n <= m
  <1> DEFINE after(x) == (x + 1)..MaxId
             A == {after(x) : x \in S}
  <1>0. MaxId \in Nat /\ S \subseteq 1..MaxId /\ IsFiniteSet(1..MaxId)
    BY Durations, FS_Interval DEF Id
  <1>1. A \subseteq FiniteSubsetsOf(1..MaxId) /\ A # {}
    <2>1. ASSUME NEW x \in S PROVE after(x) \in FiniteSubsetsOf(1..MaxId)
      <3>1. after(x) \in SUBSET (1..MaxId)
        BY <1>0
      <3> HIDE DEF after
      <3>2. QED
        BY <3>1, <1>0, FS_Subset DEF FiniteSubsetsOf
    <2>2. QED
      BY <2>1
  <1>2. PICK a \in A : \A b \in A : <<b, a>> \notin StrictSubsetOrdering(1..MaxId)
    <2>1. IsWellFoundedOn(StrictSubsetOrdering(1..MaxId), FiniteSubsetsOf(1..MaxId))
      BY FS_StrictSubsetOrderingWellFounded
    <2> HIDE DEF A
    <2>2. QED
      BY <1>1, <2>1, WFMin, Zenon
  <1>3. PICK m \in S : a = after(m)
    OBVIOUS
  <1>4. ASSUME NEW n \in S PROVE n <= m
    <2>1. after(n) \subseteq 1..MaxId /\ after(m) \subseteq 1..MaxId
      BY <1>0
    <2>2. n > m => after(n) \subseteq after(m) /\ n \in after(m) /\ n \notin after(n)
      BY <1>0
    <2>3. ~(after(n) \subseteq after(m) /\ after(n) # after(m))
      <3>1. <<after(n), after(m)>> \notin StrictSubsetOrdering(1..MaxId)
        BY <1>2, <1>3
      <3> HIDE DEF after
      <3>2. QED
        BY <2>1, <3>1 DEF StrictSubsetOrdering
    <2> HIDE DEF after
    <2>4. QED
      BY <1>0, <2>2, <2>3
  <1>5. QED
    BY <1>4

\* Sets of ids are finite, and a smaller one has fewer elements.
LEMMA IdsFinite ==
    ASSUME NEW S \in SUBSET Id, NEW T \in SUBSET S
    PROVE  /\ IsFiniteSet(S) /\ IsFiniteSet(T)
           /\ Cardinality(S) \in Nat /\ Cardinality(T) \in Nat
           /\ Cardinality(T) <= Cardinality(S)
  <1>1. IsFiniteSet(Id)
    BY Durations, FS_Interval DEF Id
  <1>2. IsFiniteSet(S)
    BY <1>1, FS_Subset
  <1>3. QED
    BY <1>2, FS_Subset, FS_CardinalityType

\* selectExcessSessions leaves max_devices sessions of an account that is over
\* its limit: otherwise the youngest one picked would have too few before it.
LEMMA SelectionKeeps ==
    ASSUME TypeOK, KeepNewest, NEW u \in User, ~Within(u)
    PROVE  Cardinality(Mine(u) \ Excess(u)) >= snapLimit[u]
  <1> DEFINE M == Mine(u)
             K == M \ Excess(u)
             Before(i) == {j \in M : Preferred(j, i)}
  <1>1. M \in SUBSET Id /\ snapLimit[u] \in Nat /\ Id \subseteq Int
    BY Durations DEF Mine, TypeOK, Id
  <1>2. /\ Cardinality(M) \in Nat /\ Cardinality(K) \in Nat
        /\ Cardinality(M) > snapLimit[u]
    BY <1>1, IdsFinite DEF Within
  <1>3. SUFFICES ASSUME Cardinality(K) < snapLimit[u]
                 PROVE  FALSE
    BY <1>1, <1>2
  <1>4. M \ K # {}
    <2>1. M \ K = {} => K = M
      OBVIOUS
    <2> HIDE DEF K
    <2>2. QED
      BY <1>1, <1>2, <1>3, <2>1
  <1>5. PICK m \in M \ K : \A n \in M \ K : n <= m
    <2>1. M \ K \in SUBSET Id
      BY <1>1
    <2> HIDE DEF K, M
    <2>2. QED
      BY <1>4, <2>1, YoungestOf
  <1>6. Before(m) \subseteq K
    <2>1. ASSUME NEW j \in M, j > m PROVE j \in K
      <3>1. m \in Int /\ j \in Int
        BY <1>1
      <3>2. j \notin M \ K
        BY <1>5, <2>1, <3>1
      <3>3. QED
        BY <3>2
    <2> HIDE DEF K
    <2>2. QED
      BY <2>1 DEF Preferred
  <1>7. Cardinality(Before(m)) < snapLimit[u]
    <2>1. K \in SUBSET Id
      BY <1>1
    <2> HIDE DEF K, Before
    <2>2. Cardinality(Before(m)) \in Nat /\ Cardinality(Before(m)) <= Cardinality(K)
      BY <1>6, <2>1, IdsFinite
    <2>3. QED
      BY <1>1, <1>2, <1>3, <2>2
  <1>8. m \in Excess(u) /\ m \in Mine(u)
    <2>1. m \in M /\ ~(m \in M \ Excess(u))
      BY <1>5
    <2>2. QED
      BY <2>1
  <1>9. Cardinality(Before(m)) >= snapLimit[u]
    BY <1>8 DEF Excess
  <1> HIDE DEF Before
  <1>10. Cardinality(Before(m)) \in Nat
    <2>1. Before(m) \in SUBSET Id
      BY <1>1 DEF Before
    <2>2. QED
      BY <2>1, IdsFinite
  <1>11. QED
    BY <1>1, <1>7, <1>9, <1>10

\* What is older than a session picked for termination is picked as well.
LEMMA ExcessOldest ==
    ASSUME TypeOK, KeepNewest, NEW u \in User, NEW i \in Excess(u), NEW j \in Mine(u), j < i
    PROVE  j \in Excess(u)
  <1> DEFINE Before(k) == {l \in Mine(u) : Preferred(l, k)}
  <1>0. i \in Mine(u)
    BY DEF Excess
  <1>1. Mine(u) \in SUBSET Id /\ Id \subseteq Int /\ snapLimit[u] \in Nat
    <2>1. Mine(u) \in SUBSET Id
      BY DEF Mine
    <2>2. Id \subseteq Int
      BY Durations DEF Id
    <2>3. snapLimit[u] \in 1..MaxLimit
      BY DEF TypeOK
    <2>4. QED
      BY <2>1, <2>2, <2>3, Durations
  <1>2. Before(i) \subseteq Before(j)
    <2>1. ASSUME NEW l \in Mine(u), l > i PROVE l > j
      <3>1. l \in Int /\ i \in Int /\ j \in Int
        BY <1>0, <1>1
      <3>2. QED
        BY <2>1, <3>1
    <2>2. QED
      BY <2>1 DEF Preferred
  <1>3. Before(j) \in SUBSET Id
    BY <1>1
  <1>4. Cardinality(Before(i)) >= snapLimit[u]
    BY DEF Excess
  <1>5. Cardinality(Before(j)) >= snapLimit[u]
    <2> HIDE DEF Before
    <2>1. /\ Cardinality(Before(i)) \in Nat /\ Cardinality(Before(j)) \in Nat
          /\ Cardinality(Before(i)) <= Cardinality(Before(j))
      BY <1>2, <1>3, IdsFinite
    <2>2. QED
      BY <1>1, <1>4, <2>1
  <1>6. QED
    BY <1>5 DEF Excess

\* A poll lists every SA that is older than one it lists.
OlderListed ==
    \A i, j \in Id : snap[i] # NoUser /\ j < i /\ sa[j] # NoUser => snap[j] = sa[j]

\* A recorded success is an acknowledgement, as long as its SA is there.
DoneAcked == \A u \in User : \A i \in done[u] : i < nextId /\ (sa[i] = u => i \in acked)

\* The acknowledged ones are the account's oldest,
OldestFirst == \A i \in acked : \A j \in Id : j < i /\ sa[j] = sa[i] => j \in acked

\* and a pass goes on from there.
OlderPicked == \A i \in cmds : \A j \in Id : j < i /\ sa[j] = cur => j \in cmds \cup acked

\* The inductive invariant behind KeepsAllowance.
AllowInv ==
    /\ IdsUnique /\ OlderListed /\ DoneAcked /\ OldestFirst /\ OlderPicked
    /\ \A u \in User, i \in Id : failed[u][i] = None
    /\ \A i \in acked : sa[i] # NoUser
    /\ \A i \in cmds : snap[i] = cur /\ cur \in User

\* A step of strongSwan's table that only takes SAs away and with each its
\* acknowledgement; the memory only forgets.
LEMMA AllowInvShrinks ==
    ASSUME TypeOK, AllowInv,
           \A k \in Id : sa'[k] \in {NoUser, sa[k]},
           acked' = {k \in acked : sa'[k] # NoUser},
           \A u \in User : done'[u] \subseteq done[u],
           \A u \in User, k \in Id : failed'[u][k] = None,
           UNCHANGED <<nextId, snap>>,
           cmds' = {} \/ UNCHANGED <<cmds, cur>>
    PROVE  AllowInv'
  <1>0. acked \subseteq Id /\ cmds \subseteq Id /\ acked' \subseteq Id
        /\ (\A u \in User : done[u] \subseteq Id) /\ NoUser \notin User
    BY Durations DEF TypeOK
  <1>1. IdsUnique' /\ OlderListed'
    BY DEF AllowInv, IdsUnique, OlderListed
  <1>2. DoneAcked'
    <2> SUFFICES ASSUME NEW u \in User, NEW i \in done'[u]
                 PROVE  i < nextId' /\ (sa'[i] = u => i \in acked')
      BY DEF DoneAcked
    <2>1. i \in done[u] /\ i \in Id
      BY <1>0
    <2>2. i < nextId /\ (sa[i] = u => i \in acked)
      BY <2>1 DEF AllowInv, DoneAcked
    <2>3. QED
      BY <1>0, <2>1, <2>2
  <1>3. OldestFirst'
    BY <1>0 DEF AllowInv, OldestFirst
  <1>4. OlderPicked'
    <2>1. CASE cmds' = {}
      BY <2>1 DEF OlderPicked
    <2>2. ASSUME UNCHANGED <<cmds, cur>>, NEW i \in cmds, NEW j \in Id, j < i, sa'[j] = cur
          PROVE  j \in cmds \cup acked'
      <3>1. cur \in User
        BY <2>2 DEF AllowInv
      <3>2. sa[j] = cur
        BY <1>0, <2>2, <3>1
      <3>3. QED
        BY <2>2, <3>2 DEF AllowInv, OlderPicked
    <2>3. QED
      BY <2>1, <2>2 DEF OlderPicked
  <1>5. QED
    BY <1>0, <1>1, <1>2, <1>3, <1>4 DEF AllowInv

LEMMA AllowInvEnvironment ==
    ASSUME ~DaemonRestarts, TypeOK, AllowInv, Environment
    PROVE  AllowInv'
  <1> USE Durations
  <1>0. /\ acked \subseteq Id /\ cmds \subseteq Id /\ \A u \in User : done[u] \subseteq Id
        /\ \A k \in acked : sa[k] # NoUser
        /\ \A u \in User, k \in Id : failed[u][k] = None
        /\ sa \in [Id -> User \cup {NoUser}]
    BY DEF TypeOK, AllowInv
  <1>1. ASSUME NEW u \in User, Connect(u) PROVE AllowInv'
    <2>1. /\ UNCHANGED <<done, failed, snap, cmds, cur, acked>>
          /\ nextId \in Id /\ nextId' = nextId + 1 /\ sa' = [sa EXCEPT ![nextId] = u]
      BY <1>1 DEF Connect, TypeOK, Id, tickVars, passVars, memoryVars, ghostVars
    <2>2. /\ sa[nextId] = NoUser /\ snap[nextId] = NoUser /\ nextId \notin acked
          /\ \A i \in Id : snap[i] # NoUser => i < nextId
          /\ \A i \in acked : i < nextId
          /\ \A v \in User : \A i \in done[v] : i < nextId
      <3>1. \A i \in Id : sa[i] # NoUser \/ snap[i] # NoUser => i < nextId
        BY DEF AllowInv, IdsUnique
      <3>2. nextId \in Id /\ ~(nextId < nextId) /\ acked \subseteq Id
        BY <1>0, <2>1 DEF Id
      <3>3. sa[nextId] = NoUser /\ snap[nextId] = NoUser
        BY <3>1, <3>2
      <3>4. \A v \in User : \A i \in done[v] : i < nextId
        BY DEF AllowInv, DoneAcked
      <3>5. QED
        BY <1>0, <3>1, <3>2, <3>3, <3>4
    <2>3. \A k \in Id : k # nextId => sa'[k] = sa[k]
      BY <1>0, <2>1
    <2>4. IdsUnique'
      BY <1>0, <2>1, <2>2, <2>3 DEF AllowInv, IdsUnique, Id
    <2>5. OlderListed'
      BY <2>1, <2>2, <2>3 DEF AllowInv, OlderListed, Id
    <2>6. DoneAcked'
      BY <1>0, <2>1, <2>2, <2>3 DEF AllowInv, DoneAcked, Id
    <2>7. OldestFirst'
      BY <1>0, <2>1, <2>2, <2>3 DEF AllowInv, OldestFirst, Id
    <2>8. OlderPicked'
      BY <1>0, <2>1, <2>2, <2>3 DEF AllowInv, OlderPicked, Id
    <2>9. \A i \in acked' : sa'[i] # NoUser
      BY <1>0, <2>1, <2>2, <2>3
    <2>10. QED
      BY <2>1, <2>4, <2>5, <2>6, <2>7, <2>8, <2>9 DEF AllowInv
  <1>2. ASSUME NEW i \in Id, Disconnect(i) PROVE AllowInv'
    <2>1. /\ sa' = [sa EXCEPT ![i] = NoUser] /\ acked' = acked \ {i}
          /\ UNCHANGED <<nextId, snap, done, failed, cmds, cur>>
      BY <1>2 DEF Disconnect, tickVars, passVars, memoryVars
    <2>2. QED
      BY <1>0, <2>1, AllowInvShrinks
  <1>3. CASE DaemonRestart
    BY <1>3 DEF DaemonRestart
  <1>4. CASE PanelRestart
    <2>1. /\ UNCHANGED <<sa, nextId, acked>> /\ cmds' = {} /\ snap' = [i \in Id |-> NoUser]
          /\ done' = [u \in User |-> {}] /\ failed' = [u \in User |-> NoFailure]
      BY <1>4 DEF PanelRestart, swanVars, ghostVars
    <2>2. QED
      BY <1>0, <2>1 DEF AllowInv, IdsUnique, OlderListed, DoneAcked, OldestFirst, OlderPicked,
                        NoFailure
  <1>5. ASSUME NEW u \in User, AdminDisconnect(u) PROVE AllowInv'
    <2> DEFINE mine == {i \in live : snap[i] = u}
    <2>1. PICK hit \in SUBSET mine, slow \in SUBSET mine :
             /\ slow \subseteq hit
             /\ sa' = [i \in Id |-> IF i \in hit \ slow THEN NoUser ELSE sa[i]]
             /\ acked' = acked \ (hit \ slow)
      BY <1>5 DEF AdminDisconnect
    <2>2. UNCHANGED <<nextId, snap, done, failed, cmds, cur>>
      BY <1>5 DEF AdminDisconnect, tickVars, passVars, memoryVars
    <2>3. \A k \in Id : sa'[k] \in {NoUser, sa[k]}
      BY <1>0, <2>1
    <2>4. acked' = {k \in acked : sa'[k] # NoUser}
      BY <1>0, <2>1
    <2>5. QED
      BY <1>0, <2>2, <2>3, <2>4, AllowInvShrinks
  <1>6. ASSUME \/ \E u \in User : FlipEligible(u)
               \/ \E u \in User, n \in 1..MaxLimit : SetLimit(u, n)
        PROVE  AllowInv'
    <2>1. UNCHANGED <<sa, acked, nextId, done, failed, snap, cmds, cur>>
      BY <1>6 DEF FlipEligible, SetLimit, swanVars, tickVars, passVars, memoryVars, ghostVars
    <2>2. QED
      BY <1>0, <2>1, AllowInvShrinks
  <1>7. QED
    BY <1>1, <1>2, <1>3, <1>4, <1>5, <1>6 DEF Environment

LEMMA AllowInvWorker ==
    ASSUME KeepNewest, ~TerminateFaults, TypeOK, OldInv, AllowInv, Worker
    PROVE  AllowInv'
  <1> USE Durations
  <1>0. /\ acked \subseteq Id /\ cmds \subseteq Id /\ \A u \in User : done[u] \subseteq Id
        /\ \A k \in acked : sa[k] # NoUser
        /\ \A u \in User, k \in Id : failed[u][k] = None
        /\ sa \in [Id -> User \cup {NoUser}] /\ done \in [User -> SUBSET Id]
    BY DEF TypeOK, AllowInv
  <1>1. ASSUME NEW ok \in BOOLEAN, ReadSas(ok) PROVE AllowInv'
    <2>1. /\ UNCHANGED <<sa, nextId, done, failed, cmds, cur, acked>> /\ cmds = {}
          /\ snap' = sa \/ snap' = [i \in Id |-> NoUser]
      BY <1>1 DEF ReadSas, OldInv, swanVars, passVars, memoryVars, ghostVars
    <2>2. IdsUnique' /\ OlderListed'
      BY <2>1 DEF AllowInv, IdsUnique, OlderListed
    <2>3. QED
      BY <2>1, <2>2 DEF AllowInv, DoneAcked, OldestFirst, OlderPicked
  <1>2. CASE ReadUsers \/ AbortTick \/ EndPass \/ FinishUser
    <2>1. /\ UNCHANGED <<sa, acked, nextId, done, failed, snap, cmds>>
          /\ cmds = {} \/ cur' = cur
      BY <1>2 DEF ReadUsers, AbortTick, EndPass, FinishUser, swanVars, passVars, memoryVars,
                  ghostVars
    <2>2. QED
      BY <1>0, <2>1, AllowInvShrinks
  <1>3. ASSUME NEW i \in Id, NEW ok \in BOOLEAN, CutSession(i, ok) PROVE AllowInv'
    <2>1. UNCHANGED <<nextId, snap, done, failed, cmds, cur>> /\ acked' = acked \cap live'
      BY <1>3 DEF CutSession, passVars, memoryVars
    <2>2. \A k \in Id : sa'[k] \in {NoUser, sa[k]}
      BY <1>3, TerminateKeeps DEF CutSession
    <2>3. acked' = {k \in acked : sa'[k] # NoUser}
      BY <1>0, <2>1 DEF live
    <2>4. QED
      BY <1>0, <2>1, <2>2, <2>3, AllowInvShrinks
  <1>4. CASE StartReconcile
    <2>1. UNCHANGED <<sa, nextId, snap, cmds, cur, acked>>
      BY <1>4 DEF StartReconcile, swanVars
    <2>2. /\ done' = [u \in User |-> done[u] \cap Mine(u)]
          /\ failed' = [u \in User |-> [i \in Id |->
                            IF i \in Mine(u) THEN failed[u][i] ELSE None]]
      BY <1>4 DEF StartReconcile
    <2>3. QED
      BY <1>0, <2>1, <2>2, AllowInvShrinks
  <1>5. ASSUME NEW u \in User, LeaveAlone(u) PROVE AllowInv'
    <2>1. /\ UNCHANGED <<sa, nextId, snap, cmds, cur, acked>>
          /\ done' = [done EXCEPT ![u] = {}] /\ failed' = [failed EXCEPT ![u] = NoFailure]
      BY <1>5 DEF LeaveAlone, swanVars, tickVars, ghostVars
    <2>2. \A v \in User : done'[v] \subseteq done[v]
      BY <1>0, <2>1
    <2>3. \A v \in User, k \in Id : failed'[v][k] = None
      BY <1>0, <2>1 DEF NoFailure, TypeOK
    <2>4. QED
      BY <1>0, <2>1, <2>2, <2>3, AllowInvShrinks
  <1>6. ASSUME NEW u \in User, InGrace(u) PROVE AllowInv'
    <2>1. UNCHANGED <<sa, acked, nextId, done, failed, snap, cmds, cur>>
      BY <1>6 DEF InGrace, swanVars, tickVars, ghostVars
    <2>2. QED
      BY <1>0, <2>1, AllowInvShrinks
  <1>7. ASSUME NEW u \in User, Enforce(u) PROVE AllowInv'
    <2>1. /\ UNCHANGED <<sa, nextId, snap, acked, done, failed>> /\ cur' = u
          /\ cmds' = {i \in Excess(u) : ~Skipped(u, i)}
      BY <1>7 DEF Enforce, swanVars, ghostVars
    <2>2. \A i \in Excess(u) : i \in Id /\ snap[i] = u /\ u \in snapEligible
      BY DEF Excess, Mine
    <2>3. ASSUME NEW i \in cmds', NEW j \in Id, j < i, sa[j] = u PROVE j \in cmds' \cup acked
      <3>1. i \in Excess(u) /\ snap[i] = u /\ i \in Id /\ u \in snapEligible
        BY <2>1, <2>2
      <3>2. snap[j] = u
        BY <2>3, <3>1 DEF AllowInv, OlderListed
      <3>3. j \in Excess(u)
        BY <2>3, <3>1, <3>2, ExcessOldest DEF Mine
      <3>4. Skipped(u, j) => j \in done[u]
        BY <1>0 DEF Skipped
      <3>5. j \in done[u] => j \in acked
        BY <2>3 DEF AllowInv, DoneAcked
      <3>6. QED
        BY <2>1, <3>3, <3>4, <3>5
    <2>4. OlderPicked'
      BY <2>1, <2>3 DEF OlderPicked
    <2>5. QED
      BY <2>1, <2>2, <2>4 DEF AllowInv, IdsUnique, OlderListed, DoneAcked, OldestFirst
  <1>8. ASSUME NEW i \in Id, NEW ok \in BOOLEAN, Command(i, ok) PROVE AllowInv'
    <2>0. ok
      BY <1>8 DEF Command, Terminate
    <2>1. /\ UNCHANGED <<nextId, snap, cur>> /\ i \in cmds /\ cmds' = cmds \ {i}
          /\ \A j \in cmds : i = j \/ j > i
          /\ done' = [done EXCEPT ![cur] = @ \cup {i}]
          /\ failed' = [failed EXCEPT ![cur][i] = None]
          /\ acked' = (acked \cup {i}) \cap live'
      BY <1>8, <2>0 DEF Command, tickVars, Preferred, FailedAt
    <2>2. \A k \in Id : sa'[k] \in {NoUser, sa[k]}
      BY <1>8, TerminateKeeps DEF Command
    <2>3. snap[i] = cur /\ cur \in User /\ i < nextId
      BY <1>0, <2>1 DEF AllowInv, IdsUnique
    <2>4. acked' \subseteq Id /\ \A k \in Id : k \in acked' <=> (k \in acked \/ k = i) /\ sa'[k] # NoUser
      BY <1>0, <2>1 DEF live
    <2>5. IdsUnique' /\ OlderListed'
      BY <2>1, <2>2 DEF AllowInv, IdsUnique, OlderListed
    <2>6. DoneAcked'
      <3> SUFFICES ASSUME NEW u \in User, NEW k \in done'[u]
                   PROVE  k < nextId /\ (sa'[k] = u => k \in acked')
        BY <2>1 DEF DoneAcked
      <3>1. k \in Id /\ (k \in done[u] \/ k = i)
        BY <1>0, <2>1
      <3>2. CASE k = i
        BY <2>3, <2>4, <3>2
      <3>3. CASE k \in done[u]
        <4>1. k < nextId /\ (sa[k] = u => k \in acked)
          BY <3>3 DEF AllowInv, DoneAcked
        <4>2. QED
          BY <2>2, <2>4, <3>1, <4>1
      <3>4. QED
        BY <3>1, <3>2, <3>3
    <2>7. OldestFirst'
      <3> SUFFICES ASSUME NEW k \in acked', NEW j \in Id, j < k, sa'[j] = sa'[k]
                   PROVE  j \in acked'
        BY DEF OldestFirst
      <3>1. k \in Id /\ sa'[k] # NoUser /\ sa[k] = sa'[k] /\ sa[j] = sa[k]
        BY <2>2, <2>4
      <3>2. CASE k \in acked
        <4>1. j \in acked
          BY <3>1, <3>2 DEF AllowInv, OldestFirst
        <4>2. QED
          BY <2>4, <3>1, <4>1
      <3>3. CASE k = i
        <4>1. sa[i] = cur
          BY <2>3, <3>1, <3>3 DEF AllowInv, IdsUnique
        <4>2. j \in cmds \cup acked
          BY <2>1, <3>1, <3>3, <4>1 DEF AllowInv, OlderPicked
        <4>3. j \notin cmds
          BY <2>1, <3>3 DEF Id
        <4>4. QED
          BY <2>4, <3>1, <4>2, <4>3
      <3>4. QED
        BY <2>4, <3>1, <3>2, <3>3
    <2>8. OlderPicked'
      <3> SUFFICES ASSUME NEW k \in cmds', NEW j \in Id, j < k, sa'[j] = cur
                   PROVE  j \in cmds' \cup acked'
        BY <2>1 DEF OlderPicked
      <3>1. k \in cmds /\ sa[j] = cur /\ sa'[j] # NoUser
        BY <2>1, <2>2, <2>3
      <3>2. j \in cmds \cup acked
        BY <3>1 DEF AllowInv, OlderPicked
      <3>3. QED
        BY <2>1, <2>4, <3>1, <3>2
    <2>9. \A u \in User, k \in Id : failed'[u][k] = None
      BY <1>0, <2>1, <2>3 DEF TypeOK
    <2>10. QED
      BY <2>1, <2>3, <2>4, <2>5, <2>6, <2>7, <2>8, <2>9 DEF AllowInv
  <1>9. QED
    BY <1>1, <1>2, <1>3, <1>4, <1>5, <1>6, <1>7, <1>8 DEF Worker

\* With `disconnect_oldest', and unless a command fails or strongSwan restarts:
\* when a pass picks sessions of an account to terminate, max_devices others are
\* left in the poll that the policy has not terminated, whatever restarts, fails
\* or reconnects came before, and whoever else closed some of them.
THEOREM AllowanceTheorem ==
    ASSUME KeepNewest, ~TerminateFaults, ~DaemonRestarts
    PROVE  Spec => KeepsAllowance
  <1> DEFINE Kept(u) ==
        LET picked == {i \in cmds' \ acked : sa[i] = u}
        IN picked # {} => Cardinality(Mine(u) \ acked) - Cardinality(picked) >= snapLimit[u]
      AllInv == OldInv /\ AllowInv
  <1>1. Init => AllInv
    <2>1. Init => OldInv
      BY Durations DEF Init, OldInv, InPass
    <2>2. Init => AllowInv
      BY Durations DEF Init, AllowInv, IdsUnique, OlderListed, DoneAcked, OldestFirst,
                       OlderPicked, NoFailure
    <2>3. QED
      BY <2>1, <2>2
  <1>2. TypeOK /\ AllInv /\ [Next]_vars => AllInv'
    <2>1. ASSUME OldInv, UNCHANGED vars PROVE OldInv'
      BY <2>1, OldInvFrame DEF vars, rowVars, tickVars, passVars, memoryVars, ghostVars
    <2>2. ASSUME AllowInv, UNCHANGED vars PROVE AllowInv'
      BY <2>2 DEF vars, swanVars, tickVars, passVars, memoryVars, ghostVars, AllowInv,
                  IdsUnique, OlderListed, DoneAcked, OldestFirst, OlderPicked
    <2>3. ASSUME TypeOK, AllowInv, Elapse PROVE AllowInv'
      <3>1. /\ UNCHANGED <<sa, acked, nextId, done, snap, cmds, cur>>
            /\ failed' = [u \in User |-> [i \in Id |-> Later(failed[u][i], RetryCap)]]
        BY <2>3 DEF Elapse, tickVars
      <3>2. \A u \in User, k \in Id : failed'[u][k] = None
        BY <2>3, <3>1 DEF AllowInv, Later
      <3>3. QED
        BY <2>3, <3>1, <3>2 DEF AllowInv, IdsUnique, OlderListed, DoneAcked, OldestFirst,
                                OlderPicked
    <2>4. TypeOK /\ OldInv /\ [Next]_vars => OldInv'
      BY <2>1, OldInvEnvironment, OldInvElapse, OldInvWorker DEF Next
    <2>5. TypeOK /\ OldInv /\ AllowInv /\ [Next]_vars => AllowInv'
      BY <2>2, <2>3, AllowInvEnvironment, AllowInvWorker DEF Next
    <2>6. QED
      BY <2>4, <2>5
  <1>3. ASSUME TypeOK, AllowInv, NEW u \in User, Enforce(u) PROVE Kept(u)
    <2> DEFINE M == Mine(u)
               K == M \ Excess(u)
               P == {i \in cmds' \ acked : sa[i] = u}
    <2>1. ~Within(u) /\ cmds' = {i \in Excess(u) : ~Skipped(u, i)}
      BY <1>3 DEF Enforce
    <2>2. Cardinality(K) >= snapLimit[u]
      BY <1>3, <2>1, SelectionKeeps
    <2>3. P \subseteq Excess(u) /\ Excess(u) \subseteq M /\ M \in SUBSET Id /\ Id \subseteq Int
      BY <2>1, Durations DEF Excess, Mine, Id
    <2>4. SUFFICES ASSUME P # {}
                   PROVE  Cardinality(M \ acked) - Cardinality(P) >= snapLimit[u]
      OBVIOUS
    <2>5. PICK p \in P : p \in Excess(u) /\ p \notin acked /\ sa[p] = u /\ p \in Id
      BY <2>3, <2>4
    \* What is acknowledged is older than what is picked.
    <2>6. ASSUME NEW i \in K, i \in acked PROVE FALSE
      <3>1. i \in Id /\ snap[i] = u /\ i \notin Excess(u) /\ i \in Mine(u)
        BY <2>3 DEF Mine
      <3>2. sa[i] = u
        BY <1>3, <2>6, <3>1, Durations DEF AllowInv, IdsUnique
      <3>3. ~(p < i)
        BY <1>3, <2>5, <2>6, <3>2 DEF AllowInv, OldestFirst
      <3>4. i # p
        BY <2>5, <2>6
      <3>5. i < p
        BY <2>3, <2>5, <3>1, <3>3, <3>4
      <3>6. QED
        BY <1>3, <2>5, <3>1, <3>5, ExcessOldest
    <2>7. K \cup P \in SUBSET (M \ acked) /\ K \cap P = {}
      BY <2>3, <2>6
    <2>8. snapLimit[u] \in Nat
      BY <1>3, Durations DEF TypeOK
    <2> HIDE DEF K, P, M
    <2>9. M \ acked \in SUBSET Id /\ K \in SUBSET Id /\ P \in SUBSET Id
      BY <2>3, <2>7
    <2>10. /\ IsFiniteSet(K) /\ IsFiniteSet(P)
           /\ Cardinality(K) \in Nat /\ Cardinality(P) \in Nat
           /\ Cardinality(M \ acked) \in Nat
           /\ Cardinality(K \cup P) <= Cardinality(M \ acked)
      BY <2>7, <2>9, IdsFinite
    <2>11. Cardinality(K \cup P) = Cardinality(K) + Cardinality(P)
      <3>1. Cardinality(K \cap P) = 0
        BY <2>7, FS_EmptySet
      <3>2. Cardinality(K \cup P) = Cardinality(K) + Cardinality(P) - Cardinality(K \cap P)
        BY <2>10, FS_Union, Zenon
      <3>3. QED
        BY <2>10, <3>1, <3>2
    <2>12. QED
      BY <2>2, <2>8, <2>10, <2>11
  <1>4. TypeOK /\ AllInv /\ [Next]_vars => [\A u \in User : Enforce(u) => Kept(u)]_vars
    BY <1>3
  <1>5. QED
    BY <1>1, <1>2, <1>4, TypeCorrect, PTL DEF Spec, KeepsAllowance

=============================================================================
