------------------------- MODULE XrayMeteringProofs -------------------------
(***************************************************************************)
(* For any accounts, transports, incarnations and byte bounds, with        *)
(* helper faults and panel restarts: the metering is well typed, never     *)
(* meets XRAY_COUNTER_REGRESSED, implements the ledger, drains the core    *)
(* before a managed restart, and never charges what a reset forgave.       *)
(*                                                                         *)
(* The inductive invariant MeteringInv says where the cursor of every live *)
(* account stands: exactly at what was charged of its incarnation, before  *)
(* everything charged later, and, because usageTail runs one job at a      *)
(* time, never ahead of the reading a job is recording.  DrainInv adds     *)
(* what became of the bytes a caller asked to have collected, and ResetInv *)
(* splits the bill of every account at its last reset.                     *)
(***************************************************************************)
EXTENDS XrayMetering, TLAPS, FiniteSetTheorems, WellFoundedInduction

Active == {"stats", "after", "record"}

\* usageTail: the job that is executing, and only it, has locals in use.
OneJob ==
    \A c \in Caller : /\ pc[c] \in Active <=> running = c
                      /\ left[c] # {} => pc[c] = "record"

\* The cursor of a live account says what of its incarnation was charged.
CursorExact ==
    \A k \in Key : k[1] \in account =>
        /\ cursor[k].epoch # Stopped => bill[cursor[k].epoch][k] = cursor[k].bytes
        /\ \A e \in Epoch : e > cursor[k].epoch => bill[e][k] = 0

ChargedCarried == \A e \in Epoch, k \in Key : bill[e][k] <= traffic[e][k]

\* No cursor is ahead of the core, nor of the job that is executing.
CursorBehind ==
    /\ \A k \in Key : cursor[k].epoch <= epoch
    /\ \A c \in Caller : pc[c] \in Active =>
        /\ seen[c] # Stopped /\ seen[c] <= epoch
        /\ \A k \in Key : cursor[k].epoch <= seen[c]

\* The reading lies between the cursor and what the incarnation carried.
ReadingBetween(c) ==
    \A k \in Key : /\ reading[c][k] <= traffic[seen[c]][k]
                   /\ k[1] \in account => Last(c, k) <= reading[c][k]

ReadingSound ==
    \A c \in Caller :
        \/ pc[c] = "record"
        \/ pc[c] = "after" /\ epoch = seen[c]
        => ReadingBetween(c)

MeteringInv ==
    TypeOK /\ OneJob /\ CursorExact /\ ChargedCarried /\ CursorBehind /\ ReadingSound

-----------------------------------------------------------------------------

LEMMA ConstantTypes ==
    /\ NoBytes \in [Key -> 0..MaxBytes] /\ Nothing \in Counters
    /\ MaxEpoch \in Nat \ {0} /\ MaxBytes \in Nat \ {0}
  BY MeteringAssumption DEF NoBytes, Nothing, Counters

LEMMA InitInv == Init => MeteringInv
  <1> USE ConstantTypes
  <1> SUFFICES ASSUME Init PROVE MeteringInv
    OBVIOUS
  <1>1. TypeOK
    <2>1. pc \in [Caller -> States]
      BY DEF Init, States
    <2>2. asked \in [Caller -> Counters] /\ reading \in [Caller -> [Key -> 0..MaxBytes]]
      BY DEF Init
    <2>3. cursor \in [Key -> [epoch : 0..MaxEpoch, bytes : 0..MaxBytes]]
      BY DEF Init, Stopped
    <2>4. balance \in [Key -> Nat]
      BY DEF Init, NoBytes
    <2>5. /\ seen \in [Caller -> 0..MaxEpoch] /\ left \in [Caller -> SUBSET Key]
          /\ epoch \in 0..MaxEpoch
      BY DEF Init, Stopped
    <2> QED BY <2>1, <2>2, <2>3, <2>4, <2>5 DEF Init, TypeOK
  <1>2. OneJob
    BY MeteringAssumption DEF Init, OneJob, Active
  <1>3. \A e \in Epoch, k \in Key : bill[e][k] = 0 /\ traffic[e][k] = 0
    BY DEF Init, Nothing, NoBytes
  <1>4. CursorExact
    BY <1>3 DEF Init, CursorExact
  <1>5. ChargedCarried
    BY <1>3 DEF ChargedCarried
  <1>6. CursorBehind
    BY DEF Init, CursorBehind, Active, Stopped
  <1>7. ReadingSound
    BY DEF Init, ReadingSound
  <1> QED BY <1>1, <1>2, <1>4, <1>5, <1>6, <1>7 DEF MeteringInv

-----------------------------------------------------------------------------
(* The parts of a step that several actions share *)

LEMMA EndsType ==
    ASSUME TypeOK, NEW c \in Caller, NEW outcome \in States, Ends(c, outcome)
    PROVE  /\ running' \in Caller \cup {NoCaller} /\ pc' \in [Caller -> States]
           /\ seen' \in [Caller -> 0..MaxEpoch] /\ left' \in [Caller -> SUBSET Key]
           /\ reading' \in [Caller -> [Key -> 0..MaxBytes]]
  <1> USE ConstantTypes
  <1>1. reading' \in [Caller -> [Key -> 0..MaxBytes]]
    BY DEF TypeOK, Ends
  <1>2. seen' \in [Caller -> 0..MaxEpoch]
    BY DEF TypeOK, Ends, Stopped
  <1>3. left' \in [Caller -> SUBSET Key] /\ pc' \in [Caller -> States]
    BY DEF TypeOK, Ends
  <1> QED BY <1>1, <1>2, <1>3 DEF Ends

LEMMA BackType ==
    ASSUME TypeOK, NEW c \in Caller, Back(c)
    PROVE  pc' \in [Caller -> States] /\ asked' \in [Caller -> Counters]
  <1>1. pc' \in [Caller -> States]
    BY DEF TypeOK, Back, States
  <1>2. asked' \in [Caller -> Counters]
    BY ConstantTypes DEF TypeOK, Back
  <1> QED BY <1>1, <1>2

-----------------------------------------------------------------------------
(* The transaction of recordXrayCounters, under the invariant: the cursor   *)
(* says what the incarnation was charged so far, so the charge brings the   *)
(* bill exactly to the reading.                                             *)

LEMMA RecordCharges ==
    ASSUME MeteringInv, NEW c \in Caller, NEW k \in Key, Record(c, k)
    PROVE  LET e == seen[c]  r == reading[c][k] IN
           /\ e \in Epoch /\ r \in 0..MaxBytes
           /\ bill[e][k] \in 0..r /\ r <= traffic[e][k]
           /\ Last(c, k) = bill[e][k]
           /\ bill' = [bill EXCEPT ![e][k] = r]
           /\ balance' = [balance EXCEPT ![k] = @ + (r - bill[e][k])]
           /\ cursor' = [cursor EXCEPT ![k] = [epoch |-> e, bytes |-> r]]
           /\ left' = [left EXCEPT ![c] = @ \ {k}]
           /\ UNCHANGED <<running, pc, seen, reading>>
  <1> USE ConstantTypes
  <1> DEFINE e == seen[c]  r == reading[c][k]
  <1>1. TypeOK /\ k[1] \in account /\ pc[c] = "record"
    BY DEF MeteringInv, Record
  <1>2. e \in Epoch
    <2>1. e \in 0..MaxEpoch
      BY <1>1 DEF TypeOK
    <2>2. e # Stopped /\ cursor[k].epoch <= e
      BY <1>1 DEF MeteringInv, CursorBehind, Active
    <2> QED BY <2>1, <2>2 DEF Epoch, Stopped
  <1>3. r \in 0..MaxBytes /\ bill[e] \in [Key -> 0..MaxBytes] /\ bill[e][k] \in 0..MaxBytes
    BY <1>1, <1>2 DEF TypeOK, Counters
  <1>4. cursor[k].epoch \in 0..MaxEpoch /\ cursor[k].epoch <= e
    BY <1>1 DEF TypeOK, MeteringInv, CursorBehind, Active
  <1>5. Last(c, k) = bill[e][k]
    <2>1. CASE cursor[k].epoch = e
      BY <1>1, <1>2, <2>1 DEF MeteringInv, CursorExact, Last, Epoch, Stopped
    <2>2. CASE cursor[k].epoch # e
      <3>1. e > cursor[k].epoch
        BY <1>2, <1>4, <2>2 DEF Epoch
      <3>2. bill[e][k] = 0
        BY <1>1, <1>2, <3>1 DEF MeteringInv, CursorExact
      <3> QED BY <2>2, <3>2 DEF Last
    <2> QED BY <2>1, <2>2
  <1>6. Last(c, k) <= r /\ r <= traffic[e][k]
    BY <1>1 DEF MeteringInv, ReadingSound, ReadingBetween
  <1>7. r - Last(c, k) >= 0
    BY <1>3, <1>5, <1>6
  <1>8. /\ balance' = [balance EXCEPT ![k] = @ + (r - Last(c, k))]
        /\ bill' = [bill EXCEPT ![e][k] = @ + (r - Last(c, k))]
        /\ cursor' = [cursor EXCEPT ![k] = [epoch |-> e, bytes |-> r]]
        /\ left' = [left EXCEPT ![c] = @ \ {k}]
        /\ UNCHANGED <<running, pc, seen, reading>>
    BY <1>7 DEF Record
  <1>9. bill' = [bill EXCEPT ![e][k] = r]
    <2>1. bill[e][k] + (r - bill[e][k]) = r
      BY <1>3
    <2> QED BY <1>5, <1>8, <2>1
  <1>10. bill[e][k] \in 0..r
    BY <1>3, <1>5, <1>6
  <1> QED BY <1>2, <1>3, <1>5, <1>6, <1>8, <1>9, <1>10

-----------------------------------------------------------------------------
(* Type correctness *)

\* What a step of a job leaves well typed, whichever it is.
LEMMA CollectType ==
    ASSUME MeteringInv, NEW c \in Caller, Collect(c)
    PROVE  TypeOK'
  <1> USE ConstantTypes
  <1>0. TypeOK
    BY DEF MeteringInv
  <1>1. CASE Call(c)
    <2>1. target' \in [{"reset", "remove"} -> User]
      BY <1>0, <1>1 DEF TypeOK, Call
    <2>2. pc' \in [Caller -> States]
      BY <1>0, <1>1 DEF TypeOK, Call, States
    <2>3. asked' \in [Caller -> Counters]
      BY <1>0, <1>1 DEF TypeOK, Call
    <2> QED BY <1>0, <1>1, <2>1, <2>2, <2>3
            DEF TypeOK, Call, coreVars, dbVars, jobVars
  <1>2. CASE ReadEpoch(c)
    <2>1. CASE ~up
      <3>1. Ends(c, "done") /\ "done" \in States
        BY <1>2, <2>1 DEF ReadEpoch, States
      <3> QED BY <1>0, <1>2, <3>1, EndsType DEF TypeOK, ReadEpoch, coreVars, dbVars, ghostVars
    <2>2. CASE up
      <3>1. pc' \in [Caller -> States] /\ seen' \in [Caller -> 0..MaxEpoch]
        BY <1>0, <1>2, <2>2 DEF TypeOK, ReadEpoch, States
      <3> QED BY <1>0, <1>2, <2>2, <3>1
              DEF TypeOK, ReadEpoch, coreVars, dbVars, ghostVars
    <2> QED BY <2>1, <2>2
  <1>3. CASE QueryStats(c)
    <2>1. CASE ~up
      <3>1. Ends(c, "failed") /\ "failed" \in States
        BY <1>3, <2>1 DEF QueryStats, States
      <3> QED BY <1>0, <1>3, <3>1, EndsType DEF TypeOK, QueryStats, coreVars, dbVars, ghostVars
    <2>2. CASE up
      <3>0. epoch \in Epoch
        BY <1>0, <2>2 DEF TypeOK, Epoch, Stopped
      <3>1. traffic[epoch] \in [Key -> 0..MaxBytes]
        BY <1>0, <3>0 DEF TypeOK, Counters
      <3>2. reading' \in [Caller -> [Key -> 0..MaxBytes]]
        BY <1>0, <1>3, <2>2, <3>1 DEF TypeOK, QueryStats
      <3>3. pc' \in [Caller -> States]
        BY <1>0, <1>3, <2>2 DEF TypeOK, QueryStats, States
      <3> QED BY <1>0, <1>3, <2>2, <3>2, <3>3
              DEF TypeOK, QueryStats, coreVars, dbVars, ghostVars
    <2> QED BY <2>1, <2>2
  <1>4. CASE CheckEpoch(c)
    <2>1. CASE ~SameCore(c)
      <3>1. Ends(c, "failed") /\ "failed" \in States
        BY <1>4, <2>1 DEF CheckEpoch, States
      <3> QED BY <1>0, <1>4, <3>1, EndsType DEF TypeOK, CheckEpoch, coreVars, dbVars, ghostVars
    <2>2. CASE SameCore(c)
      <3>1. pc' \in [Caller -> States]
        BY <1>0, <1>4, <2>2 DEF TypeOK, CheckEpoch, States
      <3>2. left' \in [Caller -> SUBSET Key]
        BY <1>0, <1>4, <2>2 DEF TypeOK, CheckEpoch
      <3> QED BY <1>0, <1>4, <2>2, <3>1, <3>2
              DEF TypeOK, CheckEpoch, coreVars, dbVars, ghostVars
    <2> QED BY <2>1, <2>2
  <1>5. ASSUME NEW k \in Key, Record(c, k) PROVE TypeOK'
    <2>0. /\ seen[c] \in Epoch /\ reading[c][k] \in 0..MaxBytes
          /\ bill' = [bill EXCEPT ![seen[c]][k] = reading[c][k]]
          /\ left' = [left EXCEPT ![c] = @ \ {k}]
      BY <1>5, RecordCharges
    <2>1. bill' \in Counters
      BY <1>0, <2>0 DEF TypeOK, Counters
    <2>2. balance' \in [Key -> Nat]
      <3>1. balance[k] + (reading[c][k] - bill[seen[c]][k]) \in Nat
        BY <1>0, <1>5, RecordCharges DEF TypeOK
      <3> QED BY <1>0, <1>5, <3>1, RecordCharges DEF TypeOK
    <2>3. cursor' \in [Key -> [epoch : 0..MaxEpoch, bytes : 0..MaxBytes]]
      BY <1>0, <1>5, RecordCharges DEF TypeOK, Epoch
    <2>4. left' \in [Caller -> SUBSET Key]
      BY <1>0, <2>0 DEF TypeOK
    <2>5. UNCHANGED <<running, pc, seen, reading>>
      BY <1>5, RecordCharges
    <2> QED BY <1>0, <1>5, <2>1, <2>2, <2>3, <2>4, <2>5 DEF TypeOK, Record, coreVars
  <1>6. ASSUME NEW k \in Key, RecordNobody(c, k) PROVE TypeOK'
    <2>1. left' \in [Caller -> SUBSET Key]
      BY <1>0, <1>6 DEF TypeOK, RecordNobody
    <2> QED BY <1>0, <1>6, <2>1 DEF TypeOK, RecordNobody, coreVars, dbVars, ghostVars
  <1>7. CASE CollectDone(c)
    <2>1. Ends(c, "done") /\ "done" \in States
      BY <1>7 DEF CollectDone, States
    <2> QED BY <1>0, <1>7, <2>1, EndsType DEF TypeOK, CollectDone, coreVars, dbVars, ghostVars
  <1>8. CASE CollectFails(c)
    <2>1. Ends(c, "failed") /\ "failed" \in States
      BY <1>8 DEF CollectFails, States
    <2> QED BY <1>0, <1>8, <2>1, EndsType DEF TypeOK, CollectFails, coreVars, dbVars, ghostVars
  <1> QED BY <1>1, <1>2, <1>3, <1>4, <1>5, <1>6, <1>7, <1>8 DEF Collect

LEMMA TypeStep == MeteringInv /\ [Next]_vars => TypeOK'
  <1> USE ConstantTypes
  <1> SUFFICES ASSUME MeteringInv, [Next]_vars PROVE TypeOK'
    OBVIOUS
  <1>0. TypeOK
    BY DEF MeteringInv
  <1>1. ASSUME NEW k \in Key, Serve(k) PROVE TypeOK'
    <2>1. epoch \in Epoch
      BY <1>0, <1>1 DEF TypeOK, Serve, Epoch, Stopped
    <2>2. traffic[epoch][k] + 1 \in 0..MaxBytes
      BY <1>0, <1>1, <2>1 DEF TypeOK, Serve, Counters
    <2>3. traffic' \in Counters
      BY <1>0, <1>1, <2>1, <2>2 DEF TypeOK, Serve, Counters
    <2> QED BY <1>0, <1>1, <2>3 DEF TypeOK, Serve, dbVars, panelVars, jobVars, ghostVars
  <1>2. CASE CoreStops
    BY <1>0, <1>2 DEF TypeOK, CoreStops, dbVars, panelVars, jobVars, ghostVars
  <1>3. CASE CoreStarts
    <2>1. epoch' \in 0..MaxEpoch /\ epoch' # Stopped
      BY <1>0, <1>3 DEF TypeOK, CoreStarts, Stopped
    <2> QED BY <1>0, <1>3, <2>1 DEF TypeOK, CoreStarts, dbVars, panelVars, jobVars, ghostVars
  <1>4. ASSUME NEW c \in Caller, Collect(c) PROVE TypeOK'
    BY <1>4, CollectType
  <1>5. CASE WorkerContinues
    <2>1. up' \in BOOLEAN /\ epoch' \in 0..MaxEpoch /\ (up' => epoch' # Stopped) /\ traffic' = traffic
      BY <1>0, <1>5 DEF TypeOK, WorkerContinues, Stop, coreVars
    <2>2. pc' \in [Caller -> States] /\ asked' \in [Caller -> Counters]
      BY <1>0, <1>5, BackType DEF WorkerContinues, Caller
    <2> QED BY <1>0, <1>5, <2>1, <2>2 DEF TypeOK, WorkerContinues, dbVars, jobVars
  <1>6. CASE SyncRestarts
    <2>1. epoch' \in 0..MaxEpoch /\ epoch' # Stopped
      BY <1>0, <1>6 DEF TypeOK, SyncRestarts, Stopped
    <2>2. pc' \in [Caller -> States] /\ asked' \in [Caller -> Counters]
      BY <1>0, <1>6, BackType DEF SyncRestarts, Caller
    <2> QED BY <1>0, <1>6, <2>1, <2>2 DEF TypeOK, SyncRestarts, dbVars, jobVars
  <1>7. CASE SyncStops
    <2>1. up' \in BOOLEAN /\ epoch' \in 0..MaxEpoch /\ (up' => epoch' # Stopped) /\ traffic' = traffic
      BY <1>0, <1>7 DEF TypeOK, SyncStops, Stop
    <2>2. pc' \in [Caller -> States] /\ asked' \in [Caller -> Counters]
      BY <1>0, <1>7, BackType DEF SyncStops, Caller
    <2> QED BY <1>0, <1>7, <2>1, <2>2 DEF TypeOK, SyncStops, dbVars, jobVars
  <1>8. CASE ResetUsage
    <2>1. balance' \in [Key -> Nat]
      BY <1>0, <1>8 DEF TypeOK, ResetUsage
    <2>2. forgiven' \in Counters
      <3>1. asked["reset"] \in Counters
        BY <1>0 DEF TypeOK, Caller
      <3>2. \A e \in Epoch, k \in Key :
               forgiven'[e][k] \in {asked["reset"][e][k], forgiven[e][k]}
        BY <1>8 DEF ResetUsage
      <3> QED BY <1>0, <1>8, <3>1, <3>2 DEF TypeOK, ResetUsage, Counters
    <2>3. pc' \in [Caller -> States] /\ asked' \in [Caller -> Counters]
      BY <1>0, <1>8, BackType DEF ResetUsage, Caller
    <2> QED BY <1>0, <1>8, <2>1, <2>2, <2>3
            DEF TypeOK, ResetUsage, CursorsKept, coreVars, jobVars
  <1>9. CASE RemoveUser
    <2>1. balance' \in [Key -> Nat]
      BY <1>0, <1>9 DEF TypeOK, RemoveUser
    <2>2. cursor' \in [Key -> [epoch : 0..MaxEpoch, bytes : 0..MaxBytes]]
      BY <1>0, <1>9 DEF TypeOK, RemoveUser, Stopped
    <2>3. pc' \in [Caller -> States] /\ asked' \in [Caller -> Counters]
      BY <1>0, <1>9, BackType DEF RemoveUser, Caller
    <2>4. account' \subseteq User
      BY <1>0, <1>9 DEF TypeOK, RemoveUser
    <2> QED BY <1>0, <1>9, <2>1, <2>2, <2>3, <2>4 DEF TypeOK, RemoveUser, coreVars, jobVars
  <1>10. ASSUME NEW c \in Caller, RequestFails(c) PROVE TypeOK'
    <2>1. pc' \in [Caller -> States] /\ asked' \in [Caller -> Counters]
      BY <1>0, <1>10, BackType DEF RequestFails
    <2> QED BY <1>0, <1>10, <2>1 DEF TypeOK, RequestFails, coreVars, dbVars, jobVars
  <1>11. CASE PanelRestart
    <2>1. pc' \in [Caller -> States] /\ seen' \in [Caller -> 0..MaxEpoch]
      BY <1>11 DEF PanelRestart, States, Stopped
    <2>2. /\ reading' \in [Caller -> [Key -> 0..MaxBytes]]
          /\ left' \in [Caller -> SUBSET Key] /\ asked' \in [Caller -> Counters]
      BY <1>11 DEF PanelRestart
    <2> QED BY <1>0, <1>11, <2>1, <2>2 DEF TypeOK, PanelRestart, coreVars, dbVars
  <1>12. CASE UNCHANGED vars
    BY <1>0, <1>12 DEF TypeOK, vars, coreVars, dbVars, panelVars, jobVars, ghostVars
  <1> QED BY <1>1, <1>2, <1>3, <1>4, <1>5, <1>6, <1>7, <1>8, <1>9, <1>10, <1>11, <1>12 DEF Next

-----------------------------------------------------------------------------
(* usageTail: one job at a time *)

LEMMA OneJobStep == MeteringInv /\ [Next]_vars => OneJob'
  <1> SUFFICES ASSUME MeteringInv, [Next]_vars PROVE OneJob'
    OBVIOUS
  <1>0. TypeOK /\ OneJob /\ NoCaller \notin Caller
    BY MeteringAssumption DEF MeteringInv
  <1>a. ASSUME NEW c \in Caller, NEW outcome \in {"done", "failed"}, Ends(c, outcome),
               running = c \/ Free
        PROVE  OneJob'
    BY <1>0, <1>a DEF OneJob, Ends, Free, Active, TypeOK
  <1>b. ASSUME NEW c \in Caller, Back(c), pc[c] \notin Active, UNCHANGED <<running, jobVars>>
        PROVE  OneJob'
    BY <1>0, <1>b DEF OneJob, Back, Active, TypeOK, jobVars
  <1>1. ASSUME NEW k \in Key, Serve(k) PROVE OneJob'
    BY <1>0, <1>1 DEF OneJob, Serve, panelVars, jobVars
  <1>2. CASE CoreStops \/ CoreStarts
    BY <1>0, <1>2 DEF OneJob, CoreStops, CoreStarts, panelVars, jobVars
  <1>3. ASSUME NEW c \in Caller, Call(c) PROVE OneJob'
    BY <1>0, <1>3 DEF OneJob, Call, Active, TypeOK, jobVars
  <1>4. ASSUME NEW c \in Caller, ReadEpoch(c) PROVE OneJob'
    <2>1. CASE ~up
      BY <1>4, <1>a, <2>1 DEF ReadEpoch
    <2>2. CASE up
      BY <1>0, <1>4, <2>2 DEF OneJob, ReadEpoch, Active, TypeOK, Free
    <2> QED BY <2>1, <2>2
  <1>5. ASSUME NEW c \in Caller, QueryStats(c) PROVE OneJob'
    <2>1. CASE ~up
      BY <1>5, <1>a, <2>1 DEF QueryStats
    <2>2. CASE up
      BY <1>0, <1>5, <2>2 DEF OneJob, QueryStats, Active, TypeOK
    <2> QED BY <2>1, <2>2
  <1>6. ASSUME NEW c \in Caller, CheckEpoch(c) PROVE OneJob'
    <2>1. CASE ~SameCore(c)
      BY <1>6, <1>a, <2>1 DEF CheckEpoch
    <2>2. CASE SameCore(c)
      BY <1>0, <1>6, <2>2 DEF OneJob, CheckEpoch, Active, TypeOK
    <2> QED BY <2>1, <2>2
  <1>7. ASSUME NEW c \in Caller, NEW k \in Key, Record(c, k) PROVE OneJob'
    <2>1. /\ left' = [left EXCEPT ![c] = @ \ {k}]
          /\ UNCHANGED <<running, pc>>
      BY <1>7, RecordCharges
    <2> QED BY <1>0, <1>7, <2>1 DEF OneJob, Record, TypeOK
  <1>8. ASSUME NEW c \in Caller, NEW k \in Key, RecordNobody(c, k) PROVE OneJob'
    BY <1>0, <1>8 DEF OneJob, RecordNobody, TypeOK
  <1>9. ASSUME NEW c \in Caller, CollectDone(c) \/ CollectFails(c) PROVE OneJob'
    BY <1>9, <1>a DEF CollectDone, CollectFails
  <1>10. CASE WorkerContinues
    BY <1>10, <1>b DEF WorkerContinues, Active, Caller
  <1>11. CASE SyncRestarts \/ SyncStops
    BY <1>11, <1>b DEF SyncRestarts, SyncStops, Drained, Active, Caller
  <1>12. CASE ResetUsage \/ RemoveUser
    BY <1>12, <1>b DEF ResetUsage, RemoveUser, Active, Caller
  <1>13. ASSUME NEW c \in Caller, RequestFails(c) PROVE OneJob'
    BY <1>13, <1>b DEF RequestFails, Active
  <1>14. CASE PanelRestart
    BY <1>0, <1>14 DEF OneJob, PanelRestart, Active
  <1>15. CASE UNCHANGED vars
    BY <1>0, <1>15 DEF OneJob, vars, panelVars, jobVars
  <1> QED BY <1>1, <1>2, <1>3, <1>4, <1>5, <1>6, <1>7, <1>8, <1>9, <1>10, <1>11, <1>12,
             <1>13, <1>14, <1>15 DEF Next, Collect

-----------------------------------------------------------------------------
(* What every step but one or two leaves alone *)

\* Only Record writes the bill, and only it and RemoveUser write a cursor or
\* an account.
LEMMA CursorUntouched ==
    ASSUME [Next]_vars, ~RemoveUser, \A c \in Caller, k \in Key : ~Record(c, k)
    PROVE  UNCHANGED <<account, cursor, bill>>
  <1>1. ASSUME NEW c \in Caller, Collect(c) PROVE UNCHANGED <<account, cursor, bill>>
    BY <1>1 DEF Collect, Call, ReadEpoch, QueryStats, CheckEpoch, RecordNobody, CollectDone,
                CollectFails, dbVars, ghostVars
  <1>2. CASE UNCHANGED vars
    BY <1>2 DEF vars, dbVars, ghostVars
  <1>3. CASE ResetUsage \/ WorkerContinues \/ SyncRestarts \/ SyncStops
    BY <1>3 DEF ResetUsage, CursorsKept, WorkerContinues, SyncRestarts, SyncStops, dbVars
  <1>4. CASE PanelRestart \/ CoreStops \/ CoreStarts \/ \E k \in Key : Serve(k)
    BY <1>4 DEF PanelRestart, CoreStops, CoreStarts, Serve, dbVars, ghostVars
  <1>5. ASSUME NEW c \in Caller, RequestFails(c) PROVE UNCHANGED <<account, cursor, bill>>
    BY <1>5 DEF RequestFails, dbVars
  <1> QED BY <1>1, <1>2, <1>3, <1>4, <1>5 DEF Next

\* Counters only grow, and incarnations only follow one another.
LEMMA CoreOnward ==
    ASSUME TypeOK, [Next]_vars
    PROVE  /\ epoch' \in Int /\ epoch <= epoch'
           /\ \A e \in Epoch, k \in Key : traffic[e][k] <= traffic'[e][k]
  <1> DEFINE Onward == /\ epoch' \in Int /\ epoch <= epoch'
                       /\ \A e \in Epoch, k \in Key : traffic[e][k] <= traffic'[e][k]
  <1> SUFFICES Onward
    OBVIOUS
  <1>0. epoch \in Int /\ \A e \in Epoch, k \in Key : traffic[e][k] \in Int
    BY ConstantTypes DEF TypeOK, Counters
  <1>1. CASE UNCHANGED <<epoch, traffic>>
    BY <1>0, <1>1
  <1>2. ASSUME NEW k \in Key, Serve(k) PROVE Onward
    BY <1>0, <1>2 DEF Serve, TypeOK, Counters
  <1>3. CASE CoreStarts \/ SyncRestarts
    BY <1>0, <1>3 DEF CoreStarts, SyncRestarts
  <1>4. CASE CoreStops \/ WorkerContinues \/ SyncStops \/ ResetUsage \/ RemoveUser \/ PanelRestart
    <2>1. UNCHANGED <<epoch, traffic>>
      BY <1>4 DEF CoreStops, WorkerContinues, SyncStops, Stop, ResetUsage, RemoveUser,
                  PanelRestart, coreVars
    <2> QED BY <1>1, <2>1
  <1>5. ASSUME NEW c \in Caller, Collect(c) PROVE Onward
    <2>1. UNCHANGED <<epoch, traffic>>
      BY <1>5 DEF Collect, Call, ReadEpoch, QueryStats, CheckEpoch, Record, RecordNobody,
                  CollectDone, CollectFails, coreVars
    <2> QED BY <1>1, <2>1
  <1>6. ASSUME NEW c \in Caller, RequestFails(c) PROVE Onward
    <2>1. UNCHANGED <<epoch, traffic>>
      BY <1>6 DEF RequestFails, coreVars
    <2> QED BY <1>1, <2>1
  <1>7. CASE UNCHANGED vars
    BY <1>1, <1>7 DEF vars, coreVars
  <1> HIDE DEF Onward
  <1> QED BY <1>2, <1>3, <1>4, <1>5, <1>6, <1>7 DEF Next

-----------------------------------------------------------------------------
(* Cursors, bills and readings *)

LEMMA CursorExactStep == MeteringInv /\ [Next]_vars => CursorExact'
  <1> SUFFICES ASSUME MeteringInv, [Next]_vars PROVE CursorExact'
    OBVIOUS
  <1>0. TypeOK /\ CursorExact
    BY DEF MeteringInv
  <1>1. ASSUME NEW c \in Caller, NEW k \in Key, Record(c, k) PROVE CursorExact'
    <2> DEFINE e == seen[c]  r == reading[c][k]
    <2>0. /\ e \in Epoch /\ bill' = [bill EXCEPT ![e][k] = r]
          /\ cursor' = [cursor EXCEPT ![k] = [epoch |-> e, bytes |-> r]]
          /\ account' = account
      BY <1>1, RecordCharges DEF Record
    <2> SUFFICES ASSUME NEW l \in Key, l[1] \in account
                 PROVE  /\ cursor'[l].epoch # Stopped
                              => bill'[cursor'[l].epoch][l] = cursor'[l].bytes
                        /\ \A f \in Epoch : f > cursor'[l].epoch => bill'[f][l] = 0
      BY <2>0 DEF CursorExact
    <2>1. CASE l = k
      <3>1. cursor'[l] = [epoch |-> e, bytes |-> r] /\ bill'[e][l] = r
        BY <1>0, <2>0, <2>1 DEF TypeOK, Counters
      <3>2. ASSUME NEW f \in Epoch, f > e PROVE bill'[f][l] = 0
        <4>1. bill'[f][l] = bill[f][l]
          BY <1>0, <2>0, <3>2 DEF TypeOK, Counters, Epoch
        <4>2. cursor[k].epoch <= e
          BY <1>1 DEF MeteringInv, CursorBehind, Record, Active
        <4>3. cursor[k].epoch \in Int /\ e \in Int /\ f \in Int
          BY <1>0, <2>0, ConstantTypes DEF TypeOK, Epoch
        <4>4. f > cursor[k].epoch
          BY <3>2, <4>2, <4>3
        <4> QED BY <1>0, <2>1, <4>1, <4>4 DEF CursorExact
      <3> QED BY <3>1, <3>2
    <2>2. CASE l # k
      <3>1. cursor'[l] = cursor[l]
        BY <1>0, <2>0, <2>2 DEF TypeOK
      <3>2. \A f \in Epoch : bill'[f][l] = bill[f][l]
        BY <1>0, <2>0, <2>2 DEF TypeOK, Counters
      <3>3. cursor[l].epoch # Stopped => cursor[l].epoch \in Epoch
        BY <1>0, ConstantTypes DEF TypeOK, Epoch, Stopped
      <3> QED BY <1>0, <3>1, <3>2, <3>3 DEF CursorExact
    <2> QED BY <2>1, <2>2
  <1>2. CASE RemoveUser
    BY <1>0, <1>2 DEF CursorExact, RemoveUser, TypeOK
  <1>3. CASE ~RemoveUser /\ \A c \in Caller, k \in Key : ~Record(c, k)
    BY <1>0, <1>3, CursorUntouched DEF CursorExact
  <1> QED BY <1>1, <1>2, <1>3

LEMMA ChargedCarriedStep == MeteringInv /\ [Next]_vars => ChargedCarried'
  <1> SUFFICES ASSUME MeteringInv, [Next]_vars, NEW e \in Epoch, NEW l \in Key
               PROVE  bill'[e][l] <= traffic'[e][l]
    BY DEF ChargedCarried
  <1>0. TypeOK /\ bill[e][l] <= traffic[e][l] /\ bill[e][l] \in Int /\ traffic[e][l] \in Int
    BY ConstantTypes DEF MeteringInv, ChargedCarried, TypeOK, Counters
  <1>1. traffic[e][l] <= traffic'[e][l] /\ traffic'[e][l] \in Int
    BY <1>0, CoreOnward, TypeStep, ConstantTypes DEF TypeOK, Counters
  <1>2. ASSUME NEW c \in Caller, NEW k \in Key, Record(c, k)
        PROVE  bill'[e][l] <= traffic[e][l]
    <2>1. /\ seen[c] \in Epoch /\ reading[c][k] <= traffic[seen[c]][k]
          /\ bill' = [bill EXCEPT ![seen[c]][k] = reading[c][k]]
      BY <1>2, RecordCharges
    <2>2. bill'[e][l] = IF e = seen[c] /\ l = k THEN reading[c][k] ELSE bill[e][l]
      BY <1>0, <2>1 DEF TypeOK, Counters
    <2> QED BY <1>0, <2>1, <2>2
  <1>3. ASSUME NEW c \in Caller, NEW k \in Key, Record(c, k) PROVE bill'[e][l] \in Int
    BY TypeStep, ConstantTypes DEF TypeOK, Counters
  <1>4. CASE \E c \in Caller, k \in Key : Record(c, k)
    BY <1>0, <1>1, <1>2, <1>3, <1>4
  <1>5. CASE RemoveUser \/ \A c \in Caller, k \in Key : ~Record(c, k)
    <2>1. bill' = bill
      BY <1>5, CursorUntouched DEF RemoveUser
    <2> QED BY <1>0, <1>1, <2>1
  <1> QED BY <1>4, <1>5

-----------------------------------------------------------------------------
(* The locals of the job that is executing *)

\* A job keeps the epoch it read first, and its reading once it has one.
LEMMA JobLocals ==
    ASSUME MeteringInv, [Next]_vars, NEW c \in Caller
    PROVE  /\ pc'[c] \in Active =>
                \/ pc[c] \in Active /\ seen'[c] = seen[c]
                \/ ReadEpoch(c) /\ up /\ seen'[c] = epoch
           /\ pc'[c] \in {"after", "record"} =>
                \/ QueryStats(c) /\ up
                \/ CheckEpoch(c) /\ SameCore(c)
                \/ pc'[c] = pc[c] /\ seen'[c] = seen[c] /\ reading'[c] = reading[c]
  <1> DEFINE Kept == /\ pc'[c] \in Active =>
                          \/ pc[c] \in Active /\ seen'[c] = seen[c]
                          \/ ReadEpoch(c) /\ up /\ seen'[c] = epoch
                     /\ pc'[c] \in {"after", "record"} =>
                          \/ QueryStats(c) /\ up
                          \/ CheckEpoch(c) /\ SameCore(c)
                          \/ pc'[c] = pc[c] /\ seen'[c] = seen[c] /\ reading'[c] = reading[c]
  <1> SUFFICES Kept
    OBVIOUS
  <1>0. TypeOK /\ OneJob
    BY DEF MeteringInv
  <1>1. CASE pc'[c] = pc[c] /\ seen'[c] = seen[c] /\ reading'[c] = reading[c]
    BY <1>1
  <1>2. CASE pc'[c] \notin Active
    BY <1>2 DEF Active
  <1>3. ASSUME NEW d \in Caller, Collect(d) PROVE Kept
    <2>1. CASE d # c
      <3>1. pc'[c] = pc[c] /\ seen'[c] = seen[c] /\ reading'[c] = reading[c]
        BY <1>0, <1>3, <2>1 DEF TypeOK, Collect, Call, ReadEpoch, QueryStats, CheckEpoch,
           Record, RecordNobody, CollectDone, CollectFails, Ends, jobVars
      <3> QED BY <1>1, <3>1
    <2>2. CASE d = c
      <3>0. \A outcome \in {"done", "failed"} : Ends(c, outcome) => pc'[c] \notin Active
        BY <1>0 DEF TypeOK, Ends, Active
      <3>1. CASE Call(c)
        BY <1>0, <3>1 DEF TypeOK, Call, Active
      <3>2. CASE ReadEpoch(c)
        BY <1>0, <3>0, <3>2 DEF TypeOK, ReadEpoch, Active
      <3>3. CASE QueryStats(c)
        BY <1>0, <3>0, <3>3 DEF TypeOK, QueryStats, Active
      <3>4. CASE CheckEpoch(c)
        BY <1>0, <3>0, <3>4 DEF TypeOK, CheckEpoch, Active
      <3>5. ASSUME NEW k \in Key, Record(c, k) \/ RecordNobody(c, k) PROVE Kept
        <4>1. UNCHANGED <<pc, seen, reading>>
          BY <3>5, RecordCharges DEF RecordNobody
        <4> QED BY <1>1, <4>1
      <3>6. CASE CollectDone(c) \/ CollectFails(c)
        BY <1>2, <3>0, <3>6 DEF CollectDone, CollectFails
      <3> QED BY <1>3, <2>2, <3>1, <3>2, <3>3, <3>4, <3>5, <3>6 DEF Collect
    <2> QED BY <2>1, <2>2
  <1>4. ASSUME NEW d \in Caller, Back(d), UNCHANGED jobVars PROVE Kept
    <2>1. pc'[c] = "idle" \/ pc'[c] = pc[c]
      BY <1>0, <1>4 DEF TypeOK, Back
    <2> QED BY <1>1, <1>2, <1>4, <2>1 DEF jobVars, Active
  <1>5. CASE WorkerContinues \/ SyncRestarts \/ SyncStops \/ ResetUsage \/ RemoveUser
    BY <1>4, <1>5 DEF WorkerContinues, SyncRestarts, SyncStops, ResetUsage, RemoveUser, Caller
  <1>6. ASSUME NEW d \in Caller, RequestFails(d) PROVE Kept
    BY <1>4, <1>6 DEF RequestFails
  <1>7. CASE PanelRestart
    BY <1>2, <1>7 DEF PanelRestart, Active
  <1>8. CASE UNCHANGED vars \/ CoreStops \/ CoreStarts \/ \E k \in Key : Serve(k)
    BY <1>1, <1>8 DEF vars, CoreStops, CoreStarts, Serve, panelVars, jobVars
  <1> HIDE DEF Kept
  <1> QED BY <1>3, <1>5, <1>6, <1>7, <1>8 DEF Next

LEMMA CursorBehindStep == MeteringInv /\ [Next]_vars => CursorBehind'
  <1> SUFFICES ASSUME MeteringInv, [Next]_vars PROVE CursorBehind'
    OBVIOUS
  <1>0. /\ TypeOK /\ OneJob /\ CursorBehind /\ epoch \in Int /\ TypeOK'
        /\ epoch' \in Int /\ epoch <= epoch'
        /\ \A c \in Caller : seen[c] \in Int
        /\ \A k \in Key : cursor[k].epoch \in Int /\ cursor'[k].epoch \in Int
    BY CoreOnward, TypeStep, ConstantTypes DEF MeteringInv, TypeOK
  <1>1. ASSUME NEW k \in Key
        PROVE  \/ cursor'[k].epoch = cursor[k].epoch
               \/ cursor'[k].epoch = Stopped
               \/ \E c \in Caller : /\ pc[c] = "record" /\ running = c /\ pc' = pc
                                      /\ cursor'[k].epoch = seen[c]
    <2>1. ASSUME NEW c \in Caller, NEW l \in Key, Record(c, l)
          PROVE  \/ cursor'[k].epoch = cursor[k].epoch
                 \/ /\ pc[c] = "record" /\ running = c /\ pc' = pc
                    /\ cursor'[k].epoch = seen[c]
      <3>1. /\ cursor' = [cursor EXCEPT ![l] = [epoch |-> seen[c], bytes |-> reading[c][l]]]
            /\ pc' = pc
        BY <2>1, RecordCharges
      <3> QED BY <1>0, <2>1, <3>1 DEF TypeOK, Record
    <2>2. CASE RemoveUser
      BY <2>2 DEF RemoveUser
    <2>3. CASE ~RemoveUser /\ \A c \in Caller, l \in Key : ~Record(c, l)
      BY <2>3, CursorUntouched
    <2> QED BY <2>1, <2>2, <2>3
  <1>2. ASSUME NEW k \in Key PROVE cursor'[k].epoch <= epoch'
    <2>1. CASE cursor'[k].epoch = cursor[k].epoch \/ cursor'[k].epoch = Stopped
      BY <1>0, <2>1 DEF CursorBehind, Stopped, TypeOK
    <2>2. ASSUME NEW c \in Caller, pc[c] = "record", cursor'[k].epoch = seen[c]
          PROVE  cursor'[k].epoch <= epoch'
      BY <1>0, <2>2 DEF CursorBehind, Active
    <2> QED BY <1>1, <2>1, <2>2
  <1>3. ASSUME NEW c \in Caller, pc'[c] \in Active
        PROVE  /\ seen'[c] # Stopped /\ seen'[c] <= epoch' /\ seen'[c] \in Int
               /\ \A k \in Key : cursor[k].epoch <= seen'[c]
               /\ Stopped <= seen'[c]
    <2>1. CASE pc[c] \in Active /\ seen'[c] = seen[c]
      BY <1>0, <2>1 DEF CursorBehind, TypeOK, Stopped
    <2>2. CASE ReadEpoch(c) /\ up /\ seen'[c] = epoch
      BY <1>0, <2>2 DEF CursorBehind, TypeOK, Stopped
    <2> QED BY <1>3, <2>1, <2>2, JobLocals
  <1>4. ASSUME NEW c \in Caller, pc'[c] \in Active, NEW k \in Key
        PROVE  cursor'[k].epoch <= seen'[c]
    <2>1. CASE cursor'[k].epoch = cursor[k].epoch \/ cursor'[k].epoch = Stopped
      BY <1>3, <1>4, <2>1
    <2>2. ASSUME NEW d \in Caller, pc[d] = "record", running = d, pc' = pc,
                 cursor'[k].epoch = seen[d]
          PROVE  cursor'[k].epoch <= seen'[c]
      <3>1. d = c
        BY <1>0, <1>4, <2>2 DEF OneJob
      <3>2. seen'[c] = seen[c]
        BY <1>4, <2>2, <3>1, JobLocals DEF ReadEpoch, Active
      <3> QED BY <1>0, <2>2, <3>1, <3>2
    <2> QED BY <1>1, <2>1, <2>2
  <1> QED BY <1>2, <1>3, <1>4 DEF CursorBehind

LEMMA ReadingSoundStep == MeteringInv /\ [Next]_vars => ReadingSound'
  <1> SUFFICES ASSUME MeteringInv, [Next]_vars, NEW c \in Caller,
                      pc'[c] = "record" \/ (pc'[c] = "after" /\ epoch' = seen'[c]),
                      NEW k \in Key
               PROVE  /\ reading'[c][k] <= traffic'[seen'[c]][k]
                      /\ k[1] \in account' => Last(c, k)' <= reading'[c][k]
    BY DEF ReadingSound, ReadingBetween
  <1>0. /\ TypeOK /\ TypeOK' /\ OneJob /\ CursorExact /\ ChargedCarried
        /\ CursorBehind /\ CursorBehind' /\ ReadingSound
        /\ epoch \in Int /\ epoch' \in Int /\ epoch <= epoch'
    BY CoreOnward, TypeStep, CursorBehindStep, ConstantTypes DEF MeteringInv, TypeOK
  <1>1. seen'[c] \in Epoch
    <2>1. seen'[c] \in 0..MaxEpoch /\ seen'[c] # Stopped
      BY <1>0 DEF TypeOK, CursorBehind, Active
    <2> QED BY <2>1 DEF Epoch, Stopped
  <1>2. CASE QueryStats(c) /\ up
    <2>1. /\ pc'[c] = "after" /\ seen' = seen /\ epoch' = epoch /\ traffic' = traffic
          /\ reading'[c] = traffic[epoch] /\ UNCHANGED <<account, cursor>>
      BY <1>0, <1>2 DEF QueryStats, TypeOK, coreVars, dbVars
    <2>2. seen[c] = epoch /\ epoch \in Epoch
      BY <1>1, <2>1
    <2>3. traffic[epoch][k] \in 0..MaxBytes
      BY <1>0, <2>2 DEF TypeOK, Counters
    <2>4. ASSUME k[1] \in account PROVE Last(c, k) <= traffic[epoch][k]
      <3>1. CASE cursor[k].epoch = epoch
        <4>1. cursor[k].bytes = bill[epoch][k]
          BY <1>0, <2>2, <2>4, <3>1 DEF CursorExact, Epoch, Stopped
        <4> QED BY <1>0, <2>2, <3>1, <4>1 DEF Last, ChargedCarried
      <3>2. CASE cursor[k].epoch # epoch
        BY <2>2, <2>3, <3>2, ConstantTypes DEF Last
      <3> QED BY <3>1, <3>2
    <2>5. Last(c, k)' = Last(c, k)
      BY <2>1 DEF Last
    <2> QED BY <2>1, <2>2, <2>3, <2>4, <2>5, ConstantTypes
  <1>3. ASSUME pc[c] = "record" \/ (pc[c] = "after" /\ epoch = seen[c]),
               seen'[c] = seen[c], reading'[c] = reading[c]
        PROVE  /\ reading'[c][k] <= traffic'[seen'[c]][k]
               /\ k[1] \in account' => Last(c, k)' <= reading'[c][k]
    <2>1. reading[c][k] <= traffic[seen[c]][k]
      BY <1>0, <1>3 DEF ReadingSound, ReadingBetween
    <2>2. traffic[seen[c]][k] <= traffic'[seen[c]][k]
      BY <1>0, <1>1, <1>3, CoreOnward
    <2>3. /\ reading[c][k] \in Int /\ traffic[seen[c]][k] \in Int
          /\ traffic'[seen[c]][k] \in Int
      BY <1>0, <1>1, <1>3, ConstantTypes DEF TypeOK, Counters
    <2>4. k[1] \in account => Last(c, k) <= reading[c][k]
      BY <1>0, <1>3 DEF ReadingSound, ReadingBetween
    <2>5. ASSUME k[1] \in account' PROVE Last(c, k)' <= reading[c][k]
      <3>1. ASSUME NEW d \in Caller, NEW l \in Key, Record(d, l)
            PROVE  Last(c, k)' <= reading[c][k]
        <4>1. d = c
          BY <1>0, <1>3, <3>1 DEF OneJob, Record, Active
        <4>2. /\ cursor' = [cursor EXCEPT ![l] = [epoch |-> seen[c], bytes |-> reading[c][l]]]
              /\ account' = account
          BY <3>1, <4>1, RecordCharges DEF Record
        <4>3. CASE l = k
          BY <1>0, <1>3, <2>3, <4>2, <4>3 DEF Last, TypeOK
        <4>4. CASE l # k
          <5>1. cursor'[k] = cursor[k]
            BY <1>0, <4>2, <4>4 DEF TypeOK
          <5> QED BY <1>3, <2>4, <2>5, <4>2, <5>1 DEF Last
        <4> QED BY <4>3, <4>4
      <3>2. CASE RemoveUser
        <4>1. k[1] \in account /\ cursor'[k] = cursor[k]
          BY <2>5, <3>2 DEF RemoveUser
        <4> QED BY <1>3, <2>4, <4>1 DEF Last
      <3>3. CASE ~RemoveUser /\ \A d \in Caller, l \in Key : ~Record(d, l)
        BY <1>3, <2>4, <2>5, <3>3, CursorUntouched DEF Last
      <3> QED BY <3>1, <3>2, <3>3
    <2> QED BY <1>3, <2>1, <2>2, <2>3, <2>5
  <1>4. CASE CheckEpoch(c) /\ SameCore(c)
    <2>1. pc[c] = "after" /\ epoch = seen[c] /\ seen' = seen /\ reading' = reading
      BY <1>4 DEF CheckEpoch, SameCore
    <2> QED BY <1>3, <2>1
  <1>5. CASE pc'[c] = pc[c] /\ seen'[c] = seen[c] /\ reading'[c] = reading[c]
    <2>1. CASE pc[c] = "record"
      BY <1>3, <1>5, <2>1
    <2>2. CASE pc[c] # "record"
      <3>1. pc[c] = "after" /\ epoch' = seen[c]
        BY <1>5, <2>2
      <3>2. seen[c] <= epoch
        BY <1>0, <3>1 DEF CursorBehind, Active
      <3>3. epoch = seen[c]
        BY <1>0, <3>1, <3>2
      <3> QED BY <1>3, <1>5, <3>1, <3>3
    <2> QED BY <2>1, <2>2
  <1> QED BY <1>2, <1>4, <1>5, JobLocals

\* Cursors, bills and the reading of the one running job agree at every step of
\* collectXrayUsage (xrayUsage.js), through crashes of the core and the panel.
THEOREM MeteringInvariant == Spec => []MeteringInv
  <1>1. MeteringInv /\ [Next]_vars => MeteringInv'
    BY TypeStep, OneJobStep, CursorExactStep, ChargedCarriedStep, CursorBehindStep,
       ReadingSoundStep DEF MeteringInv
  <1> QED BY InitInv, <1>1, PTL DEF Spec

-----------------------------------------------------------------------------
(* Theorems *)

\* Everything the panel, PostgreSQL and the core hold is well formed.
THEOREM MeteringTypeCorrect == Spec => []TypeOK
  <1>1. MeteringInv => TypeOK
    BY DEF MeteringInv
  <1> QED BY <1>1, MeteringInvariant, PTL

\* counterDelta never throws XRAY_COUNTER_REGRESSED (sharedUsage.js:9, the jobs
\* of concurrent syncs, polls and requests do not overtake one another).
THEOREM NeverRegressedTheorem == Spec => []NeverRegressed
  <1>1. MeteringInv => NeverRegressed
    <2> SUFFICES ASSUME MeteringInv, NEW c \in Caller, NEW k \in left[c], k[1] \in account
                 PROVE  reading[c][k] >= Last(c, k)
      BY DEF NeverRegressed
    <2>1. TypeOK /\ pc[c] = "record"
      BY DEF MeteringInv, OneJob
    <2>2. k \in Key
      BY <2>1 DEF TypeOK
    <2>3. Last(c, k) <= reading[c][k]
      BY <2>1, <2>2 DEF MeteringInv, ReadingSound, ReadingBetween
    <2> QED BY <2>3
  <1> QED BY <1>1, MeteringInvariant, PTL

\* A step of the metering is a step of the ledger, or changes nothing in it.
LEMMA LedgerStep == MeteringInv /\ [Next]_vars => [Ledger!Next]_<<traffic, bill, balance>>
  <1> SUFFICES ASSUME MeteringInv, [Next]_vars
               PROVE  [Ledger!Next]_<<traffic, bill, balance>>
    OBVIOUS
  <1>0. TypeOK
    BY DEF MeteringInv
  <1>1. ASSUME NEW k \in Key, Serve(k) PROVE Ledger!Next
    <2>1. epoch \in Epoch
      BY <1>0, <1>1 DEF TypeOK, Serve, Epoch, Stopped
    <2>2. Ledger!Carry(epoch, k)
      BY <1>1 DEF Serve, Ledger!Carry, dbVars, ghostVars
    <2> QED BY <2>1, <2>2 DEF Ledger!Next
  <1>2. ASSUME NEW c \in Caller, NEW k \in Key, Record(c, k)
        PROVE  [Ledger!Next]_<<traffic, bill, balance>>
    <2> DEFINE e == seen[c]  r == reading[c][k]  n == r - bill[e][k]
    <2>1. /\ e \in Epoch /\ bill[e][k] \in 0..r /\ r <= traffic[e][k] /\ r \in 0..MaxBytes
          /\ bill' = [bill EXCEPT ![e][k] = r]
          /\ balance' = [balance EXCEPT ![k] = @ + n]
          /\ traffic' = traffic
      BY <1>2, RecordCharges DEF Record, coreVars
    <2>2. /\ r \in Int /\ bill[e][k] \in Int /\ traffic[e][k] \in Int /\ balance[k] \in Int
          /\ bill[e] \in [Key -> 0..MaxBytes] /\ bill \in [Epoch -> [Key -> 0..MaxBytes]]
      BY <1>0, <2>1, ConstantTypes DEF TypeOK, Counters
    <2>3. CASE r = bill[e][k]
      <3>1. bill' = bill
        BY <2>1, <2>2, <2>3
      <3>2. balance' = balance
        BY <1>0, <2>1, <2>2, <2>3 DEF TypeOK
      <3> QED BY <2>1, <3>1, <3>2
    <2>4. CASE r # bill[e][k]
      <3>1. n \in 1..(traffic[e][k] - bill[e][k])
        BY <2>1, <2>2, <2>4
      <3>2. bill' = [bill EXCEPT ![e][k] = @ + n]
        <4>1. bill[e][k] + n = r
          BY <2>2
        <4> HIDE DEF n, r, e
        <4> QED BY <2>1, <4>1
      <3>3. Ledger!Charge(e, k)
        BY <2>1, <3>1, <3>2 DEF Ledger!Charge
      <3> QED BY <2>1, <3>3 DEF Ledger!Next
    <2> QED BY <2>3, <2>4
  <1>3. ASSUME NEW u, balance' = [k \in Key |-> IF k[1] = u THEN 0 ELSE balance[k]],
               UNCHANGED <<traffic, bill>>
        PROVE  Ledger!Next
    <2> DEFINE K == {k \in Key : k[1] = u}
    <2>1. Ledger!Clear(K)
      BY <1>3 DEF Ledger!Clear
    <2> QED BY <2>1 DEF Ledger!Next
  <1>4. CASE ResetUsage \/ RemoveUser
    <2>1. CASE ResetUsage
      <3>1. /\ balance' = [k \in Key |-> IF k[1] = target["reset"] THEN 0 ELSE balance[k]]
            /\ UNCHANGED <<traffic, bill>>
        BY <2>1 DEF ResetUsage, coreVars
      <3> QED BY <1>3, <3>1
    <2>2. CASE RemoveUser
      <3>1. /\ balance' = [k \in Key |-> IF k[1] = target["remove"] THEN 0 ELSE balance[k]]
            /\ UNCHANGED <<traffic, bill>>
        BY <2>2 DEF RemoveUser, coreVars
      <3> QED BY <1>3, <3>1
    <2> QED BY <1>4, <2>1, <2>2
  <1>5. CASE UNCHANGED <<traffic, bill, balance>>
    BY <1>5
  <1>6. ASSUME NEW c \in Caller, Collect(c), \A k \in Key : ~Record(c, k)
        PROVE  UNCHANGED <<traffic, bill, balance>>
    BY <1>6 DEF Collect, Call, ReadEpoch, QueryStats, CheckEpoch, RecordNobody,
                CollectDone, CollectFails, coreVars, dbVars, ghostVars
  <1>7. CASE CoreStops \/ CoreStarts \/ WorkerContinues \/ SyncRestarts \/ SyncStops \/ PanelRestart
    <2>1. UNCHANGED <<traffic, bill, balance>>
      BY <1>7 DEF CoreStops, CoreStarts, WorkerContinues, SyncRestarts, SyncStops, Stop,
                  PanelRestart, coreVars, dbVars, ghostVars
    <2> QED BY <2>1
  <1>8. ASSUME NEW c \in Caller, RequestFails(c) PROVE UNCHANGED <<traffic, bill, balance>>
    BY <1>8 DEF RequestFails, coreVars, dbVars
  <1>9. CASE UNCHANGED vars
    BY <1>9 DEF vars, coreVars, dbVars, ghostVars
  <1> QED BY <1>1, <1>2, <1>4, <1>5, <1>6, <1>7, <1>8, <1>9 DEF Next

\* The metering implements the ledger: no byte is charged twice, none before it
\* was carried, and the balance of an account is the sum of what it was charged
\* since its last reset.
THEOREM LedgerTheorem == Spec => ImplementsLedger
  <1>1. Init => Ledger!Init
    BY DEF Init, Ledger!Init, Nothing, NoBytes
  <1> QED BY <1>1, LedgerStep, MeteringInvariant, PTL DEF Spec, ImplementsLedger, Ledger!Spec

-----------------------------------------------------------------------------
(* What a collection promises the sync and the reset that waited for it     *)

\* No job charges bytes of incarnation e any more.
Dead(e) ==
    /\ e < epoch \/ (e = epoch /\ ~up)
    /\ \A c \in Caller : pc[c] \in Active => seen[c] # e

\* What a caller asked to have collected was carried then, by incarnations its
\* job can see, and is in the reading the job records.
AskedSound ==
    /\ \A e \in Epoch, k \in Key : e > epoch => traffic[e][k] = 0
    /\ \A c \in Caller, e \in Epoch, k \in Key :
        /\ asked[c][e][k] <= traffic[e][k]
        /\ pc[c] \in Active /\ e > seen[c] => asked[c][e][k] = 0
    /\ \A c \in Caller, k \in Key :
        pc[c] = "record" \/ (pc[c] = "after" /\ epoch = seen[c])
        => asked[c][seen[c]][k] <= reading[c][k]

\* What a job has recorded is charged.
RecordedCharged ==
    \A c \in Caller, k \in Key :
        pc[c] = "record" /\ k \notin left[c] /\ k[1] \in account
        => reading[c][k] <= bill[seen[c]][k]

\* After a collection that succeeded, what was asked for is charged, unless its
\* incarnation ended before the job could read it: then it never will be.
CollectedCharged ==
    \A c \in Caller, e \in Epoch, k \in Key :
        pc[c] = "done" /\ k[1] \in account => asked[c][e][k] <= bill[e][k] \/ Dead(e)

DrainInv == AskedSound /\ RecordedCharged /\ CollectedCharged

\* Relative to the bill at the last reset, `base'
BaseSound(base) ==
    \A e \in Epoch, k \in Key :
        /\ forgiven[e][k] <= traffic[e][k] /\ base[e][k] <= bill[e][k]
        /\ \/ forgiven[e][k] <= base[e][k]
           \/ bill[e][k] = base[e][k] /\ (Dead(e) \/ k[1] \notin account)

ResetInv ==
    \E base \in Counters :
        /\ BaseSound(base)
        /\ \A k \in Key : balance[k] <= Total([e \in Epoch |-> bill[e][k] - base[e][k]])
-----------------------------------------------------------------------------
(* How a step changes what the history and the core say *)

LEMMA AskedChanges ==
    ASSUME TypeOK, [Next]_vars, NEW c \in Caller
    PROVE  \/ asked'[c] = asked[c] \/ asked'[c] = Nothing
           \/ asked'[c] = traffic /\ traffic' = traffic /\ epoch' = epoch /\ pc'[c] = "waiting"
  <1> DEFINE Changes ==
        \/ asked'[c] = asked[c] \/ asked'[c] = Nothing
        \/ asked'[c] = traffic /\ traffic' = traffic /\ epoch' = epoch /\ pc'[c] = "waiting"
  <1> SUFFICES Changes
    OBVIOUS
  <1>1. CASE UNCHANGED asked
    BY <1>1
  <1>2. ASSUME NEW d \in Caller, Back(d) PROVE Changes
    BY <1>2 DEF TypeOK, Back
  <1>3. ASSUME NEW d \in Caller, Call(d) PROVE Changes
    BY <1>3 DEF TypeOK, Call, coreVars
  <1>4. ASSUME NEW d \in Caller, Collect(d), ~Call(d) PROVE Changes
    BY <1>1, <1>4 DEF Collect, ReadEpoch, QueryStats, CheckEpoch, Record, RecordNobody,
                      CollectDone, CollectFails, ghostVars
  <1>5. CASE PanelRestart
    BY <1>5 DEF PanelRestart
  <1>6. CASE WorkerContinues \/ SyncRestarts \/ SyncStops \/ ResetUsage \/ RemoveUser
    BY <1>2, <1>6 DEF WorkerContinues, SyncRestarts, SyncStops, ResetUsage, RemoveUser, Caller
  <1>7. ASSUME NEW d \in Caller, RequestFails(d) PROVE Changes
    BY <1>2, <1>7 DEF RequestFails
  <1>8. CASE UNCHANGED vars \/ CoreStops \/ CoreStarts \/ \E k \in Key : Serve(k)
    BY <1>1, <1>8 DEF vars, CoreStops, CoreStarts, Serve, ghostVars
  <1> HIDE DEF Changes
  <1> QED BY <1>3, <1>4, <1>5, <1>6, <1>7, <1>8 DEF Next

\* A core that is not running has to start, and then it is another one.
LEMMA CoreAnew ==
    ASSUME TypeOK, [Next]_vars, epoch' = epoch, up'
    PROVE  up
  <1>1. epoch \in Int
    BY ConstantTypes DEF TypeOK
  <1>2. ~CoreStarts /\ ~SyncRestarts
    BY <1>1 DEF CoreStarts, SyncRestarts
  <1>3. CASE UNCHANGED up
    BY <1>3
  <1>4. CASE CoreStops \/ WorkerContinues \/ SyncStops
    BY <1>4 DEF CoreStops, WorkerContinues, SyncStops, Stop, coreVars
  <1>5. ASSUME NEW c \in Caller, Collect(c) PROVE UNCHANGED up
    BY <1>5 DEF Collect, Call, ReadEpoch, QueryStats, CheckEpoch, Record, RecordNobody,
                CollectDone, CollectFails, coreVars
  <1>6. CASE ResetUsage \/ RemoveUser \/ PanelRestart \/ \E k \in Key : Serve(k)
    BY <1>6 DEF ResetUsage, RemoveUser, PanelRestart, Serve, coreVars
  <1>7. ASSUME NEW c \in Caller, RequestFails(c) PROVE UNCHANGED up
    BY <1>7 DEF RequestFails, coreVars
  <1>8. CASE UNCHANGED vars
    BY <1>8 DEF vars, coreVars
  <1> QED BY <1>2, <1>3, <1>4, <1>5, <1>6, <1>7, <1>8 DEF Next

\* An incarnation that cannot be charged stays so.
LEMMA DeadStays ==
    ASSUME MeteringInv, [Next]_vars, NEW e \in Epoch, Dead(e)
    PROVE  Dead(e)'
  <1>0. TypeOK /\ e \in Int /\ epoch \in Int /\ epoch' \in Int /\ epoch <= epoch'
    BY CoreOnward, ConstantTypes DEF MeteringInv, TypeOK, Epoch
  <1>1. e < epoch' \/ (e = epoch' /\ ~up')
    <2>1. CASE e < epoch
      BY <1>0, <2>1
    <2>2. CASE e = epoch /\ ~up
      BY <1>0, <2>2, CoreAnew
    <2> QED BY <2>1, <2>2 DEF Dead
  <1>2. ASSUME NEW c \in Caller, pc'[c] \in Active PROVE seen'[c] # e
    <2>1. CASE pc[c] \in Active /\ seen'[c] = seen[c]
      BY <2>1 DEF Dead
    <2>2. CASE ReadEpoch(c) /\ up /\ seen'[c] = epoch
      BY <1>0, <2>2 DEF Dead
    <2> QED BY <1>2, <2>1, <2>2, JobLocals
  <1> QED BY <1>1, <1>2 DEF Dead

\* Bills only grow, those of live accounts and of incarnations that are not dead.
LEMMA BillGrows ==
    ASSUME MeteringInv, [Next]_vars, NEW e \in Epoch, NEW k \in Key
    PROVE  /\ bill[e][k] \in Nat /\ bill'[e][k] \in Nat /\ bill[e][k] <= bill'[e][k]
           /\ bill'[e][k] # bill[e][k] => k[1] \in account /\ ~Dead(e)
           /\ account' \subseteq account
  <1>0. TypeOK /\ TypeOK'
    BY TypeStep DEF MeteringInv
  <1>1. bill[e][k] \in Nat /\ bill'[e][k] \in Nat
    BY <1>0, ConstantTypes DEF TypeOK, Counters
  <1>2. ASSUME NEW c \in Caller, NEW l \in Key, Record(c, l)
        PROVE  /\ bill[e][k] <= bill'[e][k] /\ account' \subseteq account
               /\ bill'[e][k] # bill[e][k] => k[1] \in account /\ ~Dead(e)
    <2>1. /\ seen[c] \in Epoch /\ bill[seen[c]][l] \in 0..reading[c][l]
          /\ bill' = [bill EXCEPT ![seen[c]][l] = reading[c][l]]
          /\ pc[c] = "record" /\ l[1] \in account /\ account' = account
          /\ reading[c][l] \in 0..MaxBytes
      BY <1>2, RecordCharges DEF Record
    <2>2. bill'[e][k] = IF e = seen[c] /\ k = l THEN reading[c][l] ELSE bill[e][k]
      BY <1>0, <2>1 DEF TypeOK, Counters
    <2>3. CASE e = seen[c] /\ k = l
      BY <1>1, <2>1, <2>2, <2>3, ConstantTypes DEF Dead, Active
    <2>4. CASE ~(e = seen[c] /\ k = l)
      BY <1>1, <2>1, <2>2, <2>4
    <2> QED BY <2>3, <2>4
  <1>3. CASE RemoveUser
    BY <1>1, <1>3 DEF RemoveUser
  <1>4. CASE ~RemoveUser /\ \A c \in Caller, l \in Key : ~Record(c, l)
    BY <1>1, <1>4, CursorUntouched
  <1> QED BY <1>1, <1>2, <1>3, <1>4

\* A collection succeeds when it is through, or when there is no core to ask.
LEMMA DoneComes ==
    ASSUME MeteringInv, [Next]_vars, NEW c \in Caller, pc'[c] = "done"
    PROVE  \/ pc[c] = "done"
           \/ ReadEpoch(c) /\ ~up
           \/ CollectDone(c)
  <1> DEFINE Comes == pc[c] = "done" \/ (ReadEpoch(c) /\ ~up) \/ CollectDone(c)
  <1> SUFFICES Comes
    OBVIOUS
  <1>0. TypeOK
    BY DEF MeteringInv
  <1>1. CASE pc'[c] = pc[c]
    BY <1>1
  <1>2. ASSUME NEW d \in Caller, Collect(d) PROVE Comes
    <2>1. CASE d # c
      <3>1. pc'[c] = pc[c]
        BY <1>0, <1>2, <2>1 DEF TypeOK, Collect, Call, ReadEpoch, QueryStats, CheckEpoch,
           Record, RecordNobody, CollectDone, CollectFails, Ends
      <3> QED BY <1>1, <3>1
    <2>2. CASE d = c
      <3>1. CASE Call(c) \/ QueryStats(c) \/ CheckEpoch(c) \/ CollectFails(c)
        BY <1>0, <3>1 DEF TypeOK, Call, QueryStats, CheckEpoch, CollectFails, Ends
      <3>2. CASE ReadEpoch(c)
        BY <1>0, <3>2 DEF TypeOK, ReadEpoch
      <3>3. ASSUME NEW k \in Key, Record(c, k) \/ RecordNobody(c, k) PROVE Comes
        BY <1>1, <3>3, RecordCharges DEF RecordNobody
      <3> QED BY <1>2, <2>2, <3>1, <3>2, <3>3 DEF Collect
    <2> QED BY <2>1, <2>2
  <1>3. ASSUME NEW d \in Caller, Back(d) PROVE Comes
    BY <1>0, <1>3 DEF TypeOK, Back
  <1>4. CASE WorkerContinues \/ SyncRestarts \/ SyncStops \/ ResetUsage \/ RemoveUser
    BY <1>3, <1>4 DEF WorkerContinues, SyncRestarts, SyncStops, ResetUsage, RemoveUser, Caller
  <1>5. ASSUME NEW d \in Caller, RequestFails(d) PROVE Comes
    BY <1>3, <1>5 DEF RequestFails
  <1>6. CASE PanelRestart
    BY <1>6 DEF PanelRestart
  <1>7. CASE UNCHANGED vars \/ CoreStops \/ CoreStarts \/ \E k \in Key : Serve(k)
    BY <1>1, <1>7 DEF vars, CoreStops, CoreStarts, Serve, panelVars
  <1> HIDE DEF Comes
  <1> QED BY <1>2, <1>4, <1>5, <1>6, <1>7 DEF Next

-----------------------------------------------------------------------------
(* What was asked for, read and recorded *)

LEMMA AskedSoundStep ==
    ASSUME MeteringInv, AskedSound, [Next]_vars
    PROVE  AskedSound'
  <1>0. /\ TypeOK /\ TypeOK' /\ epoch \in Int /\ epoch' \in Int /\ epoch <= epoch'
        /\ CursorBehind'
    BY CoreOnward, TypeStep, CursorBehindStep, ConstantTypes DEF MeteringInv, TypeOK
  <1>1. \A e \in Epoch, k \in Key :
            /\ traffic[e][k] \in Nat /\ traffic'[e][k] \in Nat
            /\ traffic[e][k] <= traffic'[e][k] /\ e \in Int
            /\ \A c \in Caller : asked[c][e][k] \in Nat /\ asked'[c][e][k] \in Nat
    <2> SUFFICES ASSUME NEW e \in Epoch, NEW k \in Key
                 PROVE  /\ traffic[e][k] \in Nat /\ traffic'[e][k] \in Nat
                        /\ traffic[e][k] <= traffic'[e][k] /\ e \in Int
                        /\ \A c \in Caller : asked[c][e][k] \in Nat /\ asked'[c][e][k] \in Nat
      OBVIOUS
    <2>1. traffic[e][k] \in Nat /\ traffic'[e][k] \in Nat
      BY <1>0, ConstantTypes DEF TypeOK, Counters
    <2>2. ASSUME NEW c \in Caller PROVE asked[c][e][k] \in Nat /\ asked'[c][e][k] \in Nat
      BY <1>0, ConstantTypes DEF TypeOK, Counters
    <2>3. e \in Int /\ traffic[e][k] <= traffic'[e][k]
      BY <1>0, CoreOnward, ConstantTypes DEF Epoch
    <2> QED BY <2>1, <2>2, <2>3
  <1>2. ASSUME NEW e \in Epoch, NEW k \in Key, e > epoch' PROVE traffic'[e][k] = 0
    <2>1. traffic[e][k] = 0
      BY <1>0, <1>1, <1>2 DEF AskedSound
    <2>2. ASSUME NEW l \in Key, Serve(l) PROVE traffic'[e][k] = traffic[e][k]
      BY <1>0, <1>2, <2>2 DEF Serve, TypeOK, Counters
    <2>3. CASE \A l \in Key : ~Serve(l)
      <3>1. ASSUME NEW c \in Caller, Collect(c) PROVE traffic' = traffic
        BY <3>1 DEF Collect, Call, ReadEpoch, QueryStats, CheckEpoch, Record, RecordNobody,
                    CollectDone, CollectFails, coreVars
      <3>2. ASSUME NEW c \in Caller, RequestFails(c) PROVE traffic' = traffic
        BY <3>2 DEF RequestFails, coreVars
      <3>3. CASE CoreStops \/ CoreStarts \/ WorkerContinues \/ SyncRestarts \/ SyncStops
        BY <2>1, <3>3 DEF CoreStops, CoreStarts, WorkerContinues, SyncRestarts, SyncStops, Stop,
                          coreVars
      <3>4. CASE ResetUsage \/ RemoveUser \/ PanelRestart \/ UNCHANGED vars
        BY <2>1, <3>4 DEF ResetUsage, RemoveUser, PanelRestart, vars, coreVars
      <3> QED BY <2>1, <2>3, <3>1, <3>2, <3>3, <3>4 DEF Next
    <2> QED BY <2>1, <2>2, <2>3
  <1>3. ASSUME NEW c \in Caller, NEW e \in Epoch, NEW k \in Key
        PROVE  asked'[c][e][k] <= traffic'[e][k]
    <2>1. asked[c][e][k] <= traffic[e][k]
      BY DEF AskedSound
    <2>2. CASE asked'[c] = asked[c]
      BY <1>1, <2>1, <2>2
    <2>3. CASE asked'[c] = Nothing
      BY <1>1, <2>3 DEF Nothing, NoBytes
    <2>4. CASE asked'[c] = traffic
      BY <1>1, <2>4
    <2> QED BY <1>0, <2>2, <2>3, <2>4, AskedChanges
  <1>4. ASSUME NEW c \in Caller, pc'[c] \in Active, NEW e \in Epoch, NEW k \in Key
        PROVE  asked'[c][e][k] = asked[c][e][k] \/ asked'[c][e][k] = 0
    <2>1. asked'[c] = asked[c] \/ asked'[c] = Nothing
      BY <1>0, <1>4, AskedChanges DEF Active
    <2> QED BY <2>1 DEF Nothing, NoBytes
  <1>5. ASSUME NEW c \in Caller, pc'[c] \in Active, NEW e \in Epoch, e > seen'[c], NEW k \in Key
        PROVE  asked'[c][e][k] = 0
    <2>1. CASE pc[c] \in Active /\ seen'[c] = seen[c]
      <3>1. asked[c][e][k] = 0
        BY <1>5, <2>1 DEF AskedSound
      <3> QED BY <1>4, <1>5, <3>1
    <2>2. CASE seen'[c] = epoch
      <3>1. traffic[e][k] = 0 /\ asked[c][e][k] <= traffic[e][k]
        BY <1>5, <2>2 DEF AskedSound
      <3>2. asked[c][e][k] = 0
        BY <1>1, <3>1
      <3> QED BY <1>4, <1>5, <3>2
    <2> QED BY <1>5, <2>1, <2>2, JobLocals
  <1>6. ASSUME NEW c \in Caller, NEW k \in Key,
               pc'[c] = "record" \/ (pc'[c] = "after" /\ epoch' = seen'[c])
        PROVE  asked'[c][seen'[c]][k] <= reading'[c][k]
    <2>0. seen'[c] \in Epoch /\ pc'[c] \in Active /\ reading'[c][k] \in Nat
      BY <1>0, <1>6, ConstantTypes DEF TypeOK, CursorBehind, Active, Epoch, Stopped
    <2>1. CASE QueryStats(c) /\ up
      <3>1. /\ pc'[c] = "after" /\ epoch' = epoch /\ reading'[c] = traffic[epoch]
            /\ asked' = asked
        BY <1>0, <2>1 DEF QueryStats, TypeOK, coreVars, ghostVars
      <3>2. seen'[c] = epoch
        BY <1>6, <3>1
      <3>3. asked[c][epoch][k] <= traffic[epoch][k]
        BY <2>0, <3>2 DEF AskedSound
      <3> QED BY <3>1, <3>2, <3>3
    <2>2. ASSUME pc[c] = "record" \/ (pc[c] = "after" /\ epoch = seen[c]),
                 seen'[c] = seen[c], reading'[c] = reading[c]
          PROVE  asked'[c][seen'[c]][k] <= reading'[c][k]
      <3>1. asked[c][seen[c]][k] <= reading[c][k]
        BY <2>2 DEF AskedSound
      <3>2. asked'[c][seen[c]][k] = asked[c][seen[c]][k] \/ asked'[c][seen[c]][k] = 0
        BY <1>4, <2>0, <2>2
      <3> QED BY <2>0, <2>2, <3>1, <3>2
    <2>3. CASE CheckEpoch(c) /\ SameCore(c)
      <3>1. pc[c] = "after" /\ epoch = seen[c] /\ seen' = seen /\ reading' = reading
        BY <2>3 DEF CheckEpoch, SameCore
      <3> QED BY <2>2, <3>1
    <2>4. CASE pc'[c] = pc[c] /\ seen'[c] = seen[c] /\ reading'[c] = reading[c]
      <3>1. CASE pc[c] = "record"
        BY <2>2, <2>4, <3>1
      <3>2. CASE pc[c] # "record"
        <4>1. pc[c] = "after" /\ epoch' = seen[c] /\ seen[c] <= epoch
          BY <1>6, <2>4, <3>2 DEF MeteringInv, CursorBehind, Active
        <4>2. epoch = seen[c]
          BY <1>0, <4>1
        <4> QED BY <2>2, <2>4, <4>1, <4>2
      <3> QED BY <3>1, <3>2
    <2> QED BY <1>6, <2>1, <2>3, <2>4, JobLocals
  <1> QED BY <1>2, <1>3, <1>5, <1>6 DEF AskedSound

\* An entry leaves the job's list by its transaction.
LEMMA LeftChanges ==
    ASSUME MeteringInv, [Next]_vars, NEW c \in Caller, pc[c] = "record", pc'[c] = "record",
           NEW k \in left[c], k \notin left'[c]
    PROVE  Record(c, k) \/ RecordNobody(c, k)
  <1>0. TypeOK /\ OneJob
    BY DEF MeteringInv
  <1>1. ASSUME NEW d \in Caller, Collect(d), \A l \in Key : ~Record(d, l) /\ ~RecordNobody(d, l)
        PROVE  left'[c] = left[c] \/ pc'[c] # "record"
    <2>1. CASE Call(d) \/ ReadEpoch(d)
      BY <1>0, <2>1 DEF OneJob, TypeOK, Active, Free, Call, ReadEpoch, Ends, jobVars
    <2>2. CASE QueryStats(d) \/ CheckEpoch(d) \/ CollectDone(d) \/ CollectFails(d)
      BY <1>0, <2>2 DEF OneJob, TypeOK, Active, Free, QueryStats, CheckEpoch, CollectDone,
                        CollectFails, Ends
    <2> QED BY <1>1, <2>1, <2>2 DEF Collect
  <1>2. ASSUME NEW d \in Caller, NEW l \in Key, Record(d, l) \/ RecordNobody(d, l)
        PROVE  d = c /\ left'[c] = left[c] \ {l}
    <2>1. d = c
      BY <1>0, <1>2 DEF OneJob, Active, Record, RecordNobody
    <2>2. left' = [left EXCEPT ![c] = @ \ {l}]
      BY <1>2, <2>1, RecordCharges DEF RecordNobody
    <2> QED BY <1>0, <2>1, <2>2 DEF TypeOK
  <1>3. CASE \E d \in Caller, l \in Key : Record(d, l) \/ RecordNobody(d, l)
    BY <1>2, <1>3
  <1>4. ASSUME NEW d \in Caller, RequestFails(d) PROVE left' = left
    BY <1>4 DEF RequestFails, jobVars
  <1>5. CASE PanelRestart
    BY <1>5 DEF PanelRestart
  <1>6. CASE UNCHANGED vars \/ CoreStops \/ CoreStarts \/ \E l \in Key : Serve(l)
    BY <1>6 DEF vars, CoreStops, CoreStarts, Serve, panelVars, jobVars
  <1>7. CASE WorkerContinues \/ SyncRestarts \/ SyncStops \/ ResetUsage \/ RemoveUser
    BY <1>7 DEF WorkerContinues, SyncRestarts, SyncStops, ResetUsage, RemoveUser, jobVars
  <1> QED BY <1>1, <1>3, <1>4, <1>5, <1>6, <1>7 DEF Next

LEMMA RecordedChargedStep ==
    ASSUME MeteringInv, RecordedCharged, [Next]_vars
    PROVE  RecordedCharged'
  <1> SUFFICES ASSUME NEW c \in Caller, NEW k \in Key,
                      pc'[c] = "record", k \notin left'[c], k[1] \in account'
               PROVE  reading'[c][k] <= bill'[seen'[c]][k]
    BY DEF RecordedCharged
  <1>0. /\ TypeOK /\ TypeOK' /\ CursorBehind' /\ seen'[c] \in Epoch /\ reading'[c][k] \in Nat
    <2>1. TypeOK /\ TypeOK' /\ CursorBehind'
      BY TypeStep, CursorBehindStep DEF MeteringInv
    <2> QED BY <2>1, ConstantTypes DEF TypeOK, CursorBehind, Active, Epoch, Stopped
  <1>1. CASE CheckEpoch(c) /\ SameCore(c)
    <2>1. left'[c] = {l \in Key : reading[c][l] > 0} /\ reading' = reading
      BY <1>0, <1>1 DEF CheckEpoch, TypeOK
    <2>2. reading'[c][k] = 0
      BY <1>0, <2>1
    <2>3. bill'[seen'[c]][k] \in Nat
      BY <1>0, BillGrows
    <2> QED BY <2>2, <2>3
  <1>2. CASE pc'[c] = pc[c] /\ seen'[c] = seen[c] /\ reading'[c] = reading[c]
    <2>0. /\ bill[seen[c]][k] \in Nat /\ bill'[seen[c]][k] \in Nat
          /\ bill[seen[c]][k] <= bill'[seen[c]][k] /\ k[1] \in account
      BY <1>0, <1>2, BillGrows
    <2>1. CASE k \notin left[c]
      <3>1. reading[c][k] <= bill[seen[c]][k]
        BY <1>2, <2>0, <2>1 DEF RecordedCharged
      <3> QED BY <1>0, <1>2, <2>0, <3>1
    <2>2. CASE k \in left[c]
      <3>1. CASE Record(c, k)
        <4>1. bill' = [bill EXCEPT ![seen[c]][k] = reading[c][k]] /\ seen[c] \in Epoch
          BY <3>1, RecordCharges
        <4>2. bill'[seen[c]][k] = reading[c][k]
          BY <1>0, <4>1 DEF TypeOK, Counters
        <4> QED BY <1>0, <1>2, <4>2
      <3>2. CASE RecordNobody(c, k)
        BY <2>0, <3>2 DEF RecordNobody
      <3> QED BY <1>2, <2>2, <3>1, <3>2, LeftChanges
    <2> QED BY <2>1, <2>2
  <1>3. ~QueryStats(c) \/ ~up
    BY <1>0 DEF QueryStats, TypeOK
  <1> QED BY <1>1, <1>2, <1>3, JobLocals

LEMMA CollectedChargedStep ==
    ASSUME MeteringInv, DrainInv, [Next]_vars
    PROVE  CollectedCharged'
  <1> SUFFICES ASSUME NEW c \in Caller, NEW e \in Epoch, NEW k \in Key,
                      pc'[c] = "done", k[1] \in account', ~Dead(e)'
               PROVE  asked'[c][e][k] <= bill'[e][k]
    BY DEF CollectedCharged
  <1>0. /\ TypeOK /\ OneJob /\ CursorBehind /\ k[1] \in account /\ ~Dead(e)
        /\ bill[e][k] \in Nat /\ bill'[e][k] \in Nat /\ bill[e][k] <= bill'[e][k]
        /\ asked[c][e][k] \in Nat /\ asked'[c][e][k] \in Nat /\ traffic[e][k] \in Nat
        /\ epoch \in Int /\ seen[c] \in Int /\ e \in Int
    <2>1. TypeOK /\ TypeOK' /\ OneJob /\ CursorBehind
      BY TypeStep DEF MeteringInv
    <2>2. /\ k[1] \in account /\ ~Dead(e)
          /\ bill[e][k] \in Nat /\ bill'[e][k] \in Nat /\ bill[e][k] <= bill'[e][k]
      BY BillGrows, DeadStays
    <2>3. /\ asked[c][e][k] \in Nat /\ asked'[c][e][k] \in Nat /\ traffic[e][k] \in Nat
      BY <2>1, ConstantTypes DEF TypeOK, Counters
    <2>4. epoch \in Int /\ seen[c] \in Int /\ e \in Int
      BY <2>1, ConstantTypes DEF TypeOK, Epoch
    <2> QED BY <2>1, <2>2, <2>3, <2>4
  <1>1. asked'[c][e][k] = asked[c][e][k] \/ asked'[c][e][k] = 0
    <2>1. asked'[c] = asked[c] \/ asked'[c] = Nothing
      BY <1>0, AskedChanges
    <2> QED BY <2>1 DEF Nothing, NoBytes
  <1> SUFFICES asked[c][e][k] <= bill[e][k] \/ asked[c][e][k] = 0
    BY <1>0, <1>1
  <1>2. CASE pc[c] = "done"
    BY <1>0, <1>2 DEF DrainInv, CollectedCharged
  <1>3. CASE ReadEpoch(c) /\ ~up
    <2>1. \A d \in Caller : pc[d] \notin Active
      BY <1>0, <1>3, MeteringAssumption DEF ReadEpoch, Free, OneJob
    <2>2. ~(e < epoch \/ e = epoch)
      BY <1>0, <1>3, <2>1 DEF Dead
    <2>3. traffic[e][k] = 0 /\ asked[c][e][k] <= traffic[e][k]
      BY <1>0, <2>2 DEF DrainInv, AskedSound
    <2> QED BY <1>0, <2>3
  <1>4. CASE CollectDone(c)
    <2>1. /\ pc[c] = "record" /\ left[c] = {} /\ seen[c] <= epoch
          /\ \A d \in Caller : pc[d] \in Active => d = c
      BY <1>0, <1>4 DEF CollectDone, OneJob, Active, CursorBehind
    <2>2. CASE e < seen[c]
      BY <1>0, <2>1, <2>2 DEF Dead
    <2>3. CASE e = seen[c]
      <3>1. reading[c][k] <= bill[e][k] /\ asked[c][e][k] <= reading[c][k]
        BY <1>0, <2>1, <2>3 DEF DrainInv, RecordedCharged, AskedSound
      <3>2. reading[c][k] \in Nat
        BY <1>0, ConstantTypes DEF TypeOK
      <3> QED BY <1>0, <3>1, <3>2
    <2>4. CASE e > seen[c]
      BY <2>1, <2>4 DEF DrainInv, AskedSound, Active
    <2> QED BY <1>0, <2>2, <2>3, <2>4
  <1> QED BY <1>2, <1>3, <1>4, DoneComes

LEMMA DrainInvariant == Spec => []DrainInv
  <1>1. Init => DrainInv
    <2> SUFFICES ASSUME Init PROVE DrainInv
      OBVIOUS
    <2>1. \A e \in Epoch, k \in Key : traffic[e][k] = 0 /\ \A c \in Caller : asked[c][e][k] = 0
      BY DEF Init, Nothing, NoBytes
    <2>2. \A c \in Caller : pc[c] = "idle"
      BY DEF Init
    <2> QED BY <2>1, <2>2 DEF DrainInv, AskedSound, RecordedCharged, CollectedCharged, Active
  <1>2. MeteringInv /\ DrainInv /\ [Next]_vars => DrainInv'
    BY AskedSoundStep, RecordedChargedStep, CollectedChargedStep DEF DrainInv
  <1> QED BY <1>1, <1>2, MeteringInvariant, PTL DEF Spec

\* A managed restart loses no byte the sync knew of: what the core had carried
\* when the sync asked for the drain is charged before it starts the next one
\* (xray.js:96-97), whatever failed, was retried or crashed before.
THEOREM DrainedTheorem == Spec => DrainedBeforeRestart
  <1> DEFINE Charged == SyncRestarts /\ up =>
        \A k \in Key : k[1] \in account => bill[epoch][k] >= asked["sync"][epoch][k]
  <1>1. MeteringInv /\ DrainInv => Charged
    <2> SUFFICES ASSUME MeteringInv, DrainInv, SyncRestarts, up,
                        NEW k \in Key, k[1] \in account
                 PROVE  bill[epoch][k] >= asked["sync"][epoch][k]
      OBVIOUS
    <2>1. TypeOK /\ pc["sync"] = "done" /\ "sync" \in Caller
      BY DEF MeteringInv, SyncRestarts, Drained, Caller
    <2>2. epoch \in Epoch /\ ~Dead(epoch)
      BY <2>1, ConstantTypes DEF TypeOK, Epoch, Stopped, Dead
    <2>3. asked["sync"][epoch][k] <= bill[epoch][k]
      BY <2>1, <2>2 DEF DrainInv, CollectedCharged
    <2> QED BY <2>1, <2>2, <2>3, ConstantTypes DEF TypeOK, Counters
  <1>2. MeteringInv /\ DrainInv => [Charged]_vars
    BY <1>1
  <1>3. Spec => [][Charged]_vars
    BY <1>2, MeteringInvariant, DrainInvariant, PTL
  <1> QED BY <1>3 DEF DrainedBeforeRestart

-----------------------------------------------------------------------------
(* Sums over the incarnations.  The library's induction principles take an  *)
(* operator, which the provers cannot instantiate; UpTo is induction over a *)
(* set of numbers, from the well-foundedness of strict inclusion.           *)

LEMMA UpTo ==
    ASSUME NEW n \in Nat, NEW T \in SUBSET (0..n), 0 \in T, \A i \in 1..n : i - 1 \in T => i \in T
    PROVE  \A i \in 0..n : i \in T
  <1> DEFINE below(i) == 0..i
             A == {below(i) : i \in (0..n) \ T}
  <1> SUFFICES ASSUME (0..n) \ T # {} PROVE FALSE
    OBVIOUS
  <1>0. IsFiniteSet(0..n)
    BY FS_Interval
  <1>1. A \subseteq FiniteSubsetsOf(0..n) /\ A # {}
    <2>1. ASSUME NEW i \in 0..n PROVE below(i) \in FiniteSubsetsOf(0..n)
      <3>1. below(i) \in SUBSET (0..n)
        OBVIOUS
      <3> HIDE DEF below
      <3>2. QED
        BY <1>0, <3>1, FS_Subset DEF FiniteSubsetsOf
    <2> HIDE DEF below
    <2>2. QED
      BY <2>1
  <1>2. PICK a \in A : \A b \in A : <<b, a>> \notin StrictSubsetOrdering(0..n)
    <2>1. IsWellFoundedOn(StrictSubsetOrdering(0..n), FiniteSubsetsOf(0..n))
      BY FS_StrictSubsetOrderingWellFounded
    <2> HIDE DEF A
    <2>2. QED
      BY <1>1, <2>1, WFMin, Zenon
  <1>3. PICK i \in (0..n) \ T : a = below(i)
    OBVIOUS
  <1>4. i # 0 /\ i \in 1..n /\ i - 1 \in 0..n
    OBVIOUS
  <1>5. i - 1 \in (0..n) \ T
    BY <1>3, <1>4
  <1>6. below(i - 1) \subseteq below(i) /\ i \in below(i) /\ i \notin below(i - 1)
    BY <1>4
  <1>7. below(i) \subseteq 0..n /\ below(i - 1) \subseteq 0..n
    BY <1>3, <1>4
  <1>8. below(i - 1) \in A
    <2> HIDE DEF below
    <2> QED BY <1>5
  <1> HIDE DEF below, A
  <1> QED BY <1>2, <1>3, <1>6, <1>7, <1>8 DEF StrictSubsetOrdering

\* `sum' is the function of partial sums that Total chooses.
Sums(sum, f) ==
    /\ sum \in [0..MaxEpoch -> Int] /\ sum[0] = 0
    /\ \A e \in Epoch : sum[e] = sum[e - 1] + f[e]

LEMMA TotalSums ==
    ASSUME NEW f \in [Epoch -> Int]
    PROVE  \E sum : Sums(sum, f) /\ Total(f) = sum[MaxEpoch]
  <1> DEFINE Step(g) == [e \in 0..MaxEpoch |-> IF e = 0 THEN 0 ELSE g[e - 1] + f[e]]
             Upto(g, n) == /\ g \in [0..MaxEpoch -> Int] /\ g[0] = 0
                           /\ \A e \in 1..n : g[e] = g[e - 1] + f[e]
             T == {n \in 0..MaxEpoch : \E g : Upto(g, n)}
  <1>0. MaxEpoch \in Nat /\ Epoch = 1..MaxEpoch
    BY ConstantTypes DEF Epoch
  <1>1. 0 \in T
    <2>1. Upto([e \in 0..MaxEpoch |-> 0], 0)
      BY <1>0
    <2> HIDE DEF Upto
    <2> QED BY <1>0, <2>1
  <1>2. ASSUME NEW n \in 1..MaxEpoch, n - 1 \in T PROVE n \in T
    <2>1. PICK g : Upto(g, n - 1)
      BY <1>2
    <2> DEFINE h == [e \in 0..MaxEpoch |-> IF e = n THEN g[n - 1] + f[n] ELSE g[e]]
    <2>2. n \in Epoch /\ n \in Int /\ n - 1 \in 0..MaxEpoch /\ n \in 0..MaxEpoch /\ f[n] \in Int
      BY <1>0
    <2>3. h \in [0..MaxEpoch -> Int] /\ h[0] = 0
      BY <1>0, <2>1, <2>2
    <2>4. ASSUME NEW e \in 1..n PROVE h[e] = h[e - 1] + f[e]
      <3>1. e \in 0..MaxEpoch /\ e - 1 \in 0..MaxEpoch /\ e - 1 # n
        BY <1>0, <2>2
      <3>2. h[e - 1] = g[e - 1]
        BY <3>1
      <3>3. CASE e = n
        BY <3>1, <3>2, <3>3
      <3>4. CASE e # n
        <4>1. e \in 1..(n - 1)
          BY <1>0, <2>2, <3>4
        <4>2. g[e] = g[e - 1] + f[e]
          BY <2>1, <4>1
        <4> QED BY <3>1, <3>2, <3>4, <4>2
      <3> QED BY <3>3, <3>4
    <2>5. Upto(h, n)
      BY <2>3, <2>4
    <2> QED BY <2>2, <2>5
  <1>3. MaxEpoch \in T
    <2> HIDE DEF T
    <2>1. T \in SUBSET (0..MaxEpoch)
      BY DEF T
    <2>2. \A i \in 0..MaxEpoch : i \in T
      BY <1>0, <1>1, <1>2, <2>1, UpTo
    <2> QED BY <1>0, <2>2
  <1>4. PICK g : Upto(g, MaxEpoch)
    BY <1>3
  <1>5. g = Step(g)
    <2>1. ASSUME NEW e \in 0..MaxEpoch PROVE g[e] = Step(g)[e]
      BY <1>0, <1>4
    <2> QED BY <1>4, <2>1
  <1> DEFINE sum == CHOOSE s : s = Step(s)
  <1>6. sum = Step(sum)
    <2> HIDE DEF Step
    <2> QED BY <1>5
  <1>7. Total(f) = sum[MaxEpoch]
    BY DEF Total
  <1>8. sum = g
    <2> DEFINE S == {e \in 0..MaxEpoch : sum[e] = g[e]}
    <2> HIDE DEF sum
    <2>0. \A e \in 0..MaxEpoch : sum[e] = IF e = 0 THEN 0 ELSE sum[e - 1] + f[e]
      BY <1>6
    <2>1. 0 \in S
      BY <1>0, <1>4, <2>0
    <2>2. ASSUME NEW e \in 1..MaxEpoch, e - 1 \in S PROVE e \in S
      <3>1. e \in 0..MaxEpoch /\ e # 0 /\ sum[e - 1] = g[e - 1]
        BY <1>0, <2>2
      <3>2. sum[e] = sum[e - 1] + f[e]
        BY <2>0, <3>1
      <3>3. g[e] = g[e - 1] + f[e]
        BY <1>4
      <3> QED BY <3>1, <3>2, <3>3
    <2>3. \A e \in 0..MaxEpoch : sum[e] = g[e]
      <3>1. S \in SUBSET (0..MaxEpoch)
        OBVIOUS
      <3>2. \A e \in 0..MaxEpoch : e \in S
        <4> HIDE DEF S
        <4> QED BY <1>0, <2>1, <2>2, <3>1, UpTo
      <3> QED BY <3>2
    <2>4. sum = [e \in 0..MaxEpoch |-> sum[e]]
      BY <1>6
    <2>5. g = [e \in 0..MaxEpoch |-> g[e]]
      BY <1>4
    <2>6. [e \in 0..MaxEpoch |-> sum[e]] = [e \in 0..MaxEpoch |-> g[e]]
      BY <2>3
    <2> QED BY <2>4, <2>5, <2>6
  <1>9. Sums(g, f)
    BY <1>0, <1>4 DEF Sums
  <1> HIDE DEF sum
  <1> QED BY <1>7, <1>8, <1>9

\* A sum grows with its terms, and with one of them by as much as that grows.
LEMMA TotalGrows ==
    ASSUME NEW f \in [Epoch -> Int], NEW g \in [Epoch -> Int], NEW d \in Epoch, NEW n \in Int,
           \A e \in Epoch : f[e] <= g[e], f[d] + n <= g[d]
    PROVE  /\ Total(f) \in Int /\ Total(g) \in Int
           /\ Total(f) <= Total(g) /\ Total(f) + n <= Total(g)
  <1>0. MaxEpoch \in Nat /\ Epoch = 1..MaxEpoch
    BY ConstantTypes DEF Epoch
  <1>1. PICK s : Sums(s, f) /\ Total(f) = s[MaxEpoch]
    BY TotalSums
  <1>2. PICK t : Sums(t, g) /\ Total(g) = t[MaxEpoch]
    BY TotalSums
  <1> DEFINE S == {e \in 0..MaxEpoch : s[e] <= t[e] /\ (e >= d => s[e] + n <= t[e])}
  <1>3. 0 \in S
    BY <1>0, <1>1, <1>2 DEF Sums
  <1>4. ASSUME NEW e \in 1..MaxEpoch, e - 1 \in S PROVE e \in S
    <2>1. s[e] = s[e - 1] + f[e] /\ t[e] = t[e - 1] + g[e]
      BY <1>0, <1>1, <1>2 DEF Sums
    <2>2. f[e] \in Int /\ g[e] \in Int /\ f[e] <= g[e] /\ e \in 0..MaxEpoch /\ e - 1 \in 0..MaxEpoch
      BY <1>0
    <2>3. s[e - 1] \in Int /\ t[e - 1] \in Int
      BY <1>0, <1>1, <1>2, <2>2 DEF Sums
    <2>4. s[e - 1] <= t[e - 1] /\ (e - 1 >= d => s[e - 1] + n <= t[e - 1])
      BY <1>4
    <2>5. s[e] <= t[e]
      BY <2>1, <2>2, <2>3, <2>4
    <2>6. ASSUME e >= d PROVE s[e] + n <= t[e]
      <3>1. CASE e = d
        BY <2>1, <2>2, <2>3, <2>4, <3>1
      <3>2. CASE e # d
        <4>1. e - 1 >= d
          BY <1>0, <2>6, <3>2
        <4> QED BY <2>1, <2>2, <2>3, <2>4, <4>1
      <3> QED BY <3>1, <3>2
    <2> QED BY <2>2, <2>5, <2>6
  <1>5. MaxEpoch \in S
    <2>1. S \in SUBSET (0..MaxEpoch)
      OBVIOUS
    <2> HIDE DEF S
    <2>2. \A e \in 0..MaxEpoch : e \in S
      BY <1>0, <1>3, <1>4, <2>1, UpTo
    <2> QED BY <1>0, <2>2
  <1>6. s[MaxEpoch] \in Int /\ t[MaxEpoch] \in Int /\ MaxEpoch >= d
    BY <1>0, <1>1, <1>2 DEF Sums
  <1> QED BY <1>1, <1>2, <1>5, <1>6

LEMMA TotalOfNothing ==
    ASSUME NEW f \in [Epoch -> Int], \A e \in Epoch : f[e] = 0
    PROVE  Total(f) = 0
  <1>0. MaxEpoch \in Nat /\ Epoch = 1..MaxEpoch
    BY ConstantTypes DEF Epoch
  <1>1. PICK s : Sums(s, f) /\ Total(f) = s[MaxEpoch]
    BY TotalSums
  <1> DEFINE S == {e \in 0..MaxEpoch : s[e] = 0}
  <1>2. 0 \in S
    BY <1>0, <1>1 DEF Sums
  <1>3. ASSUME NEW e \in 1..MaxEpoch, e - 1 \in S PROVE e \in S
    <2>1. s[e] = s[e - 1] + f[e] /\ f[e] = 0 /\ s[e - 1] = 0
      BY <1>0, <1>1, <1>3 DEF Sums
    <2> QED BY <1>0, <2>1
  <1>4. S \in SUBSET (0..MaxEpoch)
    OBVIOUS
  <1>5. MaxEpoch \in S
    <2> HIDE DEF S
    <2>1. \A e \in 0..MaxEpoch : e \in S
      BY <1>0, <1>2, <1>3, <1>4, UpTo
    <2> QED BY <1>0, <2>1
  <1> QED BY <1>1, <1>5

-----------------------------------------------------------------------------
(* What a reset forgives *)

\* What the incarnations were charged beyond `base'.
Beyond(base, k) == [e \in Epoch |-> bill[e][k] - base[e][k]]

LEMMA BeyondType ==
    ASSUME TypeOK, NEW base \in Counters, NEW k \in Key
    PROVE  /\ Beyond(base, k) \in [Epoch -> Int]
           /\ \A e \in Epoch : Beyond(base, k)[e] = bill[e][k] - base[e][k]
           /\ \A e \in Epoch : /\ bill[e][k] \in Int /\ base[e][k] \in Int
                               /\ traffic[e][k] \in Int /\ forgiven[e][k] \in Int
  <1>1. \A e \in Epoch : bill[e][k] \in Int /\ base[e][k] \in Int
    BY ConstantTypes DEF TypeOK, Counters
  <1>2. \A e \in Epoch : traffic[e][k] \in Int /\ forgiven[e][k] \in Int
    BY ConstantTypes DEF TypeOK, Counters
  <1> QED BY <1>1, <1>2 DEF Beyond

\* Only charges, resets and removals write what a reset is about.
LEMMA BalanceUntouched ==
    ASSUME [Next]_vars, ~ResetUsage, ~RemoveUser, \A c \in Caller, k \in Key : ~Record(c, k)
    PROVE  UNCHANGED <<account, bill, balance, forgiven>>
  <1>0. UNCHANGED <<account, bill>>
    BY CursorUntouched
  <1>1. ASSUME NEW c \in Caller, Collect(c) PROVE UNCHANGED <<balance, forgiven>>
    BY <1>1 DEF Collect, Call, ReadEpoch, QueryStats, CheckEpoch, RecordNobody, CollectDone,
                CollectFails, dbVars, ghostVars
  <1>2. CASE UNCHANGED vars \/ PanelRestart \/ CoreStops \/ CoreStarts \/ \E k \in Key : Serve(k)
    BY <1>0, <1>2 DEF vars, PanelRestart, CoreStops, CoreStarts, Serve, dbVars, ghostVars
  <1>3. CASE WorkerContinues \/ SyncRestarts \/ SyncStops
    BY <1>0, <1>3 DEF WorkerContinues, SyncRestarts, SyncStops, dbVars
  <1>4. ASSUME NEW c \in Caller, RequestFails(c) PROVE UNCHANGED <<balance, forgiven>>
    BY <1>4 DEF RequestFails, dbVars
  <1> QED BY <1>0, <1>1, <1>2, <1>3, <1>4 DEF Next

\* A balance cleared with the bill it stands for: a reset, or a removal.
LEMMA BalanceCleared ==
    ASSUME MeteringInv, TypeOK', DrainInv, ResetInv, NEW u, bill' = bill,
           balance' = [k \in Key |-> IF k[1] = u THEN 0 ELSE balance[k]],
           traffic' = traffic, account' \subseteq account,
           \A e \in Epoch : Dead(e) => Dead(e)',
           \A k \in Key, e \in Epoch :
              IF k[1] = u
                THEN /\ forgiven'[e][k] <= traffic[e][k]
                     /\ \/ forgiven'[e][k] <= bill[e][k]
                        \/ Dead(e) \/ k[1] \notin account'
                ELSE forgiven'[e][k] = forgiven[e][k]
    PROVE  ResetInv'
  <1>0. TypeOK /\ TypeOK'
    BY DEF MeteringInv
  <1>1. PICK base \in Counters :
            /\ BaseSound(base)
            /\ \A k \in Key : balance[k] <= Total(Beyond(base, k))
    BY DEF ResetInv, Beyond
  <1>2. PICK base1 \in Counters :
            \A e \in Epoch, k \in Key :
               base1[e][k] = IF k[1] = u THEN bill[e][k] ELSE base[e][k]
    <2> DEFINE b == [e \in Epoch |-> [k \in Key |->
                        IF k[1] = u THEN bill[e][k] ELSE base[e][k]]]
    <2>1. \A e \in Epoch, k \in Key : bill[e][k] \in 0..MaxBytes /\ base[e][k] \in 0..MaxBytes
      BY <1>0 DEF TypeOK, Counters
    <2>2. b \in Counters
      BY <2>1 DEF Counters
    <2> QED BY <2>2
  <1>4. BaseSound(base1)'
    <2> SUFFICES ASSUME NEW e \in Epoch, NEW k \in Key
                 PROVE  /\ forgiven'[e][k] <= traffic'[e][k] /\ base1[e][k] <= bill'[e][k]
                        /\ \/ forgiven'[e][k] <= base1[e][k]
                           \/ bill'[e][k] = base1[e][k] /\ (Dead(e)' \/ k[1] \notin account')
      BY DEF BaseSound
    <2>0. bill[e][k] \in Int
      BY <1>0, <1>1, BeyondType
    <2>1. CASE k[1] = u
      <3>1. base1[e][k] = bill[e][k]
        BY <1>2, <2>1
      <3> QED BY <2>0, <2>1, <3>1
    <2>2. CASE k[1] # u
      <3>1. base1[e][k] = base[e][k] /\ forgiven'[e][k] = forgiven[e][k]
        BY <1>2, <2>2
      <3> QED BY <1>1, <3>1 DEF BaseSound
    <2> QED BY <2>1, <2>2
  <1>5. ASSUME NEW k \in Key PROVE balance'[k] <= Total(Beyond(base1, k)')
    <2>0. /\ Beyond(base1, k)' = Beyond(base1, k)
          /\ Beyond(base1, k) \in [Epoch -> Int] /\ Beyond(base, k) \in [Epoch -> Int]
      BY <1>0, <1>1, <1>2, BeyondType DEF Beyond
    <2>1. CASE k[1] = u
      <3>1. \A e \in Epoch : Beyond(base1, k)[e] = 0
        BY <1>0, <1>2, <2>1, BeyondType
      <3>2. Total(Beyond(base1, k)) = 0
        BY <2>0, <3>1, TotalOfNothing
      <3>3. balance'[k] = 0
        BY <2>1
      <3> QED BY <2>0, <3>2, <3>3
    <2>2. CASE k[1] # u
      <3>1. \A e \in Epoch : base1[e][k] = base[e][k]
        BY <1>2, <2>2
      <3>2. Beyond(base1, k) = Beyond(base, k)
        BY <3>1 DEF Beyond
      <3>3. balance'[k] = balance[k]
        BY <2>2
      <3> QED BY <1>1, <2>0, <3>2, <3>3
    <2> QED BY <2>1, <2>2
  <1> QED BY <1>2, <1>4, <1>5 DEF ResetInv, Beyond

LEMMA ResetInvStep ==
    ASSUME MeteringInv, DrainInv, ResetInv, [Next]_vars
    PROVE  ResetInv'
  <1>0. TypeOK /\ TypeOK'
    BY TypeStep DEF MeteringInv
  <1>1. PICK base \in Counters :
            /\ BaseSound(base)
            /\ \A k \in Key : balance[k] <= Total(Beyond(base, k))
    BY DEF ResetInv, Beyond
  <1>2. \A e \in Epoch, k \in Key :
            /\ traffic[e][k] <= traffic'[e][k] /\ traffic'[e][k] \in Int
            /\ traffic[e][k] \in Int /\ forgiven[e][k] \in Int
            /\ bill[e][k] \in Int /\ base[e][k] \in Int
    <2>1. \A e \in Epoch, k \in Key : traffic[e][k] <= traffic'[e][k]
      BY <1>0, CoreOnward
    <2>2. \A e \in Epoch, k \in Key : traffic'[e][k] \in Int
      BY <1>0, ConstantTypes DEF TypeOK, Counters
    <2> QED BY <1>0, <1>1, <2>1, <2>2, BeyondType
  <1>3. ASSUME NEW c \in Caller, NEW l \in Key, Record(c, l) PROVE ResetInv'
    <2> DEFINE d == seen[c]  r == reading[c][l]
    <2>1. /\ d \in Epoch /\ bill[d][l] \in 0..r /\ r \in 0..MaxBytes
          /\ bill' = [bill EXCEPT ![d][l] = r]
          /\ balance' = [balance EXCEPT ![l] = @ + (r - bill[d][l])]
          /\ forgiven' = forgiven /\ account' = account
          /\ pc[c] = "record" /\ l[1] \in account
      BY <1>3, RecordCharges DEF Record
    <2>2. ~Dead(d)
      BY <2>1 DEF Dead, Active
    <2> HIDE DEF d, r
    <2>3. \A e \in Epoch, k \in Key :
             bill'[e][k] = IF e = d /\ k = l THEN r ELSE bill[e][k]
      BY <1>0, <2>1 DEF TypeOK, Counters
    <2>4. r \in Int /\ bill[d][l] <= r
      BY <1>2, <2>1, ConstantTypes
    <2>5. BaseSound(base)'
      <3> SUFFICES ASSUME NEW e \in Epoch, NEW k \in Key
                   PROVE  /\ forgiven[e][k] <= traffic'[e][k] /\ base[e][k] <= bill'[e][k]
                          /\ \/ forgiven[e][k] <= base[e][k]
                             \/ bill'[e][k] = base[e][k] /\ (Dead(e)' \/ k[1] \notin account)
        BY <2>1 DEF BaseSound
      <3>1. /\ forgiven[e][k] <= traffic[e][k] /\ base[e][k] <= bill[e][k]
            /\ \/ forgiven[e][k] <= base[e][k]
               \/ bill[e][k] = base[e][k] /\ (Dead(e) \/ k[1] \notin account)
        BY <1>1 DEF BaseSound
      <3>2. forgiven[e][k] <= traffic'[e][k]
        BY <1>2, <3>1
      <3>3. CASE e = d /\ k = l
        <4>1. base[e][k] <= bill'[e][k]
          BY <1>2, <2>1, <2>3, <2>4, <3>1, <3>3
        <4> QED BY <2>1, <2>2, <3>1, <3>2, <3>3, <4>1
      <3>4. CASE ~(e = d /\ k = l)
        <4>1. bill'[e][k] = bill[e][k]
          BY <2>3, <3>4
        <4> QED BY <3>1, <3>2, <4>1, DeadStays
      <3> QED BY <3>3, <3>4
    <2>6. ASSUME NEW k \in Key PROVE balance'[k] <= Total(Beyond(base, k)')
      <3> DEFINE f == Beyond(base, k)  g == Beyond(base, k)'
      <3>1. f \in [Epoch -> Int] /\ g \in [Epoch -> Int]
        <4>1. \A e \in Epoch : bill'[e][k] \in Int
          BY <1>2, <2>3, <2>4
        <4> QED BY <1>0, <1>1, <1>2, <4>1, BeyondType DEF Beyond
      <3>2. \A e \in Epoch : f[e] = bill[e][k] - base[e][k] /\ g[e] = bill'[e][k] - base[e][k]
        BY DEF Beyond
      <3>3. \A e \in Epoch : f[e] <= g[e]
        BY <1>2, <2>3, <2>4, <3>2
      <3>4. balance[k] \in Int /\ balance[k] <= Total(f)
        BY <1>0, <1>1 DEF TypeOK
      <3>5. CASE k = l
        <4>1. f[d] + (r - bill[d][l]) <= g[d] /\ r - bill[d][l] \in Int
          BY <1>2, <2>1, <2>3, <2>4, <3>2, <3>5
        <4>2. balance'[k] = balance[k] + (r - bill[d][l])
          BY <1>0, <2>1, <3>5 DEF TypeOK
        <4> HIDE DEF f, g
        <4>3. Total(f) \in Int /\ Total(g) \in Int /\ Total(f) + (r - bill[d][l]) <= Total(g)
          BY <2>1, <3>1, <3>3, <4>1, TotalGrows
        <4> QED BY <3>4, <4>1, <4>2, <4>3 DEF g
      <3>6. CASE k # l
        <4>1. balance'[k] = balance[k]
          BY <1>0, <2>1, <3>6 DEF TypeOK
        <4> HIDE DEF f, g
        <4>2. f[d] + 0 <= g[d]
          BY <2>1, <3>1, <3>3
        <4>3. Total(f) \in Int /\ Total(g) \in Int /\ Total(f) <= Total(g)
          BY <2>1, <3>1, <3>3, <4>2, TotalGrows
        <4> QED BY <3>4, <4>1, <4>3 DEF g
      <3> QED BY <3>5, <3>6
    <2> QED BY <1>1, <2>5, <2>6 DEF ResetInv, Beyond
  <1>4. CASE ResetUsage
    <2>1. /\ "reset" \in Caller /\ pc["reset"] = "done" /\ target["reset"] \in account
          /\ balance' = [k \in Key |-> IF k[1] = target["reset"] THEN 0 ELSE balance[k]]
          /\ forgiven' = [e \in Epoch |-> [k \in Key |->
                IF k[1] = target["reset"] THEN asked["reset"][e][k] ELSE forgiven[e][k]]]
          /\ bill' = bill /\ traffic' = traffic /\ account' = account
      BY <1>4 DEF ResetUsage, Caller, coreVars
    <2>2. \A e \in Epoch, k \in Key : k[1] = target["reset"] =>
            /\ forgiven'[e][k] = asked["reset"][e][k]
            /\ asked["reset"][e][k] <= traffic[e][k]
            /\ asked["reset"][e][k] <= bill[e][k] \/ Dead(e)
      BY <2>1 DEF DrainInv, AskedSound, CollectedCharged
    <2>3. \A e \in Epoch, k \in Key : k[1] # target["reset"] => forgiven'[e][k] = forgiven[e][k]
      BY <2>1
    <2>4. \A e \in Epoch : Dead(e) => Dead(e)'
      BY DeadStays
    <2> QED BY <1>0, <2>1, <2>2, <2>3, <2>4, BalanceCleared
  <1>5. CASE RemoveUser
    <2>1. /\ balance' = [k \in Key |-> IF k[1] = target["remove"] THEN 0 ELSE balance[k]]
          /\ account' = account \ {target["remove"]}
          /\ bill' = bill /\ traffic' = traffic /\ forgiven' = forgiven
      BY <1>5 DEF RemoveUser, coreVars
    <2>2. \A e \in Epoch, k \in Key : forgiven[e][k] <= traffic[e][k]
      BY <1>1 DEF BaseSound
    <2>3. \A e \in Epoch : Dead(e) => Dead(e)'
      BY DeadStays
    <2> QED BY <1>0, <2>1, <2>2, <2>3, BalanceCleared
  <1>6. CASE ~ResetUsage /\ ~RemoveUser /\ \A c \in Caller, k \in Key : ~Record(c, k)
    <2>1. UNCHANGED <<account, bill, balance, forgiven>>
      BY <1>6, BalanceUntouched
    <2>2. BaseSound(base)'
      <3> SUFFICES ASSUME NEW e \in Epoch, NEW k \in Key
                   PROVE  /\ forgiven[e][k] <= traffic'[e][k] /\ base[e][k] <= bill[e][k]
                          /\ \/ forgiven[e][k] <= base[e][k]
                             \/ bill[e][k] = base[e][k] /\ (Dead(e)' \/ k[1] \notin account)
        BY <2>1 DEF BaseSound
      <3>1. /\ forgiven[e][k] <= traffic[e][k] /\ base[e][k] <= bill[e][k]
            /\ \/ forgiven[e][k] <= base[e][k]
               \/ bill[e][k] = base[e][k] /\ (Dead(e) \/ k[1] \notin account)
        BY <1>1 DEF BaseSound
      <3>2. forgiven[e][k] <= traffic'[e][k]
        BY <1>2, <3>1
      <3> QED BY <3>1, <3>2, DeadStays
    <2>3. \A k \in Key : Beyond(base, k)' = Beyond(base, k)
      BY <2>1 DEF Beyond
    <2> QED BY <1>1, <2>1, <2>2, <2>3 DEF ResetInv, Beyond
  <1> QED BY <1>3, <1>4, <1>5, <1>6

LEMMA ResetInvariant == Spec => []ResetInv
  <1>1. Init => ResetInv
    <2> SUFFICES ASSUME Init PROVE ResetInv
      OBVIOUS
    <2>0. MeteringInv /\ TypeOK /\ Nothing \in Counters
      BY InitInv, ConstantTypes DEF MeteringInv
    <2>1. \A e \in Epoch, k \in Key :
            bill[e][k] = 0 /\ traffic[e][k] = 0 /\ forgiven[e][k] = 0 /\ Nothing[e][k] = 0
      BY DEF Init, Nothing, NoBytes
    <2>2. BaseSound(Nothing)
      BY <2>1 DEF BaseSound
    <2>3. ASSUME NEW k \in Key PROVE balance[k] <= Total(Beyond(Nothing, k))
      <3>1. /\ Beyond(Nothing, k) \in [Epoch -> Int]
            /\ \A e \in Epoch : Beyond(Nothing, k)[e] = 0
        BY <2>0, <2>1, BeyondType
      <3>2. Total(Beyond(Nothing, k)) = 0
        BY <3>1, TotalOfNothing
      <3>3. balance[k] = 0
        BY DEF Init, NoBytes
      <3> QED BY <3>2, <3>3
    <2> QED BY <2>0, <2>2, <2>3 DEF ResetInv, Beyond
  <1>2. MeteringInv /\ DrainInv /\ ResetInv /\ [Next]_vars => ResetInv'
    BY ResetInvStep
  <1> QED BY <1>1, <1>2, MeteringInvariant, DrainInvariant, PTL DEF Spec

\* After a usage reset an account pays only for bytes carried since the reset was
\* asked for (usageReset.js:1-2): no byte counted before it reappears.
THEOREM ResetForgivesTheorem == Spec => []ResetForgives
  <1>1. MeteringInv /\ ResetInv => ResetForgives
    <2> SUFFICES ASSUME MeteringInv, ResetInv, NEW k \in Key
                 PROVE  balance[k] <= Total([e \in Epoch |-> traffic[e][k] - forgiven[e][k]])
      BY DEF ResetForgives
    <2> DEFINE g == [e \in Epoch |-> traffic[e][k] - forgiven[e][k]]
    <2>0. TypeOK /\ balance[k] \in Int /\ 1 \in Epoch
      BY ConstantTypes DEF MeteringInv, TypeOK, Epoch
    <2>1. PICK base \in Counters :
            BaseSound(base) /\ balance[k] <= Total(Beyond(base, k))
      BY DEF ResetInv, Beyond
    <2> DEFINE f == Beyond(base, k)
    <2>2. /\ \A e \in Epoch : /\ bill[e][k] \in Int /\ base[e][k] \in Int
                              /\ traffic[e][k] \in Int /\ forgiven[e][k] \in Int
                              /\ f[e] = bill[e][k] - base[e][k]
          /\ f \in [Epoch -> Int]
      BY <2>0, BeyondType
    <2>3. g \in [Epoch -> Int] /\ \A e \in Epoch : g[e] = traffic[e][k] - forgiven[e][k]
      BY <2>2
    <2>4. ASSUME NEW e \in Epoch PROVE f[e] <= g[e]
      <3>1. bill[e][k] <= traffic[e][k] /\ forgiven[e][k] <= traffic[e][k]
        BY <2>1 DEF MeteringInv, ChargedCarried, BaseSound
      <3>2. forgiven[e][k] <= base[e][k] \/ bill[e][k] = base[e][k]
        BY <2>1 DEF BaseSound
      <3> HIDE DEF f, g
      <3> QED BY <2>2, <2>3, <3>1, <3>2
    <2> HIDE DEF f, g
    <2>5. f[1] + 0 <= g[1]
      BY <2>0, <2>2, <2>3, <2>4
    <2>6. Total(f) \in Int /\ Total(g) \in Int /\ Total(f) <= Total(g)
      BY <2>0, <2>2, <2>3, <2>4, <2>5, TotalGrows
    <2> QED BY <2>0, <2>1, <2>6 DEF f, g
  <1> QED BY <1>1, MeteringInvariant, ResetInvariant, PTL

=============================================================================
