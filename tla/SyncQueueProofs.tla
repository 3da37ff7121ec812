--------------------------- MODULE SyncQueueProofs ---------------------------
(***************************************************************************)
(* Proofs about SyncQueue, for any set of accounts and any bound.          *)
(*                                                                         *)
(* The argument follows one job.  While nothing is owed, the list a job    *)
(* has read is still the list of eligible accounts (every edit leaves      *)
(* something owed), so each step of the job that passes brings one more    *)
(* server up to it; a job that does not pass arms the timer.               *)
(***************************************************************************)
EXTENDS SyncQueue, TLAPS

\* From these steps of a job on, the list it read last must be current.
Reading == {"install", "compare", "write", "apply", "mark"}

\* Here strongSwan must have it, if nothing is owed.
IkeSteps == {"users", "compare", "write", "apply", "mark"}

AtRest == pc = "idle" /\ ~timer

\* Between passes nothing is noted.
PassOver == wpc = "idle" => ~changed

ListCurrent == ~Owing /\ pc \in Reading => list \ expired = Eligible

IkeCurrent == ~Owing /\ (pc \in IkeSteps \/ AtRest) => ike \ expired = Eligible

CoreCurrent ==
    ~Owing /\ (pc = "mark" \/ AtRest) =>
        root \ expired = Eligible /\ core \in {Stopped, root}

\* The inductive invariant of the two theorems
SyncInv ==
    /\ TypeOK
    /\ CopyIsApplied
    /\ PassOver
    /\ ListCurrent /\ IkeCurrent /\ CoreCurrent

\* A panel restarted between the copy and its application loses the sync
\* (run SyncPanelCrash).
ApplyNotKilled == "apply" \notin KillPoints


-----------------------------------------------------------------------------
\* Every step keeps the types.
LEMMA TypeStep ==
  ASSUME TypeOK, [Next]_vars
  PROVE  TypeOK'
<1> USE DEF TypeOK, dbVars, serverVars, jobVars, queueVars, workerVars
<1>0. MaxQueue \in Nat /\ MaxQueue > 0
  BY SyncAssumption DEF SyncAssumption
<1>1. ASSUME NEW u \in User, Toggle(u)
     PROVE  TypeOK'
  <2>1. DbType' /\ WorkerType'
    BY <1>1 DEF Toggle, DbType, WorkerType
  <2>2. QueueType'
    BY <1>0, <1>1 DEF Toggle, DbType, QueueType, Steps
  <2>3. ServerType'
    BY <1>1 DEF Toggle, ServerType, QueueType
  <2>4. FlagType'
    BY <1>1 DEF Toggle, FlagType
  <2>5. (halted' => core' = Stopped) /\ (pc' = "apply" => file' = list')
    BY <1>1 DEF Toggle
  <2> QED
    BY <2>1, <2>2, <2>3, <2>4, <2>5 DEF TypeOK
<1>2. ASSUME NEW u \in User, Release(u)
     PROVE  TypeOK'
  <2>1. DbType' /\ WorkerType'
    BY <1>2 DEF Release, DbType, WorkerType
  <2>2. QueueType'
    BY <1>0, <1>2 DEF Release, DbType, QueueType, Steps
  <2>3. ServerType'
    BY <1>2 DEF Release, ServerType, QueueType
  <2>4. FlagType'
    BY <1>2 DEF Release, FlagType
  <2>5. (halted' => core' = Stopped) /\ (pc' = "apply" => file' = list')
    BY <1>2 DEF Release
  <2> QED
    BY <2>1, <2>2, <2>3, <2>4, <2>5 DEF TypeOK
<1>3. ASSUME NEW u \in User, Extend(u)
     PROVE  TypeOK'
  <2>1. DbType' /\ WorkerType'
    BY <1>3 DEF Extend, DbType, WorkerType
  <2>2. QueueType'
    BY <1>0, <1>3 DEF Extend, DbType, QueueType, Steps
  <2>3. ServerType'
    BY <1>3 DEF Extend, ServerType, QueueType
  <2>4. FlagType'
    BY <1>3 DEF Extend, FlagType
  <2>5. (halted' => core' = Stopped) /\ (pc' = "apply" => file' = list')
    BY <1>3 DEF Extend
  <2> QED
    BY <2>1, <2>2, <2>3, <2>4, <2>5 DEF TypeOK
<1>3a. ASSUME NEW u \in User, SetExpiry(u)
     PROVE  TypeOK'
  <2>1. DbType' /\ WorkerType'
    BY <1>3a DEF SetExpiry, DbType, WorkerType
  <2>2. QueueType'
    BY <1>0, <1>3a DEF SetExpiry, DbType, QueueType, Steps
  <2>3. ServerType'
    BY <1>3a DEF SetExpiry, ServerType, QueueType
  <2>4. FlagType'
    BY <1>3a DEF SetExpiry, FlagType
  <2>5. (halted' => core' = Stopped) /\ (pc' = "apply" => file' = list')
    BY <1>3a DEF SetExpiry
  <2> QED
    BY <2>1, <2>2, <2>3, <2>4, <2>5 DEF TypeOK
<1>4. ASSUME NEW u \in User, QuotaChanges(u)
     PROVE  TypeOK'
  <2>1. DbType' /\ WorkerType'
    BY <1>4 DEF QuotaChanges, DbType, WorkerType
  <2>2. QueueType'
    BY <1>0, <1>4 DEF QuotaChanges, DbType, QueueType, Steps
  <2>3. ServerType'
    BY <1>4 DEF QuotaChanges, ServerType, QueueType
  <2>4. FlagType'
    BY <1>4 DEF QuotaChanges, FlagType
  <2>5. (halted' => core' = Stopped) /\ (pc' = "apply" => file' = list')
    BY <1>4 DEF QuotaChanges
  <2> QED
    BY <2>1, <2>2, <2>3, <2>4, <2>5 DEF TypeOK
<1>5. ASSUME NEW u \in User, Expires(u)
     PROVE  TypeOK'
  <2>1. DbType' /\ WorkerType'
    BY <1>5 DEF Expires, DbType, WorkerType
  <2>2. QueueType'
    BY <1>0, <1>5 DEF Expires, DbType, QueueType, Steps
  <2>3. ServerType'
    BY <1>5 DEF Expires, ServerType, QueueType
  <2>4. FlagType'
    BY <1>5 DEF Expires, FlagType
  <2>5. (halted' => core' = Stopped) /\ (pc' = "apply" => file' = list')
    BY <1>5 DEF Expires
  <2> QED
    BY <2>1, <2>2, <2>3, <2>4, <2>5 DEF TypeOK
<1>6. ASSUME NEW who \in {"admin", "worker"}, QueueSync(who)
     PROVE  TypeOK'
  <2>1. DbType' /\ WorkerType'
    BY <1>6 DEF QueueSync, Enqueued, DbType, WorkerType
  <2>2. QueueType'
    BY <1>0, <1>6 DEF QueueSync, Enqueued, DbType, QueueType, Steps
  <2>3. ServerType'
    BY <1>6 DEF QueueSync, Enqueued, ServerType, QueueType
  <2>4. FlagType'
    BY <1>6 DEF QueueSync, Enqueued, FlagType
  <2>5. (halted' => core' = Stopped) /\ (pc' = "apply" => file' = list')
    BY <1>6 DEF QueueSync, Enqueued
  <2> QED
    BY <2>1, <2>2, <2>3, <2>4, <2>5 DEF TypeOK
<1>7. CASE CollectFails
  <2>1. DbType' /\ WorkerType'
    BY <1>7 DEF CollectFails, TryStop, StopCore, DbType, WorkerType
  <2>2. QueueType'
    BY <1>0, <1>7 DEF CollectFails, TryStop, StopCore, DbType, QueueType,
       Steps
  <2>3. ServerType'
    BY <1>7 DEF CollectFails, TryStop, StopCore, ServerType, QueueType
  <2>4. FlagType'
    BY <1>7 DEF CollectFails, TryStop, StopCore, FlagType
  <2>5. (halted' => core' = Stopped) /\ (pc' = "apply" => file' = list')
    BY <1>7 DEF CollectFails, TryStop, StopCore
  <2> QED
    BY <2>1, <2>2, <2>3, <2>4, <2>5 DEF TypeOK
<1>8. CASE ReadRows
  <2>1. DbType' /\ WorkerType'
    BY <1>8 DEF ReadRows, DbType, WorkerType
  <2>2. QueueType'
    BY <1>0, <1>8 DEF ReadRows, DbType, QueueType, Steps
  <2>3. ServerType'
    BY <1>8 DEF ReadRows, ServerType, QueueType
  <2>4. FlagType'
    BY <1>8 DEF ReadRows, FlagType
  <2>5. (halted' => core' = Stopped) /\ (pc' = "apply" => file' = list')
    BY <1>8 DEF ReadRows
  <2> QED
    BY <2>1, <2>2, <2>3, <2>4, <2>5 DEF TypeOK
<1>9. ASSUME NEW u \in User, NEW b \in BOOLEAN, NEW r \in BOOLEAN, EnforceRow(u, b, r)
     PROVE  TypeOK'
  <2>1. DbType' /\ WorkerType'
    BY <1>9 DEF EnforceRow, DbType, WorkerType
  <2>2. QueueType'
    BY <1>0, <1>9 DEF EnforceRow, DbType, QueueType, Steps
  <2>3. ServerType'
    BY <1>9 DEF EnforceRow, ServerType, QueueType
  <2>4. FlagType'
    BY <1>9 DEF EnforceRow, FlagType
  <2>5. (halted' => core' = Stopped) /\ (pc' = "apply" => file' = list')
    BY <1>9 DEF EnforceRow
  <2> QED
    BY <2>1, <2>2, <2>3, <2>4, <2>5 DEF TypeOK
<1>10. CASE EndRows
  <2>1. DbType' /\ WorkerType'
    BY <1>10 DEF EndRows, Ended, Enqueued, DbType, WorkerType
  <2>2. QueueType'
    BY <1>0, <1>10 DEF EndRows, Ended, Enqueued, DbType, QueueType, Steps
  <2>3. ServerType'
    BY <1>10 DEF EndRows, Ended, Enqueued, ServerType, QueueType
  <2>4. FlagType'
    BY <1>10 DEF EndRows, Ended, Enqueued, FlagType
  <2>5. (halted' => core' = Stopped) /\ (pc' = "apply" => file' = list')
    BY <1>10 DEF EndRows, Ended, Enqueued
  <2> QED
    BY <2>1, <2>2, <2>3, <2>4, <2>5 DEF TypeOK
<1>11. CASE AbortRows
  <2>1. DbType' /\ WorkerType'
    BY <1>11 DEF AbortRows, Ended, DbType, WorkerType
  <2>2. QueueType'
    BY <1>0, <1>11 DEF AbortRows, Ended, DbType, QueueType, Steps
  <2>3. ServerType'
    BY <1>11 DEF AbortRows, Ended, ServerType, QueueType
  <2>4. FlagType'
    BY <1>11 DEF AbortRows, Ended, FlagType
  <2>5. (halted' => core' = Stopped) /\ (pc' = "apply" => file' = list')
    BY <1>11 DEF AbortRows, Ended
  <2> QED
    BY <2>1, <2>2, <2>3, <2>4, <2>5 DEF TypeOK
<1>12. CASE StartJob
  <2>1. DbType' /\ WorkerType'
    BY <1>12 DEF StartJob, DbType, WorkerType
  <2>2. QueueType'
    BY <1>0, <1>12 DEF StartJob, DbType, QueueType, Steps
  <2>3. ServerType'
    BY <1>12 DEF StartJob, ServerType, QueueType
  <2>4. FlagType'
    BY <1>12 DEF StartJob, FlagType
  <2>5. (halted' => core' = Stopped) /\ (pc' = "apply" => file' = list')
    BY <1>12 DEF StartJob
  <2> QED
    BY <2>1, <2>2, <2>3, <2>4, <2>5 DEF TypeOK
<1>13. CASE ReadSecrets
  <2>1. DbType' /\ WorkerType'
    BY <1>13 DEF ReadSecrets, Eligible, DbType, WorkerType
  <2>2. QueueType'
    BY <1>0, <1>13 DEF ReadSecrets, Eligible, DbType, QueueType, Steps
  <2>3. ServerType'
    BY <1>13 DEF ReadSecrets, Eligible, ServerType, QueueType
  <2>4. FlagType'
    BY <1>13 DEF ReadSecrets, Eligible, FlagType
  <2>5. (halted' => core' = Stopped) /\ (pc' = "apply" => file' = list')
    BY <1>13 DEF ReadSecrets, Eligible
  <2> QED
    BY <2>1, <2>2, <2>3, <2>4, <2>5 DEF TypeOK
<1>14. CASE Install
  <2>1. DbType' /\ WorkerType'
    BY <1>14 DEF Install, DbType, WorkerType
  <2>2. QueueType'
    BY <1>0, <1>14 DEF Install, DbType, QueueType, Steps
  <2>3. ServerType'
    BY <1>14 DEF Install, ServerType, QueueType
  <2>4. FlagType'
    BY <1>14 DEF Install, FlagType
  <2>5. (halted' => core' = Stopped) /\ (pc' = "apply" => file' = list')
    BY <1>14 DEF Install
  <2> QED
    BY <2>1, <2>2, <2>3, <2>4, <2>5 DEF TypeOK
<1>15. CASE InstallFails
  <2>1. DbType' /\ WorkerType'
    BY <1>15 DEF InstallFails, Fail, TryStop, StopCore, DbType, WorkerType
  <2>2. QueueType'
    BY <1>0, <1>15 DEF InstallFails, Fail, TryStop, StopCore, DbType,
       QueueType, Steps
  <2>3. ServerType'
    BY <1>15 DEF InstallFails, Fail, TryStop, StopCore, ServerType, QueueType
  <2>4. FlagType'
    BY <1>15 DEF InstallFails, Fail, TryStop, StopCore, FlagType
  <2>5. (halted' => core' = Stopped) /\ (pc' = "apply" => file' = list')
    BY <1>15 DEF InstallFails, Fail, TryStop, StopCore
  <2> QED
    BY <2>1, <2>2, <2>3, <2>4, <2>5 DEF TypeOK
<1>16. CASE InstallHalfFails
  <2>1. DbType' /\ WorkerType'
    BY <1>16 DEF InstallHalfFails, TryStop, StopCore, DbType, WorkerType
  <2>2. QueueType'
    BY <1>0, <1>16 DEF InstallHalfFails, TryStop, StopCore, DbType, QueueType,
       Steps
  <2>3. ServerType'
    BY <1>16 DEF InstallHalfFails, TryStop, StopCore, ServerType, QueueType
  <2>4. FlagType'
    BY <1>16 DEF InstallHalfFails, TryStop, StopCore, FlagType
  <2>5. (halted' => core' = Stopped) /\ (pc' = "apply" => file' = list')
    BY <1>16 DEF InstallHalfFails, TryStop, StopCore
  <2> QED
    BY <2>1, <2>2, <2>3, <2>4, <2>5 DEF TypeOK
<1>17. CASE ReadAccounts
  <2>1. DbType' /\ WorkerType'
    BY <1>17 DEF ReadAccounts, Eligible, DbType, WorkerType
  <2>2. QueueType'
    BY <1>0, <1>17 DEF ReadAccounts, Eligible, DbType, QueueType, Steps
  <2>3. ServerType'
    BY <1>17 DEF ReadAccounts, Eligible, ServerType, QueueType
  <2>4. FlagType'
    BY <1>17 DEF ReadAccounts, Eligible, FlagType
  <2>5. (halted' => core' = Stopped) /\ (pc' = "apply" => file' = list')
    BY <1>17 DEF ReadAccounts, Eligible
  <2> QED
    BY <2>1, <2>2, <2>3, <2>4, <2>5 DEF TypeOK
<1>18. CASE Skip
  <2>1. DbType' /\ WorkerType'
    BY <1>18 DEF Skip, UpToDate, Fail, TryStop, StopCore, DbType, WorkerType
  <2>2. QueueType'
    BY <1>0, <1>18 DEF Skip, UpToDate, Fail, TryStop, StopCore, DbType,
       QueueType, Steps
  <2>3. ServerType'
    BY <1>18 DEF Skip, UpToDate, Fail, TryStop, StopCore, ServerType,
       QueueType
  <2>4. FlagType'
    BY <1>18 DEF Skip, UpToDate, Fail, TryStop, StopCore, FlagType
  <2>5. (halted' => core' = Stopped) /\ (pc' = "apply" => file' = list')
    BY <1>18 DEF Skip, UpToDate, Fail, TryStop, StopCore
  <2> QED
    BY <2>1, <2>2, <2>3, <2>4, <2>5 DEF TypeOK
<1>19. CASE Differs
  <2>1. DbType' /\ WorkerType'
    BY <1>19 DEF Differs, DbType, WorkerType
  <2>2. QueueType'
    BY <1>0, <1>19 DEF Differs, DbType, QueueType, Steps
  <2>3. ServerType'
    BY <1>19 DEF Differs, ServerType, QueueType
  <2>4. FlagType'
    BY <1>19 DEF Differs, FlagType
  <2>5. (halted' => core' = Stopped) /\ (pc' = "apply" => file' = list')
    BY <1>19 DEF Differs
  <2> QED
    BY <2>1, <2>2, <2>3, <2>4, <2>5 DEF TypeOK
<1>20. CASE PrepareFails
  <2>1. DbType' /\ WorkerType'
    BY <1>20 DEF PrepareFails, Fail, TryStop, StopCore, DbType, WorkerType
  <2>2. QueueType'
    BY <1>0, <1>20 DEF PrepareFails, Fail, TryStop, StopCore, DbType,
       QueueType, Steps
  <2>3. ServerType'
    BY <1>20 DEF PrepareFails, Fail, TryStop, StopCore, ServerType, QueueType
  <2>4. FlagType'
    BY <1>20 DEF PrepareFails, Fail, TryStop, StopCore, FlagType
  <2>5. (halted' => core' = Stopped) /\ (pc' = "apply" => file' = list')
    BY <1>20 DEF PrepareFails, Fail, TryStop, StopCore
  <2> QED
    BY <2>1, <2>2, <2>3, <2>4, <2>5 DEF TypeOK
<1>21. CASE WriteFile
  <2>1. DbType' /\ WorkerType'
    BY <1>21 DEF WriteFile, DbType, WorkerType
  <2>2. QueueType'
    BY <1>0, <1>21 DEF WriteFile, DbType, QueueType, Steps
  <2>3. ServerType'
    BY <1>21 DEF WriteFile, ServerType, QueueType
  <2>4. FlagType'
    BY <1>21 DEF WriteFile, FlagType
  <2>5. (halted' => core' = Stopped) /\ (pc' = "apply" => file' = list')
    BY <1>21 DEF WriteFile
  <2> QED
    BY <2>1, <2>2, <2>3, <2>4, <2>5 DEF TypeOK
<1>22. CASE Apply
  <2>1. DbType' /\ WorkerType'
    BY <1>22 DEF Apply, DbType, WorkerType
  <2>2. QueueType'
    BY <1>0, <1>22 DEF Apply, DbType, QueueType, Steps
  <2>3. ServerType'
    BY <1>22 DEF Apply, ServerType, QueueType
  <2>4. FlagType'
    BY <1>22 DEF Apply, FlagType
  <2>5. (halted' => core' = Stopped) /\ (pc' = "apply" => file' = list')
    BY <1>22 DEF Apply
  <2> QED
    BY <2>1, <2>2, <2>3, <2>4, <2>5 DEF TypeOK
<1>23. CASE ApplyFails
  <2>1. DbType' /\ WorkerType'
    BY <1>23 DEF ApplyFails, TryStop, StopCore, FileDropped, DbType,
       WorkerType
  <2>2. QueueType'
    BY <1>0, <1>23 DEF ApplyFails, TryStop, StopCore, FileDropped, DbType,
       QueueType, Steps
  <2>3. ServerType'
    BY <1>23 DEF ApplyFails, TryStop, StopCore, FileDropped, ServerType,
       QueueType
  <2>4. FlagType'
    BY <1>23 DEF ApplyFails, TryStop, StopCore, FileDropped, FlagType
  <2>5. (halted' => core' = Stopped) /\ (pc' = "apply" => file' = list')
    BY <1>23 DEF ApplyFails, TryStop, StopCore, FileDropped
  <2> QED
    BY <2>1, <2>2, <2>3, <2>4, <2>5 DEF TypeOK
<1>24. CASE Mark
  <2>1. DbType' /\ WorkerType'
    BY <1>24 DEF Mark, DbType, WorkerType
  <2>2. QueueType'
    BY <1>0, <1>24 DEF Mark, DbType, QueueType, Steps
  <2>3. ServerType'
    BY <1>24 DEF Mark, ServerType, QueueType
  <2>4. FlagType'
    BY <1>24 DEF Mark, FlagType
  <2>5. (halted' => core' = Stopped) /\ (pc' = "apply" => file' = list')
    BY <1>24 DEF Mark
  <2> QED
    BY <2>1, <2>2, <2>3, <2>4, <2>5 DEF TypeOK
<1>25. CASE MarkFails
  <2>1. DbType' /\ WorkerType'
    BY <1>25 DEF MarkFails, Fail, TryStop, StopCore, DbType, WorkerType
  <2>2. QueueType'
    BY <1>0, <1>25 DEF MarkFails, Fail, TryStop, StopCore, DbType, QueueType,
       Steps
  <2>3. ServerType'
    BY <1>25 DEF MarkFails, Fail, TryStop, StopCore, ServerType, QueueType
  <2>4. FlagType'
    BY <1>25 DEF MarkFails, Fail, TryStop, StopCore, FlagType
  <2>5. (halted' => core' = Stopped) /\ (pc' = "apply" => file' = list')
    BY <1>25 DEF MarkFails, Fail, TryStop, StopCore
  <2> QED
    BY <2>1, <2>2, <2>3, <2>4, <2>5 DEF TypeOK
<1>26. CASE Retry
  <2>1. DbType' /\ WorkerType'
    BY <1>26 DEF Retry, Enqueued, DbType, WorkerType
  <2>2. QueueType'
    BY <1>0, <1>26 DEF Retry, Enqueued, DbType, QueueType, Steps
  <2>3. ServerType'
    BY <1>26 DEF Retry, Enqueued, ServerType, QueueType
  <2>4. FlagType'
    BY <1>26 DEF Retry, Enqueued, FlagType
  <2>5. (halted' => core' = Stopped) /\ (pc' = "apply" => file' = list')
    BY <1>26 DEF Retry, Enqueued
  <2> QED
    BY <2>1, <2>2, <2>3, <2>4, <2>5 DEF TypeOK
<1>27. CASE CoreDies
  <2>1. DbType' /\ WorkerType'
    BY <1>27 DEF CoreDies, DbType, WorkerType
  <2>2. QueueType'
    BY <1>0, <1>27 DEF CoreDies, DbType, QueueType, Steps
  <2>3. ServerType'
    BY <1>27 DEF CoreDies, ServerType, QueueType
  <2>4. FlagType'
    BY <1>27 DEF CoreDies, FlagType
  <2>5. (halted' => core' = Stopped) /\ (pc' = "apply" => file' = list')
    BY <1>27 DEF CoreDies
  <2> QED
    BY <2>1, <2>2, <2>3, <2>4, <2>5 DEF TypeOK
<1>28. CASE CoreRestarts
  <2>1. DbType' /\ WorkerType'
    BY <1>28 DEF CoreRestarts, RestartOnFailure, DbType, WorkerType
  <2>2. QueueType'
    BY <1>0, <1>28 DEF CoreRestarts, RestartOnFailure, DbType, QueueType,
       Steps
  <2>3. ServerType'
    BY <1>28 DEF CoreRestarts, RestartOnFailure, ServerType, QueueType
  <2>4. FlagType'
    BY <1>28 DEF CoreRestarts, RestartOnFailure, FlagType
  <2>5. (halted' => core' = Stopped) /\ (pc' = "apply" => file' = list')
    BY <1>28 DEF CoreRestarts, RestartOnFailure
  <2> QED
    BY <2>1, <2>2, <2>3, <2>4, <2>5 DEF TypeOK
<1>29. CASE PanelRestart
  <2>1. DbType' /\ WorkerType'
    BY <1>29 DEF PanelRestart, Ended, DbType, WorkerType
  <2>2. QueueType'
    BY <1>0, <1>29 DEF PanelRestart, Ended, DbType, QueueType, Steps
  <2>3. ServerType'
    BY <1>29 DEF PanelRestart, Ended, ServerType, QueueType
  <2>4. FlagType'
    BY <1>29 DEF PanelRestart, Ended, FlagType
  <2>5. (halted' => core' = Stopped) /\ (pc' = "apply" => file' = list')
    BY <1>29 DEF PanelRestart, Ended
  <2> QED
    BY <2>1, <2>2, <2>3, <2>4, <2>5 DEF TypeOK
<1>30. CASE UNCHANGED vars
  BY <1>0, <1>30 DEF vars, DbType, ServerType, QueueType, WorkerType, FlagType
<1> QED
  BY <1>1, <1>2, <1>3, <1>3a, <1>4, <1>5, <1>6, <1>7, <1>8, <1>9, <1>10, <1>11,
     <1>12, <1>13, <1>14, <1>15, <1>16, <1>17, <1>18, <1>19, <1>20, <1>21,
     <1>22, <1>23, <1>24, <1>25, <1>26, <1>27, <1>28, <1>29, <1>30 DEF Next,
     Job

\* No step parts the copy from the applied configuration: only WriteFile changes
\* the copy alone, and the steps that leave "apply" settle both.
LEMMA CopyStep ==
  ASSUME TypeOK, CopyIsApplied, ApplyNotKilled, [Next]_vars
  PROVE  CopyIsApplied'
<1> USE DEF dbVars, serverVars, jobVars, queueVars, workerVars
<1>1. ASSUME NEW u \in User, Toggle(u)
     PROVE  CopyIsApplied'
  BY <1>1 DEF Toggle, CopyIsApplied, Served, ApplyNotKilled, TypeOK
<1>2. ASSUME NEW u \in User, Release(u)
     PROVE  CopyIsApplied'
  BY <1>2 DEF Release, CopyIsApplied, Served, ApplyNotKilled, TypeOK
<1>3. ASSUME NEW u \in User, Extend(u)
     PROVE  CopyIsApplied'
  BY <1>3 DEF Extend, CopyIsApplied, Served, ApplyNotKilled, TypeOK
<1>3a. ASSUME NEW u \in User, SetExpiry(u)
     PROVE  CopyIsApplied'
  BY <1>3a DEF SetExpiry, CopyIsApplied, Served, ApplyNotKilled, TypeOK
<1>4. ASSUME NEW u \in User, QuotaChanges(u)
     PROVE  CopyIsApplied'
  BY <1>4 DEF QuotaChanges, CopyIsApplied, Served, ApplyNotKilled, TypeOK
<1>5. ASSUME NEW u \in User, Expires(u)
     PROVE  CopyIsApplied'
  BY <1>5 DEF Expires, CopyIsApplied, Served, ApplyNotKilled, TypeOK
<1>6. ASSUME NEW who \in {"admin", "worker"}, QueueSync(who)
     PROVE  CopyIsApplied'
  BY <1>6 DEF QueueSync, Enqueued, CopyIsApplied, Served, ApplyNotKilled,
     TypeOK
<1>7. CASE CollectFails
  BY <1>7 DEF CollectFails, TryStop, StopCore, CopyIsApplied, Served,
     ApplyNotKilled, TypeOK
<1>8. CASE ReadRows
  BY <1>8 DEF ReadRows, CopyIsApplied, Served, ApplyNotKilled, TypeOK
<1>9. ASSUME NEW u \in User, NEW b \in BOOLEAN, NEW r \in BOOLEAN, EnforceRow(u, b, r)
     PROVE  CopyIsApplied'
  BY <1>9 DEF EnforceRow, CopyIsApplied, Served, ApplyNotKilled, TypeOK
<1>10. CASE EndRows
  BY <1>10 DEF EndRows, Ended, Enqueued, CopyIsApplied, Served,
     ApplyNotKilled, TypeOK
<1>11. CASE AbortRows
  BY <1>11 DEF AbortRows, Ended, CopyIsApplied, Served, ApplyNotKilled, TypeOK
<1>12. CASE StartJob
  BY <1>12 DEF StartJob, CopyIsApplied, Served, ApplyNotKilled, TypeOK
<1>13. CASE ReadSecrets
  BY <1>13 DEF ReadSecrets, Eligible, CopyIsApplied, Served, ApplyNotKilled,
     TypeOK
<1>14. CASE Install
  BY <1>14 DEF Install, CopyIsApplied, Served, ApplyNotKilled, TypeOK
<1>15. CASE InstallFails
  BY <1>15 DEF InstallFails, Fail, TryStop, StopCore, CopyIsApplied, Served,
     ApplyNotKilled, TypeOK
<1>16. CASE InstallHalfFails
  BY <1>16 DEF InstallHalfFails, TryStop, StopCore, CopyIsApplied, Served,
     ApplyNotKilled, TypeOK
<1>17. CASE ReadAccounts
  BY <1>17 DEF ReadAccounts, Eligible, CopyIsApplied, Served, ApplyNotKilled,
     TypeOK
<1>18. CASE Skip
  BY <1>18 DEF Skip, UpToDate, Fail, TryStop, StopCore, CopyIsApplied, Served,
     ApplyNotKilled, TypeOK
<1>19. CASE Differs
  BY <1>19 DEF Differs, CopyIsApplied, Served, ApplyNotKilled, TypeOK
<1>20. CASE PrepareFails
  BY <1>20 DEF PrepareFails, Fail, TryStop, StopCore, CopyIsApplied, Served,
     ApplyNotKilled, TypeOK
<1>21. CASE WriteFile
  BY <1>21 DEF WriteFile, CopyIsApplied, Served, ApplyNotKilled, TypeOK
<1>22. CASE Apply
  BY <1>22 DEF Apply, CopyIsApplied, Served, ApplyNotKilled, TypeOK
<1>23. CASE ApplyFails
  BY <1>23 DEF ApplyFails, TryStop, StopCore, FileDropped, CopyIsApplied,
     Served, ApplyNotKilled, TypeOK
<1>24. CASE Mark
  BY <1>24 DEF Mark, CopyIsApplied, Served, ApplyNotKilled, TypeOK
<1>25. CASE MarkFails
  BY <1>25 DEF MarkFails, Fail, TryStop, StopCore, CopyIsApplied, Served,
     ApplyNotKilled, TypeOK
<1>26. CASE Retry
  BY <1>26 DEF Retry, Enqueued, CopyIsApplied, Served, ApplyNotKilled, TypeOK
<1>27. CASE CoreDies
  BY <1>27 DEF CoreDies, CopyIsApplied, Served, ApplyNotKilled, TypeOK
<1>28. CASE CoreRestarts
  BY <1>28 DEF CoreRestarts, RestartOnFailure, CopyIsApplied, Served,
     ApplyNotKilled, TypeOK
<1>29. CASE PanelRestart
  BY <1>29 DEF PanelRestart, Ended, CopyIsApplied, Served, ApplyNotKilled,
     TypeOK
<1>30. CASE UNCHANGED vars
  BY <1>30 DEF vars, CopyIsApplied, Served, ApplyNotKilled, TypeOK
<1> QED
  BY <1>1, <1>2, <1>3, <1>3a, <1>4, <1>5, <1>6, <1>7, <1>8, <1>9, <1>10, <1>11,
     <1>12, <1>13, <1>14, <1>15, <1>16, <1>17, <1>18, <1>19, <1>20, <1>21,
     <1>22, <1>23, <1>24, <1>25, <1>26, <1>27, <1>28, <1>29, <1>30 DEF Next,
     Job

\* While nothing is owed, every step leaves the list and the servers current.
LEMMA CurrentStep ==
  ASSUME SyncInv, TypeOK', ~WorkerFaults, ApplyNotKilled, [Next]_vars
  PROVE  PassOver' /\ ListCurrent' /\ IkeCurrent' /\ CoreCurrent'
<1> USE DEF ListCurrent, IkeCurrent, CoreCurrent, PassOver, Owing, AtRest, Eligible,
            Reading, IkeSteps, dbVars, serverVars, jobVars, queueVars, workerVars
<1>0. MaxQueue \in Nat /\ MaxQueue > 0
  BY SyncAssumption DEF SyncAssumption
<1>1. ASSUME NEW u \in User, Toggle(u)
     PROVE  PassOver' /\ ListCurrent' /\ IkeCurrent' /\ CoreCurrent'
  BY <1>0, <1>1 DEF Toggle, CopyIsApplied, Served, SyncInv, TypeOK, QueueType,
     ApplyNotKilled
<1>2. ASSUME NEW u \in User, Release(u)
     PROVE  PassOver' /\ ListCurrent' /\ IkeCurrent' /\ CoreCurrent'
  BY <1>0, <1>2 DEF Release, CopyIsApplied, Served, SyncInv, TypeOK,
     QueueType, ApplyNotKilled
<1>3. ASSUME NEW u \in User, Extend(u)
     PROVE  PassOver' /\ ListCurrent' /\ IkeCurrent' /\ CoreCurrent'
  BY <1>0, <1>3 DEF Extend, CopyIsApplied, Served, SyncInv, TypeOK, QueueType,
     ApplyNotKilled
<1>3a. ASSUME NEW u \in User, SetExpiry(u)
     PROVE  PassOver' /\ ListCurrent' /\ IkeCurrent' /\ CoreCurrent'
  BY <1>0, <1>3a DEF SetExpiry, CopyIsApplied, Served, SyncInv, TypeOK, QueueType,
     ApplyNotKilled
<1>4. ASSUME NEW u \in User, QuotaChanges(u)
     PROVE  PassOver' /\ ListCurrent' /\ IkeCurrent' /\ CoreCurrent'
  BY <1>0, <1>4 DEF QuotaChanges, CopyIsApplied, Served, SyncInv, TypeOK,
     QueueType, ApplyNotKilled
<1>5. ASSUME NEW u \in User, Expires(u)
     PROVE  PassOver' /\ ListCurrent' /\ IkeCurrent' /\ CoreCurrent'
  BY <1>0, <1>5 DEF Expires, CopyIsApplied, Served, SyncInv, TypeOK,
     QueueType, ApplyNotKilled
<1>6. ASSUME NEW who \in {"admin", "worker"}, QueueSync(who)
     PROVE  PassOver' /\ ListCurrent' /\ IkeCurrent' /\ CoreCurrent'
  BY <1>0, <1>6 DEF QueueSync, Enqueued, CopyIsApplied, Served, SyncInv,
     TypeOK, QueueType, ApplyNotKilled
<1>7. CASE CollectFails
  BY <1>0, <1>7 DEF CollectFails, TryStop, StopCore, CopyIsApplied, Served,
     SyncInv, TypeOK, QueueType, ApplyNotKilled
<1>8. CASE ReadRows
  BY <1>0, <1>8 DEF ReadRows, CopyIsApplied, Served, SyncInv, TypeOK,
     QueueType, ApplyNotKilled
<1>9. ASSUME NEW u \in User, NEW b \in BOOLEAN, NEW r \in BOOLEAN, EnforceRow(u, b, r)
     PROVE  PassOver' /\ ListCurrent' /\ IkeCurrent' /\ CoreCurrent'
  BY <1>0, <1>9 DEF EnforceRow, CopyIsApplied, Served, SyncInv, TypeOK,
     QueueType, ApplyNotKilled
<1>10. CASE EndRows
  BY <1>0, <1>10 DEF EndRows, Ended, Enqueued, CopyIsApplied, Served, SyncInv,
     TypeOK, QueueType, ApplyNotKilled
<1>11. CASE AbortRows
  BY <1>0, <1>11 DEF AbortRows, Ended, CopyIsApplied, Served, SyncInv, TypeOK,
     QueueType, ApplyNotKilled
<1>12. CASE StartJob
  BY <1>0, <1>12 DEF StartJob, CopyIsApplied, Served, SyncInv, TypeOK,
     QueueType, ApplyNotKilled
<1>13. CASE ReadSecrets
  BY <1>0, <1>13 DEF ReadSecrets, Eligible, CopyIsApplied, Served, SyncInv,
     TypeOK, QueueType, ApplyNotKilled
<1>14. CASE Install
  BY <1>0, <1>14 DEF Install, CopyIsApplied, Served, SyncInv, TypeOK,
     QueueType, ApplyNotKilled
<1>15. CASE InstallFails
  BY <1>0, <1>15 DEF InstallFails, Fail, TryStop, StopCore, CopyIsApplied,
     Served, SyncInv, TypeOK, QueueType, ApplyNotKilled
<1>16. CASE InstallHalfFails
  BY <1>0, <1>16 DEF InstallHalfFails, TryStop, StopCore, CopyIsApplied,
     Served, SyncInv, TypeOK, QueueType, ApplyNotKilled
<1>17. CASE ReadAccounts
  BY <1>0, <1>17 DEF ReadAccounts, Eligible, CopyIsApplied, Served, SyncInv,
     TypeOK, QueueType, ApplyNotKilled
<1>18. CASE Skip
  <2>1. CASE warpErr
    BY <1>18, <2>1 DEF Skip, UpToDate, Fail, TryStop, StopCore, CopyIsApplied,
       Served, SyncInv, TypeOK, QueueType, ApplyNotKilled
  <2>2. CASE ~warpErr
    <3>1. file = list /\ core # Stopped /\ pc' = "mark"
          /\ UNCHANGED <<dbVars, serverVars, queueVars, list, wpc, changed>>
      BY <1>18, <2>2 DEF Skip, UpToDate, Fail, TryStop, StopCore
    <3>2. list # NoFile
      BY SyncAssumption DEF SyncAssumption, SyncInv, TypeOK, QueueType
    <3>3. root = list /\ core = root
      BY <1>18, <3>1, <3>2 DEF Skip, SyncInv, CopyIsApplied, Served, TypeOK
    <3> QED
      BY <1>18, <3>1, <3>3 DEF Skip, CopyIsApplied, Served, SyncInv, TypeOK,
         QueueType, ApplyNotKilled
  <2> QED
    BY <2>1, <2>2
<1>19. CASE Differs
  BY <1>0, <1>19 DEF Differs, CopyIsApplied, Served, SyncInv, TypeOK,
     QueueType, ApplyNotKilled
<1>20. CASE PrepareFails
  BY <1>0, <1>20 DEF PrepareFails, Fail, TryStop, StopCore, CopyIsApplied,
     Served, SyncInv, TypeOK, QueueType, ApplyNotKilled
<1>21. CASE WriteFile
  BY <1>0, <1>21 DEF WriteFile, CopyIsApplied, Served, SyncInv, TypeOK,
     QueueType, ApplyNotKilled
<1>22. CASE Apply
  BY <1>0, <1>22 DEF Apply, CopyIsApplied, Served, SyncInv, TypeOK, QueueType,
     ApplyNotKilled
<1>23. CASE ApplyFails
  BY <1>0, <1>23 DEF ApplyFails, TryStop, StopCore, FileDropped,
     CopyIsApplied, Served, SyncInv, TypeOK, QueueType, ApplyNotKilled
<1>24. CASE Mark
  BY <1>0, <1>24 DEF Mark, CopyIsApplied, Served, SyncInv, TypeOK, QueueType,
     ApplyNotKilled
<1>25. CASE MarkFails
  BY <1>0, <1>25 DEF MarkFails, Fail, TryStop, StopCore, CopyIsApplied,
     Served, SyncInv, TypeOK, QueueType, ApplyNotKilled
<1>26. CASE Retry
  BY <1>0, <1>26 DEF Retry, Enqueued, CopyIsApplied, Served, SyncInv, TypeOK,
     QueueType, ApplyNotKilled
<1>27. CASE CoreDies
  BY <1>0, <1>27 DEF CoreDies, CopyIsApplied, Served, SyncInv, TypeOK,
     QueueType, ApplyNotKilled
<1>28. CASE CoreRestarts
  BY <1>0, <1>28 DEF CoreRestarts, RestartOnFailure, CopyIsApplied, Served,
     SyncInv, TypeOK, QueueType, ApplyNotKilled
<1>29. CASE PanelRestart
  BY <1>0, <1>29 DEF PanelRestart, Ended, CopyIsApplied, Served, SyncInv,
     TypeOK, QueueType, ApplyNotKilled
<1>30. CASE UNCHANGED vars
  BY <1>0, <1>30 DEF vars, CopyIsApplied, Served, SyncInv, TypeOK, QueueType,
     ApplyNotKilled
<1> QED
  BY <1>1, <1>2, <1>3, <1>3a, <1>4, <1>5, <1>6, <1>7, <1>8, <1>9, <1>10, <1>11,
     <1>12, <1>13, <1>14, <1>15, <1>16, <1>17, <1>18, <1>19, <1>20, <1>21,
     <1>22, <1>23, <1>24, <1>25, <1>26, <1>27, <1>28, <1>29, <1>30 DEF Next,
     Job

-----------------------------------------------------------------------------
\* A fresh server is well formed, and its first job is already owed.
LEMMA InitLemma == Init => SyncInv
<1> SUFFICES ASSUME Init PROVE SyncInv
  OBVIOUS
<1>1. MaxQueue \in Nat /\ MaxQueue > 0
  BY SyncAssumption DEF SyncAssumption
<1>2. TypeOK
  <2>1. DbType /\ ServerType /\ WorkerType
    BY DEF Init, DbType, ServerType, WorkerType
  <2>2. QueueType
    BY <1>1 DEF Init, QueueType, Steps
  <2>3. FlagType /\ (halted => core = Stopped) /\ (pc = "apply" => file = list)
    BY DEF Init, FlagType
  <2> QED
    BY <2>1, <2>2, <2>3 DEF TypeOK
<1>3. CopyIsApplied
  BY DEF Init, CopyIsApplied
<1>4. Owing /\ ~changed
  BY DEF Init, Owing
<1> QED
  BY <1>2, <1>3, <1>4 DEF SyncInv, PassOver, ListCurrent, IkeCurrent, CoreCurrent

\* The tables, servers, job, queue and pass stay well formed, a core that was
\* stopped with stop-xray stays down, and the copy being applied is the list
\* that was read last (syncQueue.js, xray.js, worker.js).
THEOREM TypeCorrect == Spec => []TypeOK
<1>1. Init => TypeOK
  BY InitLemma DEF SyncInv
<1>2. TypeOK /\ [Next]_vars => TypeOK'
  BY TypeStep
<1> QED
  BY <1>1, <1>2, PTL DEF Spec

\* Unless the panel is killed between the replacement of the copy and its
\* application, the copy syncXray compares with (xray.js:90-95) is always what
\* root applied and what a running core serves, whatever fails.
THEOREM CopyTheorem ==
  ASSUME ApplyNotKilled
  PROVE  Spec => []CopyIsApplied
<1> DEFINE Inv == TypeOK /\ CopyIsApplied
<1>1. Init => Inv
  BY InitLemma DEF SyncInv
<1>2. Inv /\ [Next]_vars => Inv'
  BY TypeStep, CopyStep, ApplyNotKilled
<1>3. Inv => CopyIsApplied
  OBVIOUS
<1> QED
  BY <1>1, <1>2, <1>3, PTL DEF Spec

\* SyncInv is inductive when no pass of the worker breaks off.
LEMMA SyncInvariant ==
  ASSUME ApplyNotKilled, ~WorkerFaults
  PROVE  Spec => []SyncInv
<1>1. Init => SyncInv
  BY InitLemma
<1>2. SyncInv /\ [Next]_vars => SyncInv'
  <2> SUFFICES ASSUME SyncInv, [Next]_vars PROVE SyncInv'
    OBVIOUS
  <2>1. TypeOK'
    BY TypeStep DEF SyncInv
  <2>2. CopyIsApplied'
    BY CopyStep DEF SyncInv
  <2>3. PassOver' /\ ListCurrent' /\ IkeCurrent' /\ CoreCurrent'
    BY <2>1, CurrentStep
  <2> QED
    BY <2>1, <2>2, <2>3 DEF SyncInv
<1> QED
  BY <1>1, <1>2, PTL DEF Spec

\* When nothing is queued, running, owed or waiting for a retry, both servers
\* accept exactly the eligible accounts, unless the panel is killed between the
\* copy and its application or a query of the quota pass fails half-way
\* (syncQueue.js:14-49 with xray.js:77-111).
THEOREM QuietTheorem ==
  ASSUME ApplyNotKilled, ~WorkerFaults
  PROVE  Spec => []QuietMeansSynced
<1>1. SyncInv => QuietMeansSynced
  BY DEF SyncInv, QuietMeansSynced, Quiet, IkeCurrent, CoreCurrent, AtRest
<1>2. Spec => []SyncInv
  BY SyncInvariant
<1> QED
  BY <1>1, <1>2, PTL

\* Under the same conditions no disabled, expired or blocked account is left in
\* (docs/XRAY-RECOVERY.md:11): the two runs that violate it are the only ways.
THEOREM RefusedTheorem ==
  ASSUME ApplyNotKilled, ~WorkerFaults
  PROVE  Spec => []IneligibleRefused
<1>1. QuietMeansSynced => IneligibleRefused
  BY DEF QuietMeansSynced, IneligibleRefused, Served
<1>2. Spec => []QuietMeansSynced
  BY QuietTheorem
<1> QED
  BY <1>1, <1>2, PTL

=============================================================================
