----------------------------- MODULE PanelProofs -----------------------------
(***************************************************************************)
(* Proofs about the smaller parts of the panel: the administrator's        *)
(* sessions, for any number of browsers, rows and passwords; the backup    *)
(* schedules, for any interval and number of parts; the profiles, for any  *)
(* visitors, endpoints and time to live of the cache.  At the end, that    *)
(* the parts MCPanel puts side by side each behave as specified, so what   *)
(* is proved of one holds in the run of all.                               *)
(***************************************************************************)
EXTENDS MCPanel, AccountProofs, EndpointChangeProofs, FirefoxSidecarProofs

-----------------------------------------------------------------------------
(* AdminSessions: what a change of the password does to the sessions opened  *)
(* before it.  The step that raises `changed' leaves its browser with the    *)
(* last query to make, and that query ends every session at once, so the     *)
(* browsers still at theirs need not be told apart.                          *)

AuthInv == AuthType /\ OldSessionsEnd

-----------------------------------------------------------------------------
\* Every step keeps the types.
LEMMA AuthTypeStep ==
  ASSUME AuthType, [AuthNext]_authVars
  PROVE  AuthType'
<1> USE DEF AuthType
<1>0. MaxPassword \in Nat /\ MaxPassword > 0
  BY AuthAssumption DEF AuthAssumption
<1>1. ASSUME NEW b \in Browser, VerifyAdmin(b) PROVE AuthType'
  BY <1>0, <1>1 DEF VerifyAdmin, AuthRequest
<1>2. ASSUME NEW b \in Browser, NEW s \in SessionRow, SignAdmin(b, s) PROVE AuthType'
  <2>1. asking[b] \in AuthRequest
    BY <1>2 DEF SignAdmin, NoQuery
  <2>2. sessions' \in [SessionRow -> AdminSession]
    BY <1>0, <1>2, <2>1 DEF SignAdmin, AuthRequest, AdminSession
  <2> QED BY <1>2, <2>2 DEF SignAdmin
<1>3. ASSUME NEW b \in Browser, LoginFails(b) PROVE AuthType'
  BY <1>3 DEF LoginFails
<1>4. ASSUME NEW b \in Browser, Me(b) \/ Return(b) PROVE AuthType'
  BY <1>4 DEF Me, Return
<1>5. ASSUME NEW b \in Browser, ComparePassword(b) PROVE AuthType'
  BY <1>0, <1>5 DEF ComparePassword, AuthRequest
<1>6. ASSUME NEW b \in Browser, UpdatePassword(b) PROVE AuthType'
  BY <1>0, <1>6 DEF UpdatePassword, AuthRequest
<1>7. ASSUME NEW S PROVE Revoked(S) \in [SessionRow -> AdminSession]
  BY DEF Revoked, AdminSession
<1>8. ASSUME NEW b \in Browser, RevokeAll(b) PROVE AuthType'
  BY <1>7, <1>8 DEF RevokeAll
<1>9. ASSUME NEW b \in Browser, NEW answered \in BOOLEAN, Logout(b, answered)
      PROVE  AuthType'
  BY <1>7, <1>9 DEF Logout, LoggedOut
<1>10. CASE ImportAdmins
  BY <1>0, <1>10 DEF ImportAdmins
<1>11. ASSUME NEW s \in SessionRow, Expire(s) PROVE AuthType'
  BY <1>7, <1>11 DEF Expire
<1>12. CASE UNCHANGED authVars
  BY <1>12 DEF authVars
<1> QED
  BY <1>1, <1>2, <1>3, <1>4, <1>5, <1>6, <1>8, <1>9, <1>10, <1>11, <1>12 DEF AuthNext

\* Every step keeps both: who has the last query to make keeps it, and no
\* session of an older password opens unless its login was under way.
LEMMA AuthInvStep ==
  ASSUME AuthInv, [AuthNext]_authVars
  PROVE  AuthInv'
<1> USE DEF AuthInv, AuthType, OldSessionsEnd
<1>0. MaxPassword \in Nat /\ MaxPassword > 0
  BY AuthAssumption DEF AuthAssumption
<1>t. AuthType'
  BY AuthTypeStep
\* A step that opens no session, sets no password and takes no last query away
<1>q. ASSUME changed' = changed,
             \A s \in SessionRow : sessions'[s].open =>
                sessions[s].open /\ sessions'[s].with = sessions[s].with
                  /\ sessions'[s].late = sessions[s].late,
             \A b \in Browser : asking[b].kind = "revoke" => asking'[b].kind = "revoke"
      PROVE  OldSessionsEnd'
  BY <1>q
<1>r. ASSUME NEW S, NEW s \in SessionRow, Revoked(S)[s].open
      PROVE  /\ sessions[s].open /\ Revoked(S)[s].with = sessions[s].with
             /\ Revoked(S)[s].late = sessions[s].late
  <2>1. sessions[s] \in AdminSession
    OBVIOUS
  <2>2. s \notin S
    BY <1>r, <2>1 DEF Revoked, AdminSession
  <2> QED BY <1>r, <2>2 DEF Revoked
<1>1. ASSUME NEW b \in Browser,
             VerifyAdmin(b) \/ LoginFails(b) \/ Me(b) \/ Return(b) \/ ComparePassword(b)
      PROVE  OldSessionsEnd'
  <2>1. changed' = changed /\ sessions' = sessions
    BY <1>1 DEF VerifyAdmin, LoginFails, Me, Return, ComparePassword
  <2>2. asking[b].kind # "revoke" \/ asking' = asking
    BY <1>1 DEF VerifyAdmin, LoginFails, Me, Return, ComparePassword, LoginForm,
                PasswordForm, NoQuery
  <2>3. \A o \in Browser : o # b => asking'[o] = asking[o]
    BY <1>1 DEF VerifyAdmin, LoginFails, Me, Return, ComparePassword
  <2> QED BY <1>q, <2>1, <2>2, <2>3
<1>2. ASSUME NEW b \in Browser, NEW s \in SessionRow, SignAdmin(b, s)
      PROVE  OldSessionsEnd'
  <2> SUFFICES ASSUME NEW r \in SessionRow, sessions'[r].open,
                      sessions'[r].with < changed', ~sessions'[r].late
               PROVE  \E o \in Browser : asking'[o].kind = "revoke"
    OBVIOUS
  <2>1. r # s
    BY <1>2 DEF SignAdmin
  <2>2. sessions'[r] = sessions[r] /\ changed' = changed
    BY <1>2, <2>1 DEF SignAdmin
  <2>3. PICK o \in Browser : asking[o].kind = "revoke"
    BY <2>2
  <2>4. o # b /\ asking'[o] = asking[o]
    BY <1>2, <2>3 DEF SignAdmin
  <2> QED BY <2>3, <2>4
<1>3. ASSUME NEW b \in Browser, UpdatePassword(b) PROVE OldSessionsEnd'
  <2>1. asking'[b].kind = "revoke"
    BY <1>3 DEF UpdatePassword
  <2> QED BY <2>1
<1>4. ASSUME NEW b \in Browser, RevokeAll(b) PROVE OldSessionsEnd'
  <2>1. \A s \in SessionRow : ~sessions'[s].open
    BY <1>4 DEF RevokeAll, EndedSessions, Revoked, AdminSession
  <2> QED BY <2>1
<1>5. ASSUME NEW b \in Browser, NEW answered \in BOOLEAN, Logout(b, answered)
      PROVE  OldSessionsEnd'
  <2>1. changed' = changed /\ asking' = asking
    BY <1>5 DEF Logout
  <2>2. sessions' = sessions \/ \E S : sessions' = Revoked(S)
    BY <1>5 DEF Logout, LoggedOut
  <2> QED BY <1>q, <1>r, <2>1, <2>2
<1>6. CASE ImportAdmins
  BY <1>6, <1>q, <1>t DEF ImportAdmins
<1>7. ASSUME NEW s \in SessionRow, Expire(s) PROVE OldSessionsEnd'
  <2>1. changed' = changed /\ asking' = asking /\ sessions' = Revoked({s})
    BY <1>7 DEF Expire
  <2> QED BY <1>q, <1>r, <2>1
<1>8. CASE UNCHANGED authVars
  BY <1>8, <1>q, <1>t DEF authVars
<1> QED
  BY <1>t, <1>1, <1>2, <1>3, <1>4, <1>5, <1>6, <1>7, <1>8 DEF AuthNext

-----------------------------------------------------------------------------
\* The rows, cookies and pages of the administrator's sessions are of their
\* types (auth.js:28-84, 102-109).
THEOREM AuthTypeCorrect == AuthSpec => []AuthType
<1>1. AuthInit => AuthType
  BY AuthAssumption DEF AuthAssumption, AuthInit, AuthType, NoRow, AdminSession, NoCookie
<1> QED BY <1>1, AuthTypeStep, PTL DEF AuthSpec

\* However many browsers sign in, change the password and import at the same
\* time, a session opened with an older password stays open only while a change
\* is at its last query, or if its login was under way (server.js:398-400).
THEOREM OldSessionsEndAlways == AuthSpec => []OldSessionsEnd
<1>1. AuthInit => AuthInv
  BY AuthAssumption DEF AuthAssumption, AuthInit, AuthInv, AuthType, OldSessionsEnd, NoRow,
     AdminSession, NoCookie
<1>2. AuthInv /\ [AuthNext]_authVars => AuthInv'
  BY AuthInvStep
<1>3. AuthInv => OldSessionsEnd
  BY DEF AuthInv
<1> QED BY <1>1, <1>2, <1>3, PTL DEF AuthSpec

-----------------------------------------------------------------------------
(* BackupSchedule: that the record of the last success stands is inductive   *)
(* given the types.  That a dispatch sends a whole archive is not: it also   *)
(* needs the lock (no two dispatches are under way) and, for every dispatch  *)
(* between two parts, what the chat has received of it.                      *)

\* The lock
OneDispatch == \A a, b \in Archive : dispatch[a].at # "idle" /\ dispatch[b].at # "idle" => a = b

\* What a dispatch has sent is what the chat received last.
SentReceived ==
    \A a \in Archive :
        /\ dispatch[a].at = "archive" => dispatch[a].sent = 0
        /\ dispatch[a].at = "send" =>
             /\ dispatch[a].sent < Parts
             /\ dispatch[a].sent = 0 \/ chat = [archive |-> a, parts |-> dispatch[a].sent]

DispatchInv == BackupType /\ OneDispatch /\ SentReceived /\ WholeArchive

Dispatch == [at : {"idle", "archive", "send", "record"}, sent : 0..Parts,
             by : {"admin", "timer"}, age : Age]

-----------------------------------------------------------------------------
LEMMA Bounds == Interval \in Nat /\ Interval > 0 /\ Parts \in Nat /\ Parts > 0
BY BackupAssumption DEF BackupAssumption

\* Time moves an age within its range.
LEMMA OlderAge == ASSUME NEW n \in Age PROVE Older(n) \in Age
BY Bounds DEF Older, Age

\* A chat that receives a part stays of its type.
LEMMA ReceivedChat ==
  ASSUME BackupType, NEW a \in Archive, NEW number \in 1..Parts
  PROVE  Received(a, number) \in [archive : Archive, parts : 0..Parts]
BY Bounds DEF Received, BackupType, Archive

\* Every step keeps the types, as no dispatch sends more parts than there are.
LEMMA BackupTypeStep ==
  ASSUME BackupType, SentReceived, [BackupNext]_backupVars
  PROVE  BackupType'
<1> USE Bounds DEF BackupType
<1>d. dispatch \in [Archive -> Dispatch] /\ NotSending \in Dispatch
  BY DEF Dispatch, NotSending, Age
<1>a. 0 \in Age /\ Interval \in Age
  BY DEF Age
<1>1. CASE Step
  <2>1. \A t \in Target : [setting[t] EXCEPT !.age = Older(@)] \in Setting
    BY OlderAge DEF Setting
  <2>2. \A a \in Archive : [dispatch[a] EXCEPT !.age = Older(@)] \in Dispatch
    BY <1>d, OlderAge DEF Dispatch
  <2>3. setting' \in [Target -> Setting] /\ form' \in [Target -> Age]
          /\ since' \in [Target -> Age]
    BY <1>1, <2>1, OlderAge DEF Step
  <2>4. dispatch' \in [Archive -> Dispatch]
    BY <1>1, <1>d, <2>2 DEF Step
  <2>5. githubTimer' \in Age \cup {Unset}
    <3>1. CASE githubTimer = Unset
      BY <1>1, <3>1 DEF Step
    <3>2. CASE githubTimer # Unset
      <4>1. githubTimer \in 0..Interval /\ githubTimer # 0 /\ githubTimer' = githubTimer - 1
        BY <1>1, <3>2 DEF Step, Age
      <4>2. githubTimer - 1 \in 0..Interval
        BY <4>1
      <4> QED BY <4>1, <4>2 DEF Age
    <3> QED BY <3>1, <3>2
  <2> QED BY <1>1, <2>3, <2>4, <2>5 DEF Step, Dispatch
<1>2. CASE Refetch
  BY <1>2 DEF Refetch, Setting
<1>3. ASSUME NEW t \in Target, Imported(t) PROVE BackupType'
  BY <1>3 DEF Imported
<1>4. ASSUME NEW t \in Target, NEW on \in BOOLEAN, SaveSettings(t, on) PROVE BackupType'
  <2>1. Merged(t, on) \in Setting
    BY DEF Merged, Setting
  <2> QED BY <1>4, <2>1 DEF SaveSettings
\* The steps that change a dispatch
<1>s. ASSUME NEW a \in Archive, NEW d \in Dispatch, SetDispatch(a, d)
      PROVE  dispatch' \in [Archive -> Dispatch]
  BY <1>d, <1>s DEF SetDispatch
<1>5. ASSUME NEW by \in {"admin", "timer"}, Send(by) PROVE BackupType'
  <2>1. NextArchive \in Archive
    BY DEF NextArchive, Archive
  <2>2. [NotSending EXCEPT !.at = "archive", !.by = by] \in Dispatch
    BY <1>d DEF Dispatch
  <2>3. dispatch' \in [Archive -> Dispatch]
    BY <1>5, <1>s, <2>1, <2>2 DEF Send
  <2> QED BY <1>5, <2>3 DEF Send, Dispatch
<1>6. ASSUME NEW a \in Archive, MakeArchive(a) PROVE BackupType'
  <2>1. [dispatch[a] EXCEPT !.at = "send"] \in Dispatch
    BY <1>d DEF Dispatch
  <2>2. dispatch' \in [Archive -> Dispatch]
    BY <1>6, <1>s, <2>1 DEF MakeArchive
  <2> QED BY <1>6, <2>2 DEF MakeArchive, Dispatch
<1>7. ASSUME NEW a \in Archive, SendPart(a) PROVE BackupType'
  <2> DEFINE number == dispatch[a].sent + 1
  <2>1. number \in 1..Parts
    BY <1>d, <1>7 DEF SendPart, SentReceived, Dispatch
  <2> DEFINE next == IF number = Parts THEN "record" ELSE dispatch[a].at
  <2>2. [dispatch[a] EXCEPT !.sent = number, !.at = next] \in Dispatch
    <3>1. dispatch[a] \in Dispatch
      BY <1>d
    <3>2. next \in {"idle", "archive", "send", "record"} /\ number \in 0..Parts
      BY <2>1, <3>1 DEF Dispatch
    <3> HIDE DEF number, next
    <3> QED BY <3>1, <3>2 DEF Dispatch
  <2>3. dispatch' \in [Archive -> Dispatch]
    BY <1>7, <1>s, <2>2 DEF SendPart
  <2>4. chat' \in [archive : Archive, parts : 0..Parts]
    BY <1>7, <2>1, ReceivedChat DEF SendPart
  <2> QED BY <1>7, <2>3, <2>4 DEF SendPart, Dispatch
<1>i. NotSending \in Dispatch
  BY <1>d
\* The steps that record an outcome
<1>r. ASSUME NEW t \in Target, NEW age \in Age, NEW recorded \in BOOLEAN,
             Succeeded(t, age, recorded)
      PROVE  setting' \in [Target -> Setting] /\ since' \in [Target -> Age] /\ lost' \subseteq Target
  BY <1>r DEF Succeeded, Setting
<1>8. ASSUME NEW a \in Archive, SendFails(a) PROVE BackupType'
  <2>1. dispatch' \in [Archive -> Dispatch]
    BY <1>8, <1>s, <1>i DEF SendFails
  <2>2. dispatch[a].at = "send" => dispatch[a].sent + 1 \in 1..Parts
    BY <1>d DEF SentReceived, Dispatch
  <2>3. chat' \in [archive : Archive, parts : 0..Parts]
    BY <1>8, <2>2, ReceivedChat DEF SendFails
  <2> QED BY <1>8, <2>1, <2>3 DEF SendFails, Failed, Dispatch
<1>9. ASSUME NEW a \in Archive, NEW recorded \in BOOLEAN, Record(a, recorded) PROVE BackupType'
  <2>1. dispatch' \in [Archive -> Dispatch]
    BY <1>9, <1>s, <1>i DEF Record
  <2>2. dispatch[a].age \in Age /\ "telegram" \in Target
    BY <1>d DEF Dispatch, Target
  <2> QED BY <1>9, <1>r, <2>1, <2>2 DEF Record, Dispatch
<1>10. ASSUME RunGithub PROVE BackupType' \/ githubTimer' # githubTimer
  BY <1>10 DEF RunGithub
<1>11. CASE RunByHand
  BY <1>11 DEF RunByHand, RunGithub
<1>12. CASE GithubTimer
  BY <1>12, <1>a DEF GithubTimer, RunGithub
<1>13. ASSUME NEW recorded \in BOOLEAN, GithubDone(recorded) PROVE BackupType'
  <2>1. "github" \in Target
    BY DEF Target
  <2>2. running' \in 0..2
    BY <1>13 DEF GithubDone
  <2>3. setting' \in [Target -> Setting] /\ since' \in [Target -> Age] /\ lost' \subseteq Target
    BY <1>13, <1>a, <1>r, <2>1 DEF GithubDone
  <2> QED BY <1>13, <2>2, <2>3 DEF GithubDone
<1>14. CASE GithubFails
  BY <1>14 DEF GithubFails, Failed
<1>15. CASE PanelStarts
  <2>1. dispatch' \in [Archive -> Dispatch]
    BY <1>15, <1>i DEF PanelStarts
  <2> QED BY <1>15, <1>a, <2>1 DEF PanelStarts, Dispatch
<1>16. CASE UNCHANGED backupVars
  BY <1>16 DEF backupVars
<1> QED
  BY <1>1, <1>2, <1>3, <1>4, <1>5, <1>6, <1>7, <1>8, <1>9, <1>11, <1>12, <1>13, <1>14, <1>15,
     <1>16
  DEF BackupNext, TelegramCard, GithubCard, CheckTelegram, Target

-----------------------------------------------------------------------------
\* Every step keeps the record of the last success, unless it loses it.
LEMMA RecordStep ==
  ASSUME BackupType, RecordStands, [BackupNext]_backupVars
  PROVE  RecordStands'
<1> USE DEF BackupType, RecordStands
<1>u. ASSUME UNCHANGED <<setting, since, lost>> PROVE RecordStands'
  BY <1>u
<1>1. CASE Step
  BY <1>1 DEF Step, Setting
<1>2. ASSUME NEW t \in Target, Imported(t) PROVE RecordStands'
  <2>1. \A o \in Target \ {t} : setting'[o] = setting[o]
    BY <1>2 DEF Imported
  <2> QED BY <1>2, <2>1 DEF Imported
<1>3. ASSUME NEW t \in Target, NEW on \in BOOLEAN, SaveSettings(t, on) PROVE RecordStands'
  <2>1. \A o \in Target : setting'[o].age = setting[o].age
    BY <1>3 DEF SaveSettings, Merged, Setting
  <2> QED BY <1>3, <2>1 DEF SaveSettings
<1>4. ASSUME NEW t \in Target, NEW age, NEW recorded \in BOOLEAN, Succeeded(t, age, recorded)
      PROVE  RecordStands'
  <2>1. \A o \in Target \ {t} : setting'[o] = setting[o] /\ since'[o] = since[o]
    BY <1>4 DEF Succeeded
  <2>2. t \notin lost' => setting'[t].age = since'[t]
    BY <1>4 DEF Succeeded, Setting
  <2> QED BY <1>4, <2>1, <2>2 DEF Succeeded
<1>5. ASSUME NEW a \in Archive, NEW recorded \in BOOLEAN, Record(a, recorded) PROVE RecordStands'
  BY <1>4, <1>5 DEF Record, Target
<1>6. ASSUME NEW recorded \in BOOLEAN, GithubDone(recorded) PROVE RecordStands'
  BY <1>4, <1>6 DEF GithubDone, Target
<1> QED
  BY <1>u, <1>1, <1>2, <1>3, <1>5, <1>6
  DEF BackupNext, TelegramCard, GithubCard, CheckTelegram, Send, RunByHand, RunGithub, Refetch,
      MakeArchive, SendPart, SendFails, Failed, GithubTimer, GithubFails, PanelStarts, backupVars,
      Target

-----------------------------------------------------------------------------
\* Every step keeps what ties a dispatch to the chat.
LEMMA DispatchStep ==
  ASSUME DispatchInv, [BackupNext]_backupVars
  PROVE  DispatchInv'
<1> USE Bounds DEF DispatchInv
<1>t. BackupType'
  BY BackupTypeStep
<1>d. dispatch \in [Archive -> Dispatch]
  BY DEF BackupType, Dispatch
<1> DEFINE Tied == OneDispatch /\ SentReceived /\ WholeArchive
\* A dispatch keeps its step, and what it has sent
<1>k. ASSUME chat' = chat,
             \A a \in Archive : dispatch'[a].at = dispatch[a].at /\ dispatch'[a].sent = dispatch[a].sent
      PROVE  Tied'
  BY <1>k DEF OneDispatch, SentReceived, WholeArchive
\* None is left.
<1>n. ASSUME \A a \in Archive : dispatch'[a].at = "idle" PROVE Tied'
  BY <1>n DEF OneDispatch, SentReceived, WholeArchive
<1>e. ASSUME NEW a \in Archive, dispatch[a].at # "idle", SetDispatch(a, NotSending) PROVE Tied'
  <2>1. \A b \in Archive : dispatch'[b].at = "idle"
    BY <1>d, <1>e DEF SetDispatch, OneDispatch, NotSending
  <2> QED BY <1>n, <2>1
<1>1. ASSUME Step PROVE Tied'
  <2>1. chat' = chat /\ \A a \in Archive : dispatch'[a].at = dispatch[a].at
                            /\ dispatch'[a].sent = dispatch[a].sent
    BY <1>d, <1>1 DEF Step, Dispatch
  <2> QED BY <1>k, <2>1
<1>2. ASSUME NEW by \in {"admin", "timer"}, Send(by) PROVE Tied'
  <2> DEFINE a == NextArchive
  <2>1. a \in Archive /\ dispatch'[a].at = "archive" /\ dispatch'[a].sent = 0
    BY <1>d, <1>2 DEF Send, SetDispatch, NextArchive, Archive, BackupType, NotSending
  <2>2. \A b \in Archive : b # a => dispatch'[b].at = "idle"
    BY <1>d, <1>2 DEF Send, SetDispatch, Unlocked
  <2> QED BY <2>1, <2>2 DEF OneDispatch, SentReceived, WholeArchive
<1>3. ASSUME NEW a \in Archive, MakeArchive(a) PROVE Tied'
  <2>1. /\ dispatch'[a].at = "send" /\ dispatch'[a].sent = 0 /\ chat' = chat
        /\ \A b \in Archive : b # a => dispatch'[b] = dispatch[b]
    BY <1>d, <1>3 DEF MakeArchive, SetDispatch, SentReceived, Dispatch
  <2>2. \A b \in Archive : b # a => dispatch[b].at = "idle"
    BY <1>3 DEF MakeArchive, OneDispatch
  <2> QED BY <2>1, <2>2 DEF OneDispatch, SentReceived, WholeArchive
<1>4. ASSUME NEW a \in Archive, SendPart(a) PROVE Tied'
  <2> DEFINE number == dispatch[a].sent + 1
  <2>1. \A b \in Archive : b # a => dispatch'[b].at = "idle"
    BY <1>d, <1>4 DEF SendPart, SetDispatch, OneDispatch
  <2>2. /\ dispatch'[a].sent = number
        /\ dispatch'[a].at = IF number = Parts THEN "record" ELSE "send"
    BY <1>d, <1>4 DEF SendPart, SetDispatch, Dispatch
  <2>3. dispatch[a].sent \in Nat /\ number <= Parts
    BY <1>d, <1>4 DEF SendPart, SentReceived, Dispatch
  <2>4. chat' = [archive |-> a, parts |-> number]
    <3>1. chat' = Received(a, number)
      BY <1>4 DEF SendPart
    <3>2. CASE number = 1
      BY <3>1, <3>2 DEF Received
    <3>3. CASE number # 1
      <4>1. chat = [archive |-> a, parts |-> number - 1]
        BY <1>4, <2>3, <3>3 DEF SendPart, SentReceived
      <4> QED BY <3>1, <3>3, <4>1 DEF Received
    <3> QED BY <3>2, <3>3
  <2>5. OneDispatch'
    BY <2>1 DEF OneDispatch
  <2>6. SentReceived' /\ WholeArchive'
    BY <2>1, <2>2, <2>3, <2>4 DEF SentReceived, WholeArchive
  <2> QED BY <2>5, <2>6
<1>5. ASSUME NEW a \in Archive, SendFails(a) PROVE Tied'
  BY <1>5, <1>e DEF SendFails
<1>6. ASSUME NEW a \in Archive, NEW recorded \in BOOLEAN, Record(a, recorded) PROVE Tied'
  BY <1>6, <1>e DEF Record
<1>7. ASSUME PanelStarts PROVE Tied'
  BY <1>7, <1>n DEF PanelStarts, NotSending
<1>8. ASSUME UNCHANGED <<dispatch, chat>> PROVE Tied'
  BY <1>k, <1>8
<1>9. Tied'
  BY <1>1, <1>2, <1>3, <1>4, <1>5, <1>6, <1>7, <1>8
  DEF BackupNext, TelegramCard, GithubCard, CheckTelegram, RunByHand, RunGithub, Refetch,
      Imported, SaveSettings, GithubTimer, GithubFails, GithubDone, backupVars
<1> QED BY <1>t, <1>9

-----------------------------------------------------------------------------
LEMMA BackupStart == BackupInit => DispatchInv /\ RecordStands
<1> SUFFICES ASSUME BackupInit PROVE DispatchInv /\ RecordStands
  OBVIOUS
<1> USE Bounds DEF BackupInit
<1>1. BackupType
  BY DEF BackupType, Setting, Age, NotSending, Archive
<1>2. OneDispatch /\ SentReceived /\ WholeArchive /\ RecordStands
  BY DEF OneDispatch, SentReceived, WholeArchive, RecordStands, NotSending
<1> QED BY <1>1, <1>2 DEF DispatchInv

\* The settings, dispatches, timers and counters of the backups are of their
\* types; no dispatch sends more parts than its archive has.
THEOREM BackupTypeCorrect == BackupSpec => []BackupType
<1>1. BackupInit => DispatchInv
  BY BackupStart
<1>2. DispatchInv => BackupType
  BY DEF DispatchInv
<1> QED BY <1>1, <1>2, DispatchStep, PTL DEF BackupSpec

\* Whatever forms are recorded, sends fail, runs overlap or panels restart, the time
\* kept in the settings is that of the last backup that succeeded, unless its
\* record failed or settings were imported (settings.js:173-174).
THEOREM RecordStandsAlways == BackupSpec => []RecordStands
<1>1. BackupInit => DispatchInv /\ RecordStands
  BY BackupStart
<1>2. DispatchInv /\ RecordStands /\ [BackupNext]_backupVars => (DispatchInv /\ RecordStands)'
  BY DispatchStep, RecordStep DEF DispatchInv
<1> QED BY <1>1, <1>2, PTL DEF BackupSpec

\* A dispatch recorded as a success left the parts of its archive, all of them,
\* in order and nothing between them, last in the chat (telegramBackup.js:69-100).
THEOREM WholeArchiveAlways == BackupSpec => []WholeArchive
<1>1. BackupInit => DispatchInv
  BY BackupStart
<1>2. DispatchInv => WholeArchive
  BY DEF DispatchInv
<1> QED BY <1>1, <1>2, DispatchStep, PTL DEF BackupSpec

\* Only a dispatch that is sent anew reaches the archive, and the timer's waits
\* for the interval.
LEMMA SpacedStep ==
  ASSUME BackupType, RecordStands, [BackupNext]_backupVars, NEW a \in Archive,
         dispatch[a].at = "idle", dispatch'[a].at = "archive", dispatch'[a].by = "timer",
         "telegram" \notin lost
  PROVE  since["telegram"] = Interval
<1>d. dispatch \in [Archive -> Dispatch]
  BY DEF BackupType, Dispatch
<1>n. \A n \in Archive : \A d : SetDispatch(n, d) => dispatch'[a] = IF n = a THEN d ELSE dispatch[a]
  BY <1>d DEF SetDispatch
<1>1. CASE CheckTelegram
  BY <1>1 DEF CheckTelegram, Due, RecordStands, Target
<1>2. ~Send("admin")
  <2> SUFFICES ASSUME Send("admin") PROVE FALSE
    OBVIOUS
  <2>1. NextArchive \in Archive
    BY DEF NextArchive, Archive, BackupType
  <2>2. dispatch'[a] \in {dispatch[a], [NotSending EXCEPT !.at = "archive", !.by = "admin"]}
    BY <1>n, <2>1 DEF Send
  <2>3. [NotSending EXCEPT !.at = "archive", !.by = "admin"].by = "admin"
    BY DEF NotSending
  <2> QED BY <2>2, <2>3
<1>3. dispatch'[a] # dispatch[a] /\ dispatch'[a] # NotSending
  BY DEF NotSending
<1>4. ~Step
  <2> SUFFICES ASSUME Step PROVE FALSE
    OBVIOUS
  <2>1. dispatch'[a] = dispatch[a]
    BY DEF Step
  <2> QED BY <1>3, <2>1
<1>5. ASSUME NEW n \in Archive PROVE ~MakeArchive(n) /\ ~SendPart(n)
  <2>1. ASSUME n = a PROVE ~MakeArchive(n) /\ ~SendPart(n)
    BY <2>1 DEF MakeArchive, SendPart
  <2>2. ASSUME n # a PROVE ~MakeArchive(n) /\ ~SendPart(n)
    BY <1>3, <1>n, <2>2 DEF MakeArchive, SendPart
  <2> QED BY <2>1, <2>2
<1>6. ASSUME NEW n \in Archive, NEW recorded \in BOOLEAN PROVE ~SendFails(n) /\ ~Record(n, recorded)
  BY <1>3, <1>n DEF SendFails, Record
<1>7. ~PanelStarts
  BY <1>3 DEF PanelStarts
<1>8. dispatch' # dispatch
  BY <1>3
<1> QED
  BY <1>1, <1>2, <1>4, <1>5, <1>6, <1>7, <1>8
  DEF BackupNext, TelegramCard, GithubCard, RunByHand, RunGithub, Refetch, Imported, SaveSettings,
      GithubTimer, GithubFails, GithubDone, backupVars

\* No automatic backup to Telegram begins before an interval has passed since the
\* archive last sent with success was made (telegramBackup.js:115-122).
THEOREM SpacedTheorem == BackupSpec => Spaced
<1>1. BackupType /\ RecordStands /\ [BackupNext]_backupVars =>
        [\A a \in Archive :
           dispatch[a].at = "idle" /\ dispatch'[a].at = "archive" /\ dispatch'[a].by = "timer"
              /\ "telegram" \notin lost => since["telegram"] = Interval]_backupVars
  BY SpacedStep
<1> QED BY <1>1, BackupTypeCorrect, RecordStandsAlways, PTL DEF BackupSpec, Spaced

-----------------------------------------------------------------------------
(* Profiles: what is served is current *)

\* An answer that is on its way names the endpoint, unless it was overtaken.
AnswersCurrent == \A v \in Visitor : fetch[v].at = "query" /\ ~fetch[v].late => fetch[v].site = site

\* The cache names it too, or its invalidation is owed, or an import replaced
\* the endpoint after the cache was filled.
CacheCurrent ==
    /\ siteCache.at <= instant
    /\ siteCache # NoLookup /\ ~siteCache.late /\ siteCache.site # site =>
         owed \/ (imported # Never /\ siteCache.at <= imported)

\* The process holds the certificate on disk.
RootCurrent ==
    rootStands =>
        /\ rootCache \in {NoFile, root}
        /\ \A v \in Visitor : fetch[v] # NoFetch => fetch[v].root \in {NoFile, root}

ProfilesInv == ProfilesType /\ AnswersCurrent /\ CacheCurrent /\ RootCurrent

LEMMA ProfileConstants ==
    /\ Built \in Site /\ CacheTtl \in Nat /\ LastInstant \in Nat /\ LastRoot \in Nat \ {0}
  BY ProfilesAssumption

LEMMA FetchTypes ==
    ASSUME ProfilesType, NEW v \in Visitor
    PROVE  /\ fetch[v] \in Fetch \cup {NoFetch}
           /\ fetch[v].at = "query" =>
                fetch[v] \in [at : {"query"}, root : 0..LastRoot, site : Site, late : BOOLEAN]
           /\ fetch[v].at = "lookup" => fetch[v] \in [at : {"lookup"}, root : 0..LastRoot]
           /\ fetch[v].at = "idle" <=> fetch[v] = NoFetch
           /\ fetch[v] # NoFetch => fetch[v].root \in 0..LastRoot
  <1>1. fetch[v] \in Fetch \cup {NoFetch}
    BY DEF ProfilesType
  <1> QED BY <1>1 DEF Fetch, NoFetch

\* The queries under way when the endpoint is written
LEMMA OvertakenFetch ==
    ASSUME ProfilesType, Overtaken, NEW v \in Visitor
    PROVE  /\ fetch'[v] \in Fetch \cup {NoFetch}
           /\ fetch'[v].at = "query" => fetch'[v].late
           /\ fetch'[v] # NoFetch => fetch[v] # NoFetch /\ fetch'[v].root = fetch[v].root
  <1>1. CASE fetch[v].at = "query"
    <2>1. /\ fetch[v] \in [at : {"query"}, root : 0..LastRoot, site : Site, late : BOOLEAN]
          /\ fetch'[v] = [fetch[v] EXCEPT !.late = TRUE]
      BY <1>1, FetchTypes DEF Overtaken
    <2>2. /\ fetch'[v] \in [at : {"query"}, root : 0..LastRoot, site : Site, late : BOOLEAN]
          /\ fetch'[v].late /\ fetch'[v].root = fetch[v].root
      BY <2>1
    <2>3. fetch[v] # NoFetch
      BY <1>1 DEF NoFetch
    <2> QED BY <2>2, <2>3 DEF Fetch
  <1>2. CASE fetch[v].at # "query"
    BY <1>2, FetchTypes DEF Overtaken
  <1> QED BY <1>1, <1>2

LEMMA ProfilesTypeStep ==
    ASSUME ProfilesType, [ProfilesNext]_profileVars
    PROVE  ProfilesType'
  <1> USE ProfileConstants DEF ProfilesType
  <1>f. ASSUME NEW v \in Visitor, NEW f \in Fetch \cup {NoFetch}, fetch' = [fetch EXCEPT ![v] = f]
        PROVE  fetch' \in [Visitor -> Fetch \cup {NoFetch}]
    BY <1>f
  <1>o. Overtaken => fetch' \in [Visitor -> Fetch \cup {NoFetch}]
    BY OvertakenFetch DEF Overtaken
  <1>1. CASE Tick
    BY <1>1 DEF Tick
  <1>2. ASSUME NEW v \in Visitor, NEW profile \in BOOLEAN, Ask(v, profile) PROVE ProfilesType'
    <2>1. CaInfo \in 0..LastRoot /\ NoFile \in 0..LastRoot
      BY DEF CaInfo, NoFile
    <2>2. [at |-> "lookup", root |-> IF profile THEN CaInfo ELSE NoFile] \in Fetch
      BY <2>1 DEF Fetch
    <2>3. fetch' \in [Visitor -> Fetch \cup {NoFetch}]
      BY <1>2, <1>f, <2>2 DEF Ask
    <2>4. rootCache' \in 0..LastRoot
      BY <1>2, <2>1 DEF Ask
    <2> QED BY <1>2, <2>3, <2>4 DEF Ask, settingVars
  <1>3. ASSUME NEW v \in Visitor, ServeCached(v) \/ Dropped(v) PROVE ProfilesType'
    <2>1. fetch' = [fetch EXCEPT ![v] = NoFetch]
      BY <1>3 DEF ServeCached, Dropped, Handed
    <2>2. fetch' \in [Visitor -> Fetch \cup {NoFetch}]
      BY <1>f, <2>1
    <2> QED BY <1>3, <2>2 DEF ServeCached, Dropped, settingVars
  <1>4. ASSUME NEW v \in Visitor, Query(v) PROVE ProfilesType'
    <2>1. [at |-> "query", root |-> fetch[v].root, site |-> site, late |-> FALSE] \in Fetch
      BY <1>4, FetchTypes DEF Query, Fetch, NoFetch
    <2>2. fetch' \in [Visitor -> Fetch \cup {NoFetch}]
      BY <1>4, <1>f, <2>1 DEF Query
    <2> QED BY <1>4, <2>2 DEF Query, settingVars
  <1>5. ASSUME NEW v \in Visitor, Answered(v) PROVE ProfilesType'
    <2>1. siteCache' \in Lookup
      BY <1>5, FetchTypes DEF Answered, Lookup
    <2>2. fetch' \in [Visitor -> Fetch \cup {NoFetch}]
      BY <1>5, <1>f DEF Answered, Handed
    <2> QED BY <1>5, <2>1, <2>2 DEF Answered, settingVars
  <1>6. ASSUME NEW s \in Site, SaveSite(s) PROVE ProfilesType'
    BY <1>6, <1>o DEF SaveSite
  <1>7. CASE InvalidateSaved
    BY <1>7 DEF InvalidateSaved, Invalidated
  <1>8. ASSUME NEW s \in Site, NEW r \in 1..LastRoot, ImportFiles(s, r) PROVE ProfilesType'
    BY <1>8 DEF ImportFiles
  <1>9. CASE ImportInvalidates
    <2>1. importing \in [at : {"files", "settings"}, site : Site]
      BY <1>9 DEF ImportInvalidates, NoImport
    <2>2. importing' \in [at : {"files", "settings"}, site : Site]
      BY <1>9, <2>1 DEF ImportInvalidates
    <2> QED BY <1>9, <2>2 DEF ImportInvalidates, Invalidated
  <1>10. CASE ImportCommits
    <2>1. importing.site \in Site
      BY <1>10 DEF ImportCommits, NoImport
    <2>2. imported' \in Never..LastInstant
      BY <1>10 DEF ImportCommits, Never
    <2> QED BY <1>10, <1>o, <2>1, <2>2 DEF ImportCommits
  <1>11. CASE ImportEnds
    BY <1>11 DEF ImportEnds
  <1>12. CASE PanelReboots
    <2>1. 0 \in 0..LastRoot
      OBVIOUS
    <2>2. fetch' \in [Visitor -> Fetch \cup {NoFetch}]
      BY <1>12 DEF PanelReboots
    <2> QED BY <1>12, <2>1, <2>2 DEF PanelReboots, NoFile
  <1>13. CASE UNCHANGED profileVars
    BY <1>13 DEF profileVars
  <1> QED BY <1>1, <1>2, <1>3, <1>4, <1>5, <1>6, <1>7, <1>8, <1>9, <1>10, <1>11, <1>12, <1>13
          DEF ProfilesNext

LEMMA AnswersCurrentStep ==
    ASSUME ProfilesType, AnswersCurrent, [ProfilesNext]_profileVars
    PROVE  AnswersCurrent'
  <1>0. fetch \in [Visitor -> Fetch \cup {NoFetch}]
    BY DEF ProfilesType
  <1>1. ASSUME site' = site, \A v \in Visitor : fetch'[v] \in {fetch[v], NoFetch} PROVE AnswersCurrent'
    BY <1>1 DEF AnswersCurrent, NoFetch
  <1>2. ASSUME Overtaken PROVE AnswersCurrent'
    BY <1>2, OvertakenFetch DEF AnswersCurrent
  <1>3. CASE \/ Tick \/ InvalidateSaved \/ ImportInvalidates \/ ImportEnds
             \/ (\E s \in Site, r \in 1..LastRoot : ImportFiles(s, r)) \/ UNCHANGED profileVars
    BY <1>1, <1>3 DEF Tick, InvalidateSaved, ImportInvalidates, ImportEnds, ImportFiles, profileVars
  <1>4. ASSUME NEW v \in Visitor, ServeCached(v) \/ Answered(v) \/ Dropped(v) PROVE AnswersCurrent'
    BY <1>0, <1>1, <1>4 DEF ServeCached, Answered, Dropped, Handed, settingVars
  <1>5. ASSUME NEW v \in Visitor, NEW f, f.at = "query" => f.site = site,
               fetch' = [fetch EXCEPT ![v] = f], site' = site
        PROVE  AnswersCurrent'
    BY <1>0, <1>5 DEF AnswersCurrent
  <1>6. ASSUME NEW v \in Visitor, NEW profile \in BOOLEAN, Ask(v, profile) PROVE AnswersCurrent'
    BY <1>5, <1>6 DEF Ask, settingVars
  <1>7. ASSUME NEW v \in Visitor, Query(v) PROVE AnswersCurrent'
    BY <1>5, <1>7 DEF Query, settingVars
  <1>8. CASE (\E s \in Site : SaveSite(s)) \/ ImportCommits
    BY <1>2, <1>8 DEF SaveSite, ImportCommits
  <1>9. CASE PanelReboots
    BY <1>1, <1>9 DEF PanelReboots
  <1> QED BY <1>3, <1>4, <1>6, <1>7, <1>8, <1>9 DEF ProfilesNext

LEMMA CacheCurrentStep ==
    ASSUME ProfilesType, AnswersCurrent, CacheCurrent, [ProfilesNext]_profileVars
    PROVE  CacheCurrent'
  <1>0. /\ instant \in Nat /\ siteCache \in Lookup \cup {NoLookup} /\ imported \in Int
        /\ siteCache.at \in Int
    BY ProfileConstants DEF ProfilesType, Lookup, NoLookup, Never
  <1>1. ASSUME UNCHANGED <<siteCache, site, owed, imported>>, instant' \in {instant, instant + 1}
        PROVE  CacheCurrent'
    BY <1>0, <1>1 DEF CacheCurrent
  <1>2. ASSUME siteCache' = NoLookup, instant' = instant PROVE CacheCurrent'
    BY <1>0, <1>2 DEF CacheCurrent, NoLookup, Never
  <1>3. CASE \/ Tick \/ ImportEnds \/ (\E s \in Site, r \in 1..LastRoot : ImportFiles(s, r))
             \/ UNCHANGED profileVars
             \/ \E v \in Visitor : \/ ServeCached(v) \/ Query(v) \/ Dropped(v)
                                   \/ \E profile \in BOOLEAN : Ask(v, profile)
    BY <1>1, <1>3 DEF Tick, ImportEnds, ImportFiles, ServeCached, Query, Dropped, Ask, settingVars,
                      profileVars
  <1>4. CASE InvalidateSaved \/ ImportInvalidates \/ PanelReboots
    BY <1>2, <1>4 DEF InvalidateSaved, ImportInvalidates, PanelReboots, Invalidated
  <1>5. ASSUME NEW v \in Visitor, Answered(v) PROVE CacheCurrent'
    <2>1. siteCache'.at = instant /\ instant' = instant /\ site' = site
      BY <1>5 DEF Answered, settingVars
    <2>2. ~siteCache'.late => siteCache'.site = site
      BY <1>5 DEF Answered, AnswersCurrent
    <2> QED BY <1>0, <2>1, <2>2 DEF CacheCurrent
  <1>6. ASSUME NEW s \in Site, SaveSite(s) PROVE CacheCurrent'
    BY <1>6 DEF SaveSite, CacheCurrent
  <1>7. CASE ImportCommits
    BY <1>0, <1>7 DEF ImportCommits, CacheCurrent, Never
  <1> QED BY <1>3, <1>4, <1>5, <1>6, <1>7 DEF ProfilesNext

LEMMA RootCurrentStep ==
    ASSUME ProfilesType, RootCurrent, [ProfilesNext]_profileVars
    PROVE  RootCurrent'
  <1>0. fetch \in [Visitor -> Fetch \cup {NoFetch}]
    BY DEF ProfilesType
  <1>1. ASSUME UNCHANGED <<root, rootStands, rootCache>>,
               \A v \in Visitor : fetch'[v] # NoFetch => fetch[v] # NoFetch /\ fetch'[v].root = fetch[v].root
        PROVE  RootCurrent'
    BY <1>1 DEF RootCurrent
  <1>2. CASE \/ Tick \/ InvalidateSaved \/ ImportInvalidates \/ ImportEnds \/ UNCHANGED profileVars
    BY <1>1, <1>2 DEF Tick, InvalidateSaved, ImportInvalidates, ImportEnds, profileVars
  <1>3. ASSUME NEW v \in Visitor, ServeCached(v) \/ Answered(v) \/ Dropped(v) PROVE RootCurrent'
    BY <1>0, <1>1, <1>3 DEF ServeCached, Answered, Dropped, Handed, settingVars
  <1>4. ASSUME NEW v \in Visitor, Query(v) PROVE RootCurrent'
    BY <1>0, <1>1, <1>4 DEF Query, settingVars, NoFetch
  <1>5. CASE (\E s \in Site : SaveSite(s)) \/ ImportCommits
    BY <1>1, <1>5, OvertakenFetch DEF SaveSite, ImportCommits
  <1>6. ASSUME NEW v \in Visitor, NEW profile \in BOOLEAN, Ask(v, profile) PROVE RootCurrent'
    <2>1. rootStands => CaInfo \in {NoFile, root}
      BY DEF CaInfo, RootCurrent
    <2> QED BY <1>0, <1>6, <2>1 DEF Ask, RootCurrent, settingVars
  <1>7. ASSUME NEW s \in Site, NEW r \in 1..LastRoot, ImportFiles(s, r) PROVE RootCurrent'
    BY <1>7 DEF ImportFiles, RootCurrent
  <1>8. CASE PanelReboots
    BY <1>8 DEF PanelReboots, RootCurrent
  <1> QED BY <1>2, <1>3, <1>4, <1>5, <1>6, <1>7, <1>8 DEF ProfilesNext

\* The caches and the requests under way are of what is there, or excused.
THEOREM ProfilesInvariant == ProfilesSpec => []ProfilesInv
  <1>1. ProfilesInit => ProfilesInv
    <2> SUFFICES ASSUME ProfilesInit PROVE ProfilesInv
      OBVIOUS
    <2>1. ProfilesType
      <3>1. /\ instant \in 0..LastInstant /\ root \in 1..LastRoot /\ rootCache \in 0..LastRoot
            /\ imported \in Never..LastInstant
        BY ProfileConstants DEF ProfilesInit, NoFile, Never
      <3>2. /\ site \in Site /\ owed \in BOOLEAN /\ rootStands \in BOOLEAN
            /\ importing \in {NoImport} \cup [at : {"files", "settings"}, site : Site]
            /\ siteCache \in Lookup \cup {NoLookup}
            /\ fetch \in [Visitor -> Fetch \cup {NoFetch}]
        BY ProfileConstants DEF ProfilesInit
      <3> QED BY <3>1, <3>2 DEF ProfilesType
    <2>2. AnswersCurrent /\ CacheCurrent /\ RootCurrent
      BY DEF ProfilesInit, AnswersCurrent, CacheCurrent, RootCurrent, NoFetch, NoLookup, Never
    <2> QED BY <2>1, <2>2 DEF ProfilesInv
  <1>2. ProfilesInv /\ [ProfilesNext]_profileVars => ProfilesInv'
    BY ProfilesTypeStep, AnswersCurrentStep, CacheCurrentStep, RootCurrentStep DEF ProfilesInv
  <1> QED BY <1>1, <1>2, PTL DEF ProfilesSpec

\* The settings, both caches and the requests of the visitors keep their types
\* (vpnConfig.js, settings.js, profiles.js).
THEOREM ProfilesTypeCorrect == ProfilesSpec => []ProfilesType
  <1>1. ProfilesInv => ProfilesType
    BY DEF ProfilesInv
  <1> QED BY <1>1, ProfilesInvariant, PTL

\* Every device's file names the endpoint saved last and brings the certificate on
\* disk, unless the news is owed, was overtaken or comes from an import
\* (vpnConfig.js:9-22, settings.js:175-187, profiles.js:9-16).
THEOREM ProfilesTheorem == ProfilesSpec => ProfilesCurrent
  <1>1. ASSUME ProfilesInv, NEW v \in Visitor, ServeCached(v) \/ Answered(v), NEW device \in Device
        PROVE  Current(device, ServedTo(v, device))
    <2>0. /\ instant \in Nat /\ imported \in Int /\ siteCache \in Lookup \cup {NoLookup}
          /\ siteCache.at \in Int /\ CacheTtl \in Nat
      BY <1>1, ProfileConstants DEF ProfilesInv, ProfilesType, Lookup, NoLookup, Never
    <2>1. siteCache'.site = site \/ Excused
      <3>1. CASE ServeCached(v)
        <4>1. siteCache' = siteCache /\ siteCache # NoLookup /\ instant - siteCache.at < CacheTtl
          BY <3>1 DEF ServeCached, Usable
        <4>2. siteCache.site # site /\ ~siteCache.late /\ ~owed =>
                 imported # Never /\ siteCache.at <= imported
          BY <1>1, <4>1 DEF ProfilesInv, CacheCurrent
        <4> QED BY <2>0, <4>1, <4>2 DEF Excused
      <3>2. CASE Answered(v)
        BY <1>1, <3>2 DEF Answered, ProfilesInv, AnswersCurrent, Excused
      <3> QED BY <1>1, <3>1, <3>2
    <2>2. rootStands => fetch[v].root \in {NoFile, root}
      BY <1>1 DEF ProfilesInv, RootCurrent, ServeCached, Answered, NoFetch
    <2>3. LET file == ServedTo(v, device) IN
          /\ file.remote = IF device = "relay" THEN RelayName ELSE siteCache'.site
          /\ file.identity \in {Implied, IF device = "relay" THEN RelayName ELSE siteCache'.site}
          /\ file.root \in {NoFile, fetch[v].root}
      BY DEF ServedTo, Served, Device, Android, AndroidRelay, Ios, Windows, Json, Page
    <2> QED BY <2>1, <2>2, <2>3 DEF Current
  <1>2. ProfilesInv /\ [ProfilesNext]_profileVars =>
           [\A v \in Visitor :
              ServeCached(v) \/ Answered(v) =>
                 \A device \in Device : Current(device, ServedTo(v, device))]_profileVars
    BY <1>1
  <1> QED BY <1>2, ProfilesInvariant, PTL DEF ProfilesSpec, ProfilesCurrent

-----------------------------------------------------------------------------
(* The panel *)

\* In the instance that TLC explores each part behaves as its specification says.
THEOREM PanelParts ==
    PanelSpec => /\ EditsSpec /\ LimitSpec /\ ProvisioningSpec /\ AuthSpec
                 /\ EndpointSpec /\ ProfilesSpec /\ BackupSpec /\ SidecarSpec
  <1>1. PanelInit => /\ EditsInit /\ LimitInit /\ ProvisioningInit /\ AuthInit
                     /\ EndpointInit /\ ProfilesInit /\ BackupInit /\ SidecarInit
    BY DEF PanelInit
  <1>2. [PanelNext]_PanelVars => [EditsNext]_editVars
    BY DEF PanelNext, PanelVars
  <1>3. [PanelNext]_PanelVars => [ProvisioningNext]_provisioningVars
    BY DEF PanelNext, PanelVars
  <1>4. [PanelNext]_PanelVars => [AuthNext]_authVars
    BY DEF PanelNext, PanelVars
  <1>5. [PanelNext]_PanelVars => [EndpointNext]_endpointVars
    BY DEF PanelNext, PanelVars
  <1>6. [PanelNext]_PanelVars => [ProfilesNext]_profileVars
    BY DEF PanelNext, PanelVars
  <1>7. [PanelNext]_PanelVars => [BackupNext]_backupVars
    BY DEF PanelNext, PanelVars
  <1>8. [PanelNext]_PanelVars => [SidecarNext]_sidecarVars
    BY DEF PanelNext, PanelVars
  <1>9. [PanelNext]_PanelVars => [LimitNext]_limitVars
    BY DEF PanelNext, PanelVars
  <1> QED BY <1>1, <1>2, <1>3, <1>4, <1>5, <1>6, <1>7, <1>8, <1>9, PTL
          DEF PanelSpec, EditsSpec, LimitSpec, ProvisioningSpec, AuthSpec, EndpointSpec, ProfilesSpec,
              BackupSpec, SidecarSpec

\* The variables of every part are of their types in every state of the panel.
THEOREM PanelTypeCorrect == PanelSpec => []PanelType
  <1>1. EditsType /\ LimitType /\ ProvisioningType /\ AuthType /\ EndpointType /\ ProfilesType /\ BackupType
           /\ SidecarType => PanelType
    BY DEF PanelType
  <1> QED BY <1>1, PanelParts, EditsTypeCorrect, LimitTypeCorrect, ProvisioningTypeCorrect,
             AuthTypeCorrect, EndpointTypeCorrect, ProfilesTypeCorrect, BackupTypeCorrect, SidecarTypeCorrect, PTL

\* What TLC checks of one instance holds of every instance (server.js, worker.js,
\* service.mjs): passwords reported are loaded and
\* nothing is left unsynchronized, old sessions end, the relay follows the policy,
\* records and archives of backups stand, and the sidecar's slots, tunnels and
\* files are current;
THEOREM PanelInvariants ==
    PanelSpec => /\ []ReportedLoaded /\ []QuietSynced /\ []OldSessionsEnd /\ []RelayFollows
                 /\ []RecordStands /\ []WholeArchive
                 /\ []SlotsExact /\ []OnlyCurrent /\ []ReportedOnDisk
  BY PanelParts, ReportedTheorem, QuietTheorem, OldSessionsEndAlways, RelayFollowsAlways,
     RecordStandsAlways, WholeArchiveAlways, SlotsExactAlways, OnlyCurrentAlways,
     ReportedOnDiskAlways, PTL

\* every duration gets its date and a change leaves address, identity and
\* certificate one, if forms are saved in duration mode only while the account waits
\* and nothing fails after the save of a change (UserDetailPage.tsx,
\* vpnEndpointManager.js:205-239);
THEOREM PanelAgreements ==
    ASSUME ~LateDuration, ~LateFaults
    PROVE  PanelSpec => []TermStarts /\ []EndpointAgrees
  <1>1. EditsSpec => []TermStarts
    BY TermTheorem
  <1>2. EndpointSpec => []EndpointAgrees
    BY EndpointAgreesAlways
  <1> QED BY <1>1, <1>2, PanelParts, PTL

\* and no step of it moves a first connection, loses a sale or a traffic
\* limit, reports a password while older sessions run, serves an outdated profile,
\* sends a backup early or hands out a slot too many.
THEOREM PanelSteps ==
    PanelSpec => /\ FirstConnectionStands /\ SaleKept /\ LimitStands /\ ResetCutsOff
                 /\ ProfilesCurrent /\ Spaced /\ BoundedSlots
  BY PanelParts, FirstConnectionTheorem, SaleTheorem, LimitTheorem, CutsOffTheorem,
     ProfilesTheorem, SpacedTheorem, PoolTheorem, PTL

=============================================================================
