--------------------------- MODULE BackupSchedule ---------------------------
(***************************************************************************)
(* Automatic backups (telegramBackup.js, githubBackup.js): Telegram is     *)
(* checked every minute against the time of the last success in            *)
(* panel_settings and sent in parts under a lock; GitHub runs on a timer   *)
(* set when the panel starts, without one.  Administrators send backups by *)
(* hand and save a settings form they opened earlier.  Time passes in      *)
(* steps, Interval of them from a backup to the next; an age of Interval   *)
(* means due or older.  A setting read is used before a later write's      *)
(* answer arrives.                                                         *)
(***************************************************************************)
EXTENDS Integers

CONSTANTS
    Interval,     \* intervalHours, of either
    Parts         \* parts of an archive

ASSUME BackupAssumption == Interval \in Nat \ {0} /\ Parts \in Nat \ {0}

Unset == -1             \* no timer
Target == {"telegram", "github"}
Archive == {0, 1}      \* consecutive archives

VARIABLES
    setting,     \* panel_settings: enabled, age of lastBackupAt
    form,        \* the settings page: the age of the section when it last read it
    dispatch,    \* Telegram dispatches, by archive (age: since it was made)
    chat,        \* what the chat received last: the first parts of an archive, in order
    githubTimer, \* steps until the GitHub timer fires
    running,     \* GitHub runs under way
    since,       \* history: age of what was last backed up with success
    lost         \* history: targets whose record of it was lost or replaced

backupVars == <<setting, form, dispatch, chat, githubTimer, running, since, lost>>

Age == 0..Interval
Setting == [on : BOOLEAN, age : Age]
NotSending == [at |-> "idle", sent |-> 0, by |-> "admin", age |-> 0]

BackupType ==
    /\ setting \in [Target -> Setting] /\ form \in [Target -> Age]
    /\ dispatch \in [Archive -> [at : {"idle", "archive", "send", "record"}, sent : 0..Parts,
                                 by : {"admin", "timer"}, age : Age]]
    /\ chat \in [archive : Archive, parts : 0..Parts]
    /\ githubTimer \in Age \cup {Unset} /\ running \in 0..2
    /\ since \in [Target -> Age] /\ lost \subseteq Target

BackupInit ==
    /\ setting = [t \in Target |-> [on |-> FALSE, age |-> Interval]]
    /\ form = [t \in Target |-> Interval]
    /\ dispatch = [a \in Archive |-> NotSending]
    /\ chat = [archive |-> 0, parts |-> 0]
    /\ githubTimer = Unset /\ running = 0
    /\ since = [t \in Target |-> Interval] /\ lost = {}

Older(n) == IF n < Interval THEN n + 1 ELSE n

Step ==
    /\ githubTimer # 0
    /\ setting' = [t \in Target |-> [setting[t] EXCEPT !.age = Older(@)]]
    /\ form' = [t \in Target |-> Older(form[t])]
    /\ since' = [t \in Target |-> Older(since[t])]
    /\ githubTimer' = IF githubTimer = Unset THEN Unset ELSE githubTimer - 1
    /\ dispatch' = [a \in Archive |->
                      IF dispatch[a].at \in {"send", "record"}
                        THEN [dispatch[a] EXCEPT !.age = Older(@)] ELSE dispatch[a]]
    /\ UNCHANGED <<chat, running, lost>>

-----------------------------------------------------------------------------
(* What is written to panel_settings *)

\* lastBackupAt is when the archive was made.
Succeeded(t, age, saved) ==
    /\ since' = [since EXCEPT ![t] = age]
    /\ setting' = IF saved THEN [setting EXCEPT ![t].age = age] ELSE setting
    /\ lost' = IF saved THEN lost \ {t} ELSE lost \cup {t}

\* lastStatus and lastError are only shown.
Failed == UNCHANGED <<setting, since, lost>>

\* Mutant: the section is written as the page read it.
SavedWhole(t, on) == [on |-> on, age |-> form[t]]

\* updateSettings merges the fields of the form inside the database.
Merged(t, on) == [setting[t] EXCEPT !.on = on]

Refetch ==
    /\ form' = [t \in Target |-> setting[t].age]
    /\ UNCHANGED <<setting, dispatch, chat, githubTimer, running, since, lost>>

SaveSettings(t, on) ==
    /\ setting' = [setting EXCEPT ![t] = Merged(t, on)]
    /\ UNCHANGED <<form, dispatch, chat, githubTimer, running, since, lost>>

\* Settings restored from a backup file.
Imported(t) ==
    /\ \E s \in Setting : setting' = [setting EXCEPT ![t] = s]
    /\ lost' = lost \cup {t}
    /\ UNCHANGED <<form, dispatch, chat, githubTimer, running, since>>

-----------------------------------------------------------------------------
(* Telegram *)

\* Told apart from the one the chat received last.
NextArchive == 1 - chat.archive

SetDispatch(a, d) == dispatch' = [dispatch EXCEPT ![a] = d]

\* Mutant: no lock.
AlwaysFree == dispatch[NextArchive].at = "idle"

\* `sending'; a dispatch it refuses changes nothing
Unlocked == \A a \in Archive : dispatch[a].at = "idle"

Send(by) ==
    /\ Unlocked
    /\ SetDispatch(NextArchive, [NotSending EXCEPT !.at = "archive", !.by = by])
    /\ UNCHANGED <<setting, form, chat, githubTimer, running, since, lost>>

\* What the settings page offers.
TelegramCard == Send("admin") \/ \E on \in BOOLEAN : SaveSettings("telegram", on)

\* Mutant: due a step early.
DueEarly == setting["telegram"].age >= Interval - 1

Due == setting["telegram"].age = Interval

\* checkAndDispatchTelegramBackup
CheckTelegram == setting["telegram"].on /\ Due /\ Send("timer")

\* createFullBackup
MakeArchive(a) ==
    /\ dispatch[a].at = "archive"
    /\ SetDispatch(a, [dispatch[a] EXCEPT !.at = "send"])
    /\ UNCHANGED <<setting, form, chat, githubTimer, running, since, lost>>

Received(a, part) ==
    IF part = 1 THEN [archive |-> a, parts |-> 1]
    ELSE IF chat = [archive |-> a, parts |-> part - 1] THEN [chat EXCEPT !.parts = part]
    ELSE [archive |-> 0, parts |-> 0]

SendPart(a) ==
    /\ dispatch[a].at = "send"
    /\ LET part == dispatch[a].sent + 1 IN
        /\ chat' = Received(a, part)
        /\ SetDispatch(a, [dispatch[a] EXCEPT !.sent = part,
                                              !.at = IF part = Parts THEN "record" ELSE @])
    /\ UNCHANGED <<setting, form, githubTimer, running, since, lost>>

\* The archive is not or a part is refused or not answered in time,
\* perhaps after it was received.
SendFails(a) ==
    /\ dispatch[a].at \in {"archive", "send"}
    /\ SetDispatch(a, NotSending) /\ Failed
    /\ chat' \in {chat, IF dispatch[a].at = "send" THEN Received(a, dispatch[a].sent + 1)
                                                   ELSE chat}
    /\ UNCHANGED <<form, githubTimer, running>>

Record(a, saved) ==
    /\ dispatch[a].at = "record"
    /\ SetDispatch(a, NotSending) /\ Succeeded("telegram", dispatch[a].age, saved)
    /\ UNCHANGED <<form, chat, githubTimer, running>>

-----------------------------------------------------------------------------
(* GitHub *)

\* runGithubBackupNow
RunGithub ==
    /\ running < 2 /\ running' = running + 1
    /\ UNCHANGED <<setting, form, dispatch, chat, since, lost>>

RunByHand == RunGithub /\ UNCHANGED githubTimer

\* The interval is the one of when the panel started.
GithubTimer ==
    /\ githubTimer = 0 /\ githubTimer' = Interval
    /\ RunGithub

\* What the settings page offers.
GithubCard == RunByHand \/ \E on \in BOOLEAN : SaveSettings("github", on)

\* Uploaded, and recorded or not: then it is reported as failed.
GithubDone(saved) ==
    /\ running > 0 /\ running' = running - 1
    /\ Succeeded("github", 0, saved)
    /\ UNCHANGED <<form, dispatch, chat, githubTimer>>

GithubFails ==
    /\ running > 0 /\ running' = running - 1
    /\ Failed
    /\ UNCHANGED <<form, dispatch, chat, githubTimer>>

\* scheduleGithubBackup, at every start of the panel
PanelStarts ==
    /\ githubTimer' = IF setting["github"].on THEN Interval ELSE Unset
    /\ dispatch' = [a \in Archive |-> NotSending] /\ running' = 0
    /\ UNCHANGED <<setting, form, chat, since, lost>>

BackupNext ==
    \/ Step \/ Refetch
    \/ \E t \in Target : Imported(t)
    \/ TelegramCard \/ GithubCard
    \/ CheckTelegram
    \/ \E a \in Archive : \/ MakeArchive(a) \/ SendPart(a) \/ SendFails(a)
                          \/ \E saved \in BOOLEAN : Record(a, saved)
    \/ GithubTimer \/ GithubFails \/ \E saved \in BOOLEAN : GithubDone(saved)
    \/ PanelStarts

BackupSpec == BackupInit /\ [][BackupNext]_backupVars

-----------------------------------------------------------------------------
(* Properties *)

\* The time of the last backup is that of the last one to succeed: no save of a
\* form opened before it, error, overlapping run or restart moves it, only a
\* record that is lost or an import (settings.js:173-174, telegramBackup.js:96-100,
\* githubBackup.js:26-30).
RecordStands == \A t \in Target \ lost : setting[t].age = since[t]

\* No automatic Telegram backup begins before an interval has passed since the
\* archive last sent with success was made, by hand or not
\* (telegramBackup.js:115-122).
Spaced ==
    [][\A a \in Archive :
         dispatch[a].at = "idle" /\ dispatch'[a].at = "archive" /\ dispatch'[a].by = "timer"
            /\ "telegram" \notin lost => since["telegram"] = Interval]_backupVars

\* When a dispatch is recorded as a success the chat's last documents are all
\* the parts of its archive, in order, with nothing in between
\* (telegramBackup.js:38-48, 69-100).
WholeArchive ==
    \A a \in Archive : dispatch[a].at = "record" => chat = [archive |-> a, parts |-> Parts]

=============================================================================
