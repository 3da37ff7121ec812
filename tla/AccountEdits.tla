---------------------------- MODULE AccountEdits ----------------------------
(***************************************************************************)
(* One row of vpn_users and everybody who writes its term: the edit forms  *)
(* of the console (a snapshot taken when the form opens or its page        *)
(* refetches), the read-then-write handler extendUser, resetActivation,    *)
(* the two meters that start a term at the first connection (worker.js and *)
(* sharedUsage.js), and backup files.                                      *)
(*                                                                         *)
(* Its traffic limit, which the same forms save, is LimitEdits: no         *)
(* statement computes one from the other.  The columns only forms write    *)
(* (enabled, max_devices, note) are left out, as are the balances          *)
(* (XrayMetering), quota_blocked (SyncQueue) and the password              *)
(* (Provisioning).                                                         *)
(***************************************************************************)
EXTENDS Integers

CONSTANTS
    Admin,         \* administrators working at the same time
    MaxTime,       \* bound: the clock
    Day,           \* clock units per day
    Term,          \* duration_days of an account sold by duration, in clock units
    LateDuration   \* forms may be saved in duration mode on accounts not waiting
                   \* for their first connection

ASSUME EditsAssumption ==
    /\ MaxTime \in Nat /\ Day \in Nat \ {0} /\ Term \in Nat \ {0}
    /\ LateDuration \in BOOLEAN

NoDate == -1
Date == NoDate..(MaxTime + Term)

VARIABLES
    now,
    row,      \* the columns of the account's row
    work,     \* per administrator: an open edit form, a handler between its
              \* SELECT and its UPDATE, or NoWork
    ikeSaw,   \* recordSession has read a row that waits for the first connection
    backup    \* the row in an exported file, or NoBackup

editVars == <<now, row, work, ikeSaw, backup>>

AccountRow ==
    [expires : Date, days : {NoDate, Term}, first : NoDate..MaxTime,
     waiting : BOOLEAN]         \* activation_status = 'not_activated'
\* `seen' (history): nobody has written the row since it was read
Form == [kind : {"form"}, mode : {"duration", "date"}, days : {NoDate, Term},
         expires : Date, seen : BOOLEAN]
Extension == [kind : {"extend"}, value : Nat, seen : BOOLEAN]
NoWork == [kind |-> "idle"]
NoBackup == [expires |-> NoDate]

\* The row, the forms and the extensions in progress are well formed.
EditsType ==
    /\ now \in 0..MaxTime /\ row \in AccountRow
    /\ work \in [Admin -> Form \cup Extension \cup {NoWork}]
    /\ ikeSaw \in BOOLEAN /\ backup \in AccountRow \cup {NoBackup}

\* provisionUser: activation_status is 'not_activated' for an account with
\* durationDays and no expiresAt
EditsInit ==
    /\ now = 0
    /\ \E e \in {NoDate, MaxTime}, d \in {NoDate, Term} :
        row = [expires |-> e, days |-> d, first |-> NoDate,
               waiting |-> d # NoDate /\ e = NoDate]
    /\ work = [a \in Admin |-> NoWork] /\ ikeSaw = FALSE /\ backup = NoBackup

\* Every write makes what the others have read out of date.
Outdated == [a \in Admin |-> IF work[a] = NoWork THEN NoWork
                             ELSE [work[a] EXCEPT !.seen = FALSE]]

Elapse ==
    /\ now < MaxTime /\ now' = now + 1
    /\ UNCHANGED <<row, work, ikeSaw, backup>>

-----------------------------------------------------------------------------
(* The edit forms.  The list's page has a field of a minute's precision,   *)
(* the detail page one of a day's.                                         *)

Precision == {1, Day}

\* toISOString().slice(0, 16) or (0, 10): the start of that minute or day
Shown(e, p) == IF e = NoDate THEN NoDate ELSE e - (e % p)

\* The form a page fills from the account it has: an account whose term runs
\* already is edited by its date.
Filled(p) ==
    [kind |-> "form",
     mode |-> IF row.days # NoDate /\ row.expires = NoDate THEN "duration" ELSE "date",
     days |-> row.days, expires |-> Shown(row.expires, p), seen |-> TRUE]

Editing(a) == work[a].kind = "form"

\* Opening the form, and on the detail page also a refetch under it.
OpenForm(a, p) ==
    /\ work[a] = NoWork \/ Editing(a)
    /\ work' = [work EXCEPT ![a] = Filled(p)]
    /\ UNCHANGED <<now, row, ikeSaw, backup>>

CloseForm(a) ==
    /\ Editing(a) /\ work' = [work EXCEPT ![a] = NoWork]
    /\ UNCHANGED <<now, row, ikeSaw, backup>>

\* What the administrator may have made of a form before it is submitted.
ModeChanged(f) == {[f EXCEPT !.mode = m, !.days = Term] : m \in {"duration", "date"}}
DateChanged(f) == {[f EXCEPT !.mode = "date", !.expires = d] : d \in {NoDate, MaxTime}}
Edited(f) == {f} \cup ModeChanged(f) \cup DateChanged(f)

\* submit sends one of expiresAt and durationDays, the other as null.
Sent(f) == [expires |-> IF f.mode = "duration" THEN NoDate ELSE f.expires,
            days    |-> IF f.mode = "duration" THEN f.days ELSE NoDate]

\* updateUser's UPDATE leaves activation_status and first_connected_at alone.
Patch(f) == [row EXCEPT !.expires = Sent(f).expires, !.days = Sent(f).days]

SubmitForm(a, f) ==
    /\ Editing(a) /\ f \in Edited(work[a])
    /\ LateDuration \/ f.mode = "date" \/ row.waiting
    /\ row' = Patch(f)
    /\ work' = [Outdated EXCEPT ![a] = NoWork]
    /\ UNCHANGED <<now, ikeSaw, backup>>

-----------------------------------------------------------------------------
(* extendUser.  Any number of requests may be between SELECT and UPDATE.    *)

\* Mutant: an extension counts from now even when the account has time left.
ExtendedFromNow == now + Term

\* from the current expiry if it lies ahead, else from now
Extended == (IF row.expires > now THEN row.expires ELSE now) + Term

ReadExtend(a) ==
    /\ work[a] = NoWork /\ Extended <= MaxTime + Term
    /\ work' = [work EXCEPT ![a] = [kind |-> "extend", value |-> Extended, seen |-> TRUE]]
    /\ UNCHANGED <<now, row, ikeSaw, backup>>

WriteExtend(a) ==
    /\ work[a].kind = "extend"
    /\ row' = [row EXCEPT !.expires = work[a].value, !.waiting = FALSE]
    /\ work' = [Outdated EXCEPT ![a] = NoWork]
    /\ UNCHANGED <<now, ikeSaw, backup>>

ResetActivation ==
    /\ row.days # NoDate
    /\ row' = [row EXCEPT !.first = NoDate, !.waiting = TRUE, !.expires = NoDate]
    /\ work' = Outdated
    /\ UNCHANGED <<now, ikeSaw, backup>>

\* The operations the detail page offers besides the form.
Button(a) == ReadExtend(a) \/ ResetActivation

-----------------------------------------------------------------------------
(* The first connection *)

\* Mutant: only the date of a row that has none is set, and never the first
\* connection's.
StartedUndated == [row EXCEPT !.first = now, !.waiting = FALSE]

\* both meters' UPDATE of a row without first_connected_at
Started ==
    [row EXCEPT !.first = now, !.waiting = FALSE,
                !.expires = IF @ = NoDate /\ row.days # NoDate THEN now + row.days ELSE @]

Activate ==
    /\ row' = Started /\ work' = Outdated
    /\ UNCHANGED <<now, backup>>

\* recordSession reads the account; one that is 'activated' without having
\* connected is never started by this meter
IkeSees ==
    /\ ~ikeSaw /\ row.first = NoDate /\ row.waiting
    /\ ikeSaw' = TRUE
    /\ UNCHANGED <<now, row, work, backup>>

\* Mutant: without the WHERE first_connected_at IS NULL of the UPDATE.
UnstartedWhenRead == TRUE

Unstarted == row.first = NoDate

IkeActivates ==
    /\ ikeSaw /\ ikeSaw' = FALSE
    /\ IF Unstarted THEN Activate ELSE UNCHANGED <<now, row, work, backup>>

\* recordXrayCounters holds the row's lock from its SELECT on
XrayActivates == row.first = NoDate /\ Activate /\ ikeSaw' = ikeSaw

-----------------------------------------------------------------------------
(* Backup files *)

Export ==
    /\ now = 0 /\ backup = NoBackup    \* bound: one file, taken before anything else
    /\ row.first = NoDate /\ ~ikeSaw /\ \A a \in Admin : work[a] = NoWork
    /\ backup' = row
    /\ UNCHANGED <<now, row, work, ikeSaw>>

\* The modes the page offers.
ImportMode == {"merge", "users-only", "full"}

\* An account that exists is overwritten, or skipped by `users-only'.
Restored(mode) == IF mode = "users-only" THEN row ELSE backup

Import(mode) ==
    /\ backup # NoBackup /\ Restored(mode) # row /\ row' = Restored(mode)
    /\ work' = Outdated
    /\ UNCHANGED <<now, ikeSaw, backup>>

EditsNext ==
    \/ Elapse
    \/ \E a \in Admin :
        \/ \E p \in Precision : OpenForm(a, p)
        \/ CloseForm(a)
        \/ Editing(a) /\ \E f \in Edited(work[a]) : SubmitForm(a, f)
        \/ Button(a) \/ WriteExtend(a)
    \/ IkeSees \/ IkeActivates \/ XrayActivates
    \/ Export \/ \E mode \in ImportMode : Import(mode)

EditsSpec == EditsInit /\ [][EditsNext]_editVars

-----------------------------------------------------------------------------
(* Properties *)

\* An account sold by duration that has no date yet still waits for its first
\* connection, and the connection gives it one: however forms, extensions,
\* resets, imports and the two meters interleave, nobody is connected for ever
\* (activateOnFirstConnect and the CASE of sharedUsage.js:26).
TermStarts == row.days # NoDate /\ row.expires = NoDate => row.waiting /\ row.first = NoDate

\* Two meters may see the first connection: the second one's UPDATE, computed
\* from a row it read before, does not move it (worker.js:51).
FirstConnectionStands ==
    [][row.first # NoDate /\ row'.first # row.first =>
        ResetActivation \/ \E mode \in ImportMode : Import(mode)]_editVars

\* The term that was sold is kept unless somebody wrote the row after it was
\* read: an extension adds the whole term to what was left, and saving a form
\* nobody edited adds nothing and takes less than a day.
SaleKept ==
    [][\A a \in Admin : work[a] # NoWork /\ work[a].seen /\ work'[a] = NoWork =>
        /\ work[a].kind = "extend" => row'.expires >= row.expires + Term
        /\ Editing(a) /\ row' = Patch(work[a]) =>
            row'.expires <= row.expires /\ row'.expires > row.expires - Day]_editVars

=============================================================================
