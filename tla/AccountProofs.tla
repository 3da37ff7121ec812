--------------------------- MODULE AccountProofs ---------------------------
(***************************************************************************)
(* The life of an account, for any administrators, passwords, sessions and *)
(* bounds.  An account sold by duration starts its term at the first       *)
(* connection (AccountEdits), the first connection stands, and neither a   *)
(* sale nor a traffic limit (LimitEdits) is lost to an extension, an       *)
(* addition or an untouched form unless the row was written in between.  A *)
(* password reported as in force is, a reset cuts off what ran on an older *)
(* one, and when nothing is pending strongSwan has what the rows say       *)
(* (Provisioning).                                                         *)
(***************************************************************************)
EXTENDS AccountEdits, LimitEdits, Provisioning, TLAPS

-----------------------------------------------------------------------------
(* AccountEdits: the invariant *)

\* A row waits for its first connection only before it, and one sold by
\* duration has a date once it does not wait any more.
TermSound(r) ==
    /\ r.waiting => r.first = NoDate
    /\ r.days # NoDate /\ r.expires = NoDate => r.waiting /\ r.first = NoDate

\* What an extension is about to write is in range, and not less than the date it
\* read with the whole term on top.
ExtensionSound(w) ==
    w.kind = "extend" => /\ w.value <= MaxTime + Term
                         /\ w.seen => w.value >= row.expires + Term

\* What a form was filled with, as long as the row is the one it read.
FormSound(w) ==
    w.kind = "form" /\ w.seen =>
        /\ w.mode = "duration" => row.expires = NoDate
        /\ \E p \in Precision : w.expires = Shown(row.expires, p)

WorkSound == \A a \in Admin : ExtensionSound(work[a]) /\ FormSound(work[a])

EditsInv == EditsType /\ WorkSound

\* The rows that may come back: the account's and the one in the file.
TermsSound == TermSound(row) /\ (backup # NoBackup => TermSound(backup))

-----------------------------------------------------------------------------
(* Provisioning: the invariant *)

Waiting(a) == request[a].kind \in {"create", "reset"} /\ request[a].at = "sync"

\* Who waits for a job waits for one job, and has asked for it.
OneWait ==
    \A a \in Operator, i, j \in 1..Len(chain) :
        /\ a \in chain[i] => Waiting(a)
        /\ a \in chain[i] /\ a \in chain[j] => i = j

\* An account that was never created has no password anywhere.
Unused ==
    \A u \in Account : status[u] = "none" =>
        secret[u] = 0 /\ loaded[u] = 0 /\ snapshot[u] = 0 /\ told[u] = 0

\* Passwords only advance: what was told is loaded, what a job has read is newer
\* than what is loaded, and nothing is newer than the row.
Advance ==
    /\ \A u \in Account :
        /\ told[u] <= secret[u] /\ loaded[u] <= secret[u] /\ snapshot[u] <= secret[u]
        /\ Exists(u) => told[u] <= loaded[u]
        /\ Exists(u) /\ step = "read" => loaded[u] <= snapshot[u]
        /\ step = "loaded" => loaded[u] = snapshot[u]
    /\ \A a \in Operator :
        request[a].kind \in {"create", "reset"} =>
            /\ request[a].with <= secret[request[a].who]
            /\ status[request[a].who] # "none"
            /\ request[a].kind = "create" => request[a].with = 1

\* The job a request waits for has read the password by then.
ReadByJob ==
    \A a \in Operator : request[a].kind \in {"create", "reset"} /\ Exists(request[a].who) =>
        /\ step # "idle" /\ a \in Head(chain) => request[a].with <= snapshot[request[a].who]
        /\ request[a].at = "done" => request[a].with <= loaded[request[a].who]

SessionsOpened == \A s \in SessionId : session[s] # Nowhere => session[s].with >= 1

\* What strongSwan ought to have.
Expected(u) == IF Exists(u) THEN secret[u] ELSE 0

\* Whatever is out of date has a job to come, or a timer.
Pending ==
    \A u \in Account :
        /\ step # "idle" /\ snapshot[u] # Expected(u) => Len(chain) > 1
        /\ step = "idle" /\ loaded[u] # Expected(u) => chain # <<>> \/ retry
        /\ status[u] = "provisioning" =>
            \E a \in Operator : request[a].kind = "create" /\ request[a].who = u

ProvisioningInv ==
    ProvisioningType /\ OneWait /\ Unused /\ Advance /\ ReadByJob /\ SessionsOpened /\ Pending

-----------------------------------------------------------------------------
(* AccountEdits: the parts of a step *)

LEMMA EditConstants ==
    /\ MaxTime \in Nat /\ Day \in Nat \ {0} /\ Term \in Nat \ {0}
    /\ LateDuration \in BOOLEAN /\ NoDate = -1
  BY EditsAssumption DEF NoDate

\* A date is shown rounded down, by less than a day.
LEMMA ShownDate ==
    ASSUME NEW e \in Date, NEW p \in Precision
    PROVE  /\ Shown(e, p) \in Date /\ Shown(e, p) <= e /\ Shown(e, p) > e - Day
           /\ e = NoDate => Shown(e, p) = NoDate
  <1>0. /\ p \in Nat \ {0} /\ p <= Day /\ e \in Int
        /\ MaxTime + Term \in Nat /\ Day \in Nat \ {0}
    BY EditConstants DEF Precision, Date
  <1>1. CASE e = NoDate
    BY <1>0, <1>1, EditConstants DEF Shown, Date
  <1>2. CASE e # NoDate
    <2>1. e \in Nat /\ e <= MaxTime + Term
      BY <1>0, <1>2, EditConstants DEF Date
    <2>2. e % p \in 0..(p - 1)
      BY <1>0, <2>1
    <2>3. e % p <= e
      <3>1. CASE p <= e
        BY <1>0, <2>1, <2>2, <3>1
      <3>2. CASE e < p
        BY <1>0, <2>1, <3>2
      <3> QED BY <1>0, <2>1, <3>1, <3>2
    <2> DEFINE r == e % p
    <2>4. Shown(e, p) = e - r
      BY <1>2 DEF Shown
    <2> HIDE DEF r
    <2>5. r \in 0..(p - 1) /\ r <= e
      BY <2>2, <2>3 DEF r
    <2> QED BY <1>0, <1>2, <2>1, <2>4, <2>5, EditConstants DEF Date
  <1> QED BY <1>1, <1>2

\* What an administrator holds.
LEMMA WorkTypes ==
    ASSUME EditsType, NEW a \in Admin
    PROVE  /\ work[a] \in Form \cup Extension \cup {NoWork}
           /\ work[a].kind = "form" => work[a] \in Form
           /\ work[a].kind = "extend" => work[a] \in Extension
           /\ work[a].kind = "idle" => work[a] = NoWork
  BY DEF EditsType, Form, Extension, NoWork

\* The others' work after a write: all of it is of the row as it was.
LEMMA OutdatedWork ==
    ASSUME EditsInv
    PROVE  /\ Outdated \in [Admin -> Form \cup Extension \cup {NoWork}]
           /\ \A a \in Admin :
                \/ Outdated[a] = NoWork /\ work[a] = NoWork
                \/ /\ work[a] # NoWork
                   /\ Outdated[a].kind = work[a].kind /\ Outdated[a].seen = FALSE
                   /\ work[a].kind = "extend" => Outdated[a].value = work[a].value
  <1> SUFFICES ASSUME NEW a \in Admin
               PROVE  /\ Outdated[a] \in Form \cup Extension \cup {NoWork}
                      /\ \/ Outdated[a] = NoWork /\ work[a] = NoWork
                         \/ /\ work[a] # NoWork
                            /\ Outdated[a].kind = work[a].kind /\ Outdated[a].seen = FALSE
                            /\ work[a].kind = "extend"
                                  => Outdated[a].value = work[a].value
    BY DEF Outdated
  <1>0. Outdated[a] = IF work[a] = NoWork THEN NoWork ELSE [work[a] EXCEPT !.seen = FALSE]
    BY DEF Outdated
  <1>1. work[a] \in Form \cup Extension \cup {NoWork}
    BY WorkTypes DEF EditsInv
  <1>2. CASE work[a] = NoWork
    BY <1>0, <1>2
  <1>3. CASE work[a] \in Form /\ work[a] # NoWork
    BY <1>0, <1>3 DEF Form
  <1>4. CASE work[a] \in Extension /\ work[a] # NoWork
    BY <1>0, <1>4 DEF Extension
  <1> QED BY <1>1, <1>2, <1>3, <1>4

\* A write of the row, by one of the handlers or by somebody else.
LEMMA RowWritten ==
    ASSUME EditsInv, row' \in AccountRow, UNCHANGED backup,
           now' = now, ikeSaw' \in BOOLEAN,
           work' = Outdated \/ \E a \in Admin : work' = [Outdated EXCEPT ![a] = NoWork]
    PROVE  EditsInv'
  <1>1. \A b \in Admin : work'[b] = Outdated[b] \/ work'[b] = NoWork
    BY OutdatedWork
  <1>2. work' \in [Admin -> Form \cup Extension \cup {NoWork}]
    BY OutdatedWork
  <1>3. EditsType'
    BY <1>2 DEF EditsInv, EditsType
  <1>4. ASSUME NEW b \in Admin PROVE ExtensionSound(work[b])' /\ FormSound(work[b])'
    <2>1. CASE work'[b] = NoWork
      BY <2>1 DEF ExtensionSound, FormSound, NoWork
    <2>2. CASE work'[b] = Outdated[b] /\ work'[b] # NoWork
      <3>1. /\ work'[b].kind = work[b].kind /\ work'[b].seen = FALSE
            /\ work[b].kind = "extend" => work'[b].value = work[b].value
        BY <2>2, OutdatedWork
      <3>2. ExtensionSound(work[b])
        BY DEF EditsInv, WorkSound
      <3> QED BY <3>1, <3>2 DEF ExtensionSound, FormSound
    <2> QED BY <1>1, <2>1, <2>2
  <1> QED BY <1>3, <1>4 DEF EditsInv, WorkSound

\* Somebody's work changes and the row does not.
LEMMA WorkChanged ==
    ASSUME EditsInv, UNCHANGED <<row, backup, now, ikeSaw>>, NEW a \in Admin, NEW w,
           work' = [work EXCEPT ![a] = w], w \in Form \cup Extension \cup {NoWork},
           ExtensionSound(w), FormSound(w)
    PROVE  EditsInv'
  <1>1. EditsType'
    BY DEF EditsInv, EditsType
  <1>2. ASSUME NEW b \in Admin PROVE ExtensionSound(work[b])' /\ FormSound(work[b])'
    <2>1. work'[b] = w \/ work'[b] = work[b]
      BY DEF EditsInv, EditsType
    <2>2. ExtensionSound(work'[b]) /\ FormSound(work'[b])
      BY <2>1 DEF EditsInv, WorkSound
    <2> QED BY <2>2 DEF ExtensionSound, FormSound
  <1> QED BY <1>1, <1>2 DEF EditsInv, WorkSound

LEMMA FilledForm ==
    ASSUME EditsInv, NEW p \in Precision
    PROVE  Filled(p) \in Form /\ ExtensionSound(Filled(p)) /\ FormSound(Filled(p))
  <1>1. row \in AccountRow
    BY DEF EditsInv, EditsType
  <1>2. Shown(row.expires, p) \in Date
    BY <1>1, ShownDate DEF AccountRow
  <1>3. Filled(p) \in Form
    BY <1>1, <1>2 DEF Filled, Form, AccountRow
  <1>4. ExtensionSound(Filled(p)) /\ FormSound(Filled(p))
    BY DEF Filled, ExtensionSound, FormSound
  <1> QED BY <1>3, <1>4

\* What SubmitForm, the handlers and the first connection write are rows.
LEMMA EditedForm ==
    ASSUME EditsInv, NEW a \in Admin, Editing(a), NEW f \in Edited(work[a])
    PROVE  Patch(f) \in AccountRow /\ f \in Form
  <1>1. row \in AccountRow /\ work[a] \in Form
    BY WorkTypes DEF EditsInv, EditsType, Editing
  <1>2. MaxTime \in Date /\ NoDate \in Date
    BY EditConstants DEF Date
  <1>3. f \in Form
    <2>1. CASE f = work[a]
      BY <1>1, <2>1
    <2>2. CASE f \in ModeChanged(work[a])
      BY <1>1, <2>2 DEF ModeChanged, Form
    <2>3. CASE f \in DateChanged(work[a])
      BY <1>1, <1>2, <2>3 DEF DateChanged, Form
    <2> QED BY <2>1, <2>2, <2>3 DEF Edited
  <1>4. Sent(f).expires \in Date /\ Sent(f).days \in {NoDate, Term}
    BY <1>2, <1>3 DEF Sent, Form
  <1> QED BY <1>1, <1>3, <1>4 DEF Patch, AccountRow

LEMMA StartedRow ==
    ASSUME EditsInv
    PROVE  Started \in AccountRow
  <1>0. row \in AccountRow /\ now \in 0..MaxTime
    BY DEF EditsInv, EditsType
  <1> DEFINE e == IF row.expires = NoDate /\ row.days # NoDate THEN now + row.days
                                                               ELSE row.expires
  <1>1. e \in Date
    BY <1>0, EditConstants DEF AccountRow, Date
  <1>2. Started = [row EXCEPT !.first = now, !.waiting = FALSE, !.expires = e]
    BY <1>0 DEF Started, AccountRow
  <1>3. now \in NoDate..MaxTime
    BY <1>0, EditConstants
  <1> HIDE DEF e
  <1> QED BY <1>0, <1>1, <1>2, <1>3 DEF AccountRow

-----------------------------------------------------------------------------
(* AccountEdits: the step *)

LEMMA EditsInvStep == EditsInv /\ [EditsNext]_editVars => EditsInv'
  <1> SUFFICES ASSUME EditsInv, [EditsNext]_editVars PROVE EditsInv'
    OBVIOUS
  <1>0. EditsType /\ row \in AccountRow /\ ikeSaw \in BOOLEAN
    BY DEF EditsInv, EditsType
  <1>1. CASE UNCHANGED editVars
    BY <1>1 DEF EditsInv, EditsType, WorkSound, ExtensionSound, FormSound, editVars
  <1>2. CASE Elapse
    BY <1>2, EditConstants DEF Elapse, EditsInv, EditsType, WorkSound, ExtensionSound, FormSound
  <1>3. ASSUME NEW a \in Admin, NEW p \in Precision, OpenForm(a, p) PROVE EditsInv'
    BY <1>3, FilledForm, WorkChanged DEF OpenForm
  <1>4. ASSUME NEW a \in Admin, CloseForm(a) PROVE EditsInv'
    <2>1. ExtensionSound(NoWork) /\ FormSound(NoWork)
      BY DEF ExtensionSound, FormSound, NoWork
    <2> QED BY <1>4, <2>1, WorkChanged DEF CloseForm
  <1>5. ASSUME NEW a \in Admin, Editing(a), NEW f \in Edited(work[a]), SubmitForm(a, f)
        PROVE  EditsInv'
    BY <1>0, <1>5, EditedForm, RowWritten DEF SubmitForm
  <1>6. ASSUME NEW a \in Admin, ReadExtend(a) PROVE EditsInv'
    <2> DEFINE w == [kind |-> "extend", value |-> Extended, seen |-> TRUE]
    <2>1. Extended \in Nat /\ Extended <= MaxTime + Term /\ Extended >= row.expires + Term
      BY <1>0, <1>6, EditConstants DEF ReadExtend, Extended, AccountRow, Date, EditsType
    <2>2. w \in Extension /\ ExtensionSound(w) /\ FormSound(w)
      BY <2>1 DEF Extension, ExtensionSound, FormSound
    <2>3. work' = [work EXCEPT ![a] = w] /\ UNCHANGED <<row, backup, now, ikeSaw>>
      BY <1>6 DEF ReadExtend
    <2> HIDE DEF w
    <2> QED BY <2>2, <2>3, WorkChanged
  <1>7. ASSUME NEW a \in Admin, WriteExtend(a) PROVE EditsInv'
    <2>1. work[a].value \in Nat /\ work[a].value <= MaxTime + Term
      BY <1>7, WorkTypes DEF WriteExtend, EditsInv, WorkSound, ExtensionSound, Extension
    <2>2. row' \in AccountRow
      <3>1. work[a].value \in Date
        BY <2>1, EditConstants DEF Date
      <3>2. row' = [row EXCEPT !.expires = work[a].value, !.waiting = FALSE]
        BY <1>7 DEF WriteExtend
      <3> QED BY <1>0, <3>1, <3>2 DEF AccountRow
    <2> QED BY <1>0, <1>7, <2>2, RowWritten DEF WriteExtend
  <1>8. CASE ResetActivation
    <2>1. row' \in AccountRow
      <3>1. NoDate \in Date /\ NoDate \in NoDate..MaxTime
        BY EditConstants DEF Date
      <3>2. row' = [row EXCEPT !.first = NoDate, !.waiting = TRUE, !.expires = NoDate]
        BY <1>8 DEF ResetActivation
      <3> QED BY <1>0, <3>1, <3>2 DEF AccountRow
    <2> QED BY <1>0, <1>8, <2>1, RowWritten DEF ResetActivation
  <1>9. CASE IkeSees
    BY <1>0, <1>9 DEF IkeSees, EditsInv, EditsType, WorkSound, ExtensionSound, FormSound
  <1>10. ASSUME Activate, ikeSaw' \in BOOLEAN PROVE EditsInv'
    BY <1>0, <1>10, StartedRow, RowWritten DEF Activate
  <1>11. CASE IkeActivates
    <2>1. CASE Unstarted
      BY <1>10, <1>11, <2>1 DEF IkeActivates
    <2>2. CASE ~Unstarted
      BY <1>0, <1>11, <2>2
         DEF IkeActivates, EditsInv, EditsType, WorkSound, ExtensionSound, FormSound
    <2> QED BY <2>1, <2>2
  <1>12. CASE XrayActivates
    BY <1>0, <1>10, <1>12 DEF XrayActivates
  <1>13. CASE Export
    BY <1>0, <1>13 DEF Export, EditsInv, EditsType, WorkSound, ExtensionSound, FormSound
  <1>14. ASSUME NEW mode \in ImportMode, Import(mode) PROVE EditsInv'
    <2>1. row' \in AccountRow
      BY <1>0, <1>14 DEF Import, Restored, EditsType
    <2> QED BY <1>0, <1>14, <2>1, RowWritten DEF Import
  <1> QED BY <1>1, <1>2, <1>3, <1>4, <1>5, <1>6, <1>7, <1>8, <1>9, <1>11, <1>12,
             <1>13, <1>14 DEF EditsNext, Button

LEMMA EditsInvInit == EditsInit => EditsInv
  <1> SUFFICES ASSUME EditsInit PROVE EditsInv
    OBVIOUS
  <1>1. row \in AccountRow
    BY EditConstants DEF EditsInit, AccountRow, Date
  <1>2. EditsType
    <2>1. work \in [Admin -> Form \cup Extension \cup {NoWork}]
      BY DEF EditsInit
    <2>2. now \in 0..MaxTime
      BY EditConstants DEF EditsInit
    <2>3. ikeSaw \in BOOLEAN /\ backup \in AccountRow \cup {NoBackup}
      BY DEF EditsInit
    <2> QED BY <1>1, <2>1, <2>2, <2>3 DEF EditsType
  <1>3. WorkSound
    BY DEF EditsInit, WorkSound, ExtensionSound, FormSound, NoWork
  <1> QED BY <1>2, <1>3 DEF EditsInv

\* Types, and what open forms and running extensions may still write back.
THEOREM EditsInvariant == EditsSpec => []EditsInv
  BY EditsInvInit, EditsInvStep, PTL DEF EditsSpec

\* The row, the forms and the extensions of an account keep their types through any
\* interleaving of administrators, meters and imports (users.js, server.js).
THEOREM EditsTypeCorrect == EditsSpec => []EditsType
  <1>1. EditsInv => EditsType
    BY DEF EditsInv
  <1> QED BY <1>1, EditsInvariant, PTL

-----------------------------------------------------------------------------
(* AccountEdits: theorems *)

\* What each kind of step makes of the row.
LEMMA RowChanges ==
    ASSUME EditsInv, [EditsNext]_editVars
    PROVE  \/ row' = row
           \/ \E a \in Admin : \E f \in Edited(work[a]) : Editing(a) /\ SubmitForm(a, f)
           \/ \E a \in Admin : WriteExtend(a)
           \/ ResetActivation
           \/ row' = Started /\ row.first = NoDate
           \/ \E mode \in ImportMode : Import(mode)
  <1>1. CASE IkeActivates
    BY <1>1 DEF IkeActivates, Activate, Unstarted
  <1>2. CASE XrayActivates
    BY <1>2 DEF XrayActivates, Activate
  <1>3. ASSUME NEW a \in Admin, ReadExtend(a) PROVE row' = row
    BY <1>3 DEF ReadExtend
  <1>4. CASE Elapse \/ IkeSees \/ Export \/ UNCHANGED editVars
    BY <1>4 DEF Elapse, IkeSees, Export, editVars
  <1>5. ASSUME NEW a \in Admin, CloseForm(a) \/ \E p \in Precision : OpenForm(a, p)
        PROVE  row' = row
    BY <1>5 DEF CloseForm, OpenForm
  <1> QED BY <1>1, <1>2, <1>3, <1>4, <1>5 DEF EditsNext, Button

\* Nobody is connected for ever, as long as forms are saved in duration mode only
\* on accounts that wait for their first connection: by any interleaving of
\* forms, extensions, resets, imports and the two meters (activateOnFirstConnect
\* and sharedUsage.js:26).
THEOREM TermTheorem == ASSUME ~LateDuration PROVE EditsSpec => []TermStarts
  <1>1. EditsInit => TermsSound
    <2> SUFFICES ASSUME EditsInit PROVE TermsSound
      OBVIOUS
    <2>1. PICK e \in {NoDate, MaxTime}, d \in {NoDate, Term} :
            row = [expires |-> e, days |-> d, first |-> NoDate,
                   waiting |-> d # NoDate /\ e = NoDate]
      BY DEF EditsInit
    <2>2. row.expires = e /\ row.days = d /\ row.first = NoDate
      BY <2>1
    <2>3. row.waiting = (d # NoDate /\ e = NoDate)
      BY <2>1
    <2>4. backup = NoBackup
      BY DEF EditsInit
    <2> QED BY <2>2, <2>3, <2>4 DEF TermsSound, TermSound
  <1>2. EditsInv /\ TermsSound /\ [EditsNext]_editVars => TermsSound'
    <2> SUFFICES ASSUME EditsInv, TermsSound, [EditsNext]_editVars PROVE TermsSound'
      OBVIOUS
    <2>0. /\ row \in AccountRow /\ NoDate = -1 /\ EditsType /\ TermSound(row)
          /\ backup # NoBackup => TermSound(backup)
      BY EditConstants DEF EditsInv, EditsType, TermsSound
    <2>1. backup' # NoBackup => TermSound(backup')
      <3>1. backup' = backup \/ Export
        BY DEF EditsNext, Elapse, OpenForm, CloseForm, SubmitForm, Button, ReadExtend,
               WriteExtend, ResetActivation, IkeSees, IkeActivates,
               XrayActivates, Activate, Import, editVars
      <3> QED BY <2>0, <3>1 DEF Export
    <2>2. ASSUME NEW a \in Admin, NEW f \in Edited(work[a]), Editing(a), SubmitForm(a, f)
          PROVE  TermSound(row')
      <3>0. f \in Form
        BY <2>2, EditedForm
      <3>1. CASE f.mode = "duration"
        <4>1. row.waiting
          BY <2>2, <3>1 DEF SubmitForm
        <4>2. row'.waiting = row.waiting /\ row'.first = row.first
          BY <2>0, <2>2 DEF SubmitForm, Patch, AccountRow
        <4> QED BY <2>0, <4>1, <4>2 DEF TermSound
      <3>2. CASE f.mode # "duration"
        <4>1. row'.waiting = row.waiting /\ row'.first = row.first /\ row'.days = NoDate
          BY <2>0, <2>2, <3>2 DEF SubmitForm, Patch, AccountRow, Sent
        <4> QED BY <2>0, <4>1 DEF TermSound
      <3> QED BY <3>1, <3>2
    <2>3. ASSUME NEW a \in Admin, WriteExtend(a) PROVE TermSound(row')
      <3>1. work[a].value \in Nat
        BY <2>0, <2>3, WorkTypes DEF WriteExtend, Extension
      <3>2. row'.expires = work[a].value /\ row'.waiting = FALSE
        BY <2>0, <2>3 DEF WriteExtend, AccountRow
      <3> QED BY <2>0, <3>1, <3>2 DEF TermSound
    <2>4. ASSUME ResetActivation PROVE TermSound(row')
      <3>1. row'.waiting = TRUE /\ row'.first = NoDate
        BY <2>0, <2>4 DEF ResetActivation, AccountRow
      <3> QED BY <3>1 DEF TermSound
    <2>5. ASSUME row' = Started PROVE TermSound(row')
      <3>1. /\ row'.waiting = FALSE /\ row'.days = row.days
            /\ row'.expires = IF row.expires = NoDate /\ row.days # NoDate
                                THEN now + row.days ELSE row.expires
        BY <2>0, <2>5 DEF Started, AccountRow
      <3>2. row.days # NoDate => now + row.days \in Nat
        BY <2>0, EditConstants DEF AccountRow, EditsType
      <3> QED BY <2>0, <3>1, <3>2 DEF TermSound
    <2>6. ASSUME NEW mode \in ImportMode, Import(mode) PROVE TermSound(row')
      BY <2>0, <2>6 DEF Import, Restored
    <2>7. TermSound(row')
      BY <2>0, <2>2, <2>3, <2>4, <2>5, <2>6, RowChanges
    <2> QED BY <2>1, <2>7 DEF TermsSound
  <1>3. TermsSound => TermStarts
    BY DEF TermsSound, TermSound, TermStarts
  <1> QED BY <1>1, <1>2, <1>3, EditsInvariant, PTL DEF EditsSpec

\* The first connection is the first of the two meters to write it, whichever
\* read the row first (worker.js:51).
THEOREM FirstConnectionTheorem == EditsSpec => FirstConnectionStands
  <1>1. EditsInv /\ [EditsNext]_editVars =>
            (row.first # NoDate /\ row'.first # row.first =>
                ResetActivation \/ \E mode \in ImportMode : Import(mode))
    <2> SUFFICES ASSUME EditsInv, [EditsNext]_editVars, row.first # NoDate, row'.first # row.first
                 PROVE  ResetActivation \/ \E mode \in ImportMode : Import(mode)
      OBVIOUS
    <2>0. row \in AccountRow
      BY DEF EditsInv, EditsType
    <2>1. ASSUME NEW a \in Admin, WriteExtend(a) PROVE row'.first = row.first
      BY <2>0, <2>1 DEF WriteExtend, AccountRow
    <2>2. ASSUME NEW a \in Admin, NEW f \in Edited(work[a]), SubmitForm(a, f)
          PROVE  row'.first = row.first
      BY <2>0, <2>2 DEF SubmitForm, Patch, AccountRow
    <2> QED BY <2>1, <2>2, RowChanges
  <1> QED BY <1>1, EditsInvariant, PTL DEF EditsSpec, FirstConnectionStands

\* What was sold is not lost, unless somebody wrote the row after it was read: an
\* extension adds the whole term (users.js), and saving a form nobody edited adds
\* nothing and takes less than a day (UserDetailPage.tsx and UsersPage.tsx).
THEOREM SaleTheorem == EditsSpec => SaleKept
  <1> DEFINE Kept == \A a \in Admin :
        work[a] # NoWork /\ work[a].seen /\ work'[a] = NoWork =>
        /\ work[a].kind = "extend" => row'.expires >= row.expires + Term
        /\ Editing(a) /\ row' = Patch(work[a]) =>
            row'.expires <= row.expires /\ row'.expires > row.expires - Day
  <1>1. ASSUME EditsInv, [EditsNext]_editVars, NEW a \in Admin,
               work[a].kind = "extend", work[a].seen, work'[a] = NoWork
        PROVE  row'.expires >= row.expires + Term
    <2>0. row \in AccountRow /\ EditsType /\ ExtensionSound(work[a]) /\ work[a] # NoWork
      BY <1>1 DEF EditsInv, EditsType, WorkSound, NoWork
    <2>1. WriteExtend(a)
      <3>1. Outdated[a] # NoWork
        <4>1. Outdated[a].kind = work[a].kind
          BY <1>1, <2>0, OutdatedWork
        <4>2. NoWork.kind = "idle"
          BY DEF NoWork
        <4> QED BY <1>1, <4>1, <4>2
      <3>2. CASE work' = Outdated
        BY <1>1, <3>1, <3>2
      <3>3. CASE work' = work
        BY <1>1, <2>0, <3>3
      <3>4. ASSUME NEW b \in Admin, NEW f, SubmitForm(b, f) PROVE FALSE
        <4>1. b # a
          BY <1>1, <3>4 DEF SubmitForm, Editing
        <4> QED BY <1>1, <3>1, <3>4, <4>1, OutdatedWork DEF SubmitForm
      <3>5. ASSUME NEW b \in Admin, WriteExtend(b), b # a PROVE FALSE
        BY <1>1, <3>1, <3>5, OutdatedWork DEF WriteExtend
      <3>6. ASSUME NEW b \in Admin, CloseForm(b) \/ \E p \in Precision : OpenForm(b, p)
            PROVE  FALSE
        <4>1. b # a
          BY <1>1, <2>0, <3>6 DEF CloseForm, OpenForm, Editing
        <4> QED BY <1>1, <2>0, <3>6, <4>1 DEF CloseForm, OpenForm, EditsType
      <3>7. ASSUME NEW b \in Admin, ReadExtend(b) PROVE FALSE
        <4>1. b # a
          BY <2>0, <3>7 DEF ReadExtend
        <4> QED BY <1>1, <2>0, <3>7, <4>1 DEF ReadExtend, EditsType
      <3>8. CASE Elapse \/ IkeSees \/ Export \/ UNCHANGED editVars
        BY <3>3, <3>8 DEF Elapse, IkeSees, Export, editVars
      <3>9. CASE ResetActivation \/ IkeActivates \/ XrayActivates
                    \/ \E mode \in ImportMode : Import(mode)
        BY <3>2, <3>3, <3>9 DEF ResetActivation, IkeActivates, XrayActivates, Activate, Import
      <3> QED BY <1>1, <3>4, <3>5, <3>6, <3>7, <3>8, <3>9 DEF EditsNext, Button
    <2> QED BY <1>1, <2>0, <2>1 DEF WriteExtend, ExtensionSound, AccountRow
  <1>2. ASSUME EditsInv, NEW a \in Admin, Editing(a), work[a].seen, row' = Patch(work[a])
        PROVE  row'.expires <= row.expires /\ row'.expires > row.expires - Day
    <2>0. row \in AccountRow /\ work[a] \in Form /\ FormSound(work[a]) /\ row.expires \in Date
      BY <1>2, WorkTypes DEF EditsInv, EditsType, WorkSound, Editing, AccountRow
    <2>1. row'.expires = IF work[a].mode = "duration" THEN NoDate ELSE work[a].expires
      BY <1>2, <2>0 DEF Patch, Sent, AccountRow
    <2>2. row.expires \in Int
      BY <2>0, EditConstants DEF Date
    <2>3. PICK p \in Precision : work[a].expires = Shown(row.expires, p)
      BY <1>2, <2>0 DEF FormSound, Editing
    <2>4. work[a].mode = "duration" => row.expires = NoDate
      BY <1>2, <2>0 DEF FormSound, Editing
    <2>5. CASE work[a].mode = "duration"
      BY <2>1, <2>2, <2>4, <2>5, EditConstants
    <2>6. CASE work[a].mode # "duration"
      BY <2>0, <2>1, <2>3, <2>6, ShownDate
    <2> QED BY <2>5, <2>6
  <1>3. EditsInv /\ [EditsNext]_editVars => Kept
    BY <1>1, <1>2
  <1> HIDE DEF Kept
  <1>4. EditsInv /\ [EditsNext]_editVars => [Kept]_editVars
    BY <1>3
  <1>5. EditsSpec => [][Kept]_editVars
    BY <1>4, EditsInvariant, PTL DEF EditsSpec
  <1> QED BY <1>5 DEF Kept, SaleKept

-----------------------------------------------------------------------------
(* LimitEdits: the invariant *)

\* What an addition is about to write is the limit it read and the bytes added; a
\* form shows the limit it was filled from.
TaskSound(w) ==
    w # NoTask /\ w.seen =>
        /\ w.kind = "traffic" =>
            w.value = (IF quota.total = NoLimit THEN 0 ELSE quota.total) + w.amount
        /\ w.kind = "form" =>
            w.field = ShownLimit(quota.total) /\ w.unlimited = quota.unlimited

LimitInv == LimitType /\ \A a \in Editor : TaskSound(desk[a])

\* A limit is shown rounded to the nearest hundredth of a gigabyte.
LEMMA RoundedLimit ==
    ASSUME NEW t \in Nat
    PROVE  /\ Rounded(t) \in Nat
           /\ 2 * (Rounded(t) - t) \in (-Hundredth)..Hundredth
  <1>0. Hundredth \in Nat \ {0}
    BY LimitAssumption
  <1>1. Half \in Nat /\ 2 * Half <= Hundredth /\ Hundredth <= 2 * Half + 1 /\ Half < Hundredth
    BY <1>0 DEF Half
  <1> DEFINE n == t + Half
             r == n % Hundredth
  <1>2. n \in Nat /\ r \in 0..(Hundredth - 1)
    BY <1>0, <1>1
  <1>3. n >= Hundredth => r < n
    BY <1>0, <1>2
  <1>4. n < Hundredth => r = n
    BY <1>0, <1>2
  <1>5. Rounded(t) = n - r /\ n = t + Half
    BY <1>1, <1>2 DEF Rounded
  <1> HIDE DEF n, r
  <1>6. n - r \in Nat
    BY <1>0, <1>2, <1>3, <1>4
  <1>7. 2 * ((n - r) - t) \in (-Hundredth)..Hundredth
    BY <1>0, <1>1, <1>2, <1>5
  <1> QED BY <1>5, <1>6, <1>7

LEMMA LimitShown ==
    ASSUME NEW t \in Bytes
    PROVE  ShownLimit(t) \in Bytes /\ (ShownLimit(t) = NoLimit <=> t = NoLimit)
  BY RoundedLimit DEF ShownLimit, Bytes, NoLimit

\* What an editor holds.
LEMMA DeskTypes ==
    ASSUME LimitType, NEW a \in Editor
    PROVE  /\ desk[a].kind = "form" => desk[a] \in LimitForm
           /\ desk[a].kind = "traffic" => desk[a] \in Addition
           /\ desk[a].kind = "idle" => desk[a] = NoTask
  BY DEF LimitType, LimitForm, Addition, NoTask

\* Idle is neither a form nor an addition.
LEMMA KindsDiffer == \A w : w \in LimitForm \/ w \in Addition => w # NoTask
  BY DEF LimitForm, Addition, NoTask

\* The others' work after a write: all of it is of the columns as they were.
LEMMA StaleDesk ==
    ASSUME LimitType
    PROVE  /\ Stale \in [Editor -> LimitForm \cup Addition \cup {NoTask}]
           /\ \A a \in Editor : Stale[a] # NoTask => ~Stale[a].seen
           /\ \A a \in Editor : desk[a] # NoTask => Stale[a] # NoTask
  <1> SUFFICES ASSUME NEW a \in Editor
               PROVE  /\ Stale[a] \in LimitForm \cup Addition \cup {NoTask}
                      /\ Stale[a] # NoTask => ~Stale[a].seen
                      /\ desk[a] # NoTask => Stale[a] # NoTask
    BY DEF Stale
  <1>0. Stale[a] = IF desk[a] = NoTask THEN NoTask ELSE [desk[a] EXCEPT !.seen = FALSE]
    BY DEF Stale
  <1>1. desk[a] \in LimitForm \cup Addition \cup {NoTask}
    BY DEF LimitType
  <1>2. CASE desk[a] = NoTask
    BY <1>0, <1>2
  <1>3. ASSUME desk[a] # NoTask,
               desk[a] \in LimitForm \/ desk[a] \in Addition
        PROVE  /\ Stale[a] \in LimitForm \cup Addition /\ Stale[a].seen = FALSE
               /\ Stale[a] # NoTask
    <2>0. Stale[a] = [desk[a] EXCEPT !.seen = FALSE]
      BY <1>0, <1>3
    <2>1. CASE desk[a] \in LimitForm
      <3>1. Stale[a] \in LimitForm /\ Stale[a].seen = FALSE
        BY <2>0, <2>1 DEF LimitForm
      <3> QED BY <3>1, KindsDiffer
    <2>2. CASE desk[a] \in Addition
      <3>1. Stale[a] \in Addition /\ Stale[a].seen = FALSE
        BY <2>0, <2>2 DEF Addition
      <3> QED BY <3>1, KindsDiffer
    <2> QED BY <1>3, <2>1, <2>2
  <1> QED BY <1>1, <1>2, <1>3

\* A write of the columns, by one of the editors or from a file.
LEMMA QuotaWritten ==
    ASSUME LimitInv, quota' \in QuotaColumns, UNCHANGED quotaFile,
           desk' = Stale \/ \E a \in Editor : desk' = [Stale EXCEPT ![a] = NoTask]
    PROVE  LimitInv'
  <1>0. LimitType
    BY DEF LimitInv
  <1>1. \A b \in Editor : desk'[b] = Stale[b] \/ desk'[b] = NoTask
    BY <1>0, StaleDesk
  <1>2. desk' \in [Editor -> LimitForm \cup Addition \cup {NoTask}]
    BY <1>0, StaleDesk
  <1>3. \A b \in Editor : TaskSound(desk[b])'
    BY <1>0, <1>1, StaleDesk DEF TaskSound
  <1> QED BY <1>0, <1>2, <1>3 DEF LimitInv, LimitType

\* Somebody's work changes and the columns do not.
LEMMA DeskChanged ==
    ASSUME LimitInv, UNCHANGED <<quota, quotaFile>>, NEW a \in Editor,
           NEW w \in LimitForm \cup Addition \cup {NoTask},
           desk' = [desk EXCEPT ![a] = w], TaskSound(w)
    PROVE  LimitInv'
  <1>1. LimitType'
    BY DEF LimitInv, LimitType
  <1>2. ASSUME NEW b \in Editor PROVE TaskSound(desk[b])'
    <2>1. desk'[b] = w \/ desk'[b] = desk[b]
      BY DEF LimitInv, LimitType
    <2>2. TaskSound(desk'[b])
      BY <2>1 DEF LimitInv
    <2> QED BY <2>2 DEF TaskSound
  <1> QED BY <1>1, <1>2 DEF LimitInv

\* A form, edited or not, sends columns.
LEMMA SentColumns ==
    ASSUME LimitType, NEW a \in Editor, desk[a].kind = "form", NEW f \in LimitEdited(desk[a])
    PROVE  LimitSent(f) \in QuotaColumns
  <1>1. desk[a] \in LimitForm /\ NoLimit \in Bytes /\ 0 \in Bytes /\ MaxBytes \in Bytes
    BY DeskTypes, LimitAssumption DEF Bytes
  <1>2. f \in LimitForm
    BY <1>1 DEF LimitEdited, LimitTyped, LimitForm
  <1> QED BY <1>1, <1>2 DEF LimitSent, LimitForm, QuotaColumns

LEMMA LimitInvStep == LimitInv /\ [LimitNext]_limitVars => LimitInv'
  <1> SUFFICES ASSUME LimitInv, [LimitNext]_limitVars PROVE LimitInv'
    OBVIOUS
  <1>0. LimitType /\ quota \in QuotaColumns
    BY DEF LimitInv, LimitType
  <1>1. CASE UNCHANGED limitVars
    BY <1>1 DEF limitVars, LimitInv, LimitType, TaskSound
  <1>2. ASSUME NEW a \in Editor, OpenLimits(a) PROVE LimitInv'
    <2>1. FilledLimit \in LimitForm /\ TaskSound(FilledLimit)
      BY <1>0, LimitShown DEF FilledLimit, LimitForm, QuotaColumns, TaskSound
    <2> QED BY <1>2, <2>1, DeskChanged DEF OpenLimits
  <1>3. ASSUME NEW a \in Editor, CloseLimits(a) PROVE LimitInv'
    BY <1>3, DeskChanged DEF CloseLimits, TaskSound
  <1>4. ASSUME NEW a \in Editor, NEW f \in LimitEdited(desk[a]), SubmitLimits(a, f)
        PROVE  LimitInv'
    <2>1. LimitSent(f) \in QuotaColumns
      BY <1>0, <1>4, SentColumns DEF SubmitLimits
    <2> QED BY <1>4, <2>1, QuotaWritten DEF SubmitLimits
  <1>5. ASSUME NEW a \in Editor, NEW n \in 1..MaxBytes, ReadTraffic(a, n) PROVE LimitInv'
    <2> DEFINE w == [kind |-> "traffic", value |-> Increased(n), amount |-> n, seen |-> TRUE]
    <2>1. n \in Nat /\ Increased(n) \in Nat
      BY <1>0, LimitAssumption DEF Increased, QuotaColumns, Bytes
    <2>2. w \in Addition /\ TaskSound(w)
      BY <2>1 DEF Addition, TaskSound, Increased
    <2>3. desk' = [desk EXCEPT ![a] = w] /\ UNCHANGED <<quota, quotaFile>>
      BY <1>5 DEF ReadTraffic
    <2> HIDE DEF w
    <2> QED BY <2>2, <2>3, DeskChanged
  <1>6. ASSUME NEW a \in Editor, WriteTraffic(a) PROVE LimitInv'
    <2>1. desk[a].value \in Bytes
      BY <1>0, <1>6, DeskTypes DEF WriteTraffic, Addition, Bytes
    <2>2. quota' = [quota EXCEPT !.total = desk[a].value]
      BY <1>6 DEF WriteTraffic
    <2>3. quota' \in QuotaColumns
      BY <1>0, <2>1, <2>2 DEF QuotaColumns
    <2> QED BY <1>6, <2>3, QuotaWritten DEF WriteTraffic
  <1>7. CASE ExportLimits
    BY <1>0, <1>7 DEF ExportLimits, LimitInv, LimitType, TaskSound
  <1>8. CASE ImportLimits
    <2>1. quota' \in QuotaColumns
      BY <1>0, <1>8 DEF ImportLimits, LimitType
    <2> QED BY <1>8, <2>1, QuotaWritten DEF ImportLimits
  <1> QED BY <1>1, <1>2, <1>3, <1>4, <1>5, <1>6, <1>7, <1>8 DEF LimitNext

LEMMA LimitInvInit == LimitInit => LimitInv
  <1> SUFFICES ASSUME LimitInit PROVE LimitInv
    OBVIOUS
  <1>1. quota \in QuotaColumns
    <2>1. PICK u \in BOOLEAN, t \in {NoLimit, 0, MaxBytes} :
            quota = LimitSent([field |-> t, unlimited |-> u])
      BY DEF LimitInit
    <2> QED BY <2>1, LimitAssumption DEF LimitSent, QuotaColumns, Bytes
  <1>2. LimitType
    BY <1>1 DEF LimitInit, LimitType
  <1> QED BY <1>2 DEF LimitInit, LimitInv, TaskSound

\* What open forms and additions hold while nobody has written the columns since.
THEOREM LimitInvariant == LimitSpec => []LimitInv
  BY LimitInvInit, LimitInvStep, PTL DEF LimitSpec

\* The columns of the limit, the forms and the additions in progress keep their
\* types through any interleaving of editors and imports (users.js, server.js).
THEOREM LimitTypeCorrect == LimitSpec => []LimitType
  <1>1. LimitInv => LimitType
    BY DEF LimitInv
  <1> QED BY <1>1, LimitInvariant, PTL

-----------------------------------------------------------------------------
(* LimitEdits: the theorem *)

\* Unless somebody wrote the columns after they were read, an addition is added in
\* full, and a form nobody edited moves a limit by at most half a hundredth of a
\* gigabyte, keeping limited accounts limited and the others not (format.ts,
\* users.js).
THEOREM LimitTheorem == LimitSpec => LimitStands
  <1> DEFINE Stands == \A a \in Editor :
        desk[a] # NoTask /\ desk[a].seen /\ desk'[a] = NoTask =>
        /\ desk[a].kind = "traffic" /\ Limited(quota) =>
            Limited(quota') /\ quota'.total >= quota.total + desk[a].amount
        /\ desk[a].kind = "form" /\ quota' = LimitSent(desk[a]) =>
            /\ Limited(quota') = Limited(quota)
            /\ Limited(quota) =>
                2 * (quota'.total - quota.total) \in (-Hundredth)..Hundredth
  <1>1. ASSUME LimitInv, [LimitNext]_limitVars, NEW a \in Editor, desk[a].kind = "traffic",
               desk[a].seen, desk'[a] = NoTask, Limited(quota)
        PROVE  Limited(quota') /\ quota'.total >= quota.total + desk[a].amount
    <2>0. /\ LimitType /\ quota \in QuotaColumns /\ TaskSound(desk[a])
          /\ desk[a] \in Addition /\ desk[a] # NoTask
      BY <1>1, DeskTypes DEF LimitInv, LimitType, NoTask
    <2>1. Stale[a] # NoTask
      BY <2>0, StaleDesk
    <2>2. WriteTraffic(a)
      <3>1. CASE UNCHANGED limitVars
        BY <1>1, <2>0, <3>1 DEF limitVars
      <3>2. ASSUME NEW b \in Editor, OpenLimits(b) \/ CloseLimits(b) PROVE FALSE
        <4>1. b # a
          BY <1>1, <3>2 DEF OpenLimits, CloseLimits
        <4> QED BY <1>1, <2>0, <3>2, <4>1 DEF OpenLimits, CloseLimits, LimitType
      <3>3. ASSUME NEW b \in Editor, NEW f, SubmitLimits(b, f) PROVE FALSE
        <4>1. b # a
          BY <1>1, <3>3 DEF SubmitLimits
        <4> QED BY <1>1, <2>0, <2>1, <3>3, <4>1, StaleDesk DEF SubmitLimits
      <3>4. ASSUME NEW b \in Editor, NEW n, ReadTraffic(b, n) PROVE FALSE
        <4>1. b # a
          BY <2>0, <3>4 DEF ReadTraffic
        <4> QED BY <1>1, <2>0, <3>4, <4>1 DEF ReadTraffic, LimitType
      <3>5. ASSUME NEW b \in Editor, WriteTraffic(b), b # a PROVE FALSE
        BY <1>1, <2>0, <2>1, <3>5, StaleDesk DEF WriteTraffic
      <3>6. CASE ExportLimits \/ ImportLimits
        BY <1>1, <2>0, <2>1, <3>6 DEF ExportLimits, ImportLimits
      <3> QED BY <1>1, <3>1, <3>2, <3>3, <3>4, <3>5, <3>6 DEF LimitNext
    <2>3. /\ quota.total \in Nat /\ quota.total # NoLimit /\ ~quota.unlimited
          /\ desk[a].value = quota.total + desk[a].amount /\ desk[a].amount \in Nat
      BY <1>1, <2>0 DEF Limited, QuotaColumns, Bytes, NoLimit, TaskSound, Addition
    <2>4. quota'.total = desk[a].value /\ quota'.unlimited = quota.unlimited
      BY <2>0, <2>2 DEF WriteTraffic, QuotaColumns
    <2> QED BY <2>3, <2>4 DEF Limited, NoLimit
  <1>2. ASSUME LimitInv, NEW a \in Editor, desk[a].kind = "form", desk[a].seen,
               quota' = LimitSent(desk[a])
        PROVE  /\ Limited(quota') = Limited(quota)
               /\ Limited(quota) =>
                    2 * (quota'.total - quota.total) \in (-Hundredth)..Hundredth
    <2>0. /\ quota \in QuotaColumns /\ quota.total \in Bytes /\ quota.unlimited \in BOOLEAN
          /\ desk[a].field = ShownLimit(quota.total) /\ desk[a].unlimited = quota.unlimited
      BY <1>2, DeskTypes DEF LimitInv, LimitType, TaskSound, QuotaColumns, NoTask
    <2>1. /\ quota'.total = IF quota.unlimited THEN NoLimit ELSE ShownLimit(quota.total)
          /\ quota'.unlimited = quota.unlimited
      BY <1>2, <2>0 DEF LimitSent
    <2>2. Limited(quota') = Limited(quota)
      BY <2>0, <2>1, LimitShown DEF Limited
    <2>3. ASSUME Limited(quota)
          PROVE  2 * (quota'.total - quota.total) \in (-Hundredth)..Hundredth
      <3>1. quota.total \in Nat /\ quota.total # NoLimit /\ ~quota.unlimited
        BY <2>0, <2>3 DEF Limited, Bytes
      <3>2. quota'.total = Rounded(quota.total)
        BY <2>1, <3>1 DEF ShownLimit
      <3> QED BY <3>1, <3>2, RoundedLimit
    <2> QED BY <2>2, <2>3
  <1>3. LimitInv /\ [LimitNext]_limitVars => Stands
    BY <1>1, <1>2
  <1> HIDE DEF Stands
  <1>4. LimitInv /\ [LimitNext]_limitVars => [Stands]_limitVars
    BY <1>3
  <1>5. LimitSpec => [][Stands]_limitVars
    BY <1>4, LimitInvariant, PTL DEF LimitSpec
  <1> QED BY <1>5 DEF Stands, LimitStands

-----------------------------------------------------------------------------
(* Provisioning: requests and the chain *)

KeyRequest ==
    [kind : {"create", "reset"}, who : Account, with : Secret, at : {"sync", "done", "failed"}]
Removal == [kind : {"delete"}, left : SUBSET Account, at : Account \cup {"next"}]

LEMMA ProvisioningConstants ==
    /\ MaxSecret \in Nat /\ MaxSession \in Nat /\ MaxChain \in Nat
    /\ "nobody" \notin Account /\ "next" \notin Account
  BY ProvisioningAssumption

LEMMA RequestTypes ==
    ASSUME ProvisioningType, NEW a \in Operator
    PROVE  /\ request[a] \in KeyRequest \cup Removal \cup {NoRequest}
           /\ request[a].kind \in {"create", "reset"} => request[a] \in KeyRequest
           /\ request[a].kind = "delete" => request[a] \in Removal
           /\ request[a].kind = "idle" <=> request[a] = NoRequest
  <1>1. request[a] \in KeyRequest \cup Removal \cup {NoRequest}
    BY DEF ProvisioningType, Request, KeyRequest, Removal
  <1> QED BY <1>1 DEF KeyRequest, Removal, NoRequest

\* A job behind the others.
LEMMA QueuedChain ==
    ASSUME chain \in Seq(SUBSET Operator), NEW w \in SUBSET Operator
    PROVE  /\ Queued(w) \in Seq(SUBSET Operator) /\ Len(Queued(w)) = Len(chain) + 1
           /\ Queued(w) # <<>> /\ Len(chain) \in Nat
           /\ \A i \in 1..Len(chain) : Queued(w)[i] = chain[i]
           /\ Queued(w)[Len(chain) + 1] = w
           /\ chain # <<>> => Head(Queued(w)) = Head(chain) /\ Len(chain) > 0
           /\ Head(Queued(w)) = Queued(w)[1]
  BY DEF Queued

LEMMA NonemptyChain ==
    ASSUME NEW c \in Seq(SUBSET Operator)
    PROVE  c # <<>> <=> Len(c) > 0
  OBVIOUS

\* The job that settles leaves.
LEMMA SettledChain ==
    ASSUME chain \in Seq(SUBSET Operator), chain # <<>>
    PROVE  /\ Tail(chain) \in Seq(SUBSET Operator) /\ Len(Tail(chain)) = Len(chain) - 1
           /\ Head(chain) = chain[1] /\ Len(chain) \in Nat /\ Len(chain) > 0
           /\ \A i \in 1..Len(Tail(chain)) : Tail(chain)[i] = chain[i + 1] /\ i + 1 \in 1..Len(chain)
           /\ Len(chain) > 1 => Tail(chain) # <<>>
  <1>1. /\ Tail(chain) \in Seq(SUBSET Operator) /\ Len(Tail(chain)) = Len(chain) - 1
        /\ Head(chain) = chain[1] /\ Len(chain) \in Nat /\ Len(chain) > 0
    OBVIOUS
  <1>2. \A i \in 1..Len(Tail(chain)) : Tail(chain)[i] = chain[i + 1] /\ i + 1 \in 1..Len(chain)
    BY <1>1
  <1>3. Len(chain) > 1 => Tail(chain) # <<>>
    <2>1. Tail(chain) # <<>> <=> Len(Tail(chain)) > 0
      BY <1>1, NonemptyChain
    <2> QED BY <1>1, <2>1
  <1> QED BY <1>1, <1>2, <1>3

\* Somebody stops waiting.
LEMMA LeftChain ==
    ASSUME chain \in Seq(SUBSET Operator), NEW a
    PROVE  LET c == [j \in 1..Len(chain) |-> chain[j] \ {a}] IN
           /\ c \in Seq(SUBSET Operator) /\ Len(c) = Len(chain) /\ Len(chain) \in Nat
           /\ \A i \in 1..Len(chain) : c[i] = chain[i] \ {a}
           /\ chain # <<>> <=> Len(chain) > 0
           /\ c # <<>> <=> Len(chain) > 0
           /\ chain # <<>> => Head(c) = Head(chain) \ {a}
  <1> DEFINE c == [j \in 1..Len(chain) |-> chain[j] \ {a}]
  <1>1. Len(chain) \in Nat /\ \A j \in 1..Len(chain) : chain[j] \in SUBSET Operator
    OBVIOUS
  <1>2. c \in Seq(SUBSET Operator) /\ Len(c) = Len(chain)
    BY <1>1
  <1>3. \A i \in 1..Len(chain) : c[i] = chain[i] \ {a}
    OBVIOUS
  <1>4. chain # <<>> <=> Len(chain) > 0
    OBVIOUS
  <1> HIDE DEF c
  <1>5. c # <<>> <=> Len(chain) > 0
    BY <1>2
  <1>6. chain # <<>> => Head(c) = Head(chain) \ {a}
    BY <1>2, <1>3, <1>4, <1>5
  <1> QED BY <1>1, <1>2, <1>3, <1>4, <1>5, <1>6 DEF c

LEMMA HeadInChain ==
    ASSUME chain \in Seq(SUBSET Operator), chain # <<>>
    PROVE  Head(chain) = chain[1] /\ 1 \in 1..Len(chain) /\ Head(chain) \subseteq Operator
  OBVIOUS

\* Requests after a job has settled with `outcome': those of its waiters.
LEMMA SettledRequests ==
    ASSUME ProvisioningType, OneWait, chain # <<>>,
           NEW outcome \in {"done", "failed"}, Settle(outcome)
    PROVE  /\ chain' \in Seq(SUBSET Operator) /\ Len(chain') <= MaxChain /\ step' = "idle"
           /\ request' \in [Operator -> Request \cup {NoRequest}]
           /\ \A a \in Operator :
                IF a \in Head(chain)
                  THEN /\ request[a] \in KeyRequest /\ request'[a] \in KeyRequest
                       /\ request'[a].kind = request[a].kind /\ request'[a].who = request[a].who
                       /\ request'[a].with = request[a].with /\ request'[a].at = outcome
                  ELSE request'[a] = request[a]
  <1>0. /\ chain \in Seq(SUBSET Operator) /\ Len(chain) <= MaxChain
        /\ request \in [Operator -> Request \cup {NoRequest}]
    BY DEF ProvisioningType
  <1>1. \A a \in Operator : a \in Head(chain) => Waiting(a) /\ request[a] \in KeyRequest
    BY <1>0, HeadInChain, RequestTypes DEF OneWait, Waiting
  <1>2. ASSUME NEW a \in Operator
        PROVE  IF a \in Head(chain)
                  THEN /\ request[a] \in KeyRequest /\ request'[a] \in KeyRequest
                       /\ request'[a].kind = request[a].kind /\ request'[a].who = request[a].who
                       /\ request'[a].with = request[a].with /\ request'[a].at = outcome
                  ELSE request'[a] = request[a]
    <2>1. CASE a \in Head(chain)
      <3>1. request[a] \in KeyRequest /\ request'[a] = [request[a] EXCEPT !.at = outcome]
        BY <1>1, <2>1 DEF Settle
      <3> QED BY <2>1, <3>1 DEF KeyRequest
    <2>2. CASE a \notin Head(chain)
      BY <2>2 DEF Settle
    <2> QED BY <2>1, <2>2
  <1>3. \A a \in Operator : request'[a] \in Request \cup {NoRequest}
    BY <1>0, <1>2 DEF KeyRequest, Request
  <1>4. request' \in [Operator -> Request \cup {NoRequest}]
    BY <1>3 DEF Settle
  <1>5. chain' \in Seq(SUBSET Operator) /\ Len(chain') <= MaxChain /\ step' = "idle"
    BY <1>0, SettledChain, ProvisioningConstants DEF Settle
  <1> QED BY <1>2, <1>4, <1>5

\* Sessions are told to close.
LEMMA CutSessions ==
    ASSUME ProvisioningType, NEW S \in SUBSET SessionId, Cut(S)
    PROVE  /\ session' \in [SessionId -> [who : Account, with : Secret] \cup {Nowhere}]
           /\ missed' \subseteq SessionId /\ listed' = listed
           /\ \A s \in SessionId : session'[s] = Nowhere \/ session'[s] = session[s]
           /\ \A s \in S : session'[s] = Nowhere \/ s \in missed'
  BY DEF ProvisioningType, Cut

LEMMA ListedIds ==
    ASSUME ProvisioningType, NEW u \in Account
    PROVE  Listed(u) \in SUBSET SessionId
  BY DEF ProvisioningType, Listed

-----------------------------------------------------------------------------
(* Provisioning: type correctness *)

LEMMA ProvisioningTypeStep ==
    ASSUME ProvisioningType, OneWait, [ProvisioningNext]_provisioningVars
    PROVE  ProvisioningType'
  <1> USE ProvisioningConstants
  <1>0. /\ secret \in [Account -> Secret] /\ loaded \in [Account -> Secret]
        /\ chain \in Seq(SUBSET Operator) /\ Len(chain) <= MaxChain /\ Len(chain) \in Nat
        /\ status \in [Account -> {"none", "provisioning", "active", "failed", "deleted"}]
        /\ request \in [Operator -> Request \cup {NoRequest}] /\ told \in [Account -> Secret]
        /\ listed \subseteq SessionId /\ missed \subseteq SessionId
        /\ session \in [SessionId -> [who : Account, with : Secret] \cup {Nowhere}]
    BY DEF ProvisioningType
  <1>r. ASSUME NEW a \in Operator, NEW r \in Request \cup {NoRequest},
               request' = [request EXCEPT ![a] = r]
        PROVE  request' \in [Operator -> Request \cup {NoRequest}]
    BY <1>0, <1>r
  <1>q. ASSUME NEW w \in SUBSET Operator, Room, chain' = Queued(w)
        PROVE  chain' \in Seq(SUBSET Operator) /\ Len(chain') <= MaxChain /\ chain' # <<>>
    BY <1>0, <1>q, QueuedChain DEF Room
  <1>1. CASE ReadList
    <2>1. snapshot' \in [Account -> Secret]
      BY <1>0, <1>1 DEF ReadList, Secret
    <2> QED BY <1>1, <2>1 DEF ReadList, ProvisioningType, rowVars, saVars
  <1>2. CASE Load
    BY <1>2 DEF Load, ProvisioningType, rowVars, saVars
  <1>3. CASE MarkActive
    <2>0. chain # <<>>
      BY <1>3 DEF MarkActive, ProvisioningType
    <2>1. status' \in [Account -> {"none", "provisioning", "active", "failed", "deleted"}]
      BY <1>0, <1>3 DEF MarkActive
    <2>2. /\ chain' \in Seq(SUBSET Operator) /\ Len(chain') <= MaxChain /\ step' = "idle"
          /\ request' \in [Operator -> Request \cup {NoRequest}]
      BY <1>3, <2>0, SettledRequests DEF MarkActive
    <2> QED BY <1>3, <2>1, <2>2 DEF MarkActive, ProvisioningType, saVars
  <1>4. CASE JobFails
    <2>0. chain # <<>>
      BY <1>4 DEF JobFails, ProvisioningType
    <2>1. retry' \in BOOLEAN
      BY <1>4 DEF JobFails, Retried
    <2>2. /\ chain' \in Seq(SUBSET Operator) /\ Len(chain') <= MaxChain /\ step' = "idle"
          /\ request' \in [Operator -> Request \cup {NoRequest}]
      BY <1>4, <2>0, SettledRequests DEF JobFails
    <2> QED BY <1>4, <2>1, <2>2 DEF JobFails, ProvisioningType, rowVars, saVars
  <1>5. CASE RetryJob
    BY <1>5, <1>q DEF RetryJob, ProvisioningType, rowVars, saVars
  <1>6. CASE Poll
    BY <1>6 DEF Poll, ProvisioningType, rowVars, runVars
  <1>7. ASSUME NEW a \in Operator, Timeout(a) PROVE ProvisioningType'
    <2>1. PICK j \in 1..Len(chain) : a \in chain[j]
      BY <1>7 DEF Timeout
    <2>2. Waiting(a) /\ request[a] \in KeyRequest
      BY <2>1, RequestTypes DEF OneWait, Waiting
    <2>3. [request[a] EXCEPT !.at = "failed"] \in Request
      BY <2>2 DEF KeyRequest, Request
    <2>4. request' = [request EXCEPT ![a] = [request[a] EXCEPT !.at = "failed"]]
      BY <1>0, <1>7 DEF Timeout
    <2>5. request' \in [Operator -> Request \cup {NoRequest}]
      BY <1>r, <2>3, <2>4
    <2>6. /\ chain' \in Seq(SUBSET Operator) /\ Len(chain') <= MaxChain
          /\ chain # <<>> => chain' # <<>>
      BY <1>0, <1>7, LeftChain DEF Timeout
    <2> QED BY <1>7, <2>5, <2>6 DEF Timeout, ProvisioningType, rowVars, runVars, saVars
  <1>8. ASSUME NEW a \in Operator, request' = [request EXCEPT ![a] = NoRequest]
        PROVE  request' \in [Operator -> Request \cup {NoRequest}]
    BY <1>r, <1>8
  <1>9. ASSUME NEW a \in Operator, Told(a), request[a].kind \in {"create", "reset"}
        PROVE  told' \in [Account -> Secret]
    <2>1. request[a] \in KeyRequest
      BY <1>9, RequestTypes
    <2> QED BY <1>0, <1>9, <2>1 DEF Told, KeyRequest
  <1>10. ASSUME NEW a \in Operator, EndCreate(a) PROVE ProvisioningType'
    <2>1. told' \in [Account -> Secret]
      BY <1>0, <1>9, <1>10 DEF EndCreate
    <2>2. status' \in [Account -> {"none", "provisioning", "active", "failed", "deleted"}]
      BY <1>0, <1>10 DEF EndCreate
    <2> QED BY <1>8, <1>10, <2>1, <2>2 DEF EndCreate, ProvisioningType, runVars, saVars
  <1>11. ASSUME NEW a \in Operator, EndReset(a) PROVE ProvisioningType'
    <2>1. told' \in [Account -> Secret]
      BY <1>9, <1>11 DEF EndReset
    <2>2. Disconnected(request[a].who) \in SUBSET SessionId
      BY <1>0 DEF Disconnected, Listed
    <2>3. /\ session' \in [SessionId -> [who : Account, with : Secret] \cup {Nowhere}]
          /\ missed' \subseteq SessionId /\ listed' = listed
      BY <1>11, <2>2, CutSessions DEF EndReset
    <2> QED BY <1>8, <1>11, <2>1, <2>3 DEF EndReset, ProvisioningType, rowVars, runVars
  <1>12. ASSUME NEW a \in Operator, ResetFails(a) PROVE ProvisioningType'
    BY <1>8, <1>12, <1>q DEF ResetFails, ProvisioningType, rowVars, runVars, saVars
  <1>13. ASSUME NEW a \in Operator, NEW kind \in {"create", "reset"}, NEW u \in Account,
                NEW new \in {"none", "provisioning", "active", "failed", "deleted"},
                Commit(a, kind, u, new)
         PROVE  ProvisioningType'
    <2>1. secret[u] + 1 \in Secret
      BY <1>0, <1>13 DEF Commit, Secret
    <2>2. [kind |-> kind, who |-> u, with |-> secret[u] + 1, at |-> "sync"] \in Request
      BY <2>1 DEF Request
    <2>3. request' \in [Operator -> Request \cup {NoRequest}]
      BY <1>13, <1>r, <2>2 DEF Commit
    <2>4. secret' \in [Account -> Secret]
      BY <1>0, <1>13, <2>1 DEF Commit
    <2>5. status' \in [Account -> {"none", "provisioning", "active", "failed", "deleted"}]
      BY <1>0, <1>13 DEF Commit
    <2>6. chain' \in Seq(SUBSET Operator) /\ Len(chain') <= MaxChain /\ chain' # <<>>
      BY <1>13, <1>q DEF Commit
    <2> QED BY <1>13, <2>3, <2>4, <2>5, <2>6 DEF Commit, ProvisioningType, runVars, saVars
  <1>14. ASSUME NEW a \in Operator, NEW u \in Account, Create(a, u) \/ ResetPassword(a, u)
         PROVE  ProvisioningType'
    BY <1>0, <1>13, <1>14 DEF Create, ResetPassword
  <1>15. ASSUME NEW a \in Operator, NEW ids \in SUBSET Account, Delete(a, ids)
         PROVE  ProvisioningType'
    <2>1. [kind |-> "delete", left |-> ids, at |-> "next"] \in Request
      BY DEF Request
    <2> QED BY <1>15, <1>r, <2>1 DEF Delete, ProvisioningType, rowVars, runVars, saVars
  <1>16. ASSUME NEW a \in Operator, NEW u \in Account, DeleteNext(a, u) PROVE ProvisioningType'
    <2>1. request[a] \in Removal
      BY <1>16, RequestTypes DEF DeleteNext
    <2> DEFINE r == [request[a] EXCEPT !.left = @ \ {u}, !.at = IF Exists(u) THEN u ELSE @]
    <2>2. r \in Request
      BY <2>1 DEF Removal, Request
    <2>3. request' = [request EXCEPT ![a] = r]
      BY <1>0, <1>16, <2>1 DEF DeleteNext, Removal
    <2> HIDE DEF r
    <2>4. request' \in [Operator -> Request \cup {NoRequest}]
      BY <1>r, <2>2, <2>3
    <2>5. /\ session' \in [SessionId -> [who : Account, with : Secret] \cup {Nowhere}]
          /\ missed' \subseteq SessionId /\ listed' \subseteq SessionId
      BY <1>0, <1>16, CutSessions, ListedIds DEF DeleteNext, saVars
    <2> QED BY <1>16, <2>4, <2>5 DEF DeleteNext, ProvisioningType, rowVars, runVars
  <1>17. ASSUME NEW a \in Operator, DeleteRow(a) PROVE ProvisioningType'
    <2>1. request[a] \in Removal
      BY <1>17, RequestTypes DEF DeleteRow
    <2>2. [request[a] EXCEPT !.at = "next"] \in Request
      BY <2>1 DEF Removal, Request
    <2>3. request' = [request EXCEPT ![a] = [request[a] EXCEPT !.at = "next"]]
      BY <1>0, <1>17 DEF DeleteRow
    <2>4. request' \in [Operator -> Request \cup {NoRequest}]
      BY <1>r, <2>2, <2>3
    <2>5. chain' \in Seq(SUBSET Operator) /\ Len(chain') <= MaxChain /\ chain' # <<>>
      BY <1>17, <1>q DEF DeleteRow
    <2>6. status' \in [Account -> {"none", "provisioning", "active", "failed", "deleted"}]
      BY <1>0, <1>17 DEF DeleteRow
    <2> QED BY <1>17, <2>4, <2>5, <2>6 DEF DeleteRow, ProvisioningType, runVars, saVars
  <1>18. ASSUME NEW a \in Operator, EndDelete(a) PROVE ProvisioningType'
    BY <1>8, <1>18 DEF EndDelete, ProvisioningType, rowVars, runVars, saVars
  <1>19. ASSUME NEW S \in SUBSET listed, DisconnectListed(S) PROVE ProvisioningType'
    <2>1. {s \in S : session[s] # Nowhere} \in SUBSET SessionId
      BY <1>0
    <2>2. /\ session' \in [SessionId -> [who : Account, with : Secret] \cup {Nowhere}]
          /\ missed' \subseteq SessionId /\ listed' = listed
      BY <1>19, <2>1, CutSessions DEF DisconnectListed
    <2> QED BY <1>19, <2>2 DEF DisconnectListed, ProvisioningType, rowVars, runVars
  <1>20. ASSUME NEW u \in Account, NEW s \in SessionId, Connect(u, s) PROVE ProvisioningType'
    <2>1. [who |-> u, with |-> loaded[u]] \in [who : Account, with : Secret]
      BY <1>0
    <2>2. session' \in [SessionId -> [who : Account, with : Secret] \cup {Nowhere}]
      BY <1>0, <1>20, <2>1 DEF Connect
    <2> QED BY <1>20, <2>2 DEF Connect, ProvisioningType, rowVars, runVars
  <1>21. CASE UNCHANGED provisioningVars
    BY <1>21 DEF ProvisioningType, provisioningVars
  <1> QED BY <1>1, <1>2, <1>3, <1>4, <1>5, <1>6, <1>7, <1>10, <1>11, <1>12, <1>14, <1>15, <1>16,
             <1>17, <1>18, <1>19, <1>20, <1>21 DEF ProvisioningNext

-----------------------------------------------------------------------------
(* Provisioning: what a step does to the rows, the requests and the chain *)

\* A row is created once and deleted once, and the rest leaves it in existence.
LEMMA StatusChanges ==
    ASSUME ProvisioningType, [ProvisioningNext]_provisioningVars, NEW u \in Account
    PROVE  \/ status'[u] = status[u]
           \/ Exists(u) /\ status'[u] \in {"active", "failed"}
           \/ status[u] = "none" /\ status'[u] = "provisioning" /\ \E a \in Operator : Create(a, u)
           \/ status'[u] = "deleted" /\ chain' = Queued({}) /\ secret' = secret
  <1> DEFINE Changes ==
           \/ status'[u] = status[u]
           \/ Exists(u) /\ status'[u] \in {"active", "failed"}
           \/ status[u] = "none" /\ status'[u] = "provisioning" /\ \E a \in Operator : Create(a, u)
           \/ status'[u] = "deleted" /\ chain' = Queued({}) /\ secret' = secret
  <1> SUFFICES Changes
    OBVIOUS
  <1>0. status \in [Account -> {"none", "provisioning", "active", "failed", "deleted"}]
    BY DEF ProvisioningType
  <1>1. CASE UNCHANGED status
    BY <1>1
  <1>2. CASE ReadList \/ Load \/ JobFails \/ RetryJob \/ Poll \/ UNCHANGED provisioningVars
    <2>1. UNCHANGED status
      BY <1>2 DEF ReadList, Load, JobFails, RetryJob, Poll, rowVars, provisioningVars
    <2> QED BY <1>1, <2>1
  <1>3. CASE MarkActive
    BY <1>0, <1>3 DEF MarkActive, Exists
  <1>4. ASSUME NEW a \in Operator, EndCreate(a) PROVE Changes
    BY <1>0, <1>4 DEF EndCreate, Exists
  <1>5. ASSUME NEW a \in Operator,
               Timeout(a) \/ EndReset(a) \/ ResetFails(a) \/ EndDelete(a)
                  \/ \E v \in Account : DeleteNext(a, v)
                  \/ \E ids \in SUBSET Account : Delete(a, ids)
        PROVE  UNCHANGED status
    BY <1>5 DEF Timeout, EndReset, ResetFails, EndDelete, DeleteNext, Delete, rowVars
  <1>6. ASSUME NEW a \in Operator, NEW v \in Account, Create(a, v) PROVE Changes
    BY <1>0, <1>6 DEF Create, Commit
  <1>7. ASSUME NEW a \in Operator, NEW v \in Account, ResetPassword(a, v) PROVE Changes
    BY <1>0, <1>7 DEF ResetPassword, Commit
  <1>8. ASSUME NEW a \in Operator, DeleteRow(a) PROVE Changes
    BY <1>0, <1>8 DEF DeleteRow
  <1>9. ASSUME NEW S \in SUBSET listed, DisconnectListed(S) PROVE UNCHANGED status
    BY <1>9 DEF DisconnectListed, rowVars
  <1>10. ASSUME NEW v \in Account, NEW s \in SessionId, Connect(v, s) PROVE UNCHANGED status
    BY <1>10 DEF Connect, rowVars
  <1> HIDE DEF Changes
  <1> QED BY <1>1, <1>2, <1>3, <1>4, <1>5, <1>6, <1>7, <1>8, <1>9, <1>10 DEF ProvisioningNext

\* What somebody's request can become in a step.
LEMMA RequestChanges ==
    ASSUME ProvisioningType, OneWait, [ProvisioningNext]_provisioningVars, NEW a \in Operator
    PROVE  \/ request'[a] = request[a]
           \/ /\ request'[a].kind \in {"idle", "delete"} /\ ~Waiting(a)
              /\ request[a].kind = "create" => EndCreate(a)
           \/ /\ \E u \in Account : Create(a, u) \/ ResetPassword(a, u)
              /\ request[a] = NoRequest
              /\ request'[a].kind \in {"create", "reset"} /\ request'[a].at = "sync"
              /\ chain' = Queued({a})
           \/ /\ Timeout(a) /\ Waiting(a)
              /\ request'[a] = [request[a] EXCEPT !.at = "failed"] /\ request[a] \in KeyRequest
           \/ /\ chain # <<>> /\ a \in Head(chain) /\ Waiting(a) /\ request[a] \in KeyRequest
              /\ \E outcome \in {"done", "failed"} :
                    /\ request'[a] = [request[a] EXCEPT !.at = outcome]
                    /\ IF outcome = "done" THEN MarkActive ELSE JobFails
  <1> DEFINE Changes ==
           \/ request'[a] = request[a]
           \/ /\ request'[a].kind \in {"idle", "delete"} /\ ~Waiting(a)
              /\ request[a].kind = "create" => EndCreate(a)
           \/ /\ \E u \in Account : Create(a, u) \/ ResetPassword(a, u)
              /\ request[a] = NoRequest
              /\ request'[a].kind \in {"create", "reset"} /\ request'[a].at = "sync"
              /\ chain' = Queued({a})
           \/ /\ Timeout(a) /\ Waiting(a)
              /\ request'[a] = [request[a] EXCEPT !.at = "failed"] /\ request[a] \in KeyRequest
           \/ /\ chain # <<>> /\ a \in Head(chain) /\ Waiting(a) /\ request[a] \in KeyRequest
              /\ \E outcome \in {"done", "failed"} :
                    /\ request'[a] = [request[a] EXCEPT !.at = outcome]
                    /\ IF outcome = "done" THEN MarkActive ELSE JobFails
  <1> SUFFICES Changes
    OBVIOUS
  <1>0. /\ request \in [Operator -> Request \cup {NoRequest}]
        /\ NoRequest.kind = "idle"
    BY DEF ProvisioningType, NoRequest
  <1>1. CASE UNCHANGED request
    BY <1>1
  <1>2. CASE ReadList \/ Load \/ RetryJob \/ Poll \/ UNCHANGED provisioningVars
    <2>1. UNCHANGED request
      BY <1>2 DEF ReadList, Load, RetryJob, Poll, provisioningVars
    <2> QED BY <1>1, <2>1
  <1>3. ASSUME NEW outcome \in {"done", "failed"}, Settle(outcome),
               IF outcome = "done" THEN MarkActive ELSE JobFails, chain # <<>>
        PROVE  Changes
    <2>1. CASE a \in Head(chain)
      <3>1. Waiting(a) /\ request[a] \in KeyRequest
        BY <1>3, <2>1, HeadInChain, RequestTypes DEF OneWait, Waiting, ProvisioningType
      <3> QED BY <1>3, <2>1, <3>1 DEF Settle
    <2>2. CASE a \notin Head(chain)
      BY <1>3, <2>2 DEF Settle
    <2> QED BY <2>1, <2>2
  <1>4. CASE MarkActive
    <2>1. Settle("done") /\ chain # <<>>
      BY <1>4 DEF MarkActive, ProvisioningType
    <2> QED BY <1>3, <1>4, <2>1
  <1>5. CASE JobFails
    <2>1. Settle("failed") /\ chain # <<>>
      BY <1>5 DEF JobFails, ProvisioningType
    <2> QED BY <1>3, <1>5, <2>1
  <1>6. ASSUME NEW b \in Operator, Timeout(b) PROVE Changes
    <2>1. CASE b = a
      <3>1. PICK j \in 1..Len(chain) : a \in chain[j]
        BY <1>6, <2>1 DEF Timeout
      <3>2. Waiting(a) /\ request[a] \in KeyRequest
        BY <3>1, RequestTypes DEF OneWait, Waiting
      <3>3. request'[a] = [request[a] EXCEPT !.at = "failed"]
        BY <1>0, <1>6, <2>1 DEF Timeout
      <3> QED BY <1>6, <2>1, <3>2, <3>3
    <2>2. CASE b # a
      BY <1>0, <1>6, <2>2 DEF Timeout
    <2> QED BY <2>1, <2>2
  <1>7. ASSUME NEW b \in Operator, EndCreate(b) \/ EndReset(b) \/ ResetFails(b) \/ EndDelete(b)
        PROVE  Changes
    <2>1. /\ request' = [request EXCEPT ![b] = NoRequest] /\ ~Waiting(b)
          /\ request[b].kind = "create" => EndCreate(b)
      BY <1>7 DEF EndCreate, EndReset, ResetFails, EndDelete, Waiting
    <2> QED BY <1>0, <2>1
  <1>8. ASSUME NEW b \in Operator, NEW u \in Account, DeleteNext(b, u) PROVE Changes
    <2>1. CASE b = a
      <3>1. request[a].kind = "delete" /\ request[a] \in Removal
        BY <1>8, <2>1, RequestTypes DEF DeleteNext
      <3>2. request'[a].kind = "delete"
        BY <1>0, <1>8, <2>1, <3>1 DEF DeleteNext, Removal
      <3> QED BY <3>1, <3>2 DEF Waiting
    <2>2. CASE b # a
      BY <1>0, <1>8, <2>2 DEF DeleteNext
    <2> QED BY <2>1, <2>2
  <1>9. ASSUME NEW b \in Operator, DeleteRow(b) PROVE Changes
    <2>1. CASE b = a
      <3>1. request[a].kind = "delete" /\ request[a] \in Removal
        BY <1>9, <2>1, RequestTypes DEF DeleteRow
      <3>2. request'[a].kind = "delete"
        BY <1>0, <1>9, <2>1, <3>1 DEF DeleteRow, Removal
      <3> QED BY <3>1, <3>2 DEF Waiting
    <2>2. CASE b # a
      BY <1>0, <1>9, <2>2 DEF DeleteRow
    <2> QED BY <2>1, <2>2
  <1>10. ASSUME NEW b \in Operator, NEW ids \in SUBSET Account, Delete(b, ids) PROVE Changes
    BY <1>0, <1>10 DEF Delete, Waiting
  <1>11. ASSUME NEW b \in Operator, NEW kind \in {"create", "reset"}, NEW u \in Account, NEW new,
                Commit(b, kind, u, new), Create(b, u) \/ ResetPassword(b, u)
         PROVE  Changes
    BY <1>0, <1>11 DEF Commit
  <1>12. ASSUME NEW b \in Operator, NEW u \in Account, Create(b, u) \/ ResetPassword(b, u)
         PROVE  Changes
    BY <1>11, <1>12 DEF Create, ResetPassword
  <1>13. ASSUME NEW S \in SUBSET listed, DisconnectListed(S) PROVE UNCHANGED request
    BY <1>13 DEF DisconnectListed
  <1>14. ASSUME NEW u \in Account, NEW s \in SessionId, Connect(u, s) PROVE UNCHANGED request
    BY <1>14 DEF Connect
  <1> HIDE DEF Changes
  <1> QED BY <1>1, <1>2, <1>4, <1>5, <1>6, <1>7, <1>8, <1>9, <1>10, <1>12, <1>13, <1>14
          DEF ProvisioningNext

\* The chain grows at the end, loses its first job when that settles, or one of
\* those who wait.
LEMMA ChainChanges ==
    ASSUME ProvisioningType, [ProvisioningNext]_provisioningVars
    PROVE  \/ chain' = chain
           \/ chain' = Queued({}) /\ step' = step
           \/ \E a \in Operator : chain' = Queued({a}) /\ request[a] = NoRequest /\ Waiting(a)'
                /\ step' = step
           \/ chain # <<>> /\ chain' = Tail(chain) /\ step' = "idle" /\ (MarkActive \/ JobFails)
           \/ \E a \in Operator : Timeout(a) /\ step' = step
  <1> DEFINE Changes ==
           \/ chain' = chain
           \/ chain' = Queued({}) /\ step' = step
           \/ \E a \in Operator : chain' = Queued({a}) /\ request[a] = NoRequest /\ Waiting(a)'
                /\ step' = step
           \/ chain # <<>> /\ chain' = Tail(chain) /\ step' = "idle" /\ (MarkActive \/ JobFails)
           \/ \E a \in Operator : Timeout(a) /\ step' = step
  <1> SUFFICES Changes
    OBVIOUS
  <1>1. CASE ReadList \/ Load \/ Poll \/ UNCHANGED provisioningVars
    BY <1>1 DEF ReadList, Load, Poll, provisioningVars
  <1>2. CASE RetryJob
    BY <1>2 DEF RetryJob
  <1>3. CASE MarkActive \/ JobFails
    BY <1>3 DEF MarkActive, JobFails, Settle, ProvisioningType
  <1>4. ASSUME NEW a \in Operator, Timeout(a) PROVE Changes
    BY <1>4 DEF Timeout, runVars
  <1>5. ASSUME NEW a \in Operator,
               EndCreate(a) \/ EndReset(a) \/ EndDelete(a)
                  \/ (\E u \in Account : DeleteNext(a, u))
                  \/ (\E ids \in SUBSET Account : Delete(a, ids))
        PROVE  chain' = chain
    BY <1>5 DEF EndCreate, EndReset, EndDelete, DeleteNext, Delete
  <1>6. ASSUME NEW a \in Operator, ResetFails(a) \/ DeleteRow(a) PROVE Changes
    BY <1>6 DEF ResetFails, DeleteRow, runVars
  <1>7. ASSUME NEW a \in Operator, NEW u \in Account, Create(a, u) \/ ResetPassword(a, u)
        PROVE  Changes
    <2>1. request'[a].kind \in {"create", "reset"} /\ request'[a].at = "sync"
      BY <1>7 DEF Create, ResetPassword, Commit, ProvisioningType
    <2> QED BY <1>7, <2>1 DEF Create, ResetPassword, Commit, runVars, Waiting
  <1>8. ASSUME NEW S \in SUBSET listed, DisconnectListed(S) PROVE chain' = chain
    BY <1>8 DEF DisconnectListed
  <1>9. ASSUME NEW u \in Account, NEW s \in SessionId, Connect(u, s) PROVE chain' = chain
    BY <1>9 DEF Connect
  <1> QED BY <1>1, <1>2, <1>3, <1>4, <1>5, <1>6, <1>7, <1>8, <1>9 DEF ProvisioningNext

LEMMA OneWaitStep ==
    ASSUME ProvisioningType, OneWait, [ProvisioningNext]_provisioningVars
    PROVE  OneWait'
  <1>0. chain \in Seq(SUBSET Operator) /\ Len(chain) \in Nat
    BY DEF ProvisioningType
  <1>1. \A a \in Operator, i \in 1..Len(chain) : a \in chain[i] => Waiting(a)
    BY DEF OneWait
  <1>2. \A a \in Operator, i, j \in 1..Len(chain) : a \in chain[i] /\ a \in chain[j] => i = j
    BY DEF OneWait
  <1>g. SUFFICES ASSUME NEW a \in Operator
        PROVE  /\ \A i \in 1..Len(chain') : a \in chain'[i] => Waiting(a)'
               /\ \A i, j \in 1..Len(chain') : a \in chain'[i] /\ a \in chain'[j] => i = j
    BY DEF OneWait
  <1>s. ASSUME NEW i \in 1..Len(chain), a \in chain[i],
               ~Timeout(a), ~(MarkActive \/ JobFails) \/ a \notin Head(chain)
        PROVE  Waiting(a)'
    BY <1>1, <1>s, RequestChanges DEF Waiting, NoRequest
  <1>m. MarkActive \/ JobFails => chain' = Tail(chain) /\ chain # <<>>
    BY DEF MarkActive, JobFails, Settle, ProvisioningType
  <1>n. Len(chain') >= Len(chain) => ~(MarkActive \/ JobFails)
    BY <1>0, <1>m, SettledChain
  <1>t. ASSUME NEW b \in Operator, Timeout(b)
        PROVE  Len(chain') = Len(chain) /\ \A i \in 1..Len(chain) : chain'[i] = chain[i] \ {b}
    BY <1>0, <1>t, LeftChain DEF Timeout
  <1>3. CASE chain' = chain
    <2>1. ASSUME NEW i \in 1..Len(chain), a \in chain[i] PROVE Waiting(a)'
      BY <1>3, <1>s, <1>t, <1>n, <1>0, <2>1
    <2> QED BY <1>2, <1>3, <2>1
  <1>4. ASSUME NEW w \in SUBSET Operator, chain' = Queued(w),
               a \in w => request[a] = NoRequest /\ Waiting(a)'
        PROVE  /\ \A i \in 1..Len(chain') : a \in chain'[i] => Waiting(a)'
               /\ \A i, j \in 1..Len(chain') : a \in chain'[i] /\ a \in chain'[j] => i = j
    <2>1. /\ Len(chain') = Len(chain) + 1 /\ chain'[Len(chain) + 1] = w
          /\ \A i \in 1..Len(chain) : chain'[i] = chain[i]
      BY <1>0, <1>4, QueuedChain
    <2>2. ~(MarkActive \/ JobFails) /\ ~Timeout(a)
      BY <1>0, <1>n, <1>t, <2>1
    <2>3. ASSUME NEW i \in 1..Len(chain), a \in chain[i] PROVE Waiting(a)' /\ a \notin w
      BY <1>1, <1>4, <1>s, <2>2, <2>3 DEF Waiting, NoRequest
    <2>4. \A i \in 1..Len(chain') : i \in 1..Len(chain) \/ i = Len(chain) + 1
      BY <1>0, <2>1
    <2>5. \A i \in 1..Len(chain') : a \in chain'[i] => Waiting(a)'
      BY <1>4, <2>1, <2>3, <2>4
    <2>6. \A i, j \in 1..Len(chain') : a \in chain'[i] /\ a \in chain'[j] => i = j
      BY <1>2, <2>1, <2>3, <2>4
    <2> QED BY <2>5, <2>6
  <1>5. CASE chain # <<>> /\ chain' = Tail(chain)
    <2>1. /\ Len(chain') = Len(chain) - 1 /\ Head(chain) = chain[1] /\ 1 \in 1..Len(chain)
          /\ \A i \in 1..Len(chain') : chain'[i] = chain[i + 1] /\ i + 1 \in 1..Len(chain)
      BY <1>0, <1>5, SettledChain
    <2>2. ~Timeout(a)
      BY <1>0, <1>t, <2>1
    <2>3. ASSUME NEW i \in 1..Len(chain'), a \in chain'[i] PROVE Waiting(a)'
      <3>1. a \in chain[i + 1] /\ i + 1 \in 1..Len(chain) /\ i + 1 # 1
        BY <2>1, <2>3
      <3>2. a \notin Head(chain)
        BY <1>2, <2>1, <3>1
      <3> QED BY <1>s, <2>2, <3>1, <3>2
    <2>4. \A i, j \in 1..Len(chain') : a \in chain'[i] /\ a \in chain'[j] => i = j
      <3> TAKE i, j \in 1..Len(chain')
      <3> HAVE a \in chain'[i] /\ a \in chain'[j]
      <3>1. i + 1 = j + 1
        BY <1>2, <2>1
      <3> QED BY <3>1
    <2> QED BY <2>3, <2>4
  <1>6. ASSUME NEW b \in Operator, Timeout(b)
        PROVE  /\ \A i \in 1..Len(chain') : a \in chain'[i] => Waiting(a)'
               /\ \A i, j \in 1..Len(chain') : a \in chain'[i] /\ a \in chain'[j] => i = j
    <2>1. Len(chain') = Len(chain) /\ \A i \in 1..Len(chain) : chain'[i] = chain[i] \ {b}
      BY <1>6, <1>t
    <2>2. ~(MarkActive \/ JobFails)
      BY <1>0, <1>n, <2>1
    <2>3. ASSUME NEW i \in 1..Len(chain), a \in chain'[i] PROVE Waiting(a)'
      <3>1. a \in chain[i] /\ ~Timeout(a)
        BY <1>t, <2>1, <2>3
      <3> QED BY <1>s, <2>2, <3>1
    <2> QED BY <1>2, <2>1, <2>3
  <1>7. CASE \E b \in Operator : chain' = Queued({b}) /\ request[b] = NoRequest /\ Waiting(b)'
    <2>1. PICK b \in Operator : chain' = Queued({b}) /\ request[b] = NoRequest /\ Waiting(b)'
      BY <1>7
    <2>2. a \in {b} => request[a] = NoRequest /\ Waiting(a)'
      BY <2>1
    <2> QED BY <1>4, <2>1, <2>2
  <1> QED BY <1>3, <1>4, <1>5, <1>6, <1>7, ChainChanges

\* The row's password changes with a request that waits for a job of its own.
LEMMA SecretChanges ==
    ASSUME ProvisioningType, [ProvisioningNext]_provisioningVars
    PROVE  \/ secret' = secret
           \/ \E a \in Operator, u \in Account :
                /\ secret' = [secret EXCEPT ![u] = @ + 1] /\ chain' = Queued({a})
                /\ status'[u] # "none" /\ status[u] # "deleted" /\ UNCHANGED <<runVars, told>>
  <1> DEFINE Changes ==
           \/ secret' = secret
           \/ \E a \in Operator, u \in Account :
                /\ secret' = [secret EXCEPT ![u] = @ + 1] /\ chain' = Queued({a})
                /\ status'[u] # "none" /\ status[u] # "deleted" /\ UNCHANGED <<runVars, told>>
  <1> SUFFICES Changes
    OBVIOUS
  <1>0. status \in [Account -> {"none", "provisioning", "active", "failed", "deleted"}]
    BY DEF ProvisioningType
  <1>1. CASE ReadList \/ Load \/ MarkActive \/ JobFails \/ RetryJob \/ Poll
                \/ UNCHANGED provisioningVars
    BY <1>1 DEF ReadList, Load, MarkActive, JobFails, RetryJob, Poll, rowVars, provisioningVars
  <1>2. ASSUME NEW a \in Operator,
               Timeout(a) \/ EndCreate(a) \/ EndReset(a) \/ ResetFails(a) \/ DeleteRow(a)
                  \/ EndDelete(a) \/ (\E u \in Account : DeleteNext(a, u))
                  \/ (\E ids \in SUBSET Account : Delete(a, ids))
        PROVE  secret' = secret
    BY <1>2 DEF Timeout, EndCreate, EndReset, ResetFails, DeleteRow, EndDelete, DeleteNext,
                Delete, rowVars
  <1>3. ASSUME NEW a \in Operator, NEW u \in Account, Create(a, u) \/ ResetPassword(a, u)
        PROVE  Changes
    <2>1. status'[u] # "none" /\ status[u] # "deleted"
      BY <1>0, <1>3 DEF Create, ResetPassword, Commit, Exists
    <2>2. /\ secret' = [secret EXCEPT ![u] = @ + 1] /\ chain' = Queued({a})
          /\ UNCHANGED <<runVars, told>>
      BY <1>3 DEF Create, ResetPassword, Commit
    <2> QED BY <2>1, <2>2
  <1>4. ASSUME NEW S \in SUBSET listed, DisconnectListed(S) PROVE secret' = secret
    BY <1>4 DEF DisconnectListed, rowVars
  <1>5. ASSUME NEW u \in Account, NEW s \in SessionId, Connect(u, s) PROVE secret' = secret
    BY <1>5 DEF Connect, rowVars
  <1> HIDE DEF Changes
  <1>6. secret' = secret => Changes
    BY DEF Changes
  <1> QED BY <1>1, <1>2, <1>3, <1>4, <1>5, <1>6 DEF ProvisioningNext

\* A job reads and loads; nothing else does.
LEMMA RunSteps ==
    ASSUME [ProvisioningNext]_provisioningVars
    PROVE  UNCHANGED runVars \/ RetryJob \/ ReadList \/ Load \/ MarkActive \/ JobFails
  <1>1. CASE Poll \/ UNCHANGED provisioningVars
    BY <1>1 DEF Poll, runVars, provisioningVars
  <1>2. ASSUME NEW a \in Operator,
               Timeout(a) \/ EndCreate(a) \/ EndReset(a) \/ ResetFails(a) \/ DeleteRow(a)
                  \/ EndDelete(a) \/ (\E u \in Account : DeleteNext(a, u))
                  \/ (\E ids \in SUBSET Account : Delete(a, ids))
        PROVE  UNCHANGED runVars
    BY <1>2 DEF Timeout, EndCreate, EndReset, ResetFails, DeleteRow, EndDelete, DeleteNext, Delete
  <1>3. ASSUME NEW a \in Operator, NEW u \in Account, Create(a, u) \/ ResetPassword(a, u)
        PROVE  UNCHANGED runVars
    BY <1>3 DEF Create, ResetPassword, Commit
  <1>4. ASSUME NEW S \in SUBSET listed, DisconnectListed(S) PROVE UNCHANGED runVars
    BY <1>4 DEF DisconnectListed
  <1>5. ASSUME NEW u \in Account, NEW s \in SessionId, Connect(u, s) PROVE UNCHANGED runVars
    BY <1>5 DEF Connect
  <1> QED BY <1>1, <1>2, <1>3, <1>4, <1>5 DEF ProvisioningNext

LEMMA RunChanges ==
    ASSUME [ProvisioningNext]_provisioningVars
    PROVE  \/ UNCHANGED <<step, snapshot, loaded>>
           \/ ReadList \/ Load \/ MarkActive \/ JobFails
  BY RunSteps DEF runVars, RetryJob

\* What is reported is the password of a request that is done.
LEMMA ToldChanges ==
    ASSUME ProvisioningType, [ProvisioningNext]_provisioningVars, NEW u \in Account
    PROVE  \/ told'[u] = told[u]
           \/ \E a \in Operator :
                /\ EndCreate(a) \/ EndReset(a)
                /\ request[a] \in KeyRequest /\ request[a].at = "done" /\ request[a].who = u
                /\ told'[u] = request[a].with /\ request[a].with > told[u]
                /\ UNCHANGED <<secret, runVars>>
  <1> DEFINE Changes ==
           \/ told'[u] = told[u]
           \/ \E a \in Operator :
                /\ EndCreate(a) \/ EndReset(a)
                /\ request[a] \in KeyRequest /\ request[a].at = "done" /\ request[a].who = u
                /\ told'[u] = request[a].with /\ request[a].with > told[u]
                /\ UNCHANGED <<secret, runVars>>
  <1> SUFFICES Changes
    OBVIOUS
  <1>0. told \in [Account -> Secret] /\ MaxSecret \in Nat
    BY ProvisioningConstants DEF ProvisioningType
  <1>1. CASE ReadList \/ Load \/ MarkActive \/ JobFails \/ RetryJob \/ Poll
                \/ UNCHANGED provisioningVars
    BY <1>1 DEF ReadList, Load, MarkActive, JobFails, RetryJob, Poll, provisioningVars
  <1>2. ASSUME NEW a \in Operator,
               Timeout(a) \/ ResetFails(a) \/ DeleteRow(a)
                  \/ EndDelete(a) \/ (\E v \in Account : DeleteNext(a, v))
                  \/ (\E ids \in SUBSET Account : Delete(a, ids))
        PROVE  told' = told
    BY <1>2 DEF Timeout, ResetFails, DeleteRow, EndDelete, DeleteNext, Delete
  <1>3. ASSUME NEW a \in Operator, NEW v \in Account, Create(a, v) \/ ResetPassword(a, v)
        PROVE  told' = told
    BY <1>3 DEF Create, ResetPassword, Commit
  <1>4. ASSUME NEW S \in SUBSET listed, DisconnectListed(S) PROVE told' = told
    BY <1>4 DEF DisconnectListed
  <1>5. ASSUME NEW v \in Account, NEW s \in SessionId, Connect(v, s) PROVE told' = told
    BY <1>5 DEF Connect
  <1>6. ASSUME NEW a \in Operator, EndCreate(a) \/ EndReset(a) PROVE Changes
    <2>1. request[a] \in KeyRequest
      BY <1>6, RequestTypes DEF EndCreate, EndReset
    <2>2. UNCHANGED <<secret, runVars>>
      BY <1>6 DEF EndCreate, EndReset, rowVars
    <2>3. CASE told' = told
      BY <2>3
    <2>4. CASE request[a].at = "done" /\ Told(a)
      <3>1. CASE u = request[a].who /\ request[a].with > told[u]
        <4>1. told'[u] = request[a].with
          BY <1>0, <2>1, <2>4, <3>1 DEF Told, KeyRequest, Secret
        <4> QED BY <1>6, <2>1, <2>2, <2>4, <3>1, <4>1
      <3>2. CASE u = request[a].who /\ ~(request[a].with > told[u])
        <4>1. told'[u] = told[u]
          BY <1>0, <2>1, <2>4, <3>2 DEF Told, KeyRequest, Secret
        <4> QED BY <4>1
      <3>3. CASE u # request[a].who
        BY <1>0, <2>4, <3>3 DEF Told
      <3> QED BY <3>1, <3>2, <3>3
    <2> QED BY <1>6, <2>3, <2>4 DEF EndCreate, EndReset
  <1> HIDE DEF Changes
  <1>7. told' = told => Changes
    BY DEF Changes
  <1> QED BY <1>1, <1>2, <1>3, <1>4, <1>5, <1>6, <1>7 DEF ProvisioningNext

\* An account in existence was in existence, or has just been created.
LEMMA ExistsBefore ==
    ASSUME ProvisioningType, [ProvisioningNext]_provisioningVars, NEW u \in Account
    PROVE  /\ Exists(u)' => Exists(u) \/ (status[u] = "none" /\ \E a \in Operator : Create(a, u))
           /\ status'[u] = "none" => status[u] = "none"
           /\ status[u] # "none" /\ Exists(u)' => Exists(u)
  <1>1. Exists(u)' <=> status'[u] \in {"provisioning", "active", "failed"}
    BY DEF Exists
  <1> QED BY <1>1, StatusChanges DEF Exists

-----------------------------------------------------------------------------
(* Provisioning: each part of the invariant is kept *)

LEMMA UnusedStep ==
    ASSUME ProvisioningType, Unused, Advance, [ProvisioningNext]_provisioningVars
    PROVE  Unused'
  <1>g. SUFFICES ASSUME NEW u \in Account, status'[u] = "none"
        PROVE  secret'[u] = 0 /\ loaded'[u] = 0 /\ snapshot'[u] = 0 /\ told'[u] = 0
    BY DEF Unused
  <1>0. secret \in [Account -> Secret] /\ snapshot \in [Account -> Secret]
    BY DEF ProvisioningType
  <1>1. status[u] = "none" /\ secret[u] = 0 /\ loaded[u] = 0 /\ snapshot[u] = 0 /\ told[u] = 0
    BY <1>g, ExistsBefore DEF Unused
  <1>2. secret'[u] = 0
    BY <1>0, <1>1, <1>g, SecretChanges
  <1>3. loaded'[u] = 0 /\ snapshot'[u] = 0
    BY <1>1, RunChanges DEF ReadList, Load, MarkActive, JobFails, Exists
  <1>4. told'[u] = 0
    BY <1>1, ToldChanges DEF Advance, KeyRequest
  <1> QED BY <1>2, <1>3, <1>4

LEMMA SecretGrows ==
    ASSUME ProvisioningType, [ProvisioningNext]_provisioningVars, NEW u \in Account
    PROVE  secret[u] \in Nat /\ secret'[u] \in Nat /\ secret[u] <= secret'[u]
  <1>0. secret \in [Account -> Secret] /\ MaxSecret \in Nat
    BY ProvisioningConstants DEF ProvisioningType
  <1>1. secret[u] \in Nat
    BY <1>0 DEF Secret
  <1>2. ASSUME NEW v \in Account, secret' = [secret EXCEPT ![v] = @ + 1]
        PROVE  secret'[u] \in {secret[u], secret[u] + 1}
    BY <1>0, <1>2
  <1>3. secret'[u] \in {secret[u], secret[u] + 1}
    BY <1>2, SecretChanges
  <1> QED BY <1>1, <1>3

\* Passwords of every account, after a step.
LEMMA AdvancePasswords ==
    ASSUME ProvisioningType, OneWait, Unused, Advance, ReadByJob,
           [ProvisioningNext]_provisioningVars, NEW u \in Account
    PROVE  /\ secret[u] <= secret'[u]
           /\ told'[u] <= secret'[u] /\ loaded'[u] <= secret'[u] /\ snapshot'[u] <= secret'[u]
           /\ Exists(u)' => told'[u] <= loaded'[u]
           /\ Exists(u)' /\ step' = "read" => loaded'[u] <= snapshot'[u]
           /\ step' = "loaded" => loaded'[u] = snapshot'[u]
  <1>0. /\ secret \in [Account -> Secret] /\ told \in [Account -> Secret]
        /\ loaded \in [Account -> Secret] /\ snapshot \in [Account -> Secret]
        /\ MaxSecret \in Nat
    BY ProvisioningConstants DEF ProvisioningType
  <1>n. /\ secret[u] \in Nat /\ told[u] \in Nat /\ loaded[u] \in Nat /\ snapshot[u] \in Nat
    BY <1>0 DEF Secret
  <1>a. /\ told[u] <= secret[u] /\ loaded[u] <= secret[u] /\ snapshot[u] <= secret[u]
        /\ Exists(u) => told[u] <= loaded[u]
        /\ Exists(u) /\ step = "read" => loaded[u] <= snapshot[u]
        /\ step = "loaded" => loaded[u] = snapshot[u]
    BY DEF Advance
  <1>1. secret'[u] \in Nat /\ secret[u] <= secret'[u]
    BY SecretGrows
  <1>2. loaded'[u] \in Nat /\ loaded'[u] <= secret'[u] /\ snapshot'[u] \in Nat /\ snapshot'[u] <= secret'[u]
    <2>1. CASE UNCHANGED <<step, snapshot, loaded>>
      BY <1>1, <1>a, <1>n, <2>1
    <2>2. CASE ReadList
      BY <1>1, <1>a, <1>n, <2>2 DEF ReadList
    <2>3. CASE Load
      BY <1>1, <1>a, <1>n, <2>3 DEF Load
    <2>4. CASE MarkActive \/ JobFails
      BY <1>1, <1>a, <1>n, <2>4 DEF MarkActive, JobFails
    <2> QED BY <2>1, <2>2, <2>3, <2>4, RunChanges
  <1>3. told'[u] \in Nat /\ told'[u] <= secret'[u]
    <2>1. CASE told'[u] = told[u]
      BY <1>1, <1>a, <1>n, <2>1
    <2>2. ASSUME NEW a \in Operator, request[a] \in KeyRequest, request[a].who = u,
                 told'[u] = request[a].with
          PROVE  told'[u] \in Nat /\ told'[u] <= secret'[u]
      <3>1. request[a].with <= secret[u] /\ request[a].with \in Nat
        BY <1>0, <2>2 DEF Advance, KeyRequest, Secret
      <3> QED BY <1>1, <1>n, <2>2, <3>1
    <2> QED BY <2>1, <2>2, ToldChanges
  <1>4. ASSUME Exists(u)', ~Exists(u)
        PROVE  /\ UNCHANGED <<step, snapshot, loaded>> /\ told'[u] = told[u]
               /\ told[u] = 0 /\ loaded[u] = 0 /\ snapshot[u] = 0
    <2>1. status[u] = "none" /\ \E a \in Operator : Create(a, u)
      BY <1>4, ExistsBefore
    <2> QED BY <2>1 DEF Unused, Create, Commit, runVars
  <1>5. ASSUME Exists(u) PROVE loaded[u] <= loaded'[u]
    <2>1. loaded' = loaded \/ Load
      BY RunChanges DEF ReadList, MarkActive, JobFails
    <2>2. CASE Load
      BY <1>5, <1>a, <2>2 DEF Load
    <2> QED BY <1>n, <2>1, <2>2
  <1>6. Exists(u)' => told'[u] <= loaded'[u]
    <2>1. ASSUME Exists(u) PROVE told'[u] <= loaded'[u]
      <3>1. CASE told'[u] = told[u]
        BY <1>2, <1>5, <1>a, <1>n, <2>1, <3>1
      <3>2. ASSUME NEW a \in Operator, request[a] \in KeyRequest, request[a].who = u,
                   request[a].at = "done", told'[u] = request[a].with
            PROVE  told'[u] <= loaded'[u]
        <4>1. request[a].with <= loaded[u] /\ request[a].with \in Nat
          BY <1>0, <2>1, <3>2 DEF ReadByJob, KeyRequest, Secret
        <4> QED BY <1>2, <1>5, <1>n, <2>1, <3>2, <4>1
      <3> QED BY <3>1, <3>2, ToldChanges
    <2> QED BY <1>4, <1>n, <2>1
  <1>7. Exists(u)' /\ step' = "read" => loaded'[u] <= snapshot'[u]
    <2>1. ASSUME Exists(u), step' = "read" PROVE loaded'[u] <= snapshot'[u]
      <3>1. CASE UNCHANGED <<step, snapshot, loaded>>
        BY <1>a, <2>1, <3>1
      <3>2. CASE ReadList
        BY <1>a, <2>1, <3>2 DEF ReadList
      <3>3. CASE Load \/ MarkActive \/ JobFails
        BY <2>1, <3>3 DEF Load, MarkActive, JobFails, Settle
      <3> QED BY <3>1, <3>2, <3>3, RunChanges
    <2> QED BY <1>4, <1>n, <2>1
  <1>8. step' = "loaded" => loaded'[u] = snapshot'[u]
    BY <1>a, RunChanges DEF ReadList, Load, MarkActive, JobFails, Settle
  <1> QED BY <1>1, <1>2, <1>3, <1>6, <1>7, <1>8

\* A request that is written.
LEMMA Committed ==
    ASSUME ProvisioningType, Unused, NEW a \in Operator, NEW u \in Account,
           Create(a, u) \/ ResetPassword(a, u)
    PROVE  /\ request'[a].who = u /\ request'[a].with = secret[u] + 1
           /\ secret'[u] = secret[u] + 1 /\ status'[u] # "none"
           /\ request'[a].kind = "create" => request'[a].with = 1
           /\ UNCHANGED runVars
  <1>0. /\ secret \in [Account -> Secret] /\ request \in [Operator -> Request \cup {NoRequest}]
        /\ status \in [Account -> {"none", "provisioning", "active", "failed", "deleted"}]
    BY DEF ProvisioningType
  <1>1. CASE Create(a, u)
    <2>1. secret[u] = 0
      BY <1>1 DEF Create, Unused
    <2> QED BY <1>0, <1>1, <2>1 DEF Create, Commit
  <1>2. CASE ResetPassword(a, u)
    BY <1>0, <1>2 DEF ResetPassword, Commit, Exists
  <1> QED BY <1>1, <1>2

LEMMA AdvanceStep ==
    ASSUME ProvisioningType, OneWait, Unused, Advance, ReadByJob,
           [ProvisioningNext]_provisioningVars
    PROVE  Advance'
  <1>0. secret \in [Account -> Secret] /\ MaxSecret \in Nat
    BY ProvisioningConstants DEF ProvisioningType
  <1>1. ASSUME NEW a \in Operator, request'[a].kind \in {"create", "reset"}
        PROVE  /\ request'[a].with <= secret'[request'[a].who]
               /\ status'[request'[a].who] # "none"
               /\ request'[a].kind = "create" => request'[a].with = 1
    <2>1. ASSUME request[a] \in KeyRequest, request'[a].kind = request[a].kind,
                 request'[a].who = request[a].who, request'[a].with = request[a].with
          PROVE  /\ request'[a].with <= secret'[request'[a].who]
                 /\ status'[request'[a].who] # "none"
                 /\ request'[a].kind = "create" => request'[a].with = 1
      <3>1. /\ request[a].with <= secret[request[a].who] /\ status[request[a].who] # "none"
            /\ request[a].kind = "create" => request[a].with = 1
            /\ request[a].who \in Account /\ request[a].with \in Nat
        BY <1>0, <2>1 DEF Advance, KeyRequest, Secret
      <3>2. status'[request[a].who] # "none"
        BY <3>1, ExistsBefore
      <3>3. /\ secret[request[a].who] \in Nat /\ secret'[request[a].who] \in Nat
            /\ secret[request[a].who] <= secret'[request[a].who]
        BY <3>1, SecretGrows
      <3> QED BY <2>1, <3>1, <3>2, <3>3
    <2>2. ASSUME NEW u \in Account, Create(a, u) \/ ResetPassword(a, u)
          PROVE  /\ request'[a].with <= secret'[request'[a].who]
                 /\ status'[request'[a].who] # "none"
                 /\ request'[a].kind = "create" => request'[a].with = 1
      <3>1. /\ request'[a].who = u /\ request'[a].with = secret[u] + 1
            /\ secret'[u] = secret[u] + 1 /\ status'[u] # "none"
            /\ request'[a].kind = "create" => request'[a].with = 1
        BY <2>2, Committed
      <3>2. secret[u] + 1 \in Int
        BY <1>0 DEF Secret
      <3> QED BY <3>1, <3>2
    <2>3. CASE request'[a] = request[a]
      BY <1>1, <2>1, <2>3, RequestTypes
    <2>4. ASSUME NEW outcome, request[a] \in KeyRequest, request'[a] = [request[a] EXCEPT !.at = outcome]
          PROVE  /\ request'[a].kind = request[a].kind
                 /\ request'[a].who = request[a].who /\ request'[a].with = request[a].with
      BY <2>4 DEF KeyRequest
    <2> QED BY <1>1, <2>1, <2>2, <2>3, <2>4, RequestChanges
  <1> QED BY <1>1, AdvancePasswords DEF Advance

LEMMA ReadByJobStep ==
    ASSUME ProvisioningType, OneWait, Unused, Advance, ReadByJob,
           [ProvisioningNext]_provisioningVars
    PROVE  ReadByJob'
  <1>0. /\ secret \in [Account -> Secret] /\ loaded \in [Account -> Secret]
        /\ snapshot \in [Account -> Secret] /\ MaxSecret \in Nat
        /\ chain \in Seq(SUBSET Operator)
    BY ProvisioningConstants DEF ProvisioningType
  <1>g. SUFFICES ASSUME NEW a \in Operator, request'[a].kind \in {"create", "reset"},
                        Exists(request[a].who)'
        PROVE  /\ step' # "idle" /\ a \in Head(chain') => request'[a].with <= snapshot'[request'[a].who]
               /\ request'[a].at = "done" => request'[a].with <= loaded'[request'[a].who]
    BY DEF ReadByJob
  <1> DEFINE Kept ==
        /\ step' # "idle" /\ a \in Head(chain') => request'[a].with <= snapshot'[request'[a].who]
        /\ request'[a].at = "done" => request'[a].with <= loaded'[request'[a].who]
  <1> HIDE DEF Kept
  \* Somebody who goes on with the same request, for an account that exists.
  <1>1. ASSUME request[a] \in KeyRequest, request'[a].who = request[a].who,
               request'[a].with = request[a].with, request'[a].kind = request[a].kind
        PROVE  LET u == request[a].who IN
               /\ u \in Account /\ Exists(u) /\ status[u] # "none"
               /\ request[a].with \in Nat /\ request[a].with <= secret[u]
               /\ step # "idle" /\ a \in Head(chain) => request[a].with <= snapshot[u]
               /\ request[a].at = "done" => request[a].with <= loaded[u]
    <2>1. request[a].who \in Account /\ request[a].with \in Nat /\ request[a].kind \in {"create", "reset"}
      BY <1>0, <1>1 DEF KeyRequest, Secret
    <2>2. status[request[a].who] # "none" /\ request[a].with <= secret[request[a].who]
      BY <2>1 DEF Advance
    <2>3. Exists(request[a].who)
      BY <1>g, <1>1, <2>1, <2>2, ExistsBefore
    <2> QED BY <2>1, <2>2, <2>3 DEF ReadByJob
  \* ... whose request is what it was
  <1>2. CASE request'[a] = request[a]
    <2>0. request[a] \in KeyRequest
      BY <1>g, <1>2, RequestTypes
    <2> DEFINE u == request[a].who
    <2>1. /\ u \in Account /\ Exists(u) /\ request[a].with \in Nat /\ request[a].with <= secret[u]
          /\ step # "idle" /\ a \in Head(chain) => request[a].with <= snapshot[u]
          /\ request[a].at = "done" => request[a].with <= loaded[u]
      BY <1>1, <1>2, <2>0
    <2>2. PICK v \in Account : v = request[a].who
      BY <2>1
    <2> HIDE DEF u
    <2>3. /\ request[a].with <= secret[v] /\ Exists(v)
          /\ step # "idle" /\ a \in Head(chain) => request[a].with <= snapshot[v]
          /\ request[a].at = "done" => request[a].with <= loaded[v]
          /\ loaded[v] \in Nat /\ snapshot[v] \in Nat
      BY <1>0, <2>1, <2>2 DEF u, Secret
    <2>4. loaded'[v] \in Nat /\ loaded[v] <= loaded'[v]
      <3>1. loaded' = loaded \/ Load
        BY RunChanges DEF ReadList, MarkActive, JobFails
      <3>2. CASE Load
        BY <2>3, <3>2 DEF Load, Advance
      <3> QED BY <2>3, <3>1, <3>2
    <2>5. request[a].at = "done" => request[a].with <= loaded'[v]
      BY <2>1, <2>3, <2>4
    <2>6. ASSUME step' # "idle", a \in Head(chain') PROVE request[a].with <= snapshot'[v]
      <3>1. CASE ReadList
        BY <2>3, <3>1 DEF ReadList
      <3>2. CASE MarkActive \/ JobFails
        BY <2>6, <3>2 DEF MarkActive, JobFails, Settle
      <3>3. ASSUME step # "idle", snapshot' = snapshot, a \in Head(chain)
            PROVE  request[a].with <= snapshot'[v]
        BY <2>3, <3>3
      <3>4. CASE Load
        BY <2>6, <3>3, <3>4 DEF Load
      <3>5. CASE UNCHANGED <<step, snapshot, loaded>> /\ ~(MarkActive \/ JobFails)
        <4>1. step # "idle" /\ chain # <<>> /\ snapshot' = snapshot
          BY <2>6, <3>5 DEF ProvisioningType
        <4>2. \A w \in SUBSET Operator : chain' = Queued(w) => Head(chain') = Head(chain)
          BY <1>0, <4>1, QueuedChain
        <4>3. \A b \in Operator : Timeout(b) => Head(chain') \subseteq Head(chain)
          BY <1>0, <4>1, LeftChain DEF Timeout
        <4>4. Head(chain') \subseteq Head(chain)
          BY <3>5, <4>2, <4>3, ChainChanges
        <4> QED BY <2>6, <3>3, <4>1, <4>4
      <3> QED BY <3>1, <3>2, <3>4, <3>5, RunChanges
    <2> QED BY <1>2, <2>2, <2>5, <2>6 DEF Kept
  \* ... whose job has settled
  <1>3. ASSUME request[a] \in KeyRequest, NEW outcome \in {"done", "failed"},
               request'[a] = [request[a] EXCEPT !.at = outcome],
               chain # <<>>, a \in Head(chain),
               IF outcome = "done" THEN MarkActive ELSE JobFails
        PROVE  Kept
    <2>1. /\ request'[a].kind = request[a].kind /\ request'[a].who = request[a].who
          /\ request'[a].with = request[a].with /\ request'[a].at = outcome
      BY <1>3 DEF KeyRequest
    <2>2. step' = "idle"
      BY <1>3 DEF MarkActive, JobFails, Settle
    <2>3. PICK v \in Account : v = request[a].who
      BY <1>3 DEF KeyRequest
    <2>4. ASSUME outcome = "done" PROVE request[a].with <= loaded'[v]
      <3>1. step = "loaded" /\ loaded' = loaded
        BY <1>3, <2>4 DEF MarkActive
      <3>2. request[a].with <= snapshot[v] /\ loaded[v] = snapshot[v]
        BY <1>1, <1>3, <2>1, <2>3, <3>1 DEF Advance
      <3> QED BY <3>1, <3>2
    <2> QED BY <2>1, <2>2, <2>3, <2>4 DEF Kept
  \* ... who has given up
  <1>4. CASE request[a] \in KeyRequest /\ request'[a] = [request[a] EXCEPT !.at = "failed"] /\ Timeout(a)
    <2>1. request'[a].at = "failed"
      BY <1>4 DEF KeyRequest
    <2>2. chain' # <<>> => a \notin Head(chain')
      BY <1>0, <1>4, LeftChain DEF Timeout
    <2>3. step' # "idle" => chain' # <<>>
      BY <1>0, <1>4, LeftChain DEF Timeout, ProvisioningType, runVars
    <2> QED BY <2>1, <2>2, <2>3 DEF Kept
  \* ... or who has just asked
  <1>5. CASE /\ \E u \in Account : Create(a, u) \/ ResetPassword(a, u)
             /\ request[a] = NoRequest /\ chain' = Queued({a}) /\ request'[a].at = "sync"
    <2>1. step' # "idle" => chain # <<>>
      BY <1>5, Committed DEF runVars, ProvisioningType
    <2>2. chain # <<>> => a \notin Head(chain)
      BY <1>5, HeadInChain, <1>0 DEF OneWait, Waiting, NoRequest
    <2>3. chain # <<>> => Head(chain') = Head(chain)
      BY <1>0, <1>5, QueuedChain
    <2> QED BY <1>5, <2>1, <2>2, <2>3 DEF Kept
  <1>6. CASE /\ chain # <<>> /\ a \in Head(chain) /\ request[a] \in KeyRequest
             /\ \E outcome \in {"done", "failed"} :
                   /\ request'[a] = [request[a] EXCEPT !.at = outcome]
                   /\ IF outcome = "done" THEN MarkActive ELSE JobFails
    BY <1>3, <1>6 DEF Kept
  <1>7. ~(request'[a].kind \in {"idle", "delete"})
    BY <1>g
  <1>8. \/ request'[a] = request[a]
        \/ /\ \E u \in Account : Create(a, u) \/ ResetPassword(a, u)
           /\ request[a] = NoRequest /\ chain' = Queued({a}) /\ request'[a].at = "sync"
        \/ /\ request[a] \in KeyRequest /\ request'[a] = [request[a] EXCEPT !.at = "failed"]
           /\ Timeout(a)
        \/ /\ chain # <<>> /\ a \in Head(chain) /\ request[a] \in KeyRequest
           /\ \E outcome \in {"done", "failed"} :
                 /\ request'[a] = [request[a] EXCEPT !.at = outcome]
                 /\ IF outcome = "done" THEN MarkActive ELSE JobFails
    BY <1>7, RequestChanges
  <1> QED BY <1>2, <1>4, <1>5, <1>6, <1>8

LEMMA SessionsOpenedStep ==
    ASSUME ProvisioningType, SessionsOpened, [ProvisioningNext]_provisioningVars
    PROVE  SessionsOpened'
  <1>0. /\ loaded \in [Account -> Secret] /\ MaxSecret \in Nat
        /\ session \in [SessionId -> [who : Account, with : Secret] \cup {Nowhere}]
    BY ProvisioningConstants DEF ProvisioningType
  <1>1. ASSUME NEW S \in SUBSET SessionId, Cut(S) PROVE SessionsOpened'
    BY <1>1, CutSessions DEF SessionsOpened
  <1>2. ASSUME UNCHANGED session PROVE SessionsOpened'
    BY <1>2 DEF SessionsOpened
  <1>3. CASE ReadList \/ Load \/ MarkActive \/ JobFails \/ RetryJob \/ Poll
                \/ UNCHANGED provisioningVars
    BY <1>2, <1>3 DEF ReadList, Load, MarkActive, JobFails, RetryJob, Poll, saVars, provisioningVars
  <1>4. ASSUME NEW a \in Operator,
               Timeout(a) \/ EndCreate(a) \/ ResetFails(a) \/ DeleteRow(a) \/ EndDelete(a)
                  \/ (\E ids \in SUBSET Account : Delete(a, ids))
                  \/ (\E u \in Account : Create(a, u) \/ ResetPassword(a, u))
        PROVE  UNCHANGED session
    BY <1>4 DEF Timeout, EndCreate, ResetFails, DeleteRow, EndDelete, Delete, Create,
                ResetPassword, Commit, saVars
  <1>5. ASSUME NEW a \in Operator, EndReset(a) PROVE SessionsOpened'
    <2>1. Disconnected(request[a].who) \in SUBSET SessionId
      BY DEF ProvisioningType, Disconnected, Listed
    <2> QED BY <1>1, <1>5, <2>1 DEF EndReset
  <1>6. ASSUME NEW a \in Operator, NEW u \in Account, DeleteNext(a, u) PROVE SessionsOpened'
    BY <1>1, <1>2, <1>6, ListedIds DEF DeleteNext, saVars
  <1>7. ASSUME NEW S \in SUBSET listed, DisconnectListed(S) PROVE SessionsOpened'
    <2>1. {s \in S : session[s] # Nowhere} \in SUBSET SessionId
      BY DEF ProvisioningType
    <2> QED BY <1>1, <1>7, <2>1 DEF DisconnectListed
  <1>8. ASSUME NEW u \in Account, NEW s \in SessionId, Connect(u, s) PROVE SessionsOpened'
    <2>1. loaded[u] >= 1
      BY <1>0, <1>8 DEF Connect, Secret
    <2>2. session'[s].with >= 1
      BY <1>0, <1>8, <2>1 DEF Connect
    <2>3. \A t \in SessionId : t # s => session'[t] = session[t]
      BY <1>0, <1>8 DEF Connect
    <2> QED BY <2>2, <2>3 DEF SessionsOpened
  <1> QED BY <1>2, <1>3, <1>4, <1>5, <1>6, <1>7, <1>8 DEF ProvisioningNext

\* What strongSwan ought to have changes with a job in the queue.
LEMMA ExpectedChanges ==
    ASSUME ProvisioningType, [ProvisioningNext]_provisioningVars, NEW u \in Account
    PROVE  \/ Expected(u)' = Expected(u)
           \/ \E w \in SUBSET Operator : chain' = Queued(w)
  <1>1. CASE \E w \in SUBSET Operator : chain' = Queued(w)
    BY <1>1
  <1>2. CASE ~\E w \in SUBSET Operator : chain' = Queued(w)
    <2>1. secret' = secret
      BY <1>2, SecretChanges
    <2>2. ~\E a \in Operator : Create(a, u)
      BY <1>2 DEF Create, Commit
    <2>3. Exists(u)' <=> Exists(u)
      <3>1. chain' # Queued({})
        BY <1>2
      <3>2. status'[u] = status[u] \/ (Exists(u) /\ status'[u] \in {"active", "failed"})
        BY <2>2, <3>1, StatusChanges
      <3> QED BY <3>2 DEF Exists
    <2> QED BY <2>1, <2>3 DEF Expected
  <1> QED BY <1>1, <1>2

\* A row that waits to be provisioned has its request.
LEMMA ProvisionedStep ==
    ASSUME ProvisioningType, OneWait, Pending, [ProvisioningNext]_provisioningVars,
           NEW u \in Account, status'[u] = "provisioning"
    PROVE  \E a \in Operator : request'[a].kind = "create" /\ request'[a].who = u
  <1>0. /\ status \in [Account -> {"none", "provisioning", "active", "failed", "deleted"}]
        /\ request \in [Operator -> Request \cup {NoRequest}]
    BY DEF ProvisioningType
  <1>1. ASSUME NEW a \in Operator, Create(a, u)
        PROVE  request'[a].kind = "create" /\ request'[a].who = u
    BY <1>0, <1>1 DEF Create, Commit
  <1>2. ASSUME status[u] = "provisioning"
        PROVE  \E a \in Operator : request'[a].kind = "create" /\ request'[a].who = u
    <2>1. PICK a \in Operator : request[a].kind = "create" /\ request[a].who = u
      BY <1>2 DEF Pending
    <2>2. ~EndCreate(a)
      BY <1>0, <2>1 DEF EndCreate, Exists
    <2>3. request[a] \in KeyRequest /\ request[a] # NoRequest
      BY <2>1, RequestTypes DEF NoRequest
    <2>4. ASSUME NEW outcome, request'[a] = [request[a] EXCEPT !.at = outcome]
          PROVE  request'[a].kind = "create" /\ request'[a].who = u
      BY <2>1, <2>3, <2>4 DEF KeyRequest
    <2>5. \/ request'[a] = request[a]
          \/ \E outcome : request'[a] = [request[a] EXCEPT !.at = outcome]
      BY <2>1, <2>2, <2>3, RequestChanges
    <2> QED BY <2>1, <2>4, <2>5
  <1> QED BY <1>0, <1>1, <1>2, StatusChanges

LEMMA PendingStep ==
    ASSUME ProvisioningType, OneWait, Advance, Pending, [ProvisioningNext]_provisioningVars
    PROVE  Pending'
  <1>0. chain \in Seq(SUBSET Operator) /\ Len(chain) \in Nat /\ (step # "idle" => chain # <<>>)
    BY DEF ProvisioningType
  <1>g. SUFFICES ASSUME NEW u \in Account
        PROVE  /\ step' # "idle" /\ snapshot'[u] # Expected(u)' => Len(chain') > 1
               /\ step' = "idle" /\ loaded'[u] # Expected(u)' => chain' # <<>> \/ retry'
    BY ProvisionedStep DEF Pending
  <1>p. /\ step # "idle" /\ snapshot[u] # Expected(u) => Len(chain) > 1
        /\ step = "idle" /\ loaded[u] # Expected(u) => chain # <<>> \/ retry
    BY DEF Pending
  <1>1. ASSUME NEW w \in SUBSET Operator, chain' = Queued(w), step' = step
        PROVE  (step' # "idle" => Len(chain') > 1) /\ chain' # <<>>
    BY <1>0, <1>1, QueuedChain
  <1>2. CASE \E w \in SUBSET Operator : chain' = Queued(w) /\ step' = step
    BY <1>1, <1>2
  <1>3. CASE MarkActive
    <2>1. loaded'[u] = snapshot[u] /\ step # "idle" /\ step' = "idle" /\ chain' = Tail(chain)
      BY <1>3 DEF MarkActive, Settle, Advance
    <2>2. Expected(u)' = Expected(u)
      <3>1. \A w \in SUBSET Operator : Len(Queued(w)) = Len(chain) + 1
        BY <1>0, QueuedChain
      <3>2. Len(chain') = Len(chain) - 1
        BY <1>0, <2>1, SettledChain
      <3> QED BY <1>0, <3>1, <3>2, ExpectedChanges
    <2>3. Len(chain) > 1 => chain' # <<>>
      BY <1>0, <2>1, SettledChain
    <2> QED BY <1>p, <2>1, <2>2, <2>3
  <1>4. CASE JobFails
    BY <1>4 DEF JobFails, Settle, Retried
  <1>5. ASSUME NEW a \in Operator, Timeout(a)
        PROVE  /\ Len(chain') = Len(chain) /\ UNCHANGED <<runVars, rowVars>>
               /\ chain # <<>> => chain' # <<>>
    BY <1>0, <1>5, LeftChain DEF Timeout
  <1>6. CASE \E a \in Operator : Timeout(a)
    BY <1>p, <1>5, <1>6 DEF runVars, rowVars, Expected, Exists
  <1>7. CASE chain' = chain /\ ~MarkActive /\ ~JobFails
    <2>1. Expected(u)' = Expected(u)
      <3>1. \A w \in SUBSET Operator : Len(Queued(w)) = Len(chain) + 1
        BY <1>0, QueuedChain
      <3> QED BY <1>0, <1>7, <3>1, ExpectedChanges
    <2>2. CASE UNCHANGED runVars
      BY <1>7, <1>p, <2>1, <2>2 DEF runVars
    <2>3. CASE ReadList
      <3>1. snapshot'[u] = Expected(u) /\ step' # "idle"
        BY <2>3 DEF ReadList, Expected
      <3> QED BY <2>1, <3>1
    <2>4. CASE Load
      BY <1>p, <2>1, <2>4 DEF Load
    <2>5. ~RetryJob
      BY <1>0, <1>7, QueuedChain DEF RetryJob
    <2> QED BY <1>7, <2>2, <2>3, <2>4, <2>5, RunSteps
  <1> QED BY <1>2, <1>3, <1>4, <1>6, <1>7, ChainChanges

-----------------------------------------------------------------------------
(* Provisioning: the theorems *)

\* Its parts keep each other: what is told was loaded by a job that had read it.
THEOREM ProvisioningInvariant == ProvisioningSpec => []ProvisioningInv
  <1>1. ProvisioningInit => ProvisioningInv
    <2> SUFFICES ASSUME ProvisioningInit PROVE ProvisioningInv
      OBVIOUS
    <2>1. ProvisioningType
      <3>1. 0 \in Secret /\ chain \in Seq(SUBSET Operator) /\ Len(chain) = 0
        BY ProvisioningConstants DEF ProvisioningInit, Secret
      <3>2. /\ secret \in [Account -> Secret] /\ loaded \in [Account -> Secret]
            /\ snapshot \in [Account -> Secret] /\ told \in [Account -> Secret]
            /\ status \in [Account -> {"none", "provisioning", "active", "failed", "deleted"}]
        BY <3>1 DEF ProvisioningInit
      <3>3. /\ request \in [Operator -> Request \cup {NoRequest}]
            /\ session \in [SessionId -> [who : Account, with : Secret] \cup {Nowhere}]
        BY DEF ProvisioningInit
      <3>4. /\ step \in {"idle", "read", "loaded"} /\ retry \in BOOLEAN
            /\ step # "idle" => chain # <<>>
            /\ listed \subseteq SessionId /\ missed \subseteq SessionId
        BY DEF ProvisioningInit
      <3>5. Len(chain) <= MaxChain
        BY <3>1, ProvisioningConstants
      <3> QED BY <3>1, <3>2, <3>3, <3>4, <3>5 DEF ProvisioningType
    <2>2. OneWait /\ Unused /\ SessionsOpened /\ Pending
      BY DEF ProvisioningInit, OneWait, Unused, SessionsOpened, Pending, Expected, Exists
    <2>3. Advance /\ ReadByJob
      BY DEF ProvisioningInit, Advance, ReadByJob, NoRequest
    <2> QED BY <2>1, <2>2, <2>3 DEF ProvisioningInv
  <1>2. ProvisioningInv /\ [ProvisioningNext]_provisioningVars => ProvisioningInv'
    BY ProvisioningTypeStep, OneWaitStep, UnusedStep, AdvanceStep, ReadByJobStep,
       SessionsOpenedStep, PendingStep DEF ProvisioningInv
  <1> QED BY <1>1, <1>2, PTL DEF ProvisioningSpec

\* The requests of the operators, the chain of jobs and what strongSwan has loaded
\* keep their types (users.js, syncQueue.js).
THEOREM ProvisioningTypeCorrect == ProvisioningSpec => []ProvisioningType
  BY ProvisioningInvariant, PTL DEF ProvisioningInv

\* A password that was reported as in force is loaded, or a newer one, however many
\* jobs were queued, running or given up on when it was written (users.js:130).
THEOREM ReportedTheorem == ProvisioningSpec => []ReportedLoaded
  <1>1. ProvisioningInv => ReportedLoaded
    <2> SUFFICES ASSUME ProvisioningInv, NEW u \in Account, Exists(u)
        PROVE  loaded[u] >= told[u]
      BY DEF ReportedLoaded
    <2>1. loaded[u] \in Int /\ told[u] \in Int
      BY ProvisioningConstants DEF ProvisioningInv, ProvisioningType, Secret
    <2> QED BY <2>1 DEF ProvisioningInv, Advance
  <1> QED BY <1>1, ProvisioningInvariant, PTL

\* With nothing queued, running, due or asked for, strongSwan has what the rows
\* say, and no account is left half-made (syncQueue.js, users.js).
THEOREM QuietTheorem == ProvisioningSpec => []QuietSynced
  <1>1. ProvisioningInv => QuietSynced
    <2> SUFFICES ASSUME ProvisioningInv, chain = <<>>, ~retry,
                        \A a \in Operator : request[a] = NoRequest,
                        NEW u \in Account
        PROVE  /\ loaded[u] = IF Exists(u) THEN secret[u] ELSE 0
               /\ status[u] # "provisioning"
      BY DEF QuietSynced
    <2>1. step = "idle"
      BY DEF ProvisioningInv, ProvisioningType
    <2>2. loaded[u] = Expected(u)
      BY <2>1 DEF ProvisioningInv, Pending
    <2>3. status[u] # "provisioning"
      BY DEF ProvisioningInv, Pending, NoRequest
    <2> QED BY <2>2, <2>3 DEF Expected
  <1> QED BY <1>1, ProvisioningInvariant, PTL

\* When a new password is reported, no session of the last poll still runs on an
\* older one, except where strongSwan refused to close it (users.js:128-129).
THEOREM CutsOffTheorem == ProvisioningSpec => ResetCutsOff
  <1>1. ASSUME ProvisioningInv, [ProvisioningNext]_provisioningVars
        PROVE  [\A u \in Account : told'[u] > told[u] =>
                   \A s \in listed \ missed' :
                       session'[s].who = u => session'[s].with >= told'[u]]_provisioningVars
    <2> SUFFICES ASSUME NEW u \in Account, told'[u] > told[u],
                        NEW s \in listed \ missed', session'[s].who = u
        PROVE  session'[s].with >= told'[u]
      OBVIOUS
    <2>i. ProvisioningType /\ Advance /\ SessionsOpened
      BY <1>1 DEF ProvisioningInv
    <2>0. /\ ProvisioningType /\ listed \subseteq SessionId /\ told[u] \in Nat
          /\ session \in [SessionId -> [who : Account, with : Secret] \cup {Nowhere}]
          /\ "nobody" \notin Account /\ [ProvisioningNext]_provisioningVars
      BY <1>1, <2>i, ProvisioningConstants DEF ProvisioningType, Secret
    <2>1. PICK a \in Operator :
             /\ EndCreate(a) \/ EndReset(a)
             /\ request[a] \in KeyRequest /\ request[a].at = "done" /\ request[a].who = u
             /\ told'[u] = request[a].with
      <3>1. told'[u] # told[u]
        BY <2>0
      <3> HIDE DEF KeyRequest
      <3> QED BY <2>0, <3>1, ToldChanges
    <2>2. session'[s] # Nowhere
      BY <2>0 DEF Nowhere
    <2>3. CASE EndCreate(a)
      <3>1. session'[s] = session[s]
        BY <2>3 DEF EndCreate, saVars
      <3>2. told'[u] = 1
        BY <2>1, <2>3, <2>i DEF EndCreate, Advance
      <3>3. session[s].with >= 1
        BY <2>0, <2>2, <2>i, <3>1 DEF SessionsOpened
      <3> QED BY <3>1, <3>2, <3>3
    <2>4. CASE EndReset(a)
      <3>1. Cut(Listed(u))
        BY <2>1, <2>4 DEF EndReset, Disconnected
      <3>2. s \notin Listed(u)
        BY <2>0, <2>2, <3>1, CutSessions, ListedIds
      <3>3. session'[s] = session[s]
        BY <2>0, <2>2, <3>1, CutSessions, ListedIds
      <3> QED BY <3>2, <3>3 DEF Listed
    <2> QED BY <2>1, <2>3, <2>4
  <1> QED BY <1>1, ProvisioningInvariant, PTL DEF ProvisioningSpec, ResetCutsOff

=============================================================================
