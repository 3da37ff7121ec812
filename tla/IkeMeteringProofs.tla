-------------------------- MODULE IkeMeteringProofs --------------------------
(***************************************************************************)
(* For any children, SAs, ids, byte bounds and row age above two polls, as *)
(* long as list-sas never omits every CHILD_SA of an SA at once: IKEv2     *)
(* traffic is charged at most once and cursors are exact, pruning keeps    *)
(* the rows of SAs that are up, and a baseline forgives only an SA nothing *)
(* was ever charged of.                                                    *)
(*                                                                         *)
(* The inductive invariant follows an SA through the three places that     *)
(* name it, the daemon, the worker's reading and the row: all three use    *)
(* one id (OneId), a row never disagrees with an SA that is up             *)
(* (RowCurrent, RowYoung), and a child without a cursor in the row was     *)
(* never charged (Unmet, Uncursored, NothingListed).                       *)
(***************************************************************************)
EXTENDS IkeMetering, TLAPS

\* Daemon, reading or row say that id `i' is SA `x'.
Bears(i, x) == live[i] = x \/ reading[i].sa = x \/ row[i].sa = x

OneId == \A i, j \in Id, x \in Sa : Bears(i, x) /\ Bears(j, x) => i = j

\* SAs that were not set up yet are nowhere, and carried nothing.
Unborn ==
    \A x \in Sa : x > started =>
        /\ \A i \in Id : ~Bears(i, x)
        /\ \A c \in Child : carried[x][c] = 0

RowAccount == \A i \in Id : row[i].sa # NoSa => row[i].sa \in account

\* Where tick is in its list.
Progress ==
    /\ \A i \in left : reading[i].sa # NoSa
    /\ pc # "record" => left = {}

\* A row about an SA that is up is about the SA this tick lists.
RowCurrent ==
    \A i \in Id : pc # "idle" /\ live[i] # NoSa /\ row[i].sa = live[i]
                      => reading[i].sa = live[i]

\* A row this tick wrote cannot be pruned by it.
RowYoung ==
    \A i \in Id : pc # "idle" /\ i \notin left /\ reading[i].sa # NoSa
                      /\ row[i].sa = reading[i].sa => row[i].idle < Stale

Clear(x, c) == charged[x][c] = 0 /\ waived[x][c] = 0
HasCursor(i, x, c) == row[i].sa = x /\ row[i].at[c] # None
InReading(i, x) == i \in left /\ reading[i].sa = x

\* An SA without a row was never charged.
Unmet ==
    \A i \in Id, x \in account :
        (live[i] = x \/ InReading(i, x)) /\ row[i].sa # x => \A c \in Child : Clear(x, c)

\* Nor was a child that can still be recorded and has no cursor.
Uncursored ==
    \A i \in Id, x \in account, c \in Child :
        \/ live[i] = x /\ c \notin retired[x]
        \/ InReading(i, x) /\ c \in Listed(i)
        => HasCursor(i, x, c) \/ Clear(x, c)

\* A reading without children leaves out no child that was charged.
NothingListed ==
    \A i \in Id, x \in account, c \in Child :
        InReading(i, x) /\ Listed(i) = {} /\ c \notin retired[x] => Clear(x, c)

\* A reading lies between the row and what the daemon counted.
ReadingBetween ==
    \A i \in left : \A c \in Listed(i) :
        /\ reading[i].bytes[c] <= carried[reading[i].sa][c]
        /\ HasCursor(i, reading[i].sa, c) => row[i].at[c] <= reading[i].bytes[c]

IkeInv ==
    /\ TypeOK /\ ChargedOnce /\ CursorExact
    /\ OneId /\ Unborn /\ RowAccount /\ Progress /\ RowCurrent /\ RowYoung
    /\ Unmet /\ Uncursored /\ NothingListed /\ ReadingBetween

-----------------------------------------------------------------------------

LEMMA ConstantFacts ==
    /\ MaxSa \in Nat \ {0} /\ MaxId \in Nat \ {0} /\ MaxBytes \in Nat \ {0}
    /\ Stale \in Nat /\ Stale > 2
    /\ NoRow \in [sa : 0..MaxSa, at : [Child -> Bytes], idle : 0..Stale]
    /\ NoReading \in [Id -> [sa : 0..MaxSa, old : BOOLEAN, bytes : [Child -> Bytes]]]
    /\ Nothing \in Counters /\ Nothing \in [Sa -> [Child -> Nat]]
  BY IkeAssumption
  DEF IkeAssumption, NoRow, NoReading, Unlisted, Bytes, None, NoSa, Nothing, Counters

LEMMA InitInv == Init => IkeInv
  <1> SUFFICES ASSUME Init PROVE IkeInv
    OBVIOUS
  <1> USE ConstantFacts DEF Init
  <1>1. TypeOK
    BY DEF TypeOK, NoSa, Id, Old, Sa
  <1>2. \A i \in Id : live[i] = NoSa /\ row[i].sa = NoSa /\ reading[i].sa = NoSa
    BY DEF NoRow, NoReading
  <1>3. \A x \in Sa, c \in Child : carried[x][c] = 0 /\ Clear(x, c)
    BY DEF Nothing, Clear
  <1>4. \A x \in Sa, i \in Id : ~Bears(i, x)
    BY <1>2 DEF Bears, Sa, NoSa
  <1>5. ChargedOnce
    BY <1>3 DEF ChargedOnce, Clear
  <1>6. CursorExact
    BY <1>2 DEF CursorExact
  <1>7. OneId /\ Unborn
    BY <1>3, <1>4 DEF OneId, Unborn
  <1>8. RowAccount /\ Progress /\ RowCurrent /\ RowYoung
    BY <1>2 DEF RowAccount, Progress, RowCurrent, RowYoung
  <1>9. Unmet /\ Uncursored /\ NothingListed
    BY <1>3 DEF Unmet, Uncursored, NothingListed, TypeOK
  <1>10. ReadingBetween
    BY DEF ReadingBetween
  <1> QED
    BY <1>1, <1>5, <1>6, <1>7, <1>8, <1>9, <1>10 DEF IkeInv

-----------------------------------------------------------------------------
(* strongSwan, the clock and the administrator. *)

LEMMA UncarriedClear ==
    ASSUME IkeInv, NEW x \in Sa, NEW c \in Child, carried[x][c] = 0
    PROVE  Clear(x, c)
  <1>1. charged[x][c] \in Nat /\ waived[x][c] \in Nat
    BY ConstantFacts DEF IkeInv, TypeOK, Counters
  <1>2. charged[x][c] + waived[x][c] <= 0
    BY DEF IkeInv, ChargedOnce
  <1> QED
    BY <1>1, <1>2 DEF Clear

LEMMA ConnectInv == IkeInv /\ Connect => IkeInv'
  <1> SUFFICES ASSUME IkeInv, Connect PROVE IkeInv'
    OBVIOUS
  <1> USE ConstantFacts
  <1>0. PICK new \in Sa : new = started + 1
    BY DEF Connect, IkeInv, TypeOK, Sa
  <1>1. /\ UNCHANGED <<carried, retired, account, row, pc, reading, left, charged, waived>>
        /\ started' = new /\ nextId \in Id
        /\ live' = [live EXCEPT ![nextId] = new]
    BY <1>0 DEF Connect, tickVars, IkeInv, TypeOK, Id
  <1>2. TypeOK'
    <2>1. age' \in [Id -> 0..Old] /\ nextId' \in 1..(MaxId + 1)
      BY <1>1 DEF Connect, IkeInv, TypeOK, Id, Old
    <2>2. live' \in [Id -> 0..MaxSa] /\ started' \in 0..MaxSa
      BY <1>0, <1>1 DEF IkeInv, TypeOK, Sa
    <2> QED
      BY <1>1, <2>1, <2>2 DEF IkeInv, TypeOK
  <1>3. live \in [Id -> 0..MaxSa] /\ started \in 0..MaxSa /\ account \subseteq Sa
    BY DEF IkeInv, TypeOK
  <1>4. /\ \A i \in Id : live[i] # new /\ reading[i].sa # new /\ row[i].sa # new
        /\ \A c \in Child : carried[new][c] = 0
    BY <1>0, <1>1, <1>3 DEF IkeInv, Unborn, Bears
  <1>5. \A c \in Child : Clear(new, c)
    BY <1>0, <1>4, UncarriedClear
  <1>6. \A i \in Id : live'[i] = live[i] \/ live'[i] = new
    BY <1>1, <1>3
  <1>7. new # NoSa
    BY DEF Sa, NoSa
  <1>8. ChargedOnce' /\ CursorExact' /\ RowAccount' /\ Progress' /\ ReadingBetween'
    BY <1>1 DEF IkeInv, ChargedOnce, CursorExact, RowAccount, Progress, ReadingBetween,
                HasCursor, Listed
  <1>9. OneId'
    BY <1>0, <1>1, <1>3, <1>4 DEF IkeInv, OneId, Bears
  <1>10. Unborn'
    <2> SUFFICES ASSUME NEW x \in Sa, x > new
                 PROVE  /\ \A i \in Id : ~Bears(i, x)'
                        /\ \A c \in Child : carried[x][c] = 0
      BY <1>1 DEF Unborn
    <2>1. x > started /\ x # new
      BY <1>0, <1>3 DEF Sa
    <2> QED
      BY <1>1, <1>6, <2>1 DEF IkeInv, Unborn, Bears
  <1>11. RowCurrent' /\ RowYoung'
    BY <1>1, <1>4, <1>6, <1>7 DEF IkeInv, RowCurrent, RowYoung
  <1>12. Unmet'
    BY <1>1, <1>5, <1>6 DEF IkeInv, Unmet, InReading, Clear
  <1>13. Uncursored' /\ NothingListed'
    BY <1>1, <1>5, <1>6 DEF IkeInv, Uncursored, NothingListed, InReading, HasCursor, Listed, Clear
  <1> QED
    BY <1>2, <1>8, <1>9, <1>10, <1>11, <1>12, <1>13 DEF IkeInv

\* An SA that goes away takes its claims along and disturbs nothing else.
LEMMA LessLiveInv ==
    ASSUME IkeInv, TypeOK',
           UNCHANGED <<started, carried, retired, account, row, tickVars, charged, waived>>,
           \A i \in Id : live'[i] = live[i] \/ live'[i] = NoSa
    PROVE  IkeInv'
  <1> USE ConstantFacts
  <1>1. UNCHANGED <<started, carried, retired, account, row, pc, reading, left, charged, waived>>
    BY DEF tickVars
  <1>2. \A x \in Sa : x # NoSa
    BY DEF Sa, NoSa
  <1>3. account \subseteq Sa
    BY DEF IkeInv, TypeOK
  <1>4. ChargedOnce' /\ CursorExact' /\ RowAccount' /\ Progress' /\ ReadingBetween'
    BY <1>1 DEF IkeInv, ChargedOnce, CursorExact, RowAccount, Progress, ReadingBetween,
                HasCursor, Listed
  <1>5. \A i \in Id, x \in Sa : Bears(i, x)' => Bears(i, x)
    BY <1>1, <1>2 DEF Bears
  <1>6. OneId' /\ Unborn'
    BY <1>1, <1>5 DEF IkeInv, OneId, Unborn
  <1>7. RowCurrent' /\ RowYoung'
    BY <1>1 DEF IkeInv, RowCurrent, RowYoung
  <1>8. Unmet'
    BY <1>1, <1>2, <1>3 DEF IkeInv, Unmet, InReading, Clear
  <1>8a. Uncursored'
    BY <1>1, <1>2, <1>3 DEF IkeInv, Uncursored, InReading, HasCursor, Listed, Clear
  <1>8b. NothingListed'
    BY <1>1, <1>2, <1>3 DEF IkeInv, NothingListed, InReading, Listed, Clear
  <1> QED
    BY <1>4, <1>6, <1>7, <1>8, <1>8a, <1>8b DEF IkeInv

LEMMA DisconnectInv == ASSUME NEW i \in Id, IkeInv, Disconnect(i) PROVE IkeInv'
  <1> USE ConstantFacts
  <1>1. TypeOK'
    BY DEF IkeInv, TypeOK, Disconnect, tickVars, NoSa, Old
  <1>2. \A j \in Id : live'[j] = live[j] \/ live'[j] = NoSa
    BY DEF IkeInv, TypeOK, Disconnect
  <1> QED
    BY <1>1, <1>2, LessLiveInv DEF Disconnect

LEMMA DaemonRestartInv == IkeInv /\ DaemonRestart => IkeInv'
  <1> SUFFICES ASSUME IkeInv, DaemonRestart PROVE IkeInv'
    OBVIOUS
  <1> USE ConstantFacts
  <1>1. TypeOK'
    BY DEF IkeInv, TypeOK, DaemonRestart, tickVars, NoSa, Old
  <1>2. \A j \in Id : live'[j] = live[j] \/ live'[j] = NoSa
    BY DEF DaemonRestart
  <1> QED
    BY <1>1, <1>2, LessLiveInv DEF DaemonRestart

LEMMA CarryInv == ASSUME NEW i \in Id, NEW c \in Child, IkeInv, Carry(i, c) PROVE IkeInv'
  <1> USE ConstantFacts
  <1>1. UNCHANGED <<live, started, retired, account, row, pc, reading, left, charged, waived>>
    BY DEF Carry, tickVars
  <1>2. live[i] \in Sa
    BY DEF Carry, IkeInv, TypeOK, Sa, NoSa
  <1>3. TypeOK'
    BY <1>2 DEF IkeInv, TypeOK, Carry, tickVars, Counters
  <1>4. \A x \in Sa, d \in Child :
            /\ carried[x][d] <= carried'[x][d]
            /\ x # live[i] => carried'[x][d] = carried[x][d]
    BY <1>2 DEF IkeInv, TypeOK, Carry, Counters
  <1>5. ChargedOnce'
    BY <1>1, <1>3, <1>4 DEF IkeInv, TypeOK, ChargedOnce, Counters
  <1>6. CursorExact' /\ OneId' /\ RowAccount' /\ Progress' /\ RowCurrent' /\ RowYoung'
    BY <1>1 DEF IkeInv, CursorExact, OneId, Bears, RowAccount, Progress, RowCurrent, RowYoung
  <1>7. Unborn'
    BY <1>1, <1>2, <1>4 DEF IkeInv, Unborn, Bears
  <1>8. Unmet' /\ Uncursored' /\ NothingListed'
    BY <1>1 DEF IkeInv, Unmet, Uncursored, NothingListed, InReading, HasCursor, Listed, Clear
  <1>9. ReadingBetween'
    <2> SUFFICES ASSUME NEW j \in left, NEW d \in Listed(j)
                 PROVE  /\ reading[j].bytes[d] <= carried'[reading[j].sa][d]
                        /\ HasCursor(j, reading[j].sa, d) => row[j].at[d] <= reading[j].bytes[d]
      BY <1>1 DEF ReadingBetween, HasCursor, Listed
    <2>1. j \in Id /\ reading[j].sa \in Sa /\ d \in Child /\ reading[j].bytes[d] \in Bytes
      <3>1. j \in Id /\ d \in Child
        BY DEF IkeInv, TypeOK, Listed
      <3>2. reading[j].sa \in 0..MaxSa /\ reading[j].bytes \in [Child -> Bytes]
        BY <3>1 DEF IkeInv, TypeOK
      <3>3. reading[j].sa # NoSa
        BY DEF IkeInv, Progress
      <3> QED
        BY <3>1, <3>2, <3>3 DEF Sa, NoSa
    <2>2. carried[reading[j].sa][d] \in Nat /\ carried'[reading[j].sa][d] \in Nat
      BY <1>3, <2>1 DEF IkeInv, TypeOK, Counters
    <2> QED
      BY <1>4, <2>1, <2>2 DEF IkeInv, ReadingBetween, Bytes, None
  <1> QED
    BY <1>3, <1>5, <1>6, <1>7, <1>8, <1>9 DEF IkeInv

LEMMA RetireInv == ASSUME NEW i \in Id, NEW c \in Child, IkeInv, Retire(i, c) PROVE IkeInv'
  <1> USE ConstantFacts
  <1>1. UNCHANGED <<live, started, carried, account, row, pc, reading, left, charged, waived>>
    BY DEF Retire, tickVars
  <1>2. TypeOK'
    BY DEF IkeInv, TypeOK, Retire, tickVars
  <1>3. \A x \in Sa : retired[x] \subseteq retired'[x]
    BY DEF IkeInv, TypeOK, Retire
  <1>4. account \subseteq Sa
    BY DEF IkeInv, TypeOK
  <1>5. /\ ChargedOnce' /\ CursorExact' /\ OneId' /\ Unborn' /\ RowAccount' /\ Progress'
        /\ RowCurrent' /\ RowYoung' /\ ReadingBetween'
    BY <1>1 DEF IkeInv, ChargedOnce, CursorExact, OneId, Bears, Unborn, RowAccount, Progress,
                RowCurrent, RowYoung, ReadingBetween, HasCursor, Listed
  <1>6. Unmet'
    BY <1>1, <1>3, <1>4 DEF IkeInv, Unmet, InReading, Clear
  <1>6a. Uncursored'
    BY <1>1, <1>3, <1>4 DEF IkeInv, Uncursored, InReading, HasCursor, Listed, Clear
  <1>6b. NothingListed'
    BY <1>1, <1>3, <1>4 DEF IkeInv, NothingListed, InReading, Listed, Clear
  <1> QED
    BY <1>2, <1>5, <1>6, <1>6a, <1>6b DEF IkeInv

LEMMA ElapseInv == IkeInv /\ Elapse => IkeInv'
  <1> SUFFICES ASSUME IkeInv, Elapse PROVE IkeInv'
    OBVIOUS
  <1> USE ConstantFacts
  <1>1. UNCHANGED <<live, started, nextId, carried, retired, account, pc, reading, left, charged, waived>>
    BY DEF Elapse, tickVars
  <1>2. /\ row \in [Id -> [sa : 0..MaxSa, at : [Child -> Bytes], idle : 0..Stale]]
        /\ age \in [Id -> 0..Old] /\ left \subseteq Id /\ account \subseteq Sa
    BY DEF IkeInv, TypeOK
  <1>3. \A i \in Id : row'[i] = IF row[i].sa = NoSa THEN row[i]
                                ELSE [row[i] EXCEPT !.idle = Later(row[i].idle, Stale)]
    BY DEF Elapse
  <1>a. \A t, cap \in Nat : t <= cap => /\ Later(t, cap) \in 0..cap
                                        /\ t + 1 < cap => Later(t, cap) = t + 1
    BY DEF Later
  <1>b. \A i \in Id :
            /\ row[i] \in [sa : 0..MaxSa, at : [Child -> Bytes], idle : 0..Stale]
            /\ row[i].idle \in 0..Stale /\ row[i].idle \in Nat /\ row[i].idle <= Stale
    BY <1>2
  <1>4. \A i \in Id : row'[i].sa = row[i].sa /\ row'[i].at = row[i].at
    <2> SUFFICES ASSUME NEW i \in Id
                 PROVE  row'[i].sa = row[i].sa /\ row'[i].at = row[i].at
      OBVIOUS
    <2> QED
      BY <1>b, <1>3
  <1>5. TypeOK'
    <2>1. age' \in [Id -> 0..Old]
      <3>1. \A i \in Id : age[i] \in Nat /\ age[i] <= Old /\ Old \in Nat /\ 0 \in 0..Old
        <4>1. \A i \in Id : age[i] \in 0..Old
          BY <1>2
        <4> QED
          BY <4>1 DEF Old
      <3>2. \A i \in Id : Later(age[i], Old) \in 0..Old
        BY <1>a, <3>1
      <3> QED
        BY <3>1, <3>2 DEF Elapse
    <2>2. \A i \in Id : row'[i] \in [sa : 0..MaxSa, at : [Child -> Bytes], idle : 0..Stale]
      <3> SUFFICES ASSUME NEW i \in Id
                   PROVE  row'[i] \in [sa : 0..MaxSa, at : [Child -> Bytes], idle : 0..Stale]
        OBVIOUS
      <3>1. Later(row[i].idle, Stale) \in 0..Stale
        BY <1>a, <1>b
      <3> QED
        BY <1>b, <1>3, <3>1
    <2>3. row' \in [Id -> [sa : 0..MaxSa, at : [Child -> Bytes], idle : 0..Stale]]
      BY <2>2 DEF Elapse
    <2> QED
      BY <1>1, <2>1, <2>3 DEF IkeInv, TypeOK
  <1>6. ChargedOnce' /\ CursorExact' /\ RowAccount' /\ Progress'
    BY <1>1, <1>4 DEF IkeInv, ChargedOnce, CursorExact, RowAccount, Progress
  <1>7. OneId' /\ Unborn' /\ RowCurrent'
    BY <1>1, <1>4 DEF IkeInv, OneId, Unborn, Bears, RowCurrent
  <1>8. RowYoung'
    <2> SUFFICES ASSUME NEW i \in Id, pc # "idle", i \notin left, reading[i].sa # NoSa,
                        row[i].sa = reading[i].sa
                 PROVE  row'[i].idle < Stale
      BY <1>1, <1>4 DEF RowYoung
    <2>1. row[i].idle \in Nat /\ row[i].idle + 1 < Stale
      BY <1>2 DEF Elapse
    <2>2. row'[i].idle = Later(row[i].idle, Stale)
      <3>1. row[i].sa # NoSa
        OBVIOUS
      <3> QED
        BY <1>b, <1>3, <3>1
    <2> QED
      BY <1>a, <1>b, <2>1, <2>2
  <1>9. Unmet'
    BY <1>1, <1>2, <1>4 DEF IkeInv, Unmet, InReading, Clear
  <1>10. Uncursored'
    BY <1>1, <1>2, <1>4 DEF IkeInv, Uncursored, InReading, HasCursor, Listed, Clear
  <1>11. NothingListed'
    BY <1>1, <1>2, <1>4 DEF IkeInv, NothingListed, InReading, Listed, Clear
  <1>12. ReadingBetween'
    BY <1>1, <1>2, <1>4 DEF IkeInv, ReadingBetween, HasCursor, Listed
  <1> QED
    BY <1>5, <1>6, <1>7, <1>8, <1>9, <1>10, <1>11, <1>12 DEF IkeInv

LEMMA RemoveUserInv == ASSUME NEW y \in Sa, IkeInv, RemoveUser(y) PROVE IkeInv'
  <1> USE ConstantFacts
  <1>1. UNCHANGED <<live, age, started, nextId, carried, retired, pc, reading, left, charged, waived>>
    BY DEF RemoveUser, swanVars, tickVars
  <1>2. account' = account \ {y} /\ account \subseteq Sa
    BY DEF RemoveUser, IkeInv, TypeOK
  <1>3. \A i \in Id : row'[i] = IF row[i].sa = y THEN NoRow ELSE row[i]
    BY DEF RemoveUser
  <1>4. /\ \A i \in Id : row'[i] = row[i] \/ row'[i].sa = NoSa
        /\ \A i \in Id : row[i].sa # y => row'[i] = row[i]
        /\ \A i \in Id : row'[i].sa # y
    <2>1. NoRow.sa = NoSa /\ y # NoSa
      BY DEF NoRow, Sa, NoSa
    <2> QED
      BY <1>3, <2>1
  <1>5. left \subseteq Id /\ \A x \in Sa : x # NoSa
    BY DEF IkeInv, TypeOK, Sa, NoSa
  <1>6. TypeOK'
    <2>1. row' \in [Id -> [sa : 0..MaxSa, at : [Child -> Bytes], idle : 0..Stale]]
      BY DEF RemoveUser, IkeInv, TypeOK
    <2> QED
      BY <1>1, <1>2, <2>1 DEF IkeInv, TypeOK
  <1>7. ChargedOnce' /\ CursorExact' /\ Progress'
    BY <1>1, <1>4 DEF IkeInv, ChargedOnce, CursorExact, Progress
  <1>8. \A i \in Id, x \in Sa : Bears(i, x)' => Bears(i, x)
    BY <1>1, <1>4, <1>5 DEF Bears
  <1>9. OneId' /\ Unborn'
    BY <1>1, <1>8 DEF IkeInv, OneId, Unborn
  <1>10. RowAccount'
    BY <1>2, <1>4 DEF IkeInv, RowAccount
  <1>11. RowCurrent' /\ RowYoung'
    BY <1>1, <1>4, <1>5 DEF IkeInv, RowCurrent, RowYoung
  <1>12. Unmet'
    BY <1>1, <1>2, <1>4 DEF IkeInv, Unmet, InReading, Clear
  <1>13. Uncursored'
    BY <1>1, <1>2, <1>4 DEF IkeInv, Uncursored, InReading, HasCursor, Listed, Clear
  <1>14. NothingListed'
    BY <1>1, <1>2 DEF IkeInv, NothingListed, InReading, Listed, Clear
  <1>15. ReadingBetween'
    <2> SUFFICES ASSUME NEW j \in left, NEW d \in Listed(j)
                 PROVE  /\ reading[j].bytes[d] <= carried[reading[j].sa][d]
                        /\ HasCursor(j, reading[j].sa, d)' => row'[j].at[d] <= reading[j].bytes[d]
      BY <1>1 DEF ReadingBetween, HasCursor, Listed
    <2>1. reading[j].sa # NoSa
      BY DEF IkeInv, Progress
    <2>2. HasCursor(j, reading[j].sa, d)' => row'[j] = row[j]
      BY <1>1, <1>4, <1>5, <2>1 DEF HasCursor
    <2> QED
      BY <1>1, <2>2 DEF IkeInv, ReadingBetween, HasCursor
  <1> QED
    BY <1>6, <1>7, <1>9, <1>10, <1>11, <1>12, <1>13, <1>14, <1>15 DEF IkeInv

-----------------------------------------------------------------------------
(* The worker. *)

\* What the worker's tick read is forgotten when it ends.
LEMMA EndTickInv ==
    ASSUME IkeInv, EndTick, TypeOK',
           UNCHANGED <<swanVars, account, charged, waived>>,
           \A i \in Id : row'[i] = row[i] \/ row'[i].sa = NoSa,
           \A i \in Id : live[i] # NoSa /\ row[i].sa = live[i] => row'[i] = row[i]
    PROVE  IkeInv'
  <1> USE ConstantFacts
  <1>1. UNCHANGED <<live, age, started, nextId, carried, retired, account, charged, waived>>
    BY DEF swanVars
  <1>2. pc' = "idle" /\ left' = {} /\ \A i \in Id : reading'[i].sa = NoSa
    BY DEF EndTick, NoReading
  <1>3. account \subseteq Sa /\ \A x \in Sa : x # NoSa
    BY DEF IkeInv, TypeOK, Sa, NoSa
  <1>4. ChargedOnce' /\ CursorExact' /\ RowAccount' /\ Progress'
    BY <1>1, <1>2 DEF IkeInv, ChargedOnce, CursorExact, RowAccount, Progress
  <1>5. \A i \in Id, x \in Sa : Bears(i, x)' => Bears(i, x)
    BY <1>1, <1>2, <1>3 DEF Bears
  <1>6. OneId' /\ Unborn'
    BY <1>1, <1>5 DEF IkeInv, OneId, Unborn
  <1>7. RowCurrent' /\ RowYoung'
    BY <1>2 DEF RowCurrent, RowYoung
  <1>8. Unmet'
    BY <1>1, <1>2, <1>3 DEF IkeInv, Unmet, InReading, Clear
  <1>9. Uncursored'
    BY <1>1, <1>2, <1>3 DEF IkeInv, Uncursored, InReading, HasCursor, Clear
  <1>10. NothingListed' /\ ReadingBetween'
    BY <1>2 DEF NothingListed, ReadingBetween, InReading
  <1> QED
    BY <1>4, <1>6, <1>7, <1>8, <1>9, <1>10 DEF IkeInv

LEMMA AbandonInv == IkeInv /\ Abandon => IkeInv'
  <1> SUFFICES ASSUME IkeInv, Abandon PROVE IkeInv'
    OBVIOUS
  <1>1. TypeOK'
    BY ConstantFacts DEF IkeInv, TypeOK, Abandon, EndTick, swanVars
  <1> QED
    BY <1>1, EndTickInv DEF Abandon

\* The row of an SA that is up was written by this very tick.
LEMMA PruneKeeps ==
    ASSUME IkeInv, Prune, NEW i \in Id, live[i] # NoSa, row[i].sa = live[i]
    PROVE  row'[i] = row[i]
  <1>1. reading[i].sa = live[i]
    BY DEF Prune, IkeInv, RowCurrent
  <1>2. i \notin left
    BY DEF Prune, IkeInv, Progress
  <1>3. row[i].idle < Stale
    BY <1>1, <1>2 DEF Prune, IkeInv, RowYoung
  <1>4. row[i].idle \in Nat /\ Stale \in Nat
    BY ConstantFacts DEF IkeInv, TypeOK
  <1> QED
    BY <1>3, <1>4 DEF Prune

LEMMA PruneInv == IkeInv /\ Prune => IkeInv'
  <1> SUFFICES ASSUME IkeInv, Prune PROVE IkeInv'
    OBVIOUS
  <1> USE ConstantFacts
  <1>1. TypeOK'
    <2>1. row' \in [Id -> [sa : 0..MaxSa, at : [Child -> Bytes], idle : 0..Stale]]
      BY DEF Prune, IkeInv, TypeOK
    <2> QED
      BY <2>1 DEF IkeInv, TypeOK, Prune, EndTick, swanVars
  <1>2. \A i \in Id : row'[i] = row[i] \/ row'[i].sa = NoSa
    BY DEF Prune, NoRow
  <1> QED
    BY <1>1, <1>2, PruneKeeps, EndTickInv DEF Prune

\* The only step that needs list-sas never to omit every child of an SA.
LEMMA ListInv == ASSUME ~EmptyLists, IkeInv, List PROVE IkeInv'
  <1> USE ConstantFacts
  <1>1. UNCHANGED <<live, age, started, nextId, carried, retired, account, row, charged, waived>>
    BY DEF List, swanVars
  <1>2. PICK L \in [Id -> SUBSET Child] :
            /\ \A i \in Id : IF live[i] = NoSa THEN L[i] = {} ELSE Visible(live[i], L[i])
            /\ reading' = [i \in Id |-> IF live[i] = NoSa THEN NoReading[i]
                                        ELSE Listing(live[i], age[i] = Old, L[i])]
    BY DEF List
  <1>3. left' = {i \in Id : live[i] # NoSa} /\ pc' \in {"record", "enforce"}
        /\ (pc' # "record" => left' = {})
    BY DEF List
  <1>4. /\ live \in [Id -> 0..MaxSa] /\ account \subseteq Sa /\ \A x \in Sa : x # NoSa
        /\ \A i \in Id : live[i] # NoSa => live[i] \in Sa
    BY DEF IkeInv, TypeOK, Sa, NoSa
  <1>5. \A i \in Id : reading'[i].sa = live[i]
    BY <1>2 DEF Listing, NoReading
  <1>6. \A i \in Id : live[i] # NoSa =>
            reading'[i].bytes = [c \in Child |-> IF c \in L[i] THEN carried[live[i]][c] ELSE None]
    BY <1>2 DEF Listing
  <1>7. \A i \in Id, c \in Child : live[i] # NoSa =>
            carried[live[i]][c] \in 0..MaxBytes /\ carried[live[i]][c] # None
    BY <1>4 DEF IkeInv, TypeOK, Counters, None
  <1>8. \A i \in Id : live[i] # NoSa =>
            /\ Listed(i)' = L[i]
            /\ \A c \in L[i] : reading'[i].bytes[c] = carried[live[i]][c]
    <2> SUFFICES ASSUME NEW i \in Id, live[i] # NoSa
                 PROVE  /\ Listed(i)' = L[i]
                        /\ \A c \in L[i] : reading'[i].bytes[c] = carried[live[i]][c]
      OBVIOUS
    <2>1. L[i] \subseteq Child
      BY <1>2
    <2>2. \A c \in Child : reading'[i].bytes[c] = IF c \in L[i] THEN carried[live[i]][c] ELSE None
      BY <1>6
    <2>3. \A c \in Child : reading'[i].bytes[c] # None <=> c \in L[i]
      BY <1>7, <2>2
    <2> QED
      BY <2>1, <2>2, <2>3 DEF Listed
  <1>9. TypeOK'
    <2>1. \A i \in Id : live[i] # NoSa => reading'[i].bytes \in [Child -> Bytes]
      <3>1. None \in Bytes /\ 0..MaxBytes \subseteq Bytes
        BY DEF Bytes, None
      <3> SUFFICES ASSUME NEW i \in Id, live[i] # NoSa
                   PROVE  reading'[i].bytes \in [Child -> Bytes]
        OBVIOUS
      <3>2. \A c \in Child : carried[live[i]][c] \in Bytes
        BY <1>7, <3>1
      <3> QED
        BY <1>6, <3>1, <3>2
    <2>2. \A i \in Id : reading'[i] \in [sa : 0..MaxSa, old : BOOLEAN, bytes : [Child -> Bytes]]
      <3> SUFFICES ASSUME NEW i \in Id
                   PROVE  reading'[i] \in [sa : 0..MaxSa, old : BOOLEAN, bytes : [Child -> Bytes]]
        OBVIOUS
      <3>1. CASE live[i] = NoSa
        BY <1>2, <3>1
      <3>2. CASE live[i] # NoSa
        <4>1. reading'[i] = Listing(live[i], age[i] = Old, L[i])
          BY <1>2, <3>2
        <4>2. reading'[i] = [sa |-> live[i], old |-> reading'[i].old, bytes |-> reading'[i].bytes]
          BY <4>1 DEF Listing
        <4>3. reading'[i].old \in BOOLEAN
          BY <4>1 DEF Listing
        <4>4. live[i] \in 0..MaxSa
          BY <1>4
        <4> QED
          BY <2>1, <3>2, <4>2, <4>3, <4>4
      <3> QED
        BY <3>1, <3>2
    <2>3. reading' \in [Id -> [sa : 0..MaxSa, old : BOOLEAN, bytes : [Child -> Bytes]]]
      BY <1>2, <2>2
    <2> QED
      BY <1>1, <1>3, <2>3 DEF IkeInv, TypeOK
  <1>10. ChargedOnce' /\ CursorExact' /\ RowAccount' /\ Progress'
    BY <1>1, <1>3, <1>5 DEF IkeInv, ChargedOnce, CursorExact, RowAccount, Progress
  <1>11. \A i \in Id, x \in Sa : Bears(i, x)' => Bears(i, x)
    BY <1>1, <1>5 DEF Bears
  <1>12. OneId' /\ Unborn'
    BY <1>1, <1>11 DEF IkeInv, OneId, Unborn
  <1>13. RowCurrent' /\ RowYoung'
    BY <1>1, <1>3, <1>5 DEF RowCurrent, RowYoung
  <1>14. Unmet'
    BY <1>1, <1>4, <1>5 DEF IkeInv, Unmet, InReading, Clear
  <1>15. \A i \in Id : live[i] # NoSa => L[i] \cap retired[live[i]] = {}
    BY <1>2 DEF Visible
  <1>16. Uncursored'
    BY <1>1, <1>4, <1>5, <1>8, <1>15 DEF IkeInv, Uncursored, InReading, HasCursor, Clear
  <1>17. NothingListed'
    <2> SUFFICES ASSUME NEW i \in Id, NEW x \in account, NEW c \in Child,
                        InReading(i, x)', Listed(i)' = {}, c \notin retired[x]
                 PROVE  Clear(x, c)
      BY <1>1 DEF NothingListed, Clear
    <2>1. live[i] = x /\ x \in Sa /\ x # NoSa
      BY <1>4, <1>5 DEF InReading
    <2>2. L[i] = {} /\ Visible(x, L[i])
      BY <1>2, <1>8, <2>1
    <2>3. carried[x][c] = 0
      BY <2>2 DEF Visible
    <2> QED
      BY <2>1, <2>3, UncarriedClear
  <1>18. ReadingBetween'
    <2> SUFFICES ASSUME NEW i \in Id, live[i] # NoSa, NEW c \in L[i]
                 PROVE  /\ reading'[i].bytes[c] <= carried[live[i]][c]
                        /\ HasCursor(i, live[i], c) => row[i].at[c] <= reading'[i].bytes[c]
      BY <1>1, <1>3, <1>5, <1>8 DEF ReadingBetween, HasCursor
    <2>1. c \in Child /\ reading'[i].bytes[c] = carried[live[i]][c] /\ carried[live[i]][c] \in Nat
      BY <1>2, <1>7, <1>8
    <2>2. HasCursor(i, live[i], c) => row[i].at[c] <= carried[live[i]][c]
      <3> SUFFICES ASSUME HasCursor(i, live[i], c) PROVE row[i].at[c] <= carried[live[i]][c]
        OBVIOUS
      <3>1. row[i].sa = live[i] /\ row[i].at[c] # None /\ live[i] \in Sa
        BY <1>4 DEF HasCursor
      <3>2. charged[live[i]][c] + waived[live[i]][c] = row[i].at[c]
        BY <2>1, <3>1 DEF IkeInv, CursorExact
      <3> QED
        BY <2>1, <3>1, <3>2 DEF IkeInv, ChargedOnce
    <2> QED
      BY <2>1, <2>2
  <1> QED
    BY <1>9, <1>10, <1>12, <1>13, <1>14, <1>16, <1>17, <1>18 DEF IkeInv

\* What one transaction makes of child `c': a listed child is settled up to
\* the reading, any other is left alone.
LEMMA SettledUp ==
    ASSUME IkeInv, NEW i \in Id, Record(i), NEW x \in account, x = reading[i].sa,
           NEW c \in Child
    PROVE  /\ charged'[x][c] \in Nat /\ waived'[x][c] \in Nat
           /\ c \notin Listed(i) => /\ charged'[x][c] = charged[x][c]
                                    /\ waived'[x][c] = waived[x][c]
           /\ c \in Listed(i) => charged'[x][c] + waived'[x][c] = reading[i].bytes[c]
  <1> USE ConstantFacts
  <1> DEFINE b == reading[i].bytes[c]
  <1>1. x \in Sa /\ x # NoSa /\ InReading(i, x) /\ i \in left
    <2>1. x \in Sa /\ i \in left
      BY DEF Record, IkeInv, TypeOK
    <2> QED
      BY <2>1 DEF InReading, Sa, NoSa
  <1>2. charged[x][c] \in Nat /\ waived[x][c] \in Nat
    BY <1>1 DEF IkeInv, TypeOK, Counters
  <1>3. charged'[x] = [d \in Child |-> charged[x][d] + Due(i, d)]
    BY <1>1 DEF Record, Settle, IkeInv, TypeOK, Counters
  <1>4. charged'[x][c] = charged[x][c] + Due(i, c)
    BY <1>3
  <1>5. /\ ~Baseline(i) => waived'[x][c] = waived[x][c]
        /\ c \notin Listed(i) => waived'[x][c] = waived[x][c]
        /\ Baseline(i) /\ c \in Listed(i) => waived'[x][c] = b - charged[x][c]
    <2>1. waived \in [Sa -> [Child -> Nat]]
      BY DEF IkeInv, TypeOK
    <2>2. CASE ~Baseline(i)
      BY <2>2 DEF Record, Settle
    <2>3. CASE Baseline(i)
      <3>1. waived'[x] = [d \in Child |-> IF d \in Listed(i)
                                          THEN reading[i].bytes[d] - charged[x][d] ELSE waived[x][d]]
        BY <1>1, <2>1, <2>3 DEF Record, Settle
      <3> QED
        BY <2>3, <3>1
    <2> QED
      BY <2>2, <2>3
  <1>6. CASE c \notin Listed(i)
    BY <1>2, <1>4, <1>5, <1>6 DEF Due
  <1>7. CASE c \in Listed(i)
    <2>1. b \in Nat
      <3>1. b \in Bytes /\ b # None
        BY <1>7 DEF Listed, IkeInv, TypeOK
      <3> QED
        BY <3>1 DEF Bytes, None
    <2>2. CASE Baseline(i)
      <3>1. Clear(x, c)
        BY <1>1, <2>2 DEF Baseline, IkeInv, Unmet
      <3>2. Due(i, c) = 0
        BY <2>2 DEF Due
      <3> QED
        BY <1>4, <1>5, <1>7, <2>1, <2>2, <3>1, <3>2 DEF Clear
    <2>3. CASE ~Baseline(i) /\ HasCursor(i, x, c)
      <3>1. Last(i, c) = row[i].at[c] /\ row[i].at[c] # None /\ row[i].sa = x
        BY <2>3 DEF HasCursor, Last, Same
      <3>2. row[i].at[c] <= b
        BY <1>1, <1>7, <2>3 DEF IkeInv, ReadingBetween
      <3>3. charged[x][c] + waived[x][c] = row[i].at[c]
        BY <1>1, <3>1 DEF IkeInv, CursorExact
      <3>4. row[i].at[c] \in Nat
        BY <1>2, <3>3
      <3>5. Due(i, c) = b - row[i].at[c]
        BY <1>7, <2>1, <2>3, <3>1, <3>2, <3>4 DEF Due, Delta
      <3> QED
        BY <1>2, <1>4, <1>5, <1>7, <2>1, <2>3, <3>2, <3>3, <3>4, <3>5
    <2>4. CASE ~Baseline(i) /\ ~HasCursor(i, x, c)
      <3>1. Clear(x, c)
        BY <1>1, <1>7, <2>4 DEF IkeInv, Uncursored
      <3>2. Last(i, c) = None
        BY <2>4 DEF HasCursor, Last, Same
      <3>3. Due(i, c) = b
        BY <1>7, <2>1, <2>4, <3>2 DEF Due, Delta
      <3> QED
        BY <1>4, <1>5, <1>7, <2>1, <2>4, <3>1, <3>3 DEF Clear
    <2> QED
      BY <1>7, <2>2, <2>3, <2>4
  <1> QED
    BY <1>6, <1>7

\* A listed SA whose account is gone is skipped.
LEMMA RecordSkippedInv ==
    ASSUME IkeInv, NEW i \in Id, Record(i), reading[i].sa \notin account
    PROVE  IkeInv'
  <1> USE ConstantFacts
  <1>1. UNCHANGED <<live, age, started, nextId, carried, retired, account, row, reading, charged, waived>>
    BY DEF Record, swanVars
  <1>2. /\ pc = "record" /\ i \in left /\ left' = left \ {i} /\ left \subseteq Id
        /\ pc' \in {"record", "enforce"} /\ (pc' # "record" => left' = {})
    BY DEF Record, IkeInv, TypeOK
  <1>3. TypeOK'
    BY <1>1, <1>2 DEF IkeInv, TypeOK
  <1>4. ChargedOnce' /\ CursorExact' /\ OneId' /\ Unborn' /\ RowAccount'
    BY <1>1 DEF IkeInv, ChargedOnce, CursorExact, OneId, Unborn, Bears, RowAccount
  <1>5. Progress' /\ RowCurrent'
    BY <1>1, <1>2 DEF IkeInv, Progress, RowCurrent
  <1>6. RowYoung'
    BY <1>1, <1>2 DEF IkeInv, RowYoung, RowAccount
  <1>7. Unmet'
    BY <1>1, <1>2 DEF IkeInv, Unmet, InReading, Clear
  <1>8. Uncursored'
    BY <1>1, <1>2 DEF IkeInv, Uncursored, InReading, HasCursor, Listed, Clear
  <1>9. NothingListed'
    BY <1>1, <1>2 DEF IkeInv, NothingListed, InReading, Listed, Clear
  <1>10. ReadingBetween'
    BY <1>1, <1>2 DEF IkeInv, ReadingBetween, HasCursor, Listed
  <1> QED
    BY <1>3, <1>4, <1>5, <1>6, <1>7, <1>8, <1>9, <1>10 DEF IkeInv

LEMMA RecordKnownInv ==
    ASSUME IkeInv, NEW i \in Id, Record(i), NEW x \in account, x = reading[i].sa
    PROVE  IkeInv'
  <1> USE ConstantFacts
  <1>1. UNCHANGED <<live, age, started, nextId, carried, retired, account, reading>>
    BY DEF Record, swanVars
  <1>2. /\ pc = "record" /\ i \in left /\ left' = left \ {i} /\ left \subseteq Id
        /\ pc' \in {"record", "enforce"} /\ (pc' # "record" => left' = {})
    BY DEF Record, IkeInv, TypeOK
  <1>3. x \in Sa /\ x # NoSa /\ InReading(i, x) /\ account \subseteq Sa /\ \A y \in Sa : y # NoSa
    BY <1>2 DEF IkeInv, TypeOK, InReading, Sa, NoSa
  <1>4. row' = [row EXCEPT ![i] = Written(i)]
    BY DEF Record
  <1>5. /\ row'[i].sa = x /\ row'[i].at = Cursors(i) /\ row'[i].idle = 0
        /\ \A j \in Id : j # i => row'[j] = row[j]
    BY <1>4 DEF Written, IkeInv, TypeOK
  <1>6. /\ \A y \in Sa : y # x => charged'[y] = charged[y] /\ waived'[y] = waived[y]
        /\ charged' = [charged EXCEPT ![x] = charged'[x]]
        /\ waived' = [waived EXCEPT ![x] = waived'[x]]
    BY <1>3 DEF Record, Settle, IkeInv, TypeOK, Counters
  <1>7. \A c \in Child :
            /\ charged'[x][c] \in Nat /\ waived'[x][c] \in Nat
            /\ c \notin Listed(i) => /\ charged'[x][c] = charged[x][c]
                                     /\ waived'[x][c] = waived[x][c]
            /\ c \in Listed(i) => charged'[x][c] + waived'[x][c] = reading[i].bytes[c]
    BY SettledUp
  <1>8. \A c \in Listed(i) : reading[i].bytes[c] <= carried[x][c]
    BY <1>2 DEF IkeInv, ReadingBetween
  <1>9. Listed(i) \subseteq Child /\ \A c \in Child : Last(i, c) \in Bytes /\ Unlisted[c] = None
    BY DEF Listed, Last, IkeInv, TypeOK, Bytes, None, Unlisted
  <1>10. \A c \in Child : carried[x][c] \in 0..MaxBytes
    BY <1>3 DEF IkeInv, TypeOK, Counters
  <1>11. \A j \in Id, y \in Sa : j # i /\ (live[j] = y \/ reading[j].sa = y \/ row[j].sa = y) => y # x
    BY <1>3 DEF IkeInv, OneId, Bears
  <1>12. ChargedOnce'
    <2> SUFFICES ASSUME NEW y \in Sa, NEW c \in Child
                 PROVE  charged'[y][c] + waived'[y][c] <= carried[y][c]
      BY <1>1 DEF ChargedOnce
    <2>1. CASE y = x /\ c \in Listed(i)
      BY <1>7, <1>8, <2>1
    <2>2. CASE y # x \/ c \notin Listed(i)
      <3>1. charged'[y][c] = charged[y][c] /\ waived'[y][c] = waived[y][c]
        BY <1>6, <1>7, <2>2
      <3> QED
        BY <3>1 DEF IkeInv, ChargedOnce
    <2> QED
      BY <2>1, <2>2
  <1>13. TypeOK'
    <2>1. \A c \in Child : charged'[x][c] \in 0..MaxBytes
      BY <1>3, <1>7, <1>10, <1>12, <1>1 DEF ChargedOnce
    <2>2. /\ charged'[x] = [c \in Child |-> charged'[x][c]]
          /\ waived'[x] = [c \in Child |-> waived'[x][c]]
      <3>1. charged'[x] = [c \in Child |-> charged[x][c] + Due(i, c)]
        BY <1>3 DEF Record, Settle, IkeInv, TypeOK, Counters
      <3>2. CASE Baseline(i)
        <4>1. waived'[x] = [c \in Child |-> IF c \in Listed(i)
                                THEN reading[i].bytes[c] - charged[x][c] ELSE waived[x][c]]
          BY <1>3, <3>2 DEF Record, Settle, IkeInv, TypeOK
        <4> QED
          BY <3>1, <4>1
      <3>3. CASE ~Baseline(i)
        BY <1>3, <3>1, <3>3 DEF Record, Settle, IkeInv, TypeOK
      <3> QED
        BY <3>2, <3>3
    <2>3. charged' \in Counters /\ waived' \in [Sa -> [Child -> Nat]]
      <3>1. charged'[x] \in [Child -> 0..MaxBytes] /\ waived'[x] \in [Child -> Nat]
        BY <1>7, <2>1, <2>2
      <3> QED
        BY <1>6, <3>1 DEF IkeInv, TypeOK, Counters
    <2>4. Cursors(i) \in [Child -> Bytes]
      <3>1. reading[i].bytes \in [Child -> Bytes] /\ Unlisted \in [Child -> Bytes]
        BY DEF IkeInv, TypeOK, Unlisted, Bytes, None
      <3> QED
        BY <1>9, <3>1 DEF Cursors
    <2>5. row' \in [Id -> [sa : 0..MaxSa, at : [Child -> Bytes], idle : 0..Stale]]
      <3>1. Written(i) \in [sa : 0..MaxSa, at : [Child -> Bytes], idle : 0..Stale]
        BY <1>3, <2>4 DEF Written, IkeInv, TypeOK
      <3> QED
        BY <1>4, <3>1 DEF IkeInv, TypeOK
    <2> QED
      BY <1>1, <1>2, <2>3, <2>5 DEF IkeInv, TypeOK
  <1>14. CursorExact'
    <2> SUFFICES ASSUME NEW j \in Id, NEW c \in Child, row'[j].sa # NoSa, row'[j].at[c] # None
                 PROVE  charged'[row'[j].sa][c] + waived'[row'[j].sa][c] = row'[j].at[c]
      BY DEF CursorExact
    <2>1. CASE j # i
      <3>1. row'[j] = row[j] /\ row[j].sa \in Sa
        BY <1>5, <2>1 DEF IkeInv, RowAccount, TypeOK
      <3> QED
        BY <1>6, <1>11, <2>1, <3>1 DEF IkeInv, CursorExact
    <2>2. CASE j = i /\ c \in Listed(i)
      BY <1>5, <1>7, <2>2 DEF Cursors
    <2>3. CASE j = i /\ c \notin Listed(i)
      <3>1. Last(i, c) # None /\ row'[j].at[c] = Last(i, c)
        BY <1>5, <1>9, <2>3 DEF Cursors
      <3>2. row[i].sa = x /\ row[i].at[c] = Last(i, c)
        BY <3>1 DEF Last, Same
      <3> QED
        BY <1>3, <1>5, <1>7, <2>3, <3>1, <3>2 DEF IkeInv, CursorExact
    <2> QED
      BY <2>1, <2>2, <2>3
  <1>15. \A j \in Id, y \in Sa : Bears(j, y)' => Bears(j, y)
    BY <1>1, <1>5 DEF Bears
  <1>16. OneId' /\ Unborn'
    BY <1>1, <1>15 DEF IkeInv, OneId, Unborn
  <1>17. RowAccount' /\ Progress' /\ RowCurrent'
    BY <1>1, <1>2, <1>5 DEF IkeInv, RowAccount, Progress, RowCurrent
  <1>18. RowYoung'
    BY <1>1, <1>2, <1>5 DEF IkeInv, RowYoung
  \* An SA that is up or still to be recorded, and its row, are not touched
  \* unless it is the one recorded.
  <1>19. \A j \in Id, y \in Sa :
            (live[j] = y \/ InReading(j, y)') /\ y # x
              => /\ row[j].sa = y => row'[j] = row[j]
                 /\ row'[j].sa = y => row'[j] = row[j]
    <2> SUFFICES ASSUME NEW y \in Sa, y # x, live[i] = y \/ InReading(i, y)'
                 PROVE  row[i].sa # y /\ row'[i].sa # y
      BY <1>5
    <2>1. live[i] = y
      BY <1>1, <1>2 DEF InReading
    <2> QED
      BY <1>2, <1>3, <1>5, <2>1 DEF IkeInv, RowCurrent
  <1>20. Unmet'
    <2> SUFFICES ASSUME NEW j \in Id, NEW y \in account, live[j] = y \/ InReading(j, y)',
                        row'[j].sa # y, NEW c \in Child
                 PROVE  charged'[y][c] = 0 /\ waived'[y][c] = 0
      BY <1>1 DEF Unmet, Clear
    <2>1. y # x
      BY <1>1, <1>2, <1>3, <1>5, <1>11 DEF InReading
    <2>2. row[j].sa # y /\ y \in Sa
      BY <1>3, <1>19, <2>1
    <2>3. InReading(j, y)' => InReading(j, y)
      BY <1>1, <1>2 DEF InReading
    <2> QED
      BY <1>6, <2>1, <2>2, <2>3 DEF IkeInv, Unmet, Clear
  <1>21. Uncursored'
    <2> SUFFICES ASSUME NEW j \in Id, NEW y \in account, NEW c \in Child,
                        \/ live[j] = y /\ c \notin retired[y]
                        \/ InReading(j, y)' /\ c \in Listed(j),
                        ~HasCursor(j, y, c)'
                 PROVE  charged'[y][c] = 0 /\ waived'[y][c] = 0
      BY <1>1 DEF Uncursored, Clear, Listed
    <2>1. InReading(j, y)' => InReading(j, y)
      BY <1>1, <1>2 DEF InReading
    <2>2. CASE y # x
      <3>1. ~HasCursor(j, y, c)
        BY <1>3, <1>19, <2>2 DEF HasCursor
      <3> QED
        BY <1>3, <1>6, <2>1, <2>2, <3>1 DEF IkeInv, Uncursored, Clear
    <2>3. CASE y = x
      <3>1. j = i /\ live[i] = x /\ c \notin retired[x]
        BY <1>1, <1>2, <1>3, <1>11, <2>3 DEF InReading
      <3>2. Cursors(i)[c] = None
        BY <1>5, <2>3, <3>1 DEF HasCursor
      <3>3. c \notin Listed(i)
        BY <3>2 DEF Cursors, Listed
      <3>4. Clear(x, c)
        <4>1. CASE Listed(i) = {}
          BY <1>3, <3>1, <4>1 DEF IkeInv, NothingListed
        <4>2. CASE Listed(i) # {}
          <5>1. Last(i, c) = None
            BY <3>2, <3>3, <4>2 DEF Cursors
          <5>2. ~HasCursor(i, x, c)
            BY <5>1 DEF HasCursor, Last, Same
          <5> QED
            BY <3>1, <5>2 DEF IkeInv, Uncursored
        <4> QED
          BY <4>1, <4>2
      <3> QED
        BY <1>7, <2>3, <3>3, <3>4 DEF Clear
    <2> QED
      BY <2>2, <2>3
  <1>22. NothingListed'
    <2> SUFFICES ASSUME NEW j \in Id, NEW y \in account, NEW c \in Child,
                        InReading(j, y)', Listed(j) = {}, c \notin retired[y]
                 PROVE  charged'[y][c] = 0 /\ waived'[y][c] = 0
      BY <1>1 DEF NothingListed, Clear, Listed
    <2>1. InReading(j, y) /\ j # i
      BY <1>1, <1>2 DEF InReading
    <2>2. y # x /\ y \in Sa
      BY <1>3, <1>11, <2>1 DEF InReading
    <2> QED
      BY <1>6, <2>1, <2>2 DEF IkeInv, NothingListed, Clear
  <1>23. ReadingBetween'
    <2> SUFFICES ASSUME NEW j \in left', NEW c \in Listed(j)
                 PROVE  /\ reading[j].bytes[c] <= carried[reading[j].sa][c]
                        /\ HasCursor(j, reading[j].sa, c)' => row'[j].at[c] <= reading[j].bytes[c]
      BY <1>1 DEF ReadingBetween, HasCursor, Listed
    <2>1. j \in left /\ row'[j] = row[j]
      BY <1>2, <1>5
    <2> QED
      BY <1>1, <2>1 DEF IkeInv, ReadingBetween, HasCursor
  <1> QED
    BY <1>12, <1>13, <1>14, <1>16, <1>17, <1>18, <1>20, <1>21, <1>22, <1>23 DEF IkeInv

-----------------------------------------------------------------------------

LEMMA NextInv == ASSUME ~EmptyLists PROVE IkeInv /\ [Next]_vars => IkeInv'
  <1> SUFFICES ASSUME IkeInv, [Next]_vars PROVE IkeInv'
    OBVIOUS
  <1>1. CASE Connect \/ DaemonRestart \/ Elapse
    BY <1>1, ConnectInv, DaemonRestartInv, ElapseInv
  <1>2. CASE \E i \in Id : Disconnect(i)
    BY <1>2, DisconnectInv
  <1>3. CASE \E i \in Id, c \in Child : Carry(i, c)
    BY <1>3, CarryInv
  <1>4. CASE \E i \in Id, c \in Child : Retire(i, c)
    BY <1>4, RetireInv
  <1>5. CASE \E x \in Sa : RemoveUser(x)
    BY <1>5, RemoveUserInv
  <1>6. CASE List
    BY <1>6, ListInv
  <1>7. CASE \E i \in Id : Record(i)
    BY <1>7, RecordSkippedInv, RecordKnownInv
  <1>8. CASE Prune \/ Abandon
    BY <1>8, PruneInv, AbandonInv
  <1>9. CASE UNCHANGED vars
    <2>1. UNCHANGED <<live, age, started, nextId, carried, retired, account, row, pc, reading,
                      left, charged, waived>>
      BY <1>9 DEF vars, swanVars, tickVars
    <2>2. TypeOK' /\ ChargedOnce' /\ CursorExact' /\ OneId' /\ Unborn' /\ RowAccount' /\ Progress'
      BY <2>1 DEF IkeInv, TypeOK, ChargedOnce, CursorExact, OneId, Bears, Unborn, RowAccount, Progress
    <2>3. RowCurrent' /\ RowYoung' /\ Unmet' /\ Uncursored' /\ NothingListed' /\ ReadingBetween'
      BY <2>1 DEF IkeInv, RowCurrent, RowYoung, Unmet, Uncursored, NothingListed, ReadingBetween,
                  InReading, HasCursor, Listed, Clear
    <2> QED
      BY <2>2, <2>3 DEF IkeInv
  <1> QED
    BY <1>1, <1>2, <1>3, <1>4, <1>5, <1>6, <1>7, <1>8, <1>9 DEF Next

\* The inductive invariant holds of every behaviour in which list-sas never
\* omits every CHILD_SA of an SA at once.
THEOREM IkeInvariance == ASSUME ~EmptyLists PROVE Spec => []IkeInv
  <1>1. Init => IkeInv
    BY InitInv
  <1>2. IkeInv /\ [Next]_vars => IkeInv'
    BY NextInv
  <1> QED
    BY <1>1, <1>2, PTL DEF Spec

\* The daemon, the rows, the reading and the counters keep their types; in
\* particular no account is charged a negative amount (ikeCounterDelta).
THEOREM IkeTyped == ASSUME ~EmptyLists PROVE Spec => []TypeOK
  <1>1. IkeInv => TypeOK
    BY DEF IkeInv
  <1> QED
    BY <1>1, IkeInvariance, PTL

\* No byte of IKEv2 traffic is charged twice, or after a baseline let it pass
\* (ikeCounterDelta and recordIkeSession).
THEOREM IkeChargedOnce == ASSUME ~EmptyLists PROVE Spec => []ChargedOnce
  <1>1. IkeInv => ChargedOnce
    BY DEF IkeInv
  <1> QED
    BY <1>1, IkeInvariance, PTL

\* None is lost either: the cursor of a child says exactly what was charged or
\* forgiven of it (recordIkeSession).
THEOREM IkeCursorExact == ASSUME ~EmptyLists PROVE Spec => []CursorExact
  <1>1. IkeInv => CursorExact
    BY DEF IkeInv
  <1> QED
    BY <1>1, IkeInvariance, PTL

\* The pruning at the end of enforceQuotas never deletes the row of an SA that
\* is up, because tick has recorded it before.
THEOREM IkePruneKeepsLive == ASSUME ~EmptyLists PROVE Spec => PruneKeepsLive
  <1>1. ASSUME IkeInv, [Next]_vars, pc = "enforce", NEW i \in Id,
               live[i] # NoSa, row[i].sa = live[i], row[i].sa \in account'
        PROVE  row'[i].sa = live[i]
    <2>1. CASE Prune
      BY <1>1, <2>1, PruneKeeps
    <2>2. CASE \E x \in Sa : RemoveUser(x)
      <3> PICK x \in Sa : RemoveUser(x)
        BY <2>2
      <3>1. row[i].sa # x
        BY <1>1 DEF RemoveUser
      <3> QED
        BY <1>1, <3>1 DEF RemoveUser
    <2>3. CASE Elapse
      <3>1. row \in [Id -> [sa : 0..MaxSa, at : [Child -> Bytes], idle : 0..Stale]]
        BY <1>1 DEF IkeInv, TypeOK
      <3> QED
        BY <1>1, <2>3, <3>1 DEF Elapse
    <2>4. CASE Connect \/ DaemonRestart \/ List \/ Abandon \/ UNCHANGED vars
      BY <1>1, <2>4 DEF Connect, DaemonRestart, List, Abandon, vars
    <2>5. CASE \/ \E j \in Id : Disconnect(j) \/ Record(j)
               \/ \E j \in Id, c \in Child : Carry(j, c) \/ Retire(j, c)
      BY <1>1, <2>5 DEF Disconnect, Record, Carry, Retire
    <2> QED
      BY <1>1, <2>1, <2>2, <2>3, <2>4, <2>5 DEF Next
  <1>2. IkeInv /\ [Next]_vars =>
            [pc = "enforce" => \A i \in Id :
                 live[i] # NoSa /\ row[i].sa = live[i] /\ row[i].sa \in account'
                     => row'[i].sa = live[i]]_vars
    BY <1>1
  <1> QED
    BY <1>2, IkeInvariance, PTL DEF Spec, PruneKeepsLive

\* Only an SA that was never charged or forgiven anything is taken as a
\* baseline (ikeCounterDelta).
THEOREM IkeForgivesFirstSight == ASSUME ~EmptyLists PROVE Spec => ForgivesFirstSightOnly
  <1>1. ASSUME IkeInv, [Next]_vars, NEW x \in Sa, waived'[x] # waived[x], NEW c \in Child
        PROVE  charged[x][c] = 0 /\ waived[x][c] = 0
    <2>1. PICK i \in Id : Record(i) /\ reading[i].sa \in account
      BY <1>1 DEF Next, Connect, Disconnect, DaemonRestart, Carry, Retire, Elapse, RemoveUser,
                  List, Record, Prune, Abandon, vars
    <2>2. Baseline(i) /\ x = reading[i].sa
      BY <1>1, <2>1 DEF Record, Settle, IkeInv, TypeOK
    <2>3. InReading(i, x) /\ row[i].sa # x
      BY <2>1, <2>2 DEF Record, InReading, Baseline, Sa, NoSa
    <2> QED
      BY <1>1, <2>1, <2>2, <2>3 DEF IkeInv, Unmet, Clear
  <1>2. IkeInv /\ [Next]_vars =>
            [\A x \in Sa : waived'[x] # waived[x] =>
                \A c \in Child : charged[x][c] = 0 /\ waived[x][c] = 0]_vars
    BY <1>1
  <1> QED
    BY <1>2, IkeInvariance, PTL DEF Spec, ForgivesFirstSightOnly

=============================================================================
