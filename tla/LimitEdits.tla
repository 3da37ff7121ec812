----------------------------- MODULE LimitEdits -----------------------------
(***************************************************************************)
(* The traffic limit of one row of vpn_users (total_limit_bytes and        *)
(* unlimited_traffic) and everybody who writes it: the edit forms, which   *)
(* show gigabytes with two decimals and send bytes (bytesToGb and          *)
(* gbToBytes), the read-then-write handler addTraffic, which takes any     *)
(* number of bytes, and backup files.                                      *)
(*                                                                         *)
(* daily_limit_bytes goes through the same two conversions and nobody but  *)
(* the forms writes it; it is left out.                                    *)
(***************************************************************************)
EXTENDS Integers

CONSTANTS
    Editor,     \* administrators working at the same time
    Hundredth,  \* bytes per hundredth of a gigabyte, taken to be whole: the
                \* rounding of a sent number to a byte is left out
    MaxBytes    \* bound: the limits that additions lead to and editors type

ASSUME LimitAssumption == Hundredth \in Nat \ {0} /\ MaxBytes \in Nat

NoLimit == -1                   \* NULL, and an empty field

VARIABLES
    quota,      \* the two columns
    desk,       \* per editor: an open form, an addition between its SELECT and
                \* its UPDATE, or NoTask
    quotaFile   \* the columns in an exported file, or NoQuotaFile

limitVars == <<quota, desk, quotaFile>>

Bytes == Nat \cup {NoLimit}
QuotaColumns == [total : Bytes, unlimited : BOOLEAN]
\* `seen' (history): nobody has written the columns since they were read
LimitForm == [kind : {"form"}, field : Bytes, unlimited : BOOLEAN, seen : BOOLEAN]
Addition == [kind : {"traffic"}, value : Nat, amount : Nat, seen : BOOLEAN]
NoTask == [kind |-> "idle"]
NoQuotaFile == [total |-> NoLimit]

\* The columns, the forms and the additions in progress are well formed.
LimitType ==
    /\ quota \in QuotaColumns
    /\ desk \in [Editor -> LimitForm \cup Addition \cup {NoTask}]
    /\ quotaFile \in QuotaColumns \cup {NoQuotaFile}

\* What quota enforcement takes for a limit: also zero, which the pages call none.
Limited(q) == ~q.unlimited /\ q.total # NoLimit

Stale == [a \in Editor |-> IF desk[a] = NoTask THEN NoTask
                           ELSE [desk[a] EXCEPT !.seen = FALSE]]

-----------------------------------------------------------------------------
(* The edit forms *)

Half == Hundredth \div 2

\* Mutant: the digits after the second are cut off.
RoundedDown(t) == t - (t % Hundredth)

\* toFixed(2) of the gigabytes and gbToBytes of that text: the nearest
\* hundredth, the upper of two
Rounded(t) == t + Half - ((t + Half) % Hundredth)

ShownLimit(t) == IF t = NoLimit THEN NoLimit ELSE Rounded(t)

FilledLimit ==
    [kind |-> "form", field |-> ShownLimit(quota.total), unlimited |-> quota.unlimited,
     seen |-> TRUE]

\* Opening the form, and on the detail page also a refetch under it.
OpenLimits(a) ==
    /\ desk[a].kind \in {"idle", "form"}
    /\ desk' = [desk EXCEPT ![a] = FilledLimit]
    /\ UNCHANGED <<quota, quotaFile>>

CloseLimits(a) ==
    /\ desk[a].kind = "form" /\ desk' = [desk EXCEPT ![a] = NoTask]
    /\ UNCHANGED <<quota, quotaFile>>

\* What the editor may have made of a form before it is submitted: the switch
\* turned, and a number typed while it is off.
LimitTyped(f) == {[f EXCEPT !.unlimited = FALSE, !.field = t] : t \in {NoLimit, 0, MaxBytes}}
LimitEdited(f) == {f, [f EXCEPT !.unlimited = ~@]} \cup LimitTyped(f)

\* submit sends no limit for an account whose traffic is unlimited.
LimitSent(f) ==
    [total |-> IF f.unlimited THEN NoLimit ELSE f.field, unlimited |-> f.unlimited]

SubmitLimits(a, f) ==
    /\ desk[a].kind = "form" /\ f \in LimitEdited(desk[a])
    /\ quota' = LimitSent(f)
    /\ desk' = [Stale EXCEPT ![a] = NoTask]
    /\ UNCHANGED quotaFile

\* provisionUser stores what the same form sent for a new account.
LimitInit ==
    /\ \E u \in BOOLEAN, t \in {NoLimit, 0, MaxBytes} :
        quota = LimitSent([field |-> t, unlimited |-> u])
    /\ desk = [a \in Editor |-> NoTask] /\ quotaFile = NoQuotaFile

-----------------------------------------------------------------------------
(* addTraffic *)

\* (Number(total_limit_bytes) || 0) + addBytes, of a row that may well have no
\* limit or be unlimited
Increased(n) == (IF quota.total = NoLimit THEN 0 ELSE quota.total) + n

ReadTraffic(a, n) ==
    /\ desk[a] = NoTask /\ Increased(n) <= MaxBytes
    /\ desk' = [desk EXCEPT ![a] =
                    [kind |-> "traffic", value |-> Increased(n), amount |-> n, seen |-> TRUE]]
    /\ UNCHANGED <<quota, quotaFile>>

WriteTraffic(a) ==
    /\ desk[a].kind = "traffic"
    /\ quota' = [quota EXCEPT !.total = desk[a].value]
    /\ desk' = [Stale EXCEPT ![a] = NoTask]
    /\ UNCHANGED quotaFile

-----------------------------------------------------------------------------
(* Backup files *)

ExportLimits ==
    /\ quotaFile = NoQuotaFile        \* bound: one file
    /\ quotaFile' = quota
    /\ UNCHANGED <<quota, desk>>

\* Every mode but `users-only' overwrites an account that exists.
ImportLimits ==
    /\ quotaFile # NoQuotaFile /\ quota' = quotaFile /\ quota' # quota
    /\ desk' = Stale
    /\ UNCHANGED quotaFile

LimitNext ==
    \/ \E a \in Editor :
        \/ OpenLimits(a) \/ CloseLimits(a)
        \/ desk[a].kind = "form" /\ \E f \in LimitEdited(desk[a]) : SubmitLimits(a, f)
        \/ \E n \in 1..MaxBytes : ReadTraffic(a, n)
        \/ WriteTraffic(a)
    \/ ExportLimits \/ ImportLimits

LimitSpec == LimitInit /\ [][LimitNext]_limitVars

-----------------------------------------------------------------------------
(* Properties *)

\* Unless somebody wrote the columns after they were read: an addition leaves a
\* limited account with all of it on top; a form nobody edited keeps a limited
\* account limited, to within half a hundredth of a gigabyte, and an account
\* without a limit without one.  (An addition to an account that had no limit
\* gives it one.)
LimitStands ==
    [][\A a \in Editor : desk[a] # NoTask /\ desk[a].seen /\ desk'[a] = NoTask =>
        /\ desk[a].kind = "traffic" /\ Limited(quota) =>
            Limited(quota') /\ quota'.total >= quota.total + desk[a].amount
        /\ desk[a].kind = "form" /\ quota' = LimitSent(desk[a]) =>
            /\ Limited(quota') = Limited(quota)
            /\ Limited(quota) =>
                2 * (quota'.total - quota.total) \in (-Hundredth)..Hundredth]_limitVars

=============================================================================
