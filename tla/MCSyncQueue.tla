---------------------------- MODULE MCSyncQueue ----------------------------
(* Instances of SyncQueue for TLC. *)
EXTENDS SyncQueue

CONSTANTS u1, u2

OneUser == {u1}
TwoUsers == {u1, u2}

\* A restart between the replacement of the copy and its application is the
\* one that loses a change (run SyncPanelCrash).
AllCauses == {"switch", "quota", "expiry"}
QuotaOnly == {"quota"}

NoKills == {}
AllKills == Steps
HarmlessKills == Steps \ {"apply"}

=============================================================================
