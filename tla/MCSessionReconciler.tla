------------------------ MODULE MCSessionReconciler ------------------------
(* Small instances of SessionReconciler for TLC. *)
EXTENDS SessionReconciler

CONSTANT u1

OneUser == {u1}

-----------------------------------------------------------------------------
(* strongSwan never runs out of ids.  The panel only looks ids up and       *)
(* compares them, so once nobody refers to the lowest one the others can    *)
(* move down by one, and a behaviour has as many connections as it likes:   *)
(* MaxId bounds the SAs that are alive or remembered at the same time.      *)

Unused(i) ==
    /\ NoUser = sa[i] /\ NoUser = snap[i]
    /\ i \notin cut \cup cmds \cup acked
    /\ \A u \in User : i \notin done[u] /\ failed[u][i] = None

Moved(ids) == {i - 1 : i \in ids}
Down(f, last) == [i \in Id |-> IF i = MaxId THEN last ELSE f[i + 1]]

Recycle ==
    /\ nextId > 1 /\ Unused(1)
    /\ nextId' = nextId - 1
    /\ sa' = Down(sa, NoUser) /\ snap' = Down(snap, NoUser) /\ closing' = Down(closing, None)
    /\ cut' = Moved(cut) /\ cmds' = Moved(cmds) /\ acked' = Moved(acked)
    /\ done' = [u \in User |-> Moved(done[u])]
    /\ failed' = [u \in User |-> Down(failed[u], None)]
    /\ UNCHANGED <<rowVars, pc, fresh, snapEligible, snapLimit, lag, todo, cur, since,
                   over, firstOver>>

EndlessSpec == Init /\ [][Next \/ Recycle]_vars /\ Fairness

=============================================================================
