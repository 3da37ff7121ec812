------------------------------ MODULE SlotPool ------------------------------
(***************************************************************************)
(* What a limit on simultaneous clients promises: a client takes at most   *)
(* one slot, never more than Slots are taken, and a slot comes back once.  *)
(***************************************************************************)
EXTENDS Integers, FiniteSets

CONSTANTS Client, Slots

VARIABLE holders

PoolInit == holders = {}

Take(c) ==
    /\ c \notin holders /\ Cardinality(holders) < Slots
    /\ holders' = holders \cup {c}

\* One gives its slot back, or several that waited for the same answer, or all
\* of them when the process that keeps the pool ends.
Give(C) == holders' = holders \ C

PoolNext == (\E c \in Client : Take(c)) \/ \E C \in SUBSET holders : Give(C)

PoolSpec == PoolInit /\ [][PoolNext]_holders

=============================================================================
