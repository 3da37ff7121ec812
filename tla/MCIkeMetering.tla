--------------------------- MODULE MCIkeMetering ---------------------------
(* Small instances of IkeMetering for TLC. *)
EXTENDS IkeMetering, TLC

CONSTANTS c1, c2

TwoChildren == {c1, c2}
Interchangeable == Permutations(TwoChildren)

=============================================================================
