---------------------------- MODULE UsageLedger ----------------------------
(***************************************************************************)
(* What metering promises about the shared balance of an account: every    *)
(* byte an incarnation of the core carried on one transport is charged at  *)
(* most once and never before it was carried, the balance grows by exactly *)
(* what is charged, and only a reset (or the account's removal) clears it. *)
(* Nothing is said about who collects counters, when, or how often.        *)
(***************************************************************************)
EXTENDS Integers

CONSTANTS Key,    \* (account, transport) pairs
          Epoch   \* incarnations of the core

VARIABLES traffic,   \* bytes each incarnation carried, per key
          bill,      \* how many of them were charged
          balance    \* the key's share of usage_total

Init ==
    /\ traffic = [e \in Epoch |-> [k \in Key |-> 0]]
    /\ bill = [e \in Epoch |-> [k \in Key |-> 0]]
    /\ balance = [k \in Key |-> 0]

Carry(e, k) ==
    /\ traffic' = [traffic EXCEPT ![e][k] = @ + 1]
    /\ UNCHANGED <<bill, balance>>

Charge(e, k) ==
    \E n \in 1..(traffic[e][k] - bill[e][k]) :
        /\ bill' = [bill EXCEPT ![e][k] = @ + n]
        /\ balance' = [balance EXCEPT ![k] = @ + n]
        /\ UNCHANGED traffic

Clear(K) ==
    /\ balance' = [k \in Key |-> IF k \in K THEN 0 ELSE balance[k]]
    /\ UNCHANGED <<traffic, bill>>

Next ==
    \/ \E e \in Epoch, k \in Key : Carry(e, k) \/ Charge(e, k)
    \/ \E K \in SUBSET Key : Clear(K)

Spec == Init /\ [][Next]_<<traffic, bill, balance>>

=============================================================================
