----------------------------- MODULE MCReceipts -----------------------------
(* Instances of Receipts for TLC: two containers, whose pid is 1 each.       *)
EXTENDS Receipts

Entrypoints == [p \in Servers |-> 1]
Machines    == [p \in Servers |-> p]
=============================================================================
