----------------------------- MODULE MCBackfill -----------------------------
(* Instances of Backfill for TLC: two processes sharing a workspace, each    *)
(* with one thread that handles backfill verbs.                              *)
EXTENDS Backfill

\* A chain in which each slice needs the one before.
Chain == [s \in Slices |-> s - 1]
\* Two slices that need nothing, and one that needs the second of them.
Fork == [s \in Slices |-> IF s = 3 THEN 2 ELSE 0]
\* No order.
Unordered == [s \in Slices |-> 0]

Two      == [a \in {"a1", "a2"} |-> IF a = "a1" THEN "p1" ELSE "p2"]
=============================================================================
