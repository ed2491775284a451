---------------------------- MODULE MCDeliveries ----------------------------
(* Instances of Deliveries for TLC: what may go wrong, and how often.        *)
EXTENDS Deliveries

\* Any two of the mishaps, each once.
Troubled == [m \in Kinds |-> IF m = "any" THEN 2 ELSE 1]
=============================================================================
