---------------------------- MODULE OnceInOrder ----------------------------
(***************************************************************************)
(* What the claim on occurrences promises to everyone who shares a          *)
(* workspace: an occurrence is taken at most once, in the order of the      *)
(* instants, and started at most once, by the one who took it.  How many    *)
(* schedulers there are, what they remember and which of them die does not  *)
(* show here.  Whoever took an occurrence may also leave it unstarted.      *)
(***************************************************************************)
EXTENDS Integers

CONSTANTS
  Instants,  \* the instants an occurrence can be due at: integers
  Anchor     \* the newest one already run

VARIABLE status  \* of each instant: "open", "taken" or "run"

Init == status = [d \in Instants |-> IF d = Anchor THEN "run" ELSE "open"]

Take(d) ==
  /\ \A e \in Instants : e >= d => status[e] = "open"
  /\ status' = [status EXCEPT ![d] = "taken"]

Start(d) ==
  /\ status[d] = "taken"
  /\ status' = [status EXCEPT ![d] = "run"]

Next == \E d \in Instants : Take(d) \/ Start(d)

Spec == Init /\ [][Next]_status
=============================================================================
