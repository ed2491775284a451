----------------------------- MODULE BatchQueue -----------------------------
(***************************************************************************)
(* One batch queued by ctl.foreach (batches/<id>.ndjson) and its ledger:    *)
(* `work' processes on any number of machines that claim its items by an    *)
(* OS lock and append what became of them, and the operators who look at    *)
(* it, start failed items over or forget the failures.  Sources:            *)
(* duckdb-engine batch.rs and ndjson.rs, duckle-runner work.rs.             *)
(*                                                                         *)
(* The ledger is kept as what item_state and finished make of its lines.    *)
(* A step is one file operation; time shows only in how long a wait still   *)
(* lasts and how long a run has taken.                                      *)
(***************************************************************************)
EXTENDS Integers, FiniteSets, FiniteSetsExt

CONSTANTS
  N,             \* items, in file order
  Workers,       \* `work' processes; each runs one pass after another
  MaxAttempts,   \* RetryPolicy.max_attempts; 0 for no limit
  Exponential,   \* RetryPolicy.backoff
  Initial,       \* RetryPolicy.initial_seconds
  MaxSeconds,    \* RetryPolicy.max_seconds; 0 for no ceiling
  MaxAge,        \* bound: a run that took longer than any wait is that old
  MaxCrashes,    \* bound: processes killed
  MaxFaults,     \* bound: appends to the ledger that return Err
  MaxVerbs,      \* bound: retries and redrives issued
  MaxLooks       \* bound: items looked at for a status

Items  == 1..N
Free   == "free"
Viewer == "viewer"

ASSUME QueueAssumption ==
  /\ {N, MaxAttempts, Initial, MaxSeconds, MaxAge} \subseteq Nat
  /\ Exponential \in BOOLEAN
  /\ {Free, Viewer} \cap Workers = {}
\* What TLC knows and the prover does not; delay_seconds doubles 30 times at most.
ASSUME PowerAssumption == \A k \in 0..30 : 2^k \in Nat
ASSUME BoundAssumption == {MaxCrashes, MaxFaults, MaxVerbs, MaxLooks} \subseteq Nat
ASSUME FleetAssumption == IsFiniteSet(Workers)

VARIABLES
  ledger,   \* what the ledger's lines say of each item
  torn,     \* the ledger ends in a line without its newline
  lock,     \* who holds the lock of each item
  wk,       \* each worker: where it is, and in which pass
  op,       \* the verb that holds the ledger's store lock
  done,     \* items whose child has completed (history)
  wins,     \* times the child of each item has completed (history)
  budget    \* what is left of the bounds

vars == <<ledger, torn, lock, wk, op, done, wins, budget>>

-----------------------------------------------------------------------------
(* Types.                                                                  *)

\* ok: some line says ok; bad: some line does not; settled, fails, wait: an ok,
\* the errors, and what is left of the last one's backoff, since the last retry
\* marker.
Row   == [ok : BOOLEAN, bad : BOOLEAN, settled : BOOLEAN, fails : Nat, wait : Nat]
NoRow == [ok |-> FALSE, bad |-> FALSE, settled |-> FALSE, fails |-> 0, wait |-> 0]

Stages == {"off", "pass", "run", "ran", "append", "drop"}
\* todo: what this pass found ready and has not come to; then the item at hand,
\* its outcome, the age of its run, whether the tail was seen whole, and whether
\* the file opened is still the ledger.
Worker == [at : Stages, todo : SUBSET Items, item : Nat, res : {"ok", "error"},
           age : 0..MaxAge, clean : BOOLEAN, current : BOOLEAN]
Off == [at |-> "off", todo |-> {}, item |-> 0, res |-> "error", age |-> 0,
        clean |-> FALSE, current |-> FALSE]

Verb   == [at : {"idle", "retry", "mark", "redrive"}, targets : SUBSET Items,
           clean : BOOLEAN, snap : [Items -> Row]]
NoVerb == [at |-> "idle", targets |-> {}, clean |-> FALSE,
           snap |-> [i \in Items |-> NoRow]]

Bounds == {"crashes", "faults", "verbs", "looks"}

TypeOK ==
  /\ ledger \in [Items -> Row]
  /\ torn \in BOOLEAN
  /\ lock \in [Items -> Workers \cup {Free, Viewer}]
  /\ wk \in [Workers -> Worker]
  /\ op \in Verb
  /\ done \subseteq Items
  /\ wins \in [Items -> Nat]
  /\ budget \in [Bounds -> Nat]

-----------------------------------------------------------------------------
(* The ledger as a value.                                                  *)

Lesser(x, y) == IF x < y THEN x ELSE y

\* delay_seconds after that many failed tries.
Delay(attempts) ==
  IF Initial = 0 \/ attempts = 0 THEN 0
  ELSE IF ~Exponential THEN Initial
  ELSE LET grown == Initial * 2^Lesser(attempts - 1, 30)
       IN IF MaxSeconds = 0 THEN grown ELSE Lesser(grown, MaxSeconds)

OutOfTries(row) == MaxAttempts > 0 /\ row.fails >= MaxAttempts

\* (mutant) what was started over is ready, whatever it did since.
Phase_Ready(row) == IF row.bad THEN "ready" ELSE IF row.settled THEN "done" ELSE "ready"
\* item_state.
Phase(row) ==
  CASE row.settled -> "done"
    [] ~row.settled /\ OutOfTries(row) -> "dead"
    [] ~row.settled /\ ~OutOfTries(row) /\ row.wait > 0 -> "waiting"
    [] OTHER -> "ready"

\* (mutant) a run that returned is a success.
Said_Returned(row, res, age) == [row EXCEPT !.ok = TRUE, !.settled = TRUE]
\* One more line of an attempt.  It is stamped with the start of its run.
Said(row, res, age) ==
  IF res = "ok" THEN [row EXCEPT !.ok = TRUE, !.settled = TRUE]
  ELSE LET wait == Delay(row.fails + 1) - age
       IN [row EXCEPT !.bad = TRUE, !.fails = @ + 1,
                      !.wait = IF wait > 0 THEN wait ELSE 0]

\* A retry marker: the count starts again, the history stays.
Marked(row) == [row EXCEPT !.bad = TRUE, !.settled = FALSE, !.fails = 0, !.wait = 0]

\* redrive keeps the ok lines and nothing else.
Redriven(row) == [NoRow EXCEPT !.ok = row.ok, !.settled = row.ok]

\* reset_attempts: who is started over.
Targets(onlyDead) ==
  {i \in Items : LET row == ledger[i]
                 IN \/ Phase(row) = "dead"
                    \/ Phase(row) \in {"waiting", "ready"} /\ ~onlyDead /\ row.fails > 0}

-----------------------------------------------------------------------------
(* A worker.                                                               *)

Spend(what) == budget[what] > 0 /\ budget' = [budget EXCEPT ![what] = @ - 1]
At(p, stage) == wk[p].at = stage
Set(p, w) == wk' = [wk EXCEPT ![p] = w]

\* The batch and the states of its items are read once, at the start of a pass.
StartPass(p) ==
  /\ At(p, "off")
  /\ Set(p, [Off EXCEPT !.at = "pass",
                        !.todo = {i \in Items : Phase(ledger[i]) = "ready"}])
  /\ UNCHANGED <<ledger, torn, lock, op, done, wins, budget>>

\* (mutant) the lock is tried and not kept.
ClaimItem_Tried(p) ==
  /\ At(p, "pass") /\ wk[p].todo # {}
  /\ LET i == Min(wk[p].todo)
     IN Set(p, IF lock[i] = Free
               THEN [wk[p] EXCEPT !.at = "run", !.item = i, !.todo = @ \ {i}, !.age = 0]
               ELSE [wk[p] EXCEPT !.todo = @ \ {i}])
  /\ UNCHANGED <<ledger, torn, lock, op, done, wins, budget>>

\* (mutant) the lock is the item's, the position handed on counts from zero.
ClaimItem_FromZero(p) ==
  /\ At(p, "pass") /\ wk[p].todo # {}
  /\ LET i == Min(wk[p].todo)
     IN IF lock[i] = Free
        THEN /\ lock' = [lock EXCEPT ![i] = p]
             /\ Set(p, [wk[p] EXCEPT !.at = "run", !.item = i - 1, !.todo = @ \ {i}, !.age = 0])
        ELSE /\ Set(p, [wk[p] EXCEPT !.todo = @ \ {i}])
             /\ UNCHANGED lock
  /\ UNCHANGED <<ledger, torn, op, done, wins, budget>>

\* The next item is claimed, or left to whoever holds it.
ClaimItem(p) ==
  /\ At(p, "pass") /\ wk[p].todo # {}
  /\ LET i == Min(wk[p].todo)
     IN IF lock[i] = Free
        THEN /\ lock' = [lock EXCEPT ![i] = p]
             /\ Set(p, [wk[p] EXCEPT !.at = "run", !.item = i, !.todo = @ \ {i}, !.age = 0])
        ELSE /\ Set(p, [wk[p] EXCEPT !.todo = @ \ {i}])
             /\ UNCHANGED lock
  /\ UNCHANGED <<ledger, torn, op, done, wins, budget>>

\* run_batch_item returns.
RunItem(p) ==
  /\ At(p, "run")
  /\ \E res \in {"ok", "error"} :
       /\ Set(p, [wk[p] EXCEPT !.at = "ran", !.res = res])
       /\ done' = IF res = "ok" THEN done \cup {wk[p].item} ELSE done
       /\ wins' = IF res = "ok" THEN [wins EXCEPT ![wk[p].item] = @ + 1] ELSE wins
  /\ UNCHANGED <<ledger, torn, lock, op, budget>>

\* append_records opens the ledger and looks at its last byte ...
OpenLedger(p) ==
  /\ At(p, "ran")
  /\ Set(p, [wk[p] EXCEPT !.at = "append", !.clean = ~torn, !.current = TRUE])
  /\ UNCHANGED <<ledger, torn, lock, op, done, wins, budget>>

\* ... and writes in one go.  The line is lost if it is glued onto a tail torn in
\* between, or if the file opened is no longer the ledger.
AppendLine(p) ==
  /\ At(p, "append")
  /\ LET i == wk[p].item
         lands == wk[p].current /\ ~(wk[p].clean /\ torn)
     IN ledger' = IF lands THEN [ledger EXCEPT ![i] = Said(@, wk[p].res, wk[p].age)]
                  ELSE ledger
  /\ torn' = (torn /\ ~wk[p].current)
  /\ Set(p, [wk[p] EXCEPT !.at = "drop"])
  /\ UNCHANGED <<lock, op, done, wins, budget>>

\* The work happened; only the record of it failed.
RecordFails(p) ==
  /\ At(p, "ran")
  /\ Spend("faults")
  /\ Set(p, [wk[p] EXCEPT !.at = "drop"])
  /\ UNCHANGED <<ledger, torn, lock, op, done, wins>>

\* (mutant) the claim of an item that failed is kept until the process ends.
DropClaim_OnSuccess(p) ==
  /\ At(p, "drop")
  /\ lock' = IF wk[p].res = "ok" THEN [lock EXCEPT ![wk[p].item] = Free] ELSE lock
  /\ \/ Set(p, [wk[p] EXCEPT !.at = "pass"])
     \/ Set(p, Off)
  /\ UNCHANGED <<ledger, torn, op, done, wins, budget>>

\* The claim goes once the line is written; with --once that is the pass.
DropClaim(p) ==
  /\ At(p, "drop")
  /\ lock' = [lock EXCEPT ![wk[p].item] = Free]
  /\ \/ Set(p, [wk[p] EXCEPT !.at = "pass"])
     \/ Set(p, Off)
  /\ UNCHANGED <<ledger, torn, op, done, wins, budget>>

EndPass(p) ==
  /\ At(p, "pass") /\ wk[p].todo = {}
  /\ Set(p, Off)
  /\ UNCHANGED <<ledger, torn, lock, op, done, wins, budget>>

\* A worker is killed, maybe in the middle of its line; the kernel drops its lock.
Killed(p) ==
  /\ wk[p].at # "off"
  /\ Spend("crashes")
  /\ Set(p, Off)
  /\ lock' = [i \in Items |-> IF lock[i] = p THEN Free ELSE lock[i]]
  /\ \/ torn' = torn
     \/ At(p, "append") /\ wk[p].current /\ torn' = TRUE
  /\ UNCHANGED <<ledger, op, done, wins>>

-----------------------------------------------------------------------------
(* Operators.  The verbs hold the ledger's store lock, which no worker takes. *)

RetryReads ==
  /\ op.at = "idle" /\ Spend("verbs")
  /\ \E onlyDead \in BOOLEAN :
       op' = IF Targets(onlyDead) = {} THEN NoVerb
             ELSE [NoVerb EXCEPT !.at = "retry", !.targets = Targets(onlyDead)]
  /\ UNCHANGED <<ledger, torn, lock, wk, done, wins>>

RetryOpens ==
  /\ op.at = "retry"
  /\ op' = [op EXCEPT !.at = "mark", !.clean = ~torn]
  /\ UNCHANGED <<ledger, torn, lock, wk, done, wins, budget>>

\* Every marker in one write: the first of them is what a torn tail costs.
RetryMarks ==
  /\ op.at = "mark"
  /\ LET glued  == op.clean /\ torn
         landed == IF glued THEN op.targets \ {Min(op.targets)} ELSE op.targets
     IN ledger' = [i \in Items |-> IF i \in landed THEN Marked(ledger[i]) ELSE ledger[i]]
  /\ torn' = FALSE
  /\ op' = NoVerb
  /\ UNCHANGED <<lock, wk, done, wins, budget>>

RedriveReads ==
  /\ op.at = "idle" /\ Spend("verbs")
  /\ op' = IF \A i \in Items : ~ledger[i].bad THEN NoVerb
           ELSE [NoVerb EXCEPT !.at = "redrive", !.snap = ledger]
  /\ UNCHANGED <<ledger, torn, lock, wk, done, wins>>

\* A new ledger is renamed into place; whoever has the old one open writes to a
\* file that no longer has a name.
RedriveWrites ==
  /\ op.at = "redrive"
  /\ ledger' = [i \in Items |-> Redriven(op.snap[i])]
  /\ torn' = FALSE
  /\ wk' = [p \in Workers |-> [wk[p] EXCEPT !.current = FALSE]]
  /\ op' = NoVerb
  /\ UNCHANGED <<lock, done, wins, budget>>

\* The verb's write returns Err, or its process is killed before it.
VerbFails ==
  /\ op.at # "idle"
  /\ Spend("faults")
  /\ op' = NoVerb
  /\ UNCHANGED <<ledger, torn, lock, wk, done, wins>>

\* status takes the lock of an unfinished item to see whether anyone has it ...
Look(i) ==
  /\ lock[i] = Free /\ ~ledger[i].ok
  /\ Spend("looks")
  /\ lock' = [lock EXCEPT ![i] = Viewer]
  /\ UNCHANGED <<ledger, torn, wk, op, done, wins>>

\* ... and lets it go.
LookAway(i) ==
  /\ lock[i] = Viewer
  /\ lock' = [lock EXCEPT ![i] = Free]
  /\ UNCHANGED <<ledger, torn, wk, op, done, wins, budget>>

\* Time passes: backoffs run down, runs grow old.
Elapse ==
  /\ ledger' = [i \in Items |-> [ledger[i] EXCEPT !.wait = IF @ > 0 THEN @ - 1 ELSE 0]]
  /\ wk' = [p \in Workers |->
              IF wk[p].at \in {"run", "ran", "append"}
              THEN [wk[p] EXCEPT !.age = Lesser(@ + 1, MaxAge)] ELSE wk[p]]
  /\ UNCHANGED <<torn, lock, op, done, wins, budget>>

-----------------------------------------------------------------------------
Init ==
  /\ ledger = [i \in Items |-> NoRow]
  /\ torn = FALSE
  /\ lock = [i \in Items |-> Free]
  /\ wk = [p \in Workers |-> Off]
  /\ op = NoVerb
  /\ done = {}
  /\ wins = [i \in Items |-> 0]
  /\ budget = [b \in Bounds |-> CASE b = "crashes" -> MaxCrashes
                                  [] b = "faults"  -> MaxFaults
                                  [] b = "verbs"   -> MaxVerbs
                                  [] b = "looks"   -> MaxLooks]

Step(p) ==
  \/ StartPass(p) \/ ClaimItem(p) \/ RunItem(p) \/ OpenLedger(p)
  \/ AppendLine(p) \/ DropClaim(p) \/ EndPass(p)
VerbStep == RetryOpens \/ RetryMarks \/ RedriveWrites

Next ==
  \/ \E p \in Workers : Step(p) \/ RecordFails(p) \/ Killed(p)
  \/ RetryReads \/ RedriveReads \/ VerbStep \/ VerbFails
  \/ \E i \in Items : Look(i) \/ LookAway(i)
  \/ Elapse

Spec == Init /\ [][Next]_vars

\* Someone keeps starting workers, and a run ends; a verb and a status that have
\* begun finish; time passes.
Fairness ==
  /\ \A p \in Workers : WF_vars(Step(p))
  /\ WF_vars(VerbStep)
  /\ \A i \in Items : WF_vars(LookAway(i))
  /\ WF_vars(Elapse)

FairSpec == Spec /\ Fairness

-----------------------------------------------------------------------------
(* Properties.                                                             *)

\* Worker p is on item i: it runs it, or has yet to record it.
On(p, i) == wk[p].at \in {"run", "ran", "append", "drop"} /\ wk[p].item = i

\* "How two workers avoid running the same item": no item is run beside itself,
\* whoever looks at it, dies on it or starts it over meanwhile.
NoTwoAtOnce == \A i \in Items : \A p, q \in Workers : On(p, i) /\ On(q, i) => p = q

\* "That loses items instead of repeating them": the ledger says ok only of an
\* item whose child completed, and a redrive or retry does not make it up.
OkMeansDone == \A i \in Items : ledger[i].ok \/ ledger[i].settled => i \in done

\* "At least once, not exactly once", and how often at most: each record that
\* was lost or given up costs at most a round of the workers.
Spent == (MaxCrashes - budget["crashes"]) + (MaxFaults - budget["faults"])
         + (MaxVerbs - budget["verbs"])
RepeatsAreBounded ==
  \A i \in Items : wins[i] <= Cardinality(Workers) * (1 + Spent)

\* No item is lost, and none is chased forever: in the end each is done or dead.
EveryItemSettles ==
  \A i \in Items : <>[](Phase(ledger[i]) \in {"done", "dead"})

=============================================================================
