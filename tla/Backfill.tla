------------------------------ MODULE Backfill ------------------------------
(***************************************************************************)
(* One backfill ledger (.duckle/backfills/<id>.json) and everything that    *)
(* reads and writes it: the worker pool of an executor, the `retry' and     *)
(* `cancel' verbs of the CLI, the console and MCP, and the sweep that       *)
(* reclaims what a dead process left.  Sources: duckdb-engine backfill.rs,  *)
(* backfill_exec.rs, chunk_exec.rs, recovery.rs, and the liveness witness   *)
(* of runlock.rs at the grain at which the ledger uses it.                  *)
(*                                                                         *)
(* A step is one file operation or one section under the store lock.  The   *)
(* bare load and bare save of retry and cancel are separate steps, as they  *)
(* are in the code, so another process can write between them.              *)
(***************************************************************************)
EXTENDS Integers, FiniteSets

CONSTANTS
  N,                 \* slices of the ledger, in ledger order
  Requires,          \* Requires[s]: the predecessor of s; 0 is "the baseline",
                     \* N + 1 a predecessor that was never published (#326)
  RequiresArtifact,  \* a chunked extract: a slice must commit a part (#306)
  PriorDone,         \* slices another ledger already did, same occurrence (#295)
  MaxConcurrent,     \* the ledger's own ceiling on workers
  Procs,             \* process identities; a restarted one has its old pid
  Actors,            \* threads that handle one backfill verb at a time
  ProcOf,            \* the process an actor is a thread of
  Creator,           \* the actor that planned this ledger and executes it
  Overlap,           \* verbs an operator may start while another is at work
  MaxVerbs,          \* bound: retries and cancels issued
  MaxCrashes,        \* bound: processes killed
  MaxLosses,         \* bound: committed parts removed or truncated from outside
  MaxFaults          \* bound: ledger writes that return Err

Slices  == 1..N
Workers == 1..MaxConcurrent
None    == "none"

ASSUME LedgerAssumption ==
  /\ N \in Nat \ {0} /\ MaxConcurrent \in Nat \ {0}
  /\ Requires \in [Slices -> 0..(N + 1)]
  /\ RequiresArtifact \in BOOLEAN
  /\ PriorDone \subseteq Slices
ASSUME ActorAssumption ==
  /\ ProcOf \in [Actors -> Procs]
  /\ Creator \in Actors
  /\ Overlap \subseteq {"retry", "cancel"}
  /\ None \notin Procs
ASSUME BoundAssumption ==
  {MaxVerbs, MaxCrashes, MaxLosses, MaxFaults} \subseteq Nat

VARIABLES
  disk,     \* the ledger file: state and artifact of each slice, executor pid
  files,    \* committed parts at their final path, as <<slice, whose>>
  witness,  \* the live/ lock file: "absent", "free", or the process holding it
  ours,     \* processes whose OURS table names this backfill
  live,     \* processes that are running
  pc,       \* where each actor is in its verb
  copy,     \* the ledger as each actor last read it
  force,    \* whether an executor skips the reuse of done occurrences
  wk,       \* the workers of each actor
  lost,     \* parts removed or truncated from outside (history)
  done,     \* slices whose work has completed, here or in PriorDone (history)
  budget    \* what is left of the bounds

vars == <<disk, files, witness, ours, live, pc, copy, force, wk, lost, done, budget>>

-----------------------------------------------------------------------------
(* Types.                                                                  *)

SliceState == {"requested", "running", "succeeded", "failed", "interrupted",
               "cancelled"}
IsOpen(st)      == st \in {"requested", "failed", "interrupted"}
\* (mutant) claims whatever still needs attention, its own failures included.
IsClaimable_Open(st) == IsOpen(st)
IsClaimable(st) == st = "requested"

\* Whose part an entry's artifact names: its own, or the one it reused.
Artifact == {"own", "prior"}
Plan == [st  : [Slices -> SliceState],
         art : [Slices -> Artifact \cup {None}],
         pid : Procs \cup {None}]

Worker == [at : {"out", "idle", "claimed", "ran"},
           s  : Slices,
           res : {"ok", "bare", "err"}]   \* "bare": ran, but committed no part
Out == [at |-> "out", s |-> 1, res |-> "err"]

Stage == {"idle", "reclaim", "reclaimForRetry", "reload", "reopen", "save",
          "start", "work", "finish", "cancel"}

Bounds == {"verbs", "crashes", "losses", "faults"}

TypeOK ==
  /\ disk \in Plan
  /\ files \subseteq Slices \X Artifact
  /\ witness \in Procs \cup {"absent", "free"}
  /\ ours \subseteq Procs
  /\ live \subseteq Procs
  /\ pc \in [Actors -> Stage]
  /\ copy \in [Actors -> Plan]
  /\ force \in [Actors -> BOOLEAN]
  /\ wk \in [Actors -> [Workers -> Worker]]
  /\ lost \subseteq Slices \X Artifact
  /\ done \subseteq Slices
  /\ budget \in [Bounds -> Nat]

-----------------------------------------------------------------------------
(* The ledger as a value.                                                  *)

\* (mutant) a predecessor that was started is enough.
Claimable_AfterStart(p, s) ==
  /\ IsClaimable(p.st[s])
  /\ \/ Requires[s] = 0
     \/ \E q \in Slices : q = Requires[s] /\ p.st[q] # "requested"
Claimable(p, s) ==
  /\ IsClaimable(p.st[s])
  /\ \/ Requires[s] = 0
     \/ \E q \in Slices : q = Requires[s] /\ p.st[q] = "succeeded"

IsDone(p) == \A s \in Slices : ~IsOpen(p.st[s])

\* Slices `only' names that failed or were interrupted, back to requested.
RetryOpen(p, only) ==
  [p EXCEPT !.st = [s \in Slices |->
     IF s \in only /\ p.st[s] \in {"failed", "interrupted"}
     THEN "requested" ELSE p.st[s]]]

\* A succeeded slice whose part is gone or has another length is work again.
Wrong(p, s) == /\ p.st[s] = "succeeded"
               /\ p.art[s] # None
               /\ <<s, p.art[s]>> \notin files
RecheckArtifacts(p) ==
  [p EXCEPT !.st  = [s \in Slices |-> IF Wrong(p, s) THEN "requested" ELSE p.st[s]],
            !.art = [s \in Slices |-> IF Wrong(p, s) THEN None ELSE p.art[s]]]

\* (mutant) a state no reader of the ledger knows.
CancelOpen_Spelling(p) ==
  [p EXCEPT !.st = [s \in Slices |-> IF IsOpen(p.st[s]) THEN "canceled" ELSE p.st[s]]]
CancelOpen(p) ==
  [p EXCEPT !.st = [s \in Slices |-> IF IsOpen(p.st[s]) THEN "cancelled" ELSE p.st[s]]]

Interrupt(p) ==
  [p EXCEPT !.st = [s \in Slices |-> IF p.st[s] = "running" THEN "interrupted" ELSE p.st[s]],
            !.pid = None]

\* (mutant) no open chunk is taken for every chunk committed.
AssembledRead_NoneOpen(p) == IsDone(p)
AssembledRead(p) == IsDone(p) /\ \A s \in Slices : p.art[s] # None

-----------------------------------------------------------------------------
(* Who owns the ledger.                                                    *)

Alive(q) == q \in live
Running(p) == \E s \in Slices : p.st[s] = "running"

\* (mutant) the pid is the identity.
OwnerAlive_PidOnly(q, pid) == Alive(pid)
\* owner_alive, asked by process q about the pid the ledger names.
OwnerAlive(q, pid) ==
  IF witness = "absent"
  THEN Alive(pid) /\ ~(pid = q /\ q \notin ours)
  ELSE witness \in Procs
ExecutorAlive(q, p) == p.pid # None /\ OwnerAlive(q, p.pid)

\* claim_started: a lock that cannot be taken costs only the witness.
ClaimStarted(q) ==
  /\ ours' = ours \cup {q}
  /\ witness' = IF q \notin ours /\ witness \in {"absent", "free"} THEN q ELSE witness

\* release_started: unlock, then unlink whatever file is at the path.
ReleaseStarted(q) ==
  /\ ours' = ours \ {q}
  /\ witness' = IF q \in ours THEN "absent" ELSE witness

-----------------------------------------------------------------------------
(* Bounds and the operator.                                                *)

Spend(what) == budget[what] > 0 /\ budget' = [budget EXCEPT ![what] = @ - 1]

\* An operator starts `verb' on an idle thread of a live process; unless the
\* verb is in Overlap, only when no other verb is at work on this ledger.
Issue(a, verb) ==
  /\ pc[a] = "idle" /\ Alive(ProcOf[a])
  /\ verb \in Overlap \/ \A b \in Actors : pc[b] \in {"idle", "reclaim"}
  /\ Spend("verbs")

Goto(a, stage) == pc' = [pc EXCEPT ![a] = stage]

-----------------------------------------------------------------------------
(* retry, and the reclaim it shares with the sweep of every server.        *)

RetryLoad(a) ==
  /\ Issue(a, "retry")
  /\ copy' = [copy EXCEPT ![a] = disk]
  /\ Goto(a, IF ExecutorAlive(ProcOf[a], disk) \/ ~Running(disk)
             THEN "reopen" ELSE "reclaimForRetry")
  /\ UNCHANGED <<disk, files, witness, ours, live, force, wk, lost, done>>

\* reconcile, at a server's start and once a minute: the listing is only a
\* filter for the update below.
Sweep(a) ==
  /\ pc[a] = "idle" /\ Alive(ProcOf[a])
  /\ ~ExecutorAlive(ProcOf[a], disk) /\ Running(disk)
  /\ Goto(a, "reclaim")
  /\ UNCHANGED <<disk, files, witness, ours, live, copy, force, wk, lost, done, budget>>

\* (mutant) the listing's answer is acted on without asking again.
Reclaim_OnSnapshot(a) ==
  /\ pc[a] \in {"reclaim", "reclaimForRetry"}
  /\ disk' = IF Running(disk) THEN Interrupt(disk) ELSE disk
  /\ Goto(a, IF pc[a] = "reclaim" THEN "idle" ELSE "reload")
  /\ UNCHANGED <<files, witness, ours, live, copy, force, wk, lost, done, budget>>

\* reclaim_abandoned's update: decided again under the store lock.
Reclaim(a) ==
  /\ pc[a] \in {"reclaim", "reclaimForRetry"}
  /\ LET dead == ~ExecutorAlive(ProcOf[a], disk) /\ Running(disk)
     IN /\ disk' = IF dead THEN Interrupt(disk) ELSE disk
        /\ Goto(a, IF pc[a] = "reclaim" THEN "idle"
                   ELSE IF dead THEN "reload" ELSE "reopen")
  /\ UNCHANGED <<files, witness, ours, live, copy, force, wk, lost, done, budget>>

Reload(a) ==
  /\ pc[a] = "reload"
  /\ copy' = [copy EXCEPT ![a] = disk]
  /\ Goto(a, "reopen")
  /\ UNCHANGED <<disk, files, witness, ours, live, force, wk, lost, done, budget>>

\* retry_open on the copy, and the ownership stamp.  The CLI rechecks the
\* artifacts first; the console and MCP do not.
Reopen(a) ==
  /\ pc[a] = "reopen"
  /\ \E only \in {Slices} \cup {{s} : s \in Slices},
        seen \in {copy[a], RecheckArtifacts(copy[a])} :
       LET plan == RetryOpen(seen, only)
       IN IF plan.st = copy[a].st
          THEN /\ Goto(a, "idle")
               /\ UNCHANGED <<copy, ours, witness>>
          ELSE /\ Goto(a, "save")
               /\ copy' = [copy EXCEPT ![a] = [plan EXCEPT !.pid = ProcOf[a]]]
               /\ ClaimStarted(ProcOf[a])
  /\ UNCHANGED <<disk, files, live, force, wk, lost, done, budget>>

\* A bare save of the copy, not an update.  A retry forces its slices to run.
RetrySave(a) ==
  /\ pc[a] = "save"
  /\ disk' = copy[a]
  /\ force' = [force EXCEPT ![a] = TRUE]
  /\ Goto(a, "start")
  /\ UNCHANGED <<files, witness, ours, live, copy, wk, lost, done, budget>>

\* The save returns Err, or no DuckDB binary resolves after it: the verb ends
\* without executing and without releasing what it claimed.
RetryGivesUp(a) ==
  /\ pc[a] = "save"
  /\ Spend("faults")
  /\ disk' \in {disk, copy[a]}
  /\ Goto(a, "idle")
  /\ UNCHANGED <<files, witness, ours, live, copy, force, wk, lost, done>>

-----------------------------------------------------------------------------
(* The executor.                                                           *)

Min2(x, y) == IF x < y THEN x ELSE y
ClaimableCount(p) == Cardinality({s \in Slices : Claimable(p, s)})

\* A chunked extract rechecks its parts on the way in; then the executor saves
\* its copy, so that the file exists, and spawns its workers.
Start(a) ==
  /\ pc[a] = "start"
  /\ LET plan == IF RequiresArtifact THEN RecheckArtifacts(copy[a]) ELSE copy[a]
         n0   == Min2(MaxConcurrent, ClaimableCount(plan))
         n    == IF n0 < 1 THEN 1 ELSE n0
     IN /\ disk' = plan
        /\ copy' = [copy EXCEPT ![a] = plan]
        /\ wk' = [wk EXCEPT ![a] = [w \in Workers |->
                    IF w <= n THEN [Out EXCEPT !.at = "idle"] ELSE Out]]
  /\ Goto(a, "work")
  /\ UNCHANGED <<files, witness, ours, live, force, lost, done, budget>>

SetWorker(a, w, x) == wk' = [wk EXCEPT ![a][w] = x]
At(a, w, place) == pc[a] = "work" /\ wk[a][w].at = place

\* backfill::update with f: read the file, apply, write, under the store lock;
\* the executor keeps the result as its copy.
Update(a, plan) == disk' = plan /\ copy' = [copy EXCEPT ![a] = plan]

\* (mutant) the claim is remembered in memory and never said on disk.
Claim_Unsaid(a, w) ==
  /\ At(a, w, "idle")
  /\ \E s \in Slices : /\ Claimable(disk, s)
                      /\ SetWorker(a, w, [at |-> "claimed", s |-> s, res |-> "err"])
  /\ UNCHANGED <<disk, files, witness, ours, live, pc, copy, force, lost, done, budget>>

\* Take the first claimable slice of the FILE, and say so on disk first.
Claim(a, w) ==
  /\ At(a, w, "idle")
  /\ \E s \in Slices :
       /\ Claimable(disk, s)
       /\ \A t \in Slices : t < s => ~Claimable(disk, t)
       /\ Update(a, [disk EXCEPT !.st[s] = "running"])
       /\ SetWorker(a, w, [at |-> "claimed", s |-> s, res |-> "err"])
  /\ UNCHANGED <<files, witness, ours, live, pc, force, lost, done, budget>>

\* (mutant) a worker gives up at the first link that is blocked.
WorkerExits_AtBlocked(a, w) ==
  /\ At(a, w, "idle")
  /\ \/ \A s \in Slices : ~Claimable(disk, s)
     \/ \E s \in Slices : IsClaimable(disk.st[s]) /\ ~Claimable(disk, s)
  /\ Update(a, disk)
  /\ SetWorker(a, w, Out)
  /\ UNCHANGED <<files, witness, ours, live, pc, force, lost, done, budget>>

\* Nothing claimable: finished, blocked, or cancelled meanwhile.
WorkerExits(a, w) ==
  /\ At(a, w, "idle")
  /\ \A s \in Slices : ~Claimable(disk, s)
  /\ Update(a, disk)
  /\ SetWorker(a, w, Out)
  /\ UNCHANGED <<files, witness, ours, live, pc, force, lost, done, budget>>

\* update returned Err: a worker that cannot record must not work.
ClaimFails(a, w) ==
  /\ At(a, w, "idle")
  /\ Spend("faults")
  /\ SetWorker(a, w, Out)
  /\ UNCHANGED <<disk, files, witness, ours, live, pc, copy, force, lost, done>>

\* already_succeeded, filtered by what the work requires.
Reusable(a, s) ==
  /\ ~force[a]
  /\ s \in PriorDone
  /\ RequiresArtifact => <<s, "prior">> \in files

Reuse(a, w) ==
  /\ At(a, w, "claimed")
  /\ LET s == wk[a][w].s
     IN /\ Reusable(a, s)
        /\ Update(a, [disk EXCEPT !.st[s] = "succeeded",
                        !.art[s] = IF RequiresArtifact THEN "prior" ELSE None])
        /\ SetWorker(a, w, [wk[a][w] EXCEPT !.at = "idle"])
  /\ UNCHANGED <<files, witness, ours, live, pc, force, lost, done, budget>>

\* The slice's run: it fails, completes, or completes with nothing committed.
\* A chunk's part is renamed into place before the result is returned.
Work(a, w) ==
  /\ At(a, w, "claimed")
  /\ LET s == wk[a][w].s
     IN /\ ~Reusable(a, s)
        /\ \E res \in {"ok", "err"} \cup (IF RequiresArtifact THEN {"bare"} ELSE {}) :
             /\ SetWorker(a, w, [at |-> "ran", s |-> s, res |-> res])
             /\ done' = IF res = "ok" THEN done \cup {s} ELSE done
             /\ files' = IF RequiresArtifact /\ res = "ok"
                         THEN files \cup {<<s, "own">>} ELSE files
  /\ UNCHANGED <<disk, witness, ours, live, pc, copy, force, lost, budget>>

\* (mutant) the run returning is the slice succeeding.
Settled_OnReturn(p, s, res) ==
  [p EXCEPT !.st[s] = "succeeded",
            !.art[s] = IF RequiresArtifact THEN "own" ELSE None]

\* What the outcome of a run makes of its slice.
Settled(p, s, res) ==
  IF res \in {"err", "bare"}
  THEN [p EXCEPT !.st[s] = "failed"]
  ELSE [p EXCEPT !.st[s] = "succeeded",
                 !.art[s] = IF RequiresArtifact THEN "own" ELSE None]

\* (mutant) the executor writes back the plan it holds in memory.
Settle_FromMemory(a, w) ==
  /\ At(a, w, "ran")
  /\ Update(a, Settled(copy[a], wk[a][w].s, wk[a][w].res))
  /\ SetWorker(a, w, [wk[a][w] EXCEPT !.at = "idle"])
  /\ UNCHANGED <<files, witness, ours, live, pc, force, lost, done, budget>>

\* Onto the file, and onto this slice's fields alone.
Settle(a, w) ==
  /\ At(a, w, "ran")
  /\ Update(a, Settled(disk, wk[a][w].s, wk[a][w].res))
  /\ SetWorker(a, w, [wk[a][w] EXCEPT !.at = "idle"])
  /\ UNCHANGED <<files, witness, ours, live, pc, force, lost, done, budget>>

\* update returned Err: the caller is told, the ledger is not, the worker goes on.
SettleFails(a, w) ==
  /\ At(a, w, "ran") \/ (At(a, w, "claimed") /\ Reusable(a, wk[a][w].s))
  /\ Spend("faults")
  /\ SetWorker(a, w, [wk[a][w] EXCEPT !.at = "idle"])
  /\ UNCHANGED <<disk, files, witness, ours, live, pc, copy, force, lost, done>>

\* The last worker is joined: released, then the pid is cleared on the file.
Release(a) ==
  /\ pc[a] = "work"
  /\ \A w \in Workers : wk[a][w].at = "out"
  /\ ReleaseStarted(ProcOf[a])
  /\ Goto(a, "finish")
  /\ UNCHANGED <<disk, files, live, copy, force, wk, lost, done, budget>>

ClearPid(a) ==
  /\ pc[a] = "finish"
  /\ \/ disk' = [disk EXCEPT !.pid = None] /\ UNCHANGED budget
     \/ disk' = disk /\ Spend("faults")
  /\ Goto(a, "idle")
  /\ UNCHANGED <<files, witness, ours, live, copy, force, wk, lost, done>>

-----------------------------------------------------------------------------
(* cancel: a bare load, a bare save, and the executor's pid erased.        *)

CancelLoad(a) ==
  /\ Issue(a, "cancel")
  /\ copy' = [copy EXCEPT ![a] = disk]
  /\ Goto(a, "cancel")
  /\ UNCHANGED <<disk, files, witness, ours, live, force, wk, lost, done>>

CancelSave(a) ==
  /\ pc[a] = "cancel"
  /\ \/ disk' = [CancelOpen(copy[a]) EXCEPT !.pid = None] /\ UNCHANGED budget
     \/ disk' = disk /\ Spend("faults")
  /\ Goto(a, "idle")
  /\ UNCHANGED <<files, witness, ours, live, copy, force, wk, lost, done>>

-----------------------------------------------------------------------------
(* Processes and the outside world.                                        *)

\* Killed: its threads and its OURS table go; the kernel drops its locks.
Crash(q) ==
  /\ Alive(q) /\ Spend("crashes")
  /\ live' = live \ {q}
  /\ ours' = ours \ {q}
  /\ witness' = IF witness = q THEN "free" ELSE witness
  /\ pc' = [a \in Actors |-> IF ProcOf[a] = q THEN "idle" ELSE pc[a]]
  /\ wk' = [a \in Actors |-> IF ProcOf[a] = q THEN [w \in Workers |-> Out] ELSE wk[a]]
  /\ UNCHANGED <<disk, files, copy, force, lost, done>>

\* A process starts, with the pid it had before.
Boot(q) ==
  /\ ~Alive(q)
  /\ live' = live \cup {q}
  /\ UNCHANGED <<disk, files, witness, ours, pc, copy, force, wk, lost, done, budget>>

\* A committed part is deleted or truncated behind the ledger's back.
LosePart(f) ==
  /\ f \in files /\ Spend("losses")
  /\ files' = files \ {f}
  /\ lost' = lost \cup {f}
  /\ UNCHANGED <<disk, witness, ours, live, pc, copy, force, wk, done>>

-----------------------------------------------------------------------------
NewPlan == [st  |-> [s \in Slices |-> "requested"],
            art |-> [s \in Slices |-> None],
            pid |-> ProcOf[Creator]]

\* plan_for has claimed the witness and `create' has saved the plan.
Init ==
  /\ disk = NewPlan
  /\ files = IF RequiresArtifact THEN PriorDone \X {"prior"} ELSE {}
  /\ witness = ProcOf[Creator]
  /\ ours = {ProcOf[Creator]}
  /\ live = {ProcOf[Creator]}
  /\ pc = [a \in Actors |-> IF a = Creator THEN "start" ELSE "idle"]
  /\ copy = [a \in Actors |-> NewPlan]
  /\ force \in {[a \in Actors |-> f] : f \in BOOLEAN}
  /\ wk = [a \in Actors |-> [w \in Workers |-> Out]]
  /\ lost = {}
  /\ done = PriorDone
  /\ budget = [b \in Bounds |-> CASE b = "verbs"   -> MaxVerbs
                                 [] b = "crashes" -> MaxCrashes
                                 [] b = "losses"  -> MaxLosses
                                 [] b = "faults"  -> MaxFaults]

WorkerStep(a, w) ==
  \/ Claim(a, w) \/ WorkerExits(a, w) \/ ClaimFails(a, w)
  \/ Reuse(a, w) \/ Work(a, w) \/ Settle(a, w) \/ SettleFails(a, w)

RetryStep(a) ==
  RetryLoad(a) \/ Reload(a) \/ Reopen(a) \/ RetrySave(a) \/ RetryGivesUp(a)
ReclaimStep(a) == Sweep(a) \/ Reclaim(a)
ExecutorStep(a) ==
  Start(a) \/ (\E w \in Workers : WorkerStep(a, w)) \/ Release(a) \/ ClearPid(a)
CancelStep(a) == CancelLoad(a) \/ CancelSave(a)

Next ==
  \/ \E a \in Actors : \/ RetryStep(a) \/ ReclaimStep(a) \/ ExecutorStep(a)
                       \/ CancelStep(a)
  \/ \E q \in Procs : Boot(q) \/ Crash(q)
  \/ \E f \in files : LosePart(f)

Spec == Init /\ [][Next]_vars

\* An executor's threads run; a server sweeps once a minute; a supervisor
\* starts a process that died.  Operators promise nothing.
Fairness ==
  /\ \A a \in Actors :
       /\ WF_vars(Start(a)) /\ WF_vars(Release(a)) /\ WF_vars(ClearPid(a))
       /\ \A w \in Workers : WF_vars(Claim(a, w) \/ WorkerExits(a, w)
                                    \/ Reuse(a, w) \/ Work(a, w) \/ Settle(a, w))
       /\ WF_vars(RetrySave(a)) /\ WF_vars(Reopen(a)) /\ WF_vars(Reload(a))
       /\ WF_vars(Reclaim(a)) /\ WF_vars(CancelSave(a)) /\ WF_vars(Sweep(a))
  /\ \A q \in Procs : WF_vars(Boot(q))

FairSpec == Spec /\ Fairness

-----------------------------------------------------------------------------
(* Properties.                                                             *)

\* The live workers that hold slice s, running it or about to record it.
Holds(a, w, s) == wk[a][w].at \in {"claimed", "ran"} /\ wk[a][w].s = s
Holders(s) == {h \in Actors \X Workers : Holds(h[1], h[2], s)}

\* No slice is run beside itself: two workers, of one executor or of two, are
\* never on the same slice (the claim in execute_with, and the reclaim of a
\* slice whose executor is dead).
NoDoubleRun == \A s \in Slices : Cardinality(Holders(s)) <= 1

\* reclaim_abandoned never interrupts a slice a live worker is on.
LiveLeftAlone ==
  [][\A s \in Slices : Holders(s) # {} /\ disk.st[s] = "running"
                         => disk'.st[s] # "interrupted"]_vars

\* An executor that is done with its ledger leaves no slice a worker could have
\* taken, although its workers exit one by one as they find nothing.
NothingLeftBehind ==
  \A a \in Actors : pc[a] = "finish" => \A s \in Slices : ~Claimable(disk, s)

\* The ledger, and every copy of it in flight, calls a slice succeeded only if
\* the work behind it completed; with a part that was committed, when it must
\* have one, and that only an outsider can have taken away since.
Vouched(p, completed, parts) ==
  \A s \in Slices :
    /\ p.st[s] = "succeeded" =>
         s \in completed /\ (RequiresArtifact => p.art[s] # None)
    /\ p.art[s] # None => s \in completed /\ <<s, p.art[s]>> \in parts
SucceededMeansDone ==
  \A p \in {disk} \cup {copy[a] : a \in Actors} : Vouched(p, done, files \cup lost)

\* A link of an ordered chain runs only after the work of its predecessor has
\* completed, whoever edits the ledger meanwhile.
ChainOrder ==
  \A s \in Slices :
    Holders(s) # {} => Requires[s] = 0 \/ Requires[s] \in done

\* assembled_read only ever reads an extract that is whole: every chunk was
\* read, and its part is there unless an outsider removed it.
AssembledIsWhole ==
  RequiresArtifact /\ AssembledRead(disk) =>
    \A s \in Slices : s \in done /\ <<s, disk.art[s]>> \in files \cup lost

\* A cancel that has landed sticks: no step of an executor brings back a slice
\* nobody was on, unless a bare save of an older copy is still on its way.
StaleSaves == {a \in Actors : pc[a] \in {"save", "start", "cancel"}}
CancelSticks ==
  [][\A s \in Slices :
       disk.st[s] = "cancelled" /\ Holders(s) = {} /\ StaleSaves = {}
         => disk'.st[s] = "cancelled"]_vars

\* `running' is a claim about a process that exists: it does not last beyond it.
RunningIsTransient ==
  \A s \in Slices : (disk.st[s] = "running") ~> (disk.st[s] # "running")

\* An executor ends, whatever its slices do: a failed slice is not taken again.
ExecutorEnds == \A a \in Actors : (pc[a] = "work") ~> (pc[a] = "idle")

-----------------------------------------------------------------------------
(* What a comment promises and the code does not keep (README, "Findings").  *)

\* "A kill halfway through leaves a resumable record": once nobody executes the
\* ledger, a slice that could run is one that a retry would pick up.
KilledIsResumable ==
  (\A a \in Actors : pc[a] = "idle") /\ (\E s \in Slices : Claimable(disk, s))
    => \E s \in Slices : disk.st[s] \in {"failed", "interrupted", "running"}

=============================================================================
