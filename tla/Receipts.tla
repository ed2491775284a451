------------------------------ MODULE Receipts ------------------------------
(***************************************************************************)
(* The receipt of each run (runs/receipts/<id>.json) and who may write it:  *)
(* the servers that run it, behind the permits of their admission pool and  *)
(* a witness lock that says the work goes on; the sweep by which every      *)
(* server marks the runs of dead ones interrupted; and a cancel that may    *)
(* reach another server than the one at work.  Sources: duckdb-engine       *)
(* retry.rs, runlock.rs, pools.rs, recovery.rs; duckle-runner serve.rs.     *)
(*                                                                         *)
(* One pool is modelled: the pools of a server do not meet.  Of a receipt   *)
(* the state and the pid are kept, of the directory who was written when.   *)
(***************************************************************************)
EXTENDS Integers, FiniteSets

CONSTANTS
  Runs,          \* run ids, each minted once
  Async,         \* those of /api/run/async; a server runs the others in the thread that asks
  Servers,       \* `serve' processes on one workspace
  Pid,           \* the pid of each; a container's entrypoint has the same one every time
  Host,          \* the machine of each
  LocksWork,     \* the workspace's storage takes locks
  Permits,       \* permits of the pool in each server
  MaxReceipts,   \* MAX_RECEIPTS: those not running that a write leaves
  Endless,       \* runs that do not end unless they are stopped
  Named,         \* runs a retained publication or delivery names
  MaxSweeps,     \* bound: servers whose sweeps overlap
  MaxFailures,   \* bound: servers killed and runs that unwind
  Cancelled      \* bound: the runs somebody may ask to stop

NoRun    == "none"
NoServer == "nobody"
NoPid    == 0
Pids     == {Pid[p] : p \in Servers}

ASSUME ReceiptAssumption ==
  /\ {Async, Endless, Named, Cancelled} \subseteq SUBSET Runs
  /\ IsFiniteSet(Runs) /\ NoRun \notin Runs /\ NoServer \notin Servers /\ NoPid \notin Pids
  /\ Permits \in Nat \ {0} /\ {MaxReceipts, MaxSweeps, MaxFailures} \subseteq Nat
\* Without a witness the pid is all there is, and it is judged on one machine.
ASSUME LivenessAssumption ==
  LocksWork \/ \A p, q \in Servers : Host[p] = Host[q] /\ (Pid[p] = Pid[q] => p = q)

VARIABLES
  receipt,  \* what the file of each run says
  before,   \* <<x, y>>: the receipt of x was written before that of y
  witness,  \* the lock file of each run: absent, free or held
  ours,     \* OURS of each server: the runs it remembers starting
  up,       \* servers that are running
  at,       \* where the thread of each run is
  owner,    \* the server that has it
  holds,    \* runs with a permit
  asleep,   \* runs waiting on the condition variable
  free,     \* what the pool of each server counts as free
  sweep,    \* the receipt each server's sweep has in hand
  cancel,   \* runs with a .cancel file
  flagged,  \* runs whose engine has been told to stop, while they have one
  failures  \* servers killed and runs unwound so far

files   == <<receipt, before>>
pool    == <<holds, asleep, free>>
cancels == <<cancel, flagged>>
vars    == <<receipt, before, witness, ours, up, at, owner, holds, asleep, free,
             sweep, cancel, flagged, failures>>

-----------------------------------------------------------------------------
(* Types.                                                                  *)

States   == {"none", "queued", "running", "interrupted", "finished"}
Receipt  == [state : States, pid : Pids \cup {NoPid}]
NoFile   == [state |-> "none", pid |-> NoPid]
InFlight == {"queued", "running"}

\* From the acceptance of an asynchronous run to the end of its thread; lost and
\* stranded are the runs of a killed server and of an unwound thread.
Stages == {"idle", "accepted", "begun", "asking", "admitting", "engine",
           "abandoning", "ending", "letting", "unlinked", "written", "over",
           "lost", "stranded"}
\* Stages in which the run is still to be done, by a server that says so.
Working == {"accepted", "begun", "asking", "admitting", "engine", "abandoning", "ending"}
Gone    == {"idle", "over", "lost", "stranded"}

Sweep == [at : {"idle", "read", "looked", "dead"}, run : Runs \cup {NoRun}, pid : Pids \cup {NoPid}]
Idle  == [at |-> "idle", run |-> NoRun, pid |-> NoPid]

TypeOK ==
  /\ receipt \in [Runs -> Receipt]
  /\ before \in SUBSET (Runs \X Runs)
  /\ witness \in [Runs -> {"absent", "free", "held"}]
  /\ ours \in [Servers -> SUBSET Runs]
  /\ up \in SUBSET Servers
  /\ at \in [Runs -> Stages]
  /\ owner \in [Runs -> Servers \cup {NoServer}]
  /\ holds \in SUBSET Runs /\ asleep \in SUBSET Runs
  /\ free \in [Servers -> 0..Permits]
  /\ sweep \in [Servers -> Sweep]
  /\ cancel \in SUBSET Runs /\ flagged \in SUBSET Runs
  /\ failures \in Nat

Init ==
  /\ receipt = [r \in Runs |-> NoFile]
  /\ before = {}
  /\ witness = [r \in Runs |-> "absent"]
  /\ ours = [p \in Servers |-> {}]
  /\ up = Servers
  /\ at = [r \in Runs |-> "idle"]
  /\ owner = [r \in Runs |-> NoServer]
  /\ holds = {} /\ asleep = {}
  /\ free = [p \in Servers |-> Permits]
  /\ sweep = [p \in Servers |-> Idle]
  /\ cancel = {} /\ flagged = {}
  /\ failures = 0

Alive(r) == owner[r] \in up

-----------------------------------------------------------------------------
(* The directory.                                                          *)

\* What prune may take: any receipt it reads that does not say running.
Prunable(f) == {x \in Runs : f[x].state \notin {"none", "running"} /\ x \notin Named}

\* prune: the oldest of them beyond MaxReceipts.
Pruned(f, b) ==
  {x \in Prunable(f) : Cardinality({y \in Prunable(f) : <<x, y>> \in b}) >= MaxReceipts}

\* write: a rename, and then prune.
Write(r, c) ==
  LET f == [receipt EXCEPT ![r] = c]
      b == {e \in before : r \notin {e[1], e[2]}}
             \cup {<<x, r>> : x \in {y \in Runs \ {r} : receipt[y] # NoFile}}
      gone == Pruned(f, b)
  IN  /\ receipt' = [x \in Runs |-> IF x \in gone THEN NoFile ELSE f[x]]
      /\ before' = {e \in b : e[1] \notin gone /\ e[2] \notin gone}

Says(r, state) == Write(r, [state |-> state, pid |-> Pid[owner'[r]]])

-----------------------------------------------------------------------------
(* The witness.                                                            *)

\* claim_started: not a second time for a run that is this server's already.
ClaimStarted(p, r) ==
  /\ ours' = [ours EXCEPT ![p] = @ \cup {r}]
  /\ witness' = IF r \in ours[p] THEN witness
                ELSE [witness EXCEPT ![r] = IF LocksWork THEN "held" ELSE "free"]

\* process_alive, asked on the machine of p.
ProcessAlive(p, n) == \E q \in up : Host[q] = Host[p] /\ Pid[q] = n

StartedByAPreviousLife(p, n, r) == n = Pid[p] /\ r \notin ours[p]

\* The last line of owner_alive, for the receipt p has in hand.
PidSaysAlive(p) ==
  /\ ProcessAlive(p, sweep[p].pid)
  /\ ~StartedByAPreviousLife(p, sweep[p].pid, sweep[p].run)

-----------------------------------------------------------------------------
(* A run, from its request to the end of its thread.                       *)

\* The 202 of /api/run/async: the receipt exists before the caller hears of it.
Accept(p, r) ==
  /\ p \in up /\ r \in Async /\ at[r] = "idle"
  /\ at' = [at EXCEPT ![r] = "accepted"]
  /\ owner' = [owner EXCEPT ![r] = p]
  /\ ClaimStarted(p, r)
  /\ Says(r, "queued")
  /\ UNCHANGED <<up, pool, sweep, cancels, failures>>

\* The document does not parse or a parameter is refused: it never begins.
Refused(r) ==
  /\ Alive(r) /\ at[r] = "accepted"
  /\ at' = [at EXCEPT ![r] = "abandoning"]
  /\ UNCHANGED <<files, witness, ours, up, owner, pool, sweep, cancels, failures>>

\* A begin that takes a cancel left for the accepted run for an old one.
Begin_Fresh(p, r) ==
  /\ p \in up
  /\ \/ r \in Async /\ at[r] = "accepted" /\ owner[r] = p
     \/ r \notin Async /\ at[r] = "idle"
  /\ at' = [at EXCEPT ![r] = "begun"]
  /\ owner' = [owner EXCEPT ![r] = p]
  /\ ClaimStarted(p, r)
  /\ Says(r, "running")
  /\ cancel' = cancel \ {r}
  /\ UNCHANGED <<up, pool, sweep, flagged, failures>>

\* begin, and the second write that adds what the run was given.
Begin(p, r) ==
  /\ p \in up
  /\ \/ r \in Async /\ at[r] = "accepted" /\ owner[r] = p
     \/ r \notin Async /\ at[r] = "idle"
  /\ at' = [at EXCEPT ![r] = "begun"]
  /\ owner' = [owner EXCEPT ![r] = p]
  /\ ClaimStarted(p, r)
  /\ Says(r, "running")
  /\ UNCHANGED <<up, pool, sweep, cancels, failures>>

\* is_saturated, and enqueue when it is.
AskPool(r) ==
  /\ Alive(r) /\ at[r] = "begun"
  /\ at' = [at EXCEPT ![r] = "asking"]
  /\ UNCHANGED owner
  /\ IF free[owner[r]] = 0 THEN Says(r, "queued") ELSE UNCHANGED files
  /\ UNCHANGED <<witness, ours, up, pool, sweep, cancels, failures>>

\* Gate::acquire by a thread that is awake: the loop around the wait.
Acquire(r) ==
  /\ Alive(r) /\ at[r] = "asking" /\ r \notin asleep
  /\ IF free[owner[r]] = 0
     THEN asleep' = asleep \cup {r} /\ UNCHANGED <<at, holds, free>>
     ELSE /\ free' = [free EXCEPT ![owner[r]] = @ - 1]
          /\ holds' = holds \cup {r}
          /\ at' = [at EXCEPT ![r] = "admitting"]
          /\ UNCHANGED asleep
  /\ UNCHANGED <<files, witness, ours, up, owner, sweep, cancels, failures>>

Admitted(r) ==
  /\ Alive(r) /\ at[r] = "admitting"
  /\ at' = [at EXCEPT ![r] = "engine"]
  /\ UNCHANGED owner
  /\ Says(r, "running")
  /\ UNCHANGED <<witness, ours, up, pool, sweep, cancels, failures>>

\* The pipeline is done, or has failed, or was stopped.
EngineEnds(r) ==
  /\ Alive(r) /\ at[r] = "engine"
  /\ at' = [at EXCEPT ![r] = "ending"]
  /\ UNCHANGED <<files, witness, ours, up, owner, pool, sweep, cancels, failures>>

\* A Permit whose drop wakes nobody.
ReturnPermit_Silent(r) ==
  /\ holds' = holds \ {r}
  /\ free' = [free EXCEPT ![owner[r]] = @ + 1]
  /\ UNCHANGED asleep

\* Dropping a Permit: one back, and one sleeper woken if there is one.
ReturnPermit(r) ==
  LET p == owner[r]
      sleepers == {x \in asleep : owner[x] = p}
  IN  /\ holds' = holds \ {r}
      /\ free' = [free EXCEPT ![p] = @ + 1]
      /\ IF sleepers = {} THEN UNCHANGED asleep
         ELSE \E x \in sleepers : asleep' = asleep \ {x}

\* A permit given back by a call that a panic does not reach.
Panic_Leaks(r) ==
  /\ Alive(r) /\ at[r] = "engine" /\ failures < MaxFailures
  /\ at' = [at EXCEPT ![r] = IF r \in Async THEN "abandoning" ELSE "stranded"]
  /\ holds' = holds \ {r}
  /\ failures' = failures + 1
  /\ UNCHANGED <<files, witness, ours, up, owner, asleep, free, sweep, cancels>>

\* A panic unwinds past finish and returns the permit.  The thread of an
\* asynchronous run catches it and gives the run up; nothing else does.
Panic(r) ==
  /\ Alive(r) /\ at[r] = "engine" /\ failures < MaxFailures
  /\ at' = [at EXCEPT ![r] = IF r \in Async THEN "abandoning" ELSE "stranded"]
  /\ ReturnPermit(r)
  /\ failures' = failures + 1
  /\ UNCHANGED <<files, witness, ours, up, owner, sweep, cancels>>

\* abandon: finish as an error what is there and not finished.
Abandon(r) ==
  /\ Alive(r) /\ at[r] = "abandoning"
  /\ at' = [at EXCEPT ![r] = IF receipt[r].state \in {"none", "finished"} THEN "over" ELSE "ending"]
  /\ UNCHANGED <<files, witness, ours, up, owner, pool, sweep, cancels, failures>>

\* finish: the witness is let go and removed, the cancel with it, and only then
\* does the receipt say so.
FinishLets(r) ==
  /\ Alive(r) /\ at[r] = "ending"
  /\ at' = [at EXCEPT ![r] = "letting"]
  /\ ours' = [ours EXCEPT ![owner[r]] = @ \ {r}]
  /\ witness' = [witness EXCEPT ![r] = "free"]
  /\ UNCHANGED <<files, up, owner, pool, sweep, cancels, failures>>

FinishUnlinks(r) ==
  /\ Alive(r) /\ at[r] = "letting"
  /\ at' = [at EXCEPT ![r] = "unlinked"]
  /\ witness' = [witness EXCEPT ![r] = "absent"]
  /\ cancel' = cancel \ {r}
  /\ UNCHANGED <<files, ours, up, owner, pool, sweep, flagged, failures>>

FinishWrites(r) ==
  /\ Alive(r) /\ at[r] = "unlinked"
  /\ at' = [at EXCEPT ![r] = "written"]
  /\ Write(r, [state |-> "finished", pid |-> NoPid])
  /\ UNCHANGED <<witness, ours, up, owner, pool, sweep, cancels, failures>>

\* A permit given back whether or not the thread has one.
ThreadEnds_Always(r) ==
  /\ Alive(r) /\ at[r] = "written"
  /\ at' = [at EXCEPT ![r] = "over"]
  /\ ReturnPermit(r)
  /\ flagged' = flagged \ {r}
  /\ UNCHANGED <<files, witness, ours, up, owner, sweep, cancel, failures>>

\* Recorded and alerted; the thread ends and the permit goes back.
ThreadEnds(r) ==
  /\ Alive(r) /\ at[r] = "written"
  /\ at' = [at EXCEPT ![r] = "over"]
  /\ IF r \in holds THEN ReturnPermit(r) ELSE UNCHANGED pool
  /\ flagged' = flagged \ {r}
  /\ UNCHANGED <<files, witness, ours, up, owner, sweep, cancel, failures>>

-----------------------------------------------------------------------------
(* The sweep (reconcile), a receipt at a time.  It runs once a minute in a  *)
(* thread of its own, and when a server starts.                            *)

\* A sweep of the running only.
SweepReads_Running(p, r) ==
  /\ p \in up /\ sweep[p] = Idle
  /\ Cardinality({q \in Servers : sweep[q] # Idle}) < MaxSweeps
  /\ receipt[r].state = "running"
  /\ sweep' = [sweep EXCEPT ![p] = [at |-> "read", run |-> r, pid |-> receipt[r].pid]]
  /\ UNCHANGED <<files, witness, ours, up, at, owner, pool, cancels, failures>>

SweepReads(p, r) ==
  /\ p \in up /\ sweep[p] = Idle
  /\ Cardinality({q \in Servers : sweep[q] # Idle}) < MaxSweeps
  /\ receipt[r].state \in InFlight
  /\ sweep' = [sweep EXCEPT ![p] = [at |-> "read", run |-> r, pid |-> receipt[r].pid]]
  /\ UNCHANGED <<files, witness, ours, up, at, owner, pool, cancels, failures>>

\* owner_alive: is there a witness?
SweepLooks(p) ==
  /\ p \in up /\ sweep[p].at = "read"
  /\ sweep' = [sweep EXCEPT ![p] =
       IF witness[sweep[p].run] # "absent" THEN [@ EXCEPT !.at = "looked"]
       ELSE IF PidSaysAlive(p) THEN Idle
       ELSE [@ EXCEPT !.at = "dead"]]
  /\ UNCHANGED <<files, witness, ours, up, at, owner, pool, cancels, failures>>

\* A sweep that goes by the pid, as before there were witnesses.
SweepTries_PidOnly(p) ==
  /\ p \in up /\ sweep[p].at = "looked"
  /\ sweep' = [sweep EXCEPT ![p] = IF PidSaysAlive(p) THEN Idle ELSE [@ EXCEPT !.at = "dead"]]
  /\ UNCHANGED <<files, witness, ours, up, at, owner, pool, cancels, failures>>

\* Then it is tried, which makes it again if it has gone.  Taken and dropped at
\* once; a second sweep that finds it held by the first takes the run as alive,
\* as it would have a moment before, and comes again.
SweepTries(p) ==
  LET r == sweep[p].run IN
  /\ p \in up /\ sweep[p].at = "looked"
  /\ sweep' = [sweep EXCEPT ![p] =
       IF witness[r] = "held" \/ (~LocksWork /\ PidSaysAlive(p)) THEN Idle
       ELSE [@ EXCEPT !.at = "dead"]]
  /\ witness' = [witness EXCEPT ![r] = IF @ = "absent" THEN "free" ELSE @]
  /\ UNCHANGED <<files, ours, up, at, owner, pool, cancels, failures>>

\* The receipt that was read is written back as interrupted, and the run history
\* told the same.
SweepMarks(p) ==
  /\ p \in up /\ sweep[p].at = "dead"
  /\ Write(sweep[p].run, [state |-> "interrupted", pid |-> NoPid])
  /\ sweep' = [sweep EXCEPT ![p] = Idle]
  /\ UNCHANGED <<witness, ours, up, at, owner, pool, cancels, failures>>

-----------------------------------------------------------------------------
(* Cancelling (DELETE /api/run).                                           *)

\* At the server that has the handle.
CancelHere(r) ==
  /\ r \in Cancelled \ flagged
  /\ Alive(r) /\ r \in Async /\ at[r] \notin Gone
  /\ flagged' = flagged \cup {r}
  /\ UNCHANGED <<files, witness, ours, up, at, owner, pool, sweep, cancel, failures>>

\* At another, or for a run that left no handle: a receipt that says in flight,
\* and then the request beside it.  The run may have ended since it was read.
CancelElsewhere(q, r) ==
  /\ q \in up /\ r \in Cancelled \ cancel
  /\ r \notin Async \/ owner[r] # q
  /\ at[r] # "idle"
  /\ cancel' = cancel \cup {r}
  /\ UNCHANGED <<files, witness, ours, up, at, owner, pool, sweep, flagged, failures>>

\* watch_for_remote_cancel, of every asynchronous run and of no other.
Watch(r) ==
  /\ Alive(r) /\ r \in Async /\ at[r] \notin Gone
  /\ r \in cancel /\ r \notin flagged
  /\ flagged' = flagged \cup {r}
  /\ UNCHANGED <<files, witness, ours, up, at, owner, pool, sweep, cancel, failures>>

-----------------------------------------------------------------------------
(* Processes.                                                              *)

\* A killed server: the kernel lets its locks go, and its threads end.
Crash(p) ==
  LET mine == {r \in Runs : owner[r] = p /\ at[r] \notin {"idle", "over"}} IN
  /\ p \in up /\ failures < MaxFailures
  /\ up' = up \ {p}
  /\ at' = [r \in Runs |-> IF r \in mine THEN "lost" ELSE at[r]]
  /\ witness' = [r \in Runs |-> IF r \in ours[p] /\ witness[r] = "held" THEN "free" ELSE witness[r]]
  /\ ours' = [ours EXCEPT ![p] = {}]
  /\ holds' = {r \in holds : owner[r] # p}
  /\ asleep' = {r \in asleep : owner[r] # p}
  /\ free' = [free EXCEPT ![p] = Permits]
  /\ sweep' = [sweep EXCEPT ![p] = Idle]
  /\ failures' = failures + 1
  /\ flagged' = flagged \ mine
  /\ UNCHANGED <<files, owner, cancel>>

Boot(p) ==
  /\ p \notin up
  /\ up' = up \cup {p}
  /\ UNCHANGED <<files, witness, ours, at, owner, pool, sweep, cancels, failures>>

RunStep(r) ==
  \/ Refused(r) \/ AskPool(r) \/ Acquire(r) \/ Admitted(r) \/ EngineEnds(r) \/ Panic(r)
  \/ Abandon(r) \/ FinishLets(r) \/ FinishUnlinks(r) \/ FinishWrites(r) \/ ThreadEnds(r)
SweepStep(p) == SweepLooks(p) \/ SweepTries(p) \/ SweepMarks(p)

Next ==
  \/ \E p \in Servers, r \in Runs :
        Accept(p, r) \/ Begin(p, r) \/ SweepReads(p, r) \/ CancelElsewhere(p, r)
  \/ \E r \in Runs : RunStep(r) \/ CancelHere(r) \/ Watch(r)
  \/ \E p \in Servers : SweepStep(p) \/ Crash(p) \/ Boot(p)

Spec == Init /\ [][Next]_vars
-----------------------------------------------------------------------------
(* Safety.                                                                 *)

\* A run that a live server still has before it is never declared dead, by any
\* sweep on any machine: its receipt says in flight, or prune took it while it
\* was queued.  One in the engine says running, and whose it is.
WorkIsKept ==
  \A r \in Runs :
    /\ at[r] \in Working => receipt[r].state \in InFlight \cup {"none"}
    /\ at[r] = "engine" => receipt[r] = [state |-> "running", pid |-> Pid[owner[r]]]

\* Permits are neither lost nor made: what a pool counts as free and the runs of
\* that server that hold one are always the whole, and no run is in the engine
\* without one, through panics, restarts and abandoned runs.
LimitHolds ==
  /\ \A p \in Servers : free[p] + Cardinality({r \in holds : owner[r] = p}) = Permits
  /\ \A r \in Runs : at[r] = "engine" => r \in holds

-----------------------------------------------------------------------------
(* Liveness.                                                               *)

Proceed(r) ==
  \/ AskPool(r) \/ Acquire(r) \/ Admitted(r) \/ Abandon(r)
  \/ EngineEnds(r) /\ (r \in Endless => r \in flagged)
  \/ FinishLets(r) \/ FinishUnlinks(r) \/ FinishWrites(r) \/ ThreadEnds(r)
Start(r) == Refused(r) \/ (at[r] = "accepted" /\ \E p \in Servers : Begin(p, r))

\* Threads run; a pipeline ends, or is stopped at its next look at the flag; a
\* sweep walks the whole directory, so every receipt in flight has its turn; the
\* watcher polls.  That a killed server comes back is not assumed.
Fairness ==
  /\ \A r \in Runs : WF_vars(Start(r)) /\ WF_vars(Proceed(r)) /\ WF_vars(Watch(r))
  /\ \A p \in Servers : WF_vars(SweepStep(p))
  /\ \A r \in Runs : SF_vars(\E p \in Servers : SweepReads(p, r))

FairSpec == Spec /\ Fairness

\* While some server is up, a run whose server was killed stops reading as
\* queued or running, whatever pid the dead had and on whatever machine.
DeadAreNoticed == \A r \in Runs : at[r] = "lost" ~> receipt[r].state \notin InFlight

\* Whoever waits for a permit gets one, or dies with its server, unless a run
\* without end has it: no permit comes back without waking somebody who can use it.
WaitersAreServed ==
  \A r \in Runs :
    at[r] = "asking" ~> (at[r] # "asking" \/ \E x \in Endless : at[x] = "engine")

\* A cancel left by another server, however early in the run's life, ends an
\* asynchronous run, one that would never end by itself included.
CancelIsHeard == \A r \in Async : r \in cancel ~> at[r] \in Gone

=============================================================================
