----------------------------- MODULE Occurrences -----------------------------
(***************************************************************************)
(* One schedule on one workspace, and every scheduler that looks at it: any *)
(* number of `serve' processes and of desktops.  Each works out for itself  *)
(* that an occurrence is due; the claim file, the occurrence ledger, the    *)
(* schedule store, the catch-up turn and the pipeline's run lock are what   *)
(* they share.  Sources: duckdb-engine occurrences.rs, duckle-runner        *)
(* serve.rs (spawn_scheduler and what it calls), scheduler lib.rs.          *)
(*                                                                         *)
(* A step is one file operation, or one section under a store lock; a tick  *)
(* is as many steps as it makes file operations.  An instant is a number;   *)
(* the expression, zone and exclusion calendar of a schedule are the set of *)
(* instants they come to.                                                  *)
(***************************************************************************)
EXTENDS Integers, FiniteSets, FiniteSetsExt

CONSTANTS
  Servers, Desktops, \* process identities
  Configs,           \* what the schedule may be edited to
  Kind,              \* Kind[c]: "cron", "interval" or "off" (not enabled)
  DueOf,             \* DueOf[c]: the instants c comes due at
  FirstConfig,
  RunsPlan,          \* the schedule fires a plan, not one pipeline
  Misfire,           \* "skip", "latest" or "all"
  MaxCatchup,        \* Bounds.max_catchup_runs
  MaxAge,            \* Bounds.max_catchup_age_days
  Stall,             \* stall_allowance: how long a live scheduler may not tick
  Prompt,            \* no live scheduler is stalled, by scheduler_stall's rule
  Skew,              \* Skew[p]: how far ahead the clock of process p runs
  Anchor,            \* the newest recorded instant at the start; 0 for none
  MaxTime,           \* bound: the last instant
  MaxCrashes,        \* bound: processes killed
  MaxFaults,         \* bound: claims, records and commits that return Err
  MaxEdits           \* bound: edits of the schedule, unrelated saves

Procs     == Servers \cup Desktops
Instants  == 1..MaxTime
None      == "none"
Decisions == {"fired", "skipped"}

ASSUME ProcAssumption ==
  /\ Servers \cap Desktops = {} /\ None \notin Procs
  /\ Skew \in [Procs -> Nat]
ASSUME ConfigAssumption ==
  /\ FirstConfig \in Configs /\ None \notin Configs
  /\ Kind \in [Configs -> {"cron", "interval", "off"}]
  /\ DueOf \in [Configs -> SUBSET Instants]
  /\ Misfire \in {"skip", "latest", "all"}
  /\ Prompt \in BOOLEAN
  /\ RunsPlan \in BOOLEAN
  /\ RunsPlan => Desktops = {}  \* a desktop's plan locks step by step: not modelled
ASSUME NumberAssumption ==
  /\ {MaxCatchup, MaxAge, Stall, MaxTime, MaxCrashes, MaxFaults, MaxEdits} \subseteq Nat
  /\ Anchor \in 0..MaxTime

VARIABLES
  clock,    \* real time
  store,    \* schedules.json: the configuration, next_run_at and last_run_at
  through,  \* claims/<id>.json: the instant claimed through; 0 if no file
  ledger,   \* occurrences.ndjson: lines per instant and decision
  turn,     \* the nested "catch-up" lock: its holder
  runlock,  \* the run lock of the pipeline: the job that holds it, if any
  up,       \* processes that are running
  armed,    \* a server's cron_next / interval_armed; a desktop's own copy
  beat,     \* when each process last began a tick
  tick,     \* what each process's tick in progress still has to do
  inFlight, \* servers whose in_flight set holds the schedule
  chase,    \* each server's catch-up thread
  jobs,     \* firings handed to a thread of their own
  took,     \* instants claimed (history)
  stray,    \* instants fired though no claim could be made (history)
  runs,     \* runs started per instant (history)
  inForce,  \* the configurations the store had during each instant (history)
  budget    \* what is left of the bounds

shared  == <<store, through, ledger, turn, runlock>>
local   == <<armed, beat, tick, inFlight, chase, jobs>>
history == <<took, stray, runs, inForce>>
vars    == <<clock, up, budget, shared, local, history>>

-----------------------------------------------------------------------------
(* Types.                                                                  *)

Job     == [p : Procs, at : Instants, kind : {"dispatch", "chase", "desktop"}]
Busy    == [at : {"idle", "decide", "note", "record", "slot", "dispatch",
                  "claim"},
            skip : SUBSET Instants, run : SUBSET Instants, fire : 0..MaxTime]
Idle    == [at |-> "idle", skip |-> {}, run |-> {}, fire |-> 0]
Chase   == [at : {"off", "take", "record", "run"}, todo : SUBSET Instants]
Off     == [at |-> "off", todo |-> {}]
Arming  == [cfg : Configs \cup {None}, at : 0..MaxTime]
Unarmed == [cfg |-> None, at |-> 0]
Bounds  == {"crashes", "faults", "edits"}

TypeOK ==
  /\ clock \in 0..MaxTime
  /\ store \in [cfg : Configs, next : 0..MaxTime, last : 0..MaxTime]
  /\ through \in 0..MaxTime
  /\ ledger \in [Instants -> [Decisions -> Nat]]
  /\ turn \in Procs \cup {None}
  /\ runlock \subseteq Job
  /\ up \subseteq Procs
  /\ armed \in [Procs -> Arming]
  /\ beat \in [Procs -> 0..MaxTime]
  /\ tick \in [Procs -> Busy]
  /\ inFlight \subseteq Servers
  /\ chase \in [Procs -> Chase]
  /\ jobs \subseteq [job : Job, at : {"wait", "run"}, began : 0..MaxTime]
  /\ took \subseteq Instants /\ stray \subseteq Instants
  /\ runs \in [Instants -> Nat]
  /\ inForce \in [Instants -> SUBSET Configs]
  /\ budget \in [Bounds -> Nat]

-----------------------------------------------------------------------------
(* When a schedule is due.                                                 *)

Now(p) == clock + Skew[p]

\* next_after_excluding, next_interval_slot: strictly after t; 0 for never.
NextAfter(c, t) == LET s == {d \in DueOf[c] : d > t} IN IF s = {} THEN 0 ELSE Min(s)

\* interval_slot: the last grid instant at or before t.  Those before the first
\* modelled instant are all 0.
Slot(c, t) == Max({d \in DueOf[c] : d <= t} \cup {0})

\* compute_next_run.
ComputeNext(c, t, last) ==
  CASE Kind[c] = "off"  -> 0
    [] Kind[c] = "cron" -> NextAfter(c, t)
    [] OTHER -> LET next == NextAfter(c, IF last = 0 THEN t ELSE last)
                IN IF next # 0 /\ next <= t THEN Slot(c, t) ELSE next

Recorded(d)  == \E v \in Decisions : ledger[d][v] > 0
LastRecorded == Max({0} \cup {d \in Instants : Recorded(d)})

\* (mutant) decides whatever is due, a live scheduler's own included.
Horizon_Now(now, at) == now
\* catch_up_horizon: nothing a live scheduler may yet run, nor what this tick
\* has armed.
Horizon(now, at) ==
  IF at = 0 THEN now - Stall ELSE Min({now - Stall, at - 1})

\* (mutant) keeps only what the policy `latest' would run.
Missed_Newest(c, after, now) ==
  LET due == {d \in DueOf[c] : d > after /\ d > now - MaxAge /\ d <= now}
  IN {d \in due : \A e \in due : e <= d}
\* missed: the newest MaxCatchup of what was due in (after, now].
Missed(c, after, now) ==
  LET due == {d \in DueOf[c] : d > after /\ d > now - MaxAge /\ d <= now}
  IN {d \in due : Cardinality({e \in due : e > d}) < MaxCatchup}

\* catch_up: a schedule with no record has nothing to catch up on.
CatchUp(c, now) == IF LastRecorded = 0 THEN {} ELSE Missed(c, LastRecorded, now)

\* decide: which of the missed occurrences the policy runs.
Wanted(missed) ==
  CASE Misfire = "skip"   -> {}
    [] Misfire = "all"    -> missed
    [] Misfire = "latest" -> {d \in missed : \A e \in missed : e <= d}

-----------------------------------------------------------------------------
(* The claim and the ledger.                                               *)

Spend(what) == budget[what] > 0 /\ budget' = [budget EXCEPT ![what] = @ - 1]

\* (mutant) a claim for each occurrence rather than one for each schedule.
AlreadyTaken_EachOnItsOwn(d) == d \in took
\* (mutant) the instant claimed through is taken for the last one still free.
AlreadyTaken_Strict(d) == through > d
AlreadyTaken(d) == through >= d

\* claim, and what its callers make of it: `mine' is whether this process runs
\* or records d.  An Err is nobody's refusal: the caller goes ahead.
Take(d, mine) ==
  \/ /\ mine = ~AlreadyTaken(d)
     /\ through' = IF mine THEN d ELSE through
     /\ took' = IF mine THEN took \cup {d} ELSE took
     /\ UNCHANGED <<stray, budget>>
  \/ /\ mine = TRUE
     /\ Spend("faults")
     /\ stray' = stray \cup {d}
     /\ UNCHANGED <<through, took>>

\* record, best effort.
Record(d, decision) ==
  \/ /\ ledger' = [ledger EXCEPT ![d][decision] = @ + 1]
     /\ UNCHANGED budget
  \/ /\ Spend("faults")
     /\ UNCHANGED ledger

-----------------------------------------------------------------------------
(* The tick of a server.                                                   *)

SetTick(p, t) == tick' = [tick EXCEPT ![p] = t]
Ticking(p, stage) == tick[p].at = stage
Begin(p) == /\ p \in Servers \cap up /\ Ticking(p, "idle")
            /\ beat' = [beat EXCEPT ![p] = clock]
\* (mutant) arms the moment it looked rather than the next occurrence.
Arm_Now(p, c, at) == armed' = [armed EXCEPT ![p] = [cfg |-> c, at |-> Now(p)]]
Arm(p, c, at) ==
  armed' = [armed EXCEPT ![p] = IF at = 0 /\ Kind[c] = "cron" THEN Unarmed
                                ELSE [cfg |-> c, at |-> at]]
\* What p holds armed for schedules of this kind: each branch drops the other's.
ArmedFor(p, kind) == armed[p].cfg # None /\ Kind[armed[p].cfg] = kind

TickOff(p) ==
  /\ Begin(p)
  /\ Kind[store.cfg] = "off"
  /\ armed' = [armed EXCEPT ![p] = Unarmed]
  /\ UNCHANGED <<clock, up, budget, shared, tick, inFlight, chase, jobs, history>>

\* (mutant) a tick that comes late finds nothing due.
Fires_OnTheDot(p, c) == armed[p].cfg = c /\ Now(p) = armed[p].at
\* (mutant) armed by the expression of another day fires all the same.
Fires_AnyExpression(p, c) == ArmedFor(p, "cron") /\ Now(p) >= armed[p].at
\* cron_decision: armed from this very expression, and its moment has come.
Fires(p, c) == armed[p].cfg = c /\ Now(p) >= armed[p].at

\* The cron branch up to its first claim: the ledger is read, the overdue
\* occurrences are decided, and the schedule is armed again.
TickCron(p) ==
  LET c    == store.cfg
      due  == IF ArmedFor(p, "cron") THEN armed[p].at ELSE 0
      over == CatchUp(c, Horizon(Now(p), due))
  IN /\ Begin(p)
     /\ Kind[c] = "cron"
     /\ IF armed[p].cfg = c /\ ~Fires(p, c) THEN UNCHANGED armed
        ELSE Arm(p, c, NextAfter(c, Now(p)))
     /\ SetTick(p, [at |-> "decide", skip |-> over \ Wanted(over), run |-> Wanted(over),
                    fire |-> IF Fires(p, c) THEN due ELSE 0])
     /\ UNCHANGED <<clock, up, budget, shared, inFlight, chase, jobs, history>>

\* The interval branch: due when the grid has moved on since the last tick.
TickInterval(p) ==
  LET c    == store.cfg
      slot == Slot(c, Now(p))
  IN /\ Begin(p)
     /\ Kind[c] = "interval"
     /\ Arm(p, c, slot)
     /\ SetTick(p, IF ArmedFor(p, "interval") /\ armed[p].at < slot
                   THEN [Idle EXCEPT !.at = "slot", !.fire = slot] ELSE Idle)
     /\ UNCHANGED <<clock, up, budget, shared, inFlight, chase, jobs, history>>

\* (mutant) what the policy skips is recorded without being taken.
DecideSkipped_Untaken(p) ==
  /\ Ticking(p, "decide") /\ tick[p].skip # {}
  /\ SetTick(p, [tick[p] EXCEPT !.at = "note"])
  /\ UNCHANGED <<clock, up, budget, shared, armed, beat, inFlight, chase, jobs, history>>

\* An occurrence the policy does not run is taken, oldest first ...
DecideSkipped(p) ==
  /\ Ticking(p, "decide") /\ tick[p].skip # {}
  /\ \E mine \in BOOLEAN :
       /\ Take(Min(tick[p].skip), mine)
       /\ SetTick(p, IF mine THEN [tick[p] EXCEPT !.at = "note"]
                     ELSE [tick[p] EXCEPT !.skip = @ \ {Min(@)}])
  /\ UNCHANGED <<clock, up, store, ledger, turn, runlock, armed, beat, inFlight,
                 chase, jobs, runs, inForce>>

\* ... and recorded.
NoteSkipped(p) ==
  /\ Ticking(p, "note")
  /\ Record(Min(tick[p].skip), "skipped")
  /\ SetTick(p, [tick[p] EXCEPT !.at = "decide", !.skip = @ \ {Min(@)}])
  /\ UNCHANGED <<clock, up, store, through, turn, runlock, armed, beat, inFlight,
                 chase, jobs, history>>

\* (mutant) every scheduler catches up on its own.
TakeTurn_Everyone(p) ==
  /\ Ticking(p, "decide") /\ tick[p].skip = {} /\ tick[p].run # {}
  /\ IF p \notin inFlight
     THEN /\ inFlight' = inFlight \cup {p}
          /\ chase' = [chase EXCEPT ![p] = [at |-> "take", todo |-> tick[p].run]]
     ELSE UNCHANGED <<inFlight, chase>>
  /\ SetTick(p, [tick[p] EXCEPT !.run = {}])
  /\ UNCHANGED <<clock, up, budget, shared, armed, beat, jobs, history>>

\* One scheduler catches up at a time, on one thread, unless the schedule is
\* in flight here; otherwise the occurrences stay overdue, unrecorded.
TakeTurn(p) ==
  /\ Ticking(p, "decide") /\ tick[p].skip = {} /\ tick[p].run # {}
  /\ IF turn = None /\ p \notin inFlight
     THEN /\ turn' = p
          /\ inFlight' = inFlight \cup {p}
          /\ chase' = [chase EXCEPT ![p] = [at |-> "take", todo |-> tick[p].run]]
     ELSE UNCHANGED <<turn, inFlight, chase>>
  /\ SetTick(p, [tick[p] EXCEPT !.run = {}])
  /\ UNCHANGED <<clock, up, budget, store, through, ledger, runlock, armed, beat, jobs,
                 history>>

NothingToFire(p) ==
  /\ Ticking(p, "decide") /\ tick[p].skip = {} /\ tick[p].run = {} /\ tick[p].fire = 0
  /\ SetTick(p, Idle)
  /\ UNCHANGED <<clock, up, budget, shared, armed, beat, inFlight, chase, jobs, history>>

\* The armed occurrence is taken; a server records it only if it is a cron's.
TakeArmed(p) ==
  /\ \/ Ticking(p, "slot")
     \/ Ticking(p, "decide") /\ tick[p].skip = {} /\ tick[p].run = {} /\ tick[p].fire # 0
  /\ \E mine \in BOOLEAN :
       /\ Take(tick[p].fire, mine)
       /\ SetTick(p, IF ~mine THEN Idle
                     ELSE [tick[p] EXCEPT !.at = IF @ = "slot" THEN "dispatch" ELSE "record"])
  /\ UNCHANGED <<clock, up, store, ledger, turn, runlock, armed, beat, inFlight,
                 chase, jobs, runs, inForce>>

RecordFired(p) ==
  /\ Ticking(p, "record")
  /\ Record(tick[p].fire, "fired")
  /\ SetTick(p, [tick[p] EXCEPT !.at = "dispatch"])
  /\ UNCHANGED <<clock, up, store, through, turn, runlock, armed, beat, inFlight,
                 chase, jobs, history>>

NewJob(p, d, kind) ==
  [job |-> [p |-> p, at |-> d, kind |-> kind], at |-> "wait", began |-> 0]

\* dispatch: a thread of its own, unless the schedule is in flight here.
Dispatch(p) ==
  /\ Ticking(p, "dispatch")
  /\ IF p \in inFlight THEN UNCHANGED <<inFlight, jobs>>
     ELSE /\ inFlight' = inFlight \cup {p}
          /\ jobs' = jobs \cup {NewJob(p, tick[p].fire, "dispatch")}
  /\ SetTick(p, Idle)
  /\ UNCHANGED <<clock, up, budget, shared, armed, beat, chase, history>>

-----------------------------------------------------------------------------
(* The catch-up thread of a server.                                        *)

SetChase(p, stage, todo) == chase' = [chase EXCEPT ![p] = [at |-> stage, todo |-> todo]]

ChaseTake(p) ==
  /\ chase[p].at = "take" /\ chase[p].todo # {}
  /\ LET d == Min(chase[p].todo)
     IN \E mine \in BOOLEAN :
          /\ Take(d, mine)
          /\ IF mine THEN SetChase(p, "record", chase[p].todo)
                     ELSE SetChase(p, "take", chase[p].todo \ {d})
  /\ UNCHANGED <<clock, up, store, ledger, turn, runlock, armed, beat, tick, inFlight,
                 jobs, runs, inForce>>

\* Recorded before its run, which follows on this thread.
ChaseRecord(p) ==
  /\ chase[p].at = "record"
  /\ LET d == Min(chase[p].todo)
     IN /\ Record(d, "fired")
        /\ jobs' = jobs \cup {NewJob(p, d, "chase")}
        /\ SetChase(p, "run", chase[p].todo \ {d})
  /\ UNCHANGED <<clock, up, store, through, turn, runlock, armed, beat, tick, inFlight,
                 history>>

ChaseEnds(p) ==
  /\ chase[p].at = "take" /\ chase[p].todo = {}
  /\ SetChase(p, "off", {})
  /\ turn' = IF turn = p THEN None ELSE turn
  /\ inFlight' = inFlight \ {p}
  /\ UNCHANGED <<clock, up, budget, store, through, ledger, runlock, armed, beat, tick,
                 jobs, history>>

-----------------------------------------------------------------------------
(* A firing.                                                               *)

\* run_scheduled and the desktop take the run lock; fire_plan does not.
UsesLock(job) == ~RunsPlan

\* (mutant) the run lock is another process's concern.
Starts_Beside(j) == j.at = "wait"
Starts(j) == j.at = "wait" /\ (UsesLock(j.job) => runlock = {})

RunStarts(j) ==
  /\ Starts(j)
  /\ runlock' = IF UsesLock(j.job) THEN {j.job} ELSE runlock
  /\ jobs' = (jobs \ {j}) \cup {[j EXCEPT !.at = "run", !.began = clock]}
  /\ runs' = [runs EXCEPT ![j.job.at] = @ + 1]
  /\ UNCHANGED <<clock, up, budget, store, through, ledger, turn, armed, beat, tick,
                 inFlight, chase, took, stray, inForce>>

\* What a firing leaves behind however it ends: the InFlight guard of a dispatch;
\* a catch-up thread goes on with its next, or unwinds with all of the rest.
Leaves(j, panics) ==
  /\ inFlight' = IF j.job.kind = "dispatch" THEN inFlight \ {j.job.p} ELSE inFlight
  /\ chase' = CASE j.job.kind # "chase" -> chase
                [] j.job.kind = "chase" /\ panics ->
                     [chase EXCEPT ![j.job.p] = [at |-> "take", todo |-> {}]]
                [] OTHER -> [chase EXCEPT ![j.job.p].at = "take"]

\* Somebody is running this pipeline: the firing is skipped, not queued.
RunRefused(j) ==
  /\ j.at = "wait" /\ UsesLock(j.job) /\ runlock # {}
  /\ jobs' = jobs \ {j}
  /\ Leaves(j, FALSE)
  /\ UNCHANGED <<clock, up, budget, shared, armed, beat, tick, history>>

\* A desktop adopts the store as it is on disk, and fills in a missing next run.
Adopt(p, s) ==
  armed' = [armed EXCEPT ![p] =
    [cfg |-> s.cfg,
     at  |-> IF s.next = 0 THEN ComputeNext(s.cfg, Now(p), s.last) ELSE s.next]]

\* The run ends, well or badly; a server's panics unwind past its bookkeeping.
\* record_schedule_outcome stamps the end, the desktop's record_run the start.
RunEnds(j) ==
  /\ j.at = "run"
  /\ jobs' = jobs \ {j}
  /\ runlock' = runlock \ {j.job}
  /\ IF j.job.kind = "desktop"
     THEN LET s == [store EXCEPT !.last = j.began,
                      !.next = ComputeNext(store.cfg, Now(j.job.p), j.began)]
          IN store' = s /\ Adopt(j.job.p, s) /\ UNCHANGED <<inFlight, chase>>
     ELSE \E panics \in BOOLEAN :
            /\ store' = IF panics \/ RunsPlan THEN store ELSE [store EXCEPT !.last = clock]
            /\ Leaves(j, panics)
            /\ UNCHANGED armed
  /\ UNCHANGED <<clock, up, budget, through, ledger, turn, beat, tick, history>>

-----------------------------------------------------------------------------
(* The tick of a desktop.                                                  *)

DesktopDue(p) ==
  /\ p \in Desktops \cap up /\ Ticking(p, "idle")
  /\ armed[p].at # 0 /\ armed[p].at <= Now(p)
  /\ armed[p].cfg # None /\ Kind[armed[p].cfg] # "off"

\* claim_due: the next run moves on in the store first; if the store cannot be
\* written, in memory alone, and the run still goes ahead.
DesktopClaims(p) ==
  /\ DesktopDue(p)
  /\ \/ LET s == [store EXCEPT !.next = NextAfter(store.cfg, Now(p))]
        IN store' = s /\ Adopt(p, s) /\ UNCHANGED budget
     \/ /\ Spend("faults")
        /\ armed' = [armed EXCEPT ![p].at = NextAfter(armed[p].cfg, Now(p))]
        /\ UNCHANGED store
  /\ SetTick(p, [Idle EXCEPT !.at = "claim", !.fire = armed[p].at])
  /\ beat' = [beat EXCEPT ![p] = clock]
  /\ UNCHANGED <<clock, up, through, ledger, turn, runlock, inFlight, chase, jobs, history>>

\* Then the occurrence is claimed, and handed to a task that waits for a permit
\* and takes the run lock.
DesktopTakes(p) ==
  /\ Ticking(p, "claim")
  /\ \E mine \in BOOLEAN :
       /\ Take(tick[p].fire, mine)
       /\ jobs' = IF mine THEN jobs \cup {NewJob(p, tick[p].fire, "desktop")} ELSE jobs
  /\ SetTick(p, Idle)
  /\ UNCHANGED <<clock, up, store, ledger, turn, runlock, armed, beat, inFlight, chase,
                 runs, inForce>>

\* Another schedule is saved here: the whole store is read again.
DesktopSaves(p) ==
  /\ p \in Desktops \cap up /\ Ticking(p, "idle")
  /\ Spend("edits")
  /\ Adopt(p, store)
  /\ UNCHANGED <<clock, up, shared, beat, tick, inFlight, chase, jobs, history>>

-----------------------------------------------------------------------------
(* The world.                                                              *)

\* The schedule is edited through a console, which leaves arming to schedulers.
Edit(c) ==
  /\ c # store.cfg
  /\ Spend("edits")
  /\ store' = [store EXCEPT !.cfg = c, !.next = 0]
  /\ inForce' = [d \in Instants |-> IF d = clock THEN inForce[d] \cup {c} ELSE inForce[d]]
  /\ UNCHANGED <<clock, up, through, ledger, turn, runlock, local, took, stray, runs>>

Boot(p) ==
  /\ p \notin up
  /\ up' = up \cup {p}
  /\ armed' = [armed EXCEPT ![p] =
       IF p \in Desktops
       THEN [cfg |-> store.cfg, at |-> ComputeNext(store.cfg, Now(p), store.last)]
       ELSE Unarmed]
  /\ beat' = [beat EXCEPT ![p] = clock]
  /\ UNCHANGED <<clock, budget, shared, tick, inFlight, chase, jobs, took, stray, runs,
                 inForce>>

\* A process dies: its threads and its memory go, the kernel closes its locks.
Crash(p) ==
  /\ p \in up
  /\ Spend("crashes")
  /\ up' = up \ {p}
  /\ armed' = [armed EXCEPT ![p] = Unarmed]
  /\ tick' = [tick EXCEPT ![p] = Idle]
  /\ chase' = [chase EXCEPT ![p] = Off]
  /\ inFlight' = inFlight \ {p}
  /\ jobs' = {j \in jobs : j.job.p # p}
  /\ turn' = IF turn = p THEN None ELSE turn
  /\ runlock' = {job \in runlock : job.p # p}
  /\ UNCHANGED <<clock, store, through, ledger, beat, history>>

\* scheduler_stall's rule: time does not pass a live scheduler by.
KeepsTime(p) ==
  /\ Ticking(p, "idle")
  /\ IF p \in Desktops THEN ~DesktopDue(p) ELSE clock + 1 - beat[p] <= Stall

Elapse ==
  /\ clock < MaxTime
  /\ Prompt => \A p \in up : KeepsTime(p)
  /\ clock' = clock + 1
  /\ inForce' = [inForce EXCEPT ![clock'] = {store.cfg}]
  /\ UNCHANGED <<up, budget, shared, local, took, stray, runs>>

Init ==
  /\ clock = Anchor
  /\ store = [cfg |-> FirstConfig, next |-> 0, last |-> Anchor]
  /\ through = Anchor
  /\ ledger = [d \in Instants |-> [v \in Decisions |->
                 IF d = Anchor /\ v = "fired" THEN 1 ELSE 0]]
  /\ turn = None /\ runlock = {}
  /\ up = {}
  /\ armed = [p \in Procs |-> Unarmed]
  /\ beat = [p \in Procs |-> 0]
  /\ tick = [p \in Procs |-> Idle]
  /\ inFlight = {}
  /\ chase = [p \in Procs |-> Off]
  /\ jobs = {}
  /\ took = {Anchor} \ {0} /\ stray = {}
  /\ runs = [d \in Instants |-> IF d = Anchor THEN 1 ELSE 0]
  /\ inForce = [d \in Instants |-> {FirstConfig}]
  /\ budget = [b \in Bounds |-> CASE b = "crashes" -> MaxCrashes
                                  [] b = "faults"  -> MaxFaults
                                  [] b = "edits"   -> MaxEdits]

ServerTick(p) ==
  \/ TickOff(p) \/ TickCron(p) \/ TickInterval(p)
  \/ DecideSkipped(p) \/ NoteSkipped(p) \/ TakeTurn(p) \/ NothingToFire(p)
  \/ TakeArmed(p) \/ RecordFired(p) \/ Dispatch(p)
ChaseStep(p)   == ChaseTake(p) \/ ChaseRecord(p) \/ ChaseEnds(p)
DesktopStep(p) == DesktopClaims(p) \/ DesktopTakes(p) \/ DesktopSaves(p)
JobStep(j)     == RunStarts(j) \/ RunRefused(j) \/ RunEnds(j)

Next ==
  \/ \E p \in Servers : ServerTick(p) \/ ChaseStep(p)
  \/ \E p \in Desktops : DesktopStep(p)
  \/ \E j \in jobs : JobStep(j)
  \/ \E c \in Configs : Edit(c)
  \/ \E p \in Procs : Boot(p) \/ Crash(p)
  \/ Elapse

Spec == Init /\ [][Next]_vars

\* Threads run; every scheduler ticks again and again; time passes.  A run ends
\* (the engine's own promise), and a supervisor starts a process that died.  A
\* server has one firing at a time, a desktop one for each instant.
ServerWork(p) ==
  \/ DecideSkipped(p) \/ NoteSkipped(p) \/ TakeTurn(p) \/ NothingToFire(p)
  \/ TakeArmed(p) \/ RecordFired(p) \/ Dispatch(p)
Fairness ==
  /\ WF_vars(Elapse)
  /\ \A p \in Servers : /\ WF_vars(TickOff(p) \/ TickCron(p) \/ TickInterval(p))
                       /\ WF_vars(ServerWork(p)) /\ WF_vars(ChaseStep(p))
                       /\ WF_vars(\E j \in jobs : j.job.p = p /\ JobStep(j))
  /\ \A p \in Desktops :
       /\ WF_vars(DesktopClaims(p)) /\ WF_vars(DesktopTakes(p))
       /\ \A d \in Instants :
            WF_vars(\E j \in jobs : j.job.p = p /\ j.job.at = d /\ JobStep(j))
  /\ \A p \in Procs : WF_vars(Boot(p))

FairSpec == Spec /\ Fairness

-----------------------------------------------------------------------------
(* Properties.                                                             *)

\* "A run happens once however many are looking": across restarts, catch-ups,
\* late ticks and clocks that disagree, an occurrence starts at most one run,
\* unless no claim on it could be made.
RunsOnce == \A d \in Instants \ stray : runs[d] <= 1

\* An occurrence has one recorded outcome at most: what one scheduler fired is
\* not recorded as skipped by another.
OneOutcome ==
  \A d \in Instants \ stray : ledger[d]["fired"] + ledger[d]["skipped"] <= 1

\* The claim implements the promise of OnceInOrder.
Status ==
  [d \in Instants |-> IF runs[d] > 1 THEN "again" ELSE IF runs[d] = 1 THEN "run"
                      ELSE IF d \in took THEN "taken" ELSE "open"]
Promise == INSTANCE OnceInOrder WITH status <- Status
KeepsPromise == Promise!Spec

\* Catch-ups never meet: one scheduler's catch-up is not turned away by the run
\* of another's, with its occurrence already claimed.
OneCatchUp == Cardinality({j \in jobs : j.job.kind = "chase"}) <= 1

\* Two runs of one pipeline are never under way together.
OneRunAtATime == Cardinality({j \in jobs : j.at = "run"}) <= 1

\* "Only an occurrence older than a live scheduler can be counted as missed":
\* none is recorded as skipped while a live scheduler has it armed, or is about
\* to fire it.  (An interval is armed for the slot it has passed.)
LiveUnskipped ==
  [][\A d \in Instants : ledger'[d]["skipped"] > ledger[d]["skipped"]
       => \A p \in up : ~(ArmedFor(p, "cron") /\ armed[p].at = d) /\ tick[p].fire # d]_vars

\* Occurrences someone still has in hand.
InHand(d) ==
  \E p \in Procs : d \in tick[p].skip \cup tick[p].run \cup chase[p].todo \cup {tick[p].fire}
\* "Every overdue occurrence gets a recorded outcome whether or not it runs":
\* catch-up starts after the newest record, so once a newer one is on record, an
\* occurrence must have one too, or be about to.  Of a schedule nobody edits: what
\* an edit takes off the calendar was never overdue.
NoGaps ==
  \A d \in DueOf[FirstConfig] :
    (budget.edits = MaxEdits /\ Anchor < d /\ d < LastRecorded) => Recorded(d) \/ InHand(d)

\* "The edit is not itself an occurrence": what is run was due under the
\* configuration in force when its instant came.
EditRunsNothing ==
  \A d \in Instants \ {Anchor} :
    runs[d] > 0 => \E c \in inForce[d] : d \in DueOf[c] /\ Kind[c] # "off"

\* Whatever a server is armed for is taken by somebody: again and again, nothing
\* any of them is armed for is still to be taken.
ArmedIsTaken == []<>(\A p \in Servers \cap up : armed[p].at <= through)

=============================================================================
