----------------------------- MODULE Deliveries -----------------------------
(***************************************************************************)
(* Publications and who is told of them: the run record a producer leaves,  *)
(* the event indexed from it, the pump by which one server at a time runs   *)
(* the subscribed consumers and records what came of it, the reconcile of a *)
(* starting server, and the retention pass that shortens both ledgers.      *)
(* Sources: duckdb-engine history.rs, materialize.rs, subscribe.rs;         *)
(* duckle-runner serve.rs (pump_deliveries), retention.rs.                  *)
(*                                                                         *)
(* A delivery is a pair of a subscription and a publication; every          *)
(* subscription here wants every publication and has a consumer of its own. *)
(* Publications are those still in the run history.                         *)
(***************************************************************************)
EXTENDS Integers, Sequences, FiniteSets

CONSTANTS
  Pubs,        \* runs of a producer that publish
  N,           \* subscriptions, in the order of their file, each with a consumer
  Faulty,      \* those whose consumer unwinds whenever it runs
  Servers,     \* `serve' processes on one workspace
  PruneApart,  \* retention is run while no server is at work on the ledgers
  MaxDay,      \* bound: days, the unit of a horizon
  MaxStarts,   \* bound: the count of starts stops there
  Budget       \* bounds: how often each thing of Mishaps, and "any" of them, may happen

Subs    == 1..N
Nobody  == "nobody"
Other   == "other"     \* a run of the consumer that is not the pump's
Mishaps == {"crash", "panic", "lost", "break", "other", "edit", "retry", "prune", "torn"}
Kinds   == Mishaps \cup {"any"}

ASSUME DeliveryAssumption ==
  /\ N \in Nat /\ Faulty \subseteq Subs /\ IsFiniteSet(Servers) /\ PruneApart \in BOOLEAN
  /\ MaxDay \in Nat /\ MaxStarts \in Nat /\ Budget \in [Kinds -> Nat]
  /\ {Nobody, Other} \cap Servers = {}

VARIABLES
  day,       \* today
  commit,    \* run history: the day of each publication
  appending, \* recorded in the history, the event not yet on the log
  log,       \* materializations.ndjson
  swept,     \* materializations.pruned: events before that day are not rebuilt
  ledger,    \* deliveries.json
  writable,  \* the ledger can be written
  broken,    \* subscriptions whose parameters do not bind, whose pipeline is gone or runs in a ring
  lock,      \* who has the run lock of each consumer
  up,        \* servers that are running
  boot,      \* the reconcile of each server's start
  duty,      \* who has the duty lock of the pump
  pump,      \* the pump of each server
  held,      \* outcomes a server could not write
  prune,     \* the retention pass
  left,      \* what is left of Budget
  starts,    \* how often the consumer was run for each delivery, failures aside
  twins      \* events appended when their publication was on the log already

producer == <<commit, appending>>
events   == <<log, swept, twins>>
told     == <<ledger, held>>
servers  == <<up, boot, duty, pump>>
vars     == <<day, commit, appending, log, swept, ledger, writable, broken, lock, up,
              boot, duty, pump, held, prune, left, starts, twins>>

-----------------------------------------------------------------------------
(* Types.                                                                  *)

Never      == MaxDay + 1
Deliveries == Subs \X Pubs
Pub(d)     == d[2]
Sub(d)     == d[1]
Outcomes   == {"none", "delivered", "failed"}
Owed       == [state |-> "none", at |-> 0]
Record     == {Owed} \cup [state : {"delivered", "failed"}, at : 0..MaxDay]

OnLog == {log[i] : i \in DOMAIN log}

\* What a pump has yet to come to: the line of the event, the subscription and the
\* publication of each delivery it listed.
Offers      == Nat \X Subs \X Pubs
Delivery(o) == <<o[2], o[3]>>

Pump  == [at : {"idle", "flush", "list", "each", "ran"}, now : 0..MaxDay,
          todo : SUBSET Offers, outcome : Outcomes]
Boot  == [at : {"done", "read", "append"}, known : SUBSET Pubs, todo : SUBSET Pubs,
          swept : 0..MaxDay]
Prune == [at : {"idle", "deliveries", "materializations", "horizon"},
          ledger : [Deliveries -> Record], events : SUBSET Pubs,
          rows : SUBSET {"deliveries", "materializations"}]

PumpIdle  == [at |-> "idle", now |-> 0, todo |-> {}, outcome |-> "none"]
BootDone  == [at |-> "done", known |-> {}, todo |-> {}, swept |-> 0]
PruneIdle == [at |-> "idle", ledger |-> [d \in Deliveries |-> Owed], events |-> {},
              rows |-> {}]

TypeOK ==
  /\ day \in 0..MaxDay /\ swept \in 0..MaxDay
  /\ commit \in [Pubs -> 0..Never] /\ appending \subseteq Pubs
  /\ log \in Seq(Pubs) /\ \A p \in OnLog : commit[p] # Never
  /\ ledger \in [Deliveries -> Record]
  /\ held \in [Servers -> [Deliveries -> Record]]
  /\ writable \in BOOLEAN /\ broken \subseteq Subs
  /\ lock \in [Subs -> Servers \cup {Nobody, Other}]
  /\ up \subseteq Servers /\ duty \in Servers \cup {Nobody}
  /\ pump \in [Servers -> Pump] /\ boot \in [Servers -> Boot] /\ prune \in Prune
  /\ \A s \in Servers : pump[s].at # "idle" => duty = s /\ s \in up
  /\ starts \in [Deliveries -> 0..MaxStarts] /\ twins \in [Pubs -> Nat]
  /\ left \in [Kinds -> Nat]

Init ==
  /\ day = 0 /\ swept = 0
  /\ commit = [p \in Pubs |-> Never] /\ appending = {}
  /\ log = <<>>
  /\ ledger = [d \in Deliveries |-> Owed]
  /\ writable = TRUE /\ broken = {}
  /\ lock = [c \in Subs |-> Nobody]
  /\ up = Servers /\ boot = [s \in Servers |-> BootDone]
  /\ duty = Nobody /\ pump = [s \in Servers |-> PumpIdle]
  /\ held = [s \in Servers |-> [d \in Deliveries |-> Owed]]
  /\ prune = PruneIdle
  /\ left = Budget
  /\ starts = [d \in Deliveries |-> 0] /\ twins = [p \in Pubs |-> 0]

Spend(what) ==
  /\ left[what] > 0 /\ left["any"] > 0
  /\ left' = [left EXCEPT ![what] = @ - 1, !["any"] = @ - 1]
Undisturbed == PruneApart => prune.at = "idle"

-----------------------------------------------------------------------------
(* A publication.                                                          *)

\* append_run_record: the record first, which is what the event is rebuilt from.
Publish(p) ==
  /\ commit[p] = Never /\ Undisturbed
  /\ commit' = [commit EXCEPT ![p] = day]
  /\ appending' = appending \cup {p}
  /\ UNCHANGED <<day, events, told, writable, broken, lock, servers, prune, left, starts>>

Appended(p) ==
  /\ log' = Append(log, p)
  /\ twins' = [twins EXCEPT ![p] = @ + (IF p \in OnLog THEN 1 ELSE 0)]
  /\ UNCHANGED swept

\* materialize::append.
AppendEvent(p) ==
  /\ p \in appending
  /\ appending' = appending \ {p}
  /\ Appended(p)
  /\ UNCHANGED <<day, commit, told, writable, broken, lock, servers, prune, left, starts>>

\* A full disk, or a kill between the two.
AppendLost(p) ==
  /\ p \in appending /\ Spend("lost")
  /\ appending' = appending \ {p}
  /\ UNCHANGED <<day, commit, events, told, writable, broken, lock, servers, prune, starts>>

-----------------------------------------------------------------------------
(* The pump.                                                               *)

\* Mutant: what cannot be written is let go.
RecordOrHold_Drop(s, d, state) ==
  /\ ledger' = IF writable THEN [ledger EXCEPT ![d] = [state |-> state, at |-> pump[s].now]] ELSE ledger
  /\ UNCHANGED held

\* record, or hold what cannot be recorded.
RecordOrHold(s, d, state) ==
  LET r == [state |-> state, at |-> pump[s].now] IN
  IF writable THEN ledger' = [ledger EXCEPT ![d] = r] /\ UNCHANGED held
              ELSE held' = [held EXCEPT ![s][d] = r] /\ UNCHANGED ledger

\* Mutant: a server pumps without asking whether another one does.
TakeDuty_Everyone(s) ==
  /\ s \in up /\ boot[s].at = "done" /\ pump[s].at = "idle" /\ Undisturbed
  /\ duty' = s
  /\ pump' = [pump EXCEPT ![s].at = "flush"]
  /\ UNCHANGED <<day, producer, events, told, writable, broken, lock, up, boot, prune, left, starts>>

\* try_acquire_nested("duty", "deliveries"), by a server that has started.
TakeDuty(s) ==
  /\ s \in up /\ boot[s].at = "done" /\ duty = Nobody /\ Undisturbed
  /\ duty' = s
  /\ pump' = [pump EXCEPT ![s].at = "flush"]
  /\ UNCHANGED <<day, producer, events, told, writable, broken, lock, up, boot, prune, left, starts>>

\* What earlier ticks could not write, first.
Flush(s) ==
  /\ pump[s].at = "flush"
  /\ pump' = [pump EXCEPT ![s].at = "list"]
  /\ IF writable
     THEN /\ ledger' = [d \in Deliveries |-> IF held[s][d] # Owed THEN held[s][d] ELSE ledger[d]]
          /\ held' = [held EXCEPT ![s] = [d \in Deliveries |-> Owed]]
     ELSE UNCHANGED told
  /\ UNCHANGED <<day, producer, events, writable, broken, lock, up, boot, duty, prune, left, starts>>

\* pending: for each event of the log, each subscription that has no record of it.
Pending == {o \in {<<i, c, log[i]>> : i \in DOMAIN log, c \in Subs} :
              ledger[Delivery(o)].state = "none"}

List(s) ==
  /\ pump[s].at = "list"
  /\ pump' = [pump EXCEPT ![s] = [at |-> "each", now |-> day, todo |-> Pending, outcome |-> "none"]]
  /\ UNCHANGED <<day, producer, events, told, writable, broken, lock, up, boot, duty, prune, left, starts>>

\* In the order of the log, and for each event in that of the subscriptions.
First(todo) ==
  CHOOSE o \in todo : \A q \in todo : o[1] < q[1] \/ (o[1] = q[1] /\ o[2] <= q[2])

Considers(s) == pump[s].at = "each" /\ pump[s].todo # {}
Turn(s) == Delivery(First(pump[s].todo))
Onward(s) == [pump[s] EXCEPT !.at = "each", !.todo = @ \ {First(@)}, !.outcome = "none"]

\* Its outcome is known and only the write is missing, or the consumer is running
\* already and the next tick will offer it again.
Skip(s) ==
  /\ Considers(s)
  /\ \/ held[s][Turn(s)] # Owed
     \/ Sub(Turn(s)) \notin broken /\ lock[Sub(Turn(s))] # Nobody
  /\ pump' = [pump EXCEPT ![s] = Onward(s)]
  /\ UNCHANGED <<day, producer, events, told, writable, broken, lock, up, boot, duty, prune, left, starts>>

\* Mutant: what cannot be run is passed over in silence.
CannotRun_Skip(s) ==
  /\ Considers(s) /\ held[s][Turn(s)] = Owed /\ Sub(Turn(s)) \in broken
  /\ pump' = [pump EXCEPT ![s] = Onward(s)]
  /\ UNCHANGED <<day, producer, events, told, writable, broken, lock, up, boot, duty, prune, left, starts>>

\* Parameters that do not bind, a ring, no such pipeline: before a run exists.
CannotRun(s) ==
  /\ Considers(s) /\ held[s][Turn(s)] = Owed /\ Sub(Turn(s)) \in broken
  /\ RecordOrHold(s, Turn(s), "failed")
  /\ pump' = [pump EXCEPT ![s] = Onward(s)]
  /\ UNCHANGED <<day, producer, events, writable, broken, lock, up, boot, duty, prune, left, starts>>

\* Under the consumer's run lock: it is run, or could not be started.
RunConsumer(s) ==
  LET d == Turn(s) IN
  /\ Considers(s) /\ held[s][d] = Owed /\ Sub(d) \notin broken /\ lock[Sub(d)] = Nobody
  /\ lock' = [lock EXCEPT ![Sub(d)] = s]
  /\ \/ /\ pump' = [pump EXCEPT ![s].at = "ran", ![s].outcome = "delivered"]
        /\ starts' = [starts EXCEPT ![d] = IF @ < MaxStarts THEN @ + 1 ELSE @]
     \/ /\ pump' = [pump EXCEPT ![s].at = "ran", ![s].outcome = "failed"]
        /\ Sub(d) \notin Faulty
        /\ UNCHANGED starts
  /\ UNCHANGED <<day, producer, events, told, writable, broken, up, boot, duty, prune, left>>

RecordOutcome(s) ==
  LET d == Turn(s) IN
  /\ pump[s].at = "ran"
  /\ pump[s].outcome = "delivered" => Sub(d) \notin Faulty
  /\ RecordOrHold(s, d, pump[s].outcome)
  /\ lock' = [lock EXCEPT ![Sub(d)] = Nobody]
  /\ pump' = [pump EXCEPT ![s] = Onward(s)]
  /\ UNCHANGED <<day, producer, events, writable, broken, up, boot, duty, prune, left, starts>>

\* The run unwinds: nothing on the way to the thread's end catches it, and the
\* two locks are let go by dropping.
Panic(s) ==
  LET d == Turn(s) IN
  /\ pump[s].at = "ran" /\ pump[s].outcome = "delivered"
  /\ IF Sub(d) \in Faulty THEN UNCHANGED left ELSE Spend("panic")
  /\ lock' = [lock EXCEPT ![Sub(d)] = Nobody]
  /\ duty' = Nobody
  /\ pump' = [pump EXCEPT ![s] = PumpIdle]
  /\ UNCHANGED <<day, producer, events, told, writable, broken, up, boot, prune, starts>>

EndPump(s) ==
  /\ pump[s].at = "each" /\ pump[s].todo = {}
  /\ duty' = Nobody
  /\ pump' = [pump EXCEPT ![s] = PumpIdle]
  /\ UNCHANGED <<day, producer, events, told, writable, broken, lock, up, boot, prune, left, starts>>

-----------------------------------------------------------------------------
(* Servers.                                                                *)

Crash(s) ==
  /\ s \in up /\ Spend("crash")
  /\ up' = up \ {s}
  /\ duty' = IF duty = s THEN Nobody ELSE duty
  /\ lock' = [c \in Subs |-> IF lock[c] = s THEN Nobody ELSE lock[c]]
  /\ pump' = [pump EXCEPT ![s] = PumpIdle]
  /\ held' = [held EXCEPT ![s] = [d \in Deliveries |-> Owed]]
  /\ boot' = [boot EXCEPT ![s] = BootDone]
  /\ UNCHANGED <<day, producer, events, ledger, writable, broken, prune, starts>>

\* materialize::reconcile: what is on the log and how far it was swept...
BootReads(s) ==
  /\ s \notin up /\ Undisturbed
  /\ up' = up \cup {s}
  /\ boot' = [boot EXCEPT ![s] = [at |-> "read", known |-> OnLog, todo |-> {}, swept |-> swept]]
  /\ UNCHANGED <<day, producer, events, told, writable, broken, lock, duty, pump, prune, left, starts>>

\* ...then the run history, of which it looks for what the log had not.
Missing(s) == {p \in Pubs \ boot[s].known : boot[s].swept <= commit[p] /\ commit[p] # Never}

BootLists(s) ==
  /\ boot[s].at = "read"
  /\ boot' = [boot EXCEPT ![s].at = "append", ![s].todo = Missing(s)]
  /\ UNCHANGED <<day, producer, events, told, writable, broken, lock, up, duty, pump, prune, left, starts>>

BootAppends(s) ==
  /\ boot[s].at = "append"
  /\ IF boot[s].todo = {} THEN boot' = [boot EXCEPT ![s] = BootDone] /\ UNCHANGED events
     ELSE \E p \in boot[s].todo :
            /\ boot' = [boot EXCEPT ![s].todo = @ \ {p}]
            /\ Appended(p)
  /\ UNCHANGED <<day, producer, told, writable, broken, lock, up, duty, pump, prune, left, starts>>

-----------------------------------------------------------------------------
(* Retention.                                                              *)

AtWork == duty # Nobody \/ appending # {} \/ \E s \in Servers : boot[s].at # "done"

\* Mutant: the events are judged as if no delivery named one.
Decide_Unnamed(days, fresh) ==
  LET old(d) == "deliveries" \in days /\ ledger[d].state = "delivered" /\ ledger[d].at < day
      last   == {p \in OnLog : fresh /\ \A q \in OnLog : commit[q] <= commit[p]}
      kept   == IF "materializations" \in days THEN {p \in OnLog : commit[p] >= day} \cup last ELSE OnLog
  IN  [at     |-> "deliveries",
       ledger |-> [d \in Deliveries |-> IF old(d) /\ Pub(d) \notin kept THEN Owed ELSE ledger[d]],
       events |-> kept,
       rows   |-> days]

\* decide, from one read of each.  Before the horizon is before today.  Of events,
\* those a kept delivery names stay, and the last one where the asset declares a
\* freshness; of deliveries, every one not delivered and those whose event stays.
Decide(days, fresh) ==
  LET old(d)   == "deliveries" \in days /\ ledger[d].state = "delivered" /\ ledger[d].at < day
      named    == {Pub(d) : d \in {x \in Deliveries : ledger[x] # Owed /\ ~old(x)}}
      last     == {p \in OnLog : fresh /\ \A q \in OnLog : commit[q] <= commit[p]}
      kept     == IF "materializations" \in days
                  THEN {p \in OnLog : commit[p] >= day} \cup (OnLog \cap (named \cup last)) ELSE OnLog
  IN  [at     |-> "deliveries",
       ledger |-> [d \in Deliveries |-> IF old(d) /\ Pub(d) \notin kept THEN Owed ELSE ledger[d]],
       events |-> kept,
       rows   |-> days]

PruneDecides(days, fresh) ==
  LET d == Decide(days, fresh) IN
  /\ prune.at = "idle" /\ Spend("prune")
  /\ PruneApart => ~AtWork
  /\ d.ledger # ledger \/ d.events # OnLog
  /\ prune' = d
  /\ UNCHANGED <<day, producer, events, told, writable, broken, lock, servers, starts>>

\* subscribe::keep_only, under the store lock: the ledger becomes what was decided.
PruneDeliveries ==
  /\ prune.at = "deliveries"
  /\ ledger' = IF "deliveries" \in prune.rows /\ writable THEN prune.ledger ELSE ledger
  /\ prune' = [prune EXCEPT !.at = "materializations"]
  /\ UNCHANGED <<day, producer, events, held, writable, broken, lock, servers, left, starts>>

\* The lines of a log at the numbers in K, in their order.
AtLines(seq, K) ==
  [k \in 1..Cardinality(K) |->
     seq[CHOOSE i \in K : Cardinality({j \in K : j <= i}) = k]]

\* materialize::keep_only: so does the log.
PruneEvents ==
  /\ prune.at = "materializations"
  /\ IF "materializations" \in prune.rows
     THEN /\ log' = AtLines(log, {i \in DOMAIN log : log[i] \in prune.events})
          /\ prune' = [prune EXCEPT !.at = "horizon"]
     ELSE UNCHANGED log /\ prune' = PruneIdle
  /\ UNCHANGED <<day, producer, swept, twins, told, writable, broken, lock, servers, left, starts>>

\* record_pruned_before.
PruneHorizon ==
  /\ prune.at = "horizon"
  /\ swept' = IF day > swept THEN day ELSE swept
  /\ prune' = PruneIdle
  /\ UNCHANGED <<day, producer, log, twins, told, writable, broken, lock, servers, left, starts>>

\* Killed, or a write fails, between two of them.
PruneStops ==
  /\ prune.at \in {"materializations", "horizon"} /\ Spend("torn")
  /\ prune' = PruneIdle
  /\ UNCHANGED <<day, producer, events, told, writable, broken, lock, servers, starts>>

-----------------------------------------------------------------------------
(* Around them.                                                            *)

\* retry_failed: the record is taken away, and so the delivery is owed again.
RetryFailed ==
  /\ writable /\ Spend("retry")
  /\ ledger' = [d \in Deliveries |-> IF ledger[d].state = "failed" THEN Owed ELSE ledger[d]]
  /\ UNCHANGED <<day, producer, events, held, writable, broken, lock, servers, prune, starts>>

Edit(c) ==
  /\ Spend("edit")
  /\ broken' = IF c \in broken THEN broken \ {c} ELSE broken \cup {c}
  /\ UNCHANGED <<day, producer, events, told, writable, lock, servers, prune, starts>>

\* The ledger cannot be written, and can be again.
Breaks ==
  /\ writable /\ Spend("break")
  /\ writable' = FALSE
  /\ UNCHANGED <<day, producer, events, told, broken, lock, servers, prune, starts>>
Heals ==
  /\ ~writable
  /\ writable' = TRUE
  /\ UNCHANGED <<day, producer, events, told, broken, lock, servers, prune, left, starts>>

\* A run of the consumer that is not the pump's.
OtherStarts(c) ==
  /\ lock[c] = Nobody /\ Spend("other")
  /\ lock' = [lock EXCEPT ![c] = Other]
  /\ UNCHANGED <<day, producer, events, told, writable, broken, servers, prune, starts>>
OtherEnds(c) ==
  /\ lock[c] = Other
  /\ lock' = [lock EXCEPT ![c] = Nobody]
  /\ UNCHANGED <<day, producer, events, told, writable, broken, servers, prune, left, starts>>

\* Nothing that is at work takes a day.
NewDay ==
  /\ day < MaxDay /\ prune.at = "idle" /\ appending = {}
  /\ day' = day + 1
  /\ UNCHANGED <<producer, events, told, writable, broken, lock, servers, prune, left, starts>>

PumpStep(s) ==
  \/ Flush(s) \/ List(s) \/ Skip(s) \/ CannotRun(s) \/ RunConsumer(s)
  \/ RecordOutcome(s) \/ EndPump(s) \/ Panic(s)
BootStep(s) == BootLists(s) \/ BootAppends(s)
PruneStep   == PruneDeliveries \/ PruneEvents \/ PruneHorizon

Next ==
  \/ \E p \in Pubs : Publish(p) \/ AppendEvent(p) \/ AppendLost(p)
  \/ \E s \in Servers : TakeDuty(s) \/ PumpStep(s) \/ Crash(s) \/ BootReads(s) \/ BootStep(s)
  \/ \E days \in SUBSET {"deliveries", "materializations"}, fresh \in BOOLEAN : PruneDecides(days, fresh)
  \/ PruneStep \/ PruneStops
  \/ RetryFailed \/ Breaks \/ Heals \/ NewDay
  \/ \E c \in Subs : Edit(c) \/ OtherStarts(c) \/ OtherEnds(c)

Spec == Init /\ [][Next]_vars
-----------------------------------------------------------------------------
(* Safety.                                                                 *)

Spent(what) == Budget[what] - left[what]

\* What the code cannot know of, each with as many runs as it may cost: a kill or a
\* panic before the outcome is recorded, a pass of retention cut off between its two
\* ledgers, and, while the ledger cannot be written, one for each server that holds
\* an outcome.
Excuses == Spent("crash") + Spent("panic") + Spent("torn")
           + Cardinality(Servers) * Spent("break")

\* A consumer is run once for a publication, and again only for an excuse; a retry is
\* none.  Where a reconcile beside the append made more events of one publication,
\* each of them is told, so that each excuse costs as many runs, and a retry too: one
\* event may have been delivered and the next have failed.
RepeatsAreAccounted ==
  \A d \in Deliveries : Sub(d) \notin Faulty =>
    LET more == twins[Pub(d)]
    IN starts[d] <= (1 + more) * (1 + Excuses + (IF more = 0 THEN 0 ELSE Spent("retry")))

\* A failed delivery can be retried: retention never takes the publication it
\* would be owed for again.
FailuresKeepTheirEvent ==
  [][\A d \in Deliveries :
       ledger[d].state = "failed" /\ Pub(d) \in OnLog => \E i \in DOMAIN log' : log'[i] = Pub(d)]_vars

-----------------------------------------------------------------------------
(* Liveness.                                                               *)

\* Threads run, a server that starts gets through its reconcile, some server
\* pumps again whenever none does, the other runs of a consumer end.
Fairness ==
  /\ \A s \in Servers : WF_vars(PumpStep(s)) /\ WF_vars(BootStep(s))
  /\ WF_vars(\E s \in Servers : TakeDuty(s))
  /\ WF_vars(PruneStep)
  /\ \A p \in Pubs : WF_vars(AppendEvent(p))
  /\ \A c \in Subs : WF_vars(OtherEnds(c))

FairSpec == Spec /\ Fairness

\* What is on the log is told to every subscription, or found to be impossible to
\* tell, unless retention bounds the replay; while there is a server and a ledger
\* that can be written.
EventsAreTold ==
  \A d \in Deliveries : Sub(d) \notin Faulty =>
    (Pub(d) \in OnLog ~> ledger[d] # Owed \/ Pub(d) \notin OnLog \/ ~writable \/ up = {})

=============================================================================
