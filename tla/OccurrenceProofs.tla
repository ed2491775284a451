-------------------------- MODULE OccurrenceProofs --------------------------
(* What holds of Occurrences for any number of servers and desktops, every  *)
(* schedule, policy, clock skew and bound.                                   *)
EXTENDS Occurrences, LeastElement, FiniteSetTheorems

(***************************************************************************)
(* Least and greatest instants.                                            *)
(***************************************************************************)
LEMMA MaxIsGreatest ==
  ASSUME NEW n \in Nat, NEW S \in SUBSET (0..n), S # {}
  PROVE  Max(S) \in S /\ \A y \in S : Max(S) >= y
<1> DEFINE below == {n - y : y \in S}
<1>1. below \in SUBSET Nat /\ below # {}
  <2>1. \A y \in S : n - y \in Nat
    OBVIOUS
  <2> QED
    BY <2>1, Zenon
<1>2. PICK x \in S : Min(below) = n - x
  <2>1. Min(below) \in below
    <3> HIDE DEF below
    <3> QED
      BY <1>1, MinIsLeast
  <2> QED
    BY <2>1
<1>3. \A y \in S : n - y \in below
  OBVIOUS
<1>4. \A y \in S : x >= y
  <2> SUFFICES ASSUME NEW y \in S PROVE x >= y
    OBVIOUS
  <2>2. n - x <= n - y
    <3> HIDE DEF below
    <3> QED
      BY <1>1, <1>2, <1>3, MinIsLeast
  <2> QED
    BY <2>2
<1> QED
  BY <1>4 DEF Max

LEMMA LeastInstant ==
  ASSUME NEW S \in SUBSET Instants, S # {}
  PROVE  Min(S) \in S /\ Min(S) \in Instants
<1>1. S \in SUBSET Nat
  BY NumberAssumption DEF Instants
<1> QED
  BY <1>1, MinIsLeast

(***************************************************************************)
(* What the calendar operators return.                                     *)
(***************************************************************************)
LEMMA Calendars ==
  ASSUME NEW c \in Configs, NEW t \in Int, NEW last \in 0..MaxTime
  PROVE  /\ NextAfter(c, t) \in 0..MaxTime
         /\ Slot(c, t) \in 0..MaxTime
         /\ ComputeNext(c, t, last) \in 0..MaxTime
<1>1. ASSUME NEW u \in Int PROVE NextAfter(c, u) \in 0..MaxTime
  <2> DEFINE later == {d \in DueOf[c] : d > u}
  <2>1. later \in SUBSET Instants
    BY ConfigAssumption
  <2>2. CASE later = {}
    BY <2>2, NumberAssumption DEF NextAfter
  <2>3. CASE later # {}
    BY <2>1, <2>3, LeastInstant DEF NextAfter, Instants
  <2> QED
    BY <2>2, <2>3
<1>2. Slot(c, t) \in 0..MaxTime
  <2> DEFINE past == {d \in DueOf[c] : d <= t} \cup {0}
  <2>1. past \in SUBSET (0..MaxTime) /\ past # {} /\ MaxTime \in Nat
    BY ConfigAssumption, NumberAssumption DEF Instants
  <2> QED
    BY <2>1, MaxIsGreatest DEF Slot
<1> QED
  BY <1>1, <1>2, NumberAssumption DEF ComputeNext

LEMMA NextInstant ==
  \A c \in Configs : \A t \in Nat : NextAfter(c, t) \in 0..MaxTime
<1>1. 0 \in 0..MaxTime /\ Nat \subseteq Int
  BY NumberAssumption
<1> QED
  BY <1>1, Calendars

LEMMA LastInstant ==
  \A c \in Configs : \A t \in Nat : Slot(c, t) \in 0..MaxTime
<1>1. 0 \in 0..MaxTime /\ Nat \subseteq Int
  BY NumberAssumption
<1> QED
  BY <1>1, Calendars

LEMMA Overdue ==
  ASSUME NEW c \in Configs, NEW now
  PROVE  CatchUp(c, now) \in SUBSET Instants
BY ConfigAssumption DEF CatchUp, Missed

LEMMA Policy ==
  ASSUME NEW missed \in SUBSET Instants
  PROVE  Wanted(missed) \in SUBSET Instants
BY ConfigAssumption DEF Wanted

(***************************************************************************)
(* Type correctness.  A tick that is past its claim has an instant to fire, *)
(* and a catch-up thread that is about to record has one to record.         *)
(***************************************************************************)
Staged ==
  /\ \A p \in Procs : tick[p].at \in {"slot", "record", "dispatch", "claim"}
                        => tick[p].fire # 0
  /\ \A p \in Procs : tick[p].at = "note" => tick[p].skip # {}
  /\ \A p \in Procs : chase[p].at = "record" => chase[p].todo # {}

TypeInv == TypeOK /\ Staged

LEMMA Constants ==
  /\ MaxTime \in Nat /\ MaxCrashes \in Nat /\ MaxFaults \in Nat /\ MaxEdits \in Nat
  /\ Anchor \in 0..MaxTime /\ Instants \subseteq 0..MaxTime /\ 0 \notin Instants
  /\ Instants \subseteq Nat
  /\ \A d \in 0..MaxTime : d # 0 => d \in Instants
  /\ Servers \subseteq Procs /\ Desktops \subseteq Procs
BY NumberAssumption DEF Instants, Procs

LEMMA Clocks ==
  ASSUME TypeOK, NEW p \in Procs
  PROVE  Now(p) \in Nat
BY ProcAssumption, Constants DEF TypeOK, Now

LEMMA InitType == Init => TypeInv
<1> SUFFICES ASSUME Init PROVE TypeInv
  OBVIOUS
<1> USE Constants
<1>1. Idle \in Busy /\ Off \in Chase /\ Unarmed \in Arming
  BY DEF Idle, Busy, Off, Chase, Unarmed, Arming
<1>2. budget \in [Bounds -> Nat]
  BY DEF Init, Bounds
<1>3. ledger \in [Instants -> [Decisions -> Nat]] /\ runs \in [Instants -> Nat]
  BY DEF Init, Decisions
<1>4. store \in [cfg : Configs, next : 0..MaxTime, last : 0..MaxTime]
  BY ConfigAssumption DEF Init
<1>5. took \subseteq Instants /\ inForce \in [Instants -> SUBSET Configs]
  BY ConfigAssumption DEF Init
<1>6. Staged
  BY DEF Init, Staged, Idle, Off
<1>7. /\ armed \in [Procs -> Arming] /\ tick \in [Procs -> Busy]
      /\ chase \in [Procs -> Chase] /\ beat \in [Procs -> 0..MaxTime]
  BY <1>1 DEF Init
<1>8. clock \in 0..MaxTime /\ through \in 0..MaxTime
  BY DEF Init
<1> QED
  BY <1>1, <1>2, <1>3, <1>4, <1>5, <1>6, <1>7, <1>8 DEF Init, TypeInv, TypeOK

\* A step of one tick, of one catch-up, of the arming of one process.
LEMMA TickTypes ==
  ASSUME TypeInv, NEW p \in Procs, NEW t \in Busy, SetTick(p, t),
         t.at \in {"slot", "record", "dispatch", "claim"} => t.fire # 0,
         t.at = "note" => t.skip # {}
  PROVE  /\ tick' \in [Procs -> Busy]
         /\ \A q \in Procs : tick'[q].at \in {"slot", "record", "dispatch", "claim"}
                               => tick'[q].fire # 0
         /\ \A q \in Procs : tick'[q].at = "note" => tick'[q].skip # {}
BY DEF TypeInv, TypeOK, Staged, SetTick

LEMMA ChaseTypes ==
  ASSUME TypeInv, NEW p \in Procs, NEW c \in Chase, chase' = [chase EXCEPT ![p] = c],
         c.at = "record" => c.todo # {}
  PROVE  /\ chase' \in [Procs -> Chase]
         /\ \A q \in Procs : chase'[q].at = "record" => chase'[q].todo # {}
BY DEF TypeInv, TypeOK, Staged

LEMMA BusyTypes ==
  ASSUME NEW t \in Busy
  PROVE  /\ t.skip \in SUBSET Instants /\ t.run \in SUBSET Instants /\ t.fire \in 0..MaxTime
         /\ [t EXCEPT !.at = "note"] \in Busy
         /\ Idle \in Busy
BY Constants DEF Busy, Idle

LEMMA SkipTypes ==
  ASSUME NEW t \in Busy, NEW sk \in SUBSET Instants
  PROVE  /\ [t EXCEPT !.skip = sk] \in Busy
         /\ [t EXCEPT !.skip = sk].at = t.at
         /\ [t EXCEPT !.run = sk] \in Busy
         /\ [t EXCEPT !.at = "decide", !.skip = sk] \in Busy
         /\ [t EXCEPT !.at = "decide", !.skip = sk].at = "decide"
BY DEF Busy

LEMMA ArmTypes ==
  ASSUME TypeOK, NEW p \in Procs, NEW c \in Configs, NEW at \in 0..MaxTime, Arm(p, c, at)
  PROVE  armed' \in [Procs -> Arming]
<1>1. Unarmed \in Arming /\ [cfg |-> c, at |-> at] \in Arming
  BY Constants DEF Unarmed, Arming
<1> QED
  BY <1>1 DEF TypeOK, Arm

LEMMA AdoptTypes ==
  ASSUME TypeOK, NEW p \in Procs,
         NEW s \in [cfg : Configs, next : 0..MaxTime, last : 0..MaxTime], Adopt(p, s)
  PROVE  armed' \in [Procs -> Arming]
<1> DEFINE a == [cfg |-> s.cfg,
                 at  |-> IF s.next = 0 THEN ComputeNext(s.cfg, Now(p), s.last) ELSE s.next]
<1>1. Now(p) \in Int /\ s.cfg \in Configs /\ s.last \in 0..MaxTime /\ s.next \in 0..MaxTime
  BY Clocks
<1>2. a \in Arming
  BY <1>1, Calendars DEF Arming
<1>3. armed' = [armed EXCEPT ![p] = a]
  BY DEF Adopt
<1> QED
  BY <1>2, <1>3 DEF TypeOK

LEMMA SpendTypes ==
  ASSUME TypeOK, NEW what \in Bounds, Spend(what)
  PROVE  budget' \in [Bounds -> Nat]
BY DEF TypeOK, Spend

LEMMA TakeTypes ==
  ASSUME TypeOK, NEW d \in Instants, NEW mine \in BOOLEAN, Take(d, mine)
  PROVE  /\ through' \in 0..MaxTime /\ took' \subseteq Instants /\ stray' \subseteq Instants
         /\ budget' \in [Bounds -> Nat]
<1>1. "faults" \in Bounds /\ d \in 0..MaxTime
  BY Constants DEF Bounds
<1>2. CASE Spend("faults")
  BY <1>1, <1>2, SpendTypes, Constants DEF TypeOK, Take
<1>3. CASE UNCHANGED budget
  BY <1>1, <1>3, Constants DEF TypeOK, Take
<1> QED
  BY <1>2, <1>3 DEF Take

LEMMA RecordTypes ==
  ASSUME TypeOK, NEW d \in Instants, NEW v \in Decisions, Record(d, v)
  PROVE  ledger' \in [Instants -> [Decisions -> Nat]] /\ budget' \in [Bounds -> Nat]
<1>1. CASE /\ ledger' = [ledger EXCEPT ![d][v] = @ + 1]
           /\ UNCHANGED budget
  <2>1. [ledger[d] EXCEPT ![v] = @ + 1] \in [Decisions -> Nat]
    BY DEF TypeOK
  <2>2. ledger' = [ledger EXCEPT ![d] = [ledger[d] EXCEPT ![v] = @ + 1]]
    BY <1>1
  <2>3. ledger' \in [Instants -> [Decisions -> Nat]]
    BY <2>1, <2>2 DEF TypeOK
  <2> QED
    BY <1>1, <2>3 DEF TypeOK
<1>2. CASE Spend("faults") /\ UNCHANGED ledger
  BY <1>2, SpendTypes DEF TypeOK, Bounds
<1> QED
  BY <1>1, <1>2 DEF Record

LEMMA JobTypes ==
  ASSUME NEW p \in Procs, NEW d \in Instants, NEW kind \in {"dispatch", "chase", "desktop"}
  PROVE  NewJob(p, d, kind) \in [job : Job, at : {"wait", "run"}, began : 0..MaxTime]
BY Constants DEF NewJob, Job

LEMMA TickStepsTypes ==
  ASSUME TypeInv, NEW p \in Servers, ServerTick(p)
  PROVE  TypeInv'
<1> USE DEF TypeInv, TypeOK, shared, local, history
<1>0. /\ p \in Procs /\ tick[p] \in Busy /\ store.cfg \in Configs /\ clock \in 0..MaxTime
      /\ Now(p) \in Nat /\ 0 \in 0..MaxTime /\ "fired" \in Decisions /\ "skipped" \in Decisions
  BY Constants, Clocks DEF Decisions
<1>1. CASE TickOff(p)
  <2>1. Unarmed \in Arming
    BY Constants DEF Unarmed, Arming
  <2> QED
    BY <1>0, <1>1, <2>1 DEF TickOff, Begin, Staged
<1>2. CASE TickCron(p)
  <2> DEFINE c    == store.cfg
             due  == IF ArmedFor(p, "cron") THEN armed[p].at ELSE 0
             over == CatchUp(c, Horizon(Now(p), due))
             t    == [at |-> "decide", skip |-> over \ Wanted(over), run |-> Wanted(over),
                      fire |-> IF Fires(p, c) THEN due ELSE 0]
  <2>1. over \in SUBSET Instants /\ Wanted(over) \in SUBSET Instants
    BY <1>0, Overdue, Policy
  <2>2. due \in 0..MaxTime
    BY <1>0 DEF Arming
  <2>3. t \in Busy
    <3> HIDE DEF over, due
    <3> QED
      BY <2>1, <2>2, <1>0 DEF Busy
  <2>4. SetTick(p, t) /\ t.at = "decide"
    BY <1>2 DEF TickCron
  <2>5. armed' \in [Procs -> Arming]
    <3>1. NextAfter(c, Now(p)) \in 0..MaxTime
      BY <1>0, NextInstant
    <3>2. UNCHANGED armed \/ Arm(p, c, NextAfter(c, Now(p)))
      BY <1>2 DEF TickCron
    <3> QED
      BY <1>0, <3>1, <3>2, ArmTypes
  <2> HIDE DEF t
  <2>6. /\ beat' = [beat EXCEPT ![p] = clock]
        /\ UNCHANGED <<clock, up, budget, shared, inFlight, chase, jobs, history>>
    BY <1>2 DEF TickCron, Begin
  <2> QED
    BY <1>0, <2>3, <2>4, <2>5, <2>6, TickTypes DEF Staged
<1>3. CASE TickInterval(p)
  <2> DEFINE c    == store.cfg
             slot == Slot(c, Now(p))
             t    == IF ArmedFor(p, "interval") /\ armed[p].at < slot
                     THEN [Idle EXCEPT !.at = "slot", !.fire = slot] ELSE Idle
  <2>1. slot \in 0..MaxTime
    BY <1>0, LastInstant
  <2>2. armed' \in [Procs -> Arming]
    BY <1>0, <1>3, <2>1, ArmTypes DEF TickInterval
  <2>3. armed[p].at \in 0..MaxTime
    BY <1>0 DEF Arming
  <2>4. t \in Busy
    <3> HIDE DEF slot
    <3> QED
      BY <2>1, <1>0, Constants DEF Busy, Idle
  <2>5. /\ t.at \in {"slot", "record", "dispatch", "claim"} => t.fire # 0
        /\ t.at # "note"
    <3> HIDE DEF slot
    <3> QED
      BY <2>1, <2>3 DEF Idle
  <2>6. /\ SetTick(p, t) /\ beat' = [beat EXCEPT ![p] = clock]
        /\ UNCHANGED <<clock, up, budget, shared, inFlight, chase, jobs, history>>
    BY <1>3 DEF TickInterval, Begin
  <2> HIDE DEF t
  <2> QED
    BY <1>0, <2>2, <2>4, <2>5, <2>6, TickTypes DEF Staged
<1>4. CASE DecideSkipped(p)
  <2> DEFINE d == Min(tick[p].skip)
  <2>1. d \in Instants /\ tick[p].skip \in SUBSET Instants /\ tick[p].skip # {}
    BY <1>0, <1>4, BusyTypes, LeastInstant DEF DecideSkipped
  <2>2. PICK mine \in BOOLEAN :
          /\ Take(d, mine)
          /\ SetTick(p, IF mine THEN [tick[p] EXCEPT !.at = "note"]
                        ELSE [tick[p] EXCEPT !.skip = @ \ {d}])
    BY <1>4 DEF DecideSkipped
  <2> DEFINE t == IF mine THEN [tick[p] EXCEPT !.at = "note"]
                  ELSE [tick[p] EXCEPT !.skip = @ \ {d}]
  <2>3. t \in Busy /\ t.at \in {"note", "decide"} /\ (t.at = "note" => t.skip # {})
    <3> HIDE DEF d
    <3>1. tick[p].skip \ {d} \in SUBSET Instants
      BY <2>1
    <3>2. [tick[p] EXCEPT !.at = "note"] \in Busy /\ [tick[p] EXCEPT !.skip = @ \ {d}] \in Busy
      BY <1>0, <3>1, BusyTypes, SkipTypes
    <3> QED
      BY <1>0, <1>4, <2>1, <3>1, <3>2, SkipTypes DEF DecideSkipped, Ticking, Busy
  <2>4. SetTick(p, t)
    BY <2>2
  <2> HIDE DEF t, d
  <2> QED
    BY <1>0, <1>4, <2>1, <2>2, <2>3, <2>4, TickTypes, TakeTypes DEF DecideSkipped, Staged
<1>5. CASE NoteSkipped(p)
  <2> DEFINE d == Min(tick[p].skip)
             t == [tick[p] EXCEPT !.at = "decide", !.skip = @ \ {d}]
  <2>1. d \in Instants /\ tick[p].skip \in SUBSET Instants
    BY <1>0, <1>5, BusyTypes, LeastInstant DEF NoteSkipped, Ticking, Staged
  <2>2. t \in Busy /\ t.at = "decide"
    <3> HIDE DEF d
    <3>1. tick[p].skip \ {d} \in SUBSET Instants
      BY <2>1
    <3> QED
      BY <1>0, <3>1, SkipTypes
  <2>3. SetTick(p, t) /\ Record(d, "skipped")
    BY <1>5 DEF NoteSkipped
  <2> HIDE DEF t, d
  <2> QED
    BY <1>0, <1>5, <2>1, <2>2, <2>3, TickTypes, RecordTypes DEF NoteSkipped, Staged
<1>6. CASE TakeTurn(p)
  <2> DEFINE t == [tick[p] EXCEPT !.run = {}]
             c == [at |-> "take", todo |-> tick[p].run]
  <2>1. t \in Busy /\ t.at = "decide" /\ c \in Chase /\ c.at = "take"
    BY <1>0, <1>6 DEF TakeTurn, Ticking, Chase, Busy
  <2>2. SetTick(p, t)
    BY <1>6 DEF TakeTurn
  <2>3. \/ chase' = [chase EXCEPT ![p] = c] /\ turn' = p /\ inFlight' = inFlight \cup {p}
        \/ UNCHANGED <<turn, inFlight, chase>>
    BY <1>6 DEF TakeTurn
  <2> HIDE DEF t, c
  <2>4. /\ chase' \in [Procs -> Chase]
        /\ \A q \in Procs : chase'[q].at = "record" => chase'[q].todo # {}
    BY <1>0, <2>1, <2>3, ChaseTypes DEF Staged
  <2>5. turn' \in Procs \cup {None} /\ inFlight' \subseteq Servers
    BY <1>0, <2>3
  <2> QED
    BY <1>0, <1>6, <2>1, <2>2, <2>4, <2>5, TickTypes DEF TakeTurn, Staged
<1>7. CASE NothingToFire(p)
  <2>1. Idle \in Busy /\ Idle.at = "idle"
    BY <1>0, BusyTypes, Constants DEF Idle, Busy
  <2> QED
    BY <1>0, <1>7, <2>1, TickTypes DEF NothingToFire, Staged
<1>8. CASE TakeArmed(p)
  <2>1. tick[p].fire \in Instants
    BY <1>0, <1>8, Constants DEF TakeArmed, Ticking, Staged, Busy
  <2>2. PICK mine \in BOOLEAN :
          /\ Take(tick[p].fire, mine)
          /\ SetTick(p, IF ~mine THEN Idle
                        ELSE [tick[p] EXCEPT !.at = IF @ = "slot" THEN "dispatch" ELSE "record"])
    BY <1>8 DEF TakeArmed
  <2> DEFINE t == IF ~mine THEN Idle
                  ELSE [tick[p] EXCEPT !.at = IF @ = "slot" THEN "dispatch" ELSE "record"]
  <2>3. t \in Busy /\ t.at # "note"
    BY <1>0, Constants DEF Busy, Idle
  <2>4. t.at \in {"slot", "record", "dispatch", "claim"} => t.fire # 0
    BY <1>0, <2>1, Constants DEF Busy, Idle
  <2>5. SetTick(p, t)
    BY <2>2
  <2> HIDE DEF t
  <2> QED
    BY <1>0, <1>8, <2>1, <2>2, <2>3, <2>4, <2>5, TickTypes, TakeTypes DEF TakeArmed, Staged
<1>9. CASE RecordFired(p)
  <2> DEFINE t == [tick[p] EXCEPT !.at = "dispatch"]
  <2>1. tick[p].fire \in Instants
    BY <1>0, <1>9, Constants DEF RecordFired, Ticking, Staged, Busy
  <2>2. t \in Busy /\ t.at = "dispatch" /\ t.fire # 0
    BY <1>0, <2>1, Constants DEF Busy
  <2>3. SetTick(p, t) /\ Record(tick[p].fire, "fired")
    BY <1>9 DEF RecordFired
  <2> HIDE DEF t
  <2> QED
    BY <1>0, <1>9, <2>1, <2>2, <2>3, TickTypes, RecordTypes DEF RecordFired, Staged
<1>10. CASE Dispatch(p)
  <2>1. tick[p].fire \in Instants
    BY <1>0, <1>10, Constants DEF Dispatch, Ticking, Staged, Busy
  <2>2. /\ NewJob(p, tick[p].fire, "dispatch")
             \in [job : Job, at : {"wait", "run"}, began : 0..MaxTime]
    BY <1>0, <2>1, JobTypes
  <2>3. Idle \in Busy /\ Idle.at = "idle"
    BY Constants DEF Idle, Busy
  <2>4. inFlight' \subseteq Servers
        /\ jobs' \subseteq [job : Job, at : {"wait", "run"}, began : 0..MaxTime]
    BY <1>10, <2>2 DEF Dispatch
  <2> QED
    BY <1>0, <1>10, <2>3, <2>4, TickTypes DEF Dispatch, Staged
<1> QED
  BY <1>1, <1>2, <1>3, <1>4, <1>5, <1>6, <1>7, <1>8, <1>9, <1>10 DEF ServerTick

LEMMA ChaseStepTypes ==
  ASSUME TypeInv, NEW p \in Servers, ChaseStep(p)
  PROVE  TypeInv'
<1> USE DEF TypeInv, TypeOK, shared, local, history
<1> DEFINE todo == chase[p].todo
           d    == Min(todo)
<1>0. /\ p \in Procs /\ chase[p] \in Chase /\ todo \in SUBSET Instants
      /\ chase[p].at \in {"off", "take", "record", "run"} /\ "fired" \in Decisions
  BY Constants DEF Decisions, Chase
<1>1. todo # {} => d \in Instants
  BY <1>0, LeastInstant
<1>2. CASE ChaseTake(p)
  <2>1. PICK mine \in BOOLEAN :
          /\ Take(d, mine)
          /\ IF mine THEN SetChase(p, "record", todo) ELSE SetChase(p, "take", todo \ {d})
    BY <1>2 DEF ChaseTake
  <2>2. d \in Instants /\ todo # {}
    BY <1>1, <1>2 DEF ChaseTake
  <2> DEFINE c == IF mine THEN [at |-> "record", todo |-> todo]
                  ELSE [at |-> "take", todo |-> todo \ {d}]
  <2> HIDE DEF d
  <2>3. c \in Chase /\ (c.at = "record" => c.todo # {}) /\ chase' = [chase EXCEPT ![p] = c]
    BY <1>0, <2>1, <2>2 DEF Chase, SetChase
  <2> HIDE DEF c
  <2>4. /\ through' \in 0..MaxTime /\ took' \subseteq Instants /\ stray' \subseteq Instants
        /\ budget' \in [Bounds -> Nat]
    BY <2>1, <2>2, TakeTypes
  <2>5. /\ chase' \in [Procs -> Chase]
        /\ \A q \in Procs : chase'[q].at = "record" => chase'[q].todo # {}
    BY <1>0, <2>3, ChaseTypes
  <2> QED
    BY <1>2, <2>4, <2>5 DEF ChaseTake, Staged
<1>3. CASE ChaseRecord(p)
  <2>1. d \in Instants
    BY <1>0, <1>1, <1>3 DEF ChaseRecord, Staged
  <2> DEFINE c == [at |-> "run", todo |-> todo \ {d}]
  <2>2. c \in Chase /\ c.at # "record"
    <3> HIDE DEF d
    <3> QED
      BY <1>0 DEF Chase
  <2>3. /\ chase' = [chase EXCEPT ![p] = c]
        /\ Record(d, "fired") /\ jobs' = jobs \cup {NewJob(p, d, "chase")}
    BY <1>3 DEF ChaseRecord, SetChase
  <2>4. NewJob(p, d, "chase") \in [job : Job, at : {"wait", "run"}, began : 0..MaxTime]
    BY <1>0, <2>1, JobTypes
  <2> HIDE DEF c, d
  <2> QED
    BY <1>0, <1>3, <2>1, <2>2, <2>3, <2>4, ChaseTypes, RecordTypes DEF ChaseRecord, Staged
<1>4. CASE ChaseEnds(p)
  <2> DEFINE c == [at |-> "off", todo |-> {}]
  <2>1. c \in Chase /\ c.at # "record" /\ chase' = [chase EXCEPT ![p] = c]
    BY <1>4 DEF ChaseEnds, SetChase, Chase
  <2>2. turn' \in Procs \cup {None}
    BY <1>4 DEF ChaseEnds
  <2> HIDE DEF c
  <2> QED
    BY <1>0, <1>4, <2>1, <2>2, ChaseTypes DEF ChaseEnds, Staged
<1> QED
  BY <1>2, <1>3, <1>4 DEF ChaseStep

LEMMA DesktopTypes ==
  ASSUME TypeInv, NEW p \in Desktops, DesktopStep(p)
  PROVE  TypeInv'
<1> USE DEF TypeInv, TypeOK, shared, local, history
<1>0. /\ p \in Procs /\ clock \in 0..MaxTime /\ Now(p) \in Nat /\ 0 \in 0..MaxTime
      /\ armed[p] \in Arming /\ armed[p].at \in 0..MaxTime /\ tick[p] \in Busy
  BY Constants, Clocks DEF Arming
<1>1. CASE DesktopClaims(p)
  <2> DEFINE t == [Idle EXCEPT !.at = "claim", !.fire = armed[p].at]
             s == [store EXCEPT !.next = NextAfter(store.cfg, Now(p))]
  <2>1. t \in Busy /\ t.at = "claim" /\ t.fire # 0
    BY <1>0, <1>1 DEF DesktopClaims, DesktopDue, Busy, Idle
  <2>2. SetTick(p, t) /\ beat' = [beat EXCEPT ![p] = clock]
    BY <1>1 DEF DesktopClaims
  <2>3. /\ tick' \in [Procs -> Busy]
        /\ \A q \in Procs : tick'[q].at \in {"slot", "record", "dispatch", "claim"}
                              => tick'[q].fire # 0
        /\ \A q \in Procs : tick'[q].at = "note" => tick'[q].skip # {}
    <3> HIDE DEF t
    <3> QED
      BY <1>0, <2>1, <2>2, TickTypes
  <2>4. beat' \in [Procs -> 0..MaxTime]
    BY <1>0, <2>2
  <2>5. CASE store' = s /\ Adopt(p, s) /\ UNCHANGED budget
    <3>1. s \in [cfg : Configs, next : 0..MaxTime, last : 0..MaxTime]
      <4>1. NextAfter(store.cfg, Now(p)) \in 0..MaxTime
        BY <1>0, NextInstant
      <4> QED
        BY <4>1
    <3> HIDE DEF t, s
    <3>2. armed' \in [Procs -> Arming]
      BY <1>0, <2>5, <3>1, AdoptTypes
    <3>3. store' \in [cfg : Configs, next : 0..MaxTime, last : 0..MaxTime]
      BY <2>5, <3>1
    <3> QED
      BY <1>1, <2>5, <2>3, <2>4, <3>2, <3>3 DEF DesktopClaims, Staged
  <2>6. CASE /\ Spend("faults")
             /\ armed' = [armed EXCEPT ![p].at = NextAfter(armed[p].cfg, Now(p))]
             /\ UNCHANGED store
    <3>1. armed[p].cfg \in Configs
      BY <1>0, <1>1 DEF DesktopClaims, DesktopDue, Arming
    <3>2. NextAfter(armed[p].cfg, Now(p)) \in 0..MaxTime
      BY <1>0, <3>1, NextInstant
    <3>3. armed' \in [Procs -> Arming]
      BY <1>0, <2>6, <3>2 DEF Arming
    <3>4. budget' \in [Bounds -> Nat]
      BY <2>6, SpendTypes DEF Bounds
    <3> HIDE DEF t, s
    <3> QED
      BY <1>1, <2>6, <2>3, <2>4, <3>3, <3>4 DEF DesktopClaims, Staged
  <2> QED
    BY <1>1, <2>5, <2>6 DEF DesktopClaims
<1>2. CASE DesktopTakes(p)
  <2>1. tick[p].fire \in Instants
    BY <1>0, <1>2, Constants DEF DesktopTakes, Ticking, Staged, Busy
  <2>2. PICK mine \in BOOLEAN :
          /\ Take(tick[p].fire, mine)
          /\ jobs' = IF mine THEN jobs \cup {NewJob(p, tick[p].fire, "desktop")} ELSE jobs
    BY <1>2 DEF DesktopTakes
  <2>3. NewJob(p, tick[p].fire, "desktop")
          \in [job : Job, at : {"wait", "run"}, began : 0..MaxTime]
    BY <1>0, <2>1, JobTypes
  <2>4. Idle \in Busy /\ Idle.at = "idle"
    BY Constants DEF Idle, Busy
  <2>5. jobs' \subseteq [job : Job, at : {"wait", "run"}, began : 0..MaxTime]
    BY <2>2, <2>3
  <2> QED
    BY <1>0, <1>2, <2>1, <2>2, <2>4, <2>5, TickTypes, TakeTypes DEF DesktopTakes, Staged
<1>3. CASE DesktopSaves(p)
  <2>1. armed' \in [Procs -> Arming]
    BY <1>0, <1>3, AdoptTypes DEF DesktopSaves
  <2>2. budget' \in [Bounds -> Nat]
    BY <1>3, SpendTypes DEF DesktopSaves, Bounds
  <2> QED
    BY <1>0, <1>3, <2>1, <2>2 DEF DesktopSaves, Staged
<1> QED
  BY <1>1, <1>2, <1>3 DEF DesktopStep

LEMMA LeavesTypes ==
  ASSUME TypeInv, NEW j \in jobs, NEW panics \in BOOLEAN, Leaves(j, panics)
  PROVE  /\ inFlight' \subseteq Servers
         /\ chase' \in [Procs -> Chase]
         /\ \A q \in Procs : chase'[q].at = "record" => chase'[q].todo # {}
<1> DEFINE p == j.job.p
<1>0. p \in Procs /\ chase[p] \in Chase /\ chase[p].todo \in SUBSET Instants
  BY DEF TypeInv, TypeOK, Job, Chase
<1>1. inFlight' \subseteq Servers
  BY DEF TypeInv, TypeOK, Leaves
<1>2. CASE chase' = chase
  BY <1>1, <1>2 DEF TypeInv, TypeOK, Staged
<1>3. ASSUME NEW todo \in SUBSET Instants,
             chase' = [chase EXCEPT ![p] = [at |-> "take", todo |-> todo]]
      PROVE  /\ chase' \in [Procs -> Chase]
             /\ \A q \in Procs : chase'[q].at = "record" => chase'[q].todo # {}
  <2> DEFINE c == [at |-> "take", todo |-> todo]
  <2>1. c \in Chase /\ c.at # "record"
    BY DEF Chase
  <2>2. chase' = [chase EXCEPT ![p] = c]
    BY <1>3
  <2> HIDE DEF c, p
  <2> QED
    BY <1>0, <2>1, <2>2, ChaseTypes
<1>4. CASE chase' = [chase EXCEPT ![p].at = "take"]
  <2>1. chase' = [chase EXCEPT ![p] = [at |-> "take", todo |-> chase[p].todo]]
    <3>1. [chase[p] EXCEPT !.at = "take"] = [at |-> "take", todo |-> chase[p].todo]
      BY <1>0 DEF Chase
    <3> HIDE DEF p
    <3> QED
      BY <1>0, <1>4, <3>1 DEF TypeInv, TypeOK
  <2> QED
    BY <1>0, <1>1, <1>3, <2>1
<1>5. CASE chase' = [chase EXCEPT ![p] = [at |-> "take", todo |-> {}]]
  <2>1. {} \in SUBSET Instants
    OBVIOUS
  <2> HIDE DEF p
  <2>2. /\ chase' \in [Procs -> Chase]
        /\ \A q \in Procs : chase'[q].at = "record" => chase'[q].todo # {}
    BY <1>3, <1>5, <2>1
  <2> QED
    BY <1>1, <2>2
<1> QED
  BY <1>2, <1>4, <1>5 DEF Leaves

LEMMA JobStepTypes ==
  ASSUME TypeInv, NEW j \in jobs, JobStep(j)
  PROVE  TypeInv'
<1> USE DEF TypeInv, TypeOK, shared, local, history
<1>0. /\ j \in [job : Job, at : {"wait", "run"}, began : 0..MaxTime]
      /\ j.job \in Job /\ j.job.p \in Procs /\ j.job.at \in Instants /\ j.began \in 0..MaxTime
      /\ clock \in 0..MaxTime
  BY DEF Job
<1>1. CASE RunStarts(j)
  <2>1. [j EXCEPT !.at = "run", !.began = clock]
          \in [job : Job, at : {"wait", "run"}, began : 0..MaxTime]
    BY <1>0
  <2>2. runs' \in [Instants -> Nat] /\ runlock' \subseteq Job
    BY <1>0, <1>1 DEF RunStarts
  <2>3. jobs' \subseteq [job : Job, at : {"wait", "run"}, began : 0..MaxTime]
    BY <1>1, <2>1 DEF RunStarts
  <2> QED
    BY <1>1, <2>2, <2>3 DEF RunStarts, Staged
<1>2. CASE RunRefused(j)
  BY <1>2, LeavesTypes DEF RunRefused, Staged
<1>3. CASE RunEnds(j)
  <2> DEFINE s == [store EXCEPT !.last = j.began,
                     !.next = ComputeNext(store.cfg, Now(j.job.p), j.began)]
  <2>1. CASE j.job.kind = "desktop"
    <3>1. s \in [cfg : Configs, next : 0..MaxTime, last : 0..MaxTime]
      <4>1. store.cfg \in Configs /\ Now(j.job.p) \in Int
        BY <1>0, Clocks
      <4>2. ComputeNext(store.cfg, Now(j.job.p), j.began) \in 0..MaxTime
        BY <1>0, <4>1, Calendars
      <4> QED
        BY <1>0, <4>2
    <3>2. store' = s /\ Adopt(j.job.p, s) /\ UNCHANGED <<inFlight, chase>>
      BY <1>3, <2>1 DEF RunEnds
    <3> HIDE DEF s
    <3>3. armed' \in [Procs -> Arming]
      BY <1>0, <3>1, <3>2, AdoptTypes
    <3> QED
      BY <1>3, <3>1, <3>2, <3>3 DEF RunEnds, Staged
  <2>2. CASE j.job.kind # "desktop"
    <3>1. PICK panics \in BOOLEAN :
            /\ store' = IF panics \/ RunsPlan THEN store ELSE [store EXCEPT !.last = clock]
            /\ Leaves(j, panics) /\ UNCHANGED armed
      BY <1>3, <2>2 DEF RunEnds
    <3>2. store' \in [cfg : Configs, next : 0..MaxTime, last : 0..MaxTime]
      BY <1>0, <3>1
    <3>3. /\ inFlight' \subseteq Servers
          /\ chase' \in [Procs -> Chase]
          /\ \A q \in Procs : chase'[q].at = "record" => chase'[q].todo # {}
      BY <3>1, LeavesTypes
    <3> QED
      BY <1>3, <3>1, <3>2, <3>3 DEF RunEnds, Staged
  <2> QED
    BY <2>1, <2>2
<1> QED
  BY <1>1, <1>2, <1>3 DEF JobStep

LEMMA WorldTypes ==
  ASSUME TypeInv,
         \/ \E c \in Configs : Edit(c)
         \/ \E p \in Procs : Boot(p) \/ Crash(p)
         \/ Elapse
  PROVE  TypeInv'
<1> USE DEF TypeInv, TypeOK, shared, local, history
<1>1. ASSUME NEW c \in Configs, Edit(c) PROVE TypeInv'
  <2>1. budget' \in [Bounds -> Nat]
    BY <1>1, SpendTypes DEF Edit, Bounds
  <2>2. store' \in [cfg : Configs, next : 0..MaxTime, last : 0..MaxTime]
    <3>1. 0 \in 0..MaxTime
      BY Constants
    <3>2. store' = [store EXCEPT !.cfg = c, !.next = 0]
      BY <1>1 DEF Edit
    <3>3. store' = [cfg |-> c, next |-> 0, last |-> store.last]
      BY <3>2
    <3> QED
      BY <3>1, <3>3
  <2>3. inForce' \in [Instants -> SUBSET Configs]
    BY <1>1 DEF Edit
  <2> QED
    BY <1>1, <2>1, <2>2, <2>3 DEF Edit, Staged
<1>2. ASSUME NEW p \in Procs, Boot(p) PROVE TypeInv'
  <2> DEFINE a == IF p \in Desktops
                  THEN [cfg |-> store.cfg, at |-> ComputeNext(store.cfg, Now(p), store.last)]
                  ELSE Unarmed
  <2>1. store.cfg \in Configs /\ store.last \in 0..MaxTime /\ Now(p) \in Int
    BY Clocks
  <2>2. a \in Arming
    <3>1. ComputeNext(store.cfg, Now(p), store.last) \in 0..MaxTime
      BY <2>1, Calendars
    <3> QED
      BY <2>1, <3>1, Constants DEF Arming, Unarmed
  <2>3. armed' = [armed EXCEPT ![p] = a] /\ up' = up \cup {p}
    BY <1>2 DEF Boot
  <2>4. beat' = [beat EXCEPT ![p] = clock]
    BY <1>2, Constants DEF Boot
  <2> HIDE DEF a
  <2>5. up' \subseteq Procs /\ armed' \in [Procs -> Arming] /\ beat' \in [Procs -> 0..MaxTime]
    BY <2>2, <2>3, <2>4
  <2>6. Staged'
    BY <1>2 DEF Boot, Staged
  <2>7. UNCHANGED <<clock, budget, shared, tick, inFlight, chase, jobs, took, stray, runs, inForce>>
    BY <1>2 DEF Boot
  <2> QED
    BY <2>4, <2>5, <2>6, <2>7
<1>3. ASSUME NEW p \in Procs, Crash(p) PROVE TypeInv'
  <2>1. /\ Idle \in Busy /\ Idle.at = "idle" /\ Off \in Chase /\ Off.at = "off"
        /\ Unarmed \in Arming
    BY Constants DEF Idle, Busy, Off, Chase, Unarmed, Arming
  <2>2. budget' \in [Bounds -> Nat]
    BY <1>3, SpendTypes DEF Crash, Bounds
  <2>3. tick' \in [Procs -> Busy] /\ chase' \in [Procs -> Chase] /\ armed' \in [Procs -> Arming]
    BY <1>3, <2>1 DEF Crash
  <2>4. Staged'
    BY <1>3, <2>1 DEF Crash, Staged
  <2>5. /\ turn' \in Procs \cup {None} /\ runlock' \subseteq Job /\ inFlight' \subseteq Servers
        /\ jobs' \subseteq [job : Job, at : {"wait", "run"}, began : 0..MaxTime]
        /\ up' \subseteq Procs
    BY <1>3 DEF Crash
  <2> QED
    BY <1>3, <2>2, <2>3, <2>4, <2>5 DEF Crash
<1>4. CASE Elapse
  <2>1. clock' \in 0..MaxTime
    BY <1>4, Constants DEF Elapse
  <2>2. inForce' \in [Instants -> SUBSET Configs]
    BY <1>4 DEF Elapse
  <2> QED
    BY <1>4, <2>1, <2>2 DEF Elapse, Staged
<1> QED
  BY <1>1, <1>2, <1>3, <1>4

LEMMA NextType == TypeInv /\ [Next]_vars => TypeInv'
<1> SUFFICES ASSUME TypeInv, [Next]_vars PROVE TypeInv'
  OBVIOUS
<1>1. CASE Next
  BY <1>1, TickStepsTypes, ChaseStepTypes, DesktopTypes, JobStepTypes, WorldTypes DEF Next
<1>2. CASE UNCHANGED vars
  BY <1>2 DEF vars, shared, local, history, TypeInv, TypeOK, Staged
<1> QED
  BY <1>1, <1>2

\* Every variable keeps its type, however many schedulers there are.
THEOREM TypeCorrect == Spec => []TypeOK
<1>1. Spec => []TypeInv
  BY InitType, NextType, PTL DEF Spec
<1>2. TypeInv => TypeOK
  BY DEF TypeInv
<1> QED
  BY <1>1, <1>2, PTL

(***************************************************************************)
(* Who has an occurrence in hand, past its claim and short of its run: a    *)
(* tick, a catch-up thread, or a firing that waits for the run lock.  There *)
(* is one at most, and none once the run has begun: that is why the claim   *)
(* has to be made before the record, and why nobody may hand an occurrence   *)
(* to two threads.                                                         *)
(***************************************************************************)
Ticks(d)   == {p \in Procs : tick[p].at \in {"record", "dispatch"} /\ tick[p].fire = d}
Chases(d)  == {p \in Procs : chase[p].at = "record" /\ Min(chase[p].todo) = d}
Waiting(d) == {j \in jobs : j.at = "wait" /\ j.job.at = d}
Hands(d)   == {<<"tick", p>> : p \in Ticks(d)} \cup {<<"chase", p>> : p \in Chases(d)}
                \cup {<<"job", j>> : j \in Waiting(d)}

Once(d) ==
  /\ \A x, y \in Hands(d) : x = y
  /\ Hands(d) # {} => runs[d] = 0 /\ d \in took
  /\ runs[d] > 0 => runs[d] = 1 /\ d \in took

OnceInv ==
  /\ TypeInv
  /\ \A d \in took : d <= through
  /\ \A d \in Instants \ stray : Once(d)

\* Every step is one of four, as far as this is concerned: it lets go of
\* occurrences or leaves them alone, claims one, hands one on, or runs one.
Still == UNCHANGED <<through, took, stray>> /\ budget'["faults"] <= budget["faults"]
Quiet ==
  /\ Still /\ UNCHANGED runs
  /\ \A e \in Instants : Hands(e)' \subseteq Hands(e)
Claims(d, mine, x) ==
  /\ Take(d, mine) /\ UNCHANGED runs
  /\ \A e \in Instants : Hands(e)' \subseteq Hands(e) \cup (IF mine /\ e = d THEN {x} ELSE {})
Moves(d, old, new) ==
  /\ Still /\ UNCHANGED runs
  /\ old \in Hands(d)
  /\ \A e \in Instants :
       Hands(e)' \subseteq IF e = d THEN (Hands(d) \ {old}) \cup {new} ELSE Hands(e)
Begins(d, x) ==
  /\ Still /\ runs' = [runs EXCEPT ![d] = @ + 1]
  /\ x \in Hands(d)
  /\ \A e \in Instants : Hands(e)' \subseteq IF e = d THEN Hands(d) \ {x} ELSE Hands(e)

StepKind ==
  \/ Quiet
  \/ \E d \in Instants, mine \in BOOLEAN : \E x : Claims(d, mine, x)
  \/ \E d \in Instants : \E old, new : Moves(d, old, new)
  \/ \E d \in Instants : \E x : Begins(d, x)

LEMMA FewerHands ==
  ASSUME NEW e, Ticks(e)' \subseteq Ticks(e), Chases(e)' \subseteq Chases(e),
         Waiting(e)' \subseteq Waiting(e)
  PROVE  Hands(e)' \subseteq Hands(e)
BY DEF Hands

LEMMA SpendStill ==
  ASSUME TypeOK, NEW what \in Bounds, Spend(what)
  PROVE  budget'["faults"] <= budget["faults"]
<1>1. "faults" \in Bounds /\ budget \in [Bounds -> Nat]
  BY DEF Bounds, TypeOK
<1> QED
  BY <1>1 DEF Spend

LEMMA RecordStill ==
  ASSUME TypeOK, NEW d, NEW v, Record(d, v)
  PROVE  budget'["faults"] <= budget["faults"]
<1>1. "faults" \in Bounds /\ budget["faults"] \in Nat
  BY DEF Bounds, TypeOK
<1> QED
  BY <1>1, SpendStill DEF Record

LEMMA QuietStep ==
  ASSUME Still, UNCHANGED runs,
         \A e \in Instants : /\ Ticks(e)' \subseteq Ticks(e)
                             /\ Chases(e)' \subseteq Chases(e)
                             /\ Waiting(e)' \subseteq Waiting(e)
  PROVE  Quiet
BY FewerHands DEF Quiet

\* A tick that goes on to a stage with nothing in hand, or stays where it is.
LEMMA TickLetsGo ==
  ASSUME TypeOK, NEW p \in Procs, NEW t, NEW e \in Instants, SetTick(p, t),
         t.at \notin {"record", "dispatch"}
  PROVE  Ticks(e)' \subseteq Ticks(e)
BY DEF TypeOK, Ticks, SetTick

LEMMA ChaseLetsGo ==
  ASSUME TypeOK, NEW p \in Procs, NEW c, NEW e \in Instants,
         chase' = [chase EXCEPT ![p] = c], c.at # "record"
  PROVE  Chases(e)' \subseteq Chases(e)
BY DEF TypeOK, Chases

LEMMA TickKinds ==
  ASSUME TypeInv, NEW p \in Servers, ServerTick(p)
  PROVE  StepKind
<1> USE DEF shared, local, history
<1>0. /\ TypeOK /\ p \in Procs /\ tick \in [Procs -> Busy] /\ tick[p] \in Busy
      /\ budget["faults"] <= budget["faults"]
  BY Constants DEF TypeInv, TypeOK, Bounds
<1>1. ASSUME UNCHANGED chase PROVE \A e \in Instants : Chases(e)' \subseteq Chases(e)
  BY <1>1 DEF Chases
<1>2. ASSUME UNCHANGED jobs PROVE \A e \in Instants : Waiting(e)' \subseteq Waiting(e)
  BY <1>2 DEF Waiting
<1>3. CASE TickOff(p)
  <2>1. \A e \in Instants : Ticks(e)' \subseteq Ticks(e)
    BY <1>3 DEF TickOff, Ticks
  <2> QED
    BY <1>0, <1>1, <1>2, <1>3, <2>1, QuietStep DEF TickOff, Still, StepKind
<1>4. CASE TickCron(p)
  <2>1. PICK t : SetTick(p, t) /\ t.at = "decide"
    BY <1>4 DEF TickCron
  <2>2. \A e \in Instants : Ticks(e)' \subseteq Ticks(e)
    BY <1>0, <2>1, TickLetsGo
  <2> QED
    BY <1>0, <1>1, <1>2, <1>4, <2>2, QuietStep DEF TickCron, Still, StepKind
<1>5. CASE TickInterval(p)
  <2> DEFINE slot == Slot(store.cfg, Now(p))
             t    == IF ArmedFor(p, "interval") /\ armed[p].at < slot
                     THEN [Idle EXCEPT !.at = "slot", !.fire = slot] ELSE Idle
  <2>1. SetTick(p, t) /\ t.at \in {"slot", "idle"}
    BY <1>5 DEF TickInterval, Idle
  <2> HIDE DEF t
  <2>2. \A e \in Instants : Ticks(e)' \subseteq Ticks(e)
    BY <1>0, <2>1, TickLetsGo
  <2> QED
    BY <1>0, <1>1, <1>2, <1>5, <2>2, QuietStep DEF TickInterval, Still, StepKind
<1>6. CASE DecideSkipped(p)
  <2> DEFINE d == Min(tick[p].skip)
  <2>1. PICK mine \in BOOLEAN :
          /\ Take(d, mine)
          /\ SetTick(p, IF mine THEN [tick[p] EXCEPT !.at = "note"]
                        ELSE [tick[p] EXCEPT !.skip = @ \ {d}])
    BY <1>6 DEF DecideSkipped
  <2>2. d \in Instants
    BY <1>0, <1>6, BusyTypes, LeastInstant DEF DecideSkipped
  <2> DEFINE t == IF mine THEN [tick[p] EXCEPT !.at = "note"]
                  ELSE [tick[p] EXCEPT !.skip = @ \ {d}]
  <2>3. t.at \notin {"record", "dispatch"} /\ SetTick(p, t)
    BY <1>0, <1>6, <2>1 DEF DecideSkipped, Ticking, Busy
  <2> HIDE DEF d, t
  <2>4. \A e \in Instants : Hands(e)' \subseteq Hands(e)
    BY <1>0, <1>1, <1>2, <1>6, <2>3, TickLetsGo, FewerHands DEF DecideSkipped
  <2>5. Claims(d, mine, 0)
    BY <1>6, <2>1, <2>4 DEF Claims, DecideSkipped
  <2> QED
    BY <2>2, <2>5 DEF StepKind
<1>7. CASE NoteSkipped(p)
  <2> DEFINE t == [tick[p] EXCEPT !.at = "decide", !.skip = @ \ {Min(tick[p].skip)}]
  <2>1. t.at = "decide" /\ SetTick(p, t)
    BY <1>0, <1>7 DEF NoteSkipped, Busy
  <2> HIDE DEF t
  <2>2. \A e \in Instants : Ticks(e)' \subseteq Ticks(e)
    BY <1>0, <2>1, TickLetsGo
  <2>3. Still
    BY <1>0, <1>7, RecordStill DEF NoteSkipped, Still
  <2> QED
    BY <1>1, <1>2, <1>7, <2>2, <2>3, QuietStep DEF NoteSkipped, StepKind
<1>8. CASE TakeTurn(p)
  <2> DEFINE c == [at |-> "take", todo |-> tick[p].run]
             t == [tick[p] EXCEPT !.run = {}]
  <2>1. t.at = "decide" /\ SetTick(p, t) /\ c.at = "take"
    BY <1>0, <1>8 DEF TakeTurn, Ticking, Busy
  <2>2. UNCHANGED chase \/ chase' = [chase EXCEPT ![p] = c]
    BY <1>8 DEF TakeTurn
  <2> HIDE DEF t, c
  <2>3. \A e \in Instants : Ticks(e)' \subseteq Ticks(e)
    BY <1>0, <2>1, TickLetsGo
  <2>4. \A e \in Instants : Chases(e)' \subseteq Chases(e)
    BY <1>0, <1>1, <2>1, <2>2, ChaseLetsGo
  <2> QED
    BY <1>0, <1>2, <1>8, <2>3, <2>4, QuietStep DEF TakeTurn, Still, StepKind
<1>9. CASE NothingToFire(p)
  <2>1. SetTick(p, Idle) /\ Idle.at = "idle"
    BY <1>9 DEF NothingToFire, Idle
  <2>2. \A e \in Instants : Ticks(e)' \subseteq Ticks(e)
    BY <1>0, <2>1, TickLetsGo
  <2> QED
    BY <1>0, <1>1, <1>2, <1>9, <2>2, QuietStep DEF NothingToFire, Still, StepKind
<1>10. CASE TakeArmed(p)
  <2> DEFINE d == tick[p].fire
  <2>1. d \in Instants
    BY <1>0, <1>10, Constants DEF TakeArmed, Ticking, TypeInv, Staged, Busy
  <2>2. PICK mine \in BOOLEAN :
          /\ Take(d, mine)
          /\ SetTick(p, IF ~mine THEN Idle
                        ELSE [tick[p] EXCEPT !.at = IF @ = "slot" THEN "dispatch" ELSE "record"])
    BY <1>10 DEF TakeArmed
  <2>3. ASSUME NEW e \in Instants
        PROVE  Ticks(e)' \subseteq Ticks(e) \cup (IF mine /\ e = d THEN {p} ELSE {})
    BY <1>0, <2>2 DEF Ticks, SetTick, Idle, Busy
  <2>4. \A e \in Instants : Hands(e)' \subseteq Hands(e) \cup
          (IF mine /\ e = d THEN {<<"tick", p>>} ELSE {})
    BY <1>1, <1>2, <1>10, <2>3 DEF Hands, TakeArmed
  <2>5. Claims(d, mine, <<"tick", p>>)
    BY <1>10, <2>2, <2>4 DEF Claims, TakeArmed
  <2> QED
    BY <2>1, <2>5 DEF StepKind
<1>11. CASE RecordFired(p)
  <2>1. \A e \in Instants : Ticks(e)' \subseteq Ticks(e)
    BY <1>0, <1>11 DEF RecordFired, Ticking, Ticks, SetTick, Busy
  <2>2. Still
    BY <1>0, <1>11, RecordStill DEF RecordFired, Still
  <2> QED
    BY <1>1, <1>2, <1>11, <2>1, <2>2, QuietStep DEF RecordFired, StepKind
<1>12. CASE Dispatch(p)
  <2> DEFINE d == tick[p].fire
             j == NewJob(p, d, "dispatch")
  <2>1. d \in Instants /\ p \in Ticks(d)
    BY <1>0, <1>12, Constants DEF Dispatch, Ticking, TypeInv, Staged, Busy, Ticks
  <2>2. j.at = "wait" /\ j.job.at = d
    BY DEF NewJob
  <2>3. \A e \in Instants : Ticks(e)' \subseteq Ticks(e) \ {p}
    BY <1>0, <1>12 DEF Dispatch, SetTick, Ticks, Idle
  <2>4. jobs' \subseteq jobs \cup {j}
    BY <1>12 DEF Dispatch
  <2> HIDE DEF j
  <2>5. \A e \in Instants :
          Waiting(e)' \subseteq Waiting(e) \cup (IF e = d THEN {j} ELSE {})
    BY <2>2, <2>4 DEF Waiting
  <2>6. \A e \in Instants :
          Hands(e)' \subseteq IF e = d THEN (Hands(d) \ {<<"tick", p>>}) \cup {<<"job", j>>}
                              ELSE Hands(e)
    <3> HIDE DEF d
    <3>1. \A e \in Instants : Chases(e)' \subseteq Chases(e)
      BY <1>1, <1>12 DEF Dispatch
    <3> QED
      BY <2>3, <2>5, <3>1 DEF Hands
  <2>7. Moves(d, <<"tick", p>>, <<"job", j>>)
    BY <1>0, <1>12, <2>1, <2>6 DEF Moves, Dispatch, Still, Hands
  <2> QED
    BY <2>1, <2>7 DEF StepKind
<1> QED
  BY <1>3, <1>4, <1>5, <1>6, <1>7, <1>8, <1>9, <1>10, <1>11, <1>12 DEF ServerTick

LEMMA ChaseKinds ==
  ASSUME TypeInv, NEW p \in Servers, ChaseStep(p)
  PROVE  StepKind
<1> USE DEF shared, local, history
<1> DEFINE todo == chase[p].todo
           d    == Min(todo)
<1>0. /\ TypeOK /\ p \in Procs /\ chase \in [Procs -> Chase] /\ chase[p] \in Chase
      /\ todo \in SUBSET Instants /\ budget["faults"] <= budget["faults"]
  BY Constants DEF TypeInv, TypeOK, Bounds, Chase
<1>1. todo # {} => d \in Instants
  BY <1>0, LeastInstant
<1>2. ASSUME UNCHANGED tick PROVE \A e \in Instants : Ticks(e)' \subseteq Ticks(e)
  BY <1>2 DEF Ticks
<1>3. CASE ChaseTake(p)
  <2>1. PICK mine \in BOOLEAN :
          /\ Take(d, mine)
          /\ IF mine THEN SetChase(p, "record", todo) ELSE SetChase(p, "take", todo \ {d})
    BY <1>3 DEF ChaseTake
  <2>2. d \in Instants
    BY <1>1, <1>3 DEF ChaseTake
  <2>3. ASSUME NEW e \in Instants
        PROVE  Chases(e)' \subseteq Chases(e) \cup (IF mine /\ e = d THEN {p} ELSE {})
    BY <1>0, <2>1 DEF Chases, SetChase
  <2>4. \A e \in Instants : Waiting(e)' \subseteq Waiting(e)
    BY <1>3 DEF ChaseTake, Waiting
  <2>5. \A e \in Instants : Hands(e)' \subseteq Hands(e) \cup
          (IF mine /\ e = d THEN {<<"chase", p>>} ELSE {})
    <3> HIDE DEF d
    <3>1. \A e \in Instants : Ticks(e)' \subseteq Ticks(e)
      BY <1>2, <1>3 DEF ChaseTake
    <3> QED
      BY <2>3, <2>4, <3>1 DEF Hands
  <2>6. Claims(d, mine, <<"chase", p>>)
    BY <1>3, <2>1, <2>5 DEF Claims, ChaseTake
  <2> QED
    BY <2>2, <2>6 DEF StepKind
<1>4. CASE ChaseRecord(p)
  <2> DEFINE j == NewJob(p, d, "chase")
  <2>1. d \in Instants /\ p \in Chases(d)
    BY <1>0, <1>1, <1>4 DEF ChaseRecord, TypeInv, Staged, Chases
  <2>2. j.at = "wait" /\ j.job.at = d
    BY DEF NewJob
  <2>3. \A e \in Instants : Chases(e)' \subseteq Chases(e) \ {p}
    BY <1>0, <1>4 DEF ChaseRecord, SetChase, Chases
  <2>4. jobs' = jobs \cup {j} /\ Record(d, "fired")
    BY <1>4 DEF ChaseRecord
  <2> HIDE DEF j, d
  <2>5. \A e \in Instants :
          Waiting(e)' \subseteq Waiting(e) \cup (IF e = d THEN {j} ELSE {})
    BY <2>2, <2>4 DEF Waiting
  <2>6. \A e \in Instants :
          Hands(e)' \subseteq IF e = d THEN (Hands(d) \ {<<"chase", p>>}) \cup {<<"job", j>>}
                              ELSE Hands(e)
    <3>1. \A e \in Instants : Ticks(e)' \subseteq Ticks(e)
      BY <1>2, <1>4 DEF ChaseRecord
    <3> QED
      BY <2>3, <2>5, <3>1 DEF Hands
  <2>7. Still
    BY <1>0, <1>4, <2>4, RecordStill DEF ChaseRecord, Still
  <2>8. Moves(d, <<"chase", p>>, <<"job", j>>)
    BY <1>4, <2>1, <2>6, <2>7 DEF Moves, ChaseRecord, Hands
  <2> QED
    BY <2>1, <2>8 DEF StepKind
<1>5. CASE ChaseEnds(p)
  <2> DEFINE c == [at |-> "off", todo |-> {}]
  <2>1. chase' = [chase EXCEPT ![p] = c] /\ c.at # "record"
    BY <1>5 DEF ChaseEnds, SetChase
  <2> HIDE DEF c
  <2>2. \A e \in Instants : Chases(e)' \subseteq Chases(e)
    BY <1>0, <2>1, ChaseLetsGo
  <2>3. \A e \in Instants : Waiting(e)' \subseteq Waiting(e)
    BY <1>5 DEF ChaseEnds, Waiting
  <2> QED
    BY <1>0, <1>2, <1>5, <2>2, <2>3, QuietStep DEF ChaseEnds, Still, StepKind
<1> QED
  BY <1>3, <1>4, <1>5 DEF ChaseStep

LEMMA DesktopKinds ==
  ASSUME TypeInv, NEW p \in Desktops, DesktopStep(p)
  PROVE  StepKind
<1> USE DEF shared, local, history
<1>0. /\ TypeOK /\ p \in Procs /\ tick \in [Procs -> Busy] /\ tick[p] \in Busy
      /\ budget["faults"] <= budget["faults"] /\ "faults" \in Bounds /\ "edits" \in Bounds
  BY Constants DEF TypeInv, TypeOK, Bounds
<1>1. ASSUME UNCHANGED chase PROVE \A e \in Instants : Chases(e)' \subseteq Chases(e)
  BY <1>1 DEF Chases
<1>2. ASSUME UNCHANGED jobs PROVE \A e \in Instants : Waiting(e)' \subseteq Waiting(e)
  BY <1>2 DEF Waiting
<1>3. CASE DesktopClaims(p)
  <2> DEFINE t == [Idle EXCEPT !.at = "claim", !.fire = armed[p].at]
  <2>1. SetTick(p, t) /\ t.at = "claim"
    BY <1>3 DEF DesktopClaims, Idle
  <2> HIDE DEF t
  <2>2. \A e \in Instants : Ticks(e)' \subseteq Ticks(e)
    BY <1>0, <2>1, TickLetsGo
  <2>3. Still
    BY <1>0, <1>3, SpendStill DEF DesktopClaims, Still
  <2> QED
    BY <1>1, <1>2, <1>3, <2>2, <2>3, QuietStep DEF DesktopClaims, StepKind
<1>4. CASE DesktopTakes(p)
  <2> DEFINE d == tick[p].fire
             j == NewJob(p, d, "desktop")
  <2>1. d \in Instants
    BY <1>0, <1>4, Constants DEF DesktopTakes, Ticking, TypeInv, Staged, Busy
  <2>2. PICK mine \in BOOLEAN :
          Take(d, mine) /\ jobs' = IF mine THEN jobs \cup {j} ELSE jobs
    BY <1>4 DEF DesktopTakes
  <2>3. j.job.at = d /\ SetTick(p, Idle) /\ Idle.at = "idle"
    BY <1>4 DEF NewJob, DesktopTakes, Idle
  <2>4. \A e \in Instants : Ticks(e)' \subseteq Ticks(e)
    BY <1>0, <2>3, TickLetsGo
  <2> HIDE DEF j, d
  <2>5. \A e \in Instants :
          Waiting(e)' \subseteq Waiting(e) \cup (IF mine /\ e = d THEN {j} ELSE {})
    BY <2>2, <2>3 DEF Waiting
  <2>6. \A e \in Instants : Hands(e)' \subseteq Hands(e) \cup
          (IF mine /\ e = d THEN {<<"job", j>>} ELSE {})
    <3>1. \A e \in Instants : Chases(e)' \subseteq Chases(e)
      BY <1>1, <1>4 DEF DesktopTakes
    <3> QED
      BY <2>4, <2>5, <3>1 DEF Hands
  <2>7. Claims(d, mine, <<"job", j>>)
    BY <1>4, <2>2, <2>6 DEF Claims, DesktopTakes
  <2> QED
    BY <2>1, <2>7 DEF StepKind
<1>5. CASE DesktopSaves(p)
  <2>1. Still
    BY <1>0, <1>5, SpendStill DEF DesktopSaves, Still
  <2>2. \A e \in Instants : Ticks(e)' \subseteq Ticks(e)
    BY <1>5 DEF DesktopSaves, Ticks
  <2> QED
    BY <1>1, <1>2, <1>5, <2>1, <2>2, QuietStep DEF DesktopSaves, StepKind
<1> QED
  BY <1>3, <1>4, <1>5 DEF DesktopStep

LEMMA LeavesLetsGo ==
  ASSUME TypeInv, NEW j \in jobs, NEW panics, Leaves(j, panics), NEW e \in Instants
  PROVE  Chases(e)' \subseteq Chases(e)
<1>1. chase \in [Procs -> Chase] /\ j.job.p \in Procs
  BY DEF TypeInv, TypeOK, Job
<1> QED
  BY <1>1 DEF Leaves, Chases, Chase

LEMMA JobKinds ==
  ASSUME TypeInv, NEW j \in jobs, JobStep(j)
  PROVE  StepKind
<1> USE DEF shared, local, history
<1>0. /\ j.job.at \in Instants /\ budget["faults"] <= budget["faults"]
      /\ j \in [job : Job, at : {"wait", "run"}, began : 0..MaxTime]
  BY DEF TypeInv, TypeOK, Bounds, Job
<1>1. ASSUME UNCHANGED tick PROVE \A e \in Instants : Ticks(e)' \subseteq Ticks(e)
  BY <1>1 DEF Ticks
<1>2. CASE RunStarts(j)
  <2> DEFINE d == j.job.at
             r == [j EXCEPT !.at = "run", !.began = clock]
  <2>1. r.at = "run" /\ jobs' = (jobs \ {j}) \cup {r}
    BY <1>0, <1>2 DEF RunStarts
  <2>2. j \in Waiting(d)
    BY <1>2 DEF RunStarts, Starts, Waiting
  <2> HIDE DEF r
  <2>3. \A e \in Instants : Waiting(e)' \subseteq Waiting(e) \ {j}
    BY <2>1 DEF Waiting
  <2>4. \A e \in Instants : Hands(e)' \subseteq IF e = d THEN Hands(d) \ {<<"job", j>>}
                                                ELSE Hands(e)
    <3>1. \A e \in Instants : Ticks(e)' \subseteq Ticks(e) /\ Chases(e)' \subseteq Chases(e)
      BY <1>1, <1>2 DEF RunStarts, Chases
    <3> HIDE DEF d
    <3> QED
      BY <2>3, <3>1 DEF Hands
  <2>5. Begins(d, <<"job", j>>)
    BY <1>0, <1>2, <2>2, <2>4 DEF Begins, RunStarts, Still, Hands
  <2> QED
    BY <1>0, <2>5 DEF StepKind
<1>3. CASE RunRefused(j)
  <2>1. \A e \in Instants : Waiting(e)' \subseteq Waiting(e)
    BY <1>3 DEF RunRefused, Waiting
  <2>2. \A e \in Instants : Chases(e)' \subseteq Chases(e)
    BY <1>3, LeavesLetsGo DEF RunRefused
  <2> QED
    BY <1>0, <1>1, <1>3, <2>1, <2>2, QuietStep DEF RunRefused, Still, StepKind
<1>4. CASE RunEnds(j)
  <2>1. \A e \in Instants : Waiting(e)' \subseteq Waiting(e)
    BY <1>4 DEF RunEnds, Waiting
  <2>2. \A e \in Instants : Chases(e)' \subseteq Chases(e)
    <3>1. CASE UNCHANGED chase
      BY <3>1 DEF Chases
    <3>2. CASE \E panics \in BOOLEAN : Leaves(j, panics)
      BY <3>2, LeavesLetsGo
    <3> QED
      BY <1>4, <3>1, <3>2 DEF RunEnds
  <2> QED
    BY <1>0, <1>1, <1>4, <2>1, <2>2, QuietStep DEF RunEnds, Still, StepKind
<1> QED
  BY <1>2, <1>3, <1>4 DEF JobStep

LEMMA WorldKinds ==
  ASSUME TypeInv,
         \/ \E c \in Configs : Edit(c)
         \/ \E p \in Procs : Boot(p) \/ Crash(p)
         \/ Elapse
  PROVE  StepKind
<1> USE DEF shared, local, history
<1>0. /\ TypeOK /\ budget["faults"] <= budget["faults"] /\ "crashes" \in Bounds
      /\ "edits" \in Bounds
  BY DEF TypeInv, TypeOK, Bounds
<1>1. ASSUME UNCHANGED <<tick, chase, jobs>>, NEW e \in Instants
      PROVE  /\ Ticks(e)' \subseteq Ticks(e) /\ Chases(e)' \subseteq Chases(e)
             /\ Waiting(e)' \subseteq Waiting(e)
  BY <1>1 DEF Ticks, Chases, Waiting
<1>2. ASSUME NEW c \in Configs, Edit(c) PROVE StepKind
  BY <1>0, <1>1, <1>2, QuietStep, SpendStill DEF Edit, Still, StepKind
<1>3. ASSUME NEW p \in Procs, Boot(p) PROVE StepKind
  BY <1>0, <1>1, <1>3, QuietStep DEF Boot, Still, StepKind
<1>4. ASSUME NEW p \in Procs, Crash(p) PROVE StepKind
  <2>1. SetTick(p, Idle) /\ Idle.at = "idle" /\ chase' = [chase EXCEPT ![p] = Off]
        /\ Off.at = "off"
    BY <1>4 DEF Crash, SetTick, Idle, Off
  <2>2. \A e \in Instants : Ticks(e)' \subseteq Ticks(e) /\ Chases(e)' \subseteq Chases(e)
    BY <1>0, <2>1, TickLetsGo, ChaseLetsGo
  <2>3. \A e \in Instants : Waiting(e)' \subseteq Waiting(e)
    BY <1>4 DEF Crash, Waiting
  <2> QED
    BY <1>0, <1>4, <2>2, <2>3, QuietStep, SpendStill DEF Crash, Still, StepKind
<1>5. CASE Elapse
  BY <1>0, <1>1, <1>5, QuietStep DEF Elapse, Still, StepKind
<1> QED
  BY <1>2, <1>3, <1>4, <1>5

LEMMA NextKinds == TypeInv /\ [Next]_vars => StepKind
<1> SUFFICES ASSUME TypeInv, [Next]_vars PROVE StepKind
  OBVIOUS
<1>1. CASE Next
  BY <1>1, TickKinds, ChaseKinds, DesktopKinds, JobKinds, WorldKinds DEF Next
<1>2. CASE UNCHANGED vars
  <2>1. budget["faults"] <= budget["faults"]
    BY DEF TypeInv, TypeOK, Bounds
  <2> QED
    BY <1>2, <2>1 DEF vars, shared, local, history, StepKind, Quiet, Still, Hands, Ticks, Chases,
                      Waiting
<1> QED
  BY <1>1, <1>2

(***************************************************************************)
(* The invariant is inductive.                                             *)
(***************************************************************************)
LEMMA InitOnce == Init => OnceInv
<1> SUFFICES ASSUME Init PROVE OnceInv
  OBVIOUS
<1>1. TypeInv
  BY InitType
<1>2. \A d \in Instants : Hands(d) = {}
  BY DEF Init, Hands, Ticks, Chases, Waiting, Idle, Off
<1>3. \A d \in took : d <= through
  BY Constants DEF Init
<1>4. ASSUME NEW d \in Instants PROVE Once(d)
  BY <1>2, Constants DEF Init, Once
<1> QED
  BY <1>1, <1>3, <1>4 DEF OnceInv

LEMMA NextOnce == OnceInv /\ [Next]_vars => OnceInv'
<1> SUFFICES ASSUME OnceInv, [Next]_vars PROVE OnceInv'
  OBVIOUS
<1>0. /\ TypeInv /\ TypeInv' /\ StepKind /\ runs \in [Instants -> Nat]
      /\ took \subseteq Instants /\ through \in Nat /\ Instants \subseteq Nat
  BY NextType, NextKinds, Constants DEF OnceInv, TypeInv, TypeOK
<1>1. CASE Quiet
  <2>1. \A d \in Instants \ stray : Once(d)'
    BY <1>1 DEF OnceInv, Once, Quiet, Still
  <2> QED
    BY <1>0, <1>1, <2>1 DEF OnceInv, Quiet, Still
<1>2. ASSUME NEW d \in Instants, NEW mine \in BOOLEAN, NEW x, Claims(d, mine, x)
      PROVE  OnceInv'
  <2>1. CASE mine = ~AlreadyTaken(d) /\ through' = (IF mine THEN d ELSE through)
             /\ took' = (IF mine THEN took \cup {d} ELSE took) /\ UNCHANGED stray
    <3>1. mine => d > through /\ d \notin took
      <4>1. mine => ~AlreadyTaken(d)
        BY <2>1, Zenon
      <4>2. ~(through >= d) => d > through /\ d \notin took
        BY <1>0 DEF OnceInv
      <4> QED
        BY <4>1, <4>2 DEF AlreadyTaken
    <3>2. \A e \in took' : e <= through'
      BY <1>0, <2>1, <3>1 DEF OnceInv
    <3>3. ASSUME NEW e \in Instants \ stray PROVE Once(e)'
      <4>1. Once(e) /\ runs' = runs /\ took \subseteq took'
        BY <1>2, <2>1 DEF OnceInv, Claims
      <4>2. CASE mine /\ e = d
        <5>1. Hands(e) = {} /\ runs[e] = 0 /\ e \in took'
          BY <1>0, <2>1, <3>1, <4>1, <4>2 DEF Once
        <5>2. Hands(e)' \subseteq {x}
          BY <1>2, <4>2, <5>1 DEF Claims
        <5> QED
          BY <4>1, <5>1, <5>2 DEF Once
      <4>3. CASE ~(mine /\ e = d)
        <5>1. Hands(e)' \subseteq Hands(e)
          BY <1>2, <4>3 DEF Claims
        <5> QED
          BY <4>1, <5>1 DEF Once
      <4> QED
        BY <4>2, <4>3
    <3> QED
      BY <1>0, <2>1, <3>2, <3>3 DEF OnceInv
  <2>2. CASE stray' = stray \cup {d} /\ UNCHANGED <<through, took>>
    <3>1. ASSUME NEW e \in Instants \ stray' PROVE Once(e)'
      <4>1. e # d /\ Once(e) /\ runs' = runs /\ took' = took
        BY <1>2, <2>2 DEF OnceInv, Claims
      <4>2. Hands(e)' \subseteq Hands(e)
        BY <1>2, <4>1 DEF Claims
      <4> QED
        BY <4>1, <4>2 DEF Once
    <3> QED
      BY <1>0, <2>2, <3>1 DEF OnceInv
  <2> QED
    BY <1>2, <2>1, <2>2 DEF Claims, Take
<1>3. ASSUME NEW d \in Instants, NEW old, NEW new, Moves(d, old, new) PROVE OnceInv'
  <2>1. ASSUME NEW e \in Instants \ stray PROVE Once(e)'
    <3>1. Once(e) /\ runs' = runs /\ took' = took
      BY <1>3 DEF OnceInv, Moves, Still
    <3>2. CASE e = d
      <4>1. Hands(e)' \subseteq {new} /\ Hands(e) # {}
        BY <1>3, <3>1, <3>2 DEF Moves, Once
      <4> QED
        BY <3>1, <4>1 DEF Once
    <3>3. CASE e # d
      <4>1. Hands(e)' \subseteq Hands(e)
        BY <1>3, <3>3 DEF Moves
      <4> QED
        BY <3>1, <4>1 DEF Once
    <3> QED
      BY <3>2, <3>3
  <2> QED
    BY <1>0, <1>3, <2>1 DEF OnceInv, Moves, Still
<1>4. ASSUME NEW d \in Instants, NEW x, Begins(d, x) PROVE OnceInv'
  <2>1. ASSUME NEW e \in Instants \ stray PROVE Once(e)'
    <3>1. Once(e) /\ took' = took
      BY <1>4 DEF OnceInv, Begins, Still
    <3>2. CASE e = d
      <4>1. Hands(e)' = {} /\ runs[e] = 0 /\ e \in took
        BY <1>4, <3>1, <3>2 DEF Begins, Once
      <4>2. runs'[e] = 1
        BY <1>0, <1>4, <3>2, <4>1 DEF Begins
      <4> QED
        BY <3>1, <4>1, <4>2 DEF Once
    <3>3. CASE e # d
      <4>1. Hands(e)' \subseteq Hands(e) /\ runs'[e] = runs[e]
        BY <1>0, <1>4, <3>3 DEF Begins
      <4> QED
        BY <3>1, <4>1 DEF Once
    <3> QED
      BY <3>2, <3>3
  <2> QED
    BY <1>0, <1>4, <2>1 DEF OnceInv, Begins, Still
<1> QED
  BY <1>0, <1>1, <1>2, <1>3, <1>4 DEF StepKind

LEMMA OnceInvariant == Spec => []OnceInv
BY InitOnce, NextOnce, PTL DEF Spec

\* An occurrence starts one run at most unless no claim on it could be made:
\* whatever crashes, is edited, is late or disagrees about the time, under every
\* policy, for schedules of pipelines and of plans.
THEOREM RunsAreOnce == Spec => []RunsOnce
<1>1. OnceInv => RunsOnce
  <2> SUFFICES ASSUME OnceInv, NEW d \in Instants \ stray PROVE runs[d] <= 1
    BY DEF RunsOnce
  <2>1. runs[d] \in Nat /\ (runs[d] > 0 => runs[d] = 1)
    BY DEF OnceInv, Once, TypeInv, TypeOK
  <2> QED
    BY <2>1
<1> QED
  BY <1>1, OnceInvariant, PTL

(***************************************************************************)
(* The claim keeps the promise of OnceInOrder as long as no claim returns   *)
(* an error.                                                               *)
(***************************************************************************)
NoStray == MaxFaults = 0 => stray = {} /\ budget["faults"] = 0

LEMMA StaysFaultless == TypeInv /\ NoStray /\ [Next]_vars => NoStray'
<1> SUFFICES ASSUME TypeInv, NoStray, [Next]_vars, MaxFaults = 0
             PROVE  stray' = {} /\ budget'["faults"] = 0
  BY DEF NoStray
<1>0. TypeInv' /\ StepKind /\ stray = {} /\ budget["faults"] = 0
  BY NextType, NextKinds DEF NoStray
<1>1. budget'["faults"] \in Nat
  BY <1>0 DEF TypeInv, TypeOK, Bounds
<1>2. CASE Still
  BY <1>0, <1>1, <1>2 DEF Still
<1>3. ASSUME NEW d, NEW mine, Take(d, mine) PROVE stray' = {} /\ budget'["faults"] = 0
  BY <1>0, <1>3 DEF Take, Spend
<1> QED
  BY <1>0, <1>2, <1>3 DEF StepKind, Quiet, Claims, Moves, Begins

LEMMA StepsKeepPromise ==
  ASSUME MaxFaults = 0, OnceInv, NoStray, [Next]_vars
  PROVE  [Promise!Next]_Status
<1>0. /\ TypeInv /\ StepKind /\ stray = {} /\ budget["faults"] = 0
      /\ runs \in [Instants -> Nat] /\ took \subseteq Instants
      /\ through \in Nat /\ Instants \subseteq Nat
  BY NextKinds, Constants DEF OnceInv, NoStray, TypeInv, TypeOK
<1>1. CASE UNCHANGED <<runs, took>>
  BY <1>1 DEF Status
<1>2. ASSUME NEW d \in Instants, NEW mine \in BOOLEAN, NEW x, Claims(d, mine, x)
      PROVE  [Promise!Next]_Status
  <2>1. /\ mine = ~AlreadyTaken(d) /\ took' = (IF mine THEN took \cup {d} ELSE took)
        /\ runs' = runs
    BY <1>0, <1>2 DEF Claims, Take, Spend
  <2>2. CASE ~mine
    BY <1>1, <2>1, <2>2
  <2>3. CASE mine
    <3>1. d > through /\ took' = took \cup {d}
      <4>1. ~AlreadyTaken(d) /\ took' = took \cup {d}
        BY <2>1, <2>3, Zenon
      <4> QED
        BY <1>0, <4>1 DEF AlreadyTaken
    <3>2. ASSUME NEW e \in Instants, e >= d PROVE e \notin took /\ runs[e] = 0
      <4>1. e \notin took /\ Once(e)
        BY <1>0, <3>1, <3>2 DEF OnceInv
      <4> QED
        BY <1>0, <4>1 DEF Once
    <3>3. \A e \in Instants : e >= d => Status[e] = "open"
      BY <3>2 DEF Status
    <3>4. Status' = [Status EXCEPT ![d] = "taken"]
      <4>1. d >= d
        BY <1>0
      <4>2. \A e \in Instants : Status'[e] = IF e = d THEN "taken" ELSE Status[e]
        BY <2>1, <3>1, <3>2, <4>1 DEF Status
      <4> QED
        BY <4>2 DEF Status
    <3> QED
      BY <3>3, <3>4 DEF Promise!Next, Promise!Take
  <2> QED
    BY <2>2, <2>3
<1>3. ASSUME NEW d \in Instants, NEW x, Begins(d, x) PROVE [Promise!Next]_Status
  <2>1. runs[d] = 0 /\ d \in took /\ took' = took
    BY <1>0, <1>3 DEF OnceInv, Once, Begins, Still
  <2>2. Status[d] = "taken"
    BY <2>1 DEF Status
  <2>3. \A e \in Instants : runs'[e] = IF e = d THEN 1 ELSE runs[e]
    BY <1>0, <1>3, <2>1 DEF Begins
  <2>4. Status' = [Status EXCEPT ![d] = "run"]
    <3>1. \A e \in Instants : Status'[e] = IF e = d THEN "run" ELSE Status[e]
      BY <2>1, <2>3 DEF Status
    <3> QED
      BY <3>1 DEF Status
  <2> QED
    BY <2>2, <2>4 DEF Promise!Next, Promise!Start
<1> QED
  BY <1>0, <1>1, <1>2, <1>3 DEF StepKind, Quiet, Moves, Still

\* The schedulers together implement OnceInOrder: occurrences are taken once and
\* in order, and only one that is taken is run, once.
THEOREM SchedulersKeepPromise ==
  ASSUME MaxFaults = 0
  PROVE  Spec => KeepsPromise
<1>1. Init => Promise!Init /\ NoStray
  <2> SUFFICES ASSUME Init PROVE Promise!Init /\ NoStray
    OBVIOUS
  <2>1. \A d \in Instants : Status[d] = IF d = Anchor THEN "run" ELSE "open"
    BY Constants DEF Init, Status
  <2>2. Status = [d \in Instants |-> IF d = Anchor THEN "run" ELSE "open"]
    BY <2>1 DEF Status
  <2>3. NoStray
    BY DEF Init, NoStray, Bounds
  <2> QED
    BY <2>2, <2>3 DEF Promise!Init
<1>2. Spec => []NoStray
  <2>1. OnceInv /\ NoStray /\ [Next]_vars => NoStray'
    BY StaysFaultless DEF OnceInv
  <2> QED
    BY <1>1, <2>1, OnceInvariant, PTL DEF Spec
<1>3. OnceInv /\ NoStray /\ [Next]_vars => [Promise!Next]_Status
  BY StepsKeepPromise
<1> QED
  BY <1>1, <1>2, <1>3, OnceInvariant, PTL DEF Spec, KeepsPromise, Promise!Spec

(***************************************************************************)
(* One run at a time, of a schedule that fires one pipeline.  A run holds   *)
(* the run lock from its first step to its last, its process's death        *)
(* included, and begins only when nobody holds it.                          *)
(***************************************************************************)
LockInv ==
  /\ \A j \in jobs : j.at = "run" => j.job \in runlock
  /\ \A j, k \in jobs : j.at = "run" /\ k.at = "run" => j = k

\* Most steps hand out firings that have not begun, or none.
LEMMA OnlyNewJobs ==
  ASSUME LockInv, UNCHANGED runlock, \A j \in jobs' \ jobs : j.at = "wait"
  PROVE  LockInv'
BY DEF LockInv

LEMMA NextLock ==
  ASSUME ~RunsPlan, LockInv, [Next]_vars
  PROVE  LockInv'
<1> DEFINE quiet == UNCHANGED runlock /\ \A j \in jobs' \ jobs : j.at = "wait"
<1>1. \A q, d, kind : NewJob(q, d, kind).at = "wait"
  BY DEF NewJob
<1>2. ASSUME NEW p \in Servers, ServerTick(p) PROVE quiet
  <2>1. CASE Dispatch(p)
    BY <1>1, <2>1 DEF Dispatch, shared
  <2>2. CASE TickOff(p) \/ TickCron(p) \/ TickInterval(p)
    BY <2>2 DEF TickOff, TickCron, TickInterval, shared
  <2>3. CASE DecideSkipped(p) \/ NoteSkipped(p) \/ TakeTurn(p) \/ NothingToFire(p)
    BY <2>3 DEF DecideSkipped, NoteSkipped, TakeTurn, NothingToFire, shared
  <2>4. CASE TakeArmed(p) \/ RecordFired(p)
    BY <2>4 DEF TakeArmed, RecordFired
  <2> QED
    BY <1>2, <2>1, <2>2, <2>3, <2>4 DEF ServerTick
<1>3. ASSUME NEW p \in Servers, ChaseStep(p) PROVE quiet
  <2>1. CASE ChaseTake(p) \/ ChaseEnds(p)
    BY <2>1 DEF ChaseTake, ChaseEnds
  <2>2. CASE ChaseRecord(p)
    BY <1>1, <2>2 DEF ChaseRecord
  <2> QED
    BY <1>3, <2>1, <2>2 DEF ChaseStep
<1>4. ASSUME NEW p \in Desktops, DesktopStep(p) PROVE quiet
  <2>1. CASE DesktopClaims(p) \/ DesktopSaves(p)
    BY <2>1 DEF DesktopClaims, DesktopSaves, shared
  <2>2. CASE DesktopTakes(p)
    BY <1>1, <2>2 DEF DesktopTakes
  <2> QED
    BY <1>4, <2>1, <2>2 DEF DesktopStep
<1>5. ASSUME NEW j \in jobs, RunStarts(j) PROVE LockInv'
  <2> DEFINE new == [j EXCEPT !.at = "run", !.began = clock]
  <2>1. runlock = {} /\ runlock' = {j.job} /\ jobs' = (jobs \ {j}) \cup {new}
    BY <1>5 DEF RunStarts, Starts, UsesLock
  <2>2. \A k \in jobs : k.at # "run"
    BY <2>1 DEF LockInv
  <2>3. new.at = "run" => new.job = j.job
    OBVIOUS
  <2> HIDE DEF new
  <2> QED
    BY <2>1, <2>2, <2>3 DEF LockInv
<1>6. ASSUME NEW j \in jobs, RunRefused(j) PROVE quiet
  BY <1>6 DEF RunRefused, shared
<1>7. ASSUME NEW j \in jobs, RunEnds(j) PROVE LockInv'
  <2>1. j.at = "run" /\ jobs' = jobs \ {j}
    BY <1>7 DEF RunEnds
  <2>2. \A k \in jobs' : k.at # "run"
    BY <2>1 DEF LockInv
  <2> QED
    BY <2>2 DEF LockInv
<1>8. ASSUME NEW p \in Procs, Crash(p) PROVE LockInv'
  BY <1>8 DEF Crash, LockInv
<1>9. ASSUME (\E c \in Configs : Edit(c)) \/ (\E p \in Procs : Boot(p)) \/ Elapse PROVE quiet
  BY <1>9 DEF Edit, Boot, Elapse, shared, local
<1>10. UNCHANGED vars => quiet
  BY DEF vars, shared, local
<1>11. quiet => LockInv'
  BY OnlyNewJobs
<1> HIDE DEF quiet
<1> QED
  BY <1>2, <1>3, <1>4, <1>5, <1>6, <1>7, <1>8, <1>9, <1>10, <1>11 DEF Next, JobStep

\* Two runs of one pipeline are never under way together: whatever servers,
\* catch-ups and desktops start, and whichever of them dies.  (A schedule that
\* fires a plan takes no run lock, and two firings of it can overlap.)
THEOREM PipelineRunsAlone ==
  ASSUME ~RunsPlan
  PROVE  Spec => []OneRunAtATime
<1>1. Init => LockInv
  BY DEF Init, LockInv
<1>2. LockInv /\ [Next]_vars => LockInv'
  BY NextLock
<1>3. LockInv => OneRunAtATime
  <2> SUFFICES ASSUME LockInv PROVE OneRunAtATime
    OBVIOUS
  <2> DEFINE S == {j \in jobs : j.at = "run"}
  <2>1. CASE S = {}
    BY <2>1, FS_EmptySet DEF OneRunAtATime
  <2>2. CASE S # {}
    <3>1. PICK j : S = {j}
      BY <2>2 DEF LockInv
    <3>2. Cardinality(S) = 1
      BY <3>1, FS_Singleton
    <3> QED
      BY <3>2 DEF OneRunAtATime
  <2> QED
    BY <2>1, <2>2
<1> QED
  BY <1>1, <1>2, <1>3, PTL DEF Spec

(***************************************************************************)
(* One catch-up at a time.  Whoever has a catch-up thread has the turn, and *)
(* while a firing of it is under way, the thread waits for it.              *)
(***************************************************************************)
TurnInv ==
  /\ TypeOK
  /\ \A p \in Procs : chase[p].at # "off" => turn = p
  /\ \A j \in jobs : j.job.kind = "chase" => chase[j.job.p].at = "run"
  /\ \A j, k \in jobs : j.job.kind = "chase" /\ k.job.kind = "chase" => j = k

LEMMA JobOwner ==
  ASSUME TypeOK, NEW j \in jobs
  PROVE  j.job.p \in Procs
BY DEF TypeOK, Job

\* Steps that are no business of a catch-up.
LEMMA OtherBusiness ==
  ASSUME TurnInv, TypeOK', UNCHANGED <<turn, chase>>,
         \A j \in jobs' \ jobs : j.job.kind # "chase"
  PROVE  TurnInv'
BY DEF TurnInv

LEMMA JobMade ==
  ASSUME NEW p, NEW d, NEW kind
  PROVE  NewJob(p, d, kind).job.p = p /\ NewJob(p, d, kind).job.kind = kind
BY DEF NewJob

LEMMA NextTurn ==
  ASSUME TurnInv, TypeOK', [Next]_vars
  PROVE  TurnInv'
<1> DEFINE other == /\ UNCHANGED <<turn, chase>>
                    /\ \A j \in jobs' \ jobs : j.job.kind # "chase"
<1>0. /\ None \notin Procs /\ Servers \subseteq Procs
      /\ chase \in [Procs -> Chase] /\ \A j \in jobs : j.job.p \in Procs
  BY ProcAssumption, JobOwner DEF Procs, TurnInv, TypeOK
<1>1. ASSUME NEW p \in Servers, TakeTurn(p) PROVE TurnInv'
  <2>1. CASE UNCHANGED <<turn, chase>>
    BY <1>1, <2>1, OtherBusiness DEF TakeTurn
  <2>2. CASE ~UNCHANGED <<turn, chase>>
    <3>1. /\ turn = None /\ turn' = p /\ jobs' = jobs
          /\ chase' = [chase EXCEPT ![p] = [at |-> "take", todo |-> tick[p].run]]
      BY <1>1, <2>2 DEF TakeTurn
    <3>2. (\A q \in Procs : chase[q].at = "off") /\ \A j \in jobs : j.job.kind # "chase"
      BY <1>0, <3>1 DEF TurnInv
    <3>3. \A q \in Procs \ {p} : chase'[q] = chase[q]
      BY <1>0, <3>1
    <3> QED
      BY <3>1, <3>2, <3>3 DEF TurnInv
  <2> QED
    BY <2>1, <2>2
<1>2. ASSUME NEW p \in Servers, ServerTick(p), ~TakeTurn(p) PROVE other
  <2>1. CASE Dispatch(p)
    <3> DEFINE new == NewJob(p, tick[p].fire, "dispatch")
    <3>1. new.job.kind # "chase"
      BY JobMade
    <3>2. UNCHANGED <<turn, chase>> /\ jobs' \subseteq jobs \cup {new}
      BY <2>1 DEF Dispatch, shared
    <3> HIDE DEF new
    <3> QED
      BY <3>1, <3>2
  <2>2. CASE TickOff(p) \/ TickCron(p) \/ TickInterval(p)
    BY <2>2 DEF TickOff, TickCron, TickInterval, shared
  <2>3. CASE DecideSkipped(p) \/ NoteSkipped(p) \/ NothingToFire(p)
    BY <2>3 DEF DecideSkipped, NoteSkipped, NothingToFire, shared
  <2>4. CASE TakeArmed(p) \/ RecordFired(p)
    BY <2>4 DEF TakeArmed, RecordFired
  <2> QED
    BY <1>2, <2>1, <2>2, <2>3, <2>4 DEF ServerTick
<1>3. ASSUME NEW p \in Servers, ChaseStep(p) PROVE TurnInv'
  <2>1. CASE ChaseTake(p)
    <3>1. PICK todo : \E stage \in {"take", "record"} :
            chase' = [chase EXCEPT ![p] = [at |-> stage, todo |-> todo]]
      BY <2>1 DEF ChaseTake, SetChase
    <3>2. chase[p].at = "take" /\ chase'[p].at # "off" /\ turn' = turn /\ jobs' = jobs
      BY <1>0, <2>1, <3>1 DEF ChaseTake
    <3>3. \A q \in Procs \ {p} : chase'[q] = chase[q]
      BY <1>0, <3>1
    <3>4. turn = p
      BY <1>0, <3>2 DEF TurnInv
    <3> QED
      BY <3>2, <3>3, <3>4, <1>0 DEF TurnInv
  <2>2. CASE ChaseRecord(p)
    <3> DEFINE new == NewJob(p, Min(chase[p].todo), "chase")
    <3>1. /\ chase[p].at = "record" /\ jobs' = jobs \cup {new} /\ turn' = turn
          /\ chase' = [chase EXCEPT ![p] = [at |-> "run", todo |-> chase[p].todo \ {Min(chase[p].todo)}]]
      BY <2>2 DEF ChaseRecord, SetChase
    <3>2. chase'[p].at = "run" /\ \A q \in Procs \ {p} : chase'[q] = chase[q]
      BY <1>0, <3>1
    <3>3. new.job.p = p
      BY JobMade
    <3>5. turn = p
      BY <1>0, <3>1 DEF TurnInv
    <3>4. \A j \in jobs : j.job.kind # "chase"
      BY <1>0, <3>1, <3>5 DEF TurnInv
    <3> HIDE DEF new
    <3> QED
      BY <1>0, <3>1, <3>2, <3>3, <3>4, <3>5 DEF TurnInv
  <2>3. CASE ChaseEnds(p)
    <3>1. /\ chase[p].at = "take" /\ jobs' = jobs
          /\ chase' = [chase EXCEPT ![p] = [at |-> "off", todo |-> {}]]
      BY <2>3 DEF ChaseEnds, SetChase
    <3>2. turn = p
      BY <1>0, <3>1 DEF TurnInv
    <3>3. chase'[p].at = "off" /\ \A q \in Procs \ {p} : chase'[q] = chase[q]
      BY <1>0, <3>1
    <3> QED
      BY <1>0, <3>1, <3>2, <3>3 DEF TurnInv
  <2> QED
    BY <1>3, <2>1, <2>2, <2>3 DEF ChaseStep
<1>4. ASSUME NEW p \in Desktops, DesktopStep(p) PROVE other
  <2>1. CASE DesktopClaims(p) \/ DesktopSaves(p)
    BY <2>1 DEF DesktopClaims, DesktopSaves, shared
  <2>2. CASE DesktopTakes(p)
    <3> DEFINE new == NewJob(p, tick[p].fire, "desktop")
    <3>1. new.job.kind # "chase"
      BY JobMade
    <3>2. UNCHANGED <<turn, chase>> /\ jobs' \subseteq jobs \cup {new}
      BY <2>2 DEF DesktopTakes
    <3> HIDE DEF new
    <3> QED
      BY <3>1, <3>2
  <2> QED
    BY <1>4, <2>1, <2>2 DEF DesktopStep
<1>5. ASSUME NEW j \in jobs, RunStarts(j) PROVE TurnInv'
  <2> DEFINE new == [j EXCEPT !.at = "run", !.began = clock]
  <2>1. jobs' = (jobs \ {j}) \cup {new} /\ UNCHANGED <<turn, chase>>
    BY <1>5 DEF RunStarts
  <2>2. new.job = j.job
    BY DEF TurnInv, TypeOK
  <2> HIDE DEF new
  <2> QED
    BY <2>1, <2>2 DEF TurnInv
<1>6. ASSUME NEW j \in jobs, RunRefused(j) \/ RunEnds(j) PROVE TurnInv'
  <2>1. jobs' = jobs \ {j} /\ turn' = turn
    BY <1>6 DEF RunRefused, RunEnds, shared
  <2>2. ASSUME j.job.kind # "chase" PROVE chase' = chase
    <3>1. CASE RunRefused(j)
      BY <2>2, <3>1 DEF RunRefused, Leaves
    <3>2. CASE RunEnds(j) /\ j.job.kind = "desktop"
      BY <3>2 DEF RunEnds
    <3>3. CASE RunEnds(j) /\ j.job.kind # "desktop"
      <4>1. PICK panics \in BOOLEAN : Leaves(j, panics)
        BY <3>3 DEF RunEnds
      <4> QED
        BY <2>2, <4>1 DEF Leaves
    <3> QED
      BY <1>6, <3>1, <3>2, <3>3
  <2>3. CASE j.job.kind # "chase"
    BY <2>1, <2>2, <2>3, OtherBusiness
  <2>4. CASE j.job.kind = "chase"
    <3>1. PICK next : chase' = [chase EXCEPT ![j.job.p] = next]
      BY <1>6, <2>4 DEF RunRefused, RunEnds, Leaves
    <3>2. turn = j.job.p /\ (\A k \in jobs' : k.job.kind # "chase")
      BY <1>0, <2>1, <2>4 DEF TurnInv
    <3>3. \A q \in Procs \ {j.job.p} : chase'[q] = chase[q]
      BY <1>0, <3>1
    <3> QED
      BY <1>0, <2>1, <3>2, <3>3 DEF TurnInv
  <2> QED
    BY <2>3, <2>4
<1>7. ASSUME NEW p \in Procs, Crash(p) PROVE TurnInv'
  <2>1. /\ jobs' = {j \in jobs : j.job.p # p} /\ turn' = IF turn = p THEN None ELSE turn
        /\ chase' = [chase EXCEPT ![p] = Off]
    BY <1>7 DEF Crash
  <2>2. chase'[p].at = "off" /\ \A q \in Procs \ {p} : chase'[q] = chase[q]
    BY <1>0, <2>1 DEF Off
  <2> QED
    BY <1>0, <2>1, <2>2 DEF TurnInv
<1>8. ASSUME (\E c \in Configs : Edit(c)) \/ (\E p \in Procs : Boot(p)) \/ Elapse PROVE other
  BY <1>8 DEF Edit, Boot, Elapse, shared, local
<1>9. UNCHANGED vars => other
  BY DEF vars, shared, local
<1>10. other => TurnInv'
  BY OtherBusiness
<1> HIDE DEF other
<1> QED
  BY <1>1, <1>2, <1>3, <1>4, <1>5, <1>6, <1>7, <1>8, <1>9, <1>10 DEF Next, JobStep

\* Catch-ups never meet, so that none is turned away by the run of another with
\* its occurrence already claimed.
THEOREM CatchUpsTakeTurns == Spec => []OneCatchUp
<1>1. Init => TurnInv
  <2>1. Init => TypeOK
    BY InitType DEF TypeInv
  <2> QED
    BY <2>1 DEF Init, TurnInv, Off
<1>2. TypeOK' /\ TurnInv /\ [Next]_vars => TurnInv'
  BY NextTurn
<1>3. TurnInv => OneCatchUp
  <2> SUFFICES ASSUME TurnInv PROVE OneCatchUp
    OBVIOUS
  <2> DEFINE S == {j \in jobs : j.job.kind = "chase"}
  <2>1. CASE S = {}
    BY <2>1, FS_EmptySet DEF OneCatchUp
  <2>2. CASE S # {}
    <3>1. PICK j : S = {j}
      BY <2>2 DEF TurnInv
    <3>2. Cardinality(S) = 1
      BY <3>1, FS_Singleton
    <3> QED
      BY <3>2 DEF OneCatchUp
  <2> QED
    BY <2>1, <2>2
<1> QED
  BY <1>1, <1>2, <1>3, TypeCorrect, PTL DEF Spec

-----------------------------------------------------------------------------
(***************************************************************************)
(* Who is about to put an occurrence on record: a tick that has taken one   *)
(* the policy skips, a tick that has taken the armed one, a catch-up thread *)
(* that has taken an overdue one.  There is one pen at most for each, and    *)
(* none once a line is written: that is why even a skip has to be claimed.  *)
(***************************************************************************)
Notes(d) == {p \in Procs : tick[p].at = "note" /\ Min(tick[p].skip) = d}
Signs(d) == {p \in Procs : tick[p].at = "record" /\ tick[p].fire = d}
Pens(d)  == {<<"note", p>> : p \in Notes(d)} \cup {<<"sign", p>> : p \in Signs(d)}
              \cup {<<"chase", p>> : p \in Chases(d)}
Lines(d) == ledger[d]["fired"] + ledger[d]["skipped"]

Signed(d) ==
  /\ \A x, y \in Pens(d) : x = y
  /\ Pens(d) # {} => Lines(d) = 0 /\ d \in took
  /\ Lines(d) > 0 => Lines(d) = 1 /\ d \in took

OutcomeInv ==
  /\ OnceInv
  /\ \A d \in Instants \ stray : Signed(d)

\* Every step is one of three, as far as this is concerned: it puts pens down or
\* leaves them alone, claims an occurrence, or writes (or fails to).
Unclaimed == UNCHANGED <<through, took, stray>>
Idles ==
  /\ Unclaimed /\ UNCHANGED ledger
  /\ \A e \in Instants : Pens(e)' \subseteq Pens(e)
PicksUp(d, mine, x) ==
  /\ Take(d, mine) /\ UNCHANGED ledger
  /\ \A e \in Instants : Pens(e)' \subseteq Pens(e) \cup (IF mine /\ e = d THEN {x} ELSE {})
Writes(d, x, v) ==
  /\ Unclaimed /\ Record(d, v)
  /\ x \in Pens(d)
  /\ \A e \in Instants : Pens(e)' \subseteq IF e = d THEN Pens(d) \ {x} ELSE Pens(e)

PenKind ==
  \/ Idles
  \/ \E d \in Instants, mine \in BOOLEAN : \E x : PicksUp(d, mine, x)
  \/ \E d \in Instants, v \in Decisions : \E x : Writes(d, x, v)

LEMMA TicksPutDown ==
  ASSUME TypeOK, NEW e,
         \/ UNCHANGED tick
         \/ \E p \in Procs : \E t : SetTick(p, t) /\ t.at \notin {"note", "record"}
  PROVE  Notes(e)' \subseteq Notes(e) /\ Signs(e)' \subseteq Signs(e)
<1>1. CASE UNCHANGED tick
  BY <1>1 DEF Notes, Signs
<1>2. ASSUME NEW p \in Procs, NEW t, SetTick(p, t), t.at \notin {"note", "record"}
      PROVE  Notes(e)' \subseteq Notes(e) /\ Signs(e)' \subseteq Signs(e)
  BY <1>2 DEF TypeOK, Notes, Signs, SetTick
<1> QED
  BY <1>1, <1>2

LEMMA ChasesPutDown ==
  ASSUME TypeOK, NEW e \in Instants,
         \/ UNCHANGED chase
         \/ \E p \in Procs : \E c : chase' = [chase EXCEPT ![p] = c] /\ c.at # "record"
  PROVE  Chases(e)' \subseteq Chases(e)
<1>1. CASE UNCHANGED chase
  BY <1>1 DEF Chases
<1> QED
  BY <1>1, ChaseLetsGo

LEMMA PutDown ==
  ASSUME Unclaimed, UNCHANGED ledger,
         \A e \in Instants : /\ Notes(e)' \subseteq Notes(e) /\ Signs(e)' \subseteq Signs(e)
                             /\ Chases(e)' \subseteq Chases(e)
  PROVE  PenKind
BY DEF PenKind, Idles, Pens

LEMMA TickPens ==
  ASSUME TypeInv, NEW p \in Servers, ServerTick(p)
  PROVE  PenKind
<1> USE DEF shared, local, history
<1>0. /\ TypeOK /\ p \in Procs /\ tick \in [Procs -> Busy] /\ tick[p] \in Busy
  BY Constants DEF TypeInv, TypeOK
<1>1. ASSUME UNCHANGED chase PROVE \A e \in Instants : Chases(e)' \subseteq Chases(e)
  BY <1>1 DEF Chases
<1>2. CASE TickOff(p)
  BY <1>0, <1>1, <1>2, TicksPutDown, PutDown DEF TickOff, Unclaimed
<1>3. CASE TickCron(p)
  <2>1. PICK t : SetTick(p, t) /\ t.at = "decide"
    BY <1>3 DEF TickCron
  <2>2. \A e \in Instants : Notes(e)' \subseteq Notes(e) /\ Signs(e)' \subseteq Signs(e)
    BY <1>0, <2>1, TicksPutDown
  <2> QED
    BY <1>1, <1>3, <2>2, PutDown DEF TickCron, Unclaimed
<1>4. CASE TickInterval(p)
  <2> DEFINE slot == Slot(store.cfg, Now(p))
             t    == IF ArmedFor(p, "interval") /\ armed[p].at < slot
                     THEN [Idle EXCEPT !.at = "slot", !.fire = slot] ELSE Idle
  <2>1. SetTick(p, t) /\ t.at \in {"slot", "idle"}
    BY <1>4 DEF TickInterval, Idle
  <2> HIDE DEF t
  <2>2. \A e \in Instants : Notes(e)' \subseteq Notes(e) /\ Signs(e)' \subseteq Signs(e)
    BY <1>0, <2>1, TicksPutDown
  <2> QED
    BY <1>1, <1>4, <2>2, PutDown DEF TickInterval, Unclaimed
<1>5. CASE DecideSkipped(p)
  <2> DEFINE d == Min(tick[p].skip)
  <2>1. PICK mine \in BOOLEAN :
          /\ Take(d, mine)
          /\ SetTick(p, IF mine THEN [tick[p] EXCEPT !.at = "note"]
                        ELSE [tick[p] EXCEPT !.skip = @ \ {d}])
    BY <1>5 DEF DecideSkipped
  <2>2. d \in Instants
    BY <1>0, <1>5, BusyTypes, LeastInstant DEF DecideSkipped
  <2>3. ASSUME NEW e \in Instants
        PROVE  /\ Notes(e)' \subseteq Notes(e) \cup (IF mine /\ e = d THEN {p} ELSE {})
               /\ Signs(e)' \subseteq Signs(e)
    BY <1>0, <1>5, <2>1 DEF DecideSkipped, Ticking, Notes, Signs, SetTick, Busy
  <2>4. \A e \in Instants : Pens(e)' \subseteq Pens(e) \cup
          (IF mine /\ e = d THEN {<<"note", p>>} ELSE {})
    <3> HIDE DEF d
    <3>1. \A e \in Instants : Chases(e)' \subseteq Chases(e)
      BY <1>1, <1>5 DEF DecideSkipped
    <3> QED
      BY <2>3, <3>1 DEF Pens
  <2>5. PicksUp(d, mine, <<"note", p>>)
    BY <1>5, <2>1, <2>4 DEF PicksUp, DecideSkipped
  <2> QED
    BY <2>2, <2>5 DEF PenKind
<1>6. CASE NoteSkipped(p)
  <2> DEFINE d == Min(tick[p].skip)
  <2>1. d \in Instants /\ p \in Notes(d)
    <3>1. tick[p].skip \in SUBSET Instants /\ tick[p].skip # {}
      BY <1>0, <1>6 DEF NoteSkipped, Ticking, TypeInv, Staged, Busy
    <3> QED
      BY <1>0, <1>6, <3>1, LeastInstant DEF NoteSkipped, Ticking, Notes
  <2>2. SetTick(p, [tick[p] EXCEPT !.at = "decide", !.skip = @ \ {d}]) /\ Record(d, "skipped")
    BY <1>6 DEF NoteSkipped
  <2> HIDE DEF d
  <2>3. \A e \in Instants : Notes(e)' \subseteq Notes(e) \ {p} /\ Signs(e)' \subseteq Signs(e)
    BY <1>0, <2>2 DEF Notes, Signs, SetTick, Busy
  <2>4. \A e \in Instants :
          Pens(e)' \subseteq IF e = d THEN Pens(d) \ {<<"note", p>>} ELSE Pens(e)
    <3>1. \A e \in Instants : Chases(e)' \subseteq Chases(e)
      BY <1>1, <1>6 DEF NoteSkipped
    <3> QED
      BY <2>3, <3>1 DEF Pens
  <2>5. Writes(d, <<"note", p>>, "skipped")
    BY <1>6, <2>1, <2>2, <2>4 DEF Writes, Unclaimed, NoteSkipped, Pens
  <2> QED
    BY <2>1, <2>5 DEF PenKind, Decisions
<1>7. CASE TakeTurn(p)
  <2> DEFINE c == [at |-> "take", todo |-> tick[p].run]
             t == [tick[p] EXCEPT !.run = {}]
  <2>1. t.at = "decide" /\ SetTick(p, t) /\ c.at = "take"
    BY <1>0, <1>7 DEF TakeTurn, Ticking, Busy
  <2>2. UNCHANGED chase \/ chase' = [chase EXCEPT ![p] = c]
    BY <1>7 DEF TakeTurn
  <2> HIDE DEF t, c
  <2>3. \A e \in Instants : Notes(e)' \subseteq Notes(e) /\ Signs(e)' \subseteq Signs(e)
    BY <1>0, <2>1, TicksPutDown
  <2>4. \A e \in Instants : Chases(e)' \subseteq Chases(e)
    BY <1>0, <2>1, <2>2, ChasesPutDown
  <2> QED
    BY <1>7, <2>3, <2>4, PutDown DEF TakeTurn, Unclaimed
<1>8. CASE NothingToFire(p)
  <2>1. SetTick(p, Idle) /\ Idle.at = "idle"
    BY <1>8 DEF NothingToFire, Idle
  <2>2. \A e \in Instants : Notes(e)' \subseteq Notes(e) /\ Signs(e)' \subseteq Signs(e)
    BY <1>0, <2>1, TicksPutDown
  <2> QED
    BY <1>1, <1>8, <2>2, PutDown DEF NothingToFire, Unclaimed
<1>9. CASE TakeArmed(p)
  <2> DEFINE d == tick[p].fire
  <2>1. d \in Instants
    BY <1>0, <1>9, Constants DEF TakeArmed, Ticking, TypeInv, Staged, Busy
  <2>2. PICK mine \in BOOLEAN :
          /\ Take(d, mine)
          /\ SetTick(p, IF ~mine THEN Idle
                        ELSE [tick[p] EXCEPT !.at = IF @ = "slot" THEN "dispatch" ELSE "record"])
    BY <1>9 DEF TakeArmed
  <2>3. ASSUME NEW e \in Instants
        PROVE  /\ Signs(e)' \subseteq Signs(e) \cup (IF mine /\ e = d THEN {p} ELSE {})
               /\ Notes(e)' \subseteq Notes(e)
    BY <1>0, <2>2 DEF Signs, Notes, SetTick, Idle, Busy
  <2>4. \A e \in Instants : Pens(e)' \subseteq Pens(e) \cup
          (IF mine /\ e = d THEN {<<"sign", p>>} ELSE {})
    <3> HIDE DEF d
    <3>1. \A e \in Instants : Chases(e)' \subseteq Chases(e)
      BY <1>1, <1>9 DEF TakeArmed
    <3> QED
      BY <2>3, <3>1 DEF Pens
  <2>5. PicksUp(d, mine, <<"sign", p>>)
    BY <1>9, <2>2, <2>4 DEF PicksUp, TakeArmed
  <2> QED
    BY <2>1, <2>5 DEF PenKind
<1>10. CASE RecordFired(p)
  <2> DEFINE d == tick[p].fire
  <2>1. d \in Instants /\ p \in Signs(d)
    BY <1>0, <1>10, Constants DEF RecordFired, Ticking, TypeInv, Staged, Busy, Signs
  <2>2. SetTick(p, [tick[p] EXCEPT !.at = "dispatch"]) /\ Record(d, "fired")
    BY <1>10 DEF RecordFired
  <2> HIDE DEF d
  <2>3. \A e \in Instants : Signs(e)' \subseteq Signs(e) \ {p} /\ Notes(e)' \subseteq Notes(e)
    BY <1>0, <2>2 DEF Notes, Signs, SetTick, Busy
  <2>4. \A e \in Instants :
          Pens(e)' \subseteq IF e = d THEN Pens(d) \ {<<"sign", p>>} ELSE Pens(e)
    <3>1. \A e \in Instants : Chases(e)' \subseteq Chases(e)
      BY <1>1, <1>10 DEF RecordFired
    <3> QED
      BY <2>3, <3>1 DEF Pens
  <2>5. Writes(d, <<"sign", p>>, "fired")
    BY <1>10, <2>1, <2>2, <2>4 DEF Writes, Unclaimed, RecordFired, Pens
  <2> QED
    BY <2>1, <2>5 DEF PenKind, Decisions
<1>11. CASE Dispatch(p)
  <2>1. SetTick(p, Idle) /\ Idle.at = "idle"
    BY <1>11 DEF Dispatch, Idle
  <2>2. \A e \in Instants : Notes(e)' \subseteq Notes(e) /\ Signs(e)' \subseteq Signs(e)
    BY <1>0, <2>1, TicksPutDown
  <2> QED
    BY <1>1, <1>11, <2>2, PutDown DEF Dispatch, Unclaimed
<1> QED
  BY <1>2, <1>3, <1>4, <1>5, <1>6, <1>7, <1>8, <1>9, <1>10, <1>11 DEF ServerTick
LEMMA ChasePens ==
  ASSUME TypeInv, NEW p \in Servers, ChaseStep(p)
  PROVE  PenKind
<1> USE DEF shared, local, history
<1> DEFINE todo == chase[p].todo
           d    == Min(todo)
<1>0. /\ TypeOK /\ p \in Procs /\ chase \in [Procs -> Chase] /\ chase[p] \in Chase
      /\ todo \in SUBSET Instants
  BY Constants DEF TypeInv, TypeOK, Chase
<1>1. todo # {} => d \in Instants
  BY <1>0, LeastInstant
<1>2. ASSUME UNCHANGED tick
      PROVE  \A e \in Instants : Notes(e)' \subseteq Notes(e) /\ Signs(e)' \subseteq Signs(e)
  BY <1>2 DEF Notes, Signs
<1>3. CASE ChaseTake(p)
  <2>1. PICK mine \in BOOLEAN :
          /\ Take(d, mine)
          /\ IF mine THEN SetChase(p, "record", todo) ELSE SetChase(p, "take", todo \ {d})
    BY <1>3 DEF ChaseTake
  <2>2. d \in Instants
    BY <1>1, <1>3 DEF ChaseTake
  <2>3. ASSUME NEW e \in Instants
        PROVE  Chases(e)' \subseteq Chases(e) \cup (IF mine /\ e = d THEN {p} ELSE {})
    BY <1>0, <2>1 DEF Chases, SetChase
  <2>4. \A e \in Instants : Pens(e)' \subseteq Pens(e) \cup
          (IF mine /\ e = d THEN {<<"chase", p>>} ELSE {})
    <3> HIDE DEF d
    <3>1. \A e \in Instants : Notes(e)' \subseteq Notes(e) /\ Signs(e)' \subseteq Signs(e)
      BY <1>2, <1>3 DEF ChaseTake
    <3> QED
      BY <2>3, <3>1 DEF Pens
  <2>5. PicksUp(d, mine, <<"chase", p>>)
    BY <1>3, <2>1, <2>4 DEF PicksUp, ChaseTake
  <2> QED
    BY <2>2, <2>5 DEF PenKind
<1>4. CASE ChaseRecord(p)
  <2>1. d \in Instants /\ p \in Chases(d)
    BY <1>0, <1>1, <1>4 DEF ChaseRecord, TypeInv, Staged, Chases
  <2>2. \A e \in Instants : Chases(e)' \subseteq Chases(e) \ {p}
    BY <1>0, <1>4 DEF ChaseRecord, SetChase, Chases
  <2>3. Record(d, "fired")
    BY <1>4 DEF ChaseRecord
  <2> HIDE DEF d
  <2>4. \A e \in Instants :
          Pens(e)' \subseteq IF e = d THEN Pens(d) \ {<<"chase", p>>} ELSE Pens(e)
    <3>1. \A e \in Instants : Notes(e)' \subseteq Notes(e) /\ Signs(e)' \subseteq Signs(e)
      BY <1>2, <1>4 DEF ChaseRecord
    <3> QED
      BY <2>2, <3>1 DEF Pens
  <2>5. Writes(d, <<"chase", p>>, "fired")
    BY <1>4, <2>1, <2>3, <2>4 DEF Writes, Unclaimed, ChaseRecord, Pens
  <2> QED
    BY <2>1, <2>5 DEF PenKind, Decisions
<1>5. CASE ChaseEnds(p)
  <2> DEFINE c == [at |-> "off", todo |-> {}]
  <2>1. chase' = [chase EXCEPT ![p] = c] /\ c.at # "record"
    BY <1>5 DEF ChaseEnds, SetChase
  <2> HIDE DEF c
  <2>2. \A e \in Instants : Chases(e)' \subseteq Chases(e)
    BY <1>0, <2>1, ChasesPutDown
  <2> QED
    BY <1>2, <1>5, <2>2, PutDown DEF ChaseEnds, Unclaimed
<1> QED
  BY <1>3, <1>4, <1>5 DEF ChaseStep

LEMMA DesktopPens ==
  ASSUME TypeInv, NEW p \in Desktops, DesktopStep(p)
  PROVE  PenKind
<1> USE DEF shared, local, history
<1>0. /\ TypeOK /\ p \in Procs /\ tick \in [Procs -> Busy] /\ tick[p] \in Busy
  BY Constants DEF TypeInv, TypeOK
<1>1. ASSUME UNCHANGED chase PROVE \A e \in Instants : Chases(e)' \subseteq Chases(e)
  BY <1>1 DEF Chases
<1>2. CASE DesktopClaims(p)
  <2> DEFINE t == [Idle EXCEPT !.at = "claim", !.fire = armed[p].at]
  <2>1. SetTick(p, t) /\ t.at = "claim"
    BY <1>2 DEF DesktopClaims, Idle
  <2> HIDE DEF t
  <2>2. \A e \in Instants : Notes(e)' \subseteq Notes(e) /\ Signs(e)' \subseteq Signs(e)
    BY <1>0, <2>1, TicksPutDown
  <2> QED
    BY <1>1, <1>2, <2>2, PutDown DEF DesktopClaims, Unclaimed
<1>3. CASE DesktopTakes(p)
  <2> DEFINE d == tick[p].fire
  <2>1. d \in Instants
    BY <1>0, <1>3, Constants DEF DesktopTakes, Ticking, TypeInv, Staged, Busy
  <2>2. PICK mine \in BOOLEAN : Take(d, mine)
    BY <1>3 DEF DesktopTakes
  <2>3. SetTick(p, Idle) /\ Idle.at = "idle"
    BY <1>3 DEF DesktopTakes, Idle
  <2> HIDE DEF d
  <2>4. \A e \in Instants : Pens(e)' \subseteq Pens(e) \cup (IF mine /\ e = d THEN {0} ELSE {})
    <3>1. \A e \in Instants : Notes(e)' \subseteq Notes(e) /\ Signs(e)' \subseteq Signs(e)
      BY <1>0, <2>3, TicksPutDown
    <3>2. \A e \in Instants : Chases(e)' \subseteq Chases(e)
      BY <1>1, <1>3 DEF DesktopTakes
    <3> QED
      BY <3>1, <3>2 DEF Pens
  <2>5. PicksUp(d, mine, 0)
    BY <1>3, <2>2, <2>4 DEF PicksUp, DesktopTakes
  <2> QED
    BY <2>1, <2>5 DEF PenKind
<1>4. CASE DesktopSaves(p)
  BY <1>0, <1>1, <1>4, TicksPutDown, PutDown DEF DesktopSaves, Unclaimed
<1> QED
  BY <1>2, <1>3, <1>4 DEF DesktopStep

LEMMA JobPens ==
  ASSUME TypeInv, NEW j \in jobs, JobStep(j)
  PROVE  PenKind
<1> USE DEF shared, local, history
<1>1. UNCHANGED <<tick, ledger, through, took, stray>>
  BY DEF JobStep, RunStarts, RunRefused, RunEnds
<1>2. UNCHANGED chase \/ \E panics \in BOOLEAN : Leaves(j, panics)
  BY DEF JobStep, RunStarts, RunRefused, RunEnds
<1>3. \A e \in Instants : Chases(e)' \subseteq Chases(e)
  BY <1>2, LeavesLetsGo DEF Chases
<1> QED
  BY <1>1, <1>3, TicksPutDown, PutDown DEF Unclaimed, TypeInv

LEMMA WorldPens ==
  ASSUME TypeInv,
         \/ \E c \in Configs : Edit(c)
         \/ \E p \in Procs : Boot(p) \/ Crash(p)
         \/ Elapse
  PROVE  PenKind
<1> USE DEF shared, local, history
<1>1. TypeOK /\ UNCHANGED <<ledger, through, took, stray>>
  BY DEF TypeInv, Edit, Boot, Crash, Elapse
<1>2. \/ UNCHANGED <<tick, chase>>
      \/ \E p \in Procs : SetTick(p, Idle) /\ chase' = [chase EXCEPT ![p] = Off]
  BY DEF Edit, Boot, Crash, Elapse, SetTick
<1>3. Idle.at = "idle" /\ Off.at = "off"
  BY DEF Idle, Off
<1>4. ASSUME NEW e \in Instants
      PROVE  Notes(e)' \subseteq Notes(e) /\ Signs(e)' \subseteq Signs(e) /\ Chases(e)' \subseteq Chases(e)
  BY <1>1, <1>2, <1>3, TicksPutDown, ChasesPutDown
<1> QED
  BY <1>1, <1>4, PutDown DEF Unclaimed

LEMMA NextPens == TypeInv /\ [Next]_vars => PenKind
<1> SUFFICES ASSUME TypeInv, [Next]_vars PROVE PenKind
  OBVIOUS
<1>1. CASE Next
  BY <1>1, TickPens, ChasePens, DesktopPens, JobPens, WorldPens DEF Next
<1>2. CASE UNCHANGED vars
  BY <1>2 DEF vars, shared, local, history, PenKind, Idles, Unclaimed, Pens, Notes, Signs, Chases
<1> QED
  BY <1>1, <1>2

(***************************************************************************)
(* The invariant is inductive.  OnceInv is there for the one thing a claim   *)
(* says of earlier ones: what was taken is no later than `through'.          *)
(***************************************************************************)
LEMMA LineWritten ==
  ASSUME TypeOK, NEW d \in Instants, NEW v \in Decisions, Record(d, v)
  PROVE  /\ Lines(d)' \in {Lines(d), Lines(d) + 1}
         /\ \A e \in Instants \ {d} : Lines(e)' = Lines(e)
<1>1. /\ ledger \in [Instants -> [Decisions -> Nat]] /\ v \in {"fired", "skipped"}
      /\ "fired" \in Decisions /\ "skipped" \in Decisions
  BY DEF TypeOK, Decisions
<1>2. ledger' = ledger \/ ledger' = [ledger EXCEPT ![d][v] = @ + 1]
  BY DEF Record
<1>3. CASE ledger' = [ledger EXCEPT ![d][v] = @ + 1]
  <2>1. /\ ledger[d] \in [Decisions -> Nat]
        /\ ledger'[d] = [ledger[d] EXCEPT ![v] = @ + 1]
        /\ \A e \in Instants \ {d} : ledger'[e] = ledger[e]
    BY <1>1, <1>3
  <2>2. ledger[d]["fired"] \in Nat /\ ledger[d]["skipped"] \in Nat
    BY <1>1, <2>1
  <2>3. CASE v = "fired"
    <3>1. ledger'[d]["fired"] = ledger[d]["fired"] + 1 /\ ledger'[d]["skipped"] = ledger[d]["skipped"]
      BY <1>1, <2>1, <2>3
    <3> QED
      BY <2>1, <2>2, <3>1 DEF Lines
  <2>4. CASE v = "skipped"
    <3>1. ledger'[d]["skipped"] = ledger[d]["skipped"] + 1 /\ ledger'[d]["fired"] = ledger[d]["fired"]
      BY <1>1, <2>1, <2>4
    <3> QED
      BY <2>1, <2>2, <3>1 DEF Lines
  <2> QED
    BY <1>1, <2>3, <2>4
<1> QED
  BY <1>2, <1>3 DEF Lines

LEMMA InitOutcome == Init => OutcomeInv
<1> SUFFICES ASSUME Init PROVE OutcomeInv
  OBVIOUS
<1>1. \A d \in Instants : Pens(d) = {}
  BY DEF Init, Pens, Notes, Signs, Chases, Idle, Off
<1>2. ASSUME NEW d \in Instants PROVE Signed(d)
  <2>1. Lines(d) = (IF d = Anchor THEN 1 ELSE 0)
    BY DEF Init, Lines, Decisions
  <2> QED
    BY <1>1, <2>1, Constants DEF Init, Signed
<1> QED
  BY <1>2, InitOnce DEF OutcomeInv

LEMMA NextOutcome == OutcomeInv /\ [Next]_vars => OutcomeInv'
<1> SUFFICES ASSUME OutcomeInv, [Next]_vars PROVE OutcomeInv'
  OBVIOUS
<1>0. /\ TypeOK /\ OnceInv' /\ PenKind /\ took \subseteq Instants /\ through \in Nat
      /\ Instants \subseteq Nat /\ \A d \in took : d <= through
  BY NextOnce, NextPens, Constants DEF OutcomeInv, OnceInv, TypeInv, TypeOK
<1>1. ASSUME NEW e \in Instants \ stray PROVE Signed(e)
  BY DEF OutcomeInv
<1>2. CASE Idles
  <2>1. \A e \in Instants \ stray : Lines(e)' = Lines(e)
    BY <1>2 DEF Idles, Lines
  <2>2. \A e \in Instants \ stray' : Signed(e)'
    BY <1>1, <1>2, <2>1 DEF Signed, Idles, Unclaimed
  <2> QED
    BY <1>0, <2>2 DEF OutcomeInv
<1>3. ASSUME NEW d \in Instants, NEW mine \in BOOLEAN, NEW x, PicksUp(d, mine, x)
      PROVE  OutcomeInv'
  <2>1. \A e \in Instants : Lines(e)' = Lines(e)
    BY <1>3 DEF PicksUp, Lines
  <2>2. CASE mine = ~AlreadyTaken(d) /\ took' = (IF mine THEN took \cup {d} ELSE took)
             /\ UNCHANGED stray
    <3>1. mine => d \notin took
      <4>1. mine => ~AlreadyTaken(d)
        BY <2>2, Zenon
      <4>2. ~(through >= d) => d \notin took
        BY <1>0
      <4> QED
        BY <4>1, <4>2 DEF AlreadyTaken
    <3>2. ASSUME NEW e \in Instants \ stray PROVE Signed(e)'
      <4>1. Signed(e) /\ Lines(e)' = Lines(e) /\ took \subseteq took'
        BY <1>1, <2>1, <2>2
      <4>2. CASE mine /\ e = d
        <5>1. Pens(e) = {} /\ ~(Lines(e) > 0) /\ e \in took'
          BY <2>2, <3>1, <4>1, <4>2 DEF Signed
        <5>2. Pens(e)' \subseteq {x}
          BY <1>3, <4>2, <5>1 DEF PicksUp
        <5>3. Lines(e) = 0
          <6>1. Lines(e) \in Nat
            BY <1>0 DEF Lines, TypeOK, Decisions
          <6> QED
            BY <5>1, <6>1
        <5> QED
          BY <4>1, <5>1, <5>2, <5>3 DEF Signed
      <4>3. CASE ~(mine /\ e = d)
        <5>1. Pens(e)' \subseteq Pens(e)
          BY <1>3, <4>3 DEF PicksUp
        <5> QED
          BY <4>1, <5>1 DEF Signed
      <4> QED
        BY <4>2, <4>3
    <3> QED
      BY <1>0, <2>2, <3>2 DEF OutcomeInv
  <2>3. CASE stray' = stray \cup {d} /\ UNCHANGED took
    <3>1. ASSUME NEW e \in Instants \ stray' PROVE Signed(e)'
      <4>1. e # d /\ Signed(e) /\ Lines(e)' = Lines(e) /\ took' = took
        BY <1>1, <2>1, <2>3
      <4>2. Pens(e)' \subseteq Pens(e)
        BY <1>3, <4>1 DEF PicksUp
      <4> QED
        BY <4>1, <4>2 DEF Signed
    <3> QED
      BY <1>0, <3>1 DEF OutcomeInv
  <2> QED
    BY <1>3, <2>2, <2>3 DEF PicksUp, Take
<1>4. ASSUME NEW d \in Instants, NEW v \in Decisions, NEW x, Writes(d, x, v)
      PROVE  OutcomeInv'
  <2>1. ASSUME NEW e \in Instants \ stray PROVE Signed(e)'
    <3>1. Signed(e) /\ took' = took
      BY <1>1, <1>4 DEF Writes, Unclaimed
    <3>2. CASE e = d
      <4>1. Pens(e)' = {} /\ Lines(e) = 0 /\ e \in took
        BY <1>4, <3>1, <3>2 DEF Writes, Signed
      <4>2. Lines(e)' \in {0, 1}
        BY <1>0, <1>4, <3>2, <4>1, LineWritten DEF Writes
      <4> QED
        BY <3>1, <4>1, <4>2 DEF Signed
    <3>3. CASE e # d
      <4>1. Pens(e)' \subseteq Pens(e) /\ Lines(e)' = Lines(e)
        BY <1>0, <1>4, <3>3, LineWritten DEF Writes
      <4> QED
        BY <3>1, <4>1 DEF Signed
    <3> QED
      BY <3>2, <3>3
  <2> QED
    BY <1>0, <1>4, <2>1 DEF OutcomeInv, Writes, Unclaimed
<1> QED
  BY <1>0, <1>2, <1>3, <1>4 DEF PenKind

\* What one scheduler put on record as fired no other puts on record as skipped,
\* nor twice: the ledger a catch-up starts from says of each occurrence one thing,
\* unless no claim on it could be made.
THEOREM OutcomesAreSingle == Spec => []OneOutcome
<1>1. OutcomeInv => OneOutcome
  <2> SUFFICES ASSUME OutcomeInv, NEW d \in Instants \ stray
               PROVE  ledger[d]["fired"] + ledger[d]["skipped"] <= 1
    BY DEF OneOutcome
  <2>1. Signed(d)
    BY DEF OutcomeInv
  <2>2. Lines(d) \in Nat
    BY DEF Lines, OutcomeInv, OnceInv, TypeInv, TypeOK, Decisions
  <2>3. Lines(d) <= 1
    BY <2>1, <2>2 DEF Signed
  <2> QED
    BY <2>3 DEF Lines
<1>2. Spec => []OutcomeInv
  BY InitOutcome, NextOutcome, PTL DEF Spec
<1> QED
  BY <1>1, <1>2, PTL

-----------------------------------------------------------------------------
(***************************************************************************)
(* A live scheduler's occurrence is not skipped by another.  One that keeps *)
(* time has looked within the allowance, and is armed for what comes after  *)
(* it looked; what any other calls missed is older than the allowance.      *)
(***************************************************************************)

\* Servers alone, on one clock, none of them stalled; a desktop is armed for what its
\* store says, and an edit from one interval to another fires a slot of any age.
OneGrid ==
  \A c, e \in Configs : Kind[c] = "interval" /\ Kind[e] = "interval" => c = e
Kept == /\ Prompt /\ Desktops = {} /\ \A p \in Procs : Skew[p] = 0
        /\ OneGrid

Looks(p) ==
  /\ p \in up => /\ beat[p] <= clock /\ clock - beat[p] <= Stall
                 /\ ArmedFor(p, "cron") => armed[p].at > beat[p]
                 /\ ArmedFor(p, "interval") =>
                      \A d \in DueOf[armed[p].cfg] : d <= beat[p] => d <= armed[p].at
  /\ tick[p].at # "idle" => p \in up /\ beat[p] = clock
  /\ tick[p].at = "idle" => tick[p].skip = {} /\ tick[p].fire = 0
  /\ \A d \in tick[p].skip : d <= clock - Stall
  /\ tick[p].fire # 0 => tick[p].fire > clock - Stall

WatchInv == /\ \A p \in Procs : Looks(p)
            /\ \A j \in jobs : j.job.kind # "desktop"

\* The horizon of a catch-up, and what lies within it.
LEMMA HorizonReach ==
  ASSUME NEW now \in Int, NEW at \in Int
  PROVE  /\ Horizon(now, at) \in Int /\ Horizon(now, at) <= now - Stall
         /\ \/ Horizon(now, at) = now - Stall
            \/ at # 0 /\ Horizon(now, at) = at - 1
<1>0. Stall \in Int
  BY NumberAssumption
<1>1. CASE at = 0
  BY <1>0, <1>1 DEF Horizon
<1>2. CASE at # 0
  <2> DEFINE S == {now - Stall, at - 1}
  <2>1. \E x \in S : \A y \in S : x <= y
    BY <1>0
  <2>2. Min(S) \in S /\ \A y \in S : Min(S) <= y
    BY <2>1 DEF Min
  <2>3. Horizon(now, at) = Min(S)
    BY <1>2 DEF Horizon
  <2> QED
    BY <1>0, <1>2, <2>2, <2>3
<1> QED
  BY <1>1, <1>2

LEMMA FoundInTime ==
  ASSUME NEW c \in Configs, NEW h \in Int
  PROVE  \A d \in CatchUp(c, h) : d \in Instants /\ d <= h
<1>1. DueOf[c] \subseteq Instants
  BY ConfigAssumption
<1>2. \A a : \A d \in Missed(c, a, h) : d \in Instants /\ d <= h
  BY <1>1 DEF Missed
<1>3. CatchUp(c, h) \subseteq Missed(c, LastRecorded, h)
  BY Zenon DEF CatchUp
<1> QED
  BY <1>2, <1>3

\* What a tick finds missed is older than the allowance, what it arms is to come.
LEMMA FoundMissed ==
  ASSUME NEW c \in Configs, NEW now \in Int, NEW at \in Int
  PROVE  \A d \in CatchUp(c, Horizon(now, at)) : d <= now - Stall
<1> DEFINE h == Horizon(now, at)
<1>1. h \in Int /\ h <= now - Stall
  BY HorizonReach
<1> HIDE DEF h
<1>2. \A d \in CatchUp(c, h) : d \in Instants /\ d <= h
  BY <1>1, FoundInTime
<1>3. ASSUME NEW d \in CatchUp(c, h) PROVE d <= now - Stall
  <2>1. d \in Instants /\ d <= h
    BY <1>2, <1>3
  <2>2. d \in Int /\ Stall \in Int
    BY <2>1, Constants, NumberAssumption
  <2> QED
    BY <1>1, <2>1, <2>2
<1> QED
  BY <1>3 DEF h

LEMMA NextIsLater ==
  ASSUME NEW c \in Configs, NEW t \in Nat
  PROVE  NextAfter(c, t) = 0 \/ NextAfter(c, t) > t
<1> DEFINE later == {d \in DueOf[c] : d > t}
<1>1. later \in SUBSET Instants
  BY ConfigAssumption
<1>2. CASE later # {}
  <2>1. Min(later) \in later
    BY <1>1, <1>2, LeastInstant
  <2> QED
    BY <1>2, <2>1 DEF NextAfter
<1> QED
  BY <1>2 DEF NextAfter

LEMMA SlotIsLast ==
  ASSUME NEW c \in Configs, NEW t \in Nat
  PROVE  /\ Slot(c, t) = 0 \/ (Slot(c, t) \in DueOf[c] /\ Slot(c, t) \in Instants /\ Slot(c, t) <= t)
         /\ Slot(c, t) \in Nat /\ \A d \in DueOf[c] : d <= t => d <= Slot(c, t)
<1> DEFINE S == {d \in DueOf[c] : d <= t} \cup {0}
<1>1. S \in SUBSET (0..MaxTime) /\ S # {} /\ DueOf[c] \subseteq Instants
  <2>1. DueOf[c] \subseteq Instants /\ 0 \in 0..MaxTime
    BY Constants, ConfigAssumption
  <2> QED
    BY <2>1, Constants
<1>2. Max(S) \in S /\ \A y \in S : Max(S) >= y
  <2> HIDE DEF S
  <2> QED
    BY <1>1, Constants, MaxIsGreatest
<1>3. Slot(c, t) = Max(S)
  BY DEF Slot
<1>4. \A y \in S : y <= Slot(c, t)
  BY <1>1, <1>2, <1>3, Constants
<1> QED
  BY <1>1, <1>2, <1>3, <1>4, Constants

LEMMA LooksSame ==
  ASSUME NEW p \in Procs, Looks(p), UNCHANGED <<clock, tick[p], armed[p], beat[p], p \in up>>
  PROVE  Looks(p)'
BY DEF Looks, ArmedFor

\* A tick goes on with what it has in hand, or is over.
LEMMA TickGoesOn ==
  ASSUME TypeInv, WatchInv, NEW p \in Procs, NEW t, SetTick(p, t),
         UNCHANGED <<clock, up, armed, beat>>,
         \/ t = Idle
         \/ /\ tick[p].at # "idle" /\ t.at # "idle"
            /\ t.skip \subseteq tick[p].skip /\ t.fire = tick[p].fire
  PROVE  \A q \in Procs : Looks(q)'
<1> SUFFICES ASSUME NEW q \in Procs PROVE Looks(q)'
  OBVIOUS
<1>1. Looks(q) /\ tick'[q] = IF q = p THEN t ELSE tick[q]
  BY DEF WatchInv, SetTick, TypeInv, TypeOK
<1>2. CASE q # p
  BY <1>1, <1>2 DEF Looks, ArmedFor
<1>3. CASE q = p
  <2>1. CASE t = Idle
    BY <1>1, <1>3, <2>1 DEF Looks, Idle, ArmedFor
  <2>2. CASE /\ tick[p].at # "idle" /\ t.at # "idle"
             /\ t.skip \subseteq tick[p].skip /\ t.fire = tick[p].fire
    BY <1>1, <1>3, <2>2 DEF Looks, ArmedFor
  <2> QED
    BY <2>1, <2>2
<1> QED
  BY <1>2, <1>3

LEMMA TickLooks ==
  ASSUME Kept, TypeInv, WatchInv, NEW p \in Servers, ServerTick(p)
  PROVE  \A q \in Procs : Looks(q)'
<1> USE DEF shared, local, history
<1>0. /\ p \in Procs /\ tick[p] \in Busy /\ store.cfg \in Configs /\ Now(p) = clock /\ clock \in Nat
      /\ Looks(p) /\ \A q \in Procs : Looks(q)
  BY Constants DEF TypeInv, TypeOK, Kept, Now, WatchInv
<1>a. Idle.at = "idle" /\ Idle.skip = {} /\ Idle.fire = 0
  BY DEF Idle
<1>1. CASE TickOff(p)
  <2>1. /\ UNCHANGED <<clock, up, tick>> /\ beat' = [beat EXCEPT ![p] = clock]
        /\ armed' = [armed EXCEPT ![p] = Unarmed] /\ tick[p].at = "idle" /\ p \in up
    BY <1>1 DEF TickOff, Begin, Ticking
  <2> SUFFICES ASSUME NEW q \in Procs PROVE Looks(q)'
    OBVIOUS
  <2>2. CASE q # p
    <3>1. UNCHANGED <<clock, tick[q], armed[q], beat[q], q \in up>>
      BY <2>1, <2>2 DEF TypeInv, TypeOK
    <3> QED
      BY <1>0, <3>1, LooksSame
  <2>3. CASE q = p
    <3>1. ~ArmedFor(p, "cron")' /\ ~ArmedFor(p, "interval")' /\ beat'[p] = clock /\ tick'[p] = tick[p]
      BY <1>0, <2>1 DEF TypeInv, TypeOK, Unarmed, ArmedFor
    <3>2. Stall >= 0 /\ clock - clock = 0
      BY <1>0, NumberAssumption
    <3> QED
      BY <1>0, <2>1, <2>3, <3>1, <3>2 DEF Looks
  <2> QED
    BY <2>2, <2>3
<1>2. CASE TickCron(p)
  <2> DEFINE c    == store.cfg
             due  == IF ArmedFor(p, "cron") THEN armed[p].at ELSE 0
             over == CatchUp(c, Horizon(Now(p), due))
             t    == [at |-> "decide", skip |-> over \ Wanted(over), run |-> Wanted(over),
                      fire |-> IF Fires(p, c) THEN due ELSE 0]
  <2>1. /\ UNCHANGED <<clock, up>> /\ beat' = [beat EXCEPT ![p] = clock]
        /\ tick' = [tick EXCEPT ![p] = t] /\ tick[p].at = "idle" /\ p \in up
    BY <1>2 DEF TickCron, Begin, SetTick, Ticking
  <2>2. /\ due \in Nat /\ armed[p].at \in Nat
        /\ due # 0 => due = armed[p].at /\ ArmedFor(p, "cron")
    <3>1. armed[p] \in Arming
      BY <1>0 DEF TypeInv, TypeOK
    <3>2. armed[p].at \in Nat
      BY <3>1, Constants DEF Arming
    <3> QED
      BY <3>2
  <2>3. \A d \in over : d <= clock - Stall
    <3> HIDE DEF due
    <3> QED
      BY <1>0, <2>2, FoundMissed
  <2>4. due # 0 => due > clock - Stall
    <3>1. beat[p] \in Nat /\ Stall \in Nat
      BY <1>0, NumberAssumption, Constants DEF TypeInv, TypeOK
    <3>2. ArmedFor(p, "cron") => armed[p].at > beat[p]
      BY <1>0, <2>1 DEF Looks
    <3>3. clock - beat[p] <= Stall
      BY <1>0, <2>1 DEF Looks
    <3> HIDE DEF due
    <3> QED
      BY <1>0, <2>2, <3>1, <3>2, <3>3
  <2>5. ArmedFor(p, "cron")' => armed'[p].at > clock
    <3>1. CASE armed[p].cfg = c /\ ~Fires(p, c)
      <4>1. armed' = armed
        BY <1>2, <3>1 DEF TickCron
      <4>2. ~(clock >= armed[p].at)
        BY <1>0, <3>1 DEF Fires
      <4> QED
        BY <1>0, <2>2, <4>1, <4>2
    <3>2. CASE ~(armed[p].cfg = c /\ ~Fires(p, c))
      <4>1. Arm(p, c, NextAfter(c, clock)) /\ Kind[c] = "cron"
        BY <1>0, <1>2, <3>2 DEF TickCron
      <4>2. NextAfter(c, clock) = 0 \/ NextAfter(c, clock) > clock
        BY <1>0, NextIsLater
      <4>3. armed'[p] = IF NextAfter(c, clock) = 0 THEN Unarmed
                        ELSE [cfg |-> c, at |-> NextAfter(c, clock)]
        BY <1>0, <4>1 DEF Arm, TypeInv, TypeOK
      <4>4. CASE NextAfter(c, clock) = 0
        BY <4>3, <4>4 DEF Unarmed, ArmedFor
      <4>5. CASE NextAfter(c, clock) # 0
        BY <4>2, <4>3, <4>5
      <4> QED
        BY <4>4, <4>5
    <3> QED
      BY <3>1, <3>2
  <2>10. ~ArmedFor(p, "interval")'
    <3>1. armed'[p].cfg \in {c, None} /\ Kind[c] = "cron"
      BY <1>0, <1>2 DEF TickCron, Arm, Unarmed, TypeInv, TypeOK
    <3> QED
      BY <3>1 DEF ArmedFor
  <2>6. \A q \in Procs \ {p} : armed'[q] = armed[q]
    BY <1>2 DEF TickCron, Arm, TypeInv, TypeOK
  <2>7. t.at = "decide" /\ t.skip \subseteq over /\ t.fire \in {0, due}
    OBVIOUS
  <2> HIDE DEF t, over, due
  <2> SUFFICES ASSUME NEW q \in Procs PROVE Looks(q)'
    OBVIOUS
  <2>8. CASE q # p
    <3>1. UNCHANGED <<clock, tick[q], armed[q], beat[q], q \in up>>
      BY <2>1, <2>6, <2>8 DEF TypeInv, TypeOK
    <3> QED
      BY <1>0, <3>1, LooksSame
  <2>9. CASE q = p
    <3>1. tick'[p] = t /\ beat'[p] = clock
      BY <1>0, <2>1 DEF TypeInv, TypeOK
    <3>2. Stall >= 0 /\ clock - clock = 0
      BY <1>0, NumberAssumption
    <3>3. \A d \in t.skip : d <= clock - Stall
      BY <2>3, <2>7
    <3>4. t.fire # 0 => t.fire > clock - Stall
      BY <2>4, <2>7
    <3> QED
      BY <1>0, <2>1, <2>5, <2>7, <2>9, <2>10, <3>1, <3>2, <3>3, <3>4 DEF Looks
  <2> QED
    BY <2>8, <2>9
<1>3. CASE TickInterval(p)
  <2> DEFINE c    == store.cfg
             slot == Slot(c, Now(p))
             due  == ArmedFor(p, "interval") /\ armed[p].at < slot
             t    == IF due THEN [Idle EXCEPT !.at = "slot", !.fire = slot] ELSE Idle
  <2>1. /\ UNCHANGED <<clock, up>> /\ beat' = [beat EXCEPT ![p] = clock]
        /\ tick' = [tick EXCEPT ![p] = t] /\ tick[p].at = "idle" /\ p \in up
        /\ Kind[c] = "interval" /\ Arm(p, c, slot)
    BY <1>3 DEF TickInterval, Begin, SetTick, Ticking
  <2>2. armed'[p].cfg = c /\ armed'[p].at = slot /\ \A q \in Procs \ {p} : armed'[q] = armed[q]
    BY <1>0, <2>1 DEF Arm, TypeInv, TypeOK
  <2>3. /\ slot = 0 \/ (slot \in DueOf[c] /\ slot \in Instants /\ slot <= clock)
        /\ slot \in Nat /\ \A d \in DueOf[c] : d <= clock => d <= slot
    BY <1>0, SlotIsLast
  <2>4. /\ t.skip = {} /\ t.at \in {"idle", "slot"}
        /\ t.at = "idle" => t.fire = 0
        /\ t.fire # 0 => due /\ t.fire = slot
    BY DEF Idle
  <2>5. due => slot > clock - Stall
    <3> SUFFICES ASSUME due PROVE slot > clock - Stall
      OBVIOUS
    <3>1. armed[p].cfg = c
      BY <1>0, <2>1 DEF ArmedFor, Kept, OneGrid, TypeInv, TypeOK, Arming
    <3>2. /\ clock - beat[p] <= Stall
          /\ \A d \in DueOf[c] : d <= beat[p] => d <= armed[p].at
      BY <1>0, <2>1, <3>1 DEF Looks
    <3>3. beat[p] \in Nat /\ Stall \in Nat /\ armed[p].at \in Nat
      <4>1. armed[p] \in Arming /\ beat[p] \in 0..MaxTime
        BY <1>0 DEF TypeInv, TypeOK
      <4>2. armed[p].at \in 0..MaxTime
        BY <4>1 DEF Arming
      <4> QED
        BY <4>1, <4>2, NumberAssumption, Constants
    <3> HIDE DEF slot
    <3>4. slot \in DueOf[c] /\ ~(slot <= armed[p].at)
      BY <2>3, <3>3
    <3>5. ~(slot <= beat[p])
      BY <3>2, <3>4
    <3> QED
      BY <1>0, <2>3, <3>2, <3>3, <3>5
  <2>6. ~ArmedFor(p, "cron")' /\ \A d \in DueOf[armed'[p].cfg] : d <= clock => d <= armed'[p].at
    BY <2>1, <2>2, <2>3 DEF ArmedFor
  <2> HIDE DEF t, due, slot
  <2> SUFFICES ASSUME NEW q \in Procs PROVE Looks(q)'
    OBVIOUS
  <2>7. CASE q # p
    <3>1. UNCHANGED <<clock, tick[q], armed[q], beat[q], q \in up>>
      BY <2>1, <2>2, <2>7 DEF TypeInv, TypeOK
    <3> QED
      BY <1>0, <3>1, LooksSame
  <2>8. CASE q = p
    <3>1. tick'[p] = t /\ beat'[p] = clock
      BY <1>0, <2>1 DEF TypeInv, TypeOK
    <3>2. Stall >= 0 /\ clock - clock = 0
      BY <1>0, NumberAssumption
    <3>3. t.fire # 0 => t.fire > clock - Stall
      BY <2>4, <2>5
    <3> QED
      BY <1>0, <2>1, <2>4, <2>6, <2>8, <3>1, <3>2, <3>3 DEF Looks
  <2> QED
    BY <2>7, <2>8
<1>4. ASSUME NEW t, SetTick(p, t), UNCHANGED <<clock, up, armed, beat>>,
             \/ t = Idle
             \/ /\ tick[p].at # "idle" /\ t.at # "idle"
                /\ t.skip \subseteq tick[p].skip /\ t.fire = tick[p].fire
      PROVE  \A q \in Procs : Looks(q)'
  BY <1>0, <1>4, TickGoesOn
<1>5. CASE DecideSkipped(p)
  <2> DEFINE a == [tick[p] EXCEPT !.at = "note"]
             b == [tick[p] EXCEPT !.skip = @ \ {Min(@)}]
  <2>1. /\ tick[p].at = "decide" /\ UNCHANGED <<clock, up, armed, beat>>
        /\ SetTick(p, a) \/ SetTick(p, b)
    BY <1>5 DEF DecideSkipped, Ticking
  <2>2. /\ a.at = "note" /\ a.skip = tick[p].skip /\ a.fire = tick[p].fire
        /\ b.at = tick[p].at /\ b.skip \subseteq tick[p].skip /\ b.fire = tick[p].fire
    BY <1>0 DEF Busy
  <2> HIDE DEF a, b
  <2> QED
    BY <1>4, <2>1, <2>2
<1>6. CASE NoteSkipped(p)
  <2> DEFINE a == [tick[p] EXCEPT !.at = "decide", !.skip = @ \ {Min(@)}]
  <2>1. tick[p].at = "note" /\ UNCHANGED <<clock, up, armed, beat>> /\ SetTick(p, a)
    BY <1>6 DEF NoteSkipped, Ticking
  <2>2. a.at = "decide" /\ a.skip \subseteq tick[p].skip /\ a.fire = tick[p].fire
    BY <1>0 DEF Busy
  <2> HIDE DEF a
  <2> QED
    BY <1>4, <2>1, <2>2
<1>7. CASE TakeTurn(p)
  <2> DEFINE a == [tick[p] EXCEPT !.run = {}]
  <2>1. tick[p].at = "decide" /\ UNCHANGED <<clock, up, armed, beat>> /\ SetTick(p, a)
    BY <1>7 DEF TakeTurn, Ticking
  <2>2. a.at = tick[p].at /\ a.skip = tick[p].skip /\ a.fire = tick[p].fire
    BY <1>0 DEF Busy
  <2> HIDE DEF a
  <2> QED
    BY <1>4, <2>1, <2>2
<1>8. CASE NothingToFire(p)
  BY <1>4, <1>8 DEF NothingToFire
<1>9. CASE TakeArmed(p)
  <2> DEFINE a == [tick[p] EXCEPT !.at = IF @ = "slot" THEN "dispatch" ELSE "record"]
  <2>1. tick[p].at # "idle" /\ UNCHANGED <<clock, up, armed, beat>> /\ (SetTick(p, a) \/ SetTick(p, Idle))
    BY <1>9 DEF TakeArmed, Ticking
  <2>2. a.at # "idle" /\ a.skip = tick[p].skip /\ a.fire = tick[p].fire
    BY <1>0 DEF Busy
  <2> HIDE DEF a
  <2> QED
    BY <1>4, <2>1, <2>2
<1>10. CASE RecordFired(p)
  <2> DEFINE a == [tick[p] EXCEPT !.at = "dispatch"]
  <2>1. tick[p].at = "record" /\ UNCHANGED <<clock, up, armed, beat>> /\ SetTick(p, a)
    BY <1>10 DEF RecordFired, Ticking
  <2>2. a.at = "dispatch" /\ a.skip = tick[p].skip /\ a.fire = tick[p].fire
    BY <1>0 DEF Busy
  <2> HIDE DEF a
  <2> QED
    BY <1>4, <2>1, <2>2
<1>11. CASE Dispatch(p)
  BY <1>4, <1>11 DEF Dispatch
<1> QED
  BY <1>1, <1>2, <1>3, <1>5, <1>6, <1>7, <1>8, <1>9, <1>10, <1>11 DEF ServerTick

\* Nobody but a desktop hands out a desktop's firing.
LEMMA NoDesktopJobs ==
  ASSUME Kept, WatchInv, [Next]_vars
  PROVE  \A j \in jobs' : j.job.kind # "desktop"
<1> DEFINE fine == \A j \in jobs' : j.job.kind # "desktop"
<1> USE DEF shared, local, history
<1>0. \A j \in jobs : j.job.kind # "desktop"
  BY DEF WatchInv
<1>1. ASSUME NEW p, NEW d, NEW kind \in {"dispatch", "chase"}, jobs' = jobs \cup {NewJob(p, d, kind)}
      PROVE  fine
  <2>1. NewJob(p, d, kind).job.kind = kind
    BY JobMade
  <2> QED
    BY <1>0, <1>1, <2>1
<1>2. ASSUME jobs' \subseteq jobs PROVE fine
  BY <1>0, <1>2
<1>3. ASSUME NEW j \in jobs, RunStarts(j) PROVE fine
  <2> DEFINE new == [j EXCEPT !.at = "run", !.began = clock]
  <2>1. jobs' = (jobs \ {j}) \cup {new}
    BY <1>3 DEF RunStarts
  <2>2. new.job = j.job
    OBVIOUS
  <2> HIDE DEF new
  <2> QED
    BY <1>0, <2>1, <2>2
<1>4. ASSUME NEW p \in Servers, ServerTick(p) PROVE fine
  <2>1. jobs' = jobs \/ jobs' = jobs \cup {NewJob(p, tick[p].fire, "dispatch")}
    BY <1>4 DEF ServerTick, TickOff, TickCron, TickInterval, DecideSkipped, NoteSkipped, TakeTurn,
                NothingToFire, TakeArmed, RecordFired, Dispatch
  <2> QED
    BY <1>1, <1>2, <2>1
<1>5. ASSUME NEW p \in Servers, ChaseStep(p) PROVE fine
  <2>1. jobs' = jobs \/ jobs' = jobs \cup {NewJob(p, Min(chase[p].todo), "chase")}
    BY <1>5 DEF ChaseStep, ChaseTake, ChaseRecord, ChaseEnds
  <2> QED
    BY <1>1, <1>2, <2>1
<1>6. ASSUME NEW j \in jobs, RunRefused(j) \/ RunEnds(j) PROVE fine
  BY <1>2, <1>6 DEF RunRefused, RunEnds
<1>7. ASSUME \/ \E c \in Configs : Edit(c)
             \/ \E p \in Procs : Boot(p) \/ Crash(p)
             \/ Elapse \/ UNCHANGED vars
      PROVE  fine
  BY <1>2, <1>7 DEF Edit, Boot, Crash, Elapse, vars
<1> HIDE DEF fine
<1>8. fine
  BY <1>3, <1>4, <1>5, <1>6, <1>7 DEF Next, JobStep, Kept
<1> QED
  BY <1>8 DEF fine

\* A tick that has taken what the policy skips writes it, and nobody else does.
LEMMA SkipWritten ==
  ASSUME TypeInv, [Next]_vars, NEW d \in Instants, ledger'[d]["skipped"] > ledger[d]["skipped"]
  PROVE  \E q \in Procs : tick[q].at = "note" /\ d = Min(tick[q].skip)
<1> USE DEF shared, local, history
<1>0. /\ ledger \in [Instants -> [Decisions -> Nat]] /\ "fired" \in Decisions /\ "skipped" \in Decisions
      /\ Servers \subseteq Procs /\ ledger[d]["skipped"] \in Nat
  BY Constants DEF TypeInv, TypeOK, Decisions
<1>1. ledger'[d]["skipped"] # ledger[d]["skipped"] /\ ledger' # ledger
  BY <1>0
<1>2. ASSUME NEW e \in Instants, Record(e, "fired") PROVE FALSE
  <2>1. ledger' = [ledger EXCEPT ![e]["fired"] = @ + 1]
    BY <1>1, <1>2 DEF Record
  <2> QED
    BY <1>0, <1>1, <2>1
<1>3. ASSUME NEW e \in Instants, Record(e, "skipped") PROVE d = e
  <2>1. ledger' = [ledger EXCEPT ![e]["skipped"] = @ + 1]
    BY <1>1, <1>3 DEF Record
  <2> QED
    BY <1>0, <1>1, <2>1
<1>4. ASSUME NEW p \in Servers, ServerTick(p) PROVE NoteSkipped(p)
  <2>1. tick[p] \in Busy /\ p \in Procs
    BY <1>0 DEF TypeInv, TypeOK
  <2>2. ASSUME RecordFired(p) PROVE FALSE
    <3>1. tick[p].fire \in Instants /\ Record(tick[p].fire, "fired")
      BY <2>1, <2>2, Constants DEF RecordFired, Ticking, TypeInv, Staged, Busy
    <3> QED
      BY <1>2, <3>1
  <2> QED
    BY <1>1, <1>4, <2>2 DEF ServerTick, TickOff, TickCron, TickInterval, DecideSkipped, TakeTurn,
                NothingToFire, TakeArmed, Dispatch
<1>5. ASSUME NEW p \in Servers, NoteSkipped(p)
      PROVE  \E q \in Procs : tick[q].at = "note" /\ d = Min(tick[q].skip)
  <2>1. tick[p].at = "note" /\ Record(Min(tick[p].skip), "skipped") /\ p \in Procs
    BY <1>0, <1>5 DEF NoteSkipped, Ticking
  <2>2. tick[p].skip # {} /\ tick[p].skip \in SUBSET Instants
    BY <2>1 DEF TypeInv, TypeOK, Staged, Busy
  <2>3. Min(tick[p].skip) \in Instants
    BY <2>2, LeastInstant
  <2>4. d = Min(tick[p].skip)
    BY <1>3, <2>1, <2>3
  <2> QED
    BY <2>1, <2>4
<1>6. ASSUME NEW p \in Servers, ChaseStep(p) PROVE FALSE
  <2>1. ChaseRecord(p)
    BY <1>1, <1>6 DEF ChaseStep, ChaseTake, ChaseEnds
  <2>2. chase[p].todo # {} /\ chase[p].todo \in SUBSET Instants
    BY <1>0, <2>1 DEF ChaseRecord, TypeInv, TypeOK, Staged, Chase
  <2>3. Min(chase[p].todo) \in Instants /\ Record(Min(chase[p].todo), "fired")
    BY <2>1, <2>2, LeastInstant DEF ChaseRecord
  <2> QED
    BY <1>2, <2>3
<1>7. ASSUME \/ \E p \in Desktops : DesktopStep(p)
             \/ \E j \in jobs : JobStep(j)
             \/ \E c \in Configs : Edit(c)
             \/ \E p \in Procs : Boot(p) \/ Crash(p)
             \/ Elapse \/ UNCHANGED vars
      PROVE  FALSE
  BY <1>1, <1>7 DEF DesktopStep, DesktopClaims, DesktopTakes, DesktopSaves, JobStep, RunStarts,
             RunRefused, RunEnds, Edit, Boot, Crash, Elapse, vars
<1> QED
  BY <1>4, <1>5, <1>6, <1>7 DEF Next

LEMMA NextWatch ==
  ASSUME Kept, TypeInv, WatchInv, [Next]_vars
  PROVE  WatchInv'
<1> USE DEF shared, local, history
<1>0. /\ \A q \in Procs : Looks(q)
      /\ clock \in Nat /\ beat \in [Procs -> 0..MaxTime] /\ tick \in [Procs -> Busy]
      /\ armed \in [Procs -> Arming] /\ Stall \in Nat /\ up \subseteq Procs
      /\ \A q \in Procs : beat[q] \in Nat
  BY Constants, NumberAssumption DEF TypeInv, TypeOK, WatchInv
<1>1. ASSUME NEW p \in Servers, ServerTick(p) PROVE \A q \in Procs : Looks(q)'
  BY <1>1, TickLooks
<1>2. ASSUME UNCHANGED <<clock, up, armed, beat, tick>> PROVE \A q \in Procs : Looks(q)'
  BY <1>0, <1>2, LooksSame
<1>3. ASSUME NEW p \in Servers, ChaseStep(p) PROVE \A q \in Procs : Looks(q)'
  BY <1>2, <1>3 DEF ChaseStep, ChaseTake, ChaseRecord, ChaseEnds
<1>4. ASSUME NEW j \in jobs, JobStep(j) PROVE \A q \in Procs : Looks(q)'
  BY <1>2, <1>4 DEF JobStep, RunStarts, RunRefused, RunEnds, WatchInv
<1>5. ASSUME NEW c \in Configs, Edit(c) PROVE \A q \in Procs : Looks(q)'
  BY <1>2, <1>5 DEF Edit
<1>6. ASSUME NEW p \in Procs, Boot(p) PROVE \A q \in Procs : Looks(q)'
  <2>1. /\ UNCHANGED <<clock, tick>> /\ up' = up \cup {p} /\ p \notin up
        /\ armed' = [armed EXCEPT ![p] = Unarmed] /\ beat' = [beat EXCEPT ![p] = clock]
    BY <1>6 DEF Boot, Kept
  <2> SUFFICES ASSUME NEW q \in Procs PROVE Looks(q)'
    OBVIOUS
  <2>2. CASE q # p
    <3>1. UNCHANGED <<clock, tick[q], armed[q], beat[q], q \in up>>
      BY <1>0, <2>1, <2>2
    <3> QED
      BY <1>0, <3>1, LooksSame
  <2>3. CASE q = p
    <3>1. /\ ~ArmedFor(p, "cron")' /\ ~ArmedFor(p, "interval")'
          /\ beat'[p] = clock /\ tick'[p] = tick[p] /\ tick[p].at = "idle"
      BY <1>0, <2>1 DEF Unarmed, Looks, ArmedFor
    <3>2. Stall >= 0 /\ clock - clock = 0
      BY <1>0
    <3> QED
      BY <1>0, <2>1, <2>3, <3>1, <3>2 DEF Looks
  <2> QED
    BY <2>2, <2>3
<1>7. ASSUME NEW p \in Procs, Crash(p) PROVE \A q \in Procs : Looks(q)'
  <2>1. /\ UNCHANGED <<clock, beat>> /\ up' = up \ {p}
        /\ armed' = [armed EXCEPT ![p] = Unarmed] /\ tick' = [tick EXCEPT ![p] = Idle]
    BY <1>7 DEF Crash
  <2> SUFFICES ASSUME NEW q \in Procs PROVE Looks(q)'
    OBVIOUS
  <2>2. CASE q # p
    <3>1. UNCHANGED <<clock, tick[q], armed[q], beat[q], q \in up>>
      BY <1>0, <2>1, <2>2
    <3> QED
      BY <1>0, <3>1, LooksSame
  <2>3. CASE q = p
    <3>1. q \notin up' /\ tick'[q].at = "idle" /\ tick'[q].skip = {} /\ tick'[q].fire = 0
      BY <1>0, <2>1, <2>3 DEF Idle
    <3> QED
      BY <3>1 DEF Looks
  <2> QED
    BY <2>2, <2>3
<1>8. ASSUME Elapse PROVE \A q \in Procs : Looks(q)'
  <2>1. /\ clock' = clock + 1 /\ UNCHANGED <<up, armed, beat, tick>>
        /\ \A p \in up : KeepsTime(p)
    BY <1>8 DEF Elapse, Kept
  <2> SUFFICES ASSUME NEW q \in Procs PROVE Looks(q)'
    OBVIOUS
  <2>2. tick[q].at = "idle" /\ tick[q].skip = {} /\ tick[q].fire = 0
    BY <1>0, <2>1 DEF Looks, KeepsTime, Ticking
  <2>3. q \in up => clock + 1 - beat[q] <= Stall /\ beat[q] <= clock + 1
    BY <1>0, <2>1 DEF Looks, KeepsTime, Kept
  <2> QED
    BY <1>0, <2>1, <2>2, <2>3 DEF Looks, ArmedFor
<1>9. ASSUME UNCHANGED vars PROVE \A q \in Procs : Looks(q)'
  BY <1>2, <1>9 DEF vars
<1>10. \A q \in Procs : Looks(q)'
  BY <1>1, <1>3, <1>4, <1>5, <1>6, <1>7, <1>8, <1>9 DEF Next, Kept
<1> QED
  BY <1>10, NoDesktopJobs DEF WatchInv

\* "Only an occurrence older than a live scheduler can be counted as missed": for any
\* number of servers that keep time on one clock, whatever dies, restarts, is edited
\* or cannot be claimed, none records as skipped what another has armed or is to fire.
THEOREM LiveAreUnskipped == ASSUME Kept PROVE Spec => LiveUnskipped
<1>1. Init => WatchInv
  <2> SUFFICES ASSUME Init PROVE WatchInv
    OBVIOUS
  <2> QED
    BY DEF Init, WatchInv, Looks, Idle
<1>2. TypeInv /\ WatchInv /\ [Next]_vars => TypeInv' /\ WatchInv'
  BY NextType, NextWatch
<1> DEFINE Unskipped ==
      \A d \in Instants : ledger'[d]["skipped"] > ledger[d]["skipped"]
        => \A p \in up : ~(ArmedFor(p, "cron") /\ armed[p].at = d) /\ tick[p].fire # d
<1>3. TypeInv /\ WatchInv /\ [Next]_vars => Unskipped
  <2> SUFFICES ASSUME TypeInv, WatchInv, [Next]_vars, NEW d \in Instants,
                      ledger'[d]["skipped"] > ledger[d]["skipped"], NEW p \in up
               PROVE  ~(ArmedFor(p, "cron") /\ armed[p].at = d) /\ tick[p].fire # d
    OBVIOUS
  <2>1. PICK q \in Procs : tick[q].at = "note" /\ d = Min(tick[q].skip)
    BY SkipWritten
  <2>2. tick[q].skip # {} /\ tick[q].skip \in SUBSET Instants
    BY <2>1 DEF TypeInv, TypeOK, Staged, Busy
  <2>3. d \in tick[q].skip
    BY <2>1, <2>2, LeastInstant
  <2>4. d <= clock - Stall /\ d \in Nat /\ d # 0 /\ clock \in Nat /\ Stall \in Nat /\ p \in Procs
    BY <2>3, Constants, NumberAssumption DEF WatchInv, Looks, TypeInv, TypeOK
  <2>5. /\ clock - beat[p] <= Stall /\ beat[p] \in Nat
        /\ ArmedFor(p, "cron") => armed[p].at > beat[p]
        /\ tick[p].fire # 0 => tick[p].fire > clock - Stall
    BY <2>4, Constants DEF WatchInv, Looks, TypeInv, TypeOK
  <2> QED
    BY <2>4, <2>5
<1>4. Spec => [][Unskipped]_vars
  BY <1>1, <1>2, <1>3, InitType, PTL DEF Spec
<1> QED
  BY <1>4 DEF LiveUnskipped

(***************************************************************************)
(* An edit runs nothing.  What a server has armed for the configuration in  *)
(* the store was armed since that came into force, as an edit is the last:  *)
(* so what it comes to fire was due when its instant came.                  *)
(***************************************************************************)

\* Servers on one clock, policy skip, one edit at most; of several interval grids the
\* new one's last instant would be run as if the old one had come to it.
EditedOnce ==
  /\ Misfire = "skip" /\ Desktops = {} /\ MaxEdits <= 1
  /\ \A p \in Procs : Skew[p] = 0
  /\ OneGrid

\* d has come, and was due under a configuration in force.
WasDue(d) == /\ d \in Instants /\ d <= clock
             /\ \E c \in inForce[d] : d \in DueOf[c] /\ Kind[c] # "off"

\* What is armed for c comes, or has come, due under c.
Stands(c, at) ==
  /\ Kind[c] = "cron" => at \in DueOf[c] /\ (at <= clock => c \in inForce[at])
  /\ Kind[c] = "interval" => \A d \in DueOf[c] : at < d /\ d <= clock => c \in inForce[d]

ArmedRight(p) ==
  /\ armed[p].cfg = store.cfg => Stands(armed[p].cfg, armed[p].at)
  /\ budget["edits"] > 0 => armed[p].cfg \in {None, store.cfg}
FiresRight(p) == /\ tick[p].run = {} /\ chase[p].at = "off"
                 /\ tick[p].fire # 0 => WasDue(tick[p].fire)

EditInv ==
  /\ budget["edits"] <= 1
  /\ \A p \in Procs : ArmedRight(p) /\ FiresRight(p)
  /\ \A j \in jobs : j.job.kind = "dispatch" /\ WasDue(j.job.at)
  /\ \A d \in Instants \ {Anchor} : runs[d] > 0 => WasDue(d)

\* What has come due stays so: time goes on, and the past keeps what was in force.
LEMMA StaysDue ==
  ASSUME TypeInv, [Next]_vars
  PROVE  /\ clock \in Nat /\ clock' \in Nat /\ clock <= clock'
         /\ \A d \in Instants : d <= clock => inForce[d] \subseteq inForce'[d]
         /\ \A d : WasDue(d) => WasDue(d)'
<1> USE DEF shared, local, history
<1>1. clock \in Nat /\ inForce \in [Instants -> SUBSET Configs]
  BY Constants DEF TypeInv, TypeOK
<1>2. CASE Elapse
  <2>1. clock' = clock + 1 /\ inForce' = [inForce EXCEPT ![clock'] = {store.cfg}]
    BY <1>2 DEF Elapse
  <2>2. \A d \in Instants : d <= clock => inForce'[d] = inForce[d]
    BY <1>1, <2>1, Constants
  <2>3. clock' \in Nat /\ clock <= clock' /\ \A d \in Instants : d <= clock => d <= clock'
    BY <1>1, <2>1, Constants
  <2>4. ASSUME NEW d, WasDue(d) PROVE WasDue(d)'
    <3>1. d \in Instants /\ d <= clock' /\ inForce'[d] = inForce[d]
      BY <2>2, <2>3, <2>4 DEF WasDue
    <3> QED
      BY <2>4, <3>1 DEF WasDue
  <2> QED
    BY <1>1, <2>2, <2>3, <2>4
<1>3. ASSUME NEW c \in Configs, Edit(c)
      PROVE  clock' = clock /\ \A d \in Instants : inForce[d] \subseteq inForce'[d]
  BY <1>1, <1>3 DEF Edit
<1>4. CASE \E c \in Configs : Edit(c)
  BY <1>1, <1>3, <1>4 DEF WasDue
<1>5. CASE UNCHANGED <<clock, inForce>>
  BY <1>1, <1>5 DEF WasDue
<1>6. ASSUME NEW p \in Servers, ServerTick(p) \/ ChaseStep(p) PROVE UNCHANGED <<clock, inForce>>
  BY <1>6 DEF ServerTick, TickOff, TickCron, TickInterval, DecideSkipped, NoteSkipped, TakeTurn,
       NothingToFire, TakeArmed, RecordFired, Dispatch, ChaseStep, ChaseTake, ChaseRecord, ChaseEnds
<1>7. ASSUME NEW p \in Desktops, DesktopStep(p) PROVE UNCHANGED <<clock, inForce>>
  BY <1>7 DEF DesktopStep, DesktopClaims, DesktopTakes, DesktopSaves
<1>8. ASSUME NEW j \in jobs, JobStep(j) PROVE UNCHANGED <<clock, inForce>>
  BY <1>8 DEF JobStep, RunStarts, RunRefused, RunEnds
<1>9. ASSUME NEW p \in Procs, Boot(p) \/ Crash(p) PROVE UNCHANGED <<clock, inForce>>
  BY <1>9 DEF Boot, Crash
<1> QED
  BY <1>2, <1>4, <1>5, <1>6, <1>7, <1>8, <1>9 DEF Next, vars

\* What stood stands, as long as the store says the same, but for a new instant of
\* the clock: then what the store says is in force.
LEMMA StandsOn ==
  ASSUME TypeInv, NEW c \in Configs, NEW at \in 0..MaxTime, Stands(c, at), c = store.cfg,
         \/ UNCHANGED <<clock, inForce>>
         \/ clock' = clock + 1 /\ inForce' = [inForce EXCEPT ![clock'] = {store.cfg}]
                               /\ clock' \in Instants
  PROVE  Stands(c, at)'
<1>1. /\ clock \in Nat /\ inForce \in [Instants -> SUBSET Configs] /\ at \in Nat
      /\ DueOf[c] \subseteq Instants
  BY Constants, ConfigAssumption DEF TypeInv, TypeOK
<1>2. CASE UNCHANGED <<clock, inForce>>
  BY <1>2 DEF Stands
<1>3. CASE /\ clock' = clock + 1 /\ inForce' = [inForce EXCEPT ![clock'] = {store.cfg}]
           /\ clock' \in Instants
  <2>1. \A d \in Instants : d <= clock' => d = clock' \/ d <= clock
    BY <1>1, <1>3, Constants
  <2>2. \A d \in Instants : d # clock' => inForce'[d] = inForce[d]
    BY <1>1, <1>3
  <2>3. inForce'[clock'] = {store.cfg}
    BY <1>1, <1>3
  <2>4. \A d \in Instants : d <= clock' /\ (d <= clock => c \in inForce[d]) => c \in inForce'[d]
    <3> SUFFICES ASSUME NEW d \in Instants, d <= clock', d <= clock => c \in inForce[d]
                 PROVE  c \in inForce'[d]
      OBVIOUS
    <3>1. CASE d = clock'
      BY <2>3, <3>1
    <3>2. CASE d # clock'
      BY <2>1, <2>2, <3>2
    <3> QED
      BY <3>1, <3>2
  <2>5. Kind[c] = "cron" => at \in DueOf[c] /\ (at <= clock' => c \in inForce'[at])
    BY <1>1, <2>4 DEF Stands
  <2>6. Kind[c] = "interval" => \A d \in DueOf[c] : at < d /\ d <= clock' => c \in inForce'[d]
    BY <1>1, <2>4 DEF Stands
  <2> QED
    BY <2>5, <2>6 DEF Stands
<1> QED
  BY <1>2, <1>3

\* A tick that begins: what it arms is to come, or behind it; what it fires had come.
LEMMA TickArms ==
  ASSUME EditedOnce, TypeInv, EditInv, NEW p \in Servers, TickCron(p) \/ TickInterval(p) \/ TickOff(p)
  PROVE  /\ \/ armed'[p] = armed[p]
            \/ armed'[p].cfg = None
            \/ armed'[p].cfg = store.cfg /\ Stands(store.cfg, armed'[p].at)
         /\ tick'[p].run = {}
         /\ tick'[p].fire # 0 => WasDue(tick'[p].fire)
         /\ \A q \in Procs : q # p => armed'[q] = armed[q] /\ tick'[q] = tick[q]
<1> USE DEF shared, local, history
<1> DEFINE c == store.cfg
<1>0. /\ p \in Procs /\ c \in Configs /\ clock \in 0..MaxTime /\ clock \in Nat /\ Now(p) = clock
      /\ armed \in [Procs -> Arming] /\ tick \in [Procs -> Busy]
      /\ inForce \in [Instants -> SUBSET Configs] /\ DueOf[c] \in SUBSET Instants
      /\ ArmedRight(p) /\ FiresRight(p)
  BY Constants, ConfigAssumption DEF TypeInv, TypeOK, EditedOnce, Now, EditInv
<1>1. \A q \in Procs : q # p => armed'[q] = armed[q] /\ tick'[q] = tick[q]
  BY <1>0 DEF TickCron, TickInterval, TickOff, Arm, SetTick
<1>2. CASE TickOff(p)
  <2>1. armed'[p].cfg = None /\ tick'[p] = tick[p]
    BY <1>0, <1>2 DEF TickOff, Unarmed
  <2>2. tick[p].run = {} /\ (tick[p].fire # 0 => WasDue(tick[p].fire))
    BY <1>0 DEF FiresRight
  <2> QED
    BY <1>1, <2>1, <2>2
<1>3. CASE TickCron(p)
  <2> DEFINE due == IF ArmedFor(p, "cron") THEN armed[p].at ELSE 0
             over == CatchUp(c, Horizon(Now(p), due))
             next == NextAfter(c, Now(p))
  <2>1. /\ Kind[c] = "cron"
        /\ IF armed[p].cfg = c /\ ~Fires(p, c) THEN UNCHANGED armed ELSE Arm(p, c, next)
        /\ SetTick(p, [at |-> "decide", skip |-> over \ Wanted(over), run |-> Wanted(over),
                       fire |-> IF Fires(p, c) THEN due ELSE 0])
    BY <1>3 DEF TickCron
  <2>2. tick'[p].run = Wanted(over) /\ tick'[p].fire = IF Fires(p, c) THEN due ELSE 0
    BY <1>0, <2>1 DEF SetTick
  <2>3. Wanted(over) = {}
    BY DEF Wanted, EditedOnce
  <2>4. Fires(p, c) => WasDue(due)
    <3> SUFFICES ASSUME Fires(p, c) PROVE WasDue(due)
      OBVIOUS
    <3>1. armed[p].cfg = c /\ clock >= armed[p].at /\ due = armed[p].at
      BY <1>0, <2>1, ConfigAssumption DEF Fires, ArmedFor
    <3>2. armed[p].at \in DueOf[c] /\ c \in inForce[armed[p].at]
      BY <1>0, <2>1, <3>1, Constants DEF ArmedRight, Stands, Arming
    <3> QED
      BY <1>0, <2>1, <3>1, <3>2, Constants DEF WasDue
  <2>5. tick'[p].run = {} /\ (tick'[p].fire # 0 => WasDue(tick'[p].fire))
    BY <2>2, <2>3, <2>4
  <2>6. CASE UNCHANGED armed
    <3>1. armed'[p] = armed[p]
      BY <2>6
    <3> QED
      BY <1>1, <2>5, <3>1
  <2>7. CASE Arm(p, c, next) /\ next = 0
    <3>1. armed'[p].cfg = None
      BY <1>0, <2>1, <2>7 DEF Arm, Unarmed
    <3> QED
      BY <1>1, <2>5, <3>1
  <2>8. CASE Arm(p, c, next) /\ next # 0
    <3>1. armed'[p].cfg = c /\ armed'[p].at = next
      BY <1>0, <2>8 DEF Arm
    <3>2. next \in DueOf[c] /\ next > clock
      <4> DEFINE later == {d \in DueOf[c] : d > clock}
      <4>1. later # {} /\ next = Min(later)
        BY <1>0, <2>8 DEF NextAfter
      <4>2. Min(later) \in later
        BY <1>0, <4>1, LeastInstant
      <4> QED
        BY <4>1, <4>2
    <3> HIDE DEF next
    <3>3. Stands(c, next)
      BY <1>0, <2>1, <3>2, Constants DEF Stands
    <3> QED
      BY <1>1, <2>2, <2>3, <2>4, <3>1, <3>3
  <2> QED
    BY <2>1, <2>6, <2>7, <2>8
<1>4. CASE TickInterval(p)
  <2> DEFINE slot == Slot(c, Now(p))
  <2>1. /\ Kind[c] = "interval" /\ Arm(p, c, slot)
        /\ SetTick(p, IF ArmedFor(p, "interval") /\ armed[p].at < slot
                      THEN [Idle EXCEPT !.at = "slot", !.fire = slot] ELSE Idle)
    BY <1>4 DEF TickInterval
  <2>2. armed'[p].cfg = c /\ armed'[p].at = slot
    BY <1>0, <2>1 DEF Arm
  <2>3. /\ slot \in {d \in DueOf[c] : d <= clock} \cup {0}
        /\ \A d \in DueOf[c] : d <= clock => d <= slot
    BY <1>0, SlotIsLast
  <2>4. tick'[p].run = {}
    BY <1>0, <2>1 DEF SetTick, Idle
  <2>5. tick'[p].fire # 0 => tick'[p].fire = slot /\ ArmedFor(p, "interval") /\ armed[p].at < slot
    BY <1>0, <2>1 DEF SetTick, Idle
  <2> HIDE DEF slot
  <2>6. Stands(c, slot)
    BY <1>0, <2>1, <2>3, Constants DEF Stands
  <2>7. ArmedFor(p, "interval") /\ armed[p].at < slot => WasDue(slot)
    <3> SUFFICES ASSUME ArmedFor(p, "interval"), armed[p].at < slot PROVE WasDue(slot)
      OBVIOUS
    <3>1. armed[p].cfg = c
      BY <1>0, <2>1 DEF ArmedFor, EditedOnce, OneGrid, Arming
    <3>2. slot \in DueOf[c] /\ slot <= clock
      BY <1>0, <2>3, Constants DEF Arming
    <3>3. c \in inForce[slot]
      BY <1>0, <2>1, <3>1, <3>2 DEF ArmedRight, Stands
    <3> QED
      BY <1>0, <2>1, <3>2, <3>3 DEF WasDue
  <2> QED
    BY <1>1, <2>2, <2>4, <2>5, <2>6, <2>7
<1> QED
  BY <1>2, <1>3, <1>4

\* A claim or a record that fails is no edit.
LEMMA EditsLeft ==
  ASSUME TypeInv
  PROVE  /\ \A what \in {"faults", "crashes"} : Spend(what) => budget'["edits"] = budget["edits"]
         /\ \A d, mine : Take(d, mine) => budget'["edits"] = budget["edits"]
         /\ \A d, v : Record(d, v) => budget'["edits"] = budget["edits"]
<1>1. budget \in [Bounds -> Nat] /\ "edits" \in Bounds
  BY DEF TypeInv, TypeOK, Bounds
<1>2. \A what \in {"faults", "crashes"} : Spend(what) => budget'["edits"] = budget["edits"]
  BY <1>1 DEF Spend
<1> QED
  BY <1>2 DEF Take, Record

\* What the other steps of a tick leave: no more to fire than there was.
LEMMA TickFires ==
  ASSUME EditedOnce, TypeInv, EditInv, NEW p \in Servers, ServerTick(p),
         ~(TickCron(p) \/ TickInterval(p) \/ TickOff(p))
  PROVE  /\ UNCHANGED <<armed, chase, runs>> /\ budget'["edits"] = budget["edits"]
         /\ tick'[p].run = {} /\ tick'[p].fire \in {0, tick[p].fire}
         /\ \A q \in Procs : q # p => tick'[q] = tick[q]
         /\ jobs' \subseteq jobs \cup (IF tick[p].fire = 0 THEN {}
                                       ELSE {NewJob(p, tick[p].fire, "dispatch")})
<1> USE DEF shared, local, history
<1>0. /\ p \in Procs /\ tick \in [Procs -> Busy] /\ tick[p].run = {}
      /\ tick[p].at = "dispatch" => tick[p].fire # 0
  BY Constants DEF TypeInv, TypeOK, Staged, EditInv, FiresRight
<1>a. Idle.run = {} /\ Idle.fire = 0
  BY DEF Idle
<1>b. tick[p] \in Busy
  BY <1>0
<1>1. CASE DecideSkipped(p)
  <2>1. \E mine \in BOOLEAN :
           /\ Take(Min(tick[p].skip), mine)
           /\ SetTick(p, IF mine THEN [tick[p] EXCEPT !.at = "note"]
                         ELSE [tick[p] EXCEPT !.skip = @ \ {Min(@)}])
    BY <1>1 DEF DecideSkipped
  <2>2. /\ tick'[p].run = {} /\ tick'[p].fire = tick[p].fire
        /\ \A q \in Procs : q # p => tick'[q] = tick[q]
    BY <1>0, <2>1 DEF SetTick, Busy
  <2>3. UNCHANGED <<armed, chase, runs, jobs>> /\ budget'["edits"] = budget["edits"]
    BY <1>1, EditsLeft DEF DecideSkipped
  <2> QED
    BY <2>2, <2>3
<1>2. CASE NoteSkipped(p)
  <2>1. /\ tick'[p].run = {} /\ tick'[p].fire = tick[p].fire
        /\ \A q \in Procs : q # p => tick'[q] = tick[q]
    BY <1>0, <1>2 DEF NoteSkipped, SetTick, Busy
  <2>2. UNCHANGED <<armed, chase, runs, jobs>> /\ budget'["edits"] = budget["edits"]
    BY <1>2, EditsLeft DEF NoteSkipped
  <2> QED
    BY <2>1, <2>2
<1>3. CASE NothingToFire(p)
  <2>1. tick'[p].run = {} /\ tick'[p].fire = 0 /\ \A q \in Procs : q # p => tick'[q] = tick[q]
    BY <1>0, <1>a, <1>3 DEF NothingToFire, SetTick
  <2> QED
    BY <1>3, <2>1 DEF NothingToFire
<1>4. CASE TakeArmed(p)
  <2>1. \E mine \in BOOLEAN :
           /\ Take(tick[p].fire, mine)
           /\ SetTick(p, IF ~mine THEN Idle
                         ELSE [tick[p] EXCEPT !.at = IF @ = "slot" THEN "dispatch" ELSE "record"])
    BY <1>4 DEF TakeArmed
  <2>2. /\ tick'[p].run = {} /\ tick'[p].fire \in {0, tick[p].fire}
        /\ \A q \in Procs : q # p => tick'[q] = tick[q]
    BY <1>0, <1>a, <2>1 DEF SetTick, Busy
  <2>3. UNCHANGED <<armed, chase, runs, jobs>> /\ budget'["edits"] = budget["edits"]
    BY <1>4, EditsLeft DEF TakeArmed
  <2> QED
    BY <2>2, <2>3
<1>5. CASE RecordFired(p)
  <2>1. /\ tick'[p].run = {} /\ tick'[p].fire = tick[p].fire
        /\ \A q \in Procs : q # p => tick'[q] = tick[q]
    BY <1>0, <1>5 DEF RecordFired, SetTick, Busy
  <2>2. UNCHANGED <<armed, chase, runs, jobs>> /\ budget'["edits"] = budget["edits"]
    BY <1>5, EditsLeft DEF RecordFired
  <2> QED
    BY <2>1, <2>2
<1>6. CASE Dispatch(p)
  <2>1. tick'[p].run = {} /\ tick'[p].fire = 0 /\ \A q \in Procs : q # p => tick'[q] = tick[q]
    BY <1>0, <1>a, <1>6 DEF Dispatch, SetTick
  <2>2. tick[p].fire # 0 /\ jobs' \subseteq jobs \cup {NewJob(p, tick[p].fire, "dispatch")}
    BY <1>0, <1>6 DEF Dispatch, Ticking
  <2> QED
    BY <1>6, <2>1, <2>2 DEF Dispatch
<1> QED
  BY <1>0, <1>1, <1>2, <1>3, <1>4, <1>5, <1>6 DEF ServerTick, TakeTurn

LEMMA NextEdit ==
  ASSUME EditedOnce, TypeInv, EditInv, [Next]_vars
  PROVE  EditInv'
<1> USE DEF shared, local, history
<1> DEFINE Few   == budget'["edits"] <= 1
           Arms  == \A q \in Procs : ArmedRight(q)'
           Fire  == \A q \in Procs : FiresRight(q)'
           Work  == \A j \in jobs' : j.job.kind = "dispatch" /\ WasDue(j.job.at)'
           Ran   == \A d \in Instants \ {Anchor} : runs'[d] > 0 => WasDue(d)'
<1>0. /\ budget \in [Bounds -> Nat] /\ "edits" \in Bounds /\ budget["edits"] \in Nat
      /\ budget["edits"] <= 1 /\ store.cfg \in Configs /\ None \notin Configs
      /\ armed \in [Procs -> Arming] /\ tick \in [Procs -> Busy] /\ chase \in [Procs -> Chase]
      /\ runs \in [Instants -> Nat] /\ up \subseteq Procs
      /\ \A q \in Procs : ArmedRight(q) /\ FiresRight(q)
      /\ \A j \in jobs : j.job.kind = "dispatch" /\ WasDue(j.job.at)
      /\ \A d \in Instants \ {Anchor} : runs[d] > 0 => WasDue(d)
  BY ConfigAssumption DEF TypeInv, TypeOK, EditInv, Bounds
<1>1. \A d : WasDue(d) => WasDue(d)'
  BY StaysDue
<1>2. ASSUME NEW q \in Procs, armed'[q] = armed[q], store'.cfg = store.cfg,
             budget'["edits"] = budget["edits"], UNCHANGED <<clock, inForce>>
      PROVE  ArmedRight(q)'
  <2>1. armed[q].cfg = store.cfg => Stands(armed[q].cfg, armed[q].at)
    BY <1>0 DEF ArmedRight
  <2>2. armed'[q].cfg = store'.cfg => Stands(armed[q].cfg, armed[q].at)'
    BY <1>2, <2>1 DEF Stands
  <2>3. budget'["edits"] > 0 => armed'[q].cfg \in {None, store'.cfg}
    BY <1>0, <1>2 DEF ArmedRight
  <2> QED
    BY <2>2, <2>3 DEF ArmedRight
<1>3. ASSUME NEW q \in Procs, armed'[q].cfg = None, store'.cfg = store.cfg
      PROVE  ArmedRight(q)'
  BY <1>0, <1>3 DEF ArmedRight
<1>4. ASSUME NEW q \in Procs, tick'[q] = tick[q], chase'[q].at = "off" PROVE FiresRight(q)'
  <2>1. tick[q].run = {} /\ (tick[q].fire # 0 => WasDue(tick[q].fire))
    BY <1>0 DEF FiresRight
  <2>2. tick'[q].fire # 0 => WasDue(tick[q].fire)'
    BY <1>1, <1>4, <2>1 DEF WasDue
  <2> QED
    BY <1>4, <2>1, <2>2 DEF FiresRight
<1>5. ASSUME jobs' \subseteq jobs PROVE Work
  BY <1>0, <1>1, <1>5
<1>6. ASSUME UNCHANGED runs PROVE Ran
  BY <1>0, <1>1, <1>6
<1>7. ASSUME UNCHANGED <<tick, chase>> PROVE Fire
  BY <1>0, <1>4, <1>7 DEF FiresRight
<1>8. ASSUME UNCHANGED <<armed, clock, inForce>>, store'.cfg = store.cfg,
             budget'["edits"] = budget["edits"]
      PROVE  Arms /\ Few
  BY <1>0, <1>2, <1>8
<1>9. ASSUME NEW p \in Servers, TickCron(p) \/ TickInterval(p) \/ TickOff(p) PROVE EditInv'
  <2>1. /\ UNCHANGED <<clock, inForce, store, budget, jobs, runs, chase>> /\ p \in Procs
    BY <1>9, Constants DEF TickCron, TickInterval, TickOff
  <2>2. /\ \/ armed'[p] = armed[p]
           \/ armed'[p].cfg = None
           \/ armed'[p].cfg = store.cfg /\ Stands(store.cfg, armed'[p].at)
        /\ tick'[p].run = {} /\ (tick'[p].fire # 0 => WasDue(tick'[p].fire))
        /\ \A q \in Procs : q # p => armed'[q] = armed[q] /\ tick'[q] = tick[q]
    BY <1>9, TickArms
  <2>3. ASSUME armed'[p].cfg = store.cfg /\ Stands(store.cfg, armed'[p].at) PROVE ArmedRight(p)'
    BY <2>1, <2>3 DEF ArmedRight, Stands
  <2>4. Arms
    BY <1>2, <1>3, <2>1, <2>2, <2>3
  <2>5. FiresRight(p)'
    <3>1. tick'[p].fire # 0 => WasDue(tick[p].fire)'
      BY <1>1, <2>2 DEF WasDue
    <3>2. chase'[p].at = "off"
      BY <1>0, <2>1 DEF FiresRight
    <3> QED
      BY <2>2, <3>1, <3>2 DEF FiresRight
  <2>6. Fire
    <3>1. \A q \in Procs : chase'[q].at = "off"
      BY <1>0, <2>1 DEF FiresRight
    <3> QED
      BY <1>4, <2>2, <2>5, <3>1
  <2> QED
    BY <1>0, <1>5, <1>6, <2>1, <2>4, <2>6 DEF EditInv
<1>10. ASSUME NEW p \in Servers, ServerTick(p), ~(TickCron(p) \/ TickInterval(p) \/ TickOff(p))
       PROVE  EditInv'
  <2>1. /\ UNCHANGED <<armed, chase, runs>> /\ budget'["edits"] = budget["edits"]
        /\ tick'[p].run = {} /\ tick'[p].fire \in {0, tick[p].fire}
        /\ \A q \in Procs : q # p => tick'[q] = tick[q]
        /\ jobs' \subseteq jobs \cup (IF tick[p].fire = 0 THEN {}
                                      ELSE {NewJob(p, tick[p].fire, "dispatch")})
        /\ p \in Procs
    BY <1>10, TickFires, Constants
  <2>2. UNCHANGED <<clock, inForce, store>>
    BY <1>10 DEF ServerTick, DecideSkipped, NoteSkipped, TakeTurn, NothingToFire, TakeArmed,
                 RecordFired, Dispatch
  <2>3. tick[p].fire # 0 => WasDue(tick[p].fire)
    BY <1>0, <2>1 DEF FiresRight
  <2>4. Work
    <3>1. /\ NewJob(p, tick[p].fire, "dispatch").job.kind = "dispatch"
          /\ NewJob(p, tick[p].fire, "dispatch").job.at = tick[p].fire
      BY DEF NewJob
    <3> QED
      BY <1>0, <1>1, <2>1, <2>3, <3>1
  <2>5. \A q \in Procs : chase'[q].at = "off"
    BY <1>0, <2>1 DEF FiresRight
  <2>6. FiresRight(p)'
    <3>1. tick'[p].fire # 0 => WasDue(tick[p].fire)'
      BY <1>1, <2>1, <2>3 DEF WasDue
    <3> QED
      BY <2>1, <2>5, <3>1 DEF FiresRight
  <2>7. Fire
    BY <1>4, <2>1, <2>5, <2>6
  <2> QED
    BY <1>6, <1>8, <2>1, <2>2, <2>4, <2>7 DEF EditInv
<1>11. ASSUME NEW p \in Servers, ChaseStep(p) PROVE FALSE
  BY <1>0, <1>11, Constants DEF ChaseStep, ChaseTake, ChaseRecord, ChaseEnds, FiresRight
<1>12. ASSUME NEW j \in jobs, JobStep(j) PROVE EditInv'
  <2>1. j.job.kind = "dispatch" /\ WasDue(j.job.at)
    BY <1>0, <1>12
  <2>2. CASE RunStarts(j)
    <3>1. /\ UNCHANGED <<clock, inForce, store, budget, armed, tick, chase>>
          /\ jobs' = (jobs \ {j}) \cup {[j EXCEPT !.at = "run", !.began = clock]}
          /\ runs' = [runs EXCEPT ![j.job.at] = @ + 1]
      BY <2>2 DEF RunStarts
    <3>2. j \in [job : Job, at : {"wait", "run"}, began : 0..MaxTime]
      BY <1>12 DEF TypeInv, TypeOK
    <3>3. [j EXCEPT !.at = "run", !.began = clock].job = j.job
      BY <3>2
    <3>4. Work
      BY <1>0, <1>1, <2>1, <3>1, <3>3
    <3>5. Ran
      <4> SUFFICES ASSUME NEW d \in Instants \ {Anchor}, runs'[d] > 0 PROVE WasDue(d)'
        OBVIOUS
      <4>1. CASE d = j.job.at
        BY <1>1, <2>1, <4>1
      <4>2. CASE d # j.job.at
        BY <1>0, <1>1, <3>1, <4>2
      <4> QED
        BY <4>1, <4>2
    <3> QED
      BY <1>7, <1>8, <3>1, <3>4, <3>5 DEF EditInv
  <2>3. CASE RunRefused(j)
    <3>1. UNCHANGED <<clock, inForce, store, budget, armed, tick, runs, chase>> /\ jobs' \subseteq jobs
      BY <2>1, <2>3 DEF RunRefused, Leaves
    <3> QED
      BY <1>5, <1>6, <1>7, <1>8, <3>1 DEF EditInv
  <2>4. CASE RunEnds(j)
    <3>1. UNCHANGED <<clock, inForce, budget, armed, tick, runs, chase>> /\ jobs' \subseteq jobs
      BY <2>1, <2>4 DEF RunEnds, Leaves
    <3>2. store'.cfg = store.cfg
      BY <2>1, <2>4 DEF RunEnds, TypeInv, TypeOK
    <3> QED
      BY <1>5, <1>6, <1>7, <1>8, <3>1, <3>2 DEF EditInv
  <2> QED
    BY <1>12, <2>2, <2>3, <2>4 DEF JobStep
<1>13. ASSUME NEW c \in Configs, Edit(c) PROVE EditInv'
  <2>1. /\ UNCHANGED <<clock, armed, tick, chase, jobs, runs>> /\ store'.cfg = c /\ c # store.cfg
        /\ budget["edits"] > 0 /\ budget' = [budget EXCEPT !["edits"] = @ - 1]
    BY <1>13 DEF Edit, Spend, TypeInv, TypeOK
  <2>2. budget'["edits"] = 0
    BY <1>0, <2>1
  <2>3. \A q \in Procs : armed'[q].cfg # store'.cfg
    BY <1>0, <2>1 DEF ArmedRight
  <2>4. Arms
    BY <2>2, <2>3 DEF ArmedRight
  <2> QED
    BY <1>5, <1>6, <1>7, <2>1, <2>2, <2>4 DEF EditInv
<1>14. ASSUME NEW p \in Procs, Boot(p) PROVE EditInv'
  <2>1. /\ UNCHANGED <<clock, inForce, store, budget, tick, chase, jobs, runs>>
        /\ armed' = [armed EXCEPT ![p] = Unarmed]
    BY <1>14 DEF Boot, EditedOnce
  <2>2. Arms
    <3> SUFFICES ASSUME NEW q \in Procs PROVE ArmedRight(q)'
      OBVIOUS
    <3>1. CASE q = p
      <4>1. armed'[q].cfg = None
        BY <1>0, <2>1, <3>1 DEF Unarmed
      <4> QED
        BY <1>3, <2>1, <4>1
    <3>2. CASE q # p
      <4>1. armed'[q] = armed[q]
        BY <1>0, <2>1, <3>2
      <4> QED
        BY <1>2, <2>1, <4>1
    <3> QED
      BY <3>1, <3>2
  <2> QED
    BY <1>0, <1>5, <1>6, <1>7, <2>1, <2>2 DEF EditInv
<1>15. ASSUME NEW p \in Procs, Crash(p) PROVE EditInv'
  <2>1. /\ UNCHANGED <<clock, inForce, store, runs>> /\ jobs' \subseteq jobs
        /\ armed' = [armed EXCEPT ![p] = Unarmed] /\ tick' = [tick EXCEPT ![p] = Idle]
        /\ chase' = [chase EXCEPT ![p] = Off] /\ budget'["edits"] = budget["edits"]
    BY <1>15, EditsLeft DEF Crash
  <2>2. Arms
    <3> SUFFICES ASSUME NEW q \in Procs PROVE ArmedRight(q)'
      OBVIOUS
    <3>1. CASE q = p
      <4>1. armed'[q].cfg = None
        BY <1>0, <2>1, <3>1 DEF Unarmed
      <4> QED
        BY <1>3, <2>1, <4>1
    <3>2. CASE q # p
      <4>1. armed'[q] = armed[q]
        BY <1>0, <2>1, <3>2
      <4> QED
        BY <1>2, <2>1, <4>1
    <3> QED
      BY <3>1, <3>2
  <2>3. Fire
    <3> SUFFICES ASSUME NEW q \in Procs PROVE FiresRight(q)'
      OBVIOUS
    <3>1. CASE q = p
      <4>1. tick'[q].run = {} /\ tick'[q].fire = 0 /\ chase'[q].at = "off"
        BY <1>0, <2>1, <3>1 DEF Idle, Off
      <4> QED
        BY <4>1 DEF FiresRight
    <3>2. CASE q # p
      <4>1. tick'[q] = tick[q] /\ chase'[q].at = "off"
        BY <1>0, <2>1, <3>2 DEF FiresRight
      <4> QED
        BY <1>4, <4>1
    <3> QED
      BY <3>1, <3>2
  <2> QED
    BY <1>0, <1>5, <1>6, <2>1, <2>2, <2>3 DEF EditInv
<1>16. ASSUME Elapse PROVE EditInv'
  <2>1. /\ UNCHANGED <<store, budget, armed, tick, chase, jobs, runs>>
        /\ clock' = clock + 1 /\ inForce' = [inForce EXCEPT ![clock'] = {store.cfg}]
        /\ clock' \in Instants
    BY <1>16, Constants DEF Elapse, TypeInv, TypeOK, Instants
  <2>2. Arms
    <3> SUFFICES ASSUME NEW q \in Procs PROVE ArmedRight(q)'
      OBVIOUS
    <3>1. CASE armed[q].cfg = store.cfg
      <4>1. armed[q].cfg \in Configs /\ armed[q].at \in 0..MaxTime
        BY <1>0, <3>1 DEF Arming
      <4>2. Stands(armed[q].cfg, armed[q].at)
        BY <1>0, <3>1 DEF ArmedRight
      <4>3. \A k \in Configs, i \in 0..MaxTime : Stands(k, i) /\ k = store.cfg => Stands(k, i)'
        BY <2>1, StandsOn
      <4>4. Stands(armed[q].cfg, armed[q].at)'
        BY <2>1, <3>1, <4>1, <4>2, <4>3 DEF Stands
      <4> QED
        BY <2>1, <3>1, <4>4 DEF ArmedRight
    <3>2. CASE armed[q].cfg # store.cfg
      BY <1>0, <2>1, <3>2 DEF ArmedRight
    <3> QED
      BY <3>1, <3>2
  <2> QED
    BY <1>0, <1>5, <1>6, <1>7, <2>1, <2>2 DEF EditInv
<1>17. ASSUME UNCHANGED vars PROVE EditInv'
  BY <1>5, <1>6, <1>7, <1>8, <1>17 DEF EditInv, vars
<1>18. ASSUME NEW p \in Desktops, DesktopStep(p) PROVE FALSE
  BY <1>18 DEF EditedOnce
<1> QED
  BY <1>9, <1>10, <1>11, <1>12, <1>13, <1>14, <1>15, <1>16, <1>17, <1>18 DEF Next

\* "The edit is not itself an occurrence": for any number of servers, whatever dies,
\* restarts or cannot be claimed, what is run was due under a configuration in force
\* when its instant came.
THEOREM EditsRunNothing == ASSUME EditedOnce PROVE Spec => []EditRunsNothing
<1>1. Init => EditInv
  <2> SUFFICES ASSUME Init PROVE EditInv
    OBVIOUS
  <2>1. budget["edits"] = MaxEdits /\ MaxEdits \in Nat
    BY Constants DEF Init, Bounds
  <2>2. \A p \in Procs : armed[p].cfg = None /\ store.cfg \in Configs /\ None \notin Configs
    BY ConfigAssumption DEF Init, Unarmed
  <2>3. \A p \in Procs : tick[p].run = {} /\ tick[p].fire = 0 /\ chase[p].at = "off"
    BY DEF Init, Idle, Off
  <2>4. \A d \in Instants \ {Anchor} : runs[d] = 0
    BY DEF Init
  <2>5. \A p \in Procs : ArmedRight(p)
    BY <2>2 DEF ArmedRight
  <2>6. jobs = {}
    BY DEF Init
  <2> QED
    BY <2>1, <2>3, <2>4, <2>5, <2>6 DEF EditInv, EditedOnce, FiresRight
<1>2. TypeInv /\ EditInv /\ [Next]_vars => TypeInv' /\ EditInv'
  BY NextType, NextEdit
<1>3. EditInv => EditRunsNothing
  BY DEF EditInv, EditRunsNothing, WasDue
<1> QED
  BY <1>1, <1>2, <1>3, InitType, PTL DEF Spec

(***************************************************************************)
(* No gaps.  Where no claim or record fails and nothing dies, claims leave  *)
(* nothing behind: what is due before an instant that is taken was taken.   *)
(* For a tick takes in order all it found overdue, and it found all that    *)
(* comes before what it fires and is not on record: the schedule is sparser *)
(* than the allowance, so the horizon lies beyond the occurrence before.    *)
(***************************************************************************)

\* A schedule with a record, of a cron expression sparser than the stall allowance,
\* under policy skip, within the limits of a catch-up, where nothing fails or dies.
Recordable ==
  /\ Misfire = "skip" /\ Desktops = {} /\ MaxCrashes = 0 /\ MaxFaults = 0
  /\ Kind[FirstConfig] = "cron" /\ Anchor # 0
  /\ \A d, e \in DueOf[FirstConfig] : d < e => e - d > Stall
  /\ \A p \in Procs : MaxTime + Skew[p] <= MaxAge
  /\ Cardinality({d \in DueOf[FirstConfig] : d > Anchor}) <= MaxCatchup

Awaited == {d \in DueOf[FirstConfig] : d > Anchor}

\* p has taken d and is about to record it.
Penned(p, d) == \/ tick[p].at = "note" /\ d = Min(tick[p].skip)
                \/ tick[p].at = "record" /\ d = tick[p].fire
\* What p has taken or will take leaves nothing behind that nobody takes.
NothingBehind(p) ==
  /\ tick[p].at \in {"idle", "decide", "note", "record", "dispatch"}
  /\ tick[p].run = {} /\ chase[p].at = "off"
  /\ \A d \in Instants : Penned(p, d) => d <= through
  /\ tick[p].at \in {"decide", "note"} =>
       \A e \in Awaited \ tick[p].skip :
         (\E s \in tick[p].skip \cup {tick[p].fire} : e < s) => e <= through

Unedited ==
  /\ store.cfg = FirstConfig
  /\ \A p \in Procs : NothingBehind(p)
  /\ \A p \in Procs : armed[p].cfg # None =>
       armed[p].cfg = FirstConfig /\ armed[p].at \in DueOf[FirstConfig]
  /\ \A j \in jobs : j.job.kind = "dispatch"
  /\ Recorded(Anchor) /\ \A d \in Instants : Recorded(d) => d <= through
  /\ \A e \in Awaited : e <= through => Recorded(e) \/ \E p \in Procs : Penned(p, e)

GapInv == /\ budget["faults"] = 0 /\ budget["crashes"] = 0 /\ budget["edits"] <= MaxEdits
          /\ budget["edits"] = MaxEdits => Unedited

\* What one reading of the claim is past, a later one is.
LEMMA StaysPast ==
  ASSUME NEW a \in Nat, NEW b \in Nat, a <= b
  PROVE  \A d \in Instants : d <= a => d <= b
BY Constants

\* A record that does not fail puts its instant on record and no other.
LEMMA NotesDown ==
  ASSUME TypeInv, budget["faults"] = 0, NEW d \in Instants, NEW v \in Decisions, Record(d, v)
  PROVE  \A x \in Instants : Recorded(x)' <=> (Recorded(x) \/ x = d)
<1>1. ledger' = [ledger EXCEPT ![d][v] = @ + 1]
  BY DEF Record, Spend
<1>2. /\ ledger \in [Instants -> [Decisions -> Nat]]
      /\ \A x \in Instants : x # d => ledger'[x] = ledger[x]
      /\ \A u \in Decisions : ledger'[d][u] = IF u = v THEN ledger[d][u] + 1 ELSE ledger[d][u]
  BY <1>1 DEF TypeInv, TypeOK
<1>3. Recorded(d)'
  BY <1>2 DEF Recorded
<1>4. \A x \in Instants : x # d => (Recorded(x)' <=> Recorded(x))
  BY <1>2 DEF Recorded
<1> QED
  BY <1>3, <1>4

\* Within the limits of a catch-up, all that is overdue is found or claimed.
LEMMA AllIsFound ==
  ASSUME Recordable, TypeInv, Unedited, NEW h \in Int, h <= MaxAge
  PROVE  \A e \in Awaited : e <= h => e \in CatchUp(FirstConfig, h) \/ e <= through
<1> DEFINE S == {0} \cup {d \in Instants : Recorded(d)}
<1>0. /\ Anchor \in Instants /\ through \in Nat /\ MaxAge \in Nat /\ MaxCatchup \in Nat
      /\ DueOf[FirstConfig] \in SUBSET Instants
  BY Constants, ConfigAssumption, NumberAssumption DEF Recordable, TypeInv, TypeOK
<1>1. Max(S) \in S /\ \A y \in S : Max(S) >= y
  <2>1. S \in SUBSET (0..MaxTime) /\ S # {}
    <3>1. 0 \in 0..MaxTime /\ Instants \subseteq 0..MaxTime
      BY Constants
    <3> QED
      BY <3>1
  <2> HIDE DEF S
  <2> QED
    BY <2>1, Constants, MaxIsGreatest
<1>2. LastRecorded \in S /\ LastRecorded >= Anchor
  <2>1. Anchor \in S
    BY <1>0 DEF Unedited
  <2>2. LastRecorded = Max(S)
    BY DEF LastRecorded
  <2> HIDE DEF S
  <2> QED
    BY <1>1, <2>1, <2>2
<1>3. LastRecorded \in Instants /\ LastRecorded <= through
  BY <1>0, <1>2, Constants DEF Unedited
<1> HIDE DEF S
<1> SUFFICES ASSUME NEW e \in Awaited, e <= h, ~(e <= through)
             PROVE  e \in CatchUp(FirstConfig, h)
  OBVIOUS
<1>4. e \in Instants /\ e \in DueOf[FirstConfig] /\ e > LastRecorded /\ e > h - MaxAge /\ e > Anchor
  BY <1>0, <1>3, Constants DEF Awaited, Instants
<1> DEFINE due   == {d \in DueOf[FirstConfig] : d > LastRecorded /\ d > h - MaxAge /\ d <= h}
           later == {d \in due : d > e}
<1>5. later \subseteq Awaited \ {e} /\ e \in due
  <2>1. e \in due
    BY <1>4
  <2>2. \A d \in later : d \in DueOf[FirstConfig] /\ d > e
    OBVIOUS
  <2>3. ASSUME NEW d \in later PROVE d > Anchor /\ d # e
    <3>1. d \in Nat /\ d > e /\ e \in Nat /\ Anchor \in Nat
      BY <1>0, <1>4, <2>2, <2>3, Constants
    <3> QED
      BY <1>4, <3>1
  <2> QED
    BY <2>1, <2>2, <2>3 DEF Awaited
<1>6. IsFiniteSet(Awaited)
  <2>1. Awaited \subseteq 1..MaxTime
    BY <1>0 DEF Awaited, Instants
  <2>2. 1 \in Int /\ MaxTime \in Int
    BY Constants
  <2>3. IsFiniteSet(1..MaxTime)
    BY <2>2, FS_Interval
  <2> QED
    BY <2>1, <2>3, FS_Subset
<1>7. Cardinality(later) < Cardinality(Awaited)
  <2> HIDE DEF later
  <2>1. IsFiniteSet(Awaited \ {e}) /\ Cardinality(Awaited \ {e}) = Cardinality(Awaited) - 1
    BY <1>6, FS_RemoveElement
  <2>2. IsFiniteSet(later) /\ Cardinality(later) <= Cardinality(Awaited \ {e})
    BY <1>5, <2>1, FS_Subset
  <2> QED
    BY <1>6, <2>1, <2>2, FS_CardinalityType
<1>8. Cardinality(later) < MaxCatchup
  <2> HIDE DEF later
  <2>1. Cardinality(Awaited) <= MaxCatchup /\ Cardinality(Awaited) \in Nat
    BY <1>6, FS_CardinalityType DEF Recordable, Awaited
  <2>2. Cardinality(later) \in Nat
    BY <1>5, <1>6, FS_Subset, FS_CardinalityType
  <2> QED
    BY <1>0, <1>7, <2>1, <2>2
<1>9. e \in Missed(FirstConfig, LastRecorded, h)
  BY <1>5, <1>8 DEF Missed
<1> QED
  BY <1>0, <1>3, <1>9, Constants DEF CatchUp

\* A tick finds all that comes before what it fires or skips, but what was claimed.
LEMMA TickFinds ==
  ASSUME Recordable, TypeInv, Unedited, NEW p \in Servers, TickCron(p)
  PROVE  /\ tick'[p].at = "decide" /\ tick'[p].run = {}
         /\ \A e \in Awaited \ tick'[p].skip :
              (\E s \in tick'[p].skip \cup {tick'[p].fire} : e < s) => e <= through
         /\ armed'[p].cfg # None =>
              armed'[p].cfg = FirstConfig /\ armed'[p].at \in DueOf[FirstConfig]
<1> USE DEF shared, local, history
<1> DEFINE c    == FirstConfig
           due  == IF ArmedFor(p, "cron") THEN armed[p].at ELSE 0
           h    == Horizon(Now(p), due)
           over == CatchUp(c, h)
           next == NextAfter(c, Now(p))
<1>0. /\ p \in Procs /\ c \in Configs /\ Now(p) \in Nat /\ armed \in [Procs -> Arming]
      /\ tick \in [Procs -> Busy] /\ DueOf[c] \in SUBSET Instants /\ Stall \in Nat
      /\ Kind[c] = "cron" /\ store.cfg = c /\ due \in Nat /\ None \notin Configs /\ MaxAge \in Nat
      /\ Now(p) <= MaxAge /\ armed[p].at \in 0..MaxTime
  <2>1. p \in Procs /\ armed \in [Procs -> Arming] /\ clock \in 0..MaxTime /\ Skew[p] \in Nat
    BY Constants, ProcAssumption DEF TypeInv, TypeOK
  <2>2. Now(p) \in Nat /\ Now(p) <= MaxAge
    BY <2>1, Constants, NumberAssumption DEF Now, Recordable
  <2>3. armed[p].at \in 0..MaxTime
    BY <2>1 DEF Arming
  <2> QED
    BY <2>1, <2>2, <2>3, Constants, ConfigAssumption, NumberAssumption
       DEF TypeInv, TypeOK, Recordable, Unedited
<1>1. /\ IF armed[p].cfg = c /\ ~Fires(p, c) THEN UNCHANGED armed ELSE Arm(p, c, next)
      /\ SetTick(p, [at |-> "decide", skip |-> over \ Wanted(over), run |-> Wanted(over),
                     fire |-> IF Fires(p, c) THEN due ELSE 0])
  BY <1>0 DEF TickCron
<1>2. Wanted(over) = {}
  BY DEF Wanted, Recordable
<1>3. /\ tick'[p].at = "decide" /\ tick'[p].run = {} /\ tick'[p].skip = over
      /\ tick'[p].fire = IF Fires(p, c) THEN due ELSE 0
  <2> HIDE DEF over, due
  <2> QED
    BY <1>0, <1>1, <1>2 DEF SetTick
<1>4. /\ h \in Int /\ h <= Now(p) - Stall
      /\ h = Now(p) - Stall \/ (due # 0 /\ h = due - 1)
  <2> HIDE DEF due
  <2>1. \A now, at \in Int :
          /\ Horizon(now, at) \in Int /\ Horizon(now, at) <= now - Stall
          /\ \/ Horizon(now, at) = now - Stall
             \/ at # 0 /\ Horizon(now, at) = at - 1
    BY HorizonReach
  <2>2. Now(p) \in Int /\ due \in Int
    BY <1>0
  <2> QED
    BY <2>1, <2>2
<1>5. Fires(p, c) => /\ due = armed[p].at /\ due \in DueOf[c] /\ due <= Now(p)
  BY <1>0, <1>1, Constants DEF Fires, ArmedFor, Unedited
<1> HIDE DEF h
<1>6. \A e \in Awaited : e <= h => e \in over \/ e <= through
  BY <1>0, <1>4, AllIsFound
<1>7. \A d \in over : d \in Instants /\ d <= h
  BY <1>0, <1>4, FoundInTime
<1> HIDE DEF over, due
<1>8. ASSUME NEW e \in Awaited, Fires(p, c), e < due PROVE e <= h
  <2>1. e \in DueOf[c] /\ e \in Nat /\ due - e > Stall
    BY <1>0, <1>5, <1>8, Constants DEF Awaited, Recordable
  <2>2. e <= Now(p) - Stall /\ e <= due - 1
    BY <1>0, <1>5, <1>8, <2>1
  <2> QED
    BY <1>4, <2>2
<1>9. ASSUME NEW e \in Awaited \ over, NEW s \in over \cup {tick'[p].fire}, e < s
      PROVE  e <= through
  <2>0. e \in Awaited /\ e \in Nat
    BY <1>0, <1>9, Constants DEF Awaited
  <2>1. CASE s \in over
    <3>1. s \in Nat /\ s <= h
      BY <1>7, <2>1, Constants
    <3>2. e <= h
      BY <1>4, <1>9, <2>0, <3>1
    <3> QED
      BY <1>6, <1>9, <3>2
  <2>2. CASE s = tick'[p].fire /\ Fires(p, c)
    BY <1>3, <1>6, <1>8, <1>9, <2>2
  <2>3. CASE s = tick'[p].fire /\ ~Fires(p, c)
    BY <1>3, <1>9, <2>0, <2>3
  <2> QED
    BY <1>9, <2>1, <2>2, <2>3
<1>10. armed'[p].cfg # None => armed'[p].cfg = c /\ armed'[p].at \in DueOf[c]
  <2>1. CASE UNCHANGED armed
    BY <1>0, <2>1 DEF Unedited
  <2>2. CASE Arm(p, c, next) /\ next = 0
    BY <1>0, <2>2 DEF Arm, Unarmed
  <2>3. CASE Arm(p, c, next) /\ next # 0
    <3> DEFINE later == {d \in DueOf[c] : d > Now(p)}
    <3>1. later # {} /\ next = Min(later) /\ later \in SUBSET Instants
      BY <1>0, <2>3 DEF NextAfter
    <3>2. Min(later) \in later
      BY <3>1, LeastInstant
    <3>3. next \in DueOf[c]
      BY <3>1, <3>2
    <3> HIDE DEF next
    <3> QED
      BY <1>0, <2>3, <3>3 DEF Arm
  <2> QED
    BY <1>1, <2>1, <2>2, <2>3
<1> QED
  BY <1>3, <1>9, <1>10

\* A tick, step by step: what it comes past was taken, what it takes it records.
LEMMA TickGap ==
  ASSUME Recordable, TypeInv, budget["faults"] = 0, Unedited, NEW p \in Servers, ServerTick(p)
  PROVE  Unedited'
<1> USE DEF shared, local, history
<1> DEFINE m == Min(tick[p].skip)
           f == tick[p].fire
           Account == \A e \in Awaited : e <= through' =>
                        Recorded(e)' \/ \E q \in Procs : Penned(q, e)'
           Marked  == Recorded(Anchor)' /\ \A d \in Instants : Recorded(d)' => d <= through'
           Armed   == \A q \in Procs : armed'[q].cfg # None =>
                        armed'[q].cfg = FirstConfig /\ armed'[q].at \in DueOf[FirstConfig]
<1>0. /\ p \in Procs /\ tick \in [Procs -> Busy] /\ tick[p] \in Busy /\ armed \in [Procs -> Arming]
      /\ tick[p].run = {} /\ tick[p].at \in {"idle", "decide", "note", "record", "dispatch"}
      /\ tick[p].skip \in SUBSET Instants /\ tick[p].fire \in 0..MaxTime
      /\ tick[p].at \in {"record", "dispatch"} => tick[p].fire \in Instants
      /\ through \in Nat /\ Awaited \in SUBSET Instants /\ Instants \subseteq Nat
      /\ store.cfg = FirstConfig /\ Anchor \in Instants
      /\ \A q \in Procs : NothingBehind(q) /\ chase[q].at = "off"
  BY Constants, ConfigAssumption
     DEF TypeInv, TypeOK, Staged, Unedited, NothingBehind, Busy, Awaited, Recordable
<1>a. Idle.at = "idle" /\ Idle.run = {}
  BY DEF Idle
<1>b. /\ \A e \in Awaited : e <= through => Recorded(e) \/ \E q \in Procs : Penned(q, e)
      /\ Recorded(Anchor) /\ \A d \in Instants : Recorded(d) => d <= through
      /\ \A d \in Instants : Penned(p, d) => d <= through
      /\ \A j \in jobs : j.job.kind = "dispatch"
      /\ \A q \in Procs : armed[q].cfg # None =>
           armed[q].cfg = FirstConfig /\ armed[q].at \in DueOf[FirstConfig]
      /\ tick[p].at \in {"decide", "note"} =>
           \A e \in Awaited \ tick[p].skip :
             (\E s \in tick[p].skip \cup {tick[p].fire} : e < s) => e <= through
  BY <1>0 DEF Unedited, NothingBehind
<1>1. /\ UNCHANGED <<store, chase>>
      /\ \A q \in Procs : q # p => tick'[q] = tick[q]
  BY <1>0 DEF ServerTick, TickOff, TickCron, TickInterval, DecideSkipped, NoteSkipped, TakeTurn,
              NothingToFire, TakeArmed, RecordFired, Dispatch, SetTick
<1>2. ASSUME through <= through', through' \in Nat, NothingBehind(p)', Account, Marked, Armed,
             \A j \in jobs' : j.job.kind = "dispatch"
      PROVE  Unedited'
  <2>1. ASSUME NEW q \in Procs, q # p PROVE NothingBehind(q)'
    <3>1. tick'[q] = tick[q] /\ chase'[q].at = "off" /\ NothingBehind(q)
      BY <1>0, <1>1, <2>1
    <3>2. \A e : e \in Awaited /\ e <= through => e <= through'
      BY <1>0, <1>2
    <3>3. \A d \in Instants : d <= through => d <= through'
      <4>1. through \in Nat /\ through' \in Nat /\ through <= through'
        BY <1>0, <1>2
      <4> QED
        BY <4>1, StaysPast
    <3> QED
      BY <3>1, <3>2, <3>3 DEF NothingBehind, Penned
  <2> QED
    BY <1>0, <1>1, <1>2, <2>1 DEF Unedited
<1>3. ASSUME UNCHANGED <<through, ledger>>, NothingBehind(p)', Armed,
             \A e \in Awaited : ~Penned(p, e),
             \A j \in jobs' : j.job.kind = "dispatch"
      PROVE  Unedited'
  <2>1. Marked
    BY <1>b, <1>3 DEF Recorded
  <2>2. \A e \in Awaited, q \in Procs : Penned(q, e) => Penned(q, e)'
    BY <1>1, <1>3 DEF Penned
  <2>3. \A e \in Awaited : Recorded(e) => Recorded(e)'
    BY <1>3 DEF Recorded
  <2>4. Account
    BY <1>b, <1>3, <2>2, <2>3
  <2> QED
    BY <1>0, <1>2, <1>3, <2>1, <2>4
<1>4. ASSUME UNCHANGED armed PROVE Armed
  BY <1>b, <1>4
<1>5. ASSUME tick'[p] = Idle PROVE NothingBehind(p)'
  BY <1>0, <1>1, <1>5, <1>a DEF NothingBehind, Penned
<1>6. CASE TickCron(p)
  <2>1. /\ tick'[p].at = "decide" /\ tick'[p].run = {}
        /\ \A e \in Awaited \ tick'[p].skip :
             (\E s \in tick'[p].skip \cup {tick'[p].fire} : e < s) => e <= through
        /\ armed'[p].cfg # None =>
             armed'[p].cfg = FirstConfig /\ armed'[p].at \in DueOf[FirstConfig]
    BY <1>6, TickFinds
  <2>2. /\ UNCHANGED <<through, ledger, jobs>> /\ tick[p].at = "idle"
        /\ \A q \in Procs : q # p => armed'[q] = armed[q]
    BY <1>0, <1>6 DEF TickCron, Begin, Ticking, Arm
  <2>3. NothingBehind(p)'
    BY <1>0, <1>1, <2>1, <2>2 DEF NothingBehind, Penned
  <2>4. Armed
    BY <1>b, <2>1, <2>2
  <2>5. \A e \in Awaited : ~Penned(p, e)
    BY <2>2 DEF Penned
  <2> QED
    BY <1>3, <1>b, <2>2, <2>3, <2>4, <2>5
<1>7. CASE NothingToFire(p)
  <2>1. /\ UNCHANGED <<through, ledger, jobs, armed>> /\ tick[p].at = "decide" /\ tick'[p] = Idle
    BY <1>0, <1>7 DEF NothingToFire, SetTick, Ticking
  <2>2. \A e \in Awaited : ~Penned(p, e)
    BY <2>1 DEF Penned
  <2> QED
    BY <1>3, <1>4, <1>5, <1>b, <2>1, <2>2
<1>8. CASE Dispatch(p)
  <2>1. /\ UNCHANGED <<through, ledger, armed>> /\ tick[p].at = "dispatch" /\ tick'[p] = Idle
        /\ jobs' \subseteq jobs \cup {NewJob(p, tick[p].fire, "dispatch")}
    BY <1>0, <1>8 DEF Dispatch, SetTick, Ticking
  <2>2. \A e \in Awaited : ~Penned(p, e)
    BY <2>1 DEF Penned
  <2>3. NewJob(p, tick[p].fire, "dispatch").job.kind = "dispatch"
    BY DEF NewJob
  <2>4. \A j \in jobs' : j.job.kind = "dispatch"
    BY <1>b, <2>1, <2>3
  <2> QED
    BY <1>3, <1>4, <1>5, <2>1, <2>2, <2>4
<1>9. ASSUME tick[p].skip # {}
      PROVE  m \in tick[p].skip /\ m \in Instants /\ \A y \in tick[p].skip : m <= y
  <2>1. tick[p].skip \in SUBSET Nat
    BY <1>0
  <2>2. m \in tick[p].skip /\ \A y \in tick[p].skip : m <= y
    BY <1>9, <2>1, MinIsLeast
  <2> QED
    BY <1>0, <2>2
<1>10. ASSUME NEW d, NEW mine \in BOOLEAN, Take(d, mine)
       PROVE  mine = ~(through >= d) /\ through' = IF mine THEN d ELSE through
  BY <1>10 DEF Take, Spend, AlreadyTaken
<1>11. CASE DecideSkipped(p)
  <2>1. /\ UNCHANGED <<ledger, jobs, armed>> /\ tick[p].at = "decide" /\ tick[p].skip # {}
    BY <1>11 DEF DecideSkipped, Ticking
  <2>2. PICK mine \in BOOLEAN :
          /\ Take(m, mine)
          /\ SetTick(p, IF mine THEN [tick[p] EXCEPT !.at = "note"]
                        ELSE [tick[p] EXCEPT !.skip = @ \ {m}])
    BY <1>11 DEF DecideSkipped
  <2>3. m \in tick[p].skip /\ m \in Instants /\ \A y \in tick[p].skip : m <= y
    BY <1>9, <2>1
  <2>4. mine = ~(through >= m) /\ through' = IF mine THEN m ELSE through
    BY <1>10, <2>2
  <2>5. \A e \in Awaited : ~Penned(p, e)
    BY <2>1 DEF Penned
  <2>6. CASE mine
    <3>1. /\ tick'[p].at = "note" /\ tick'[p].run = {} /\ tick'[p].skip = tick[p].skip
          /\ tick'[p].fire = tick[p].fire
      BY <1>0, <2>2, <2>6 DEF SetTick, Busy
    <3>2. through' = m /\ through <= m /\ m \in Nat
      <4>1. ~(through >= m) /\ through' = m
        BY <2>4, <2>6
      <4>2. m \in Nat /\ through \in Nat
        BY <1>0, <2>3
      <4> HIDE DEF m
      <4> QED
        BY <4>1, <4>2
    <3>3. \A e \in Awaited \ tick[p].skip :
            (\E s \in tick[p].skip \cup {tick[p].fire} : e < s) => e <= through'
      BY <1>0, <1>b, <2>1, <3>2
    <3>4. NothingBehind(p)'
      <4>1. \A d \in Instants : Penned(p, d)' => d = m
        BY <3>1 DEF Penned
      <4>2. \A d \in Instants : Penned(p, d)' => d <= through'
        BY <1>0, <3>2, <4>1
      <4> QED
        BY <1>0, <1>1, <3>1, <3>3, <4>2 DEF NothingBehind
    <3>5. ASSUME NEW e \in Awaited, e <= through'
          PROVE  Recorded(e)' \/ \E q \in Procs : Penned(q, e)'
      <4>1. CASE e = m
        <5>1. Penned(p, e)'
          BY <3>1, <4>1 DEF Penned
        <5> QED
          BY <1>0, <5>1
      <4>2. CASE e # m
        <5>1. e < m /\ e \notin tick[p].skip
          BY <1>0, <2>3, <3>2, <3>5, <4>2
        <5>2. e <= through
          BY <1>b, <2>1, <2>3, <3>5, <5>1
        <5>3. Recorded(e) \/ \E q \in Procs : q # p /\ Penned(q, e)
          BY <1>b, <2>5, <3>5, <5>2
        <5>4. Recorded(e) => Recorded(e)'
          BY <2>1 DEF Recorded
        <5>5. \A q \in Procs : q # p /\ Penned(q, e) => Penned(q, e)'
          BY <1>1 DEF Penned
        <5> QED
          BY <5>3, <5>4, <5>5
      <4> QED
        BY <4>1, <4>2
    <3>6. Marked
      <4>1. \A d \in Instants : d <= through => d <= through'
        <5>1. through \in Nat /\ through' \in Nat /\ through <= through'
          BY <1>0, <3>2
        <5> QED
          BY <5>1, StaysPast
      <4> QED
        BY <1>b, <2>1, <4>1 DEF Recorded
    <3> QED
      BY <1>2, <1>4, <1>b, <2>1, <3>2, <3>4, <3>5, <3>6
  <2>7. CASE ~mine
    <3>1. /\ tick'[p].at = "decide" /\ tick'[p].run = {} /\ tick'[p].skip = tick[p].skip \ {m}
          /\ tick'[p].fire = tick[p].fire
      BY <1>0, <2>1, <2>2, <2>7 DEF SetTick, Busy
    <3>2. through' = through /\ m <= through
      BY <1>0, <2>3, <2>4, <2>7
    <3>3. \A e \in Awaited \ tick'[p].skip :
            (\E s \in tick'[p].skip \cup {tick'[p].fire} : e < s) => e <= through'
      BY <1>b, <2>1, <3>1, <3>2
    <3>4. NothingBehind(p)'
      BY <1>0, <1>1, <3>1, <3>3 DEF NothingBehind, Penned
    <3> QED
      BY <1>3, <1>4, <1>b, <2>1, <2>5, <3>2, <3>4
  <2> QED
    BY <2>6, <2>7
<1>12. CASE NoteSkipped(p)
  <2>1. /\ UNCHANGED <<through, jobs, armed>> /\ tick[p].at = "note" /\ tick[p].skip # {}
        /\ Record(m, "skipped")
        /\ SetTick(p, [tick[p] EXCEPT !.at = "decide", !.skip = @ \ {m}])
    BY <1>0, <1>12 DEF NoteSkipped, Ticking, TypeInv, Staged
  <2>2. m \in tick[p].skip /\ m \in Instants
    BY <1>9, <2>1
  <2>3. Penned(p, m) /\ m <= through /\ \A e : Penned(p, e) => e = m
    BY <1>b, <2>1, <2>2 DEF Penned
  <2>4. \A x \in Instants : Recorded(x)' <=> (Recorded(x) \/ x = m)
    BY <2>1, <2>2, NotesDown DEF Decisions
  <2>5. /\ tick'[p].at = "decide" /\ tick'[p].run = {} /\ tick'[p].skip = tick[p].skip \ {m}
        /\ tick'[p].fire = tick[p].fire
    BY <1>0, <2>1 DEF SetTick, Busy
  <2>6. \A e \in Awaited \ tick'[p].skip :
          (\E s \in tick'[p].skip \cup {tick'[p].fire} : e < s) => e <= through'
    BY <1>b, <2>1, <2>3, <2>5
  <2>7. NothingBehind(p)'
    BY <1>0, <1>1, <2>5, <2>6 DEF NothingBehind, Penned
  <2>8. Marked
    BY <1>0, <1>b, <2>1, <2>3, <2>4
  <2>9. \A e \in Awaited, q \in Procs : q # p /\ Penned(q, e) => Penned(q, e)'
    BY <1>1 DEF Penned
  <2>10. Account
    BY <1>0, <1>b, <2>1, <2>3, <2>4, <2>9
  <2> QED
    BY <1>0, <1>2, <1>4, <1>b, <2>1, <2>7, <2>8, <2>10
<1>13. CASE TakeArmed(p)
  <2>1. /\ UNCHANGED <<ledger, jobs, armed>> /\ tick[p].at = "decide" /\ tick[p].skip = {}
        /\ f \in Instants
    BY <1>0, <1>13, Constants DEF TakeArmed, Ticking
  <2>2. PICK mine \in BOOLEAN :
          /\ Take(f, mine)
          /\ SetTick(p, IF ~mine THEN Idle
                        ELSE [tick[p] EXCEPT !.at = IF @ = "slot" THEN "dispatch" ELSE "record"])
    BY <1>13 DEF TakeArmed
  <2>3. mine = ~(through >= f) /\ through' = IF mine THEN f ELSE through
    BY <1>10, <2>2
  <2>4. \A e \in Awaited : ~Penned(p, e)
    BY <2>1 DEF Penned
  <2>5. CASE mine
    <3>1. tick'[p].at = "record" /\ tick'[p].run = {} /\ tick'[p].fire = f
      BY <1>0, <2>1, <2>2, <2>5 DEF SetTick, Busy
    <3>2. through' = f /\ through <= f /\ f \in Nat
      <4>1. ~(through >= f) /\ through' = f
        BY <2>3, <2>5
      <4> QED
        BY <1>0, <2>1, <4>1
    <3>3. NothingBehind(p)'
      <4>1. \A d \in Instants : Penned(p, d)' => d <= through'
        BY <1>0, <3>1, <3>2 DEF Penned
      <4> QED
        BY <1>0, <1>1, <3>1, <4>1 DEF NothingBehind
    <3>4. ASSUME NEW e \in Awaited, e <= through'
          PROVE  Recorded(e)' \/ \E q \in Procs : Penned(q, e)'
      <4>1. CASE e = f
        <5>1. Penned(p, e)'
          BY <3>1, <4>1 DEF Penned
        <5> QED
          BY <1>0, <5>1
      <4>2. CASE e # f
        <5>1. e < f
          BY <1>0, <3>2, <3>4, <4>2
        <5>2. e <= through
          BY <1>b, <2>1, <3>4, <5>1
        <5>3. Recorded(e) \/ \E q \in Procs : q # p /\ Penned(q, e)
          BY <1>b, <2>4, <3>4, <5>2
        <5>4. Recorded(e) => Recorded(e)'
          BY <2>1 DEF Recorded
        <5>5. \A q \in Procs : q # p /\ Penned(q, e) => Penned(q, e)'
          BY <1>1 DEF Penned
        <5> QED
          BY <5>3, <5>4, <5>5
      <4> QED
        BY <4>1, <4>2
    <3>5. Marked
      <4>1. \A d \in Instants : d <= through => d <= through'
        <5>1. through \in Nat /\ through' \in Nat /\ through <= through'
          BY <1>0, <3>2
        <5> QED
          BY <5>1, StaysPast
      <4> QED
        BY <1>b, <2>1, <4>1 DEF Recorded
    <3> QED
      BY <1>2, <1>4, <1>b, <2>1, <3>2, <3>3, <3>4, <3>5
  <2>6. CASE ~mine
    <3>1. tick'[p] = Idle /\ through' = through
      BY <1>0, <2>2, <2>3, <2>6 DEF SetTick
    <3> QED
      BY <1>3, <1>4, <1>5, <1>b, <2>1, <2>4, <3>1
  <2> QED
    BY <2>5, <2>6
<1>14. CASE RecordFired(p)
  <2>1. /\ UNCHANGED <<through, jobs, armed>> /\ tick[p].at = "record" /\ f \in Instants
        /\ Record(f, "fired") /\ SetTick(p, [tick[p] EXCEPT !.at = "dispatch"])
    BY <1>0, <1>14 DEF RecordFired, Ticking
  <2>2. Penned(p, f) /\ f <= through /\ \A e : Penned(p, e) => e = f
    BY <1>b, <2>1 DEF Penned
  <2>3. \A x \in Instants : Recorded(x)' <=> (Recorded(x) \/ x = f)
    BY <2>1, NotesDown DEF Decisions
  <2>4. tick'[p].at = "dispatch" /\ tick'[p].run = {}
    BY <1>0, <2>1 DEF SetTick, Busy
  <2>5. NothingBehind(p)'
    BY <1>0, <1>1, <2>4 DEF NothingBehind, Penned
  <2>6. Marked
    BY <1>0, <1>b, <2>1, <2>2, <2>3
  <2>7. \A e \in Awaited, q \in Procs : q # p /\ Penned(q, e) => Penned(q, e)'
    BY <1>1 DEF Penned
  <2>8. Account
    BY <1>0, <1>b, <2>1, <2>2, <2>3, <2>7
  <2> QED
    BY <1>0, <1>2, <1>4, <1>b, <2>1, <2>5, <2>6, <2>8
<1>15. ~TickOff(p) /\ ~TickInterval(p) /\ ~TakeTurn(p)
  BY <1>0 DEF TickOff, TickInterval, TakeTurn, Recordable
<1> QED
  BY <1>6, <1>7, <1>8, <1>11, <1>12, <1>13, <1>14, <1>15 DEF ServerTick

LEMMA NextGap ==
  ASSUME Recordable, TypeInv, GapInv, [Next]_vars
  PROVE  GapInv'
<1> USE DEF shared, local, history
<1>0. /\ budget \in [Bounds -> Nat] /\ budget'["faults"] \in Nat /\ budget'["crashes"] \in Nat
      /\ budget["edits"] \in Nat /\ budget["faults"] = 0 /\ budget["crashes"] = 0
      /\ budget["edits"] <= MaxEdits /\ MaxEdits \in Nat
      /\ {"faults", "crashes", "edits"} \subseteq Bounds
  <2>1. TypeInv'
    BY NextType
  <2> QED
    BY <2>1, Constants DEF GapInv, TypeInv, TypeOK, Bounds
<1>1. ~Spend("faults") /\ ~Spend("crashes")
  BY <1>0 DEF Spend
<1>2. ASSUME UNCHANGED budget, Unedited => Unedited' PROVE GapInv'
  BY <1>0, <1>2 DEF GapInv
<1>3. ASSUME NEW p \in Servers, ServerTick(p) PROVE GapInv'
  <2>1. UNCHANGED budget
    BY <1>1, <1>3 DEF ServerTick, TickOff, TickCron, TickInterval, DecideSkipped, NoteSkipped,
       TakeTurn, NothingToFire, TakeArmed, RecordFired, Dispatch, Take, Record
  <2> QED
    BY <1>0, <1>2, <1>3, <2>1, TickGap
<1>4. ASSUME Unedited, UNCHANGED <<through, ledger, tick>>, store'.cfg = store.cfg,
             \A q \in Procs : chase'[q].at = "off",
             \A q \in Procs : armed'[q] = armed[q] \/ armed'[q].cfg = None,
             \A j \in jobs' : j.job.kind = "dispatch"
      PROVE  Unedited'
  <2>1. \A q \in Procs : \A d : Penned(q, d) <=> Penned(q, d)'
    BY <1>4 DEF Penned
  <2>2. \A d : Recorded(d) <=> Recorded(d)'
    BY <1>4 DEF Recorded
  <2>3. \A q \in Procs : NothingBehind(q)'
    BY <1>4, <2>1 DEF NothingBehind, Unedited
  <2>4. \A q \in Procs : armed'[q].cfg # None =>
          armed'[q].cfg = FirstConfig /\ armed'[q].at \in DueOf[FirstConfig]
    BY <1>4 DEF Unedited
  <2>5. \A e \in Awaited : e <= through' => Recorded(e)' \/ \E q \in Procs : Penned(q, e)'
    BY <1>4, <2>1, <2>2 DEF Unedited
  <2>6. Recorded(Anchor)' /\ \A d \in Instants : Recorded(d)' => d <= through'
    BY <1>4, <2>2 DEF Unedited
  <2> QED
    BY <1>4, <2>3, <2>4, <2>5, <2>6 DEF Unedited
<1>5. ASSUME NEW p \in Servers, ChaseStep(p) PROVE GapInv'
  <2>1. UNCHANGED budget
    BY <1>1, <1>5 DEF ChaseStep, ChaseTake, ChaseRecord, ChaseEnds, Take, Record
  <2>2. Unedited => FALSE
    BY <1>5, Constants DEF ChaseStep, ChaseTake, ChaseRecord, ChaseEnds, Unedited, NothingBehind
  <2> QED
    BY <1>2, <2>1, <2>2
<1>6. ASSUME NEW j \in jobs, JobStep(j) PROVE GapInv'
  <2>1. UNCHANGED <<budget, through, ledger, tick>>
    BY <1>6 DEF JobStep, RunStarts, RunRefused, RunEnds
  <2>2. ASSUME Unedited PROVE Unedited'
    <3>1. j.job.kind = "dispatch"
      BY <2>2 DEF Unedited
    <3>2. UNCHANGED <<armed, chase>>
      BY <1>6, <3>1 DEF JobStep, RunStarts, RunRefused, RunEnds, Leaves
    <3>3. store'.cfg = store.cfg
      BY <1>6, <3>1 DEF JobStep, RunStarts, RunRefused, RunEnds, TypeInv, TypeOK
    <3>4. jobs' \subseteq jobs \cup {[j EXCEPT !.at = "run", !.began = clock]}
      BY <1>6 DEF JobStep, RunStarts, RunRefused, RunEnds
    <3>5. [j EXCEPT !.at = "run", !.began = clock].job = j.job
      BY <1>6 DEF TypeInv, TypeOK
    <3>6. \A i \in jobs' : i.job.kind = "dispatch"
      BY <2>2, <3>1, <3>4, <3>5 DEF Unedited
    <3>7. \A q \in Procs : chase'[q].at = "off"
      BY <2>2, <3>2 DEF Unedited, NothingBehind
    <3> QED
      BY <1>4, <2>1, <2>2, <3>2, <3>3, <3>6, <3>7
  <2> QED
    BY <1>2, <2>1, <2>2
<1>7. ASSUME NEW c \in Configs, Edit(c) PROVE GapInv'
  <2>1. budget["edits"] > 0 /\ budget' = [budget EXCEPT !["edits"] = @ - 1]
    BY <1>7 DEF Edit, Spend
  <2>2. budget'["edits"] < MaxEdits /\ budget'["faults"] = 0 /\ budget'["crashes"] = 0
        /\ budget'["edits"] \in Nat
    BY <1>0, <2>1
  <2>3. budget'["edits"] <= MaxEdits /\ budget'["edits"] # MaxEdits
    BY <1>0, <2>2
  <2> QED
    BY <2>2, <2>3 DEF GapInv
<1>8. ASSUME NEW p \in Procs, Boot(p) PROVE GapInv'
  <2>1. /\ UNCHANGED <<budget, through, ledger, tick, store, chase, jobs>>
        /\ armed' = [armed EXCEPT ![p] = Unarmed]
    BY <1>8 DEF Boot, Recordable
  <2>2. \A q \in Procs : armed'[q] = armed[q] \/ armed'[q].cfg = None
    BY <2>1 DEF Unarmed, TypeInv, TypeOK
  <2>3. Unedited => /\ \A q \in Procs : chase'[q].at = "off"
                    /\ \A j \in jobs' : j.job.kind = "dispatch"
    BY <2>1 DEF Unedited, NothingBehind
  <2> QED
    BY <1>2, <1>4, <2>1, <2>2, <2>3
<1>9. ASSUME NEW p \in Procs, Crash(p) PROVE FALSE
  BY <1>1, <1>9 DEF Crash
<1>10. ASSUME Elapse \/ UNCHANGED vars PROVE GapInv'
  <2>1. UNCHANGED <<budget, through, ledger, tick, store, chase, jobs, armed>>
    BY <1>10 DEF Elapse, vars
  <2>2. Unedited => /\ \A q \in Procs : chase'[q].at = "off"
                    /\ \A j \in jobs' : j.job.kind = "dispatch"
    BY <2>1 DEF Unedited, NothingBehind
  <2> QED
    BY <1>2, <1>4, <2>1, <2>2
<1>11. ASSUME NEW p \in Desktops, DesktopStep(p) PROVE FALSE
  BY <1>11 DEF Recordable
<1> QED
  BY <1>3, <1>5, <1>6, <1>7, <1>8, <1>9, <1>10, <1>11 DEF Next

\* "Every overdue occurrence gets a recorded outcome whether or not it runs": where
\* nothing fails or dies and the schedule is sparser than the stall allowance, for any
\* number of servers, however their clocks differ and however long they stand still.
THEOREM NothingIsForgotten == ASSUME Recordable PROVE Spec => []NoGaps
<1>1. Init => GapInv
  <2> SUFFICES ASSUME Init PROVE GapInv
    OBVIOUS
  <2>1. /\ budget["faults"] = 0 /\ budget["crashes"] = 0 /\ budget["edits"] = MaxEdits
        /\ MaxEdits \in Nat /\ Anchor \in Instants /\ Instants \subseteq Nat
    BY Constants DEF Init, Bounds, Recordable
  <2>2. \A d \in Instants : Recorded(d) <=> d = Anchor
    BY <2>1 DEF Init, Recorded, Decisions
  <2>3. \A p \in Procs : NothingBehind(p)
    BY DEF Init, NothingBehind, Penned, Idle, Off
  <2>4. \A e \in Awaited : ~(e <= through)
    BY <2>1, ConfigAssumption DEF Init, Awaited
  <2>5. \A p \in Procs : armed[p].cfg = None
    BY DEF Init, Unarmed
  <2>6. store.cfg = FirstConfig /\ jobs = {} /\ through = Anchor
    BY DEF Init
  <2> QED
    BY <2>1, <2>2, <2>3, <2>4, <2>5, <2>6 DEF GapInv, Unedited
<1>2. TypeInv /\ GapInv /\ [Next]_vars => TypeInv' /\ GapInv'
  BY NextType, NextGap
<1>3. TypeInv /\ GapInv => NoGaps
  <2> SUFFICES ASSUME TypeInv, GapInv, NEW d \in DueOf[FirstConfig], budget["edits"] = MaxEdits,
                      Anchor < d, d < LastRecorded
               PROVE  Recorded(d) \/ InHand(d)
    BY DEF NoGaps
  <2>0. Unedited /\ d \in Awaited /\ d \in Instants /\ d \in Nat /\ through \in Nat
    BY Constants, ConfigAssumption DEF GapInv, Awaited, TypeInv, TypeOK
  <2>1. LastRecorded \in Nat /\ LastRecorded <= through
    <3> DEFINE S == {0} \cup {x \in Instants : Recorded(x)}
    <3>1. S \in SUBSET (0..MaxTime) /\ S # {}
      <4>1. 0 \in 0..MaxTime /\ Instants \subseteq 0..MaxTime
        BY Constants
      <4> QED
        BY <4>1
    <3>2. Max(S) \in S
      <4> HIDE DEF S
      <4> QED
        BY <3>1, Constants, MaxIsGreatest
    <3>3. \A x \in S : x \in Nat /\ x <= through
      BY <2>0, Constants DEF Unedited
    <3> QED
      BY <3>2, <3>3 DEF LastRecorded
  <2>2. d <= through
    BY <2>0, <2>1
  <2>3. Recorded(d) \/ \E p \in Procs : Penned(p, d)
    BY <2>0, <2>2 DEF Unedited
  <2>4. ASSUME NEW p \in Procs, Penned(p, d) PROVE InHand(d)
    <3>1. CASE tick[p].at = "note" /\ d = Min(tick[p].skip)
      <4>1. tick[p].skip # {} /\ tick[p].skip \in SUBSET Instants
        BY <3>1 DEF TypeInv, TypeOK, Staged, Busy
      <4>2. d \in tick[p].skip
        BY <3>1, <4>1, LeastInstant
      <4> QED
        BY <4>2 DEF InHand
    <3>2. CASE d = tick[p].fire
      BY <3>2 DEF InHand
    <3> QED
      BY <2>4, <3>1, <3>2 DEF Penned
  <2> QED
    BY <2>3, <2>4
<1> QED
  BY <1>1, <1>2, <1>3, InitType, PTL DEF Spec

=============================================================================
