---------------------------- MODULE ExecutorProofs ----------------------------
(* A ledger in order: verbs come one at a time and no write of it fails.     *)
(* Then no slice is run beside itself, no live slice is interrupted and no    *)
(* slice that could run is left behind, for any ledger, any number of         *)
(* processes, threads and workers, and any number of crashes and losses.      *)
EXTENDS BackfillProofs, FiniteSetTheorems

\* What is asked of the operators and of the disk.
Orderly == Overlap = {} /\ MaxFaults = 0

(***************************************************************************)
(* The inductive invariant.                                                *)
(***************************************************************************)
Busy(a)     == pc[a] \notin {"idle", "reclaim"}
InCharge(a) == pc[a] \in {"save", "start", "work"}
OnSlice(a, w) == wk[a][w].at \in {"claimed", "ran"}

\* One actor at most is in a verb, on a process that lives.
Solo ==
  /\ \A a, b \in Actors : Busy(a) /\ Busy(b) => a = b
  /\ \A a \in Actors : Busy(a) => Alive(ProcOf[a])

\* From its claim of the ledger to its release, that actor's process holds the
\* witness, and nobody holds it otherwise.
Charge ==
  /\ \A a \in Actors : InCharge(a) => /\ ours = {ProcOf[a]} /\ witness = ProcOf[a]
                                      /\ copy[a].pid = ProcOf[a]
  /\ (\A a \in Actors : ~InCharge(a)) => ours = {} /\ witness \in {"absent", "free"}

\* While the executor runs, the ledger names it: this is what a sweep asks.
Named == \A a \in Actors : pc[a] \in {"start", "work"} => disk.pid = ProcOf[a]

\* A worker on a slice has it as running on disk, and to itself.
Held ==
  /\ \A a \in Actors, w \in Workers : wk[a][w].at # "out" => pc[a] = "work"
  /\ \A a \in Actors, w \in Workers : OnSlice(a, w) => disk.st[wk[a][w].s] = "running"
  /\ \A a \in Actors, v, w \in Workers :
       OnSlice(a, v) /\ OnSlice(a, w) /\ wk[a][v].s = wk[a][w].s => v = w

\* The last worker to leave leaves nothing: as long as a slice could be taken,
\* some worker has not left.
NoneClaimable(p) == \A s \in Slices : ~Claimable(p, s)
Emptied ==
  \A a \in Actors :
    pc[a] = "finish" \/ (pc[a] = "work" /\ \A w \in Workers : wk[a][w].at = "out")
      => NoneClaimable(disk)

ExecInv ==
  /\ TypeOK /\ budget["faults"] = 0
  /\ Solo /\ Charge /\ Named /\ Held /\ Emptied

LEMMA Places ==
  ASSUME TypeOK
  PROVE  /\ pc \in [Actors -> Stage] /\ wk \in [Actors -> [Workers -> Worker]]
         /\ disk \in Plan /\ copy \in [Actors -> Plan]
         /\ \A a \in Actors : ProcOf[a] \in Procs
         /\ 1 \in Workers /\ Out.at = "out"
BY ActorAssumption, LedgerAssumption DEF TypeOK, Workers, Out

LEMMA StaysFaultless ==
  ASSUME TypeOK, budget["faults"] = 0, [Next]_vars
  PROVE  budget'["faults"] = 0
<1>0. budget \in [Bounds -> Nat] /\ "faults" \in Bounds
  BY DEF TypeOK, Bounds
<1>1. ASSUME NEW what, Spend(what) PROVE budget'["faults"] = 0
  BY <1>0, <1>1 DEF Spend
<1>2. ASSUME UNCHANGED budget PROVE budget'["faults"] = 0
  BY <1>2
<1>3. ASSUME NEW a \in Actors, RetryStep(a) \/ CancelStep(a) PROVE budget'["faults"] = 0
  BY <1>1, <1>2, <1>3 DEF RetryStep, CancelStep, RetryLoad, Issue, Reload, Reopen, RetrySave,
     RetryGivesUp, CancelLoad, CancelSave
<1>4. ASSUME NEW a \in Actors, ReclaimStep(a) PROVE budget'["faults"] = 0
  BY <1>2, <1>4 DEF ReclaimStep, Sweep, Reclaim
<1>5. ASSUME NEW a \in Actors, ExecutorStep(a) PROVE budget'["faults"] = 0
  <2>1. ASSUME NEW w \in Workers, WorkerStep(a, w) PROVE budget'["faults"] = 0
    BY <1>1, <1>2, <2>1 DEF WorkerStep, Claim, WorkerExits, ClaimFails, Reuse, Work, Settle,
       SettleFails
  <2> QED
    BY <1>1, <1>2, <1>5, <2>1 DEF ExecutorStep, Start, Release, ClearPid
<1>6. ASSUME NEW q \in Procs, Boot(q) \/ Crash(q) PROVE budget'["faults"] = 0
  BY <1>1, <1>2, <1>6 DEF Boot, Crash
<1>7. ASSUME NEW f \in files, LosePart(f) PROVE budget'["faults"] = 0
  BY <1>1, <1>7 DEF LosePart
<1>8. CASE UNCHANGED vars
  BY <1>2, <1>8 DEF vars
<1> QED
  BY <1>3, <1>4, <1>5, <1>6, <1>7, <1>8 DEF Next

\* With no fault to spend, a step that needs one is not taken.
LEMMA NoFault ==
  ASSUME TypeOK, budget["faults"] = 0
  PROVE  ~Spend("faults")
BY DEF TypeOK, Bounds, Spend

\* With Overlap empty, a verb begins only when no other is at work.
LEMMA Begun ==
  ASSUME Overlap = {}, NEW a, NEW verb, Issue(a, verb)
  PROVE  /\ pc[a] = "idle" /\ Alive(ProcOf[a])
         /\ \A b \in Actors : ~Busy(b)
BY DEF Issue, Busy

(***************************************************************************)
(* One actor in a verb.                                                    *)
(***************************************************************************)
LEMMA NextSolo ==
  ASSUME TypeOK, Solo, Overlap = {}, [Next]_vars
  PROVE  Solo'
<1>0. pc \in [Actors -> Stage] /\ \A a \in Actors : ProcOf[a] \in Procs
  BY Places
<1>1. ASSUME NEW a \in Actors, NEW x, Goto(a, x), UNCHANGED live,
             Busy(a) \/ x \in {"idle", "reclaim"}
      PROVE  Solo'
  BY <1>0, <1>1 DEF Solo, Busy, Goto, Alive
<1>2. ASSUME NEW a \in Actors, NEW x, NEW verb, Issue(a, verb), Goto(a, x), UNCHANGED live
      PROVE  Solo'
  <2>1. Alive(ProcOf[a]) /\ \A b \in Actors : ~Busy(b)
    BY <1>2, Begun
  <2> QED
    BY <1>0, <1>2, <2>1 DEF Solo, Busy, Goto, Alive
<1>3. ASSUME UNCHANGED <<pc, live>> PROVE Solo'
  BY <1>3 DEF Solo, Busy, Alive
<1>4. ASSUME NEW a \in Actors, RetryStep(a) PROVE Solo'
  <2>1. CASE RetryLoad(a)
    BY <1>2, <2>1 DEF RetryLoad
  <2>2. CASE Reload(a) \/ RetrySave(a) \/ RetryGivesUp(a)
    BY <1>1, <2>2 DEF Reload, RetrySave, RetryGivesUp, Busy
  <2>3. CASE Reopen(a)
    <3>1. PICK x : Goto(a, x)
      BY <2>3 DEF Reopen
    <3> QED
      BY <1>1, <2>3, <3>1 DEF Reopen, Busy
  <2> QED
    BY <1>4, <2>1, <2>2, <2>3 DEF RetryStep
<1>5. ASSUME NEW a \in Actors, ReclaimStep(a) PROVE Solo'
  <2>1. CASE Sweep(a)
    BY <1>1, <2>1 DEF Sweep
  <2>2. CASE Reclaim(a)
    <3>1. CASE pc[a] = "reclaim"
      BY <1>1, <2>2, <3>1 DEF Reclaim
    <3>2. CASE pc[a] = "reclaimForRetry"
      BY <1>1, <2>2, <3>2 DEF Reclaim, Busy
    <3> QED
      BY <2>2, <3>1, <3>2 DEF Reclaim
  <2> QED
    BY <1>5, <2>1, <2>2 DEF ReclaimStep
<1>6. ASSUME NEW a \in Actors, ExecutorStep(a) PROVE Solo'
  <2>1. CASE Start(a) \/ Release(a) \/ ClearPid(a)
    BY <1>1, <2>1 DEF Start, Release, ClearPid, Busy
  <2>2. ASSUME NEW w \in Workers, WorkerStep(a, w) PROVE UNCHANGED <<pc, live>>
    BY <2>2 DEF WorkerStep, Claim, WorkerExits, ClaimFails, Reuse, Work, Settle, SettleFails
  <2> QED
    BY <1>3, <1>6, <2>1, <2>2 DEF ExecutorStep
<1>7. ASSUME NEW a \in Actors, CancelStep(a) PROVE Solo'
  BY <1>1, <1>2, <1>7 DEF CancelStep, CancelLoad, CancelSave, Busy
<1>8. ASSUME NEW q \in Procs, Boot(q) PROVE Solo'
  BY <1>8 DEF Boot, Solo, Busy, Alive
<1>9. ASSUME NEW q \in Procs, Crash(q) PROVE Solo'
  BY <1>0, <1>9 DEF Crash, Solo, Busy, Alive
<1>10. ASSUME NEW f \in files, LosePart(f) PROVE Solo'
  BY <1>3, <1>10 DEF LosePart
<1>11. CASE UNCHANGED vars
  BY <1>3, <1>11 DEF vars
<1> QED
  BY <1>4, <1>5, <1>6, <1>7, <1>8, <1>9, <1>10, <1>11 DEF Next

(***************************************************************************)
(* The witness.                                                            *)
(***************************************************************************)
LEMMA InCharges ==
  ASSUME TypeOK, Solo, NEW a \in Actors, InCharge(a)
  PROVE  \A b \in Actors : b # a => pc[b] \in {"idle", "reclaim"}
BY DEF Solo, Busy, InCharge

\* A worker changes the ledger but not whose it is.
LEMMA WorkerWrites ==
  ASSUME TypeOK, NEW a \in Actors, NEW w \in Workers, WorkerStep(a, w)
  PROVE  /\ pc[a] = "work" /\ UNCHANGED <<pc, ours, witness, live>>
         /\ disk'.pid = disk.pid
         /\ copy'[a].pid \in {copy[a].pid, disk.pid}
         /\ \A b \in Actors \ {a} : copy'[b] = copy[b]
<1>1. pc[a] = "work" /\ UNCHANGED <<pc, ours, witness, live>>
  BY DEF WorkerStep, Claim, WorkerExits, ClaimFails, Reuse, Work, Settle, SettleFails, At
<1>2. disk \in Plan /\ copy \in [Actors -> Plan]
  BY DEF TypeOK
<1>3. ASSUME NEW p, Update(a, p), p.pid = disk.pid
      PROVE  /\ disk'.pid = disk.pid /\ copy'[a].pid \in {copy[a].pid, disk.pid}
             /\ \A b \in Actors \ {a} : copy'[b] = copy[b]
  BY <1>2, <1>3 DEF Update
<1>4. CASE UNCHANGED <<disk, copy>>
  BY <1>1, <1>4
<1>5. CASE Claim(a, w)
  <2>1. PICK s \in Slices : Update(a, [disk EXCEPT !.st[s] = "running"])
    BY <1>5 DEF Claim
  <2>2. [disk EXCEPT !.st[s] = "running"].pid = disk.pid
    BY <1>2 DEF Plan
  <2> QED
    BY <1>1, <1>3, <2>1, <2>2
<1>6. CASE WorkerExits(a, w)
  BY <1>1, <1>3, <1>6 DEF WorkerExits
<1>7. CASE Reuse(a, w)
  <2> DEFINE s == wk[a][w].s
             p == [disk EXCEPT !.st[s] = "succeeded",
                     !.art[s] = IF RequiresArtifact THEN "prior" ELSE None]
  <2>1. Update(a, p)
    BY <1>7 DEF Reuse
  <2>2. p.pid = disk.pid
    BY <1>2 DEF Plan
  <2> HIDE DEF p
  <2> QED
    BY <1>1, <1>3, <2>1, <2>2
<1>8. CASE Settle(a, w)
  <2>1. Settled(disk, wk[a][w].s, wk[a][w].res).pid = disk.pid
    BY <1>2 DEF Settled, Plan
  <2> QED
    BY <1>1, <1>3, <1>8, <2>1 DEF Settle
<1>9. CASE ClaimFails(a, w) \/ Work(a, w) \/ SettleFails(a, w)
  BY <1>4, <1>9 DEF ClaimFails, Work, SettleFails
<1> QED
  BY <1>5, <1>6, <1>7, <1>8, <1>9 DEF WorkerStep

LEMMA NextCharge ==
  ASSUME TypeOK, Solo, Charge, Named, Overlap = {}, budget["faults"] = 0, [Next]_vars
  PROVE  Charge'
<1>0. /\ pc \in [Actors -> Stage] /\ copy \in [Actors -> Plan] /\ ~Spend("faults")
      /\ \A a \in Actors : ProcOf[a] \in Procs
  BY Places, NoFault
\* A step that neither takes charge nor gives it up.
<1>1. ASSUME NEW a \in Actors, NEW x, Goto(a, x), UNCHANGED <<ours, witness>>,
             x \in {"save", "start", "work"} <=> InCharge(a),
             \A b \in Actors : InCharge(b) => copy'[b].pid = copy[b].pid
      PROVE  Charge'
  BY <1>0, <1>1 DEF Charge, InCharge, Goto
<1>2. ASSUME UNCHANGED <<pc, ours, witness>>,
             \A b \in Actors : InCharge(b) => copy'[b].pid = copy[b].pid
      PROVE  Charge'
  BY <1>2 DEF Charge, InCharge
<1>3. ASSUME NEW a \in Actors, RetryStep(a) PROVE Charge'
  <2>1. CASE RetryLoad(a)
    <3>1. PICK x \in {"reopen", "reclaimForRetry"} : Goto(a, x)
      BY <2>1 DEF RetryLoad
    <3>2. ~InCharge(a) /\ \A b \in Actors \ {a} : copy'[b] = copy[b]
      BY <1>0, <2>1 DEF RetryLoad, Issue, InCharge
    <3> QED
      BY <1>1, <2>1, <3>1, <3>2 DEF RetryLoad
  <2>2. CASE Reload(a)
    <3>1. ~InCharge(a) /\ \A b \in Actors \ {a} : copy'[b] = copy[b]
      BY <1>0, <2>2 DEF Reload, InCharge
    <3> QED
      BY <1>1, <2>2, <3>1 DEF Reload
  <2>3. CASE Reopen(a)
    <3>1. /\ pc[a] = "reopen" /\ ~InCharge(a) /\ \A b \in Actors : b # a => ~InCharge(b)
      BY <2>3 DEF Reopen, InCharge, Solo, Busy
    <3>2. ours = {} /\ witness \in {"absent", "free"}
      BY <3>1 DEF Charge
    <3>3. CASE Goto(a, "idle") /\ UNCHANGED <<copy, ours, witness>>
      BY <1>1, <3>1, <3>3
    <3>4. ASSUME NEW plan, Goto(a, "save"), ClaimStarted(ProcOf[a]),
                 copy' = [copy EXCEPT ![a] = [plan EXCEPT !.pid = ProcOf[a]]], plan \in Plan
          PROVE  Charge'
      <4>1. ours' = {ProcOf[a]} /\ witness' = ProcOf[a]
        BY <3>2, <3>4 DEF ClaimStarted
      <4>2. copy'[a].pid = ProcOf[a] /\ pc'[a] = "save"
        BY <1>0, <3>4 DEF Goto, Plan
      <4>3. \A b \in Actors : b # a => ~InCharge(b)'
        BY <1>0, <3>1, <3>4 DEF Goto, InCharge
      <4> QED
        BY <4>1, <4>2, <4>3 DEF Charge, InCharge
    <3>5. PICK only \in {Slices} \cup {{s} : s \in Slices},
               seen \in {copy[a], RecheckArtifacts(copy[a])} :
            \/ Goto(a, "idle") /\ UNCHANGED <<copy, ours, witness>>
            \/ /\ Goto(a, "save") /\ ClaimStarted(ProcOf[a])
               /\ copy' = [copy EXCEPT ![a] =
                            [RetryOpen(seen, only) EXCEPT !.pid = ProcOf[a]]]
      BY <2>3 DEF Reopen
    <3>6. RetryOpen(seen, only) \in Plan
      <4>1. only \in SUBSET Slices /\ seen \in Plan
        BY <1>0, PlanOps
      <4> QED
        BY <4>1, PlanOps
    <3> QED
      BY <3>3, <3>4, <3>5, <3>6
  <2>4. CASE RetrySave(a)
    BY <1>1, <2>4 DEF RetrySave, InCharge
  <2>5. ~RetryGivesUp(a)
    BY <1>0 DEF RetryGivesUp
  <2> QED
    BY <1>3, <2>1, <2>2, <2>3, <2>4, <2>5 DEF RetryStep
<1>4. ASSUME NEW a \in Actors, ReclaimStep(a) PROVE Charge'
  <2>1. PICK x \in {"idle", "reclaim", "reload", "reopen"} : Goto(a, x)
    BY <1>4 DEF ReclaimStep, Sweep, Reclaim
  <2>2. ~InCharge(a) /\ UNCHANGED <<copy, ours, witness>>
    BY <1>4 DEF ReclaimStep, Sweep, Reclaim, InCharge
  <2> QED
    BY <1>1, <2>1, <2>2
<1>5. ASSUME NEW a \in Actors, Start(a) PROVE Charge'
  <2> DEFINE plan == IF RequiresArtifact THEN RecheckArtifacts(copy[a]) ELSE copy[a]
  <2>1. copy' = [copy EXCEPT ![a] = plan]
    BY <1>5 DEF Start
  <2>2. plan.pid = copy[a].pid
    BY <1>0 DEF RecheckArtifacts, Plan
  <2> HIDE DEF plan
  <2>3. \A b \in Actors : copy'[b].pid = copy[b].pid
    BY <1>0, <2>1, <2>2
  <2> QED
    BY <1>1, <1>5, <2>3 DEF Start, InCharge
<1>6. ASSUME NEW a \in Actors, CancelStep(a) PROVE Charge'
  <2>1. PICK x \in {"idle", "cancel"} : Goto(a, x)
    BY <1>6 DEF CancelStep, CancelLoad, CancelSave
  <2>2. ~InCharge(a) /\ UNCHANGED <<ours, witness>> /\ \A b \in Actors \ {a} : copy'[b] = copy[b]
    BY <1>0, <1>6 DEF CancelStep, CancelLoad, CancelSave, Issue, InCharge
  <2> QED
    BY <1>1, <2>1, <2>2
<1>7. ASSUME NEW a \in Actors, Release(a) PROVE Charge'
  <2>1. ours = {ProcOf[a]} /\ \A b \in Actors : b # a => ~InCharge(b)
    BY <1>7, InCharges DEF Release, InCharge, Charge
  <2>2. ours' = {} /\ witness' = "absent"
    BY <1>7, <2>1 DEF Release, ReleaseStarted
  <2>3. \A b \in Actors : ~InCharge(b)'
    BY <1>0, <1>7, <2>1 DEF Release, Goto, InCharge
  <2> QED
    BY <2>2, <2>3 DEF Charge
<1>8. ASSUME NEW a \in Actors, ClearPid(a) PROVE Charge'
  BY <1>1, <1>8 DEF ClearPid, InCharge
<1>9. ASSUME NEW q \in Procs, Boot(q) PROVE Charge'
  BY <1>2, <1>9 DEF Boot
<1>10. ASSUME NEW q \in Procs, Crash(q) PROVE Charge'
  <2>1. /\ \A b \in Actors : pc'[b] = IF ProcOf[b] = q THEN "idle" ELSE pc[b]
        /\ ours' = ours \ {q} /\ witness' = (IF witness = q THEN "free" ELSE witness)
        /\ UNCHANGED copy
    BY <1>10 DEF Crash
  <2>2. CASE \A b \in Actors : ~InCharge(b)
    BY <2>1, <2>2 DEF Charge, InCharge
  <2>3. ASSUME NEW b \in Actors, InCharge(b) PROVE Charge'
    <3>1. \A c \in Actors : c # b => ~InCharge(c)
      BY <2>3, InCharges DEF InCharge
    <3>2. ours = {ProcOf[b]} /\ witness = ProcOf[b]
      BY <2>3 DEF Charge
    <3>3. CASE ProcOf[b] = q
      BY <2>1, <3>1, <3>2, <3>3 DEF Charge, InCharge
    <3>4. CASE ProcOf[b] # q
      BY <2>1, <2>3, <3>1, <3>2, <3>4 DEF Charge, InCharge
    <3> QED
      BY <3>3, <3>4
  <2> QED
    BY <2>2, <2>3
<1>11. ASSUME NEW f \in files, LosePart(f) PROVE Charge'
  BY <1>2, <1>11 DEF LosePart
<1>12. ASSUME NEW a \in Actors, NEW w \in Workers, WorkerStep(a, w) PROVE Charge'
  <2>1. /\ UNCHANGED <<pc, ours, witness>> /\ copy'[a].pid \in {copy[a].pid, disk.pid}
        /\ pc[a] = "work" /\ \A b \in Actors \ {a} : copy'[b] = copy[b]
    BY <1>12, WorkerWrites
  <2>2. copy'[a].pid = copy[a].pid
    BY <2>1 DEF Named, Charge, InCharge
  <2> QED
    BY <1>2, <2>1, <2>2
<1>13. CASE UNCHANGED vars
  BY <1>2, <1>13 DEF vars
<1> QED
  BY <1>3, <1>4, <1>5, <1>6, <1>7, <1>8, <1>9, <1>10, <1>11, <1>12, <1>13
  DEF Next, ExecutorStep

\* While the executor runs, a sweep that asks finds it alive.
LEMMA AskedAlive ==
  ASSUME TypeOK, Solo, Charge, Named, NEW a \in Actors, pc[a] \in {"start", "work"}, NEW q
  PROVE  ExecutorAlive(q, disk)
<1>1. /\ disk.pid = ProcOf[a] /\ ProcOf[a] \in Procs /\ ProcOf[a] # None
      /\ witness = ProcOf[a] /\ ours = {ProcOf[a]} /\ Alive(ProcOf[a])
  BY Places, ActorAssumption DEF Named, Charge, InCharge, Solo, Busy
<1> QED
  BY <1>1 DEF ExecutorAlive, OwnerAlive

LEMMA NextNamed ==
  ASSUME TypeOK, Solo, Charge, Named, Overlap = {}, budget["faults"] = 0, [Next]_vars
  PROVE  Named'
<1>0. /\ pc \in [Actors -> Stage] /\ copy \in [Actors -> Plan] /\ ~Spend("faults")
      /\ disk \in Plan
  BY Places, NoFault
\* The actor that steps is alone in a verb, or in none.
<1>1. ASSUME NEW a \in Actors, NEW x, Goto(a, x), x \notin {"start", "work"},
             disk'.pid = disk.pid \/ \A b \in Actors : b # a => ~InCharge(b)
      PROVE  Named'
  BY <1>0, <1>1 DEF Named, Goto, InCharge
<1>2. ASSUME NEW a \in Actors, NEW x, Goto(a, x), disk'.pid = ProcOf[a], Busy(a)
      PROVE  Named'
  <2>1. \A b \in Actors : b # a => pc[b] \notin {"start", "work"}
    BY <1>2 DEF Solo, Busy
  <2> QED
    BY <1>0, <1>2, <2>1 DEF Named, Goto
<1>3. ASSUME disk'.pid = disk.pid,
             \A b \in Actors : pc'[b] \in {"start", "work"} => pc'[b] = pc[b]
      PROVE  Named'
  BY <1>3 DEF Named
<1>4. ASSUME NEW a \in Actors, Busy(a) PROVE \A b \in Actors : b # a => ~InCharge(b)
  BY <1>4 DEF Solo, Busy, InCharge
<1>5. ASSUME NEW a \in Actors, RetryStep(a) PROVE Named'
  <2>1. CASE RetryLoad(a)
    <3>1. PICK x \in {"reopen", "reclaimForRetry"} : Goto(a, x)
      BY <2>1 DEF RetryLoad
    <3> QED
      BY <1>1, <2>1, <3>1 DEF RetryLoad
  <2>2. CASE Reload(a)
    BY <1>1, <2>2 DEF Reload
  <2>3. CASE Reopen(a)
    <3>1. PICK x \in {"idle", "save"} : Goto(a, x)
      BY <2>3 DEF Reopen
    <3> QED
      BY <1>1, <2>3, <3>1 DEF Reopen
  <2>4. CASE RetrySave(a)
    BY <1>2, <2>4 DEF RetrySave, Busy, Charge, InCharge
  <2>5. ~RetryGivesUp(a)
    BY <1>0 DEF RetryGivesUp
  <2> QED
    BY <1>5, <2>1, <2>2, <2>3, <2>4, <2>5 DEF RetryStep
<1>6. ASSUME NEW a \in Actors, Sweep(a) PROVE Named'
  BY <1>1, <1>6 DEF Sweep
<1>7. ASSUME NEW a \in Actors, Reclaim(a) PROVE Named'
  <2>1. PICK x \in {"idle", "reload", "reopen"} : Goto(a, x)
    BY <1>7 DEF Reclaim
  <2>2. CASE \E b \in Actors : pc[b] \in {"start", "work"}
    <3>1. disk' = disk
      BY <1>7, <2>2, AskedAlive DEF Reclaim
    <3> QED
      BY <1>1, <2>1, <3>1
  <2>3. CASE \A b \in Actors : pc[b] \notin {"start", "work"}
    BY <1>0, <2>1, <2>3 DEF Named, Goto
  <2> QED
    BY <2>2, <2>3
<1>8. ASSUME NEW a \in Actors, Start(a) PROVE Named'
  <2> DEFINE plan == IF RequiresArtifact THEN RecheckArtifacts(copy[a]) ELSE copy[a]
  <2>1. disk' = plan /\ Goto(a, "work") /\ pc[a] = "start"
    BY <1>8 DEF Start
  <2>2. plan.pid = copy[a].pid
    BY <1>0 DEF RecheckArtifacts, Plan
  <2> HIDE DEF plan
  <2> QED
    BY <1>2, <2>1, <2>2 DEF Busy, Charge, InCharge
<1>9. ASSUME NEW a \in Actors, NEW w \in Workers, WorkerStep(a, w) PROVE Named'
  BY <1>3, <1>9, WorkerWrites
<1>10. ASSUME NEW a \in Actors, Release(a) PROVE Named'
  BY <1>1, <1>10 DEF Release
<1>11. ASSUME NEW a \in Actors, ClearPid(a) PROVE Named'
  BY <1>1, <1>4, <1>11 DEF ClearPid, Busy
<1>12. ASSUME NEW a \in Actors, CancelStep(a) PROVE Named'
  <2>1. CASE CancelLoad(a)
    BY <1>1, <2>1 DEF CancelLoad
  <2>2. CASE CancelSave(a)
    BY <1>1, <1>4, <2>2 DEF CancelSave, Busy
  <2> QED
    BY <1>12, <2>1, <2>2 DEF CancelStep
<1>13. ASSUME NEW q \in Procs, Boot(q) \/ Crash(q) PROVE Named'
  BY <1>3, <1>13 DEF Boot, Crash
<1>14. ASSUME NEW f \in files, LosePart(f) PROVE Named'
  BY <1>3, <1>14 DEF LosePart
<1>15. CASE UNCHANGED vars
  BY <1>3, <1>15 DEF vars
<1> QED
  BY <1>5, <1>6, <1>7, <1>8, <1>9, <1>10, <1>11, <1>12, <1>13, <1>14, <1>15
  DEF Next, ReclaimStep, ExecutorStep

(***************************************************************************)
(* Slices that are held.                                                   *)
(***************************************************************************)
\* An actor at work is the only one whose workers are anywhere.
LEMMA OthersOut ==
  ASSUME Solo, Held, NEW a \in Actors, Busy(a)
  PROVE  \A b \in Actors, w \in Workers :
           b # a \/ pc[a] # "work" => wk[b][w].at = "out"
BY DEF Solo, Held, Busy

LEMMA NextHeld ==
  ASSUME TypeOK, Solo, Charge, Named, Held, budget["faults"] = 0, [Next]_vars
  PROVE  Held'
<1>0. /\ pc \in [Actors -> Stage] /\ wk \in [Actors -> [Workers -> Worker]] /\ disk \in Plan
      /\ Out.at = "out" /\ ~Spend("faults")
  BY Places, NoFault
<1>1. ASSUME UNCHANGED wk, disk'.st = disk.st,
             \A b \in Actors : pc[b] = "work" => pc'[b] = "work"
      PROVE  Held'
  BY <1>1 DEF Held, OnSlice
<1>2. ASSUME UNCHANGED wk, \A b \in Actors, w \in Workers : wk[b][w].at = "out"
      PROVE  Held'
  BY <1>2 DEF Held, OnSlice
\* A step of a verb that is not at work.
<1>3. ASSUME NEW a \in Actors, UNCHANGED wk, Busy(a), pc[a] # "work" PROVE Held'
  BY <1>2, <1>3, OthersOut
<1>4. ASSUME NEW a \in Actors, NEW x, Goto(a, x), pc[a] # "work", UNCHANGED <<wk, disk>>
      PROVE  Held'
  BY <1>0, <1>1, <1>4 DEF Goto
<1>5. ASSUME NEW a \in Actors, RetryStep(a) PROVE Held'
  <2>1. CASE RetryLoad(a)
    BY <1>4, <2>1 DEF RetryLoad, Issue
  <2>2. CASE Reload(a) \/ Reopen(a) \/ RetrySave(a) \/ RetryGivesUp(a)
    BY <1>3, <2>2 DEF Reload, Reopen, RetrySave, RetryGivesUp, Busy
  <2> QED
    BY <1>5, <2>1, <2>2 DEF RetryStep
<1>6. ASSUME NEW a \in Actors, Sweep(a) PROVE Held'
  BY <1>4, <1>6 DEF Sweep
<1>7. ASSUME NEW a \in Actors, Reclaim(a) PROVE Held'
  <2>1. CASE \E b \in Actors : pc[b] = "work"
    <3>1. disk' = disk
      BY <1>7, <2>1, AskedAlive DEF Reclaim
    <3> QED
      BY <1>4, <1>7, <3>1 DEF Reclaim
  <2>2. CASE \A b \in Actors : pc[b] # "work"
    BY <1>2, <1>7, <2>2 DEF Reclaim, Held
  <2> QED
    BY <2>1, <2>2
<1>8. ASSUME NEW a \in Actors, Start(a) PROVE Held'
  <2>1. \A b \in Actors, w \in Workers : wk[b][w].at = "out"
    BY <1>8, OthersOut DEF Start, Busy
  <2>2. pc'[a] = "work" /\ \A b \in Actors, w \in Workers :
          wk'[b][w] = wk[b][w] \/ (b = a /\ wk'[b][w].at \in {"idle", "out"})
    BY <1>0, <1>8 DEF Start, Goto, Out
  <2> QED
    BY <2>1, <2>2 DEF Held, OnSlice
<1>9. ASSUME NEW a \in Actors, NEW w \in Workers, WorkerStep(a, w) PROVE Held'
  <2>0. /\ pc[a] = "work" /\ UNCHANGED pc /\ wk[a][w] \in Worker
        /\ \A b \in Actors, v \in Workers : b # a => wk[b][v].at = "out"
    BY <1>0, <1>9, WorkerWrites, OthersOut DEF Busy
  \* The worker that moves keeps its slice or leaves it, and changes no other.
  <2>1. ASSUME NEW x, SetWorker(a, w, x),
               \A t \in Slices : disk'.st[t] = disk.st[t] \/ (OnSlice(a, w) /\ t = wk[a][w].s),
               x.at \in {"claimed", "ran"} =>
                 OnSlice(a, w) /\ x.s = wk[a][w].s /\ disk' = disk
        PROVE  Held'
    <3>1. \A b \in Actors, v \in Workers :
            wk'[b][v] = IF b = a /\ v = w THEN x ELSE wk[b][v]
      BY <1>0, <2>1 DEF SetWorker
    <3>2. \A b \in Actors, v \in Workers : wk'[b][v].at # "out" => pc'[b] = "work"
      BY <2>0, <3>1 DEF Held
    <3>3. ASSUME NEW b \in Actors, NEW v \in Workers, OnSlice(b, v)'
          PROVE  disk'.st[wk'[b][v].s] = "running"
      <4>1. CASE b = a /\ v = w
        BY <2>1, <3>1, <3>3, <4>1 DEF Held, OnSlice
      <4>2. CASE ~(b = a /\ v = w)
        <5>1. OnSlice(b, v) /\ b = a /\ v # w /\ wk'[b][v].s = wk[b][v].s
          BY <2>0, <3>1, <3>3, <4>2 DEF OnSlice
        <5>2. ~(OnSlice(a, w) /\ wk[b][v].s = wk[a][w].s)
          BY <5>1 DEF Held
        <5>3. wk[b][v].s \in Slices
          BY <1>0 DEF Worker
        <5> QED
          BY <2>1, <5>1, <5>2, <5>3 DEF Held
      <4> QED
        BY <4>1, <4>2
    <3>4. ASSUME NEW b \in Actors, NEW u \in Workers, NEW v \in Workers,
                 OnSlice(b, u)', OnSlice(b, v)', wk'[b][u].s = wk'[b][v].s
          PROVE  u = v
      <4>1. b = a
        BY <2>0, <3>1, <3>4 DEF OnSlice
      <4>2. OnSlice(a, u) /\ OnSlice(a, v) /\ wk[a][u].s = wk[a][v].s
        BY <2>1, <3>1, <3>4, <4>1 DEF OnSlice
      <4> QED
        BY <4>2 DEF Held
    <3> QED
      BY <3>2, <3>3, <3>4 DEF Held
  <2>2. CASE Claim(a, w)
    <3>1. PICK s \in Slices :
            /\ Claimable(disk, s)
            /\ Update(a, [disk EXCEPT !.st[s] = "running"])
            /\ SetWorker(a, w, [at |-> "claimed", s |-> s, res |-> "err"])
      BY <2>2 DEF Claim
    <3>2. /\ disk.st[s] # "running" /\ disk'.st[s] = "running"
          /\ \A t \in Slices : t # s => disk'.st[t] = disk.st[t]
      BY <1>0, <3>1 DEF Claimable, IsClaimable, Update, Plan
    <3>3. \A b \in Actors, v \in Workers :
            wk'[b][v] = IF b = a /\ v = w THEN [at |-> "claimed", s |-> s, res |-> "err"]
                        ELSE wk[b][v]
      BY <1>0, <3>1 DEF SetWorker
    <3>4. \A v \in Workers : OnSlice(a, v) => wk[a][v].s # s /\ wk[a][v].s \in Slices
      BY <1>0, <3>2 DEF Held, Worker
    <3>5. \A b \in Actors, v \in Workers : wk'[b][v].at # "out" => pc'[b] = "work"
      BY <2>0, <3>3 DEF Held
    <3>6. \A b \in Actors, v \in Workers : OnSlice(b, v)' => disk'.st[wk'[b][v].s] = "running"
      BY <2>0, <3>2, <3>3, <3>4 DEF Held, OnSlice
    <3>7. \A b \in Actors, u, v \in Workers :
            OnSlice(b, u)' /\ OnSlice(b, v)' /\ wk'[b][u].s = wk'[b][v].s => u = v
      BY <2>0, <3>3, <3>4 DEF Held, OnSlice
    <3> QED
      BY <3>5, <3>6, <3>7 DEF Held
  <2>3. CASE WorkerExits(a, w)
    BY <1>0, <2>1, <2>3 DEF WorkerExits, Update
  <2>4. ~ClaimFails(a, w) /\ ~SettleFails(a, w)
    BY <1>0 DEF ClaimFails, SettleFails
  <2>5. [wk[a][w] EXCEPT !.at = "idle"].at = "idle"
    BY <2>0 DEF Worker
  <2>6. CASE Reuse(a, w) \/ Settle(a, w)
    <3>1. OnSlice(a, w) /\ SetWorker(a, w, [wk[a][w] EXCEPT !.at = "idle"])
      BY <2>6 DEF Reuse, Settle, At, OnSlice
    <3>2. \A t \in Slices : t # wk[a][w].s => disk'.st[t] = disk.st[t]
      <4>1. CASE Reuse(a, w)
        BY <1>0, <4>1 DEF Reuse, Update, Plan
      <4>2. CASE Settle(a, w)
        <5>1. disk' = Settled(disk, wk[a][w].s, wk[a][w].res)
          BY <4>2 DEF Settle, Update
        <5> QED
          BY <1>0, <5>1 DEF Settled, Plan
      <4> QED
        BY <2>6, <4>1, <4>2
    <3> QED
      BY <2>1, <2>5, <3>1, <3>2
  <2>7. CASE Work(a, w)
    <3>1. PICK res \in {"ok", "err", "bare"} :
            SetWorker(a, w, [at |-> "ran", s |-> wk[a][w].s, res |-> res])
      BY <2>7 DEF Work
    <3>2. OnSlice(a, w) /\ disk' = disk
      BY <2>7 DEF Work, At, OnSlice
    <3> QED
      BY <2>1, <3>1, <3>2
  <2> QED
    BY <1>9, <2>2, <2>3, <2>4, <2>6, <2>7 DEF WorkerStep
<1>10. ASSUME NEW a \in Actors, Release(a) PROVE Held'
  <2>1. \A b \in Actors, w \in Workers : wk[b][w].at = "out"
    BY <1>10, OthersOut DEF Release, Busy
  <2> QED
    BY <1>2, <1>10, <2>1 DEF Release
<1>11. ASSUME NEW a \in Actors, ClearPid(a) PROVE Held'
  BY <1>3, <1>11 DEF ClearPid, Busy
<1>12. ASSUME NEW a \in Actors, CancelStep(a) PROVE Held'
  <2>1. CASE CancelLoad(a)
    BY <1>4, <2>1 DEF CancelLoad, Issue
  <2>2. CASE CancelSave(a)
    BY <1>3, <2>2 DEF CancelSave, Busy
  <2> QED
    BY <1>12, <2>1, <2>2 DEF CancelStep
<1>13. ASSUME NEW q \in Procs, Boot(q) PROVE Held'
  BY <1>1, <1>13 DEF Boot
<1>14. ASSUME NEW q \in Procs, Crash(q) PROVE Held'
  <2>1. /\ UNCHANGED disk
        /\ \A b \in Actors, w \in Workers :
             \/ wk'[b][w].at = "out"
             \/ wk'[b] = wk[b] /\ pc'[b] = pc[b]
    BY <1>0, <1>14 DEF Crash
  <2> QED
    BY <2>1 DEF Held, OnSlice
<1>15. ASSUME NEW f \in files, LosePart(f) PROVE Held'
  BY <1>1, <1>15 DEF LosePart
<1>16. CASE UNCHANGED vars
  BY <1>1, <1>16 DEF vars
<1> QED
  BY <1>5, <1>6, <1>7, <1>8, <1>9, <1>10, <1>11, <1>12, <1>13, <1>14, <1>15, <1>16
  DEF Next, ReclaimStep, ExecutorStep

(***************************************************************************)
(* Slices that are left.                                                   *)
(***************************************************************************)
LEMMA InterruptedNotClaimable ==
  ASSUME NEW p \in Plan, NoneClaimable(p)
  PROVE  NoneClaimable(Interrupt(p))
BY DEF NoneClaimable, Claimable, IsClaimable, Interrupt, Plan

LEMMA NextEmptied ==
  ASSUME TypeOK, Solo, Emptied, budget["faults"] = 0, [Next]_vars
  PROVE  Emptied'
<1>0. /\ pc \in [Actors -> Stage] /\ wk \in [Actors -> [Workers -> Worker]] /\ disk \in Plan
      /\ 1 \in Workers /\ Out.at = "out" /\ ~Spend("faults")
  BY Places, NoFault
<1>1. ASSUME NEW a \in Actors, NEW x, Goto(a, x), x \notin {"work", "finish"}, UNCHANGED wk,
             NoneClaimable(disk) => NoneClaimable(disk')
      PROVE  Emptied'
  <2>1. \A b \in Actors : pc'[b] \in {"work", "finish"} => pc'[b] = pc[b]
    BY <1>0, <1>1 DEF Goto
  <2>2. NoneClaimable(disk)' <=> NoneClaimable(disk')
    BY DEF NoneClaimable, Claimable
  <2> QED
    BY <1>1, <2>1, <2>2 DEF Emptied
<1>2. ASSUME NEW a \in Actors, NEW x, Goto(a, x), x \notin {"work", "finish"}, Busy(a)
      PROVE  Emptied'
  BY <1>0, <1>2 DEF Emptied, Goto, Solo, Busy
<1>3. ASSUME UNCHANGED <<disk, pc, wk>> PROVE Emptied'
  BY <1>3 DEF Emptied, NoneClaimable, Claimable
<1>4. ASSUME NEW a \in Actors, RetryStep(a) PROVE Emptied'
  <2>1. PICK x \in {"reopen", "reclaimForRetry", "idle", "save", "start"} : Goto(a, x)
    BY <1>4 DEF RetryStep, RetryLoad, Reload, Reopen, RetrySave, RetryGivesUp
  <2>2. CASE RetryLoad(a)
    BY <1>1, <2>1, <2>2 DEF RetryLoad
  <2>3. CASE Reload(a) \/ Reopen(a) \/ RetrySave(a) \/ RetryGivesUp(a)
    BY <1>2, <2>1, <2>3 DEF Reload, Reopen, RetrySave, RetryGivesUp, Busy
  <2> QED
    BY <1>4, <2>2, <2>3 DEF RetryStep
<1>5. ASSUME NEW a \in Actors, ReclaimStep(a) PROVE Emptied'
  <2>1. PICK x \in {"reclaim", "idle", "reload", "reopen"} : Goto(a, x)
    BY <1>5 DEF ReclaimStep, Sweep, Reclaim
  <2>2. UNCHANGED wk /\ disk' \in {disk, Interrupt(disk)}
    BY <1>5 DEF ReclaimStep, Sweep, Reclaim
  <2>3. NoneClaimable(disk) => NoneClaimable(disk')
    BY <1>0, <2>2, InterruptedNotClaimable
  <2> QED
    BY <1>1, <2>1, <2>2, <2>3
<1>6. ASSUME NEW a \in Actors, Start(a) PROVE Emptied'
  <2>1. \A b \in Actors : b # a => pc'[b] \in {"idle", "reclaim"}
    BY <1>0, <1>6 DEF Start, Goto, Solo, Busy
  <2>2. pc'[a] = "work"
    BY <1>0, <1>6 DEF Start, Goto
  <2>3. wk'[a][1].at = "idle"
    <3> DEFINE plan == IF RequiresArtifact THEN RecheckArtifacts(copy[a]) ELSE copy[a]
               n0   == Min2(MaxConcurrent, ClaimableCount(plan))
               n    == IF n0 < 1 THEN 1 ELSE n0
    <3>1. wk' = [wk EXCEPT ![a] = [w \in Workers |->
                   IF w <= n THEN [Out EXCEPT !.at = "idle"] ELSE Out]]
      BY <1>6 DEF Start
    <3>2. 1 <= n
      <4>1. MaxConcurrent \in Nat \ {0}
        BY LedgerAssumption
      <4>2. ClaimableCount(plan) \in Nat
        <5> HIDE DEF plan
        <5>1. IsFiniteSet(Slices)
          BY LedgerAssumption, FS_Interval DEF Slices
        <5>2. IsFiniteSet({s \in Slices : Claimable(plan, s)})
          BY <5>1, FS_Subset
        <5> QED
          BY <5>2, FS_CardinalityType DEF ClaimableCount
      <4>3. n0 \in Nat
        BY <4>1, <4>2 DEF Min2
      <4> HIDE DEF n0
      <4> QED
        BY <4>3
    <3> HIDE DEF n
    <3> QED
      BY <1>0, <3>1, <3>2 DEF Out
  <2> QED
    BY <1>0, <2>1, <2>2, <2>3 DEF Emptied
<1>7. ASSUME NEW a \in Actors, NEW w \in Workers, WorkerStep(a, w) PROVE Emptied'
  <2>0. /\ pc[a] = "work" /\ UNCHANGED pc /\ wk[a][w] \in Worker
        /\ \A b \in Actors : b # a => pc'[b] \in {"idle", "reclaim"}
    BY <1>0, <1>7, WorkerWrites DEF Solo, Busy
  <2>1. ASSUME NEW x, SetWorker(a, w, x), x.at # "out" PROVE Emptied'
    <3>1. wk'[a][w].at # "out"
      BY <1>0, <2>1 DEF SetWorker
    <3> QED
      BY <2>0, <3>1 DEF Emptied
  <2>2. CASE WorkerExits(a, w)
    <3>1. disk' = disk /\ NoneClaimable(disk)
      BY <2>2 DEF WorkerExits, Update, NoneClaimable
    <3> QED
      BY <3>1 DEF Emptied, NoneClaimable, Claimable
  <2>3. CASE Claim(a, w)
    BY <2>1, <2>3 DEF Claim
  <2>4. [wk[a][w] EXCEPT !.at = "idle"].at = "idle"
    BY <2>0 DEF Worker
  <2>5. CASE Reuse(a, w) \/ Settle(a, w)
    BY <2>1, <2>4, <2>5 DEF Reuse, Settle
  <2>6. CASE Work(a, w)
    BY <2>1, <2>6 DEF Work
  <2>7. ~ClaimFails(a, w) /\ ~SettleFails(a, w)
    BY <1>0 DEF ClaimFails, SettleFails
  <2> QED
    BY <1>7, <2>2, <2>3, <2>5, <2>6, <2>7 DEF WorkerStep
<1>8. ASSUME NEW a \in Actors, Release(a) PROVE Emptied'
  <2>1. NoneClaimable(disk) /\ disk' = disk
    BY <1>8 DEF Release, Emptied
  <2> QED
    BY <2>1 DEF Emptied, NoneClaimable, Claimable
<1>9. ASSUME NEW a \in Actors, ClearPid(a) PROVE Emptied'
  BY <1>2, <1>9 DEF ClearPid, Busy
<1>10. ASSUME NEW a \in Actors, CancelStep(a) PROVE Emptied'
  <2>1. CASE CancelLoad(a)
    BY <1>1, <2>1 DEF CancelLoad
  <2>2. CASE CancelSave(a)
    BY <1>2, <2>2 DEF CancelSave, Busy
  <2> QED
    BY <1>10, <2>1, <2>2 DEF CancelStep
<1>11. ASSUME NEW q \in Procs, Boot(q) PROVE Emptied'
  BY <1>3, <1>11 DEF Boot
<1>12. ASSUME NEW q \in Procs, Crash(q) PROVE Emptied'
  <2>1. UNCHANGED disk /\ \A b \in Actors : pc'[b] = "idle" \/ (pc'[b] = pc[b] /\ wk'[b] = wk[b])
    BY <1>0, <1>12 DEF Crash
  <2> QED
    BY <2>1 DEF Emptied, NoneClaimable, Claimable
<1>13. ASSUME NEW f \in files, LosePart(f) PROVE Emptied'
  BY <1>3, <1>13 DEF LosePart
<1>14. CASE UNCHANGED vars
  BY <1>3, <1>14 DEF vars
<1> QED
  BY <1>4, <1>5, <1>6, <1>7, <1>8, <1>9, <1>10, <1>11, <1>12, <1>13, <1>14
  DEF Next, ExecutorStep

(***************************************************************************)
(* The invariant, and what follows from it.                                *)
(***************************************************************************)
LEMMA InitExec ==
  ASSUME Orderly, Init
  PROVE  ExecInv
<1>0. TypeOK /\ ProcOf[Creator] \in Procs /\ Creator \in Actors
  BY InitType, ActorAssumption
<1>1. budget["faults"] = 0
  BY DEF Init, Bounds, Orderly
<1>2. /\ \A a \in Actors : pc[a] = IF a = Creator THEN "start" ELSE "idle"
      /\ \A a \in Actors, w \in Workers : wk[a][w] = Out
      /\ \A a \in Actors : copy[a].pid = ProcOf[Creator]
      /\ disk.pid = ProcOf[Creator] /\ live = {ProcOf[Creator]}
      /\ ours = {ProcOf[Creator]} /\ witness = ProcOf[Creator]
  BY DEF Init, NewPlan
<1>3. Solo
  BY <1>2 DEF Solo, Busy, Alive
<1>4. Charge /\ Named
  BY <1>0, <1>2 DEF Charge, Named, InCharge
<1>5. Held
  BY <1>2 DEF Held, OnSlice, Out
<1>6. Emptied
  BY <1>2 DEF Emptied
<1> QED
  BY <1>0, <1>1, <1>3, <1>4, <1>5, <1>6 DEF ExecInv

LEMMA NextExec ==
  ASSUME Orderly, ExecInv, [Next]_vars
  PROVE  ExecInv'
<1> USE DEF ExecInv, Orderly
<1>1. TypeOK' /\ budget'["faults"] = 0
  BY NextType, StaysFaultless
<1>2. Solo' /\ Charge' /\ Named'
  BY NextSolo, NextCharge, NextNamed
<1>3. Held' /\ Emptied'
  BY NextHeld, NextEmptied
<1> QED
  BY <1>1, <1>2, <1>3

LEMMA ExecInvariant ==
  ASSUME Orderly
  PROVE  Spec => []ExecInv
<1>1. Init => ExecInv
  BY InitExec
<1>2. ExecInv /\ [Next]_vars => ExecInv'
  BY NextExec
<1> QED
  BY <1>1, <1>2, PTL DEF Spec

\* With verbs that come one at a time and writes that do not fail, a slice is
\* never run beside itself, wherever a process dies and whoever sweeps.
THEOREM SlicesRunAlone ==
  ASSUME Orderly
  PROVE  Spec => []NoDoubleRun
<1>1. ExecInv => NoDoubleRun
  <2> SUFFICES ASSUME ExecInv, NEW s \in Slices PROVE Cardinality(Holders(s)) <= 1
    BY DEF NoDoubleRun
  <2>1. \A x, y \in Holders(s) : x = y
    <3> SUFFICES ASSUME NEW a \in Actors, NEW b \in Actors, NEW v \in Workers, NEW w \in Workers,
                        Holds(a, v, s), Holds(b, w, s)
                 PROVE  a = b /\ v = w
      BY DEF Holders
    <3>1. a = b
      BY DEF Holds, ExecInv, Held, Solo, Busy
    <3> QED
      BY <3>1 DEF Holds, ExecInv, Held, OnSlice
  <2>2. CASE Holders(s) = {}
    BY <2>2, FS_EmptySet
  <2>3. CASE Holders(s) # {}
    <3>1. PICK x : Holders(s) = {x}
      BY <2>1, <2>3
    <3>2. Cardinality({x}) = 1
      BY FS_Singleton, Zenon
    <3> QED
      BY <3>1, <3>2
  <2> QED
    BY <2>2, <2>3
<1> QED
  BY <1>1, ExecInvariant, PTL

\* The last worker to leave a ledger leaves no slice that could have been taken.
THEOREM NothingIsLeft ==
  ASSUME Orderly
  PROVE  Spec => []NothingLeftBehind
<1>1. ExecInv => NothingLeftBehind
  BY DEF ExecInv, Emptied, NoneClaimable, NothingLeftBehind
<1> QED
  BY <1>1, ExecInvariant, PTL

\* A sweep, or a retry, interrupts no slice that a live worker is on: it asks the
\* witness again under the store lock, and the executor holds it.
THEOREM LiveIsLeftAlone ==
  ASSUME Orderly
  PROVE  Spec => LiveLeftAlone
<1> DEFINE Left == \A s \in Slices : Holders(s) # {} /\ disk.st[s] = "running"
                                      => disk'.st[s] # "interrupted"
<1>1. ExecInv /\ [Next]_vars => [Left]_vars
  <2> SUFFICES ASSUME ExecInv, Next, NEW s \in Slices, Holders(s) # {}, disk.st[s] = "running"
               PROVE  disk'.st[s] # "interrupted"
    OBVIOUS
  <2>0. PICK a \in Actors, v \in Workers : pc[a] = "work" /\ Holds(a, v, s)
    BY DEF Holders, Holds, ExecInv, Held
  <2>1. \A b \in Actors : b # a => pc[b] \in {"idle", "reclaim"}
    BY <2>0 DEF ExecInv, Solo, Busy
  <2>2. disk \in Plan
    BY DEF ExecInv, TypeOK
  <2>3. CASE UNCHANGED disk
    BY <2>3
  <2>4. ASSUME NEW b \in Actors, RetryStep(b) PROVE disk' = disk
    BY <2>0, <2>1, <2>4 DEF RetryStep, RetryLoad, Reload, Reopen, RetrySave, RetryGivesUp
  <2>5. ASSUME NEW b \in Actors, ReclaimStep(b) PROVE disk' = disk
    <3>1. ExecutorAlive(ProcOf[b], disk)
      BY <2>0, AskedAlive DEF ExecInv
    <3> QED
      BY <2>5, <3>1 DEF ReclaimStep, Sweep, Reclaim
  <2>6. ASSUME NEW b \in Actors, CancelStep(b) PROVE disk' = disk
    BY <2>0, <2>1, <2>6 DEF CancelStep, CancelLoad, CancelSave
  <2>7. ASSUME NEW b \in Actors, Start(b) \/ Release(b) \/ ClearPid(b) PROVE disk' = disk
    BY <2>0, <2>1, <2>7 DEF Start, Release, ClearPid
  <2>8. ASSUME NEW b \in Actors, NEW w \in Workers, WorkerStep(b, w)
        PROVE  disk'.st[s] # "interrupted"
    <3>1. CASE Claim(b, w)
      BY <2>2, <3>1 DEF Claim, Update, Plan
    <3>2. CASE WorkerExits(b, w)
      BY <2>3, <3>2 DEF WorkerExits, Update
    <3>3. CASE Reuse(b, w)
      BY <2>2, <3>3 DEF Reuse, Update, Plan
    <3>4. CASE Settle(b, w)
      BY <2>2, <3>4 DEF Settle, Settled, Update, Plan
    <3>5. CASE ClaimFails(b, w) \/ Work(b, w) \/ SettleFails(b, w)
      BY <2>3, <3>5 DEF ClaimFails, Work, SettleFails
    <3> QED
      BY <2>8, <3>1, <3>2, <3>3, <3>4, <3>5 DEF WorkerStep
  <2>9. ASSUME NEW q \in Procs, Boot(q) \/ Crash(q) PROVE disk' = disk
    BY <2>9 DEF Boot, Crash
  <2>10. ASSUME NEW f \in files, LosePart(f) PROVE disk' = disk
    BY <2>10 DEF LosePart
  <2> QED
    BY <2>3, <2>4, <2>5, <2>6, <2>7, <2>8, <2>9, <2>10 DEF Next, ExecutorStep
<1> QED
  BY <1>1, ExecInvariant, PTL DEF LiveLeftAlone, Spec

===============================================================================
