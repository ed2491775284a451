--------------------------- MODULE BackfillProofs ---------------------------
(* What holds of Backfill for every ledger, every number of actors and       *)
(* workers, every budget and every Overlap: in particular with retries and   *)
(* cancels that save over one another at any moment.                         *)
EXTENDS Backfill, TLAPS

(***************************************************************************)
(* The ledger operators keep a plan a plan.                                *)
(***************************************************************************)
LEMMA PlanOps ==
  ASSUME NEW p \in Plan, NEW only \in SUBSET Slices, NEW pid \in Procs \cup {None}
  PROVE  /\ RetryOpen(p, only) \in Plan
         /\ RecheckArtifacts(p) \in Plan
         /\ CancelOpen(p) \in Plan
         /\ Interrupt(p) \in Plan
         /\ [p EXCEPT !.pid = pid] \in Plan
BY DEF Plan, RetryOpen, RecheckArtifacts, CancelOpen, Interrupt, SliceState, Artifact

LEMMA SlicePlans ==
  ASSUME NEW p \in Plan, NEW s \in Slices, NEW res
  PROVE  /\ [p EXCEPT !.st[s] = "running"] \in Plan
         /\ [p EXCEPT !.st[s] = "succeeded",
                      !.art[s] = IF RequiresArtifact THEN "prior" ELSE None] \in Plan
         /\ Settled(p, s, res) \in Plan
BY DEF Plan, Settled, SliceState, Artifact

LEMMA WorkerTypes ==
  ASSUME NEW x \in Worker, NEW s \in Slices, NEW res \in {"ok", "bare", "err"},
         NEW at \in {"out", "idle", "claimed", "ran"}
  PROVE  /\ [at |-> at, s |-> s, res |-> res] \in Worker
         /\ [x EXCEPT !.at = at] \in Worker
         /\ x.s \in Slices /\ x.res \in {"ok", "bare", "err"}
BY DEF Worker

LEMMA OutTypes == Out \in Worker /\ [Out EXCEPT !.at = "idle"] \in Worker
BY LedgerAssumption DEF Out, Worker, Slices

(***************************************************************************)
(* Type correctness.                                                       *)
(***************************************************************************)
LEMMA InitType == Init => TypeOK
<1> SUFFICES ASSUME Init PROVE TypeOK
  OBVIOUS
<1>1. NewPlan \in Plan
  BY ActorAssumption DEF NewPlan, Plan, SliceState
<1>2. budget \in [Bounds -> Nat]
  BY BoundAssumption DEF Init, Bounds
<1> QED
  BY <1>1, <1>2, OutTypes, LedgerAssumption, ActorAssumption
  DEF Init, TypeOK, Stage, Artifact

LEMMA SpendType ==
  ASSUME TypeOK, NEW what \in Bounds, Spend(what)
  PROVE  budget' \in [Bounds -> Nat]
BY DEF TypeOK, Spend

LEMMA NextType == TypeOK /\ [Next]_vars => TypeOK'
<1> SUFFICES ASSUME TypeOK, [Next]_vars PROVE TypeOK'
  OBVIOUS
<1> USE DEF TypeOK
<1>0. \A a \in Actors : ProcOf[a] \in Procs
  BY ActorAssumption
<1>1. ASSUME NEW a \in Actors, RetryLoad(a) PROVE TypeOK'
  BY <1>1, SpendType DEF RetryLoad, Issue, Goto, Stage, Bounds
<1>2. ASSUME NEW a \in Actors, Reload(a) PROVE TypeOK'
  BY <1>2 DEF Reload, Goto, Stage
<1>3. ASSUME NEW a \in Actors, Reopen(a) PROVE TypeOK'
  <2>1. PICK only \in {Slices} \cup {{s} : s \in Slices},
             seen \in {copy[a], RecheckArtifacts(copy[a])} :
               LET plan == RetryOpen(seen, only)
               IN IF plan.st = copy[a].st
                  THEN Goto(a, "idle") /\ UNCHANGED <<copy, ours, witness>>
                  ELSE /\ Goto(a, "save")
                       /\ copy' = [copy EXCEPT ![a] = [plan EXCEPT !.pid = ProcOf[a]]]
                       /\ ClaimStarted(ProcOf[a])
    BY <1>3 DEF Reopen
  <2> DEFINE plan == RetryOpen(seen, only)
  <2>2. only \in SUBSET Slices
    OBVIOUS
  <2>3. copy[a] \in Plan /\ RecheckArtifacts(copy[a]) \in Plan
    BY PlanOps, <2>2, <1>0
  <2>4. seen \in Plan
    BY <2>3
  <2>5. plan \in Plan /\ [plan EXCEPT !.pid = ProcOf[a]] \in Plan
    BY <2>4, <2>2, PlanOps, <1>0
  <2>6. CASE plan.st = copy[a].st
    BY <1>3, <2>1, <2>6 DEF Reopen, Goto, Stage
  <2>7. CASE plan.st # copy[a].st
    <3> HIDE DEF plan
    <3>1. /\ Goto(a, "save") /\ ClaimStarted(ProcOf[a])
          /\ copy' = [copy EXCEPT ![a] = [plan EXCEPT !.pid = ProcOf[a]]]
      BY <2>1, <2>7 DEF plan
    <3>2. copy' \in [Actors -> Plan]
      BY <2>5, <3>1
    <3> QED
      BY <1>3, <3>1, <3>2, <1>0 DEF Reopen, Goto, Stage, ClaimStarted
  <2> QED
    BY <2>6, <2>7
<1>4. ASSUME NEW a \in Actors, RetrySave(a) PROVE TypeOK'
  BY <1>4 DEF RetrySave, Goto, Stage
<1>5. ASSUME NEW a \in Actors, RetryGivesUp(a) PROVE TypeOK'
  BY <1>5, SpendType DEF RetryGivesUp, Goto, Stage, Bounds
<1>6. ASSUME NEW a \in Actors, Sweep(a) PROVE TypeOK'
  BY <1>6 DEF Sweep, Goto, Stage
<1>7. ASSUME NEW a \in Actors, Reclaim(a) PROVE TypeOK'
  BY <1>7, PlanOps, <1>0 DEF Reclaim, Goto, Stage
<1>8. ASSUME NEW a \in Actors, Start(a) PROVE TypeOK'
  <2>1. copy[a] \in Plan /\ RecheckArtifacts(copy[a]) \in Plan
    BY PlanOps, <1>0
  <2>2. wk' \in [Actors -> [Workers -> Worker]]
    BY <1>8, OutTypes DEF Start
  <2>3. disk' \in Plan /\ copy' \in [Actors -> Plan]
    BY <1>8, <2>1 DEF Start
  <2> QED
    BY <1>8, <2>2, <2>3 DEF Start, Goto, Stage
<1>9. ASSUME NEW a \in Actors, NEW w \in Workers, WorkerStep(a, w) PROVE TypeOK'
  <2>0. wk[a][w] \in Worker /\ wk[a][w].s \in Slices
    BY DEF Worker
  <2>1. CASE Claim(a, w)
    <3>1. PICK s \in Slices : /\ Update(a, [disk EXCEPT !.st[s] = "running"])
                              /\ SetWorker(a, w, [at |-> "claimed", s |-> s, res |-> "err"])
      BY <2>1 DEF Claim
    <3>2. [disk EXCEPT !.st[s] = "running"] \in Plan
      BY SlicePlans
    <3>3. [at |-> "claimed", s |-> s, res |-> "err"] \in Worker
      BY DEF Worker
    <3> QED
      BY <2>1, <3>1, <3>2, <3>3 DEF Claim, Update, SetWorker
  <2>2. CASE WorkerExits(a, w)
    BY <2>2, OutTypes DEF WorkerExits, Update, SetWorker
  <2>3. CASE ClaimFails(a, w)
    BY <2>3, OutTypes, SpendType DEF ClaimFails, SetWorker, Bounds
  <2>4. CASE Reuse(a, w)
    <3> DEFINE plan == [disk EXCEPT !.st[wk[a][w].s] = "succeeded",
                          !.art[wk[a][w].s] = IF RequiresArtifact THEN "prior" ELSE None]
    <3>1. plan \in Plan
      BY SlicePlans, <2>0
    <3>2. [wk[a][w] EXCEPT !.at = "idle"] \in Worker
      BY <2>0 DEF Worker
    <3>3. Update(a, plan) /\ SetWorker(a, w, [wk[a][w] EXCEPT !.at = "idle"])
      BY <2>4 DEF Reuse
    <3> HIDE DEF plan
    <3> QED
      BY <2>4, <3>1, <3>2, <3>3 DEF Reuse, Update, SetWorker
  <2>5. CASE Work(a, w)
    <3>1. PICK res \in {"ok", "err", "bare"} :
            /\ SetWorker(a, w, [at |-> "ran", s |-> wk[a][w].s, res |-> res])
            /\ done' = IF res = "ok" THEN done \cup {wk[a][w].s} ELSE done
            /\ files' = IF RequiresArtifact /\ res = "ok"
                        THEN files \cup {<<wk[a][w].s, "own">>} ELSE files
      BY <2>5 DEF Work
    <3>2. [at |-> "ran", s |-> wk[a][w].s, res |-> res] \in Worker
      BY <2>0 DEF Worker
    <3> QED
      BY <2>5, <2>0, <3>1, <3>2 DEF Work, SetWorker, Artifact
  <2>6. CASE Settle(a, w)
    <3>1. Settled(disk, wk[a][w].s, wk[a][w].res) \in Plan
      BY SlicePlans, <2>0
    <3>2. [wk[a][w] EXCEPT !.at = "idle"] \in Worker
      BY <2>0 DEF Worker
    <3> QED
      BY <2>6, <3>1, <3>2 DEF Settle, Update, SetWorker
  <2>7. CASE SettleFails(a, w)
    <3>1. [wk[a][w] EXCEPT !.at = "idle"] \in Worker
      BY <2>0 DEF Worker
    <3> QED
      BY <2>7, <3>1, SpendType DEF SettleFails, SetWorker, Bounds
  <2> QED
    BY <1>9, <2>1, <2>2, <2>3, <2>4, <2>5, <2>6, <2>7 DEF WorkerStep
<1>10. ASSUME NEW a \in Actors, Release(a) PROVE TypeOK'
  BY <1>10, <1>0 DEF Release, ReleaseStarted, Goto, Stage
<1>11. ASSUME NEW a \in Actors, ClearPid(a) PROVE TypeOK'
  <2>1. [disk EXCEPT !.pid = None] \in Plan
    BY PlanOps
  <2> QED
    BY <1>11, <2>1, SpendType DEF ClearPid, Goto, Stage, Bounds
<1>12. ASSUME NEW a \in Actors, CancelLoad(a) PROVE TypeOK'
  BY <1>12, SpendType DEF CancelLoad, Issue, Goto, Stage, Bounds
<1>13. ASSUME NEW a \in Actors, CancelSave(a) PROVE TypeOK'
  <2>1. [CancelOpen(copy[a]) EXCEPT !.pid = None] \in Plan
    BY PlanOps
  <2> QED
    BY <1>13, <2>1, SpendType DEF CancelSave, Goto, Stage, Bounds
<1>14. ASSUME NEW q \in Procs, Boot(q) PROVE TypeOK'
  BY <1>14 DEF Boot
<1>15. ASSUME NEW q \in Procs, Crash(q) PROVE TypeOK'
  BY <1>15, OutTypes, SpendType DEF Crash, Stage, Bounds
<1>16. ASSUME NEW f \in files, LosePart(f) PROVE TypeOK'
  BY <1>16, SpendType DEF LosePart, Bounds
<1>17. CASE UNCHANGED vars
  BY <1>17 DEF vars
<1> QED
  BY <1>1, <1>2, <1>3, <1>4, <1>5, <1>6, <1>7, <1>8, <1>9, <1>10, <1>11,
     <1>12, <1>13, <1>14, <1>15, <1>16, <1>17
  DEF Next, RetryStep, ReclaimStep, ExecutorStep, CancelStep

\* Every reachable state is well typed.
THEOREM TypeCorrect == Spec => []TypeOK
<1>1. Init => TypeOK
  BY InitType
<1>2. TypeOK /\ [Next]_vars => TypeOK'
  BY NextType
<1> QED
  BY <1>1, <1>2, PTL DEF Spec

(***************************************************************************)
(* Success is vouched for.  SucceededMeansDone is not inductive alone: what  *)
(* a worker brings back from a run has to be vouched for before it is        *)
(* recorded, and so has what another ledger did.                             *)
(***************************************************************************)
ReturnsVouched ==
  \A a \in Actors, w \in Workers :
    wk[a][w].at = "ran" /\ wk[a][w].res = "ok" =>
      /\ wk[a][w].s \in done
      /\ RequiresArtifact => <<wk[a][w].s, "own">> \in files \cup lost

SoundInv == /\ SucceededMeansDone
            /\ ReturnsVouched
            /\ PriorDone \subseteq done

LEMMA VouchedGrows ==
  ASSUME NEW p, NEW d, NEW d2, NEW f, NEW f2,
         d \subseteq d2, f \subseteq f2, Vouched(p, d, f)
  PROVE  Vouched(p, d2, f2)
BY DEF Vouched

LEMMA VouchedOps ==
  ASSUME NEW p \in Plan, NEW only \in SUBSET Slices, NEW pid \in Procs \cup {None},
         NEW d, NEW f, Vouched(p, d, f)
  PROVE  /\ Vouched(RetryOpen(p, only), d, f)
         /\ Vouched(RecheckArtifacts(p), d, f)
         /\ Vouched(CancelOpen(p), d, f)
         /\ Vouched(Interrupt(p), d, f)
         /\ Vouched([p EXCEPT !.pid = pid], d, f)
<1>1. Vouched(RetryOpen(p, only), d, f)
  BY DEF Vouched, Plan, RetryOpen
<1>2. Vouched(RecheckArtifacts(p), d, f)
  BY DEF Vouched, Plan, RecheckArtifacts
<1>3. Vouched(CancelOpen(p), d, f)
  BY DEF Vouched, Plan, CancelOpen, IsOpen
<1>4. Vouched(Interrupt(p), d, f)
  BY DEF Vouched, Plan, Interrupt
<1>5. Vouched([p EXCEPT !.pid = pid], d, f)
  BY DEF Vouched, Plan
<1> QED
  BY <1>1, <1>2, <1>3, <1>4, <1>5

LEMMA VouchedSlices ==
  ASSUME NEW p \in Plan, NEW s \in Slices, NEW res, NEW d, NEW f, Vouched(p, d, f)
  PROVE  /\ Vouched([p EXCEPT !.st[s] = "running"], d, f)
         /\ s \in d /\ (RequiresArtifact => <<s, "prior">> \in f) =>
              Vouched([p EXCEPT !.st[s] = "succeeded",
                         !.art[s] = IF RequiresArtifact THEN "prior" ELSE None], d, f)
         /\ (res \notin {"err", "bare"}
               => s \in d /\ (RequiresArtifact => <<s, "own">> \in f)) =>
              Vouched(Settled(p, s, res), d, f)
<1> USE ActorAssumption, LedgerAssumption DEF Vouched, Plan, Artifact, None
<1>1. Vouched([p EXCEPT !.st[s] = "running"], d, f)
  OBVIOUS
<1>2. ASSUME s \in d, RequiresArtifact => <<s, "prior">> \in f
      PROVE  Vouched([p EXCEPT !.st[s] = "succeeded",
                        !.art[s] = IF RequiresArtifact THEN "prior" ELSE None], d, f)
  BY <1>2
<1>3. ASSUME res \notin {"err", "bare"}
               => s \in d /\ (RequiresArtifact => <<s, "own">> \in f)
      PROVE  Vouched(Settled(p, s, res), d, f)
  <2>1. CASE res \in {"err", "bare"}
    BY <2>1 DEF Settled
  <2>2. CASE res \notin {"err", "bare"}
    BY <1>3, <2>2 DEF Settled
  <2> QED
    BY <2>1, <2>2
<1> QED
  BY <1>1, <1>2, <1>3

\* It is enough to vouch for the new ledger and for one new copy.
LEMMA SoundStep ==
  ASSUME TypeOK, SoundInv, NEW a \in Actors, NEW p,
         done \subseteq done', files \cup lost \subseteq (files \cup lost)',
         disk' \in {disk, p}, copy' \in {copy, [copy EXCEPT ![a] = p]},
         Vouched(p, done, files \cup lost)
  PROVE  SucceededMeansDone'
<1>1. \A b \in Actors : copy'[b] \in {copy[b], p}
  BY DEF TypeOK
<1>2. \A q \in {disk'} \cup {copy'[b] : b \in Actors} : Vouched(q, done, files \cup lost)
  BY <1>1 DEF SoundInv, SucceededMeansDone
<1> QED
  BY <1>2, VouchedGrows DEF SucceededMeansDone

LEMMA InitSound == Init => SoundInv
<1> SUFFICES ASSUME Init PROVE SoundInv
  OBVIOUS
<1>1. Vouched(NewPlan, done, files \cup lost)
  BY DEF Vouched, NewPlan
<1>2. ReturnsVouched
  BY DEF ReturnsVouched, Init, Out
<1> QED
  BY <1>1, <1>2 DEF Init, SoundInv, SucceededMeansDone

LEMMA NextSound == TypeOK /\ SoundInv /\ [Next]_vars => SoundInv'
<1> SUFFICES ASSUME TypeOK, SoundInv, [Next]_vars PROVE SoundInv'
  OBVIOUS
<1> DEFINE F == files \cup lost
<1>0. /\ Vouched(disk, done, F) /\ \A a \in Actors : Vouched(copy[a], done, F)
      /\ disk \in Plan /\ \A a \in Actors : copy[a] \in Plan
      /\ \A a \in Actors : ProcOf[a] \in Procs
  BY ActorAssumption DEF TypeOK, SoundInv, SucceededMeansDone
\* Steps of a verb: the workers and the history stand still.
<1>1. ASSUME NEW a \in Actors, NEW p, Vouched(p, done, F),
             disk' \in {disk, p}, copy' \in {copy, [copy EXCEPT ![a] = p]},
             UNCHANGED <<files, wk, lost, done>>
      PROVE  SoundInv'
  <2>1. SucceededMeansDone'
    BY <1>1, SoundStep
  <2> QED
    BY <1>1, <2>1 DEF SoundInv, ReturnsVouched
<1>2. ASSUME NEW a \in Actors, RetryStep(a) PROVE SoundInv'
  <2>1. CASE RetryLoad(a) \/ Reload(a)
    BY <1>0, <1>1, <2>1 DEF RetryLoad, Reload
  <2>2. CASE Reopen(a)
    <3>1. PICK only \in {Slices} \cup {{s} : s \in Slices},
               seen \in {copy[a], RecheckArtifacts(copy[a])} :
             \/ UNCHANGED copy
             \/ copy' = [copy EXCEPT ![a] =
                          [RetryOpen(seen, only) EXCEPT !.pid = ProcOf[a]]]
      BY <2>2 DEF Reopen
    <3> DEFINE plan == RetryOpen(seen, only)
    <3>2. only \in SUBSET Slices
      OBVIOUS
    <3>3. seen \in Plan /\ Vouched(seen, done, F)
      <4>1. copy[a] \in Plan /\ Vouched(copy[a], done, F)
        BY <1>0
      <4>2. RecheckArtifacts(copy[a]) \in Plan
        BY <3>2, <4>1, PlanOps
      <4>3. Vouched(RecheckArtifacts(copy[a]), done, F)
        BY <3>2, <4>1, VouchedOps
      <4> QED
        BY <4>1, <4>2, <4>3
    <3>4. plan \in Plan /\ Vouched(plan, done, F)
      BY <1>0, <3>2, <3>3, PlanOps, VouchedOps
    <3>5. Vouched([plan EXCEPT !.pid = ProcOf[a]], done, F)
      BY <1>0, <3>2, <3>4, VouchedOps
    <3>6. UNCHANGED <<disk, files, wk, lost, done>>
      BY <2>2 DEF Reopen
    <3> HIDE DEF plan
    <3>7. copy' \in {copy, [copy EXCEPT ![a] = [plan EXCEPT !.pid = ProcOf[a]]]}
      BY <3>1 DEF plan
    <3> QED
      BY <1>1, <3>5, <3>6, <3>7
  <2>3. CASE RetrySave(a) \/ RetryGivesUp(a)
    BY <1>0, <1>1, <2>3 DEF RetrySave, RetryGivesUp
  <2> QED
    BY <1>2, <2>1, <2>2, <2>3 DEF RetryStep
<1>3. ASSUME NEW a \in Actors, ReclaimStep(a) PROVE SoundInv'
  <2>1. Vouched(Interrupt(disk), done, F)
    BY <1>0, VouchedOps
  <2> QED
    BY <1>0, <1>1, <1>3, <2>1 DEF ReclaimStep, Sweep, Reclaim
<1>4. ASSUME NEW a \in Actors, CancelStep(a) PROVE SoundInv'
  <2>1. Vouched([CancelOpen(copy[a]) EXCEPT !.pid = None], done, F)
    BY <1>0, PlanOps, VouchedOps
  <2>2. CASE CancelLoad(a)
    BY <1>0, <1>1, <2>2 DEF CancelLoad
  <2>3. CASE CancelSave(a)
    BY <1>1, <2>1, <2>3 DEF CancelSave
  <2> QED
    BY <1>4, <2>2, <2>3 DEF CancelStep
<1>5. ASSUME NEW a \in Actors, Start(a) PROVE SoundInv'
  <2> DEFINE plan == IF RequiresArtifact THEN RecheckArtifacts(copy[a]) ELSE copy[a]
  <2>1. Vouched(plan, done, F)
    BY <1>0, VouchedOps
  <2>2. disk' = plan /\ copy' = [copy EXCEPT ![a] = plan] /\ UNCHANGED <<files, lost, done>>
    BY <1>5 DEF Start
  <2> HIDE DEF plan
  <2>3. SucceededMeansDone'
    BY <2>1, <2>2, SoundStep
  <2>4. \A b \in Actors, w \in Workers : wk'[b][w] = wk[b][w] \/ wk'[b][w].at # "ran"
    BY <1>5 DEF Start, Out, TypeOK
  <2>5. ReturnsVouched'
    BY <2>2, <2>4 DEF SoundInv, ReturnsVouched
  <2> QED
    BY <2>2, <2>3, <2>5 DEF SoundInv
<1>6. ASSUME NEW a \in Actors, NEW w \in Workers, WorkerStep(a, w) PROVE SoundInv'
  <2> DEFINE s == wk[a][w].s
  <2>0. wk[a][w] \in Worker /\ s \in Slices
    BY DEF TypeOK, Worker
  \* Whatever the ledger becomes, a worker that does not come back from a run
  \* needs nothing vouched for.
  <2>1. ASSUME NEW p, Vouched(p, done, F), disk' \in {disk, p},
               copy' \in {copy, [copy EXCEPT ![a] = p]},
               NEW x, x.at # "ran", SetWorker(a, w, x), UNCHANGED <<files, lost, done>>
        PROVE  SoundInv'
    <3>1. SucceededMeansDone'
      BY <2>1, SoundStep
    <3>2. \A b \in Actors, v \in Workers : wk'[b][v] = wk[b][v] \/ wk'[b][v].at # "ran"
      BY <2>1 DEF SetWorker, TypeOK
    <3>3. ReturnsVouched'
      BY <2>1, <3>2 DEF SoundInv, ReturnsVouched
    <3> QED
      BY <2>1, <3>1, <3>3 DEF SoundInv
  <2>2. CASE Claim(a, w)
    <3>1. PICK t \in Slices : /\ Update(a, [disk EXCEPT !.st[t] = "running"])
                              /\ SetWorker(a, w, [at |-> "claimed", s |-> t, res |-> "err"])
      BY <2>2 DEF Claim
    <3>2. Vouched([disk EXCEPT !.st[t] = "running"], done, F)
      BY <1>0, VouchedSlices
    <3>3. [at |-> "claimed", s |-> t, res |-> "err"].at # "ran"
      OBVIOUS
    <3>4. UNCHANGED <<files, lost, done>>
      BY <2>2 DEF Claim
    <3> QED
      BY <2>1, <3>1, <3>2, <3>3, <3>4 DEF Update
  <2>3. CASE WorkerExits(a, w) \/ ClaimFails(a, w)
    <3>1. Out.at # "ran"
      BY DEF Out
    <3> QED
      BY <1>0, <2>1, <2>3, <3>1 DEF WorkerExits, ClaimFails, Update
  <2>4. [wk[a][w] EXCEPT !.at = "idle"].at # "ran"
    BY <2>0 DEF Worker
  <2>5. CASE Reuse(a, w)
    <3> DEFINE plan == [disk EXCEPT !.st[s] = "succeeded",
                          !.art[s] = IF RequiresArtifact THEN "prior" ELSE None]
    <3>1. s \in done /\ (RequiresArtifact => <<s, "prior">> \in F)
      BY <2>5 DEF Reuse, Reusable, SoundInv
    <3>2. Vouched(plan, done, F)
      BY <1>0, <2>0, <3>1, VouchedSlices
    <3>3. /\ Update(a, plan) /\ SetWorker(a, w, [wk[a][w] EXCEPT !.at = "idle"])
          /\ UNCHANGED <<files, lost, done>>
      BY <2>5 DEF Reuse
    <3> HIDE DEF plan
    <3> QED
      BY <2>1, <2>4, <3>2, <3>3 DEF Update
  <2>6. CASE Work(a, w)
    <3>1. PICK res \in {"ok", "err", "bare"} :
            /\ SetWorker(a, w, [at |-> "ran", s |-> s, res |-> res])
            /\ done' = IF res = "ok" THEN done \cup {s} ELSE done
            /\ files' = IF RequiresArtifact /\ res = "ok"
                        THEN files \cup {<<s, "own">>} ELSE files
      BY <2>6 DEF Work
    <3>2. UNCHANGED <<disk, copy, lost>>
      BY <2>6 DEF Work
    <3>3. done \subseteq done' /\ F \subseteq F'
      BY <3>1, <3>2
    <3>4. SucceededMeansDone'
      BY <1>0, <3>2, <3>3, SoundStep
    <3>5. ASSUME NEW b \in Actors, NEW v \in Workers,
                 wk'[b][v].at = "ran", wk'[b][v].res = "ok"
          PROVE  /\ wk'[b][v].s \in done'
                 /\ RequiresArtifact => <<wk'[b][v].s, "own">> \in F'
      <4>1. CASE b = a /\ v = w
        <5>1. wk'[b][v] = [at |-> "ran", s |-> s, res |-> res]
          BY <3>1, <4>1 DEF SetWorker, TypeOK
        <5> QED
          BY <3>1, <3>5, <5>1
      <4>2. CASE ~(b = a /\ v = w)
        <5>1. wk'[b][v] = wk[b][v]
          BY <3>1, <4>2 DEF SetWorker, TypeOK
        <5> QED
          BY <3>3, <3>5, <5>1 DEF SoundInv, ReturnsVouched
      <4> QED
        BY <4>1, <4>2
    <3>6. ReturnsVouched'
      BY <3>5 DEF ReturnsVouched
    <3> QED
      BY <3>3, <3>4, <3>6 DEF SoundInv
  <2>7. CASE Settle(a, w)
    <3>1. wk[a][w].res \notin {"err", "bare"} =>
            s \in done /\ (RequiresArtifact => <<s, "own">> \in F)
      BY <2>7, <2>0 DEF Settle, At, SoundInv, ReturnsVouched, Worker
    <3>2. Vouched(Settled(disk, s, wk[a][w].res), done, F)
      BY <1>0, <2>0, <3>1, VouchedSlices
    <3>3. /\ Update(a, Settled(disk, s, wk[a][w].res))
          /\ SetWorker(a, w, [wk[a][w] EXCEPT !.at = "idle"])
          /\ UNCHANGED <<files, lost, done>>
      BY <2>7 DEF Settle
    <3> QED
      BY <2>1, <2>4, <3>2, <3>3 DEF Update
  <2>8. CASE SettleFails(a, w)
    BY <1>0, <2>1, <2>4, <2>8 DEF SettleFails
  <2> QED
    BY <1>6, <2>2, <2>3, <2>5, <2>6, <2>7, <2>8 DEF WorkerStep
<1>7. ASSUME NEW a \in Actors, Release(a) \/ ClearPid(a) PROVE SoundInv'
  <2>1. Vouched([disk EXCEPT !.pid = None], done, F)
    BY <1>0, VouchedOps
  <2> QED
    BY <1>0, <1>1, <1>7, <2>1 DEF Release, ClearPid
<1>8. ASSUME NEW q \in Procs, Boot(q) \/ Crash(q) PROVE SoundInv'
  <2>1. UNCHANGED <<disk, copy, files, lost, done>>
    BY <1>8 DEF Boot, Crash
  <2>2. \A b \in Actors, w \in Workers : wk'[b][w] = wk[b][w] \/ wk'[b][w].at # "ran"
    BY <1>8 DEF Boot, Crash, Out
  <2> QED
    BY <2>1, <2>2 DEF SoundInv, SucceededMeansDone, ReturnsVouched
<1>9. ASSUME NEW f \in files, LosePart(f) PROVE SoundInv'
  <2>1. UNCHANGED <<disk, copy, done, wk>> /\ F' = F
    BY <1>9 DEF LosePart
  <2> QED
    BY <2>1 DEF SoundInv, SucceededMeansDone, ReturnsVouched
<1>10. CASE UNCHANGED vars
  BY <1>10 DEF vars, SoundInv, SucceededMeansDone, ReturnsVouched
<1> QED
  BY <1>2, <1>3, <1>4, <1>5, <1>6, <1>7, <1>8, <1>9, <1>10 DEF Next, ExecutorStep

\* Whatever the verbs save over one another, and wherever a process dies, the
\* ledger never calls a slice succeeded whose work did not complete, nor one
\* whose part was not committed.
THEOREM Soundness == Spec => []SucceededMeansDone
<1>1. Init => TypeOK /\ SoundInv
  BY InitType, InitSound
<1>2. TypeOK /\ SoundInv /\ [Next]_vars => (TypeOK /\ SoundInv)'
  BY NextType, NextSound
<1>3. SoundInv => SucceededMeansDone
  BY DEF SoundInv
<1> QED
  BY <1>1, <1>2, <1>3, PTL DEF Spec

\* assembled_read reads a whole extract or nothing: what it takes for granted of
\* each chunk's part is what the ledger vouches for.
THEOREM Whole == Spec => []AssembledIsWhole
<1>1. SucceededMeansDone => AssembledIsWhole
  BY DEF SucceededMeansDone, Vouched, AssembledIsWhole, AssembledRead
<1> QED
  BY <1>1, Soundness, PTL

(***************************************************************************)
(* Order.  A link holds because its predecessor succeeded when it was taken, *)
(* which Soundness turns into "its work completed", and that lasts.          *)
(***************************************************************************)
HeldInOrder ==
  \A a \in Actors, w \in Workers :
    wk[a][w].at \in {"claimed", "ran"} =>
      Requires[wk[a][w].s] = 0 \/ Requires[wk[a][w].s] \in done

LEMMA NextOrder ==
  TypeOK /\ SoundInv /\ HeldInOrder /\ [Next]_vars => HeldInOrder'
<1> SUFFICES ASSUME TypeOK, SoundInv, HeldInOrder, [Next]_vars PROVE HeldInOrder'
  OBVIOUS
\* A step that leaves every worker where it was, or off every slice.
<1>1. ASSUME done \subseteq done',
             \A a \in Actors, w \in Workers :
               wk'[a][w] = wk[a][w] \/ wk'[a][w].at \notin {"claimed", "ran"}
      PROVE  HeldInOrder'
  BY <1>1 DEF HeldInOrder
<1>2. ASSUME UNCHANGED <<wk, done>> PROVE HeldInOrder'
  BY <1>2 DEF HeldInOrder
<1>3. ASSUME NEW a \in Actors, NEW w \in Workers, WorkerStep(a, w) PROVE HeldInOrder'
  <2>0. wk[a][w] \in Worker
    BY DEF TypeOK
  \* The worker that moves keeps its slice, or lets go of it.
  <2>1. ASSUME NEW x, SetWorker(a, w, x), done \subseteq done',
               x.at \in {"claimed", "ran"} =>
                 Requires[x.s] = 0 \/ Requires[x.s] \in done
        PROVE  HeldInOrder'
    <3>1. \A b \in Actors, v \in Workers :
            wk'[b][v] = IF b = a /\ v = w THEN x ELSE wk[b][v]
      BY <2>1 DEF SetWorker, TypeOK
    <3> QED
      BY <2>1, <3>1 DEF HeldInOrder
  <2>2. CASE Claim(a, w)
    <3>1. PICK s \in Slices :
            /\ Claimable(disk, s)
            /\ SetWorker(a, w, [at |-> "claimed", s |-> s, res |-> "err"])
      BY <2>2 DEF Claim
    <3>2. Requires[s] = 0 \/ Requires[s] \in done
      BY <3>1 DEF Claimable, SoundInv, SucceededMeansDone, Vouched
    <3>3. UNCHANGED done
      BY <2>2 DEF Claim
    <3> QED
      BY <2>1, <3>1, <3>2, <3>3
  <2>3. CASE WorkerExits(a, w) \/ ClaimFails(a, w)
    <3>1. SetWorker(a, w, Out) /\ UNCHANGED done
      BY <2>3 DEF WorkerExits, ClaimFails
    <3>2. Out.at = "out"
      BY DEF Out
    <3> QED
      BY <2>1, <3>1, <3>2
  <2>4. CASE Reuse(a, w) \/ Settle(a, w) \/ SettleFails(a, w)
    <3>1. SetWorker(a, w, [wk[a][w] EXCEPT !.at = "idle"]) /\ UNCHANGED done
      BY <2>4 DEF Reuse, Settle, SettleFails
    <3>2. [wk[a][w] EXCEPT !.at = "idle"].at = "idle"
      BY <2>0 DEF Worker
    <3> QED
      BY <2>1, <3>1, <3>2
  <2>5. CASE Work(a, w)
    <3>1. PICK res \in {"ok", "err", "bare"} :
            SetWorker(a, w, [at |-> "ran", s |-> wk[a][w].s, res |-> res])
      BY <2>5 DEF Work
    <3>2. wk[a][w].at = "claimed" /\ done \subseteq done'
      BY <2>5 DEF Work, At
    <3>3. Requires[wk[a][w].s] = 0 \/ Requires[wk[a][w].s] \in done
      BY <3>2 DEF HeldInOrder
    <3> QED
      BY <2>1, <3>1, <3>2, <3>3
  <2> QED
    BY <1>3, <2>2, <2>3, <2>4, <2>5 DEF WorkerStep
<1>4. ASSUME NEW a \in Actors, Start(a) PROVE HeldInOrder'
  <2>1. \A b \in Actors, w \in Workers :
          wk'[b][w] = wk[b][w] \/ wk'[b][w].at \notin {"claimed", "ran"}
    BY <1>4 DEF Start, Out, TypeOK
  <2> QED
    BY <1>1, <1>4, <2>1 DEF Start
<1>5. ASSUME NEW q \in Procs, Boot(q) \/ Crash(q) PROVE HeldInOrder'
  <2>1. \A b \in Actors, w \in Workers :
          wk'[b][w] = wk[b][w] \/ wk'[b][w].at \notin {"claimed", "ran"}
    BY <1>5 DEF Boot, Crash, Out
  <2> QED
    BY <1>1, <1>5, <2>1 DEF Boot, Crash
<1>6. ASSUME NEW a \in Actors,
             RetryStep(a) \/ ReclaimStep(a) \/ CancelStep(a) \/ Release(a) \/ ClearPid(a)
      PROVE  UNCHANGED <<wk, done>>
  BY <1>6 DEF RetryStep, RetryLoad, Reload, Reopen, RetrySave, RetryGivesUp, ReclaimStep,
     Sweep, Reclaim, CancelStep, CancelLoad, CancelSave, Release, ClearPid
<1>7. ASSUME NEW f \in files, LosePart(f) PROVE UNCHANGED <<wk, done>>
  BY <1>7 DEF LosePart
<1>8. CASE UNCHANGED vars
  BY <1>2, <1>8 DEF vars
<1> QED
  BY <1>2, <1>3, <1>4, <1>5, <1>6, <1>7, <1>8 DEF Next, ExecutorStep

\* A link of an ordered chain is never run before the work of its predecessor
\* has completed, and a link whose predecessor was never published never runs,
\* whatever the verbs save over one another.
THEOREM Order == Spec => []ChainOrder
<1>1. Init => TypeOK /\ SoundInv /\ HeldInOrder
  <2>1. Init => HeldInOrder
    BY DEF Init, HeldInOrder, Out
  <2> QED
    BY <2>1, InitType, InitSound
<1>2. TypeOK /\ SoundInv /\ HeldInOrder /\ [Next]_vars
        => (TypeOK /\ SoundInv /\ HeldInOrder)'
  BY NextType, NextSound, NextOrder
<1>3. HeldInOrder => ChainOrder
  BY DEF HeldInOrder, ChainOrder, Holders, Holds
<1> QED
  BY <1>1, <1>2, <1>3, PTL DEF Spec


(***************************************************************************)
(* A cancel that has landed.  Only a bare save of an older copy, or the     *)
(* settle of a worker that was on the slice, says otherwise of it: a claim  *)
(* takes what is requested, an update touches the slice of its worker, and  *)
(* a reclaim what is running.                                              *)
(***************************************************************************)

\* What a worker changes on the ledger is its own slice, or one it may claim.
LEMMA WorkersTouch ==
  ASSUME TypeOK, NEW a \in Actors, NEW w \in Workers, WorkerStep(a, w),
         NEW s \in Slices, ~Holds(a, w, s), ~IsClaimable(disk.st[s])
  PROVE  disk'.st[s] = disk.st[s]
<1> DEFINE t == wk[a][w].s
<1>1. disk \in Plan /\ t \in Slices
  BY DEF TypeOK, Worker
<1>2. CASE Claim(a, w)
  <2>1. PICK u \in Slices : /\ Claimable(disk, u)
                           /\ Update(a, [disk EXCEPT !.st[u] = "running"])
    BY <1>2 DEF Claim
  <2>2. u # s
    BY <2>1 DEF Claimable
  <2> QED
    BY <1>1, <2>1, <2>2 DEF Update, Plan
<1>3. CASE Reuse(a, w)
  <2>1. t # s
    BY <1>3 DEF Reuse, At, Holds
  <2>2. Update(a, [disk EXCEPT !.st[t] = "succeeded",
                               !.art[t] = IF RequiresArtifact THEN "prior" ELSE None])
    BY <1>3 DEF Reuse
  <2> QED
    BY <1>1, <2>1, <2>2 DEF Update, Plan
<1>4. CASE Settle(a, w)
  <2>1. t # s
    BY <1>4 DEF Settle, At, Holds
  <2>2. Settled(disk, t, wk[a][w].res).st[s] = disk.st[s]
    BY <1>1, <2>1 DEF Settled, Plan
  <2> QED
    BY <1>4, <2>2 DEF Settle, Update
<1>5. CASE WorkerExits(a, w) \/ ClaimFails(a, w) \/ Work(a, w) \/ SettleFails(a, w)
  BY <1>5 DEF WorkerExits, ClaimFails, Work, SettleFails, Update
<1> QED
  BY <1>2, <1>3, <1>4, <1>5 DEF WorkerStep

\* A cancel that has landed sticks: no executor, reclaim or retry in progress
\* takes the slice back, but for a bare save that was on its way already.
THEOREM CancelsHold == Spec => CancelSticks
<1>1. ASSUME TypeOK, [Next]_vars, NEW s \in Slices, disk.st[s] = "cancelled",
             Holders(s) = {}, StaleSaves = {}
      PROVE  disk'.st[s] = "cancelled"
  <2>1. \A a \in Actors : /\ pc[a] \notin {"save", "start", "cancel"}
                          /\ \A w \in Workers : ~Holds(a, w, s)
    <3>1. \A a \in Actors : pc[a] \notin {"save", "start", "cancel"}
      BY <1>1 DEF StaleSaves
    <3>2. ASSUME NEW a \in Actors, NEW w \in Workers, Holds(a, w, s) PROVE FALSE
      BY <1>1, <3>2, <<a, w>> \in Holders(s) DEF Holders
    <3> QED
      BY <3>1, <3>2
  <2>2. CASE UNCHANGED vars
    BY <1>1, <2>2 DEF vars
  <2>3. ASSUME NEW a \in Actors, RetryStep(a) PROVE disk'.st[s] = "cancelled"
    BY <1>1, <2>1, <2>3 DEF RetryStep, RetryLoad, Reload, Reopen, RetrySave, RetryGivesUp
  <2>4. ASSUME NEW a \in Actors, ReclaimStep(a) PROVE disk'.st[s] = "cancelled"
    <3>1. Interrupt(disk).st[s] = "cancelled"
      BY <1>1 DEF TypeOK, Plan, Interrupt
    <3>2. disk' = disk \/ disk' = Interrupt(disk)
      BY <2>4 DEF ReclaimStep, Sweep, Reclaim
    <3> QED
      BY <1>1, <3>1, <3>2
  <2>5. ASSUME NEW a \in Actors, ExecutorStep(a) PROVE disk'.st[s] = "cancelled"
    <3>1. ASSUME NEW w \in Workers, WorkerStep(a, w) PROVE disk'.st[s] = "cancelled"
      <4>1. ~IsClaimable(disk.st[s])
        BY <1>1 DEF IsClaimable
      <4> QED
        BY <1>1, <2>1, <3>1, <4>1, WorkersTouch
    <3>2. ~Start(a)
      BY <2>1 DEF Start
    <3>3. CASE Release(a)
      BY <1>1, <3>3 DEF Release
    <3>4. CASE ClearPid(a)
      BY <1>1, <3>4 DEF ClearPid, TypeOK, Plan
    <3> QED
      BY <2>5, <3>1, <3>2, <3>3, <3>4 DEF ExecutorStep
  <2>6. ASSUME NEW a \in Actors, CancelStep(a) PROVE disk'.st[s] = "cancelled"
    BY <1>1, <2>1, <2>6 DEF CancelStep, CancelLoad, CancelSave
  <2>7. ASSUME NEW q \in Procs, Boot(q) \/ Crash(q) PROVE disk'.st[s] = "cancelled"
    BY <1>1, <2>7 DEF Boot, Crash
  <2>8. ASSUME NEW f \in files, LosePart(f) PROVE disk'.st[s] = "cancelled"
    BY <1>1, <2>8 DEF LosePart
  <2> QED
    BY <1>1, <2>2, <2>3, <2>4, <2>5, <2>6, <2>7, <2>8 DEF Next
<1>2. TypeOK /\ [Next]_vars
        => [\A s \in Slices : disk.st[s] = "cancelled" /\ Holders(s) = {} /\ StaleSaves = {}
              => disk'.st[s] = "cancelled"]_vars
  BY <1>1
<1> QED
  BY <1>2, TypeCorrect, PTL DEF Spec, CancelSticks
=============================================================================
