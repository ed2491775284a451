--------------------------- MODULE ReceiptProofs ---------------------------
(* What holds of Receipts for any number of runs and servers, with locks or  *)
(* without, and every limit: the types, and that no sweep declares dead a    *)
(* run that a live server still has before it (WorkIsKept), and that permits *)
(* are neither lost nor made (LimitHolds).                                   *)
EXTENDS Receipts, FiniteSetTheorems, TLAPS

-----------------------------------------------------------------------------
(* The inductive invariant.                                                *)

Holding == {"admitting", "engine", "ending", "letting", "unlinked", "written"}

\* A run that has begun has one server, which lives while the thread is on its way.
Placed ==
  \A r \in Runs :
    /\ at[r] = "idle" => receipt[r] = NoFile
    /\ \A p \in Servers : r \in ours[p] => at[r] # "idle" /\ owner[r] = p
    /\ at[r] # "idle" => owner[r] \in Servers
    /\ at[r] \notin Gone => owner[r] \in up

\* A run that is still to be done has its witness.
Witnessed ==
  \A r \in Runs : at[r] \in Working =>
    /\ r \in ours[owner[r]]
    /\ witness[r] = IF LocksWork THEN "held" ELSE "free"

\* A receipt in flight names the process that has the run.
Signed ==
  \A r \in Runs : receipt[r].state \in InFlight => receipt[r].pid = Pid[owner[r]]

\* What a sweep has in hand came from such a receipt, and what it takes for dead is.
InHand(p) ==
  /\ sweep[p].run \in Runs
  /\ at[sweep[p].run] # "idle"
  /\ sweep[p].pid = Pid[owner[sweep[p].run]]
  /\ sweep[p].at = "dead" => at[sweep[p].run] \notin Working
Swept == \A p \in Servers : sweep[p] # Idle => InHand(p)

\* Who has a permit.
Permitted ==
  \A r \in Runs :
    /\ r \in holds => at[r] \in Holding
    /\ at[r] \in {"admitting", "engine"} => r \in holds

Inv == TypeOK /\ Placed /\ Witnessed /\ Signed /\ Swept /\ Permitted /\ WorkIsKept /\ LimitHolds

-----------------------------------------------------------------------------
(* The directory.                                                          *)

\* A write leaves what the file of each run said, or prune has taken it, and
\* never one that says running.
LEMMA WriteKeeps ==
  ASSUME TypeOK, NEW r \in Runs, NEW c \in Receipt, Write(r, c)
  PROVE  /\ receipt' \in [Runs -> Receipt]
         /\ before' \in SUBSET (Runs \X Runs)
         /\ \A x \in Runs : receipt'[x] \in {IF x = r THEN c ELSE receipt[x], NoFile}
         /\ \A x \in Runs : (IF x = r THEN c ELSE receipt[x]).state = "running" =>
              receipt'[x] = IF x = r THEN c ELSE receipt[x]
<1> DEFINE f == [receipt EXCEPT ![r] = c]
           b == {e \in before : r \notin {e[1], e[2]}}
                  \cup {<<x, r>> : x \in {y \in Runs \ {r} : receipt[y] # NoFile}}
           gone == Pruned(f, b)
<1>1. receipt' = [x \in Runs |-> IF x \in gone THEN NoFile ELSE f[x]]
      /\ before' = {e \in b : e[1] \notin gone /\ e[2] \notin gone}
  BY DEF Write
<1>2. \A x \in gone : f[x].state # "running"
  BY DEF Pruned, Prunable
<1>3. f \in [Runs -> Receipt] /\ \A x \in Runs : f[x] = IF x = r THEN c ELSE receipt[x]
  BY DEF TypeOK
<1>4. NoFile \in Receipt
  BY DEF NoFile, Receipt, States
<1>5. b \in SUBSET (Runs \X Runs)
  BY DEF TypeOK
<1> HIDE DEF f, b, gone
<1>6. receipt' \in [Runs -> Receipt] /\ before' \in SUBSET (Runs \X Runs)
  BY <1>1, <1>3, <1>4, <1>5
<1> QED
  BY <1>1, <1>2, <1>3, <1>6

LEMMA SaysIsReceipt ==
  ASSUME TypeOK, NEW p \in Servers, NEW state \in States
  PROVE  [state |-> state, pid |-> Pid[p]] \in Receipt /\ [state |-> state, pid |-> NoPid] \in Receipt
BY DEF Receipt, Pids

-----------------------------------------------------------------------------
(* Permits.                                                                *)

HeldAt(p) == {x \in holds : owner[x] = p}

LEMMA FiniteHolds == ASSUME TypeOK PROVE \A p \in Servers : IsFiniteSet(HeldAt(p))
<1> TAKE p \in Servers
<1>1. HeldAt(p) \subseteq Runs
  BY DEF HeldAt, TypeOK
<1> QED
  BY <1>1, FS_Subset, ReceiptAssumption

LEMMA PermitsUntouched ==
  ASSUME LimitHolds, Permitted', holds' = holds, free' = free,
         \A x \in holds : owner'[x] = owner[x]
  PROVE  LimitHolds'
<1>1. \A q \in Servers : {x \in holds' : owner'[x] = q} = {x \in holds : owner[x] = q}
  OBVIOUS
<1>2. \A x \in Runs : at'[x] = "engine" => x \in holds'
  BY DEF Permitted
<1> QED
  BY <1>1, <1>2 DEF LimitHolds

LEMMA PermitTaken ==
  ASSUME TypeOK, LimitHolds, NEW r \in Runs, r \notin holds, owner[r] \in Servers,
         free[owner[r]] # 0, free' = [free EXCEPT ![owner[r]] = @ - 1],
         holds' = holds \cup {r}, owner' = owner
  PROVE  /\ free' \in [Servers -> 0..Permits]
         /\ \A p \in Servers : free'[p] + Cardinality({x \in holds' : owner'[x] = p}) = Permits
<1>1. free' \in [Servers -> 0..Permits]
  BY ReceiptAssumption DEF TypeOK
<1>2. ASSUME NEW p \in Servers
      PROVE  free'[p] + Cardinality({x \in holds' : owner'[x] = p}) = Permits
  <2>1. free[p] + Cardinality(HeldAt(p)) = Permits
    BY DEF LimitHolds, HeldAt
  <2>2. CASE p = owner[r]
    <3>1. {x \in holds' : owner'[x] = p} = HeldAt(p) \cup {r}
      BY <2>2 DEF HeldAt
    <3>2. Cardinality(HeldAt(p) \cup {r}) = Cardinality(HeldAt(p)) + 1
      BY FiniteHolds, FS_AddElement DEF HeldAt
    <3>3. free'[p] = free[p] - 1 /\ free[p] \in Nat /\ Cardinality(HeldAt(p)) \in Nat
      BY <2>2, FiniteHolds, FS_CardinalityType DEF TypeOK
    <3>4. Cardinality({x \in holds' : owner'[x] = p}) = Cardinality(HeldAt(p)) + 1
      BY <3>1, <3>2
    <3> QED
      BY <2>1, <3>3, <3>4
  <2>3. CASE p # owner[r]
    <3>1. {x \in holds' : owner'[x] = p} = HeldAt(p)
      BY <2>3 DEF HeldAt
    <3> QED
      BY <2>1, <2>3, <3>1 DEF TypeOK
  <2> QED
    BY <2>2, <2>3
<1> QED
  BY <1>1, <1>2

LEMMA PermitReturned ==
  ASSUME TypeOK, LimitHolds, NEW r \in Runs, r \in holds, owner[r] \in Servers,
         ReturnPermit(r), owner' = owner
  PROVE  /\ holds' = holds \ {r}
         /\ asleep' \in SUBSET Runs
         /\ free' \in [Servers -> 0..Permits]
         /\ \A p \in Servers : free'[p] + Cardinality({x \in holds' : owner'[x] = p}) = Permits
<1>1. holds' = holds \ {r} /\ free' = [free EXCEPT ![owner[r]] = @ + 1]
  BY DEF ReturnPermit
<1>2. asleep' \in SUBSET Runs
  BY DEF ReturnPermit, TypeOK
<1>3. ASSUME NEW p \in Servers
      PROVE  /\ free'[p] \in 0..Permits
             /\ free'[p] + Cardinality({x \in holds' : owner'[x] = p}) = Permits
  <2>1. free[p] + Cardinality(HeldAt(p)) = Permits
    BY DEF LimitHolds, HeldAt
  <2>2. CASE p = owner[r]
    <3>1. {x \in holds' : owner'[x] = p} = HeldAt(p) \ {r}
      BY <1>1, <2>2 DEF HeldAt
    <3>2. r \in HeldAt(p)
      BY <2>2 DEF HeldAt
    <3>3. Cardinality(HeldAt(p) \ {r}) = Cardinality(HeldAt(p)) - 1
      BY <3>2, FiniteHolds, FS_RemoveElement
    <3>4. Cardinality(HeldAt(p) \ {r}) \in Nat
      BY <3>2, FiniteHolds, FS_RemoveElement, FS_CardinalityType
    <3>5. free'[p] = free[p] + 1 /\ free[p] \in Nat /\ Cardinality(HeldAt(p)) \in Nat
      BY <1>1, <2>2, FiniteHolds, FS_CardinalityType DEF TypeOK
    <3>6. Cardinality({x \in holds' : owner'[x] = p}) = Cardinality(HeldAt(p)) - 1
      BY <3>1, <3>3
    <3> QED
      BY <2>1, <3>3, <3>4, <3>5, <3>6, ReceiptAssumption
  <2>3. CASE p # owner[r]
    <3>1. {x \in holds' : owner'[x] = p} = HeldAt(p)
      BY <1>1, <2>3 DEF HeldAt
    <3> QED
      BY <1>1, <2>1, <2>3, <3>1 DEF TypeOK
  <2> QED
    BY <2>2, <2>3
<1>4. free' \in [Servers -> 0..Permits]
  BY <1>1, <1>3 DEF TypeOK
<1> QED
  BY <1>1, <1>2, <1>3, <1>4

-----------------------------------------------------------------------------
(* One lemma for each action.                                              *)

LEMMA AcceptKeeps ==
  ASSUME Inv, NEW p \in Servers, NEW r \in Runs, Accept(p, r)
  PROVE  Inv'
<1> USE DEF Inv
<1> DEFINE c == [state |-> "queued", pid |-> Pid[p]]
<1>a. owner'[r] = p /\ p \in Servers
  BY DEF TypeOK, Placed, Gone, Accept
<1>b. c \in Receipt
  BY <1>a, SaysIsReceipt DEF States
<1>c. Write(r, c)
  BY <1>a DEF Accept, Says
<1>0. /\ receipt' \in [Runs -> Receipt] /\ before' \in SUBSET (Runs \X Runs)
      /\ \A x \in Runs : receipt'[x] \in {IF x = r THEN c ELSE receipt[x], NoFile}
      /\ \A x \in Runs : (IF x = r THEN c ELSE receipt[x]).state = "running" =>
           receipt'[x] = IF x = r THEN c ELSE receipt[x]
  BY <1>b, <1>c, WriteKeeps
<1>1. TypeOK'
  BY <1>0, <1>a DEF TypeOK, Stages, Sweep, InFlight, Receipt, Accept, ClaimStarted, Alive, files, pool, cancels
<1>2. Placed'
  BY <1>0, <1>a DEF TypeOK, Placed, Gone, Working, Stages, Accept, ClaimStarted, Alive, files, pool, cancels
<1>3. Witnessed'
  BY <1>0, <1>a DEF TypeOK, Placed, Witnessed, Working, Stages, Accept, ClaimStarted, Alive, files, pool, cancels
<1>4. Signed'
  BY <1>0, <1>a DEF TypeOK, Placed, Signed, InFlight, NoFile, Gone, Working, Accept, ClaimStarted, Alive, files, pool, cancels
<1>5. Swept'
  BY <1>0, <1>a DEF TypeOK, Placed, Signed, Swept, InHand, Idle, InFlight, Working, NoFile, Accept, ClaimStarted, Alive, files, pool, cancels
<1>6. Permitted'
  BY <1>0, <1>a DEF TypeOK, Permitted, Holding, Accept, ClaimStarted, Alive, files, pool, cancels
<1>7. WorkIsKept'
  BY <1>0, <1>a DEF TypeOK, Placed, WorkIsKept, InFlight, Working, NoFile, Swept, InHand, Gone, Accept, ClaimStarted, Alive, files, pool, cancels
<1>8. LimitHolds'
  BY <1>6, PermitsUntouched DEF Accept, pool, Permitted, Holding, TypeOK, Placed
<1> QED
  BY <1>1, <1>2, <1>3, <1>4, <1>5, <1>6, <1>7, <1>8

LEMMA BeginKeeps ==
  ASSUME Inv, NEW p \in Servers, NEW r \in Runs, Begin(p, r)
  PROVE  Inv'
<1> USE DEF Inv
<1> DEFINE c == [state |-> "running", pid |-> Pid[p]]
<1>a. owner'[r] = p /\ p \in Servers
  BY DEF TypeOK, Placed, Gone, Begin
<1>b. c \in Receipt
  BY <1>a, SaysIsReceipt DEF States
<1>c. Write(r, c)
  BY <1>a DEF Begin, Says
<1>0. /\ receipt' \in [Runs -> Receipt] /\ before' \in SUBSET (Runs \X Runs)
      /\ \A x \in Runs : receipt'[x] \in {IF x = r THEN c ELSE receipt[x], NoFile}
      /\ \A x \in Runs : (IF x = r THEN c ELSE receipt[x]).state = "running" =>
           receipt'[x] = IF x = r THEN c ELSE receipt[x]
  BY <1>b, <1>c, WriteKeeps
<1>1. TypeOK'
  BY <1>0, <1>a DEF TypeOK, Stages, Sweep, InFlight, Receipt, Begin, ClaimStarted, Alive, files, pool, cancels
<1>2. Placed'
  BY <1>0, <1>a DEF TypeOK, Placed, Gone, Working, Stages, Begin, ClaimStarted, Alive, files, pool, cancels
<1>3. Witnessed'
  BY <1>0, <1>a DEF TypeOK, Placed, Witnessed, Working, Stages, Begin, ClaimStarted, Alive, files, pool, cancels
<1>4. Signed'
  BY <1>0, <1>a DEF TypeOK, Placed, Signed, InFlight, NoFile, Gone, Working, Begin, ClaimStarted, Alive, files, pool, cancels
<1>5. Swept'
  BY <1>0, <1>a DEF TypeOK, Placed, Signed, Swept, InHand, Idle, InFlight, Working, NoFile, Begin, ClaimStarted, Alive, files, pool, cancels
<1>6. Permitted'
  BY <1>0, <1>a DEF TypeOK, Permitted, Holding, Begin, ClaimStarted, Alive, files, pool, cancels
<1>7. WorkIsKept'
  BY <1>0, <1>a DEF TypeOK, Placed, WorkIsKept, InFlight, Working, NoFile, Swept, InHand, Gone, Begin, ClaimStarted, Alive, files, pool, cancels
<1>8. LimitHolds'
  BY <1>6, PermitsUntouched DEF Begin, pool, Permitted, Holding, TypeOK, Placed
<1> QED
  BY <1>1, <1>2, <1>3, <1>4, <1>5, <1>6, <1>7, <1>8

LEMMA RefusedKeeps ==
  ASSUME Inv, NEW r \in Runs, Refused(r)
  PROVE  Inv'
<1> USE DEF Inv
<1>1. TypeOK'
  BY DEF TypeOK, Stages, Sweep, InFlight, Receipt, Refused, Alive, files, pool, cancels
<1>2. Placed'
  BY DEF TypeOK, Placed, Gone, Working, Stages, Refused, Alive, files, pool, cancels
<1>3. Witnessed'
  BY DEF TypeOK, Placed, Witnessed, Working, Stages, Refused, Alive, files, pool, cancels
<1>4. Signed'
  BY DEF TypeOK, Placed, Signed, InFlight, NoFile, Gone, Working, Refused, Alive, files, pool, cancels
<1>5. Swept'
  BY DEF TypeOK, Placed, Signed, Swept, InHand, Idle, InFlight, Working, NoFile, Refused, Alive, files, pool, cancels
<1>6. Permitted'
  BY DEF TypeOK, Permitted, Holding, Refused, Alive, files, pool, cancels
<1>7. WorkIsKept'
  BY DEF TypeOK, Placed, WorkIsKept, InFlight, Working, NoFile, Swept, InHand, Gone, Refused, Alive, files, pool, cancels
<1>8. LimitHolds'
  BY <1>6, PermitsUntouched DEF Refused, pool, Permitted, Holding, TypeOK, Placed
<1> QED
  BY <1>1, <1>2, <1>3, <1>4, <1>5, <1>6, <1>7, <1>8

LEMMA EngineEndsKeeps ==
  ASSUME Inv, NEW r \in Runs, EngineEnds(r)
  PROVE  Inv'
<1> USE DEF Inv
<1>1. TypeOK'
  BY DEF TypeOK, Stages, Sweep, InFlight, Receipt, EngineEnds, Alive, files, pool, cancels
<1>2. Placed'
  BY DEF TypeOK, Placed, Gone, Working, Stages, EngineEnds, Alive, files, pool, cancels
<1>3. Witnessed'
  BY DEF TypeOK, Placed, Witnessed, Working, Stages, EngineEnds, Alive, files, pool, cancels
<1>4. Signed'
  BY DEF TypeOK, Placed, Signed, InFlight, NoFile, Gone, Working, EngineEnds, Alive, files, pool, cancels
<1>5. Swept'
  BY DEF TypeOK, Placed, Signed, Swept, InHand, Idle, InFlight, Working, NoFile, EngineEnds, Alive, files, pool, cancels
<1>6. Permitted'
  BY DEF TypeOK, Permitted, Holding, EngineEnds, Alive, files, pool, cancels
<1>7. WorkIsKept'
  BY DEF TypeOK, Placed, WorkIsKept, InFlight, Working, NoFile, Swept, InHand, Gone, EngineEnds, Alive, files, pool, cancels
<1>8. LimitHolds'
  BY <1>6, PermitsUntouched DEF EngineEnds, pool, Permitted, Holding, TypeOK, Placed
<1> QED
  BY <1>1, <1>2, <1>3, <1>4, <1>5, <1>6, <1>7, <1>8

LEMMA AbandonKeeps ==
  ASSUME Inv, NEW r \in Runs, Abandon(r)
  PROVE  Inv'
<1> USE DEF Inv
<1>1. TypeOK'
  BY DEF TypeOK, Stages, Sweep, InFlight, Receipt, Abandon, Alive, files, pool, cancels
<1>2. Placed'
  BY DEF TypeOK, Placed, Gone, Working, Stages, Abandon, Alive, files, pool, cancels
<1>3. Witnessed'
  BY DEF TypeOK, Placed, Witnessed, Working, Stages, Abandon, Alive, files, pool, cancels
<1>4. Signed'
  BY DEF TypeOK, Placed, Signed, InFlight, NoFile, Gone, Working, Abandon, Alive, files, pool, cancels
<1>5. Swept'
  BY DEF TypeOK, Placed, Signed, Swept, InHand, Idle, InFlight, Working, NoFile, Abandon, Alive, files, pool, cancels
<1>6. Permitted'
  BY DEF TypeOK, Permitted, Holding, Abandon, Alive, files, pool, cancels
<1>7. WorkIsKept'
  BY DEF TypeOK, Placed, WorkIsKept, InFlight, Working, NoFile, Swept, InHand, Gone, Abandon, Alive, files, pool, cancels
<1>8. LimitHolds'
  BY <1>6, PermitsUntouched DEF Abandon, pool, Permitted, Holding, TypeOK, Placed
<1> QED
  BY <1>1, <1>2, <1>3, <1>4, <1>5, <1>6, <1>7, <1>8

LEMMA FinishLetsKeeps ==
  ASSUME Inv, NEW r \in Runs, FinishLets(r)
  PROVE  Inv'
<1> USE DEF Inv
<1>1. TypeOK'
  BY DEF TypeOK, Stages, Sweep, InFlight, Receipt, FinishLets, Alive, files, pool, cancels
<1>2. Placed'
  BY DEF TypeOK, Placed, Gone, Working, Stages, FinishLets, Alive, files, pool, cancels
<1>3. Witnessed'
  BY DEF TypeOK, Placed, Witnessed, Working, Stages, FinishLets, Alive, files, pool, cancels
<1>4. Signed'
  BY DEF TypeOK, Placed, Signed, InFlight, NoFile, Gone, Working, FinishLets, Alive, files, pool, cancels
<1>5. Swept'
  BY DEF TypeOK, Placed, Signed, Swept, InHand, Idle, InFlight, Working, NoFile, FinishLets, Alive, files, pool, cancels
<1>6. Permitted'
  BY DEF TypeOK, Permitted, Holding, FinishLets, Alive, files, pool, cancels
<1>7. WorkIsKept'
  BY DEF TypeOK, Placed, WorkIsKept, InFlight, Working, NoFile, Swept, InHand, Gone, FinishLets, Alive, files, pool, cancels
<1>8. LimitHolds'
  BY <1>6, PermitsUntouched DEF FinishLets, pool, Permitted, Holding, TypeOK, Placed
<1> QED
  BY <1>1, <1>2, <1>3, <1>4, <1>5, <1>6, <1>7, <1>8

LEMMA FinishUnlinksKeeps ==
  ASSUME Inv, NEW r \in Runs, FinishUnlinks(r)
  PROVE  Inv'
<1> USE DEF Inv
<1>1. TypeOK'
  BY DEF TypeOK, Stages, Sweep, InFlight, Receipt, FinishUnlinks, Alive, files, pool, cancels
<1>2. Placed'
  BY DEF TypeOK, Placed, Gone, Working, Stages, FinishUnlinks, Alive, files, pool, cancels
<1>3. Witnessed'
  BY DEF TypeOK, Placed, Witnessed, Working, Stages, FinishUnlinks, Alive, files, pool, cancels
<1>4. Signed'
  BY DEF TypeOK, Placed, Signed, InFlight, NoFile, Gone, Working, FinishUnlinks, Alive, files, pool, cancels
<1>5. Swept'
  BY DEF TypeOK, Placed, Signed, Swept, InHand, Idle, InFlight, Working, NoFile, FinishUnlinks, Alive, files, pool, cancels
<1>6. Permitted'
  BY DEF TypeOK, Permitted, Holding, FinishUnlinks, Alive, files, pool, cancels
<1>7. WorkIsKept'
  BY DEF TypeOK, Placed, WorkIsKept, InFlight, Working, NoFile, Swept, InHand, Gone, FinishUnlinks, Alive, files, pool, cancels
<1>8. LimitHolds'
  BY <1>6, PermitsUntouched DEF FinishUnlinks, pool, Permitted, Holding, TypeOK, Placed
<1> QED
  BY <1>1, <1>2, <1>3, <1>4, <1>5, <1>6, <1>7, <1>8

LEMMA FinishWritesKeeps ==
  ASSUME Inv, NEW r \in Runs, FinishWrites(r)
  PROVE  Inv'
<1> USE DEF Inv
<1> DEFINE c == [state |-> "finished", pid |-> NoPid]
<1>b. c \in Receipt
  BY DEF Receipt, States
<1>c. Write(r, c)
  BY DEF FinishWrites
<1>0. /\ receipt' \in [Runs -> Receipt] /\ before' \in SUBSET (Runs \X Runs)
      /\ \A x \in Runs : receipt'[x] \in {IF x = r THEN c ELSE receipt[x], NoFile}
      /\ \A x \in Runs : (IF x = r THEN c ELSE receipt[x]).state = "running" =>
           receipt'[x] = IF x = r THEN c ELSE receipt[x]
  BY <1>b, <1>c, WriteKeeps
<1>1. TypeOK'
  BY <1>0 DEF TypeOK, Stages, Sweep, InFlight, Receipt, FinishWrites, Alive, files, pool, cancels
<1>2. Placed'
  BY <1>0 DEF TypeOK, Placed, Gone, Working, Stages, FinishWrites, Alive, files, pool, cancels
<1>3. Witnessed'
  BY <1>0 DEF TypeOK, Placed, Witnessed, Working, Stages, FinishWrites, Alive, files, pool, cancels
<1>4. Signed'
  BY <1>0 DEF TypeOK, Placed, Signed, InFlight, NoFile, Gone, Working, FinishWrites, Alive, files, pool, cancels
<1>5. Swept'
  BY <1>0 DEF TypeOK, Placed, Signed, Swept, InHand, Idle, InFlight, Working, NoFile, FinishWrites, Alive, files, pool, cancels
<1>6. Permitted'
  BY <1>0 DEF TypeOK, Permitted, Holding, FinishWrites, Alive, files, pool, cancels
<1>7. WorkIsKept'
  BY <1>0 DEF TypeOK, Placed, WorkIsKept, InFlight, Working, NoFile, Swept, InHand, Gone, FinishWrites, Alive, files, pool, cancels
<1>8. LimitHolds'
  BY <1>6, PermitsUntouched DEF FinishWrites, pool, Permitted, Holding, TypeOK, Placed
<1> QED
  BY <1>1, <1>2, <1>3, <1>4, <1>5, <1>6, <1>7, <1>8

LEMMA AdmittedKeeps ==
  ASSUME Inv, NEW r \in Runs, Admitted(r)
  PROVE  Inv'
<1> USE DEF Inv
<1> DEFINE c == [state |-> "running", pid |-> Pid[owner[r]]]
<1>a. owner'[r] = owner[r] /\ owner[r] \in Servers
  BY DEF TypeOK, Placed, Gone, Admitted
<1>b. c \in Receipt
  BY <1>a, SaysIsReceipt DEF States
<1>c. Write(r, c)
  BY <1>a DEF Admitted, Says
<1>0. /\ receipt' \in [Runs -> Receipt] /\ before' \in SUBSET (Runs \X Runs)
      /\ \A x \in Runs : receipt'[x] \in {IF x = r THEN c ELSE receipt[x], NoFile}
      /\ \A x \in Runs : (IF x = r THEN c ELSE receipt[x]).state = "running" =>
           receipt'[x] = IF x = r THEN c ELSE receipt[x]
  BY <1>b, <1>c, WriteKeeps
<1>1. TypeOK'
  BY <1>0, <1>a DEF TypeOK, Stages, Sweep, InFlight, Receipt, Admitted, Alive, files, pool, cancels
<1>2. Placed'
  BY <1>0, <1>a DEF TypeOK, Placed, Gone, Working, Stages, Admitted, Alive, files, pool, cancels
<1>3. Witnessed'
  BY <1>0, <1>a DEF TypeOK, Placed, Witnessed, Working, Stages, Admitted, Alive, files, pool, cancels
<1>4. Signed'
  BY <1>0, <1>a DEF TypeOK, Placed, Signed, InFlight, NoFile, Gone, Working, Admitted, Alive, files, pool, cancels
<1>5. Swept'
  BY <1>0, <1>a DEF TypeOK, Placed, Signed, Swept, InHand, Idle, InFlight, Working, NoFile, Admitted, Alive, files, pool, cancels
<1>6. Permitted'
  BY <1>0, <1>a DEF TypeOK, Permitted, Holding, Admitted, Alive, files, pool, cancels
<1>7. WorkIsKept'
  BY <1>0, <1>a DEF TypeOK, Placed, WorkIsKept, InFlight, Working, NoFile, Swept, InHand, Gone, Admitted, Alive, files, pool, cancels
<1>8. LimitHolds'
  BY <1>6, PermitsUntouched DEF Admitted, pool, Permitted, Holding, TypeOK, Placed
<1> QED
  BY <1>1, <1>2, <1>3, <1>4, <1>5, <1>6, <1>7, <1>8

LEMMA SweepReadsKeeps ==
  ASSUME Inv, NEW p \in Servers, NEW r \in Runs, SweepReads(p, r)
  PROVE  Inv'
<1> USE DEF Inv
<1>1. TypeOK'
  BY DEF TypeOK, Stages, Sweep, InFlight, Receipt, SweepReads, Alive, files, pool, cancels
<1>2. Placed'
  BY DEF TypeOK, Placed, Gone, Working, Stages, SweepReads, Alive, files, pool, cancels
<1>3. Witnessed'
  BY DEF TypeOK, Placed, Witnessed, Working, Stages, SweepReads, Alive, files, pool, cancels
<1>4. Signed'
  BY DEF TypeOK, Placed, Signed, InFlight, NoFile, Gone, Working, SweepReads, Alive, files, pool, cancels
<1>5. Swept'
  BY DEF TypeOK, Placed, Signed, Swept, InHand, Idle, InFlight, Working, NoFile, SweepReads, Alive, files, pool, cancels
<1>6. Permitted'
  BY DEF TypeOK, Permitted, Holding, SweepReads, Alive, files, pool, cancels
<1>7. WorkIsKept'
  BY DEF TypeOK, Placed, WorkIsKept, InFlight, Working, NoFile, Swept, InHand, Gone, SweepReads, Alive, files, pool, cancels
<1>8. LimitHolds'
  BY <1>6, PermitsUntouched DEF SweepReads, pool, Permitted, Holding, TypeOK, Placed
<1> QED
  BY <1>1, <1>2, <1>3, <1>4, <1>5, <1>6, <1>7, <1>8

LEMMA CancelHereKeeps ==
  ASSUME Inv, NEW r \in Runs, CancelHere(r)
  PROVE  Inv'
<1> USE DEF Inv
<1>1. TypeOK'
  BY DEF TypeOK, Stages, Sweep, InFlight, Receipt, CancelHere, Alive, files, pool, cancels
<1>2. Placed'
  BY DEF TypeOK, Placed, Gone, Working, Stages, CancelHere, Alive, files, pool, cancels
<1>3. Witnessed'
  BY DEF TypeOK, Placed, Witnessed, Working, Stages, CancelHere, Alive, files, pool, cancels
<1>4. Signed'
  BY DEF TypeOK, Placed, Signed, InFlight, NoFile, Gone, Working, CancelHere, Alive, files, pool, cancels
<1>5. Swept'
  BY DEF TypeOK, Placed, Signed, Swept, InHand, Idle, InFlight, Working, NoFile, CancelHere, Alive, files, pool, cancels
<1>6. Permitted'
  BY DEF TypeOK, Permitted, Holding, CancelHere, Alive, files, pool, cancels
<1>7. WorkIsKept'
  BY DEF TypeOK, Placed, WorkIsKept, InFlight, Working, NoFile, Swept, InHand, Gone, CancelHere, Alive, files, pool, cancels
<1>8. LimitHolds'
  BY <1>6, PermitsUntouched DEF CancelHere, pool, Permitted, Holding, TypeOK, Placed
<1> QED
  BY <1>1, <1>2, <1>3, <1>4, <1>5, <1>6, <1>7, <1>8

LEMMA WatchKeeps ==
  ASSUME Inv, NEW r \in Runs, Watch(r)
  PROVE  Inv'
<1> USE DEF Inv
<1>1. TypeOK'
  BY DEF TypeOK, Stages, Sweep, InFlight, Receipt, Watch, Alive, files, pool, cancels
<1>2. Placed'
  BY DEF TypeOK, Placed, Gone, Working, Stages, Watch, Alive, files, pool, cancels
<1>3. Witnessed'
  BY DEF TypeOK, Placed, Witnessed, Working, Stages, Watch, Alive, files, pool, cancels
<1>4. Signed'
  BY DEF TypeOK, Placed, Signed, InFlight, NoFile, Gone, Working, Watch, Alive, files, pool, cancels
<1>5. Swept'
  BY DEF TypeOK, Placed, Signed, Swept, InHand, Idle, InFlight, Working, NoFile, Watch, Alive, files, pool, cancels
<1>6. Permitted'
  BY DEF TypeOK, Permitted, Holding, Watch, Alive, files, pool, cancels
<1>7. WorkIsKept'
  BY DEF TypeOK, Placed, WorkIsKept, InFlight, Working, NoFile, Swept, InHand, Gone, Watch, Alive, files, pool, cancels
<1>8. LimitHolds'
  BY <1>6, PermitsUntouched DEF Watch, pool, Permitted, Holding, TypeOK, Placed
<1> QED
  BY <1>1, <1>2, <1>3, <1>4, <1>5, <1>6, <1>7, <1>8

LEMMA CancelElsewhereKeeps ==
  ASSUME Inv, NEW p \in Servers, NEW r \in Runs, CancelElsewhere(p, r)
  PROVE  Inv'
<1> USE DEF Inv
<1>1. TypeOK'
  BY DEF TypeOK, Stages, Sweep, InFlight, Receipt, CancelElsewhere, Alive, files, pool, cancels
<1>2. Placed'
  BY DEF TypeOK, Placed, Gone, Working, Stages, CancelElsewhere, Alive, files, pool, cancels
<1>3. Witnessed'
  BY DEF TypeOK, Placed, Witnessed, Working, Stages, CancelElsewhere, Alive, files, pool, cancels
<1>4. Signed'
  BY DEF TypeOK, Placed, Signed, InFlight, NoFile, Gone, Working, CancelElsewhere, Alive, files, pool, cancels
<1>5. Swept'
  BY DEF TypeOK, Placed, Signed, Swept, InHand, Idle, InFlight, Working, NoFile, CancelElsewhere, Alive, files, pool, cancels
<1>6. Permitted'
  BY DEF TypeOK, Permitted, Holding, CancelElsewhere, Alive, files, pool, cancels
<1>7. WorkIsKept'
  BY DEF TypeOK, Placed, WorkIsKept, InFlight, Working, NoFile, Swept, InHand, Gone, CancelElsewhere, Alive, files, pool, cancels
<1>8. LimitHolds'
  BY <1>6, PermitsUntouched DEF CancelElsewhere, pool, Permitted, Holding, TypeOK, Placed
<1> QED
  BY <1>1, <1>2, <1>3, <1>4, <1>5, <1>6, <1>7, <1>8

LEMMA BootKeeps ==
  ASSUME Inv, NEW p \in Servers, Boot(p)
  PROVE  Inv'
<1> USE DEF Inv
<1>1. TypeOK'
  BY DEF TypeOK, Stages, Sweep, InFlight, Receipt, Boot, Alive, files, pool, cancels
<1>2. Placed'
  BY DEF TypeOK, Placed, Gone, Working, Stages, Boot, Alive, files, pool, cancels
<1>3. Witnessed'
  BY DEF TypeOK, Placed, Witnessed, Working, Stages, Boot, Alive, files, pool, cancels
<1>4. Signed'
  BY DEF TypeOK, Placed, Signed, InFlight, NoFile, Gone, Working, Boot, Alive, files, pool, cancels
<1>5. Swept'
  BY DEF TypeOK, Placed, Signed, Swept, InHand, Idle, InFlight, Working, NoFile, Boot, Alive, files, pool, cancels
<1>6. Permitted'
  BY DEF TypeOK, Permitted, Holding, Boot, Alive, files, pool, cancels
<1>7. WorkIsKept'
  BY DEF TypeOK, Placed, WorkIsKept, InFlight, Working, NoFile, Swept, InHand, Gone, Boot, Alive, files, pool, cancels
<1>8. LimitHolds'
  BY <1>6, PermitsUntouched DEF Boot, pool, Permitted, Holding, TypeOK, Placed
<1> QED
  BY <1>1, <1>2, <1>3, <1>4, <1>5, <1>6, <1>7, <1>8

LEMMA AskPoolKeeps ==
  ASSUME Inv, NEW r \in Runs, AskPool(r)
  PROVE  Inv'
<1> USE DEF Inv
<1> DEFINE c == [state |-> "queued", pid |-> Pid[owner[r]]]
<1>a. owner' = owner /\ owner[r] \in Servers
  BY DEF AskPool, Placed
<1>b. c \in Receipt
  BY <1>a, SaysIsReceipt DEF States
<1>c. Write(r, c) \/ (receipt' = receipt /\ before' = before)
  BY <1>a DEF AskPool, Says, files
<1>0. /\ receipt' \in [Runs -> Receipt] /\ before' \in SUBSET (Runs \X Runs)
      /\ \A x \in Runs : receipt'[x] \in {IF x = r THEN c ELSE receipt[x], receipt[x], NoFile}
      /\ \A x \in Runs \ {r} : receipt[x].state = "running" => receipt'[x] = receipt[x]
  <2>1. CASE Write(r, c)
    BY <1>b, <2>1, WriteKeeps
  <2>2. CASE receipt' = receipt /\ before' = before
    BY <2>2 DEF TypeOK
  <2> QED
    BY <1>c, <2>1, <2>2
<1>1. TypeOK'
  BY <1>0 DEF TypeOK, Stages, AskPool, pool, cancels
<1>2. Placed'
  BY <1>0, <1>a DEF TypeOK, Placed, Gone, AskPool
<1>3. Witnessed'
  BY <1>a DEF TypeOK, Witnessed, Working, AskPool
<1>4. Signed'
  BY <1>0, <1>a DEF TypeOK, Signed, InFlight, NoFile
<1>5. Swept'
  BY <1>a DEF TypeOK, Swept, InHand, Working, AskPool
<1>6. Permitted'
  BY DEF TypeOK, Permitted, Holding, AskPool, pool
<1>7. WorkIsKept'
  BY <1>0, <1>a DEF TypeOK, WorkIsKept, InFlight, Working, NoFile, AskPool
<1>8. LimitHolds'
  BY <1>a, <1>6, PermitsUntouched DEF AskPool, pool
<1> QED
  BY <1>1, <1>2, <1>3, <1>4, <1>5, <1>6, <1>7, <1>8

LEMMA AcquireKeeps ==
  ASSUME Inv, NEW r \in Runs, Acquire(r)
  PROVE  Inv'
<1> USE DEF Inv
<1>a. owner' = owner /\ owner[r] \in Servers
  BY DEF Acquire, Placed
<1>0. /\ free' \in [Servers -> 0..Permits]
      /\ \A p \in Servers : free'[p] + Cardinality({x \in holds' : owner'[x] = p}) = Permits
  <2>1. CASE free[owner[r]] = 0
    BY <1>a, <2>1 DEF Acquire, TypeOK, LimitHolds
  <2>2. CASE free[owner[r]] # 0
    <3>1. r \notin holds
      BY DEF Acquire, Permitted, Holding
    <3> QED
      BY <1>a, <2>2, <3>1, PermitTaken DEF Acquire
  <2> QED
    BY <2>1, <2>2
<1>1. TypeOK'
  BY <1>0 DEF TypeOK, Stages, Acquire, files, cancels
<1>2. Placed'
  BY DEF TypeOK, Placed, Gone, Acquire, files
<1>3. Witnessed'
  BY DEF TypeOK, Witnessed, Working, Acquire
<1>4. Signed'
  BY DEF Signed, Acquire, files
<1>5. Swept'
  BY DEF TypeOK, Swept, InHand, Working, Acquire
<1>6. Permitted'
  BY DEF TypeOK, Permitted, Holding, Acquire
<1>7. WorkIsKept'
  BY DEF TypeOK, WorkIsKept, Working, Acquire, files
<1>8. LimitHolds'
  BY <1>0, <1>6 DEF LimitHolds, Permitted
<1> QED
  BY <1>1, <1>2, <1>3, <1>4, <1>5, <1>6, <1>7, <1>8

LEMMA PanicKeeps ==
  ASSUME Inv, NEW r \in Runs, Panic(r)
  PROVE  Inv'
<1> USE DEF Inv
<1>0. /\ holds' = holds \ {r}
      /\ asleep' \in SUBSET Runs
      /\ free' \in [Servers -> 0..Permits]
      /\ \A p \in Servers : free'[p] + Cardinality({x \in holds' : owner'[x] = p}) = Permits
  <2>1. r \in holds /\ owner[r] \in Servers
    BY DEF Panic, LimitHolds, Placed
  <2> QED
    BY <2>1, PermitReturned DEF Panic
<1>1. TypeOK'
  BY <1>0 DEF TypeOK, Stages, Panic, files, cancels
<1>2. Placed'
  BY DEF TypeOK, Placed, Gone, Panic, files
<1>3. Witnessed'
  BY DEF TypeOK, Witnessed, Working, Panic
<1>4. Signed'
  BY DEF Signed, Panic, files
<1>5. Swept'
  BY DEF TypeOK, Swept, InHand, Working, Panic
<1>6. Permitted'
  BY <1>0 DEF TypeOK, Permitted, Holding, Panic
<1>7. WorkIsKept'
  BY DEF TypeOK, WorkIsKept, Working, Panic, files
<1>8. LimitHolds'
  BY <1>0, <1>6 DEF LimitHolds, Permitted
<1> QED
  BY <1>1, <1>2, <1>3, <1>4, <1>5, <1>6, <1>7, <1>8

LEMMA ThreadEndsKeeps ==
  ASSUME Inv, NEW r \in Runs, ThreadEnds(r)
  PROVE  Inv'
<1> USE DEF Inv
<1>0. /\ holds' = holds \ {r}
      /\ asleep' \in SUBSET Runs
      /\ free' \in [Servers -> 0..Permits]
      /\ \A p \in Servers : free'[p] + Cardinality({x \in holds' : owner'[x] = p}) = Permits
  <2>1. owner[r] \in Servers /\ owner' = owner
    BY DEF ThreadEnds, Placed
  <2>2. CASE r \in holds
    BY <2>1, <2>2, PermitReturned DEF ThreadEnds
  <2>3. CASE r \notin holds
    BY <2>1, <2>3 DEF ThreadEnds, pool, TypeOK, LimitHolds
  <2> QED
    BY <2>2, <2>3
<1>1. TypeOK'
  BY <1>0 DEF TypeOK, Stages, ThreadEnds, files
<1>2. Placed'
  BY DEF TypeOK, Placed, Gone, ThreadEnds, files
<1>3. Witnessed'
  BY DEF TypeOK, Witnessed, Working, ThreadEnds
<1>4. Signed'
  BY DEF Signed, ThreadEnds, files
<1>5. Swept'
  BY DEF TypeOK, Swept, InHand, Working, ThreadEnds
<1>6. Permitted'
  BY <1>0 DEF TypeOK, Permitted, Holding, ThreadEnds
<1>7. WorkIsKept'
  BY DEF TypeOK, WorkIsKept, Working, ThreadEnds, files
<1>8. LimitHolds'
  BY <1>0, <1>6 DEF LimitHolds, Permitted
<1> QED
  BY <1>1, <1>2, <1>3, <1>4, <1>5, <1>6, <1>7, <1>8

\* A pid is asked only where there is no lock to try, and then it tells.
LEMMA PidTells ==
  ASSUME Inv, NEW p \in up, sweep[p] # Idle, at[sweep[p].run] \in Working, ~LocksWork
  PROVE  PidSaysAlive(p)
<1> DEFINE r == sweep[p].run
           q == owner[r]
<1>1. p \in Servers /\ r \in Runs /\ sweep[p].pid = Pid[q]
  BY DEF Inv, TypeOK, Swept, InHand
<1>2. q \in up /\ q \in Servers /\ r \in ours[q]
  BY <1>1 DEF Inv, Placed, Witnessed, Working, Gone
<1>3. ProcessAlive(p, sweep[p].pid)
  BY <1>1, <1>2, LivenessAssumption DEF ProcessAlive
<1>4. ~StartedByAPreviousLife(p, sweep[p].pid, r)
  BY <1>1, <1>2, LivenessAssumption DEF StartedByAPreviousLife
<1> QED
  BY <1>3, <1>4 DEF PidSaysAlive

LEMMA SweepJudgesKeeps ==
  ASSUME Inv, NEW p \in Servers, SweepLooks(p) \/ SweepTries(p)
  PROVE  Inv'
<1> USE DEF Inv
<1> DEFINE r == sweep[p].run
<1>a. p \in up /\ sweep[p] # Idle /\ r \in Runs
  BY DEF SweepLooks, SweepTries, Idle, Swept, InHand
<1>b. at[r] \in Working => witness[r] = IF LocksWork THEN "held" ELSE "free"
  BY <1>a DEF Witnessed
<1>c. at[r] \in Working /\ ~LocksWork => PidSaysAlive(p)
  BY <1>a, PidTells
<1>d. sweep' = [sweep EXCEPT ![p] = sweep'[p]]
      /\ sweep'[p] \in {Idle, [sweep[p] EXCEPT !.at = "looked"], [sweep[p] EXCEPT !.at = "dead"]}
  BY DEF SweepLooks, SweepTries, TypeOK
<1>e. sweep'[p].at = "dead" => at[r] \notin Working
  BY <1>b, <1>c DEF SweepLooks, SweepTries, TypeOK, Idle, Sweep
<1>f. /\ witness' \in [Runs -> {"absent", "free", "held"}]
      /\ \A x \in Runs : witness[x] # "absent" => witness'[x] = witness[x]
  BY <1>a DEF SweepLooks, SweepTries, TypeOK
<1>g. UNCHANGED <<files, ours, up, at, owner, pool, cancels, failures>>
  BY DEF SweepLooks, SweepTries
<1>h. sweep' \in [Servers -> Sweep]
  <2>1. sweep[p] \in Sweep /\ Idle \in Sweep
    BY DEF TypeOK, Sweep, Idle
  <2>2. sweep'[p] \in Sweep
    BY <1>d, <2>1 DEF Sweep
  <2> QED
    BY <1>d, <2>2 DEF TypeOK
<1>1. TypeOK'
  BY <1>f, <1>g, <1>h DEF TypeOK, files, pool, cancels
<1>2. Placed'
  BY <1>g DEF Placed, files
<1>3. Witnessed'
  BY <1>f, <1>g DEF Witnessed
<1>4. Signed'
  BY <1>g DEF Signed, files
<1>5. Swept'
  BY <1>a, <1>d, <1>e, <1>g DEF Swept, InHand, TypeOK, Idle, Sweep
<1>6. Permitted'
  BY <1>g DEF Permitted, pool
<1>7. WorkIsKept'
  BY <1>g DEF WorkIsKept, files
<1>8. LimitHolds'
  BY <1>6, <1>g, PermitsUntouched DEF pool
<1> QED
  BY <1>1, <1>2, <1>3, <1>4, <1>5, <1>6, <1>7, <1>8

LEMMA SweepMarksKeeps ==
  ASSUME Inv, NEW p \in Servers, SweepMarks(p)
  PROVE  Inv'
<1> USE DEF Inv
<1> DEFINE r == sweep[p].run
           c == [state |-> "interrupted", pid |-> NoPid]
<1>a. r \in Runs /\ at[r] # "idle" /\ at[r] \notin Working
  BY DEF SweepMarks, Idle, Swept, InHand
<1>b. c \in Receipt
  BY DEF Receipt, States
<1>0. /\ receipt' \in [Runs -> Receipt] /\ before' \in SUBSET (Runs \X Runs)
      /\ \A x \in Runs : receipt'[x] \in {IF x = r THEN c ELSE receipt[x], NoFile}
      /\ \A x \in Runs : (IF x = r THEN c ELSE receipt[x]).state = "running" =>
           receipt'[x] = IF x = r THEN c ELSE receipt[x]
  BY <1>a, <1>b, WriteKeeps DEF SweepMarks
<1>1. TypeOK'
  BY <1>0 DEF TypeOK, Sweep, Idle, SweepMarks, pool, cancels
<1>2. Placed'
  BY <1>0, <1>a DEF Placed, SweepMarks
<1>3. Witnessed'
  BY DEF Witnessed, SweepMarks
<1>4. Signed'
  BY <1>0 DEF Signed, InFlight, NoFile, SweepMarks
<1>5. Swept'
  BY DEF Swept, InHand, SweepMarks, TypeOK
<1>6. Permitted'
  BY DEF Permitted, SweepMarks, pool
<1>7. WorkIsKept'
  <2> SUFFICES ASSUME NEW x \in Runs, at[x] \in Working
               PROVE  /\ receipt'[x].state \in InFlight \cup {"none"}
                      /\ at[x] = "engine" => receipt'[x] = [state |-> "running", pid |-> Pid[owner[x]]]
    BY DEF WorkIsKept, Working, SweepMarks
  <2>1. x # r
    BY <1>a
  <2>2. receipt'[x] \in {receipt[x], NoFile}
        /\ (receipt[x].state = "running" => receipt'[x] = receipt[x])
    BY <1>0, <2>1
  <2> QED
    BY <2>2 DEF WorkIsKept, NoFile, InFlight
<1>8. LimitHolds'
  BY <1>6, PermitsUntouched DEF SweepMarks, pool
<1> QED
  BY <1>1, <1>2, <1>3, <1>4, <1>5, <1>6, <1>7, <1>8

LEMMA CrashKeeps ==
  ASSUME Inv, NEW p \in Servers, Crash(p)
  PROVE  Inv'
<1> USE DEF Inv
<1>a. \A x \in Runs : at'[x] = IF owner[x] = p /\ at[x] \notin {"idle", "over"} THEN "lost" ELSE at[x]
  BY DEF Crash
<1>b. \A x \in Runs : at'[x] \in Working => at[x] \in Working /\ owner[x] # p
  BY <1>a DEF Working
<1>1. TypeOK'
  BY ReceiptAssumption DEF TypeOK, Stages, Sweep, Idle, Crash, files
<1>2. Placed'
  BY <1>a DEF TypeOK, Placed, Gone, Crash, files
<1>3. Witnessed'
  <2> SUFFICES ASSUME NEW x \in Runs, at'[x] \in Working
               PROVE  x \in ours'[owner'[x]] /\ witness'[x] = IF LocksWork THEN "held" ELSE "free"
    BY DEF Witnessed
  <2>1. at[x] \in Working /\ owner[x] # p
    BY <1>b
  <2>2. x \in ours'[owner'[x]]
    BY <2>1 DEF Witnessed, Crash, TypeOK
  <2>3. x \notin ours[p]
    BY <2>1 DEF Placed
  <2>4. witness'[x] = witness[x]
    BY <2>3 DEF Crash
  <2> QED
    BY <2>1, <2>2, <2>4 DEF Witnessed
<1>4. Signed'
  BY DEF Signed, Crash, files
<1>5. Swept'
  BY <1>a, <1>b DEF Swept, InHand, Crash, TypeOK
<1>6. Permitted'
  BY <1>a DEF TypeOK, Permitted, Holding, Crash
<1>7. WorkIsKept'
  BY <1>a, <1>b DEF WorkIsKept, Crash, files
<1>8. LimitHolds'
  <2>1. ASSUME NEW q \in Servers
        PROVE  free'[q] + Cardinality({x \in holds' : owner'[x] = q}) = Permits
    <3>1. CASE q = p
      <4>1. {x \in holds' : owner'[x] = q} = {} /\ free'[q] = Permits
        BY <3>1 DEF Crash, TypeOK
      <4> QED
        BY <4>1, FS_EmptySet, ReceiptAssumption
    <3>2. CASE q # p
      <4>1. {x \in holds' : owner'[x] = q} = {x \in holds : owner[x] = q} /\ free'[q] = free[q]
        BY <3>2 DEF Crash, TypeOK
      <4> QED
        BY <4>1 DEF LimitHolds
    <3> QED
      BY <3>1, <3>2
  <2> QED
    BY <1>6, <2>1 DEF LimitHolds, Permitted
<1> QED
  BY <1>1, <1>2, <1>3, <1>4, <1>5, <1>6, <1>7, <1>8

-----------------------------------------------------------------------------
(* Every step, and what follows.                                           *)

LEMMA InvInit == Init => Inv
<1> SUFFICES ASSUME Init PROVE Inv
  OBVIOUS
<1>1. TypeOK
  BY ReceiptAssumption DEF Init, TypeOK, Receipt, NoFile, States, Stages, Sweep, Idle
<1>2. Placed /\ Witnessed /\ Swept /\ Permitted
  BY DEF Init, Placed, Witnessed, Swept, Permitted, Gone, Working
<1>3. Signed /\ WorkIsKept
  BY DEF Init, Signed, WorkIsKept, NoFile, InFlight, Working
<1>4. LimitHolds
  <2>1. \A p \in Servers : {x \in holds : owner[x] = p} = {}
    BY DEF Init
  <2> QED
    BY <2>1, FS_EmptySet, ReceiptAssumption DEF Init, LimitHolds
<1> QED
  BY <1>1, <1>2, <1>3, <1>4 DEF Inv

LEMMA InvNext == Inv /\ [Next]_vars => Inv'
<1> SUFFICES ASSUME Inv, [Next]_vars PROVE Inv'
  OBVIOUS
<1>1. ASSUME NEW p \in Servers, NEW r \in Runs,
             Accept(p, r) \/ Begin(p, r) \/ SweepReads(p, r) \/ CancelElsewhere(p, r)
      PROVE  Inv'
  BY <1>1, AcceptKeeps, BeginKeeps, SweepReadsKeeps, CancelElsewhereKeeps
<1>2. ASSUME NEW r \in Runs, RunStep(r)
      PROVE  Inv'
  BY <1>2, RefusedKeeps, AskPoolKeeps, AcquireKeeps, AdmittedKeeps, EngineEndsKeeps, PanicKeeps,
     AbandonKeeps, FinishLetsKeeps, FinishUnlinksKeeps, FinishWritesKeeps, ThreadEndsKeeps DEF RunStep
<1>3. ASSUME NEW r \in Runs, CancelHere(r) \/ Watch(r)
      PROVE  Inv'
  BY <1>3, CancelHereKeeps, WatchKeeps
<1>4. ASSUME NEW p \in Servers, SweepStep(p) \/ Crash(p) \/ Boot(p)
      PROVE  Inv'
  BY <1>4, SweepJudgesKeeps, SweepMarksKeeps, CrashKeeps, BootKeeps DEF SweepStep
<1>5. CASE UNCHANGED vars
  <2> USE <1>5 DEF Inv, vars
  <2>1. TypeOK' /\ Placed' /\ Witnessed' /\ Signed'
    BY DEF TypeOK, Placed, Witnessed, Signed
  <2>2. Swept' /\ Permitted' /\ WorkIsKept'
    BY DEF Swept, InHand, Permitted, WorkIsKept
  <2>3. LimitHolds'
    BY <2>2, PermitsUntouched
  <2> QED
    BY <2>1, <2>2, <2>3
<1> QED
  BY <1>1, <1>2, <1>3, <1>4, <1>5 DEF Next

\* The strengthening holds of every reachable state.
THEOREM Invariance == Spec => []Inv
BY InvInit, InvNext, PTL DEF Spec

\* Every variable keeps its type: what a receipt, a witness, a pool and a sweep
\* may hold, for any number of runs and servers.
THEOREM TypeCorrect == Spec => []TypeOK
<1>1. Inv => TypeOK
  BY DEF Inv
<1> QED
  BY <1>1, Invariance, PTL

\* No sweep of any server declares dead a run that a live server still has before
\* it, whether the storage takes locks or the pid has to do: retry.rs reconcile,
\* runlock.rs owner_alive, and the order in which finish lets go and writes.
THEOREM WorkIsNeverDeclaredDead == Spec => []WorkIsKept
<1>1. Inv => WorkIsKept
  BY DEF Inv
<1> QED
  BY <1>1, Invariance, PTL

\* No permit is lost or made by a run that ends, unwinds or is killed, and the
\* engine runs nothing without one: pools.rs Gate::acquire and Permit::drop.
THEOREM PermitsAreConserved == Spec => []LimitHolds
<1>1. Inv => LimitHolds
  BY DEF Inv
<1> QED
  BY <1>1, Invariance, PTL

=============================================================================
