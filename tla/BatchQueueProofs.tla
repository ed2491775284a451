-------------------------- MODULE BatchQueueProofs --------------------------
(* What holds of BatchQueue for any number of items and workers, every       *)
(* policy and every bound.                                                   *)
EXTENDS BatchQueue, LeastElement

LEMMA LeastItem ==
  ASSUME NEW S \in SUBSET Items, S # {}
  PROVE  Min(S) \in Items
<1>1. S \in SUBSET Nat
  BY QueueAssumption DEF Items
<1> QED
  BY <1>1, MinIsLeast

LEMMA DelayType == \A attempts \in Nat : Delay(attempts) \in Nat
<1> SUFFICES ASSUME NEW attempts \in Nat, Initial # 0, attempts # 0, Exponential
             PROVE  Delay(attempts) \in Nat
  BY QueueAssumption DEF Delay
<1> DEFINE k     == Lesser(attempts - 1, 30)
           grown == Initial * 2^k
<1>1. k \in 0..30
  BY DEF Lesser
<1>2. 2^k \in Nat
  BY <1>1, PowerAssumption
<1>3. grown \in Nat
  <2> DEFINE power == 2^k
  <2>1. power \in Nat
    BY <1>2
  <2> HIDE DEF power
  <2>2. Initial * power \in Nat
    BY <2>1, QueueAssumption
  <2> QED
    BY <2>2 DEF power
<1>4. Delay(attempts) = IF MaxSeconds = 0 THEN grown ELSE Lesser(grown, MaxSeconds)
  BY DEF Delay
<1> HIDE DEF grown
<1> QED
  BY <1>3, <1>4, QueueAssumption DEF Lesser

(***************************************************************************)
(* What the operators on a row of the ledger return.                       *)
(***************************************************************************)
LEMMA SaidType ==
  ASSUME NEW row \in Row, NEW res \in {"ok", "error"}, NEW age \in 0..MaxAge
  PROVE  Said(row, res, age) \in Row
<1>1. CASE res = "ok"
  BY <1>1 DEF Said, Row
<1>2. CASE res = "error"
  <2> DEFINE wait == Delay(row.fails + 1) - age
             left == IF wait > 0 THEN wait ELSE 0
  <2>1. Delay(row.fails + 1) \in Nat /\ age \in Nat
    BY DelayType, QueueAssumption DEF Row
  <2>2. left \in Nat
    BY <2>1
  <2>3. Said(row, res, age) = [row EXCEPT !.bad = TRUE, !.fails = @ + 1, !.wait = left]
    BY <1>2 DEF Said
  <2> HIDE DEF left
  <2>4. \A f, l \in Nat : [row EXCEPT !.bad = TRUE, !.fails = f, !.wait = l] \in Row
    BY DEF Row
  <2>5. row.fails + 1 \in Nat
    BY DEF Row
  <2> QED
    BY <2>2, <2>3, <2>4, <2>5
<1> QED
  BY <1>1, <1>2

LEMMA RowTypes ==
  /\ NoRow \in Row
  /\ \A row \in Row : Marked(row) \in Row /\ Redriven(row) \in Row
  /\ Off \in Worker
  /\ NoVerb \in Verb
<1>1. NoRow \in Row
  BY DEF NoRow, Row
<1>2. \A row \in Row : Marked(row) \in Row /\ Redriven(row) \in Row
  BY DEF Marked, Redriven, NoRow, Row
<1>3. Off \in Worker
  BY QueueAssumption DEF Off, Worker, Stages
<1>4. NoVerb \in Verb
  BY <1>1 DEF NoVerb, Verb
<1> QED
  BY <1>1, <1>2, <1>3, <1>4

(***************************************************************************)
(* Types.  A worker that is on an item is on one of the batch, which the    *)
(* types alone do not say.                                                  *)
(***************************************************************************)
Busy == {"run", "ran", "append", "drop"}
Placed == \A p \in Workers : wk[p].at \in Busy => wk[p].item \in Items
TypeInv == TypeOK /\ Placed

LEMMA Spending ==
  ASSUME TypeOK, NEW what \in Bounds, Spend(what)
  PROVE  budget' \in [Bounds -> Nat]
<1>1. budget[what] \in Nat /\ budget[what] > 0
  BY DEF TypeOK, Spend
<1>2. budget[what] - 1 \in Nat
  BY <1>1
<1> QED
  BY <1>2 DEF TypeOK, Spend

\* What setting one worker takes.
LEMMA Setting ==
  ASSUME TypeInv, NEW p \in Workers, NEW w \in Worker, Set(p, w),
         w.at \in Busy => w.item \in Items
  PROVE  wk' \in [Workers -> Worker] /\ Placed'
BY DEF TypeInv, TypeOK, Placed, Set

\* The changes of a worker's record that the steps make.
LEMMA WorkerTypes ==
  ASSUME NEW w \in Worker, NEW i \in Items, NEW stage \in Stages,
         NEW todo \in SUBSET Items, NEW res \in {"ok", "error"}, NEW clean \in BOOLEAN
  PROVE  /\ [w EXCEPT !.at = stage] \in Worker
         /\ [w EXCEPT !.todo = todo] \in Worker
         /\ [w EXCEPT !.at = stage, !.todo = todo] \in Worker
         /\ [w EXCEPT !.at = stage, !.res = res] \in Worker
         /\ [w EXCEPT !.at = stage, !.item = i, !.todo = todo, !.age = 0] \in Worker
         /\ [w EXCEPT !.at = stage, !.clean = clean, !.current = TRUE] \in Worker
         /\ [w EXCEPT !.current = FALSE] \in Worker
<1>1. 0 \in 0..MaxAge /\ i \in Nat
  BY QueueAssumption DEF Items
<1> QED
  BY <1>1 DEF Worker

\* The steps of a worker that leave locks, ledger and history to others.
LEMMA WorkerTyped ==
  ASSUME TypeInv, NEW p \in Workers,
         StartPass(p) \/ ClaimItem(p) \/ OpenLedger(p) \/ DropClaim(p) \/ EndPass(p)
  PROVE  TypeInv'
<1> DEFINE w == wk[p]
<1>1. w \in Worker /\ w.todo \subseteq Items
  BY DEF TypeInv, TypeOK, Worker
<1>2. CASE StartPass(p)
  <2> DEFINE ready == {i \in Items : Phase(ledger[i]) = "ready"}
             new   == [Off EXCEPT !.at = "pass", !.todo = ready]
  <2>1. new \in Worker /\ new.at = "pass"
    BY RowTypes DEF Worker, Off, Stages
  <2>2. Set(p, new) /\ new.at \notin Busy
    BY <1>2, <2>1 DEF StartPass, Busy
  <2> HIDE DEF new
  <2>3. wk' \in [Workers -> Worker] /\ Placed'
    BY <2>1, <2>2, Setting
  <2> QED
    BY <1>2, <2>3 DEF TypeInv, TypeOK, StartPass
<1>3. CASE ClaimItem(p)
  <2> DEFINE i    == Min(w.todo)
             rest == w.todo \ {i}
  <2>1. i \in Items
    BY <1>1, <1>3, LeastItem DEF ClaimItem
  <2> HIDE DEF i
  <2>2. CASE lock[i] = Free
    <3> DEFINE new == [w EXCEPT !.at = "run", !.item = i, !.todo = rest, !.age = 0]
    <3>1. new \in Worker
      BY <1>1, <2>1, WorkerTypes DEF Stages
    <3>2. new.item = i
      BY <1>1 DEF Worker
    <3>3. Set(p, new) /\ lock' = [lock EXCEPT ![i] = p]
      BY <1>3, <2>2 DEF ClaimItem, i
    <3> HIDE DEF new
    <3>4. wk' \in [Workers -> Worker] /\ Placed'
      BY <2>1, <3>1, <3>2, <3>3, Setting
    <3>5. lock' \in [Items -> Workers \cup {Free, Viewer}]
      BY <3>3 DEF TypeInv, TypeOK
    <3> QED
      BY <1>3, <3>4, <3>5 DEF TypeInv, TypeOK, ClaimItem
  <2>3. CASE lock[i] # Free
    <3> DEFINE new == [w EXCEPT !.todo = rest]
    <3>1. new \in Worker
      BY <1>1, <2>1, WorkerTypes DEF Stages
    <3>2. new.at = "pass"
      BY <1>1, <1>3 DEF ClaimItem, At, Worker
    <3>3. Set(p, new) /\ lock' = lock
      BY <1>3, <2>3 DEF ClaimItem, i
    <3> HIDE DEF new
    <3>4. wk' \in [Workers -> Worker] /\ Placed'
      BY <3>1, <3>2, <3>3, Setting DEF Busy
    <3> QED
      BY <1>3, <3>3, <3>4 DEF TypeInv, TypeOK, ClaimItem
  <2> QED
    BY <2>2, <2>3
<1>4. CASE OpenLedger(p)
  <2> DEFINE new == [w EXCEPT !.at = "append", !.clean = ~torn, !.current = TRUE]
  <2>1. w.item \in Items
    BY <1>4 DEF OpenLedger, At, TypeInv, Placed, Busy
  <2>2. new \in Worker
    <3>1. (~torn) \in BOOLEAN
      BY DEF TypeInv, TypeOK
    <3> QED
      BY <1>1, <2>1, <3>1, WorkerTypes DEF Stages
  <2>3. new.item = w.item
    BY <1>1 DEF Worker
  <2>4. Set(p, new)
    BY <1>4 DEF OpenLedger
  <2> HIDE DEF new
  <2>5. wk' \in [Workers -> Worker] /\ Placed'
    BY <2>1, <2>2, <2>3, <2>4, Setting
  <2> QED
    BY <1>4, <2>5 DEF TypeInv, TypeOK, OpenLedger
<1>5. CASE DropClaim(p)
  <2>1. w.item \in Items
    BY <1>5 DEF DropClaim, At, TypeInv, Placed, Busy
  <2>2. [w EXCEPT !.at = "pass"] \in Worker /\ [w EXCEPT !.at = "pass"].at = "pass"
    BY <1>1 DEF Worker, Stages
  <2>3. Off \in Worker /\ Off.at = "off"
    BY RowTypes DEF Off
  <2>4. PICK new \in Worker : Set(p, new) /\ new.at \notin Busy
    BY <1>5, <2>2, <2>3 DEF DropClaim, Busy
  <2>5. wk' \in [Workers -> Worker] /\ Placed'
    BY <2>4, Setting
  <2>6. lock' \in [Items -> Workers \cup {Free, Viewer}]
    BY <1>5, <2>1 DEF DropClaim, TypeInv, TypeOK
  <2> QED
    BY <1>5, <2>5, <2>6 DEF TypeInv, TypeOK, DropClaim
<1>6. CASE EndPass(p)
  <2>1. Off \in Worker /\ Off.at \notin Busy
    BY RowTypes DEF Off, Busy
  <2>2. Set(p, Off)
    BY <1>6 DEF EndPass
  <2>3. wk' \in [Workers -> Worker] /\ Placed'
    BY <2>1, <2>2, Setting
  <2> QED
    BY <1>6, <2>3 DEF TypeInv, TypeOK, EndPass
<1> QED
  BY <1>2, <1>3, <1>4, <1>5, <1>6

\* The steps of a worker that end in the history, in the ledger or in a fault.
LEMMA WorkTyped ==
  ASSUME TypeInv, NEW p \in Workers,
         RunItem(p) \/ AppendLine(p) \/ RecordFails(p) \/ Killed(p)
  PROVE  TypeInv'
<1> DEFINE w == wk[p]
<1>1. w \in Worker
  BY DEF TypeInv, TypeOK
<1>2. CASE RunItem(p)
  <2>1. w.item \in Items
    BY <1>2 DEF RunItem, At, TypeInv, Placed, Busy
  <2>2. PICK res \in {"ok", "error"} :
          /\ Set(p, [w EXCEPT !.at = "ran", !.res = res])
          /\ done' = IF res = "ok" THEN done \cup {w.item} ELSE done
          /\ wins' = IF res = "ok" THEN [wins EXCEPT ![w.item] = @ + 1] ELSE wins
    BY <1>2 DEF RunItem
  <2> DEFINE new == [w EXCEPT !.at = "ran", !.res = res]
  <2>3. new \in Worker /\ new.item = w.item
    BY <1>1 DEF Worker, Stages
  <2>4. Set(p, new)
    BY <2>2
  <2> HIDE DEF new
  <2>5. wk' \in [Workers -> Worker] /\ Placed'
    BY <2>1, <2>3, <2>4, Setting
  <2>6. done' \subseteq Items
    BY <2>1, <2>2 DEF TypeInv, TypeOK
  <2>7. wins' \in [Items -> Nat]
    BY <2>1, <2>2 DEF TypeInv, TypeOK
  <2> QED
    BY <1>2, <2>5, <2>6, <2>7 DEF TypeInv, TypeOK, RunItem
<1>3. CASE AppendLine(p)
  <2>1. w.item \in Items
    BY <1>3 DEF AppendLine, At, TypeInv, Placed, Busy
  <2> DEFINE new  == [w EXCEPT !.at = "drop"]
             line == Said(ledger[w.item], w.res, w.age)
  <2>2. new \in Worker /\ new.item = w.item
    BY <1>1 DEF Worker, Stages
  <2>3. Set(p, new)
    BY <1>3 DEF AppendLine
  <2>4. line \in Row
    BY <1>1, <2>1, SaidType DEF TypeInv, TypeOK, Worker
  <2>5. ledger' = ledger \/ ledger' = [ledger EXCEPT ![w.item] = line]
    BY <1>3 DEF AppendLine
  <2> HIDE DEF new, line
  <2>6. wk' \in [Workers -> Worker] /\ Placed'
    BY <2>1, <2>2, <2>3, Setting
  <2>7. ledger' \in [Items -> Row]
    BY <2>4, <2>5 DEF TypeInv, TypeOK
  <2>8. torn' \in BOOLEAN
    BY <1>3 DEF AppendLine
  <2> QED
    BY <1>3, <2>6, <2>7, <2>8 DEF TypeInv, TypeOK, AppendLine
<1>4. CASE RecordFails(p)
  <2>1. w.item \in Items
    BY <1>4 DEF RecordFails, At, TypeInv, Placed, Busy
  <2> DEFINE new  == [w EXCEPT !.at = "drop"]
  <2>2. new \in Worker /\ new.item = w.item
    BY <1>1 DEF Worker, Stages
  <2>3. Set(p, new)
    BY <1>4 DEF RecordFails
  <2> HIDE DEF new
  <2>4. wk' \in [Workers -> Worker] /\ Placed'
    BY <2>1, <2>2, <2>3, Setting
  <2>5. budget' \in [Bounds -> Nat]
    BY <1>4, Spending DEF RecordFails, TypeInv, Bounds
  <2> QED
    BY <1>4, <2>4, <2>5 DEF TypeInv, TypeOK, RecordFails
<1>5. CASE Killed(p)
  <2>1. Off \in Worker /\ Off.at \notin Busy /\ Set(p, Off)
    BY <1>5, RowTypes DEF Killed, Off, Busy
  <2>2. wk' \in [Workers -> Worker] /\ Placed'
    BY <2>1, Setting
  <2>3. budget' \in [Bounds -> Nat]
    BY <1>5, Spending DEF Killed, TypeInv, Bounds
  <2>4. lock' \in [Items -> Workers \cup {Free, Viewer}]
    BY <1>5 DEF Killed, TypeInv, TypeOK
  <2>5. torn' \in BOOLEAN
    BY <1>5 DEF Killed, TypeInv, TypeOK
  <2> QED
    BY <1>5, <2>2, <2>3, <2>4, <2>5 DEF TypeInv, TypeOK, Killed
<1> QED
  BY <1>2, <1>3, <1>4, <1>5

\* The verbs.
LEMMA VerbTyped ==
  ASSUME TypeInv, RetryReads \/ RedriveReads \/ VerbStep \/ VerbFails
  PROVE  TypeInv'
<1>1. op \in Verb /\ NoVerb \in Verb
  BY RowTypes DEF TypeInv, TypeOK
<1>2. CASE RetryReads
  <2>1. \A onlyDead \in BOOLEAN :
          [NoVerb EXCEPT !.at = "retry", !.targets = Targets(onlyDead)] \in Verb
    BY <1>1 DEF Verb, Targets
  <2>2. op' \in Verb
    BY <1>1, <1>2, <2>1 DEF RetryReads
  <2>3. budget' \in [Bounds -> Nat]
    BY <1>2, Spending DEF RetryReads, TypeInv, Bounds
  <2> QED
    BY <1>2, <2>2, <2>3 DEF TypeInv, TypeOK, Placed, RetryReads
<1>3. CASE RedriveReads
  <2>1. [NoVerb EXCEPT !.at = "redrive", !.snap = ledger] \in Verb
    BY <1>1 DEF Verb, TypeInv, TypeOK
  <2>2. op' \in Verb
    BY <1>1, <1>3, <2>1 DEF RedriveReads
  <2>3. budget' \in [Bounds -> Nat]
    BY <1>3, Spending DEF RedriveReads, TypeInv, Bounds
  <2> QED
    BY <1>3, <2>2, <2>3 DEF TypeInv, TypeOK, Placed, RedriveReads
<1>4. CASE RetryOpens
  <2>1. \A b \in BOOLEAN : [op EXCEPT !.at = "mark", !.clean = b] \in Verb
    BY <1>1 DEF Verb
  <2>2. op' \in Verb
    <3>1. (~torn) \in BOOLEAN
      BY DEF TypeInv, TypeOK
    <3>2. op' = [op EXCEPT !.at = "mark", !.clean = ~torn]
      BY <1>4 DEF RetryOpens
    <3> QED
      BY <2>1, <3>1, <3>2
  <2> QED
    BY <1>4, <2>2 DEF TypeInv, TypeOK, Placed, RetryOpens
<1>5. CASE RetryMarks
  <2>1. \A i \in Items : ledger[i] \in Row /\ Marked(ledger[i]) \in Row
    BY RowTypes DEF TypeInv, TypeOK
  <2>2. PICK landed :
          ledger' = [i \in Items |-> IF i \in landed THEN Marked(ledger[i]) ELSE ledger[i]]
    BY <1>5 DEF RetryMarks
  <2>3. ledger' \in [Items -> Row]
    BY <2>1, <2>2
  <2>4. torn' \in BOOLEAN /\ op' \in Verb
    BY <1>1, <1>5 DEF RetryMarks
  <2> QED
    BY <1>5, <2>3, <2>4 DEF TypeInv, TypeOK, Placed, RetryMarks
<1>6. CASE RedriveWrites
  <2>1. \A i \in Items : Redriven(op.snap[i]) \in Row
    BY <1>1, RowTypes DEF Verb
  <2>2. ledger' = [i \in Items |-> Redriven(op.snap[i])]
    BY <1>6 DEF RedriveWrites
  <2>3. ledger' \in [Items -> Row]
    BY <2>1, <2>2
  <2>4. torn' \in BOOLEAN /\ op' \in Verb
    BY <1>1, <1>6 DEF RedriveWrites
  <2>5. wk' \in [Workers -> Worker] /\ Placed'
    BY <1>6 DEF RedriveWrites, TypeInv, TypeOK, Worker, Placed
  <2> QED
    BY <1>6, <2>3, <2>4, <2>5 DEF TypeInv, TypeOK, RedriveWrites
<1>7. CASE VerbFails
  <2>1. budget' \in [Bounds -> Nat]
    BY <1>7, Spending DEF VerbFails, TypeInv, Bounds
  <2> QED
    BY <1>1, <1>7, <2>1 DEF TypeInv, TypeOK, Placed, VerbFails
<1> QED
  BY <1>2, <1>3, <1>4, <1>5, <1>6, <1>7 DEF VerbStep

\* Who only looks, and time.
LEMMA RestTyped ==
  ASSUME TypeInv, (\E i \in Items : Look(i) \/ LookAway(i)) \/ Elapse
  PROVE  TypeInv'
<1>1. ASSUME NEW i \in Items, Look(i) PROVE TypeInv'
  <2>1. budget' \in [Bounds -> Nat]
    BY <1>1, Spending DEF Look, TypeInv, Bounds
  <2>2. lock' \in [Items -> Workers \cup {Free, Viewer}]
    BY <1>1 DEF Look, TypeInv, TypeOK
  <2> QED
    BY <1>1, <2>1, <2>2 DEF TypeInv, TypeOK, Placed, Look
<1>2. ASSUME NEW i \in Items, LookAway(i) PROVE TypeInv'
  <2>1. lock' \in [Items -> Workers \cup {Free, Viewer}]
    BY <1>2 DEF LookAway, TypeInv, TypeOK
  <2> QED
    BY <1>2, <2>1 DEF TypeInv, TypeOK, Placed, LookAway
<1>3. CASE Elapse
  <2>1. ASSUME NEW i \in Items
        PROVE  [ledger[i] EXCEPT !.wait = IF @ > 0 THEN @ - 1 ELSE 0] \in Row
    BY DEF TypeInv, TypeOK, Row
  <2>2. ledger' \in [Items -> Row]
    BY <1>3, <2>1 DEF Elapse
  <2>3. ASSUME NEW q \in Workers
        PROVE  wk'[q] \in Worker /\ wk'[q].at = wk[q].at /\ wk'[q].item = wk[q].item
    <3> DEFINE v == wk[q]
               older == Lesser(v.age + 1, MaxAge)
    <3>1. v \in Worker /\ older \in 0..MaxAge
      BY QueueAssumption DEF TypeInv, TypeOK, Worker, Lesser
    <3>2. wk'[q] = v \/ wk'[q] = [v EXCEPT !.age = older]
      BY <1>3 DEF Elapse
    <3> HIDE DEF older
    <3> QED
      BY <3>1, <3>2 DEF Worker
  <2>4. wk' \in [Workers -> Worker]
    <3>1. wk' = [q \in Workers |-> wk'[q]]
      BY <1>3 DEF Elapse
    <3> QED
      BY <2>3, <3>1
  <2>5. Placed'
    BY <2>3 DEF TypeInv, Placed
  <2> QED
    BY <1>3, <2>2, <2>4, <2>5 DEF TypeInv, TypeOK, Elapse
<1> QED
  BY <1>1, <1>2, <1>3

\* The inductive form of the next theorem.
LEMMA TypeInvariant == Spec => []TypeInv
<1>1. Init => TypeInv
  <2> SUFFICES ASSUME Init PROVE TypeInv
    OBVIOUS
  <2>1. ledger \in [Items -> Row] /\ wk \in [Workers -> Worker] /\ op \in Verb
    BY RowTypes DEF Init
  <2>2. lock \in [Items -> Workers \cup {Free, Viewer}] /\ wins \in [Items -> Nat]
    BY DEF Init
  <2>3. budget \in [Bounds -> Nat]
    BY BoundAssumption DEF Init, Bounds
  <2>4. Placed
    BY DEF Init, Placed, Off, Busy
  <2> QED
    BY <2>1, <2>2, <2>3, <2>4 DEF Init, TypeInv, TypeOK
<1>2. TypeInv /\ [Next]_vars => TypeInv'
  <2> SUFFICES ASSUME TypeInv, [Next]_vars PROVE TypeInv'
    OBVIOUS
  <2>1. CASE Next
    BY <2>1, WorkerTyped, WorkTyped, VerbTyped, RestTyped DEF Next, Step
  <2>2. CASE UNCHANGED vars
    BY <2>2 DEF vars, TypeInv, TypeOK, Placed
  <2> QED
    BY <2>1, <2>2
<1> QED
  BY <1>1, <1>2, PTL DEF Spec

\* Types: what the ledger, the locks and the processes hold is of the kind the
\* code gives it, whatever policy work.rs was given.
THEOREM TypeCorrect == Spec => []TypeOK
BY TypeInvariant, PTL DEF TypeInv

(***************************************************************************)
(* No item beside itself.  What makes it so is the lock: a worker that is   *)
(* on an item holds it, and who looks on, dies, or starts over never takes  *)
(* it from a worker that does.                                              *)
(***************************************************************************)
Owned == \A p \in Workers, i \in Items : On(p, i) => lock[i] = p

\* A step that leaves every worker on the item it was on, or takes it off, and
\* keeps the locks that workers hold.
LEMMA OwnedKept ==
  ASSUME Owned,
         \A p \in Workers, i \in Items : On(p, i)' => On(p, i) /\ lock'[i] = lock[i]
  PROVE  Owned'
BY DEF Owned

LEMMA OwnedStep ==
  ASSUME TypeInv, Owned, [Next]_vars
  PROVE  Owned'
<1> USE DEF TypeInv, TypeOK
<1>1. ASSUME NEW p \in Workers, NEW w, Set(p, w), UNCHANGED lock,
             w.at \in Busy => wk[p].at \in Busy /\ w.item = wk[p].item
      PROVE  Owned'
  BY <1>1, OwnedKept DEF Set, On, Busy
<1>2. ASSUME NEW p \in Workers, Step(p) PROVE Owned'
  <2> DEFINE w == wk[p]
  <2>1. w \in Worker /\ w.todo \subseteq Items
    BY DEF Worker
  <2>2. CASE StartPass(p)
    BY <1>1, <2>2 DEF StartPass, Off, Busy
  <2>3. CASE ClaimItem(p)
    <3> DEFINE i == Min(w.todo)
    <3>1. i \in Items
      BY <2>1, <2>3, LeastItem DEF ClaimItem
    <3> HIDE DEF i
    <3>2. CASE lock[i] = Free
      <4> DEFINE new == [w EXCEPT !.at = "run", !.item = i, !.todo = @ \ {i}, !.age = 0]
      <4>1. Set(p, new) /\ lock' = [lock EXCEPT ![i] = p]
        BY <2>3, <3>2 DEF ClaimItem, i
      <4>2. new.item = i
        BY <2>1 DEF Worker
      <4> HIDE DEF new
      <4>3. \A j \in Items : On(p, j)' => j = i
        BY <4>1, <4>2 DEF Set, On
      <4>4. \A q \in Workers \ {p}, j \in Items : On(q, j)' => On(q, j) /\ j # i
        BY <3>2, <4>1, QueueAssumption DEF Set, On, Owned
      <4> QED
        BY <3>1, <4>1, <4>3, <4>4 DEF Owned
    <3>3. CASE lock[i] # Free
      <4> DEFINE new == [w EXCEPT !.todo = @ \ {i}]
      <4>1. Set(p, new) /\ lock' = lock
        BY <2>3, <3>3 DEF ClaimItem, i
      <4>2. new.at = w.at /\ new.item = w.item
        BY <2>1 DEF Worker
      <4> HIDE DEF new
      <4> QED
        BY <1>1, <4>1, <4>2
    <3> QED
      BY <3>2, <3>3
  <2>4. CASE RunItem(p)
    <3>1. PICK res : Set(p, [w EXCEPT !.at = "ran", !.res = res]) /\ w.at = "run"
      BY <2>4 DEF RunItem, At
    <3> DEFINE new == [w EXCEPT !.at = "ran", !.res = res]
    <3>2. new.item = w.item
      BY <2>1 DEF Worker
    <3>3. Set(p, new)
      BY <3>1
    <3> HIDE DEF new
    <3> QED
      BY <1>1, <2>4, <3>1, <3>2, <3>3 DEF RunItem, Busy
  <2>5. CASE OpenLedger(p)
    <3> DEFINE new == [w EXCEPT !.at = "append", !.clean = ~torn, !.current = TRUE]
    <3>1. new.item = w.item /\ w.at = "ran"
      BY <2>1, <2>5 DEF Worker, OpenLedger, At
    <3>2. Set(p, new)
      BY <2>5 DEF OpenLedger
    <3> HIDE DEF new
    <3> QED
      BY <1>1, <2>5, <3>1, <3>2 DEF OpenLedger, Busy
  <2>6. CASE AppendLine(p)
    <3> DEFINE new == [w EXCEPT !.at = "drop"]
    <3>1. new.item = w.item /\ w.at = "append"
      BY <2>1, <2>6 DEF Worker, AppendLine, At
    <3>2. Set(p, new)
      BY <2>6 DEF AppendLine
    <3> HIDE DEF new
    <3> QED
      BY <1>1, <2>6, <3>1, <3>2 DEF AppendLine, Busy
  <2>7. CASE DropClaim(p)
    <3>1. PICK new : Set(p, new) /\ new.at \notin Busy
      BY <2>1, <2>7 DEF DropClaim, Worker, Busy, Off
    <3>2. lock' = [lock EXCEPT ![w.item] = Free] /\ On(p, w.item) /\ w.item \in Items
      BY <2>7 DEF DropClaim, At, On, Placed, Busy
    <3>3. \A j \in Items : ~On(p, j)'
      BY <3>1 DEF Set, On, Busy
    <3>4. \A q \in Workers \ {p}, j \in Items : On(q, j)' => On(q, j) /\ j # w.item
      BY <3>1, <3>2 DEF Set, On, Owned
    <3> QED
      BY <3>2, <3>3, <3>4, OwnedKept
  <2>8. CASE EndPass(p)
    BY <1>1, <2>8 DEF EndPass, Off, Busy
  <2> QED
    BY <1>2, <2>2, <2>3, <2>4, <2>5, <2>6, <2>7, <2>8 DEF Step
<1>3. ASSUME NEW p \in Workers, RecordFails(p) PROVE Owned'
  <2> DEFINE new == [wk[p] EXCEPT !.at = "drop"]
  <2>1. new.item = wk[p].item /\ wk[p].at = "ran"
    BY <1>3 DEF Worker, RecordFails, At
  <2>2. Set(p, new)
    BY <1>3 DEF RecordFails
  <2> HIDE DEF new
  <2> QED
    BY <1>1, <1>3, <2>1, <2>2 DEF RecordFails, Busy
<1>4. ASSUME NEW p \in Workers, Killed(p) PROVE Owned'
  <2>1. \A j \in Items : ~On(p, j)'
    BY <1>4 DEF Killed, Set, On, Off
  <2>2. \A q \in Workers \ {p}, j \in Items : On(q, j)' => On(q, j) /\ lock[j] # p
    BY <1>4 DEF Killed, Set, On, Owned
  <2> QED
    BY <1>4, <2>1, <2>2, OwnedKept DEF Killed
<1>5. CASE RetryReads \/ RedriveReads \/ RetryOpens \/ RetryMarks \/ VerbFails \/ UNCHANGED vars
  BY <1>5 DEF RetryReads, RedriveReads, RetryOpens, RetryMarks, VerbFails, vars, Owned, On
<1>6. ASSUME RedriveWrites \/ Elapse PROVE Owned'
  <2>1. \A q \in Workers : wk'[q].at = wk[q].at /\ wk'[q].item = wk[q].item
    BY <1>6 DEF RedriveWrites, Elapse, Worker
  <2> QED
    BY <1>6, <2>1 DEF RedriveWrites, Elapse, On, Owned
<1>7. ASSUME NEW i \in Items, Look(i) \/ LookAway(i) PROVE Owned'
  <2>1. lock[i] \notin Workers /\ (\A j \in Items : j # i => lock'[j] = lock[j])
    BY <1>7, QueueAssumption DEF Look, LookAway
  <2>2. wk' = wk
    BY <1>7 DEF Look, LookAway
  <2> QED
    BY <2>1, <2>2 DEF On, Owned
<1> QED
  BY <1>2, <1>3, <1>4, <1>5, <1>6, <1>7 DEF Next, VerbStep

\* "How two workers avoid running the same item": for any number of workers and
\* items, the same item is never run, or waiting to be recorded, twice at once.
THEOREM OneAtATime == Spec => []NoTwoAtOnce
<1>1. Init => Owned
  BY DEF Init, Owned, On, Off
<1>2. TypeInv /\ Owned /\ [Next]_vars => Owned'
  BY OwnedStep
<1>3. Owned => NoTwoAtOnce
  BY DEF Owned, NoTwoAtOnce
<1> QED
  BY <1>1, <1>2, <1>3, TypeInvariant, PTL DEF Spec

(***************************************************************************)
(* What the ledger calls done.  A line says ok only of a child that has     *)
(* completed; the states between that child and the line, and between what  *)
(* a redrive read and what it writes, have to be carried along.             *)
(***************************************************************************)
HeldOk == \A p \in Workers :
            wk[p].at \in {"ran", "append"} /\ wk[p].res = "ok" => wk[p].item \in done
ReadOk == op.at = "redrive" => \A i \in Items : op.snap[i].ok => i \in done
OkInv  == OkMeansDone /\ HeldOk /\ ReadOk

\* No row's ok appears or is settled by a failure, a marker or a redrive.
LEMMA RowsKeepOk ==
  ASSUME NEW row \in Row
  PROVE  /\ \A age : LET new == Said(row, "error", age)
                     IN new.ok = row.ok /\ new.settled = row.settled
         /\ Marked(row).ok = row.ok /\ ~Marked(row).settled
         /\ Redriven(row).ok = row.ok /\ Redriven(row).settled = row.ok
<1>1. Marked(row).ok = row.ok /\ ~Marked(row).settled
  BY DEF Marked, Row
<1>2. Redriven(row).ok = row.ok /\ Redriven(row).settled = row.ok
  BY DEF Redriven, NoRow
<1>3. ASSUME NEW age
      PROVE  Said(row, "error", age).ok = row.ok /\ Said(row, "error", age).settled = row.settled
  <2> DEFINE wait == Delay(row.fails + 1) - age
             left == IF wait > 0 THEN wait ELSE 0
  <2>1. Said(row, "error", age) = [row EXCEPT !.bad = TRUE, !.fails = @ + 1, !.wait = left]
    BY DEF Said
  <2> HIDE DEF left
  <2> QED
    BY <2>1 DEF Row
<1> QED
  BY <1>1, <1>2, <1>3

\* A step that leaves the ledger, the history and the verb alone, and puts no
\* worker that was not there where an ok waits to be written.
LEMMA OkKept ==
  ASSUME OkInv, ledger' = ledger, done' = done, op' = op,
         \A q \in Workers :
           wk'[q].at \in {"ran", "append"} /\ wk'[q].res = "ok" =>
             wk[q].at \in {"ran", "append"} /\ wk[q].res = "ok" /\ wk'[q].item = wk[q].item
  PROVE  OkInv'
BY DEF OkInv, OkMeansDone, HeldOk, ReadOk

LEMMA OkStep ==
  ASSUME TypeInv, OkInv, [Next]_vars
  PROVE  OkInv'
<1> USE DEF TypeInv, TypeOK
<1>1. ASSUME NEW p \in Workers, NEW w, Set(p, w), w.at \notin {"ran", "append"},
             ledger' = ledger, done' = done, op' = op
      PROVE  OkInv'
  BY <1>1, OkKept DEF Set
<1>2. ASSUME NEW p \in Workers, Step(p) PROVE OkInv'
  <2> DEFINE w == wk[p]
  <2>1. w \in Worker
    OBVIOUS
  <2>2. CASE StartPass(p)
    BY <1>1, <2>2 DEF StartPass, Off
  <2>3. CASE ClaimItem(p)
    <3>1. w.at = "pass"
      BY <2>3 DEF ClaimItem, At
    <3> DEFINE i     == Min(w.todo)
               taken == [w EXCEPT !.at = "run", !.item = i, !.todo = @ \ {i}, !.age = 0]
               left  == [w EXCEPT !.todo = @ \ {i}]
    <3>2. taken.at = "run" /\ left.at = "pass"
      BY <2>1, <3>1 DEF Worker
    <3>3. Set(p, taken) \/ Set(p, left)
      BY <2>3 DEF ClaimItem
    <3> HIDE DEF taken, left
    <3>4. PICK new : Set(p, new) /\ new.at \in {"run", "pass"}
      BY <3>2, <3>3
    <3> QED
      BY <1>1, <2>3, <3>4 DEF ClaimItem
  <2>4. CASE RunItem(p)
    <3>1. PICK res \in {"ok", "error"} :
            /\ Set(p, [w EXCEPT !.at = "ran", !.res = res])
            /\ done' = IF res = "ok" THEN done \cup {w.item} ELSE done
      BY <2>4 DEF RunItem
    <3> DEFINE new == [w EXCEPT !.at = "ran", !.res = res]
    <3>2. new.item = w.item /\ new.res = res
      BY <2>1 DEF Worker
    <3>3. Set(p, new) /\ done \subseteq done' /\ (res = "ok" => w.item \in done')
      BY <3>1
    <3> HIDE DEF new
    <3>4. HeldOk'
      BY <3>2, <3>3 DEF Set, OkInv, HeldOk
    <3> QED
      BY <2>4, <3>3, <3>4 DEF RunItem, OkInv, OkMeansDone, ReadOk
  <2>5. CASE OpenLedger(p)
    <3> DEFINE new == [w EXCEPT !.at = "append", !.clean = ~torn, !.current = TRUE]
    <3>1. new.item = w.item /\ new.res = w.res /\ w.at = "ran"
      BY <2>1, <2>5 DEF Worker, OpenLedger, At
    <3>2. Set(p, new)
      BY <2>5 DEF OpenLedger
    <3> HIDE DEF new
    <3> QED
      BY <2>5, <3>1, <3>2, OkKept DEF OpenLedger, Set
  <2>6. CASE AppendLine(p)
    <3>1. w.item \in Items /\ w.at = "append"
      BY <2>6 DEF AppendLine, At, Placed, Busy
    <3> DEFINE old  == ledger[w.item]
               line == Said(old, w.res, w.age)
               new  == [w EXCEPT !.at = "drop"]
    <3>2. old \in Row /\ w.res \in {"ok", "error"}
      BY <2>1, <3>1 DEF Worker
    <3>3. w.res = "error" => line.ok = old.ok /\ line.settled = old.settled
      BY <3>2, RowsKeepOk
    <3>4. w.res = "ok" => w.item \in done
      BY <3>1 DEF OkInv, HeldOk
    <3>5. ledger' = ledger \/ ledger' = [ledger EXCEPT ![w.item] = line]
      BY <2>6 DEF AppendLine
    <3>6. Set(p, new) /\ new.at = "drop"
      BY <2>1, <2>6 DEF AppendLine, Worker
    <3> HIDE DEF line, new
    <3>7. OkMeansDone'
      BY <2>6, <3>1, <3>2, <3>3, <3>4, <3>5 DEF AppendLine, OkInv, OkMeansDone
    <3>8. HeldOk'
      BY <2>6, <3>6 DEF AppendLine, Set, OkInv, HeldOk
    <3> QED
      BY <2>6, <3>7, <3>8 DEF AppendLine, OkInv, ReadOk
  <2>7. CASE DropClaim(p)
    <3>1. PICK new : Set(p, new) /\ new.at \in {"pass", "off"}
      BY <2>1, <2>7 DEF DropClaim, Worker, Off
    <3> QED
      BY <1>1, <2>7, <3>1 DEF DropClaim
  <2>8. CASE EndPass(p)
    BY <1>1, <2>8 DEF EndPass, Off
  <2> QED
    BY <1>2, <2>2, <2>3, <2>4, <2>5, <2>6, <2>7, <2>8 DEF Step
<1>3. ASSUME NEW p \in Workers, RecordFails(p) \/ Killed(p) PROVE OkInv'
  <2>1. PICK new : Set(p, new) /\ new.at \in {"drop", "off"}
    BY <1>3 DEF RecordFails, Killed, Off, Worker
  <2> QED
    BY <1>1, <1>3, <2>1 DEF RecordFails, Killed
<1>4. CASE RetryReads \/ RetryOpens \/ VerbFails
  <2>1. ledger' = ledger /\ done' = done /\ wk' = wk
    BY <1>4 DEF RetryReads, RetryOpens, VerbFails
  <2>2. NoVerb.at = "idle"
    BY DEF NoVerb
  <2>3. RetryOpens => op'.at = "mark"
    BY DEF RetryOpens, Verb
  <2>4. RetryReads => op'.at \in {"idle", "retry"}
    <3>1. \A targets : [NoVerb EXCEPT !.at = "retry", !.targets = targets].at = "retry"
      BY DEF NoVerb
    <3>2. RetryReads => \/ op' = NoVerb
                        \/ \E targets : op' = [NoVerb EXCEPT !.at = "retry", !.targets = targets]
      BY DEF RetryReads
    <3> QED
      BY <2>2, <3>1, <3>2
  <2>5. op'.at # "redrive"
    BY <1>4, <2>2, <2>3, <2>4 DEF VerbFails
  <2> QED
    BY <2>1, <2>5 DEF OkInv, OkMeansDone, HeldOk, ReadOk
<1>5. CASE RetryMarks
  <2>1. PICK landed :
          ledger' = [i \in Items |-> IF i \in landed THEN Marked(ledger[i]) ELSE ledger[i]]
    BY <1>5 DEF RetryMarks
  <2>2. \A i \in Items : ledger[i] \in Row
    OBVIOUS
  <2>3. \A i \in Items : ledger'[i].ok \/ ledger'[i].settled => ledger[i].ok \/ ledger[i].settled
    BY <2>1, <2>2, RowsKeepOk
  <2>4. done' = done /\ wk' = wk /\ op'.at # "redrive"
    BY <1>5 DEF RetryMarks, NoVerb
  <2> QED
    BY <2>3, <2>4 DEF OkInv, OkMeansDone, HeldOk, ReadOk
<1>6. CASE RedriveReads
  <2>1. op'.at = "redrive" => op'.snap = ledger
    BY <1>6 DEF RedriveReads, NoVerb
  <2>2. ledger' = ledger /\ done' = done /\ wk' = wk
    BY <1>6 DEF RedriveReads
  <2> QED
    BY <2>1, <2>2 DEF OkInv, OkMeansDone, HeldOk, ReadOk
<1>7. CASE RedriveWrites
  <2>1. \A i \in Items : op.snap[i] \in Row
    BY DEF Verb
  <2>2. \A i \in Items : ledger'[i].ok \/ ledger'[i].settled => op.snap[i].ok
    BY <1>7, <2>1, RowsKeepOk DEF RedriveWrites
  <2>3. OkMeansDone'
    BY <1>7, <2>2 DEF RedriveWrites, OkInv, OkMeansDone, ReadOk
  <2>4. \A q \in Workers :
          wk'[q].at = wk[q].at /\ wk'[q].item = wk[q].item /\ wk'[q].res = wk[q].res
    BY <1>7 DEF RedriveWrites, Worker
  <2>5. HeldOk'
    BY <1>7, <2>4 DEF RedriveWrites, OkInv, HeldOk
  <2>6. op'.at # "redrive"
    BY <1>7 DEF RedriveWrites, NoVerb
  <2> QED
    BY <2>3, <2>5, <2>6 DEF OkInv, ReadOk
<1>8. ASSUME NEW i \in Items, Look(i) \/ LookAway(i) PROVE OkInv'
  BY <1>8, OkKept DEF Look, LookAway
<1>9. CASE Elapse
  <2>1. \A i \in Items : ledger'[i].ok = ledger[i].ok /\ ledger'[i].settled = ledger[i].settled
    BY <1>9 DEF Elapse, Row
  <2>2. \A q \in Workers :
          wk'[q].at = wk[q].at /\ wk'[q].item = wk[q].item /\ wk'[q].res = wk[q].res
    BY <1>9 DEF Elapse, Worker
  <2> QED
    BY <1>9, <2>1, <2>2 DEF Elapse, OkInv, OkMeansDone, HeldOk, ReadOk
<1>10. CASE UNCHANGED vars
  BY <1>10 DEF vars, OkInv, OkMeansDone, HeldOk, ReadOk
<1> QED
  BY <1>2, <1>3, <1>4, <1>5, <1>6, <1>7, <1>8, <1>9, <1>10 DEF Next, VerbStep

\* "That loses items instead of repeating them": whatever is lost, killed, torn,
\* started over or forgotten, the ledger calls nothing done that is not.
THEOREM LedgerIsTrue == Spec => []OkMeansDone
<1>1. Init => OkInv
  BY DEF Init, OkInv, OkMeansDone, HeldOk, ReadOk, NoRow, NoVerb, Off
<1>2. TypeInv /\ OkInv /\ [Next]_vars => OkInv'
  BY OkStep
<1>3. OkInv => OkMeansDone
  BY DEF OkInv
<1> QED
  BY <1>1, <1>2, <1>3, TypeInvariant, PTL DEF Spec


(***************************************************************************)
(* How often an item's child completes.  The invariant is an account: what  *)
(* has been completed, and what may yet be completed without another record *)
(* being lost, given up or started over (Due), stay within what was spent.  *)
(* While the ledger has an item settled, only the workers that already have *)
(* it before them may complete it again (Chances); while it has not, each   *)
(* worker may, but for one whose ok is in hand and will be written (InHand).*)
(* A verb is charged as it reads and does its harm as it writes (Pending).  *)
(***************************************************************************)
Fleet == Cardinality(Workers)

Chances(i) == {p \in Workers : i \in wk[p].todo \/ (wk[p].at = "run" /\ wk[p].item = i)}
InHand(p, i) ==
  /\ wk[p].at \in {"ran", "append"} /\ wk[p].item = i /\ wk[p].res = "ok"
  /\ wk[p].at = "append" => wk[p].current /\ ~(wk[p].clean /\ torn)

Rounds(settled, chances, inHand) ==
  IF settled THEN Cardinality(chances) ELSE IF inHand THEN Fleet - 1 ELSE Fleet
Due(i)  == Rounds(ledger[i].settled, Chances(i), \E p \in Workers : InHand(p, i))
Pending == IF op.at = "idle" THEN 0 ELSE Fleet
Allowed == Fleet * (1 + Spent)

\* An item a worker is on is no longer among those it has before it.
Passed  == \A p \in Workers : wk[p].at \in Busy => wk[p].item \notin wk[p].todo
Balance == \A i \in Items : wins[i] + Due(i) + Pending <= Allowed

LEMMA FleetSizes ==
  /\ Fleet \in Nat
  /\ \A C \in SUBSET Workers : Cardinality(C) \in Nat /\ Cardinality(C) <= Fleet
  /\ \A C \in SUBSET Workers : \A D \in SUBSET C : Cardinality(D) <= Cardinality(C)
  /\ \A C \in SUBSET Workers : \A p \in C : \A D \in SUBSET (C \ {p}) :
       Cardinality(D) <= Cardinality(C) - 1
<1>1. \A C \in SUBSET Workers : IsFiniteSet(C) /\ Cardinality(C) \in Nat
  BY FleetAssumption, FS_Subset, FS_CardinalityType
<1>2. \A C \in SUBSET Workers : \A D \in SUBSET C : Cardinality(D) <= Cardinality(C)
  BY <1>1, FS_Subset
<1>3. ASSUME NEW C \in SUBSET Workers, NEW p \in C, NEW D \in SUBSET (C \ {p})
      PROVE  Cardinality(D) <= Cardinality(C) - 1
  <2>1. Cardinality(C \ {p}) = Cardinality(C) - 1
    BY <1>1, FS_RemoveElement
  <2>2. Cardinality(D) <= Cardinality(C \ {p})
    BY <1>2, C \ {p} \in SUBSET Workers
  <2> QED
    BY <2>1, <2>2
<1>4. Fleet \in Nat
  BY <1>1 DEF Fleet
<1>5. \A C \in SUBSET Workers : Cardinality(C) \in Nat /\ Cardinality(C) <= Fleet
  BY <1>1, FleetAssumption, FS_Subset DEF Fleet
<1> QED
  BY <1>2, <1>3, <1>4, <1>5

\* What is due is at most a round of the workers, and at least one less than
\* that while the ledger does not have the item settled.
LEMMA RoundSizes ==
  ASSUME NEW C \in SUBSET Workers, NEW settled, NEW inHand,
         inHand => \E p \in Workers : TRUE
  PROVE  /\ Rounds(settled, C, inHand) \in Nat
         /\ Rounds(settled, C, inHand) <= Fleet
         /\ ~settled => Rounds(settled, C, inHand) >= Fleet - 1
<1>1. CASE settled
  BY <1>1, FleetSizes DEF Rounds
<1>2. CASE ~settled /\ inHand
  <2>1. PICK p \in Workers : TRUE
    BY <1>2
  <2>2. Cardinality({}) <= Cardinality(Workers) - 1 /\ Cardinality({}) \in Nat
    BY <2>1, FleetSizes
  <2>3. Fleet - 1 \in Nat
    BY <2>2, FleetSizes DEF Fleet
  <2> QED
    BY <1>2, <2>3, FleetSizes DEF Rounds
<1>3. CASE ~settled /\ ~inHand
  BY <1>3, FleetSizes DEF Rounds
<1> QED
  BY <1>1, <1>2, <1>3

LEMMA DueSizes ==
  ASSUME NEW i \in Items
  PROVE  /\ Due(i) \in Nat /\ Due(i) <= Fleet
         /\ Due(i)' \in Nat /\ Due(i)' <= Fleet
         /\ ~ledger[i].settled => Due(i) >= Fleet - 1
<1>1. Chances(i) \in SUBSET Workers /\ Chances(i)' \in SUBSET Workers
  BY DEF Chances
<1>2. /\ (\E p \in Workers : InHand(p, i)) => \E p \in Workers : TRUE
      /\ (\E p \in Workers : InHand(p, i)') => \E p \in Workers : TRUE
  OBVIOUS
<1>3. Due(i)' = Rounds(ledger'[i].settled, Chances(i)', \E p \in Workers : InHand(p, i)')
  BY DEF Due
<1>4. Due(i) \in Nat /\ Due(i) <= Fleet /\ (~ledger[i].settled => Due(i) >= Fleet - 1)
  BY <1>1, <1>2, RoundSizes DEF Due
<1>5. Due(i)' \in Nat /\ Due(i)' <= Fleet
  BY <1>1, <1>2, <1>3, RoundSizes
<1> QED
  BY <1>4, <1>5

LEMMA PassedStep ==
  ASSUME TypeInv, Passed, [Next]_vars
  PROVE  Passed'
<1> USE DEF TypeInv, TypeOK
<1>1. ASSUME NEW p \in Workers, NEW w, Set(p, w), w.at \in Busy => w.item \notin w.todo
      PROVE  Passed'
  BY <1>1 DEF Set, Passed
<1>2. ASSUME NEW p \in Workers, NEW w, Set(p, w), w.at \in Busy => wk[p].at \in Busy,
             w.item = wk[p].item, w.todo = wk[p].todo
      PROVE  Passed'
  BY <1>1, <1>2 DEF Passed
<1>3. ASSUME NEW p \in Workers, Step(p) PROVE Passed'
  <2> DEFINE w == wk[p]
  <2>1. w \in Worker /\ w.todo \subseteq Items
    BY DEF Worker
  <2>2. CASE StartPass(p)
    BY <1>1, <2>2 DEF StartPass, Off, Busy
  <2>3. CASE ClaimItem(p)
    <3> DEFINE i    == Min(w.todo)
               took == [w EXCEPT !.at = "run", !.item = i, !.todo = @ \ {i}, !.age = 0]
               left == [w EXCEPT !.todo = @ \ {i}]
    <3>1. took.item \notin took.todo /\ left.at = "pass"
      BY <2>1, <2>3 DEF Worker, ClaimItem, At
    <3>2. Set(p, took) \/ Set(p, left)
      BY <2>3 DEF ClaimItem
    <3> HIDE DEF took, left
    <3> QED
      BY <1>1, <3>1, <3>2 DEF Busy
  <2>4. CASE RunItem(p)
    <3>1. PICK res : Set(p, [w EXCEPT !.at = "ran", !.res = res]) /\ w.at = "run"
      BY <2>4 DEF RunItem, At
    <3> DEFINE new == [w EXCEPT !.at = "ran", !.res = res]
    <3>2. new.item = w.item /\ new.todo = w.todo /\ w.at \in Busy
      BY <2>1, <3>1 DEF Worker, Busy
    <3>3. Set(p, new)
      BY <3>1
    <3> HIDE DEF new
    <3> QED
      BY <1>2, <3>2, <3>3
  <2>5. CASE OpenLedger(p)
    <3> DEFINE new == [w EXCEPT !.at = "append", !.clean = ~torn, !.current = TRUE]
    <3>1. new.item = w.item /\ new.todo = w.todo /\ w.at \in Busy
      BY <2>1, <2>5 DEF Worker, OpenLedger, At, Busy
    <3>2. Set(p, new)
      BY <2>5 DEF OpenLedger
    <3> HIDE DEF new
    <3> QED
      BY <1>2, <3>1, <3>2
  <2>6. CASE AppendLine(p)
    <3> DEFINE new == [w EXCEPT !.at = "drop"]
    <3>1. new.item = w.item /\ new.todo = w.todo /\ w.at \in Busy
      BY <2>1, <2>6 DEF Worker, AppendLine, At, Busy
    <3>2. Set(p, new)
      BY <2>6 DEF AppendLine
    <3> HIDE DEF new
    <3> QED
      BY <1>2, <3>1, <3>2
  <2>7. CASE DropClaim(p)
    <3>1. PICK new : Set(p, new) /\ new.at \notin Busy
      BY <2>1, <2>7 DEF DropClaim, Worker, Busy, Off
    <3> QED
      BY <1>1, <3>1
  <2>8. CASE EndPass(p)
    BY <1>1, <2>8 DEF EndPass, Off, Busy
  <2> QED
    BY <1>3, <2>2, <2>3, <2>4, <2>5, <2>6, <2>7, <2>8 DEF Step
<1>4. ASSUME NEW p \in Workers, RecordFails(p) PROVE Passed'
  <2> DEFINE new == [wk[p] EXCEPT !.at = "drop"]
  <2>1. new.item = wk[p].item /\ new.todo = wk[p].todo /\ wk[p].at \in Busy
    BY <1>4 DEF Worker, RecordFails, At, Busy
  <2>2. Set(p, new)
    BY <1>4 DEF RecordFails
  <2> HIDE DEF new
  <2> QED
    BY <1>2, <2>1, <2>2
<1>5. ASSUME NEW p \in Workers, Killed(p) PROVE Passed'
  BY <1>1, <1>5 DEF Killed, Off, Busy
<1>6. CASE wk' = wk
  BY <1>6 DEF Passed
<1>7. ASSUME RedriveWrites \/ Elapse PROVE Passed'
  <2>1. \A q \in Workers : /\ wk'[q].at = wk[q].at
                           /\ wk'[q].item = wk[q].item /\ wk'[q].todo = wk[q].todo
    BY <1>7 DEF RedriveWrites, Elapse, Worker
  <2> QED
    BY <2>1 DEF Passed
<1>8. ASSUME \/ RetryReads \/ RedriveReads \/ RetryOpens \/ RetryMarks \/ VerbFails
             \/ UNCHANGED vars \/ \E i \in Items : Look(i) \/ LookAway(i)
      PROVE  wk' = wk
  BY <1>8 DEF RetryReads, RedriveReads, RetryOpens, RetryMarks, VerbFails, Look, LookAway, vars
<1> QED
  BY <1>3, <1>4, <1>5, <1>6, <1>7, <1>8 DEF Next, VerbStep

\* What a step spends.
LEMMA Spends ==
  ASSUME TypeOK
  PROVE  /\ Allowed \in Int
         /\ budget' = budget \/ Spend("looks") => Allowed' = Allowed
         /\ Spend("crashes") \/ Spend("faults") \/ Spend("verbs")
              => Allowed' = Allowed + Fleet
<1>1. \A b \in Bounds : budget[b] \in Nat
  BY DEF TypeOK
<1>2. Spent \in Int /\ Fleet \in Nat
  BY <1>1, BoundAssumption, FleetSizes DEF Spent, Bounds
<1>3. budget' = budget \/ Spend("looks") => Spent' = Spent
  BY <1>1 DEF Spent, Spend, TypeOK, Bounds
<1>4. Spend("crashes") \/ Spend("faults") \/ Spend("verbs") => Spent' = Spent + 1
  BY <1>1, BoundAssumption DEF Spent, Spend, TypeOK, Bounds
<1>5. Allowed' = Fleet * (1 + Spent')
  BY DEF Allowed, Fleet
<1>6. \A f \in Nat, x \in Int : /\ f * (1 + x) \in Int
                                /\ f * (1 + (x + 1)) = f * (1 + x) + f
  OBVIOUS
<1> QED
  BY <1>2, <1>3, <1>4, <1>5, <1>6 DEF Allowed

\* What a step must keep of an item for no more to become due of it.
LEMMA DueKept ==
  ASSUME NEW i \in Items, ledger'[i].settled = ledger[i].settled,
         Chances(i)' \subseteq Chances(i),
         ~ledger[i].settled /\ (\E p \in Workers : InHand(p, i))
           => \E p \in Workers : InHand(p, i)'
  PROVE  Due(i)' <= Due(i)
<1>1. Due(i)' = Rounds(ledger[i].settled, Chances(i)', \E p \in Workers : InHand(p, i)')
  BY DEF Due
<1>2. Due(i) = Rounds(ledger[i].settled, Chances(i), \E p \in Workers : InHand(p, i))
  BY DEF Due
<1>3. CASE ledger[i].settled
  <2>1. Chances(i) \in SUBSET Workers
    BY DEF Chances
  <2>2. Cardinality(Chances(i)') <= Cardinality(Chances(i))
    BY <2>1, FleetSizes
  <2> QED
    BY <1>1, <1>2, <1>3, <2>2 DEF Rounds
<1>4. CASE ~ledger[i].settled /\ (\E p \in Workers : InHand(p, i))
  <2>1. \E p \in Workers : InHand(p, i)'
    BY <1>4
  <2>2. Due(i) = Fleet - 1
    BY <1>2, <1>4 DEF Rounds
  <2>3. Due(i)' = Fleet - 1
    BY <1>1, <1>4, <2>1 DEF Rounds
  <2> QED
    BY <2>2, <2>3, FleetSizes
<1>5. CASE ~ledger[i].settled /\ ~(\E p \in Workers : InHand(p, i))
  <2>1. Due(i) = Fleet
    BY <1>2, <1>5 DEF Rounds
  <2> QED
    BY <2>1, DueSizes
<1> QED
  BY <1>3, <1>4, <1>5

\* A step of one worker that gives it no item anew, and that leaves alone the
\* ledger and whatever ok is in hand.
LEMMA DueKeptByOne ==
  ASSUME TypeInv, NEW p \in Workers, NEW w, Set(p, w), NEW i \in Items,
         ledger'[i].settled = ledger[i].settled, torn' => torn,
         i \in w.todo \/ (w.at = "run" /\ w.item = i) => p \in Chances(i),
         InHand(p, i) => InHand(p, i)'
  PROVE  Due(i)' <= Due(i)
<1> USE DEF TypeInv, TypeOK
<1>1. Chances(i)' \subseteq Chances(i)
  BY DEF Chances, Set
<1>2. ASSUME NEW q \in Workers, InHand(q, i) PROVE InHand(q, i)'
  <2>1. CASE q = p
    BY <1>2, <2>1
  <2>2. CASE q # p
    BY <1>2, <2>2 DEF InHand, Set
  <2> QED
    BY <2>1, <2>2
<1> QED
  BY <1>1, <1>2, DueKept

\* The steps of a worker before and after its child's run.
LEMMA DueOfStep ==
  ASSUME TypeInv, NEW p \in Workers, NEW i \in Items,
         \/ StartPass(p) \/ ClaimItem(p) \/ OpenLedger(p) \/ DropClaim(p) \/ EndPass(p)
  PROVE  Due(i)' <= Due(i)
<1> USE DEF TypeInv, TypeOK
<1> DEFINE w == wk[p]
<1>0. w \in Worker /\ ledger[i] \in Row
  OBVIOUS
<1>1. CASE StartPass(p)
  <2> DEFINE new == [Off EXCEPT !.at = "pass",
                                !.todo = {j \in Items : Phase(ledger[j]) = "ready"}]
  <2>1. Set(p, new) /\ new.at = "pass" /\ ~InHand(p, i)
    BY <1>1 DEF StartPass, Off, At, InHand
  <2>2. CASE ledger[i].settled
    <3>1. i \notin new.todo
      BY <2>2 DEF Phase, Off
    <3> HIDE DEF new
    <3> QED
      BY <1>1, <2>1, <3>1, DueKeptByOne DEF StartPass
  <2>3. CASE ~ledger[i].settled
    <3>1. \A q \in Workers : InHand(q, i) => InHand(q, i)'
      BY <1>1, <2>1 DEF StartPass, Set, InHand
    <3>2. Due(i) = Rounds(FALSE, {}, \E q \in Workers : InHand(q, i))
      BY <2>3 DEF Due, Rounds
    <3>3. Due(i)' = Rounds(FALSE, {}, \E q \in Workers : InHand(q, i)')
      BY <1>1, <2>3 DEF Due, Rounds, StartPass
    <3>4. CASE \E q \in Workers : InHand(q, i)
      BY <3>1, <3>2, <3>3, <3>4, FleetSizes DEF Rounds
    <3>5. CASE ~\E q \in Workers : InHand(q, i)
      <4>1. Due(i) = Fleet
        BY <3>2, <3>5 DEF Rounds
      <4> QED
        BY <4>1, DueSizes
    <3> QED
      BY <3>4, <3>5
  <2> QED
    BY <2>2, <2>3
<1>2. CASE ClaimItem(p)
  <2> DEFINE m    == Min(w.todo)
             took == [w EXCEPT !.at = "run", !.item = m, !.todo = @ \ {m}, !.age = 0]
             left == [w EXCEPT !.todo = @ \ {m}]
  <2>1. Set(p, took) \/ Set(p, left)
    BY <1>2 DEF ClaimItem
  <2>2. m \in w.todo
    <3>1. w.todo \in SUBSET Nat /\ w.todo # {}
      BY <1>0, <1>2, QueueAssumption DEF Worker, Items, ClaimItem
    <3> QED
      BY <3>1, MinIsLeast
  <2> HIDE DEF m
  <2>3. /\ took.item = m /\ took.todo \subseteq w.todo
        /\ left.at = "pass" /\ left.todo \subseteq w.todo
    BY <1>0, <1>2 DEF Worker, ClaimItem, At
  <2>4. ~InHand(p, i) /\ (i \in w.todo => p \in Chances(i))
    BY <1>2 DEF ClaimItem, At, InHand, Chances
  <2> HIDE DEF took, left
  <2>5. CASE Set(p, took)
    BY <1>2, <2>2, <2>3, <2>4, <2>5, DueKeptByOne DEF ClaimItem
  <2>6. CASE Set(p, left)
    BY <1>2, <2>3, <2>4, <2>6, DueKeptByOne DEF ClaimItem
  <2> QED
    BY <2>1, <2>5, <2>6
<1>3. CASE OpenLedger(p)
  <2> DEFINE new == [w EXCEPT !.at = "append", !.clean = ~torn, !.current = TRUE]
  <2>1. /\ Set(p, new) /\ new.at = "append" /\ new.todo = w.todo
        /\ new.item = w.item /\ new.res = w.res /\ new.current /\ new.clean = ~torn
    BY <1>0, <1>3 DEF OpenLedger, Worker
  <2> HIDE DEF new
  <2>2. wk'[p] = new /\ torn' = torn
    BY <1>3, <2>1 DEF Set, OpenLedger
  <2>3. InHand(p, i) => InHand(p, i)'
    BY <2>1, <2>2 DEF InHand
  <2>4. i \in new.todo => p \in Chances(i)
    BY <2>1 DEF Chances
  <2> QED
    BY <1>3, <2>1, <2>3, <2>4, DueKeptByOne DEF OpenLedger
<1>4. CASE DropClaim(p)
  <2> DEFINE next == [w EXCEPT !.at = "pass"]
  <2>1. /\ Set(p, next) \/ Set(p, Off)
        /\ next.at = "pass" /\ next.todo = w.todo /\ Off.at = "off" /\ Off.todo = {}
    BY <1>0, <1>4 DEF DropClaim, Worker, Off
  <2>2. ~InHand(p, i) /\ (i \in w.todo => p \in Chances(i))
    BY <1>4 DEF DropClaim, At, InHand, Chances
  <2> HIDE DEF next
  <2>3. CASE Set(p, next)
    BY <1>4, <2>1, <2>2, <2>3, DueKeptByOne DEF DropClaim
  <2>4. CASE Set(p, Off)
    BY <1>4, <2>1, <2>2, <2>4, DueKeptByOne DEF DropClaim
  <2> QED
    BY <2>1, <2>3, <2>4
<1>5. CASE EndPass(p)
  <2>1. Set(p, Off) /\ Off.at = "off" /\ Off.todo = {} /\ ~InHand(p, i)
    BY <1>5 DEF EndPass, Off, At, InHand
  <2> QED
    BY <1>5, <2>1, DueKeptByOne DEF EndPass
<1> QED
  BY <1>1, <1>2, <1>3, <1>4, <1>5

\* A child that completes uses up what was due of it.
LEMMA DueOfRun ==
  ASSUME TypeInv, Owned, Passed, NEW p \in Workers, RunItem(p), NEW i \in Items
  PROVE  wins'[i] + Due(i)' <= wins[i] + Due(i)
<1> USE DEF TypeInv, TypeOK
<1> DEFINE w == wk[p]
<1>0. w \in Worker /\ w.item \in Items /\ w.at = "run" /\ w.item \notin w.todo
  BY DEF RunItem, At, Placed, Passed, Busy
<1>1. PICK res \in {"ok", "error"} :
        /\ Set(p, [w EXCEPT !.at = "ran", !.res = res])
        /\ wins' = IF res = "ok" THEN [wins EXCEPT ![w.item] = @ + 1] ELSE wins
  BY DEF RunItem
<1> DEFINE new == [w EXCEPT !.at = "ran", !.res = res]
<1>2. /\ Set(p, new) /\ new.at = "ran" /\ new.res = res
      /\ new.item = w.item /\ new.todo = w.todo
  BY <1>0, <1>1 DEF Worker
<1> HIDE DEF new
<1>3. ledger' = ledger /\ torn' = torn /\ ~InHand(p, i)
  BY <1>0 DEF RunItem, InHand
<1>4. wins[i] \in Nat /\ Due(i) \in Nat /\ Due(i)' \in Nat
  BY DueSizes
<1>5. CASE res = "error" \/ i # w.item
  <2>1. wins'[i] = wins[i]
    BY <1>1, <1>5
  <2>2. i \in new.todo => p \in Chances(i)
    BY <1>2 DEF Chances
  <2>3. Due(i)' <= Due(i)
    BY <1>2, <1>3, <2>2, DueKeptByOne
  <2> QED
    BY <1>4, <2>1, <2>3
<1>6. CASE res = "ok" /\ i = w.item
  <2>1. wins'[i] = wins[i] + 1
    BY <1>0, <1>1, <1>6
  <2>2. CASE ledger[i].settled
    <3>1. p \in Chances(i) /\ Chances(i) \in SUBSET Workers
      BY <1>0, <1>6 DEF Chances
    <3>2. Chances(i)' \in SUBSET (Chances(i) \ {p})
      BY <1>0, <1>2, <1>6 DEF Chances, Set
    <3>3. Cardinality(Chances(i)') <= Cardinality(Chances(i)) - 1
      BY <3>1, <3>2, FleetSizes
    <3>4. Due(i) = Cardinality(Chances(i)) /\ Due(i)' = Cardinality(Chances(i)')
      BY <1>3, <2>2 DEF Due, Rounds
    <3> QED
      BY <1>4, <2>1, <3>3, <3>4
  <2>3. CASE ~ledger[i].settled
    <3>1. ~\E q \in Workers : InHand(q, i)
      <4>1. lock[i] = p
        BY <1>0, <1>6 DEF Owned, On
      <4>2. \A q \in Workers : InHand(q, i) => q = p
        BY <4>1 DEF Owned, On, InHand
      <4> QED
        BY <1>3, <4>2
    <3>2. InHand(p, i)'
      BY <1>2, <1>6 DEF Set, InHand
    <3>3. Due(i) = Fleet
      BY <2>3, <3>1 DEF Due, Rounds
    <3>4. Due(i)' = Rounds(ledger[i].settled, Chances(i)', \E q \in Workers : InHand(q, i)')
      BY <1>3 DEF Due
    <3>5. Due(i)' = Fleet - 1
      BY <2>3, <3>2, <3>4 DEF Rounds
    <3> QED
      BY <1>4, <2>1, <3>3, <3>5, FleetSizes
  <2> QED
    BY <2>2, <2>3
<1> QED
  BY <1>5, <1>6

\* What a line says never takes an ok back.
LEMMA SaidSettles ==
  ASSUME NEW row \in Row, NEW res \in {"ok", "error"}, NEW age
  PROVE  Said(row, res, age).settled = (row.settled \/ res = "ok")
BY DEF Said, Row

\* A line that is written settles the item, or leaves what was due of it; one
\* that is lost was not counted on.
LEMMA DueOfLine ==
  ASSUME TypeInv, Owned, Passed, NEW p \in Workers, AppendLine(p), NEW i \in Items
  PROVE  Due(i)' <= Due(i)
<1> USE DEF TypeInv, TypeOK
<1> DEFINE w     == wk[p]
           lands == w.current /\ ~(w.clean /\ torn)
           new   == [w EXCEPT !.at = "drop"]
<1>0. w \in Worker /\ w.item \in Items /\ w.at = "append" /\ w.item \notin w.todo
  BY DEF AppendLine, At, Placed, Passed, Busy
<1>1. Set(p, new) /\ new.at = "drop" /\ new.item = w.item /\ new.todo = w.todo
  BY <1>0 DEF AppendLine, Worker
<1> HIDE DEF new
<1>2. torn' => torn
  BY DEF AppendLine
<1>3. Chances(i)' \in SUBSET (Chances(i) \ {q \in Workers : q = p /\ i = w.item})
  BY <1>0, <1>1 DEF Chances, Set
<1>4. \A q \in Workers : q # p /\ InHand(q, i) => InHand(q, i)'
  BY <1>1, <1>2 DEF InHand, Set
<1>5. ledger' = IF lands THEN [ledger EXCEPT ![w.item] = Said(@, w.res, w.age)] ELSE ledger
  BY DEF AppendLine
<1>6. CASE i = w.item /\ lands /\ w.res = "ok"
  <2>1. ledger'[i].settled
    BY <1>0, <1>5, <1>6, SaidSettles DEF Worker
  <2>2. Due(i)' = Cardinality(Chances(i)')
    <3>1. Due(i)' = Rounds(ledger'[i].settled, Chances(i)', \E q \in Workers : InHand(q, i)')
      BY DEF Due
    <3> QED
      BY <2>1, <3>1 DEF Rounds
  <2>3. CASE ledger[i].settled
    <3>1. Due(i) = Cardinality(Chances(i)) /\ Chances(i) \in SUBSET Workers
      BY <2>3 DEF Due, Rounds, Chances
    <3> QED
      BY <1>3, <2>2, <3>1, FleetSizes
  <2>4. CASE ~ledger[i].settled
    <3>1. Chances(i)' \in SUBSET (Workers \ {p})
      BY <1>3, <1>6 DEF Chances
    <3>2. Cardinality(Chances(i)') <= Fleet - 1
      BY <3>1, FleetSizes DEF Fleet
    <3> QED
      BY <2>2, <2>4, <3>2, DueSizes, FleetSizes
  <2> QED
    BY <2>3, <2>4
<1>7. CASE ~(i = w.item /\ lands /\ w.res = "ok")
  <2>1. ledger'[i].settled = ledger[i].settled
    <3>1. ledger[w.item] \in Row /\ w.res \in {"ok", "error"}
      BY <1>0 DEF Worker
    <3>2. CASE lands /\ i = w.item
      <4>1. ledger'[i] = Said(ledger[i], "error", w.age)
        BY <1>0, <1>5, <1>7, <3>1, <3>2
      <4> HIDE DEF lands
      <4> QED
        BY <1>0, <3>1, <3>2, <4>1, SaidSettles DEF Row
    <3>3. CASE ~(lands /\ i = w.item)
      BY <1>5, <3>3
    <3> QED
      BY <3>2, <3>3
  <2>2. ~InHand(p, i)
    BY <1>0, <1>7 DEF InHand
  <2>3. \A q \in Workers : InHand(q, i) => InHand(q, i)'
    BY <1>4, <2>2
  <2>4. Chances(i)' \subseteq Chances(i)
    BY <1>3
  <2> QED
    BY <2>1, <2>3, <2>4, DueKept
<1> QED
  BY <1>6, <1>7

\* Time, and whoever only looks, change nothing that is due.
LEMMA DueOfTime ==
  ASSUME TypeInv, NEW i \in Items,
         \/ Elapse \/ RetryReads \/ RedriveReads \/ RetryOpens
         \/ (\E j \in Items : Look(j) \/ LookAway(j)) \/ UNCHANGED vars
  PROVE  Due(i)' <= Due(i) /\ wins' = wins
<1> USE DEF TypeInv, TypeOK
<1>1. ledger'[i].settled = ledger[i].settled /\ torn' = torn /\ wins' = wins
  BY DEF Elapse, RetryReads, RedriveReads, RetryOpens, Look, LookAway, vars, Row
<1>2. \A q \in Workers :
        /\ wk'[q].at = wk[q].at /\ wk'[q].item = wk[q].item /\ wk'[q].todo = wk[q].todo
        /\ wk'[q].res = wk[q].res
        /\ wk'[q].clean = wk[q].clean /\ wk'[q].current = wk[q].current
  <2>1. CASE Elapse
    BY <2>1 DEF Elapse, Worker
  <2>2. CASE ~Elapse
    BY <2>2 DEF RetryReads, RedriveReads, RetryOpens, Look, LookAway, vars
  <2> QED
    BY <2>1, <2>2
<1>3. Chances(i)' \subseteq Chances(i)
  BY <1>2 DEF Chances
<1>4. \A q \in Workers : InHand(q, i) => InHand(q, i)'
  BY <1>1, <1>2 DEF InHand
<1> QED
  BY <1>1, <1>3, <1>4, DueKept

LEMMA BalanceStep ==
  ASSUME TypeInv, Owned, Passed, Balance, [Next]_vars
  PROVE  Balance'
<1> SUFFICES ASSUME NEW i \in Items
             PROVE  wins'[i] + Due(i)' + Pending' <= Allowed'
  BY DEF Balance
<1>0. /\ wins[i] \in Nat /\ Pending \in Nat /\ Fleet \in Nat
      /\ Due(i) \in Nat /\ Due(i)' \in Nat /\ Due(i)' <= Fleet
      /\ Allowed \in Int /\ wins[i] + Due(i) + Pending <= Allowed
  BY DueSizes, FleetSizes, Spends DEF TypeInv, TypeOK, Pending, Balance
<1>1. /\ op' = op => Pending' = Pending
      /\ op.at = "idle" => Pending = 0
      /\ op.at # "idle" => Pending = Fleet
      /\ Pending' = 0 \/ Pending' = Fleet
      /\ op'.at = "idle" => Pending' = 0
  BY DEF Pending, Fleet
\* A worker's step: nothing is spent, and what was due covers what was won.
<1>2. ASSUME NEW p \in Workers, Step(p)
      PROVE  wins'[i] + Due(i)' + Pending' <= Allowed'
  <2>1. op' = op /\ budget' = budget
    BY <1>2 DEF Step, StartPass, ClaimItem, RunItem, OpenLedger, AppendLine, DropClaim, EndPass
  <2>2. Allowed' = Allowed
    BY <2>1, Spends DEF TypeInv
  <2>3. CASE RunItem(p)
    <3>1. wins'[i] + Due(i)' <= wins[i] + Due(i) /\ wins'[i] \in Nat
      <4>1. wins'[i] \in Nat
        BY <2>3 DEF RunItem, TypeInv, TypeOK
      <4> QED
        BY <2>3, <4>1, DueOfRun
    <3> QED
      BY <1>0, <1>1, <2>1, <2>2, <3>1
  <2>4. CASE ~RunItem(p)
    <3>1. wins' = wins
      BY <1>2, <2>4 DEF Step, StartPass, ClaimItem, OpenLedger, AppendLine, DropClaim, EndPass
    <3>2. Due(i)' <= Due(i)
      BY <1>2, <2>4, DueOfStep, DueOfLine DEF Step
    <3> QED
      BY <1>0, <1>1, <2>1, <2>2, <3>1, <3>2
  <2> QED
    BY <2>3, <2>4
\* A fault: it pays for a round of the workers, whatever it undoes.
<1>3. ASSUME NEW p \in Workers, RecordFails(p) \/ Killed(p)
      PROVE  wins'[i] + Due(i)' + Pending' <= Allowed'
  <2>1. op' = op /\ wins' = wins /\ (Spend("faults") \/ Spend("crashes"))
    BY <1>3 DEF RecordFails, Killed
  <2>2. Allowed' = Allowed + Fleet
    BY <2>1, Spends DEF TypeInv
  <2> QED
    BY <1>0, <1>1, <2>1, <2>2
<1>4. CASE VerbFails
  <2>1. wins' = wins /\ Spend("faults") /\ op'.at = "idle"
    BY <1>4 DEF VerbFails, NoVerb
  <2>2. Allowed' = Allowed + Fleet
    BY <2>1, Spends DEF TypeInv
  <2> QED
    BY <1>0, <1>1, <2>1, <2>2
\* A verb is charged when it reads, and what it undoes is a round at most.
<1>5. CASE RetryReads \/ RedriveReads
  <2>1. Spend("verbs") /\ op.at = "idle"
    BY <1>5 DEF RetryReads, RedriveReads
  <2>2. Allowed' = Allowed + Fleet
    BY <2>1, Spends DEF TypeInv
  <2>3. Due(i)' <= Due(i) /\ wins' = wins
    BY <1>5, DueOfTime
  <2> QED
    BY <1>0, <1>1, <2>1, <2>2, <2>3
<1>6. CASE RetryMarks \/ RedriveWrites
  <2>1. wins' = wins /\ budget' = budget /\ op.at # "idle" /\ op'.at = "idle"
    BY <1>6 DEF RetryMarks, RedriveWrites, NoVerb
  <2>2. Allowed' = Allowed
    BY <2>1, Spends DEF TypeInv
  <2> QED
    BY <1>0, <1>1, <2>1, <2>2
<1>7. CASE RetryOpens
  <2>1. budget' = budget /\ op.at # "idle"
    BY <1>7 DEF RetryOpens
  <2>2. Allowed' = Allowed
    BY <2>1, Spends DEF TypeInv
  <2>3. Due(i)' <= Due(i) /\ wins' = wins
    BY <1>7, DueOfTime
  <2>4. Pending' <= Pending
    BY <1>0, <1>1, <2>1
  <2> QED
    BY <1>0, <1>1, <2>2, <2>3, <2>4
<1>8. CASE Elapse \/ (\E j \in Items : Look(j) \/ LookAway(j)) \/ UNCHANGED vars
  <2>1. op' = op /\ (budget' = budget \/ Spend("looks"))
    BY <1>8 DEF Elapse, Look, LookAway, vars
  <2>2. Allowed' = Allowed
    BY <2>1, Spends DEF TypeInv
  <2>3. Due(i)' <= Due(i) /\ wins' = wins
    BY <1>8, DueOfTime
  <2> QED
    BY <1>0, <1>1, <2>1, <2>2, <2>3
<1> QED
  BY <1>2, <1>3, <1>4, <1>5, <1>6, <1>7, <1>8 DEF Next, VerbStep

\* "At least once, not exactly once", and how often at most: for any number of
\* items and workers the child of an item completes once for each worker, and
\* once more for each worker with each kill, lost record, retry or redrive.
THEOREM RepeatsStayBounded == Spec => []RepeatsAreBounded
<1>1. Init => Owned /\ Passed
  BY DEF Init, Owned, Passed, On, Off, Busy
<1>2. Init /\ TypeOK => Balance
  <2> SUFFICES ASSUME Init, TypeOK, NEW i \in Items
               PROVE  wins[i] + Due(i) + Pending <= Allowed
    BY DEF Balance
  <2>1. wins[i] = 0 /\ Pending = 0
    BY DEF Init, Pending, NoVerb
  <2>2. Spent = 0
    BY BoundAssumption DEF Init, Spent, Bounds
  <2>3. Allowed = Fleet
    BY <2>2, FleetSizes DEF Allowed
  <2> QED
    BY <2>1, <2>3, DueSizes, FleetSizes
<1>3. TypeInv /\ Owned /\ Passed /\ Balance /\ [Next]_vars
        => Owned' /\ Passed' /\ Balance'
  BY OwnedStep, PassedStep, BalanceStep
<1>4. TypeInv /\ Balance => RepeatsAreBounded
  <2> SUFFICES ASSUME TypeInv, Balance, NEW i \in Items PROVE wins[i] <= Allowed
    BY DEF RepeatsAreBounded, Allowed, Fleet
  <2>1. wins[i] + Due(i) + Pending <= Allowed
    BY DEF Balance
  <2>2. wins[i] \in Nat /\ Due(i) \in Nat /\ Pending \in Nat /\ Allowed \in Int
    BY DueSizes, FleetSizes, Spends DEF TypeInv, TypeOK, Pending
  <2> QED
    BY <2>1, <2>2
<1>5. TypeInv => TypeOK
  BY DEF TypeInv
<1> QED
  BY <1>1, <1>2, <1>3, <1>4, <1>5, TypeInvariant, PTL DEF Spec
=============================================================================
