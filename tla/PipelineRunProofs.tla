------------------------- MODULE PipelineRunProofs -------------------------
(* What holds of PipelineRun for any number of sources, sinks and stages in  *)
(* any order, and every bound: the types, and, as long as one run of the     *)
(* pipeline is under way at a time, that no position moves past a row that   *)
(* is not in every sink (NoRowSkipped), that a row is in a sink again only   *)
(* for a cause (RepeatsAreAccounted), and that a position edited once while  *)
(* a run goes on is not written over (EditStands).                           *)
EXTENDS PipelineRun, SequenceTheorems, FiniteSetTheorems, TLAPS

-----------------------------------------------------------------------------
(* Types.                                                                  *)

\* Where a run is says what its lists begin with.
Placed(r) ==
  /\ r.at = "saved" => r.todo # <<>> /\ Head(r.todo) \in Marks
  /\ r.at = "peek" => r.todo # <<>> /\ Head(r.todo) \in Slots
  /\ r.at \in {"publish", "rename", "append"} => r.todo # <<>> /\ Head(r.todo) \in Sinks
  /\ r.at \in {"check", "write", "place"} => r.pending # <<>>

TypeInv == TypeOK /\ \A p \in Runners : Placed(run[p])

LEMMA Constants ==
  /\ MaxRow \in Nat /\ Batch \in Nat \ {0} /\ MaxTries \in Nat \ {0}
  /\ Marks \subseteq Sources /\ Slots \subseteq Sources
  /\ Sources \subseteq Stages /\ Sinks \subseteq Stages /\ Limited \in Stages
  /\ Sources \cap Sinks = {} /\ Limited \notin Sources \cup Sinks /\ Marks \cap Slots = {}
  /\ Making \in Seq(Stages) /\ Taking \in Seq(Stages)
<1>1. Sources \cup {Limited} \subseteq Stages /\ Sinks \subseteq Stages
  BY DEF Stages
<1>2. Making \in Seq(Stages) /\ Taking \in Seq(Stages)
  BY <1>1, PipelineAssumption
<1> QED
  BY <1>1, <1>2, PipelineAssumption DEF Sources, Stages

LEMMA HeadTail ==
  ASSUME NEW S, NEW q \in Seq(S), q # <<>>
  PROVE  /\ Head(q) \in S /\ Head(q) = q[1] /\ Tail(q) \in Seq(S)
         /\ Len(q) \in Nat \ {0} /\ DOMAIN q = 1..Len(q) /\ DOMAIN Tail(q) = 1..(Len(q) - 1)
         /\ \A i \in 1..(Len(q) - 1) : Tail(q)[i] = q[i + 1]
  BY HeadTailProperties, EmptySeq

LEMMA TextsAre ==
  /\ Texts \subseteq Int /\ NoFile \in Texts /\ Torn \in Texts
  /\ \A t \in Texts : Saved(t) \in 0..MaxRow
  /\ 0..MaxRow \subseteq Texts
  BY Constants DEF Texts, Saved, NoFile, Torn, Greatest

LEMMA IdleIsRun == Idle \in Runs /\ Placed(Idle)
<1>1. Idle.todo \in Seq(Stages) /\ Idle.pending \in Seq(Sources)
  BY DEF Idle
<1> QED
  BY <1>1, Constants, TextsAre DEF Idle, Runs, Points, Placed

LEMMA DoneTypes ==
  ASSUME NEW r \in Runs, r.todo # <<>>
  PROVE  Done(r) \in Runs /\ Placed(Done(r))
<1>1. Tail(r.todo) \in Seq(Stages) /\ 0 \in 0..(MaxTries - 1) /\ "stage" \in Points
  BY HeadTail, Constants DEF Runs, Points
<1> DEFINE t == [r EXCEPT !.todo = Tail(r.todo)]
           u == [t EXCEPT !.tries = 0]
<1>2. t \in Runs
  BY <1>1 DEF Runs
<1>3. u \in Runs
  BY <1>1, <1>2 DEF Runs
<1>4. Done(r) = [u EXCEPT !.at = "stage"]
  BY DEF Done, Runs
<1> HIDE DEF u
<1> QED
  BY <1>1, <1>3, <1>4 DEF Runs, Placed

LEMMA BreakTypes ==
  ASSUME NEW r \in Runs
  PROVE  Break(r) \in Runs /\ Placed(Break(r))
<1>1. <<>> \in Seq(Stages)
  OBVIOUS
<1> QED
  BY <1>1 DEF Break, Runs, Points, Placed

LEMMA FailsTypes ==
  ASSUME NEW r \in Runs, r.todo # <<>>
  PROVE  Fails(r) \in Runs /\ Placed(Fails(r))
<1> DEFINE e == [r EXCEPT !.failed = TRUE]
<1>1. e \in Runs /\ e.todo = r.todo
  BY DEF Runs
<1>2. Fails(r) \in {Done(e), Break(e)}
  BY DEF Fails
<1> HIDE DEF e
<1> QED
  BY <1>1, <1>2, DoneTypes, BreakTypes

LEMMA LoadedTypes ==
  ASSUME NEW r \in Runs, r.todo # <<>>, NEW s \in Sources, NEW a \in Nat, NEW b \in 0..MaxRow
  PROVE  Loaded(r, s, a, b) \in Runs /\ Placed(Loaded(r, s, a, b))
<1> DEFINE l == [r EXCEPT !.rows = @ \cup Window(s, a, b)]
           m == [l EXCEPT !.next[s] = b, !.pending = Append(@, s)]
<1>1. Window(s, a, b) \subseteq Rows
  BY Constants DEF Window, Rows
<1>2. l \in Runs /\ l.todo = r.todo /\ l.pending = r.pending /\ l.next = r.next
  BY <1>1 DEF Runs
<1>3. Append(r.pending, s) \in Seq(Sources) /\ [r.next EXCEPT ![s] = b] \in [Sources -> Texts]
  BY TextsAre DEF Runs
<1> HIDE DEF l
<1>4. m \in Runs /\ m.todo = r.todo
  BY <1>2, <1>3 DEF Runs
<1> HIDE DEF m
<1>5. Loaded(r, s, a, b) \in {Done(m), Done(l)}
  BY DEF Loaded, l, m
<1> QED
  BY <1>2, <1>4, <1>5, DoneTypes

\* A step of one run.
LEMMA RunTypes ==
  ASSUME TypeInv, NEW p \in Runners, NEW r, r \in Runs, Placed(r), run' = [run EXCEPT ![p] = r]
  PROVE  run' \in [Runners -> Runs] /\ \A q \in Runners : Placed(run'[q])
  BY DEF TypeInv, TypeOK

\* What a run has in hand.
LEMMA RunHas ==
  ASSUME TypeInv, NEW p \in Runners
  PROVE  /\ run[p] \in Runs /\ Placed(run[p])
         /\ run[p].todo \in Seq(Stages) /\ run[p].pending \in Seq(Sources)
         /\ run[p].todo # <<>> => Head(run[p].todo) \in Stages /\ Tail(run[p].todo) \in Seq(Stages)
         /\ run[p].pending # <<>> =>
              Head(run[p].pending) \in Sources /\ Tail(run[p].pending) \in Seq(Sources)
<1>1. run[p] \in Runs /\ Placed(run[p])
  BY DEF TypeInv, TypeOK
<1>2. run[p].todo \in Seq(Stages) /\ run[p].pending \in Seq(Sources)
  BY <1>1 DEF Runs
<1> QED
  BY <1>1, <1>2, HeadTail

LEMMA SpendTypes ==
  ASSUME left \in [Kinds -> Nat], NEW what \in Mishaps, Spend(what)
  PROVE  left' \in [Kinds -> Nat]
<1>1. what \in Kinds /\ "any" \in Kinds
  BY DEF Kinds
<1>2. left[what] - 1 \in Nat /\ what # "any"
  BY <1>1 DEF Spend, Mishaps
<1>3. [left EXCEPT ![what] = @ - 1]["any"] - 1 \in Nat
  BY <1>1, <1>2 DEF Spend
<1> QED
  BY <1>1, <1>2, <1>3 DEF Spend

LEMMA InitTypes == Init => TypeInv
<1> SUFFICES ASSUME Init PROVE TypeInv
  OBVIOUS
<1>1. run \in [Runners -> Runs] /\ \A p \in Runners : Placed(run[p])
  BY IdleIsRun DEF Init
<1>2. /\ feed \in [Sources -> 0..MaxRow] /\ slot \in [Slots -> 0..MaxRow]
      /\ state \in [Sources -> Texts] /\ tmp \in [Sources -> Texts]
  BY Constants, TextsAre DEF Init
<1>3. staged \in [Sinks -> [there : BOOLEAN, rows : SUBSET Rows]]
  BY DEF Init, Missing
<1>4. out \in [Sinks -> Seq(SUBSET Rows)]
  <2>1. <<>> \in Seq(SUBSET Rows)
    OBVIOUS
  <2> QED
    BY <2>1 DEF Init
<1>5. left \in [Kinds -> Nat] /\ waived \subseteq Rows /\ excuses \in Nat /\ verb \in Verbs
  BY PipelineAssumption DEF Init, Verbs
<1> QED
  BY <1>1, <1>2, <1>3, <1>4, <1>5 DEF TypeInv, TypeOK

\* A step of a run that leaves the files of the sinks alone.
LEMMA QuietTypes ==
  ASSUME TypeInv, NEW p \in Runners,
         \/ SeeCancel(p) \/ ReadPrior(p) \/ ReadMarked(p) \/ AdvanceSlot(p) \/ Peek(p)
         \/ Limit(p) \/ Publish(p)
  PROVE  TypeInv'
<1>0. run[p] \in Runs /\ Placed(run[p])
  BY RunHas
<1> USE DEF Becomes
<1>1. CASE SeeCancel(p)
  <2> DEFINE r == [run[p] EXCEPT !.failed = TRUE]
  <2>1. r \in Runs
    BY <1>0 DEF Runs
  <2>2. Break(r) \in Runs /\ Placed(Break(r)) /\ run' = [run EXCEPT ![p] = Break(r)]
    BY <1>1, <2>1, BreakTypes DEF SeeCancel
  <2>3. run' \in [Runners -> Runs] /\ \A q \in Runners : Placed(run'[q])
    BY <2>2, RunTypes
  <2> QED
    BY <1>1, <2>3 DEF SeeCancel, TypeInv, TypeOK, upstream, files
<1>2. CASE ReadPrior(p)
  <2> DEFINE s == Head(run[p].todo)
             r == [run[p] EXCEPT !.at = "saved", !.prior[s] = state[s]]
  <2>1. s \in Marks /\ s \in Sources /\ run[p].todo # <<>> /\ state[s] \in Texts
    BY <1>2, Constants DEF ReadPrior, AtStage, TypeInv, TypeOK
  <2>2. [run[p].prior EXCEPT ![s] = state[s]] \in [Sources -> Texts] /\ "saved" \in Points
    BY <1>0, <2>1 DEF Runs, Points
  <2>3. r \in Runs /\ Placed(r)
    BY <1>0, <2>1, <2>2 DEF Runs, Placed
  <2>4. run' \in [Runners -> Runs] /\ \A q \in Runners : Placed(run'[q])
    BY <1>2, <2>3, RunTypes DEF ReadPrior
  <2> QED
    BY <1>2, <2>4 DEF ReadPrior, TypeInv, TypeOK, upstream, files
<1>3. CASE ReadMarked(p)
  <2> DEFINE s == Head(run[p].todo)
             r == [run[p] EXCEPT !.from[s] = state[s]]
  <2>1. s \in Sources /\ run[p].todo # <<>> /\ state[s] \in Texts /\ feed[s] \in 0..MaxRow
    BY <1>0, <1>3, Constants DEF ReadMarked, Placed, TypeInv, TypeOK
  <2>2. r \in Runs /\ r.todo = run[p].todo
    BY <1>0, <2>1 DEF Runs
  <2> HIDE DEF r, s
  <2>3. Saved(state[s]) \in 0..MaxRow /\ Saved(state[s]) \in Nat
    <3>1. Saved(state[s]) \in 0..MaxRow
      BY <2>1, TextsAre
    <3> QED
      BY <3>1
  <2> DEFINE l == Loaded(r, s, Saved(state[s]), feed[s])
  <2>4. l \in Runs /\ Placed(l)
    BY <2>1, <2>2, <2>3, LoadedTypes
  <2>5. run' \in [Runners -> Runs] /\ \A q \in Runners : Placed(run'[q])
    BY <1>3, <2>4, RunTypes DEF ReadMarked, r, s
  <2> QED
    BY <1>3, <2>5 DEF ReadMarked, TypeInv, TypeOK, upstream, files
<1>4. CASE AdvanceSlot(p)
  <2> DEFINE s == Head(run[p].todo)
             r == [run[p] EXCEPT !.at = "peek", !.prior[s] = state[s], !.from[s] = state[s]]
  <2>1. s \in Slots /\ s \in Sources /\ run[p].todo # <<>> /\ state[s] \in Texts
    BY <1>4, Constants DEF AdvanceSlot, AtStage, TypeInv, TypeOK
  <2>2. r \in Runs /\ r.at = "peek" /\ r.todo = run[p].todo
    <3>1. [run[p].prior EXCEPT ![s] = state[s]] \in [Sources -> Texts]
      BY <1>0, <2>1 DEF Runs
    <3>2. [run[p].from EXCEPT ![s] = state[s]] \in [Sources -> Texts] /\ "peek" \in Points
      BY <1>0, <2>1 DEF Runs, Points
    <3> QED
      BY <1>0, <3>1, <3>2 DEF Runs
  <2>3. Placed(r)
    BY <2>1, <2>2 DEF Placed
  <2> HIDE DEF r
  <2>4. run' \in [Runners -> Runs] /\ \A q \in Runners : Placed(run'[q])
    BY <1>4, <2>2, <2>3, RunTypes DEF AdvanceSlot, r
  <2>5. Greatest(slot[s], Saved(state[s])) \in 0..MaxRow
    BY <2>1, TextsAre DEF Greatest, TypeInv, TypeOK
  <2>6. slot' \in [Slots -> 0..MaxRow]
    BY <1>4, <2>1, <2>5 DEF AdvanceSlot, TypeInv, TypeOK
  <2> QED
    BY <1>4, <2>4, <2>6 DEF AdvanceSlot, TypeInv, TypeOK, upstream, files
<1>5. CASE Peek(p)
  <2> DEFINE s == Head(run[p].todo)
             b == Least(slot[s] + Batch, feed[s])
             l == Loaded(run[p], s, slot[s], b)
  <2>1. s \in Sources /\ s \in Slots /\ run[p].todo # <<>>
    BY <1>0, <1>5, Constants DEF Peek, Placed
  <2>2. slot[s] \in Nat /\ b \in 0..MaxRow
    BY <2>1, Constants DEF Least, TypeInv, TypeOK
  <2>3. l \in Runs /\ Placed(l)
    BY <1>0, <2>1, <2>2, LoadedTypes
  <2>4. run' \in [Runners -> Runs] /\ \A q \in Runners : Placed(run'[q])
    BY <1>5, <2>3, RunTypes DEF Peek
  <2> QED
    BY <1>5, <2>4 DEF Peek, TypeInv, TypeOK, upstream, files
<1>6. CASE Limit(p)
  <2> DEFINE r == [run[p] EXCEPT !.short = TRUE]
  <2>1. run[p].todo # <<>>
    BY <1>6 DEF Limit, AtStage
  <2>2. r \in Runs
    BY <1>0 DEF Runs
  <2>3. run' \in [Runners -> Runs] /\ \A q \in Runners : Placed(run'[q])
    <3>1. CASE run' = [run EXCEPT ![p] = Done(run[p])]
      BY <1>0, <2>1, <3>1, DoneTypes, RunTypes
    <3>2. CASE run' = [run EXCEPT ![p] = Break(r)]
      BY <2>2, <3>2, BreakTypes, RunTypes
    <3> QED
      BY <1>6, <3>1, <3>2 DEF Limit
  <2>4. left' \in [Kinds -> Nat]
    BY <1>6, SpendTypes DEF Limit, Mishaps, TypeInv, TypeOK
  <2> QED
    BY <1>6, <2>3, <2>4 DEF Limit, TypeInv, TypeOK, upstream, files
<1>7. CASE Publish(p)
  <2> DEFINE k == Head(run[p].todo)
             r == [run[p] EXCEPT !.at = "rename"]
             e == [run[p] EXCEPT !.at = "append", !.grab = staged[k].rows, !.len = Len(out[k])]
  <2>1. run[p].todo # <<>> /\ k \in Sinks
    BY <1>0, <1>7 DEF Publish, Placed
  <2>2. r \in Runs /\ Placed(r)
    BY <1>0, <2>1 DEF Runs, Points, Placed
  <2>3. staged[k].rows \in SUBSET Rows /\ Len(out[k]) \in Nat /\ "append" \in Points
    BY <2>1, LenProperties DEF TypeInv, TypeOK, Points
  <2>4. e \in Runs /\ e.at = "append" /\ e.todo = run[p].todo
    BY <1>0, <2>3 DEF Runs
  <2>5. Placed(e)
    BY <2>1, <2>4 DEF Placed
  <2> HIDE DEF e, r
  <2>6. \E x \in {Done(run[p]), r, e} : run' = [run EXCEPT ![p] = x]
    BY <1>7 DEF Publish, e, r
  <2>7. run' \in [Runners -> Runs] /\ \A q \in Runners : Placed(run'[q])
    BY <1>0, <2>1, <2>2, <2>4, <2>5, <2>6, DoneTypes, RunTypes
  <2> QED
    BY <1>7, <2>7 DEF Publish, TypeInv, TypeOK, upstream, files
<1> QED
  BY <1>1, <1>2, <1>3, <1>4, <1>5, <1>6, <1>7

LEMMA BehindTypes ==
  ASSUME NEW f \in Seq(SUBSET Rows), NEW c \in SUBSET Rows
  PROVE  Behind(f, c) \in Seq(SUBSET Rows)
  BY DEF Behind

\* A step of a sink.
LEMMA SinkTypes ==
  ASSUME TypeInv, NEW p \in Runners, CopyOut(p) \/ RenameStaged(p) \/ AppendStaged(p)
  PROVE  TypeInv'
<1> DEFINE k == Head(run[p].todo)
<1> USE DEF Becomes
<1>0. run[p] \in Runs /\ Placed(run[p])
  BY RunHas
<1>1. run[p].todo # <<>> /\ k \in Sinks
  BY <1>0 DEF CopyOut, AtStage, RenameStaged, AppendStaged, Placed
<1>2. /\ out[k] \in Seq(SUBSET Rows) /\ <<>> \in Seq(SUBSET Rows)
      /\ staged[k].rows \in SUBSET Rows /\ run[p].rows \in SUBSET Rows
      /\ run[p].grab \in SUBSET Rows
      /\ Missing \in [there : BOOLEAN, rows : SUBSET Rows]
      /\ [there |-> TRUE, rows |-> run[p].rows] \in [there : BOOLEAN, rows : SUBSET Rows]
  <2>1. run[p].rows \in SUBSET Rows /\ run[p].grab \in SUBSET Rows
    BY <1>0 DEF Runs
  <2>2. out[k] \in Seq(SUBSET Rows) /\ staged[k].rows \in SUBSET Rows
    BY <1>1 DEF TypeInv, TypeOK
  <2> QED
    BY <2>1, <2>2 DEF Missing
<1>3. Behind(<<>>, staged[k].rows) \in Seq(SUBSET Rows) /\ Behind(out[k], run[p].grab) \in Seq(SUBSET Rows)
  BY <1>2, BehindTypes
<1>4. Done(run[p]) \in Runs /\ Placed(Done(run[p])) /\ Fails(run[p]) \in Runs /\ Placed(Fails(run[p]))
  BY <1>0, <1>1, DoneTypes, FailsTypes
<1>5. CASE CopyOut(p)
  <2> DEFINE r == [run[p] EXCEPT !.at = "publish"]
  <2>1. r \in Runs /\ Placed(r)
    BY <1>0, <1>1 DEF Runs, Points, Placed
  <2>2. run' \in [Runners -> Runs] /\ \A q \in Runners : Placed(run'[q])
    BY <1>5, <2>1, RunTypes DEF CopyOut
  <2>3. staged' \in [Sinks -> [there : BOOLEAN, rows : SUBSET Rows]]
    BY <1>2, <1>5 DEF CopyOut, TypeInv, TypeOK
  <2> QED
    BY <1>5, <2>2, <2>3 DEF CopyOut, TypeInv, TypeOK, upstream
<1>6. CASE RenameStaged(p)
  <2>1. run' \in [Runners -> Runs] /\ \A q \in Runners : Placed(run'[q])
    BY <1>4, <1>6, RunTypes DEF RenameStaged
  <2>2. /\ staged' \in [Sinks -> [there : BOOLEAN, rows : SUBSET Rows]]
        /\ out' \in [Sinks -> Seq(SUBSET Rows)]
    BY <1>2, <1>3, <1>6 DEF RenameStaged, files, TypeInv, TypeOK
  <2> QED
    BY <1>6, <2>1, <2>2 DEF RenameStaged, TypeInv, TypeOK, upstream
<1>7. CASE AppendStaged(p)
  <2>1. run' \in [Runners -> Runs] /\ \A q \in Runners : Placed(run'[q])
    BY <1>4, <1>7, RunTypes DEF AppendStaged
  <2>2. /\ staged' \in [Sinks -> [there : BOOLEAN, rows : SUBSET Rows]]
        /\ out' \in [Sinks -> Seq(SUBSET Rows)]
    BY <1>2, <1>3, <1>7 DEF AppendStaged, TypeInv, TypeOK
  <2> QED
    BY <1>7, <2>1, <2>2 DEF AppendStaged, TypeInv, TypeOK, upstream
<1> QED
  BY <1>5, <1>6, <1>7

\* On to the next position.
LEMMA OnFromTypes ==
  ASSUME TypeInv, NEW p \in Runners, run[p].pending # <<>>, NEW f \in BOOLEAN, OnFrom(p, f)
  PROVE  /\ run' \in [Runners -> Runs] /\ \A q \in Runners : Placed(run'[q])
         /\ excuses' \in Nat
<1> DEFINE rest == Tail(run[p].pending)
           fail == run[p].failed \/ f
           r == [run[p] EXCEPT !.at = "check", !.pending = rest, !.failed = fail]
<1>1. run[p] \in Runs /\ rest \in Seq(Sources) /\ fail \in BOOLEAN /\ "check" \in Points
  BY RunHas DEF Runs, Points
<1> HIDE DEF rest, fail
<1>2. r \in Runs /\ r.at = "check" /\ r.pending = rest
  BY <1>1 DEF Runs
<1>3. rest # <<>> => Placed(r)
  BY <1>2 DEF Placed
<1> HIDE DEF r
<1>4. \/ rest # <<>> /\ run' = [run EXCEPT ![p] = r]
      \/ run' = [run EXCEPT ![p] = Idle]
  BY DEF OnFrom, Becomes, r, rest, fail
<1>5. excuses' \in Nat
  BY DEF OnFrom, TypeInv, TypeOK
<1> QED
  BY <1>2, <1>3, <1>4, <1>5, IdleIsRun, RunTypes

\* A step of the end of a run.
LEMMA EndTypes ==
  ASSUME TypeInv, NEW p \in Runners, EndStages(p) \/ Check(p) \/ WriteTmp(p) \/ Place(p) \/ FlushFails(p)
  PROVE  TypeInv'
<1>0. run[p] \in Runs /\ Placed(run[p])
  BY RunHas
<1>1. CASE EndStages(p)
  <2> DEFINE r == [run[p] EXCEPT !.at = "check"]
  <2>1. r \in Runs /\ run[p].pending # <<>> => Placed(r)
    BY <1>0 DEF Runs, Points, Placed
  <2>2. r \in Runs
    BY <1>0 DEF Runs, Points
  <2>3. run' \in [Runners -> Runs] /\ \A q \in Runners : Placed(run'[q])
    BY <1>1, <2>1, <2>2, IdleIsRun, RunTypes DEF EndStages, Becomes
  <2>4. excuses' \in Nat
    BY <1>1 DEF EndStages, TypeInv, TypeOK
  <2> QED
    BY <1>1, <2>3, <2>4 DEF EndStages, TypeInv, TypeOK, upstream, files
<1>2. CASE Check(p)
  <2> DEFINE r == [run[p] EXCEPT !.at = "write"]
  <2>1. run[p].pending # <<>>
    BY <1>0, <1>2 DEF Check, Placed
  <2>2. r \in Runs /\ Placed(r)
    BY <1>0, <2>1 DEF Runs, Points, Placed
  <2>3. /\ run' \in [Runners -> Runs] /\ \A q \in Runners : Placed(run'[q])
        /\ excuses' \in Nat
    <3>1. CASE Becomes(p, r) /\ UNCHANGED excuses
      BY <2>2, <3>1, RunTypes DEF Becomes, TypeInv, TypeOK
    <3>2. CASE OnFrom(p, TRUE)
      BY <2>1, <3>2, OnFromTypes
    <3> QED
      BY <1>2, <3>1, <3>2 DEF Check
  <2> QED
    BY <1>2, <2>3 DEF Check, TypeInv, TypeOK, upstream, files
<1>3. CASE WriteTmp(p)
  <2> DEFINE s == Head(run[p].pending)
             r == [run[p] EXCEPT !.at = "place"]
  <2>1. run[p].pending # <<>> /\ s \in Sources /\ run[p].next[s] \in Texts
    BY <1>0, <1>3, RunHas DEF WriteTmp, Placed, Runs
  <2>2. r \in Runs /\ Placed(r)
    BY <1>0, <2>1 DEF Runs, Points, Placed
  <2>3. run' \in [Runners -> Runs] /\ \A q \in Runners : Placed(run'[q])
    BY <1>3, <2>2, RunTypes DEF WriteTmp, Becomes
  <2>4. tmp' \in [Sources -> Texts]
    BY <1>3, <2>1 DEF WriteTmp, TypeInv, TypeOK
  <2> QED
    BY <1>3, <2>3, <2>4 DEF WriteTmp, TypeInv, TypeOK, upstream, files
<1>4. CASE Place(p)
  <2> DEFINE s == Head(run[p].pending)
  <2>1. run[p].pending # <<>> /\ s \in Sources
    BY <1>0, <1>4, RunHas DEF Place, Placed
  <2>2. tmp[s] \in Texts /\ NoFile \in Texts
    BY <2>1, TextsAre DEF TypeInv, TypeOK
  <2>3. state' \in [Sources -> Texts] /\ tmp' \in [Sources -> Texts]
    BY <1>4, <2>1, <2>2 DEF Place, TypeInv, TypeOK
  <2>4. /\ run' \in [Runners -> Runs] /\ \A q \in Runners : Placed(run'[q])
        /\ excuses' \in Nat
    BY <1>4, <2>1, OnFromTypes DEF Place
  <2> QED
    BY <1>4, <2>3, <2>4 DEF Place, TypeInv, TypeOK, upstream, files
<1>5. CASE FlushFails(p)
  <2> DEFINE s == Head(run[p].pending)
  <2>1. run[p].pending # <<>> /\ s \in Sources
    BY <1>0, <1>5, RunHas DEF FlushFails, Placed
  <2>2. tmp' \in [Sources -> Texts]
    BY <1>5, <2>1, TextsAre DEF FlushFails, TypeInv, TypeOK
  <2>3. /\ run' \in [Runners -> Runs] /\ \A q \in Runners : Placed(run'[q])
        /\ excuses' \in Nat
    BY <1>5, <2>1, OnFromTypes DEF FlushFails
  <2>4. left' \in [Kinds -> Nat]
    BY <1>5, SpendTypes DEF FlushFails, Mishaps, TypeInv, TypeOK
  <2> QED
    BY <1>5, <2>2, <2>3, <2>4 DEF FlushFails, TypeInv, TypeOK, upstream, files
<1> QED
  BY <1>1, <1>2, <1>3, <1>4, <1>5

\* A run begins, or something happens to it.
LEMMA MishapTypes ==
  ASSUME TypeInv, NEW p \in Runners,
         Start(p) \/ AskCancel(p) \/ FailAttempt(p) \/ PublishFails(p) \/ Kill(p)
  PROVE  TypeInv'
<1>0. run[p] \in Runs /\ Placed(run[p]) /\ left \in [Kinds -> Nat]
  BY RunHas DEF TypeInv, TypeOK
<1> USE DEF Becomes
<1>1. CASE Start(p)
  <2>1. Making \o Taking \in Seq(Stages) /\ \A t \in Stages : Toward(t) \in Seq(Stages)
    <3>1. Making \o Taking \in Seq(Stages)
      BY Constants, ConcatProperties
    <3>2. ASSUME NEW t \in Stages PROVE Toward(t) \in Seq(Stages)
      <4>1. CASE t \in Sources
        BY <4>1, Constants DEF Toward
      <4>2. CASE t = Limited
        BY <4>2, Constants DEF Toward
      <4>3. CASE t \in Sinks
        <5>1. Toward(t) = Append(Making, t)
          BY <4>3, Constants DEF Toward
        <5> QED
          BY <5>1, Constants, <4>3
      <4> QED
        BY <3>2, <4>1, <4>2, <4>3 DEF Stages
    <3> QED
      BY <3>1, <3>2
  <2>2. \A q \in Seq(Stages) :
          LET r == [Idle EXCEPT !.at = "stage", !.todo = q] IN r \in Runs /\ Placed(r)
    BY IdleIsRun DEF Runs, Points, Placed
  <2>3. \A q \in Seq(Stages) :
          LET r == [Idle EXCEPT !.at = "stage", !.todo = q, !.whole = FALSE]
          IN  r \in Runs /\ Placed(r)
    BY IdleIsRun DEF Runs, Points, Placed
  <2>4. run' \in [Runners -> Runs] /\ \A q \in Runners : Placed(run'[q])
    <3>1. CASE run' = [run EXCEPT ![p] = [Idle EXCEPT !.at = "stage", !.todo = Making \o Taking]]
      BY <2>1, <2>2, <3>1, RunTypes
    <3>2. ASSUME NEW t \in Stages,
                 run' = [run EXCEPT ![p] = [Idle EXCEPT !.at = "stage", !.todo = Toward(t), !.whole = FALSE]]
          PROVE  run' \in [Runners -> Runs] /\ \A q \in Runners : Placed(run'[q])
      BY <2>1, <2>3, <3>2, RunTypes
    <3> QED
      BY <1>1, <3>1, <3>2 DEF Start
  <2>5. left' \in [Kinds -> Nat]
    BY <1>0, <1>1, SpendTypes DEF Start, Mishaps
  <2> QED
    BY <1>1, <2>4, <2>5 DEF Start, TypeInv, TypeOK, upstream, files
<1>2. CASE AskCancel(p)
  <2> DEFINE r == [run[p] EXCEPT !.cancel = TRUE]
  <2>1. r \in Runs /\ Placed(r)
    BY <1>0 DEF Runs, Placed
  <2>2. run' \in [Runners -> Runs] /\ \A q \in Runners : Placed(run'[q])
    BY <1>2, <2>1, RunTypes DEF AskCancel
  <2>3. left' \in [Kinds -> Nat]
    BY <1>0, <1>2, SpendTypes DEF AskCancel, Mishaps
  <2> QED
    BY <1>2, <2>2, <2>3 DEF AskCancel, TypeInv, TypeOK, upstream, files
<1>3. CASE FailAttempt(p)
  <2> DEFINE r == [run[p] EXCEPT !.at = "stage", !.tries = @ + 1]
  <2>1. run[p].tries + 1 < MaxTries => r \in Runs /\ Placed(r)
    <3> SUFFICES ASSUME run[p].tries + 1 < MaxTries PROVE r \in Runs /\ Placed(r)
      OBVIOUS
    <3>1. run[p].tries + 1 \in 0..(MaxTries - 1) /\ "stage" \in Points
      BY <1>0, Constants DEF Runs, Points
    <3>2. r \in Runs /\ r.at = "stage"
      BY <1>0, <3>1 DEF Runs
    <3> QED
      BY <3>2 DEF Placed
  <2>2. Fails(run[p]) \in Runs /\ Placed(Fails(run[p]))
    BY <1>0, <1>3, FailsTypes DEF FailAttempt
  <2>3. run' \in [Runners -> Runs] /\ \A q \in Runners : Placed(run'[q])
    BY <1>3, <2>1, <2>2, RunTypes DEF FailAttempt
  <2>4. left' \in [Kinds -> Nat]
    BY <1>0, <1>3, SpendTypes DEF FailAttempt, Mishaps
  <2> QED
    BY <1>3, <2>3, <2>4 DEF FailAttempt, TypeInv, TypeOK, upstream, files
<1>4. CASE PublishFails(p)
  <2> DEFINE k == Head(run[p].todo)
             n == Least(run[p].len, Len(out[k]))
  <2>1. run[p].todo # <<>> /\ k \in Sinks
    BY <1>0, <1>4 DEF PublishFails, Placed
  <2>2. Fails(run[p]) \in Runs /\ Placed(Fails(run[p]))
    BY <1>0, <2>1, FailsTypes
  <2>3. run' \in [Runners -> Runs] /\ \A q \in Runners : Placed(run'[q])
    BY <1>4, <2>2, RunTypes DEF PublishFails
  <2>4. left' \in [Kinds -> Nat]
    BY <1>0, <1>4, SpendTypes DEF PublishFails, Mishaps
  <2>5. out[k] \in Seq(SUBSET Rows) /\ run[p].len \in Nat
    BY <1>0, <2>1 DEF Runs, TypeInv, TypeOK
  <2>6. n \in 0..Len(out[k])
    BY <2>5, LenProperties DEF Least
  <2>7. SubSeq(out[k], 1, n) \in Seq(SUBSET Rows)
    BY <2>5, <2>6, SubSeqProperties
  <2>8. out' \in [Sinks -> Seq(SUBSET Rows)]
    BY <1>4, <2>1, <2>7 DEF PublishFails, TypeInv, TypeOK
  <2> QED
    BY <1>4, <2>3, <2>4, <2>8 DEF PublishFails, TypeInv, TypeOK, upstream
<1>5. CASE Kill(p)
  <2> DEFINE k == Head(run[p].todo)
  <2>1. run' \in [Runners -> Runs] /\ \A q \in Runners : Placed(run'[q])
    BY <1>5, IdleIsRun, RunTypes DEF Kill
  <2>2. left' \in [Kinds -> Nat]
    BY <1>0, <1>5, SpendTypes DEF Kill, Mishaps
  <2>3. out' \in [Sinks -> Seq(SUBSET Rows)]
    <3>1. CASE run[p].at = "append"
      <4>1. k \in Sinks /\ out[k] \in Seq(SUBSET Rows) /\ run[p].grab \subseteq Rows
        BY <1>0, <3>1 DEF Placed, Runs, TypeInv, TypeOK
      <4>2. PICK part \in SUBSET run[p].grab : out' = [out EXCEPT ![k] = Behind(@, part)]
        BY <1>5, <3>1 DEF Kill
      <4>3. Behind(out[k], part) \in Seq(SUBSET Rows)
        BY <4>1, BehindTypes
      <4> QED
        BY <4>1, <4>2, <4>3 DEF TypeInv, TypeOK
    <3>2. CASE run[p].at # "append"
      BY <1>5, <3>2 DEF Kill, TypeInv, TypeOK
    <3> QED
      BY <3>1, <3>2
  <2> QED
    BY <1>5, <2>1, <2>2, <2>3 DEF Kill, TypeInv, TypeOK, upstream
<1> QED
  BY <1>1, <1>2, <1>3, <1>4, <1>5

\* A step of the world.
LEMMA WorldTypes ==
  ASSUME TypeInv,
         \/ \E s \in Sources : Arrive(s) \/ Clear(s)
         \/ \E s \in Marks, v \in 0..MaxRow : BeginEdit(s, v)
         \/ EndEdit \/ EditDies
  PROVE  TypeInv'
<1>0. left \in [Kinds -> Nat] /\ verb \in Verbs
  BY DEF TypeInv, TypeOK
<1>1. ASSUME NEW s \in Sources, Arrive(s) PROVE TypeInv'
  <2>1. feed' \in [Sources -> 0..MaxRow]
    BY <1>1, Constants DEF Arrive, TypeInv, TypeOK
  <2>2. UNCHANGED <<slot, state, tmp, files, run, verb, left, waived, excuses>>
    BY <1>1 DEF Arrive
  <2> QED
    BY <2>1, <2>2 DEF TypeInv, TypeOK, files
<1>2. ASSUME NEW s \in Sources, Clear(s) PROVE TypeInv'
  <2>1. left' \in [Kinds -> Nat] /\ state' \in [Sources -> Texts] /\ excuses' \in Nat
    BY <1>0, <1>2, SpendTypes, TextsAre DEF Clear, Mishaps, TypeInv, TypeOK
  <2> QED
    BY <1>2, <2>1 DEF Clear, TypeInv, TypeOK, upstream, files
<1>3. ASSUME NEW s \in Marks, NEW v \in 0..MaxRow, BeginEdit(s, v) PROVE TypeInv'
  <2>1. left' \in [Kinds -> Nat] /\ state' \in [Sources -> Texts] /\ excuses' \in Nat
    <3>1. left' \in [Kinds -> Nat]
      BY <1>0, <1>3, SpendTypes DEF BeginEdit, Mishaps
    <3>2. state' \in [Sources -> Texts]
      BY <1>3, TextsAre DEF BeginEdit, TypeInv, TypeOK
    <3>3. excuses' \in Nat
      BY <1>3 DEF BeginEdit, TypeInv, TypeOK
    <3> QED
      BY <3>1, <3>2, <3>3
  <2>2. verb' \in Verbs
    BY <1>3 DEF BeginEdit, Verbs
  <2>3. waived' \subseteq Rows
    BY <1>3, Constants DEF BeginEdit, Window, Rows, TypeInv, TypeOK
  <2> QED
    BY <1>3, <2>1, <2>2, <2>3 DEF BeginEdit, TypeInv, TypeOK, upstream, files
<1>4. CASE EndEdit
  <2>1. verb' \in Verbs
    BY <1>4 DEF EndEdit, Verbs
  <2>2. verb.node \in Marks /\ verb.to \in 0..MaxRow
    <3>1. verb # NoVerb
      BY <1>4 DEF EndEdit, NoVerb
    <3> QED
      BY <1>0, <3>1 DEF Verbs
  <2>3. state' \in [Sources -> Texts]
    BY <1>4, <2>2, Constants, TextsAre DEF EndEdit, TypeInv, TypeOK
  <2> QED
    BY <1>4, <2>1, <2>3 DEF EndEdit, TypeInv, TypeOK, upstream, files
<1>5. CASE EditDies
  <2>1. verb' \in Verbs
    BY <1>5 DEF EditDies, Verbs
  <2>2. "kill" \in Kinds
    BY DEF Kinds, Mishaps
  <2>3. left' \in [Kinds -> Nat]
    BY <1>0, <1>5, <2>2 DEF EditDies
  <2> QED
    BY <1>5, <2>1, <2>3 DEF EditDies, TypeInv, TypeOK, upstream, files
<1> QED
  BY <1>1, <1>2, <1>3, <1>4, <1>5

LEMMA StepTypes == TypeInv /\ [Next]_vars => TypeInv'
<1> SUFFICES ASSUME TypeInv, [Next]_vars PROVE TypeInv'
  OBVIOUS
<1>1. ASSUME NEW p \in Runners, RunStep(p) PROVE TypeInv'
  BY <1>1, QuietTypes, SinkTypes, EndTypes DEF RunStep
<1>2. ASSUME NEW p \in Runners,
             Start(p) \/ AskCancel(p) \/ FailAttempt(p) \/ PublishFails(p) \/ FlushFails(p) \/ Kill(p)
      PROVE  TypeInv'
  BY <1>2, MishapTypes, EndTypes
<1>3. CASE UNCHANGED vars
  BY <1>3 DEF vars, TypeInv, TypeOK
<1> QED
  BY <1>1, <1>2, <1>3, WorldTypes DEF Next

\* The types of the files, of the runs and of the position of each source hold,
\* for any number of runs beside one another.
THEOREM TypeCorrect == Spec => []TypeOK
<1>1. Spec => []TypeInv
  BY InitTypes, StepTypes, PTL DEF Spec
<1>2. TypeInv => TypeOK
  BY DEF TypeInv
<1> QED
  BY <1>1, <1>2, PTL

-----------------------------------------------------------------------------
(* The inductive invariant.                                                *)

\* What a lock of the pipeline would say of its runs.
Alone == \A p, q \in Runners : p = q

\* The rows in the file of a sink.
In(o, k)    == UNION {o[k][i] : i \in DOMAIN o[k]}
Grows(o, n) == \A k \in Sinks : In(o, k) \subseteq In(n, k)

\* A position that skips nothing.
Safe(s, n, o, w) == \A k \in Sinks : Window(s, 0, n) \ w \subseteq In(o, k)

Waits(k, q) == \E i \in DOMAIN q : q[i] = k
\* What a source reads has every sink still before it.
Ordered(q) ==
  \A i \in DOMAIN q : q[i] \in Sources => \A k \in Sinks : \E j \in DOMAIN q : j > i /\ q[j] = k

\* What a run goes to write is in the sinks, or in its hands.
Covers(r, o, w) ==
  \A s \in Sources, k \in Sinks : Window(s, 0, r.next[s]) \ w \subseteq In(o, k) \cup r.rows
\* As long as all goes well, a sink has what the run has read, or is yet to come.
Feeds(r, o) == Writes(r) => \A k \in Sinks : Waits(k, r.todo) \/ r.rows \subseteq In(o, k)
Follows(r)  == Writes(r) => Ordered(r.todo)
Core(r, o, w) == Covers(r, o, w) /\ Feeds(r, o) /\ Follows(r)

\* What is staged is what the run has read.
Staging(r, st, o) ==
  LET k == Head(r.todo)
  IN  /\ r.at \in {"publish", "rename", "append"} => st[k] = [there |-> TRUE, rows |-> r.rows]
      /\ r.at = "rename" => o[k] = <<>>
      /\ r.at = "append" => r.grab = r.rows /\ r.len = Len(o[k])
\* A run that writes positions has delivered.
Flushes(r, o, t) ==
  /\ r.at \in {"check", "write", "place"} => \A k \in Sinks : r.rows \subseteq In(o, k)
  /\ r.at = "place" => t[Head(r.pending)] = r.next[Head(r.pending)]

Good(r, st, o, t, w) == Core(r, o, w) /\ Staging(r, st, o) /\ Flushes(r, o, t)

\* No position on disk, of a slot or in the hand of an operator skips a row.
Passed ==
  \A s \in Sources : /\ Safe(s, Saved(state[s]), out, waived)
                     /\ s \in Slots => Safe(s, slot[s], out, waived)
Edits == verb.on => Window(verb.node, 0, verb.to) \subseteq waived

Inv == /\ TypeInv /\ Passed /\ Edits
       /\ \A p \in Runners : Good(run[p], staged, out, tmp, waived)

LEMMA InvImplies == Inv => NoRowSkipped
<1> SUFFICES ASSUME Inv, NEW s \in Sources, NEW k \in Sinks
             PROVE  Window(s, 0, Past(s)) \ waived \subseteq Delivered(k)
  BY DEF NoRowSkipped
<1>1. Delivered(k) = In(out, k)
  BY DEF Delivered, In
<1>2. /\ Window(s, 0, Saved(state[s])) \ waived \subseteq In(out, k)
      /\ s \in Slots => Window(s, 0, slot[s]) \ waived \subseteq In(out, k)
  BY DEF Inv, Passed, Safe
<1>3. Past(s) \in {Saved(state[s]), IF s \in Slots THEN slot[s] ELSE 0}
  BY DEF Past, Greatest
<1>4. Window(s, 0, 0) = {}
  BY DEF Window
<1> QED
  BY <1>1, <1>2, <1>3, <1>4

LEMMA InitInv == Init => Inv
<1> SUFFICES ASSUME Init PROVE Inv
  OBVIOUS
<1>1. \A s : Window(s, 0, 0) = {} /\ Window(s, 0, NoFile) = {}
  BY DEF Window, NoFile
<1>2. Passed
  <2>1. \A s \in Sources : Saved(state[s]) = 0 /\ (s \in Slots => slot[s] = 0)
    BY DEF Init, Saved, Greatest, NoFile
  <2> QED
    BY <1>1, <2>1 DEF Passed, Safe
<1>3. Edits
  BY DEF Init, NoVerb, Edits
<1>4. ASSUME NEW p \in Runners PROVE Good(run[p], staged, out, tmp, waived)
  <2>1. run[p] = Idle
    BY DEF Init
  <2>2. Core(Idle, out, waived)
    BY <1>1 DEF Core, Covers, Feeds, Follows, Ordered, Idle
  <2> QED
    BY <2>1, <2>2 DEF Good, Staging, Flushes, Idle
<1> QED
  BY <1>2, <1>3, <1>4, InitTypes DEF Inv

-----------------------------------------------------------------------------
(* What a step does to what a run has in hand.                             *)

\* An idle run has nothing.
LEMMA IdleGood ==
  ASSUME NEW st, NEW o, NEW t, NEW w
  PROVE  Good(Idle, st, o, t, w)
<1>1. \A s : Window(s, 0, NoFile) = {}
  BY DEF Window, NoFile
<1> QED
  BY <1>1 DEF Good, Core, Covers, Feeds, Follows, Ordered, Staging, Flushes, Idle

\* A run that has read no more, and does no better, has what it had.
LEMMA CoreAlike ==
  ASSUME NEW r, NEW n, NEW o, NEW w, NEW o2, NEW w2, Core(r, o, w), Grows(o, o2), w \subseteq w2,
         n.rows = r.rows, n.next = r.next, Writes(n) => Writes(r) /\ n.todo = r.todo
  PROVE  Core(n, o2, w2)
<1>1. Covers(n, o2, w2)
  BY DEF Core, Covers, Grows
<1>2. Feeds(n, o2)
  BY DEF Core, Feeds, Grows
<1>3. Follows(n)
  BY DEF Core, Follows
<1> QED
  BY <1>1, <1>2, <1>3 DEF Core

LEMMA GrowsRefl == \A o : Grows(o, o)
  BY DEF Grows

\* The list of stages without its first.
LEMMA TailOrdered ==
  ASSUME NEW q \in Seq(Stages), q # <<>>, Ordered(q)
  PROVE  /\ Ordered(Tail(q))
         /\ Head(q) \in Sources => \A k \in Sinks : Waits(k, Tail(q))
         /\ \A k : Waits(k, q) => Waits(k, Tail(q)) \/ k = Head(q)
<1>1. /\ Head(q) = q[1] /\ Len(q) \in Nat \ {0} /\ DOMAIN q = 1..Len(q)
      /\ DOMAIN Tail(q) = 1..(Len(q) - 1) /\ \A i \in 1..(Len(q) - 1) : Tail(q)[i] = q[i + 1]
  BY HeadTail
<1>2. \A j \in DOMAIN q : j > 1 => j - 1 \in DOMAIN Tail(q) /\ Tail(q)[j - 1] = q[j]
  BY <1>1
<1>3. Ordered(Tail(q))
  <2> SUFFICES ASSUME NEW i \in DOMAIN Tail(q), Tail(q)[i] \in Sources, NEW k \in Sinks
               PROVE  \E j \in DOMAIN Tail(q) : j > i /\ Tail(q)[j] = k
    BY DEF Ordered
  <2>1. i + 1 \in DOMAIN q /\ q[i + 1] \in Sources /\ i \in Nat
    BY <1>1
  <2>2. PICK j \in DOMAIN q : j > i + 1 /\ q[j] = k
    BY <2>1 DEF Ordered
  <2>3. j - 1 \in DOMAIN Tail(q) /\ j - 1 > i /\ Tail(q)[j - 1] = k
    BY <1>1, <1>2, <2>1, <2>2
  <2> QED
    BY <2>3
<1>4. Head(q) \in Sources => \A k \in Sinks : Waits(k, Tail(q))
  <2> SUFFICES ASSUME Head(q) \in Sources, NEW k \in Sinks PROVE Waits(k, Tail(q))
    OBVIOUS
  <2>1. 1 \in DOMAIN q
    BY <1>1
  <2>2. PICK j \in DOMAIN q : j > 1 /\ q[j] = k
    BY <1>1, <2>1 DEF Ordered
  <2> QED
    BY <1>2, <2>2 DEF Waits
<1>5. ASSUME NEW k, Waits(k, q) PROVE Waits(k, Tail(q)) \/ k = Head(q)
  <2>1. PICK j \in DOMAIN q : q[j] = k
    BY <1>5 DEF Waits
  <2> QED
    BY <1>1, <1>2, <2>1 DEF Waits
<1> QED
  BY <1>3, <1>4, <1>5

\* A stage is done with: a sink has what the run has read.
LEMMA DoneGood ==
  ASSUME NEW r \in Runs, r.todo # <<>>, NEW st, NEW o, NEW o2, NEW t, NEW w, NEW w2,
         Core(r, o, w), Grows(o, o2), w \subseteq w2,
         Head(r.todo) \notin Sinks \/ r.rows \subseteq In(o2, Head(r.todo))
  PROVE  Good(Done(r), st, o2, t, w2)
<1> DEFINE d == Done(r)
<1>1. /\ d.at = "stage" /\ d.todo = Tail(r.todo) /\ d.rows = r.rows /\ d.next = r.next
      /\ d.failed = r.failed /\ d.short = r.short /\ d.whole = r.whole
  BY DEF Done, Runs
<1>2. r.todo \in Seq(Stages) /\ (Writes(d) => Writes(r))
  BY <1>1 DEF Runs, Writes
<1> HIDE DEF d
<1>3. Covers(d, o2, w2)
  BY <1>1 DEF Core, Covers, Grows
<1>4. Feeds(d, o2)
  <2> SUFFICES ASSUME Writes(d), NEW k \in Sinks
               PROVE  Waits(k, d.todo) \/ d.rows \subseteq In(o2, k)
    BY DEF Feeds
  <2>1. Waits(k, r.todo) \/ r.rows \subseteq In(o, k)
    BY <1>2 DEF Core, Feeds
  <2>2. Waits(k, r.todo) => Waits(k, Tail(r.todo)) \/ k = Head(r.todo)
    BY <1>2, TailOrdered DEF Core, Follows
  <2> QED
    BY <1>1, <2>1, <2>2 DEF Grows
<1>5. Follows(d)
  BY <1>1, <1>2, TailOrdered DEF Core, Follows
<1> QED
  BY <1>1, <1>3, <1>4, <1>5 DEF Good, Core, Staging, Flushes, d

\* A run that goes wrong.
LEMMA LostGood ==
  ASSUME NEW r, NEW n, NEW st, NEW o, NEW o2, NEW t, NEW w, NEW w2,
         Core(r, o, w), Grows(o, o2), w \subseteq w2,
         n.rows = r.rows, n.next = r.next, ~Writes(n), n.at = "stage"
  PROVE  Good(n, st, o2, t, w2)
<1>1. Core(n, o2, w2)
  BY CoreAlike
<1> QED
  BY <1>1 DEF Good, Staging, Flushes

LEMMA FailsIs ==
  ASSUME NEW r \in Runs
  PROVE  /\ Fails(r).rows = r.rows /\ Fails(r).next = r.next /\ ~Writes(Fails(r))
         /\ Fails(r).at = "stage"
  BY DEF Fails, Done, Break, Writes, Runs

\* A source is read, from a position that skips nothing.
LEMMA LoadedGood ==
  ASSUME NEW r \in Runs, r.todo # <<>>, NEW s \in Sources, s = Head(r.todo),
         NEW a \in Nat, NEW b \in 0..MaxRow, NEW st, NEW o, NEW t, NEW w,
         Core(r, o, w), Safe(s, a, o, w)
  PROVE  Good(Loaded(r, s, a, b), st, o, t, w)
<1> DEFINE l == Loaded(r, s, a, b)
<1>1. /\ l.at = "stage" /\ l.todo = Tail(r.todo) /\ l.rows = r.rows \cup Window(s, a, b)
      /\ l.failed = r.failed /\ l.short = r.short /\ l.whole = r.whole
  BY DEF Loaded, Done, Runs
<1>2. l.next = IF a < b THEN [r.next EXCEPT ![s] = b] ELSE r.next
  BY DEF Loaded, Done, Runs
<1>3. r.todo \in Seq(Stages) /\ (Writes(l) => Writes(r)) /\ r.next \in [Sources -> Texts]
  BY <1>1 DEF Runs, Writes
<1> HIDE DEF l
<1>4. Covers(l, o, w)
  <2> SUFFICES ASSUME NEW x \in Sources, NEW k \in Sinks, NEW e \in Window(x, 0, l.next[x]), e \notin w
               PROVE  e \in In(o, k) \cup l.rows
    BY DEF Covers
  <2>1. CASE a < b /\ x = s
    <3>1. l.next[x] = b
      BY <1>2, <1>3, <2>1
    <3>2. e \in Window(s, 0, a) \cup Window(s, a, b)
      BY <2>1, <3>1 DEF Window
    <3> QED
      BY <1>1, <3>2 DEF Safe
  <2>2. CASE ~(a < b /\ x = s)
    <3>1. l.next[x] = r.next[x]
      BY <1>2, <1>3, <2>2
    <3> QED
      BY <1>1, <3>1 DEF Core, Covers
  <2> QED
    BY <2>1, <2>2
<1>5. Feeds(l, o)
  BY <1>1, <1>3, TailOrdered DEF Core, Feeds, Follows
<1>6. Follows(l)
  BY <1>1, <1>3, TailOrdered DEF Core, Follows
<1> QED
  BY <1>1, <1>4, <1>5, <1>6 DEF Good, Core, Staging, Flushes, l

\* What there is in a file after a chunk is written behind it.
LEMMA BehindIn ==
  ASSUME NEW f \in Seq(SUBSET Rows), NEW c \in SUBSET Rows
  PROVE  UNION {Behind(f, c)[i] : i \in DOMAIN Behind(f, c)} = (UNION {f[i] : i \in DOMAIN f}) \cup c
<1>1. CASE c = {}
  BY <1>1 DEF Behind
<1>2. CASE c # {}
  <2> DEFINE g == Append(f, c)
  <2>1. /\ DOMAIN f = 1..Len(f) /\ Len(f) \in Nat /\ DOMAIN g = 1..(Len(f) + 1)
        /\ \A i \in 1..Len(f) : g[i] = f[i]
        /\ g[Len(f) + 1] = c
    BY AppendProperties, LenProperties
  <2> HIDE DEF g
  <2>2. UNION {g[i] : i \in DOMAIN g} = (UNION {f[i] : i \in DOMAIN f}) \cup c
    <3>1. ASSUME NEW i \in DOMAIN g PROVE g[i] \subseteq (UNION {f[j] : j \in DOMAIN f}) \cup c
      BY <2>1
    <3>2. ASSUME NEW i \in DOMAIN f PROVE f[i] \subseteq UNION {g[j] : j \in DOMAIN g}
      <4>1. i \in DOMAIN g /\ g[i] = f[i]
        BY <2>1
      <4> QED
        BY <4>1
    <3>3. c \subseteq UNION {g[j] : j \in DOMAIN g}
      <4>1. Len(f) + 1 \in DOMAIN g
        BY <2>1
      <4> QED
        BY <2>1, <4>1
    <3> QED
      BY <3>1, <3>2, <3>3
  <2> QED
    BY <1>2, <2>2 DEF Behind, g
<1> QED
  BY <1>1, <1>2

LEMMA WriteGrows ==
  ASSUME NEW o \in [Sinks -> Seq(SUBSET Rows)], NEW k \in Sinks, NEW c \in SUBSET Rows,
         NEW o2, o2 = [o EXCEPT ![k] = Behind(o[k], c)]
  PROVE  Grows(o, o2) /\ c \subseteq In(o2, k)
<1>1. o2[k] = Behind(o[k], c) /\ \A j \in Sinks \ {k} : o2[j] = o[j]
  OBVIOUS
<1>2. In(o2, k) = In(o, k) \cup c
  <2>1. UNION {Behind(o[k], c)[i] : i \in DOMAIN Behind(o[k], c)} = (UNION {o[k][i] : i \in DOMAIN o[k]}) \cup c
    <3>1. o[k] \in Seq(SUBSET Rows)
      OBVIOUS
    <3> QED
      BY <3>1, BehindIn
  <2>2. In(o2, k) = UNION {Behind(o[k], c)[i] : i \in DOMAIN Behind(o[k], c)}
    BY <1>1 DEF In
  <2> QED
    BY <2>1, <2>2 DEF In
<1>3. \A j \in Sinks \ {k} : In(o2, j) = In(o, j)
  BY <1>1 DEF In
<1> QED
  BY <1>2, <1>3 DEF Grows

\* With one run at a time, what is good for the run that moves is good for all.
LEMMA AloneKeeps ==
  ASSUME Alone, NEW p \in Runners, TypeInv', Passed', Edits',
         Good(run'[p], staged', out', tmp', waived')
  PROVE  Inv'
  BY DEF Alone, Inv

LEMMA PassedGrows ==
  ASSUME Passed, Grows(out, out'), waived \subseteq waived', UNCHANGED <<state, slot>>
  PROVE  Passed'
  BY DEF Passed, Safe, Grows

\* On to the next position: what was delivered stays so.
LEMMA OnFromGood ==
  ASSUME NEW p \in Runners, run[p] \in Runs, p \in DOMAIN run, NEW f \in BOOLEAN, OnFrom(p, f),
         NEW st, NEW o, NEW t, NEW w, Core(run[p], o, w),
         \A k \in Sinks : run[p].rows \subseteq In(o, k)
  PROVE  Good(run'[p], st, o, t, w)
<1> DEFINE r == run[p]
           n == [r EXCEPT !.at = "check", !.pending = Tail(r.pending), !.failed = r.failed \/ f]
<1>1. /\ n.rows = r.rows /\ n.next = r.next /\ n.todo = r.todo /\ n.at = "check"
      /\ Writes(n) => Writes(r)
  BY DEF Runs, Writes
<1>2. run'[p] \in {n, Idle}
  BY DEF OnFrom, Becomes
<1> HIDE DEF n
<1>3. Core(n, o, w)
  BY <1>1, CoreAlike, GrowsRefl
<1>4. Good(n, st, o, t, w)
  BY <1>1, <1>3 DEF Good, Staging, Flushes
<1> QED
  BY <1>2, <1>4, IdleGood

-----------------------------------------------------------------------------
(* Each step keeps the invariant.                                          *)

\* A step that leaves alone what is outside the run.
LEMMA QuietInv ==
  ASSUME Alone, Inv, NEW p \in Runners, TypeInv',
         \/ Start(p) \/ AskCancel(p) \/ SeeCancel(p) \/ FailAttempt(p) \/ ReadPrior(p)
         \/ ReadMarked(p) \/ Peek(p) \/ Limit(p) \/ Publish(p) \/ EndStages(p)
         \/ Check(p)
  PROVE  Inv'
<1> DEFINE r == run[p]
<1>1. UNCHANGED <<slot, state, tmp, staged, out, verb, waived>>
  BY DEF Start, AskCancel, SeeCancel, FailAttempt, ReadPrior, ReadMarked, Peek, Limit, Publish,
         EndStages, Check, upstream, files
<1>2. r \in Runs /\ Placed(r) /\ Good(r, staged, out, tmp, waived) /\ Core(r, out, waived)
  BY RunHas DEF Inv, Good
<1>3. Grows(out, out) /\ p \in DOMAIN run
  BY GrowsRefl DEF Inv, TypeInv, TypeOK
<1>4. \A x : run' = [run EXCEPT ![p] = x] => run'[p] = x
  BY <1>3
<1> DEFINE Fine(n) == Good(n, staged, out, tmp, waived)
<1>5. SUFFICES Fine(run'[p])
  <2>1. Passed' /\ Edits'
    BY <1>1, <1>3, PassedGrows DEF Inv, Edits
  <2> QED
    BY <1>1, <2>1, AloneKeeps
<1> USE DEF Becomes
<1>6. CASE Start(p)
  <2> DEFINE b == [Idle EXCEPT !.at = "stage", !.todo = Making \o Taking]
  <2>1. Core(Idle, out, waived)
    BY IdleGood DEF Good
  <2>2. CASE run' = [run EXCEPT ![p] = b]
    <3>1. b.rows = {} /\ b.next = Idle.next /\ b.at = "stage" /\ b.todo = Making \o Taking
      BY DEF Idle
    <3>2. Ordered(Making \o Taking)
      <4> SUFFICES ASSUME NEW i \in DOMAIN (Making \o Taking), (Making \o Taking)[i] \in Sources,
                          NEW k \in Sinks
                   PROVE  \E j \in DOMAIN (Making \o Taking) : j > i /\ (Making \o Taking)[j] = k
        BY DEF Ordered
      <4>1. /\ Len(Making) \in Nat /\ Len(Taking) \in Nat
            /\ DOMAIN (Making \o Taking) = 1..(Len(Making) + Len(Taking))
            /\ DOMAIN Taking = 1..Len(Taking)
            /\ \A j \in 1..(Len(Making) + Len(Taking)) :
                 (Making \o Taking)[j] = IF j <= Len(Making) THEN Making[j] ELSE Taking[j - Len(Making)]
        BY Constants, ConcatProperties, LenProperties
      <4>2. \A j \in 1..Len(Taking) : Taking[j] \in Sinks
        BY <4>1, PipelineAssumption
      <4>3. i <= Len(Making)
        BY <4>1, <4>2, Constants
      <4>4. PICK j \in 1..Len(Taking) : Taking[j] = k
        BY <4>1, PipelineAssumption
      <4>5. /\ Len(Making) + j \in DOMAIN (Making \o Taking) /\ Len(Making) + j > i
            /\ (Making \o Taking)[Len(Making) + j] = k
        BY <4>1, <4>3, <4>4
      <4> QED
        BY <4>5
    <3> HIDE DEF b
    <3>3. Core(b, out, waived)
      BY <2>1, <3>1, <3>2 DEF Core, Covers, Feeds, Follows, Idle
    <3> QED
      BY <1>4, <2>2, <3>1, <3>3 DEF Good, Staging, Flushes
  <2>3. ASSUME NEW t, run' = [run EXCEPT ![p] = [Idle EXCEPT !.at = "stage", !.todo = Toward(t), !.whole = FALSE]]
        PROVE  Fine(run'[p])
    <3> DEFINE b2 == [Idle EXCEPT !.at = "stage", !.todo = Toward(t), !.whole = FALSE]
    <3>1. b2.rows = Idle.rows /\ b2.next = Idle.next /\ b2.at = "stage" /\ ~Writes(b2)
      BY DEF Idle, Writes
    <3>2. run'[p] = b2
      BY <1>4, <2>3
    <3> HIDE DEF b2
    <3> QED
      BY <1>3, <2>1, <3>1, <3>2, LostGood
  <2> QED
    BY <1>6, <2>2, <2>3 DEF Start
<1>7. CASE AskCancel(p)
  <2> DEFINE n == [r EXCEPT !.cancel = TRUE]
  <2>1. /\ n.rows = r.rows /\ n.next = r.next /\ n.todo = r.todo /\ n.at = r.at /\ n.grab = r.grab
        /\ n.len = r.len /\ n.pending = r.pending /\ Writes(n) = Writes(r)
    BY <1>2 DEF Runs, Writes
  <2>2. run'[p] = n
    BY <1>4, <1>7 DEF AskCancel
  <2> HIDE DEF n
  <2>3. Core(n, out, waived)
    BY <1>2, <1>3, <2>1, CoreAlike
  <2>4. Staging(n, staged, out) /\ Flushes(n, out, tmp)
    BY <1>2, <2>1 DEF Good, Staging, Flushes
  <2> QED
    BY <2>2, <2>3, <2>4 DEF Good
<1>8. CASE SeeCancel(p)
  <2> DEFINE n == Break([r EXCEPT !.failed = TRUE])
  <2>1. n.rows = r.rows /\ n.next = r.next /\ n.at = "stage" /\ ~Writes(n)
    BY <1>2 DEF Runs, Writes, Break
  <2>2. run'[p] = n
    BY <1>4, <1>8 DEF SeeCancel
  <2> HIDE DEF n
  <2> QED
    BY <1>2, <1>3, <2>1, <2>2, LostGood
<1>9. CASE FailAttempt(p)
  <2> DEFINE n == [r EXCEPT !.at = "stage", !.tries = @ + 1]
  <2>1. /\ n.rows = r.rows /\ n.next = r.next /\ n.todo = r.todo /\ n.at = "stage"
        /\ Writes(n) = Writes(r)
    BY <1>2 DEF Runs, Writes
  <2>2. run'[p] \in {n, Fails(r)}
    BY <1>4, <1>9 DEF FailAttempt
  <2> HIDE DEF n
  <2>3. Fine(n)
    <3>1. Core(n, out, waived)
      BY <1>2, <1>3, <2>1, CoreAlike
    <3> QED
      BY <2>1, <3>1 DEF Good, Staging, Flushes
  <2>4. Fine(Fails(r))
    BY <1>2, <1>3, FailsIs, LostGood
  <2> QED
    BY <2>2, <2>3, <2>4
<1>10. CASE ReadPrior(p)
  <2> DEFINE s == Head(r.todo)
             n == [r EXCEPT !.at = "saved", !.prior[s] = state[s]]
  <2>1. /\ n.rows = r.rows /\ n.next = r.next /\ n.todo = r.todo /\ n.at = "saved"
        /\ Writes(n) = Writes(r)
    BY <1>2 DEF Runs, Writes
  <2>2. run'[p] = n
    BY <1>4, <1>10 DEF ReadPrior
  <2> HIDE DEF n
  <2>3. Core(n, out, waived)
    BY <1>2, <1>3, <2>1, CoreAlike
  <2> QED
    BY <2>1, <2>2, <2>3 DEF Good, Staging, Flushes
<1>11. CASE ReadMarked(p)
  <2> DEFINE s == Head(r.todo)
             n == [r EXCEPT !.from[s] = state[s]]
  <2>1. r.todo # <<>> /\ s \in Sources
    BY <1>2, <1>11, Constants DEF ReadMarked, Placed
  <2>2. state[s] \in Texts /\ feed[s] \in 0..MaxRow
    BY <2>1 DEF Inv, TypeInv, TypeOK
  <2>3. /\ n \in Runs /\ n.rows = r.rows /\ n.next = r.next /\ n.todo = r.todo
        /\ Writes(n) = Writes(r)
    <3>1. [r.from EXCEPT ![s] = state[s]] \in [Sources -> Texts]
      BY <1>2, <2>1, <2>2 DEF Runs
    <3> QED
      BY <1>2, <3>1 DEF Runs, Writes
  <2>4. run'[p] = Loaded(n, s, Saved(state[s]), feed[s])
    BY <1>4, <1>11 DEF ReadMarked
  <2>5. Safe(s, Saved(state[s]), out, waived)
    BY <2>1 DEF Inv, Passed
  <2> HIDE DEF n, s
  <2>6. Saved(state[s]) \in Nat
    <3>1. Saved(state[s]) \in 0..MaxRow
      BY <2>2, TextsAre
    <3> QED
      BY <3>1
  <2>7. Core(n, out, waived)
    BY <1>2, <1>3, <2>3, CoreAlike
  <2>8. n.todo # <<>> /\ s = Head(n.todo)
    BY <2>1, <2>3 DEF s
  <2> QED
    BY <2>1, <2>2, <2>3, <2>4, <2>5, <2>6, <2>7, <2>8, LoadedGood
<1>12. CASE Peek(p)
  <2> DEFINE s == Head(r.todo)
             b == Least(slot[s] + Batch, feed[s])
  <2>1. r.todo # <<>> /\ s \in Sources /\ s \in Slots
    BY <1>2, <1>12, Constants DEF Peek, Placed
  <2>2. slot[s] \in Nat /\ b \in 0..MaxRow
    BY <2>1, Constants DEF Least, Inv, TypeInv, TypeOK
  <2>3. run'[p] = Loaded(r, s, slot[s], b)
    BY <1>4, <1>12 DEF Peek
  <2>4. Safe(s, slot[s], out, waived)
    BY <2>1 DEF Inv, Passed
  <2> QED
    BY <1>2, <2>1, <2>2, <2>3, <2>4, LoadedGood
<1>13. CASE Limit(p)
  <2> DEFINE n == Break([r EXCEPT !.short = TRUE])
  <2>1. n.rows = r.rows /\ n.next = r.next /\ n.at = "stage" /\ ~Writes(n)
    BY <1>2 DEF Runs, Writes, Break
  <2>2. run'[p] \in {n, Done(r)}
    BY <1>4, <1>13 DEF Limit
  <2> HIDE DEF n
  <2>3. Fine(n)
    BY <1>2, <1>3, <2>1, LostGood
  <2>4. r.todo # <<>> /\ Head(r.todo) \notin Sinks
    BY <1>13, Constants DEF Limit, AtStage
  <2>5. Fine(Done(r))
    BY <1>2, <1>3, <2>4, DoneGood
  <2> QED
    BY <2>2, <2>3, <2>5
<1>14. CASE Publish(p)
  <2> DEFINE k == Head(r.todo)
             n == [r EXCEPT !.at = "rename"]
             e == [r EXCEPT !.at = "append", !.grab = staged[k].rows, !.len = Len(out[k])]
  <2>1. staged[k] = [there |-> TRUE, rows |-> r.rows]
    BY <1>2, <1>14 DEF Publish, Good, Staging
  <2>2. \/ out[k] = <<>> /\ run'[p] = n
        \/ run'[p] = e
    <3>1. staged[k].there
      BY <2>1
    <3>2. CASE out[k] = <<>>
      <4>1. run' = [run EXCEPT ![p] = n]
        BY <1>14, <3>1, <3>2 DEF Publish
      <4> QED
        BY <1>4, <3>2, <4>1
    <3>3. CASE out[k] # <<>>
      <4>1. run' = [run EXCEPT ![p] = e]
        BY <1>14, <3>1, <3>3 DEF Publish
      <4> QED
        BY <1>4, <4>1
    <3> QED
      BY <3>2, <3>3
  <2>3. /\ n.rows = r.rows /\ n.next = r.next /\ n.todo = r.todo /\ n.at = "rename"
        /\ Writes(n) = Writes(r)
    BY <1>2 DEF Runs, Writes
  <2>4. /\ e.rows = r.rows /\ e.next = r.next /\ e.todo = r.todo /\ e.at = "append"
        /\ e.grab = r.rows /\ e.len = Len(out[k]) /\ Writes(e) = Writes(r)
    BY <1>2, <2>1 DEF Runs, Writes
  <2> HIDE DEF n, e
  <2>5. Core(n, out, waived) /\ Core(e, out, waived)
    BY <1>2, <1>3, <2>3, <2>4, CoreAlike
  <2>6. out[k] = <<>> => Fine(n)
    BY <2>1, <2>3, <2>5 DEF Good, Staging, Flushes
  <2>7. Fine(e)
    BY <2>1, <2>4, <2>5 DEF Good, Staging, Flushes
  <2> QED
    BY <2>2, <2>6, <2>7
<1>15. CASE EndStages(p)
  <2> DEFINE n == [r EXCEPT !.at = "check"]
  <2>1. /\ n.rows = r.rows /\ n.next = r.next /\ n.todo = r.todo /\ n.at = "check"
        /\ Writes(n) = Writes(r)
    BY <1>2 DEF Runs, Writes
  <2>2. \/ Writes(r) /\ run'[p] = n
        \/ run'[p] = Idle
    BY <1>4, <1>15 DEF EndStages
  <2> HIDE DEF n
  <2>3. ASSUME Writes(r) PROVE Fine(n)
    <3>1. Core(n, out, waived)
      BY <1>2, <1>3, <2>1, CoreAlike
    <3>2. \A k : ~Waits(k, r.todo)
      BY <1>15 DEF EndStages, Waits
    <3>3. \A k \in Sinks : r.rows \subseteq In(out, k)
      BY <1>2, <2>3, <3>2 DEF Core, Feeds
    <3> QED
      BY <2>1, <3>1, <3>3 DEF Good, Staging, Flushes
  <2> QED
    BY <2>2, <2>3, IdleGood
<1>16. CASE Check(p)
  <2> DEFINE n == [r EXCEPT !.at = "write"]
  <2>1. /\ n.rows = r.rows /\ n.next = r.next /\ n.todo = r.todo /\ n.at = "write"
        /\ Writes(n) = Writes(r)
    BY <1>2 DEF Runs, Writes
  <2>2. run'[p] = n \/ OnFrom(p, TRUE)
    BY <1>4, <1>16 DEF Check
  <2> HIDE DEF n
  <2>3. \A k \in Sinks : r.rows \subseteq In(out, k)
    BY <1>2, <1>16 DEF Check, Good, Flushes
  <2>4. Fine(n)
    <3>1. Core(n, out, waived)
      BY <1>2, <1>3, <2>1, CoreAlike
    <3> QED
      BY <2>1, <2>3, <3>1 DEF Good, Staging, Flushes
  <2>5. OnFrom(p, TRUE) => Fine(run'[p])
    BY <1>2, <1>3, <2>3, OnFromGood
  <2> QED
    BY <2>2, <2>4, <2>5
<1> QED
  BY <1>6, <1>7, <1>8, <1>9, <1>10, <1>11, <1>12, <1>13, <1>14, <1>15, <1>16

\* A step of the run that writes a file.
LEMMA WritingInv ==
  ASSUME Alone, Inv, NEW p \in Runners, TypeInv',
         \/ AdvanceSlot(p) \/ CopyOut(p) \/ RenameStaged(p) \/ AppendStaged(p)
         \/ PublishFails(p) \/ WriteTmp(p) \/ Place(p) \/ FlushFails(p) \/ Kill(p)
  PROVE  Inv'
<1> DEFINE r == run[p]
<1>1. UNCHANGED <<verb, waived>>
  BY DEF AdvanceSlot, CopyOut, RenameStaged, AppendStaged, PublishFails, WriteTmp, Place, FlushFails,
         Kill
<1>2. r \in Runs /\ Placed(r) /\ Good(r, staged, out, tmp, waived) /\ Core(r, out, waived)
  BY RunHas DEF Inv, Good
<1>3. Grows(out, out) /\ p \in DOMAIN run
  BY GrowsRefl DEF Inv, TypeInv, TypeOK
<1>4. \A x : run' = [run EXCEPT ![p] = x] => run'[p] = x
  BY <1>3
<1>5. Edits'
  BY <1>1 DEF Inv, Edits
<1>6. out \in [Sinks -> Seq(SUBSET Rows)] /\ r.rows \in SUBSET Rows /\ r.grab \in SUBSET Rows
  BY <1>2 DEF Inv, TypeInv, TypeOK, Runs
<1>7. UNCHANGED <<state, slot>> /\ Grows(out, out') => Passed'
  BY <1>1, PassedGrows DEF Inv
<1> DEFINE Fine(n) == Good(n, staged', out', tmp', waived')
<1> USE DEF Becomes
<1>8. CASE AdvanceSlot(p)
  <2> DEFINE s == Head(r.todo)
             n == [r EXCEPT !.at = "peek", !.prior[s] = state[s], !.from[s] = state[s]]
  <2>1. /\ n.rows = r.rows /\ n.next = r.next /\ n.todo = r.todo /\ n.at = "peek"
        /\ Writes(n) = Writes(r)
    BY <1>2 DEF Runs, Writes
  <2>2. run'[p] = n /\ UNCHANGED <<out, staged, tmp, state>>
    BY <1>4, <1>8 DEF AdvanceSlot, files
  <2> HIDE DEF n
  <2>3. Core(n, out, waived)
    BY <1>2, <1>3, <2>1, CoreAlike
  <2>4. Fine(run'[p])
    BY <1>1, <2>1, <2>2, <2>3 DEF Good, Staging, Flushes
  <2>5. Passed'
    <3>1. s \in Slots /\ s \in Sources
      BY <1>8, Constants DEF AdvanceSlot, AtStage
    <3>2. slot'[s] \in {slot[s], Saved(state[s])} /\ \A x \in Slots \ {s} : slot'[x] = slot[x]
      BY <1>8, <3>1 DEF AdvanceSlot, Greatest, Inv, TypeInv, TypeOK
    <3>3. \A x \in Slots : Safe(x, slot'[x], out, waived)
      BY <3>1, <3>2, Constants DEF Inv, Passed
    <3> QED
      BY <1>1, <2>2, <3>3 DEF Inv, Passed
  <2> QED
    BY <1>5, <2>4, <2>5, AloneKeeps
<1>9. CASE CopyOut(p)
  <2> DEFINE k == Head(r.todo)
             n == [r EXCEPT !.at = "publish"]
  <2>1. /\ n.rows = r.rows /\ n.next = r.next /\ n.todo = r.todo /\ n.at = "publish"
        /\ Writes(n) = Writes(r)
    BY <1>2 DEF Runs, Writes
  <2>2. run'[p] = n /\ UNCHANGED <<out, tmp, state, slot>>
    BY <1>4, <1>9 DEF CopyOut, upstream
  <2>3. staged'[k] = [there |-> TRUE, rows |-> r.rows]
    BY <1>9 DEF CopyOut, AtStage, Inv, TypeInv, TypeOK
  <2> HIDE DEF n
  <2>4. Core(n, out, waived)
    BY <1>2, <1>3, <2>1, CoreAlike
  <2>5. Fine(run'[p])
    BY <1>1, <2>1, <2>2, <2>3, <2>4 DEF Good, Staging, Flushes
  <2>6. Passed'
    BY <1>3, <1>7, <2>2
  <2> QED
    BY <1>5, <2>5, <2>6, AloneKeeps
<1>10. CASE RenameStaged(p)
  <2> DEFINE k == Head(r.todo)
  <2>1. r.todo # <<>> /\ k \in Sinks
    BY <1>2, <1>10 DEF RenameStaged, Placed
  <2>2. staged[k].there /\ staged[k].rows = r.rows /\ out[k] = <<>>
    BY <1>2, <1>10 DEF RenameStaged, Good, Staging
  <2>3. out' = [out EXCEPT ![k] = Behind(out[k], r.rows)] /\ run'[p] = Done(r) /\ UNCHANGED <<state, slot>>
    BY <1>4, <1>10, <2>2 DEF RenameStaged, upstream
  <2>4. Grows(out, out') /\ r.rows \subseteq In(out', k)
    <3>1. \A c \in SUBSET Rows : out' = [out EXCEPT ![k] = Behind(out[k], c)]
                                => Grows(out, out') /\ c \subseteq In(out', k)
      BY <1>6, <2>1, WriteGrows
    <3> QED
      BY <1>6, <2>3, <3>1
  <2>5. Fine(run'[p])
    BY <1>1, <1>2, <2>1, <2>3, <2>4, DoneGood
  <2>6. Passed'
    BY <1>7, <2>3, <2>4
  <2> QED
    BY <1>5, <2>5, <2>6, AloneKeeps
<1>11. CASE AppendStaged(p)
  <2> DEFINE k == Head(r.todo)
  <2>1. r.todo # <<>> /\ k \in Sinks
    BY <1>2, <1>11 DEF AppendStaged, Placed
  <2>2. staged[k].there /\ r.grab = r.rows
    BY <1>2, <1>11 DEF AppendStaged, Good, Staging
  <2>3. out' = [out EXCEPT ![k] = Behind(out[k], r.rows)] /\ run'[p] = Done(r) /\ UNCHANGED <<state, slot>>
    BY <1>4, <1>11, <2>2 DEF AppendStaged, upstream
  <2>4. Grows(out, out') /\ r.rows \subseteq In(out', k)
    <3>1. \A c \in SUBSET Rows : out' = [out EXCEPT ![k] = Behind(out[k], c)]
                                => Grows(out, out') /\ c \subseteq In(out', k)
      BY <1>6, <2>1, WriteGrows
    <3> QED
      BY <1>6, <2>3, <3>1
  <2>5. Fine(run'[p])
    BY <1>1, <1>2, <2>1, <2>3, <2>4, DoneGood
  <2>6. Passed'
    BY <1>7, <2>3, <2>4
  <2> QED
    BY <1>5, <2>5, <2>6, AloneKeeps
<1>12. CASE PublishFails(p)
  <2> DEFINE k == Head(r.todo)
             m == Least(r.len, Len(out[k]))
  <2>1. r.todo # <<>> /\ k \in Sinks
    BY <1>2, <1>12 DEF PublishFails, Placed
  <2>2. out' = out
    <3>1. CASE r.at = "append"
      <4>1. r.len = Len(out[k]) /\ out[k] \in Seq(SUBSET Rows)
        BY <1>2, <1>6, <2>1, <3>1 DEF Good, Staging
      <4>2. m = Len(out[k])
        BY <4>1 DEF Least
      <4>3. SubSeq(out[k], 1, m) = out[k]
        BY <4>1, <4>2
      <4>4. out' = [out EXCEPT ![k] = out[k]]
        BY <1>12, <3>1, <4>3 DEF PublishFails
      <4> QED
        BY <1>6, <4>4
    <3>2. CASE r.at # "append"
      BY <1>12, <3>2 DEF PublishFails
    <3> QED
      BY <3>1, <3>2
  <2>3. run'[p] = Fails(r) /\ UNCHANGED <<state, slot>>
    BY <1>4, <1>12 DEF PublishFails, upstream
  <2>4. Fine(run'[p])
    BY <1>1, <1>2, <1>3, <2>2, <2>3, FailsIs, LostGood
  <2>5. Passed'
    BY <1>3, <1>7, <2>2, <2>3
  <2> QED
    BY <1>5, <2>4, <2>5, AloneKeeps
<1>13. CASE WriteTmp(p)
  <2> DEFINE s == Head(r.pending)
             n == [r EXCEPT !.at = "place"]
  <2>1. s \in Sources
    BY <1>2, <1>13, RunHas DEF Inv, WriteTmp, Placed
  <2>2. /\ n.rows = r.rows /\ n.next = r.next /\ n.todo = r.todo /\ n.at = "place"
        /\ n.pending = r.pending /\ Writes(n) = Writes(r)
    BY <1>2 DEF Runs, Writes
  <2>3. run'[p] = n /\ UNCHANGED <<out, staged, state, slot>>
    BY <1>4, <1>13 DEF WriteTmp, files, upstream
  <2>4. tmp'[s] = r.next[s]
    BY <1>13, <2>1 DEF WriteTmp, Inv, TypeInv, TypeOK
  <2> HIDE DEF n
  <2>5. Core(n, out, waived)
    BY <1>2, <1>3, <2>2, CoreAlike
  <2>6. \A k \in Sinks : r.rows \subseteq In(out, k)
    BY <1>2, <1>13 DEF WriteTmp, Good, Flushes
  <2>7. Fine(run'[p])
    BY <1>1, <2>2, <2>3, <2>4, <2>5, <2>6 DEF Good, Staging, Flushes
  <2>8. Passed'
    BY <1>3, <1>7, <2>3
  <2> QED
    BY <1>5, <2>7, <2>8, AloneKeeps
<1>14. CASE Place(p)
  <2> DEFINE s == Head(r.pending)
  <2>1. s \in Sources
    BY <1>2, <1>14, RunHas DEF Inv, Place, Placed
  <2>2. tmp[s] = r.next[s] /\ \A k \in Sinks : r.rows \subseteq In(out, k)
    BY <1>2, <1>14 DEF Place, Good, Flushes
  <2>3. UNCHANGED <<out, staged, slot>> /\ OnFrom(p, tmp[s] = NoFile)
    BY <1>14 DEF Place, files, upstream
  <2>4. Fine(run'[p])
    BY <1>1, <1>2, <1>3, <2>2, <2>3, OnFromGood
  <2>5. Safe(s, r.next[s], out, waived)
    BY <1>2, <2>1, <2>2 DEF Core, Covers, Safe
  <2>6. state'[s] \in {state[s], r.next[s]} /\ \A x \in Sources \ {s} : state'[x] = state[x]
    BY <1>14, <2>1, <2>2 DEF Place, Inv, TypeInv, TypeOK
  <2>7. Safe(s, Saved(r.next[s]), out, waived)
    <3>1. Saved(r.next[s]) \in {r.next[s], 0} /\ Window(s, 0, 0) = {}
      BY DEF Saved, Greatest, Window
    <3> QED
      BY <2>5, <3>1 DEF Safe
  <2>8. \A x \in Sources : Safe(x, Saved(state'[x]), out, waived)
    BY <2>1, <2>6, <2>7 DEF Inv, Passed
  <2>9. Passed'
    BY <1>1, <2>3, <2>8 DEF Inv, Passed
  <2> QED
    BY <1>5, <2>4, <2>9, AloneKeeps
<1>15. CASE FlushFails(p)
  <2>1. UNCHANGED <<out, staged, slot, state>> /\ OnFrom(p, TRUE)
    BY <1>15 DEF FlushFails, files, upstream
  <2>2. \A k \in Sinks : r.rows \subseteq In(out, k)
    BY <1>2, <1>15 DEF FlushFails, Good, Flushes
  <2>3. Fine(run'[p])
    BY <1>1, <1>2, <1>3, <2>1, <2>2, OnFromGood
  <2>4. Passed'
    BY <1>3, <1>7, <2>1
  <2> QED
    BY <1>5, <2>3, <2>4, AloneKeeps
<1>16. CASE Kill(p)
  <2>1. run'[p] = Idle /\ UNCHANGED <<slot, state>>
    BY <1>4, <1>16 DEF Kill, upstream
  <2>2. Grows(out, out')
    <3>1. CASE r.at = "append"
      <4> DEFINE k == Head(r.todo)
      <4>1. k \in Sinks
        BY <1>2, <3>1 DEF Placed
      <4>2. PICK part \in SUBSET r.grab : out' = [out EXCEPT ![k] = Behind(out[k], part)]
        BY <1>16, <3>1 DEF Kill
      <4>3. part \in SUBSET Rows
        BY <1>6
      <4> QED
        BY <1>6, <4>1, <4>2, <4>3, WriteGrows
    <3>2. CASE r.at # "append"
      BY <1>3, <1>16, <3>2 DEF Kill
    <3> QED
      BY <3>1, <3>2
  <2>3. Fine(run'[p])
    BY <2>1, IdleGood
  <2>4. Passed'
    BY <1>7, <2>1, <2>2
  <2> QED
    BY <1>5, <2>3, <2>4, AloneKeeps
<1> QED
  BY <1>8, <1>9, <1>10, <1>11, <1>12, <1>13, <1>14, <1>15, <1>16

\* A step outside the run.
LEMMA WorldInv ==
  ASSUME Inv, TypeInv',
         \/ \E s \in Sources : Arrive(s) \/ Clear(s)
         \/ \E s \in Marks, v \in 0..MaxRow : BeginEdit(s, v)
         \/ EndEdit \/ EditDies
  PROVE  Inv'
<1>1. UNCHANGED <<slot, tmp, staged, out, run>> /\ waived \subseteq waived'
  BY DEF Arrive, Clear, BeginEdit, EndEdit, EditDies, upstream, files
<1>2. Grows(out, out)
  BY GrowsRefl
<1>3. ASSUME NEW p \in Runners PROVE Good(run[p], staged, out, tmp, waived')
  <2>1. Good(run[p], staged, out, tmp, waived) /\ Core(run[p], out, waived)
    BY DEF Inv, Good
  <2>2. Core(run[p], out, waived')
    BY <1>1, <1>2, <2>1, CoreAlike
  <2> QED
    BY <2>1, <2>2 DEF Good
<1>4. \A s \in Sources : \A n : Safe(s, n, out, waived) => Safe(s, n, out, waived')
  BY <1>1 DEF Safe
<1>5. \A s : Safe(s, 0, out, waived') /\ Saved(Torn) = 0 /\ Saved(NoFile) = 0
  BY DEF Safe, Window, Saved, Greatest, Torn, NoFile
<1>6. SUFFICES Edits' /\ \A s \in Sources : Safe(s, Saved(state'[s]), out, waived')
  <2>1. Passed'
    BY <1>1, <1>4, <1>6 DEF Inv, Passed
  <2> QED
    BY <1>1, <1>3, <1>6, <2>1 DEF Inv
<1>7. ASSUME NEW s \in Sources, Arrive(s)
      PROVE  Edits' /\ \A x \in Sources : Safe(x, Saved(state'[x]), out, waived')
  BY <1>4, <1>7 DEF Arrive, Inv, Passed, Edits
<1>8. ASSUME NEW s \in Sources, Clear(s)
      PROVE  Edits' /\ \A x \in Sources : Safe(x, Saved(state'[x]), out, waived')
  <2>1. Edits'
    BY <1>8 DEF Clear, Inv, Edits
  <2>2. \A x \in Sources : state'[x] \in {state[x], NoFile}
    BY <1>8 DEF Clear, Inv, TypeInv, TypeOK
  <2> QED
    BY <1>4, <1>5, <2>1, <2>2 DEF Inv, Passed
<1>9. ASSUME NEW s \in Marks, NEW v \in 0..MaxRow, BeginEdit(s, v)
      PROVE  Edits' /\ \A x \in Sources : Safe(x, Saved(state'[x]), out, waived')
  <2>1. Edits'
    BY <1>9 DEF BeginEdit, Edits
  <2>2. \A x \in Sources : state'[x] \in {state[x], Torn}
    BY <1>9 DEF BeginEdit, Inv, TypeInv, TypeOK
  <2> QED
    BY <1>4, <1>5, <2>1, <2>2 DEF Inv, Passed
<1>10. ASSUME EndEdit
       PROVE  Edits' /\ \A x \in Sources : Safe(x, Saved(state'[x]), out, waived')
  <2>1. Edits'
    BY <1>10 DEF EndEdit, NoVerb, Edits
  <2>2. Window(verb.node, 0, verb.to) \subseteq waived'
    BY <1>1, <1>10 DEF EndEdit, Inv, Edits
  <2>3. Safe(verb.node, Saved(verb.to), out, waived')
    <3>1. Saved(verb.to) \in {verb.to, 0}
      BY DEF Saved, Greatest
    <3> QED
      BY <1>5, <2>2, <3>1 DEF Safe
  <2>4. \A x \in Sources : state'[x] = state[x] \/ (x = verb.node /\ state'[x] = verb.to)
    BY <1>10 DEF EndEdit, Inv, TypeInv, TypeOK
  <2> QED
    BY <1>4, <2>1, <2>3, <2>4 DEF Inv, Passed
<1>11. ASSUME EditDies
       PROVE  Edits' /\ \A x \in Sources : Safe(x, Saved(state'[x]), out, waived')
  BY <1>4, <1>11 DEF EditDies, NoVerb, Inv, Passed, Edits
<1> QED
  BY <1>7, <1>8, <1>9, <1>10, <1>11

LEMMA StepInv == Alone /\ Inv /\ [Next]_vars => Inv'
<1> SUFFICES ASSUME Alone, Inv, [Next]_vars PROVE Inv'
  OBVIOUS
<1>1. TypeInv'
  BY StepTypes DEF Inv
<1>2. CASE UNCHANGED vars
  BY <1>1, <1>2 DEF vars, Inv, Passed, Edits
<1>3. ASSUME NEW p \in Runners, RunStep(p) PROVE Inv'
  BY <1>1, <1>3, QuietInv, WritingInv DEF RunStep
<1>4. ASSUME NEW p \in Runners,
             Start(p) \/ AskCancel(p) \/ FailAttempt(p) \/ PublishFails(p) \/ FlushFails(p) \/ Kill(p)
      PROVE  Inv'
  BY <1>1, <1>4, QuietInv, WritingInv
<1> QED
  BY <1>1, <1>2, <1>3, <1>4, WorldInv DEF Next

\* With one run of the pipeline at a time, whatever fails, is cancelled, killed or
\* moved by hand, no position passes a row that is not in every sink.
THEOREM NothingIsSkipped == Alone /\ Spec => []NoRowSkipped
<1>1. Alone /\ Spec => []Inv
  <2>1. Alone => (Init /\ [][Next]_vars => []Inv)
    <3> SUFFICES ASSUME Alone PROVE Init /\ [][Next]_vars => []Inv
      OBVIOUS
    <3>1. Inv /\ [Next]_vars => Inv'
      BY StepInv
    <3> QED
      BY <3>1, InitInv, PTL
  <2> QED
    BY <2>1 DEF Spec
<1> QED
  BY <1>1, InvImplies, PTL

-----------------------------------------------------------------------------
(* How often a row is in a sink.  The invariant is an account kept for each *)
(* row: as long as it may be read again without a cause (Ahead of every     *)
(* position) it is in no sink more often than there were causes (Spare); a   *)
(* run that has read it may add it once to each sink that is still to come, *)
(* and then either passes it with a position or is itself a cause.          *)

Count(q, x) == Cardinality({i \in DOMAIN q : x \in q[i]})

LEMMA Counts ==
  ASSUME NEW q \in Seq(SUBSET Rows), NEW x
  PROVE  /\ IsFiniteSet({i \in DOMAIN q : x \in q[i]}) /\ Count(q, x) \in Nat
         /\ Count(<<>>, x) = 0
<1>1. DOMAIN q = 1..Len(q) /\ Len(q) \in Nat
  BY LenProperties
<1>2. IsFiniteSet(1..Len(q))
  BY <1>1, FS_Interval
<1>3. IsFiniteSet({i \in DOMAIN q : x \in q[i]})
  BY <1>1, <1>2, FS_Subset
<1>4. {i \in DOMAIN <<>> : x \in <<>>[i]} = {}
  OBVIOUS
<1> QED
  BY <1>3, <1>4, FS_CardinalityType, FS_EmptySet DEF Count

\* One more chunk has a row at most once more, and only if it is in the chunk.
LEMMA CountBehind ==
  ASSUME NEW q \in Seq(SUBSET Rows), NEW c \in SUBSET Rows, NEW x
  PROVE  /\ Count(Behind(q, c), x) \in Nat
         /\ Count(Behind(q, c), x) <= Count(q, x) + 1
         /\ x \notin c => Count(Behind(q, c), x) = Count(q, x)
<1> DEFINE f == {i \in DOMAIN q : x \in q[i]}
<1>0. IsFiniteSet(f) /\ Cardinality(f) \in Nat /\ Count(q, x) = Cardinality(f)
  BY Counts DEF Count
<1>1. CASE c = {}
  BY <1>0, <1>1 DEF Behind
<1>2. CASE c # {}
  <2> DEFINE a == Append(q, c)
             g == {i \in DOMAIN a : x \in a[i]}
  <2>1. /\ DOMAIN q = 1..Len(q) /\ Len(q) \in Nat /\ DOMAIN a = 1..(Len(q) + 1)
        /\ \A i \in 1..Len(q) : a[i] = q[i]
        /\ a[Len(q) + 1] = c
    BY AppendProperties, LenProperties
  <2> HIDE DEF a
  <2>2. g \subseteq f \cup {Len(q) + 1} /\ (x \notin c => g = f)
    BY <2>1
  <2>3. Len(q) + 1 \notin f
    BY <2>1
  <2>4. IsFiniteSet(f \cup {Len(q) + 1}) /\ Cardinality(f \cup {Len(q) + 1}) = Cardinality(f) + 1
    BY <1>0, <2>3, FS_AddElement
  <2>5. IsFiniteSet(g) /\ Cardinality(g) <= Cardinality(f) + 1
    BY <2>2, <2>4, FS_Subset
  <2>6. Cardinality(g) \in Nat
    BY <2>5, FS_CardinalityType
  <2>7. Count(Behind(q, c), x) = Cardinality(g)
    BY <1>2 DEF Behind, Count, a
  <2> QED
    BY <1>0, <2>2, <2>5, <2>6, <2>7
<1> QED
  BY <1>1, <1>2

\* A file that is cut off has a row no more often.
LEMMA CountCut ==
  ASSUME NEW q \in Seq(SUBSET Rows), NEW n \in 0..Len(q), NEW x
  PROVE  /\ Count(SubSeq(q, 1, n), x) \in Nat
         /\ Count(SubSeq(q, 1, n), x) <= Count(q, x)
<1> DEFINE f == {i \in DOMAIN q : x \in q[i]}
           c == SubSeq(q, 1, n)
           g == {i \in DOMAIN c : x \in c[i]}
<1>0. IsFiniteSet(f)
  BY Counts
<1>1. DOMAIN q = 1..Len(q) /\ Len(q) \in Nat /\ n \in Int
  BY LenProperties
<1>2. \A i \in 1..n : q[i] \in SUBSET Rows
  BY <1>1
<1>3. /\ c \in Seq(SUBSET Rows) /\ Len(c) = IF 1 <= n THEN n - 1 + 1 ELSE 0
      /\ \A i \in 1..(n - 1 + 1) : c[i] = q[1 + i - 1]
  BY <1>1, <1>2, SubSeqProperties
<1>4. DOMAIN c = 1..Len(c)
  BY <1>3, LenProperties
<1> HIDE DEF c
<1>5. g \subseteq f
  BY <1>1, <1>3, <1>4
<1>6. IsFiniteSet(g) /\ Cardinality(g) <= Cardinality(f)
  BY <1>0, <1>5, FS_Subset
<1> QED
  BY <1>6, FS_CardinalityType DEF Count, c

\* In no sink more often than there were causes.
Spare(x, o, e) == \A k \in Sinks : Count(o[k], x) <= e
\* Where the next run reads on, and the rows it will read.
Reach(s, st, sl) == Greatest(Saved(st[s]), IF s \in Slots THEN sl[s] ELSE 0)
Ahead(x, st, sl) == x[2] > Reach(x[1], st, sl)

\* The account of a row: once more than there were causes at most; and no more
\* than there were causes if it is to be read, is read but is lost to the run's
\* positions, is beyond what the run will write, or is still to be delivered.
Entry(x, r, st, sl, o, e) ==
  /\ Spare(x, o, e + 1)
  /\ x \notin r.rows /\ Ahead(x, st, sl) => Spare(x, o, e)
  /\ x \in r.rows /\ Ahead(x, st, sl) /\ ~r.failed /\ ~Waits(x[1], r.pending) => Spare(x, o, e)
  /\ x[2] > r.next[x[1]] /\ Waits(x[1], r.pending) => Spare(x, o, e)
  /\ x \in r.rows => \A k \in Sinks : Waits(k, r.todo) => Count(o[k], x) <= e
Books(r, st, sl, o, e) == \A x \in Rows : Entry(x, r, st, sl, o, e)

\* Where a run writes its positions.
Ending == {"check", "write", "place"}
\* A run comes to each stage once: what it has read is of stages it has left, up
\* to the position it has queued behind them; a slot is advanced before it is read.
Once(q) == \A i, j \in DOMAIN q : q[i] = q[j] => i = j
Reads(r, st, sl) ==
  /\ Once(r.todo)
  /\ \A i \in DOMAIN r.todo : \A x \in r.rows : x[1] # r.todo[i]
  /\ \A x \in r.rows : x[2] <= r.next[x[1]]
  /\ r.at = "idle" => r.rows = {}
  /\ r.at \notin Ending => \A x \in r.rows : Waits(x[1], r.pending)
  /\ r.at = "peek" => Saved(st[Head(r.todo)]) <= sl[Head(r.todo)]

Account == /\ RepeatsAreAccounted
           /\ \A p \in Runners : /\ Books(run[p], state, slot, out, excuses)
                                 /\ Reads(run[p], state, slot)

LEMMA RowsAre ==
  /\ \A x \in Rows : x[1] \in Sources /\ x[2] \in 1..MaxRow /\ x = <<x[1], x[2]>>
  /\ \A s, a, b : \A x \in Window(s, a, b) : x[1] = s /\ x[2] \in (a + 1)..b
  /\ \A s, a, b : \A x \in Rows : x[1] = s /\ x[2] \in (a + 1)..b => x \in Window(s, a, b)
  BY DEF Rows, Window

\* A run that has read no more, on files that are the same, while no row comes to
\* be ahead.
LEMMA BooksAlike ==
  ASSUME NEW r, NEW n, NEW st, NEW sl, NEW st2, NEW sl2, NEW o, NEW e,
         Books(r, st, sl, o, e), n.rows = r.rows, n.next = r.next,
         n.pending = r.pending, ~n.failed => ~r.failed,
         \A k \in Sinks : Waits(k, n.todo) => Waits(k, r.todo),
         \A x \in Rows : Ahead(x, st2, sl2) => Ahead(x, st, sl)
  PROVE  Books(n, st2, sl2, o, e)
BY DEF Books, Entry

\* A new cause covers everything.
LEMMA BooksForgiven ==
  ASSUME NEW r, NEW n, NEW st, NEW sl, NEW st2, NEW sl2, NEW e \in Nat,
         NEW o \in [Sinks -> Seq(SUBSET Rows)],
         Books(r, st, sl, o, e)
  PROVE  Books(n, st2, sl2, o, e + 1)
<1>1. \A x \in Rows : Spare(x, o, e + 1)
  BY DEF Books, Entry
<1>2. \A x \in Rows : \A k \in Sinks : Count(o[k], x) \in Nat
  BY Counts
<1>3. \A x \in Rows : Spare(x, o, (e + 1) + 1)
  BY <1>1, <1>2 DEF Spare
<1> QED
  BY <1>1, <1>3 DEF Books, Entry, Spare

\* A run that ends well with nothing left to write has no account to settle.
LEMMA BooksClosed ==
  ASSUME NEW r, NEW st, NEW sl, NEW o, NEW e,
         Books(r, st, sl, o, e), ~r.failed, r.pending = <<>>
  PROVE  Books(Idle, st, sl, o, e)
<1>1. \A s : ~Waits(s, r.pending) /\ ~Waits(s, Idle.pending)
  BY DEF Waits, Idle
<1>2. Idle.rows = {}
  BY DEF Idle
<1> QED
  BY <1>1, <1>2 DEF Books, Entry

\* A source is read from where its position has come to.
LEMMA BooksLoaded ==
  ASSUME NEW r \in Runs, r.todo # <<>>, NEW s \in Sources, s = Head(r.todo),
         NEW st, NEW sl, NEW o, NEW e, NEW a \in Nat, NEW b \in 0..MaxRow, a = Reach(s, st, sl),
         Books(r, st, sl, o, e), Reads(r, st, sl), r.at \notin Ending
  PROVE  Books(Loaded(r, s, a, b), st, sl, o, e) /\ Reads(Loaded(r, s, a, b), st, sl)
<1> DEFINE l == Loaded(r, s, a, b)
<1>1. /\ l.at = "stage" /\ l.todo = Tail(r.todo) /\ l.rows = r.rows \cup Window(s, a, b)
      /\ l.failed = r.failed
  BY DEF Loaded, Done, Runs
<1>2. l.next = IF a < b THEN [r.next EXCEPT ![s] = b] ELSE r.next
  BY DEF Loaded, Done, Runs
<1>3. l.pending = IF a < b THEN Append(r.pending, s) ELSE r.pending
  BY DEF Loaded, Done, Runs
<1>4. r.todo \in Seq(Stages) /\ r.next \in [Sources -> Texts] /\ r.pending \in Seq(Sources)
      /\ r.rows \subseteq Rows
  BY DEF Runs
<1> HIDE DEF l
<1>5. /\ r.todo[1] = s /\ 1 \in DOMAIN r.todo
      /\ \A i \in DOMAIN Tail(r.todo) : i + 1 \in DOMAIN r.todo /\ Tail(r.todo)[i] = r.todo[i + 1]
                                       /\ i + 1 # 1
  BY <1>4, HeadTail
<1>6. \A x \in r.rows : x[1] # s
  BY <1>5 DEF Reads
<1>7. \A t : Waits(t, l.pending) <=> Waits(t, r.pending) \/ (a < b /\ t = s)
  <2>1. CASE a < b
    <3> DEFINE q == r.pending
               c == Append(q, s)
    <3>1. /\ DOMAIN q = 1..Len(q) /\ Len(q) \in Nat /\ DOMAIN c = 1..(Len(q) + 1)
          /\ \A i \in 1..Len(q) : c[i] = q[i]
          /\ c[Len(q) + 1] = s
      BY <1>4, AppendProperties, LenProperties
    <3>2. l.pending = c
      BY <1>3, <2>1
    <3> HIDE DEF c
    <3> QED
      BY <2>1, <3>1, <3>2 DEF Waits
  <2>2. CASE ~(a < b)
    BY <1>3, <2>2
  <2> QED
    BY <2>1, <2>2
<1>8. \A k \in Sinks : Waits(k, l.todo) => Waits(k, r.todo)
  BY <1>1, <1>5 DEF Waits
<1>9. \A x \in Window(s, a, b) : a < b /\ Ahead(x, st, sl) /\ x[2] <= b
  BY RowsAre DEF Ahead
<1>10. Books(l, st, sl, o, e)
  <2> SUFFICES ASSUME NEW x \in Rows PROVE Entry(x, l, st, sl, o, e)
    BY DEF Books
  <2>0. x[1] \in Sources /\ x[2] \in Nat /\ Entry(x, r, st, sl, o, e)
    BY RowsAre DEF Books
  <2>1. CASE x[1] # s
    <3>1. x \in l.rows <=> x \in r.rows
      BY <1>1, <2>1, RowsAre
    <3>2. l.next[x[1]] = r.next[x[1]]
      BY <1>2, <1>4, <2>0, <2>1
    <3>3. Waits(x[1], l.pending) <=> Waits(x[1], r.pending)
      BY <1>7, <2>1
    <3> QED
      BY <1>1, <1>8, <2>0, <3>1, <3>2, <3>3 DEF Entry
  <2>2. CASE x[1] = s
    <3>1. x \notin r.rows
      BY <1>6, <2>2
    <3>2. Ahead(x, st, sl) => Spare(x, o, e)
      BY <2>0, <3>1 DEF Entry
    <3>3. CASE x \in Window(s, a, b)
      <4>1. Spare(x, o, e)
        BY <1>9, <3>2, <3>3
      <4> QED
        BY <2>0, <4>1 DEF Entry, Spare
    <3>4. CASE x \notin Window(s, a, b)
      <4>1. x \notin l.rows
        BY <1>1, <3>1, <3>4
      <4>2. x[2] > l.next[s] /\ Waits(s, l.pending) => Spare(x, o, e)
        <5>1. CASE a < b
          <6>1. l.next[s] = b
            BY <1>2, <1>4, <5>1
          <6>2. x[2] > b => Ahead(x, st, sl)
            BY <2>0, <2>2, <5>1 DEF Ahead
          <6> QED
            BY <3>2, <6>1, <6>2
        <5>2. CASE ~(a < b)
          BY <1>2, <1>7, <2>0, <2>2, <5>2 DEF Entry
        <5> QED
          BY <5>1, <5>2
      <4> QED
        BY <2>0, <2>2, <3>2, <4>1, <4>2 DEF Entry
    <3> QED
      BY <3>3, <3>4
  <2> QED
    BY <2>1, <2>2
<1>11. Reads(l, st, sl)
  <2>1. Once(l.todo)
    <3> SUFFICES ASSUME NEW i \in DOMAIN l.todo, NEW j \in DOMAIN l.todo, l.todo[i] = l.todo[j]
                 PROVE  i = j
      BY DEF Once
    <3>1. i + 1 = j + 1
      BY <1>1, <1>5 DEF Reads, Once
    <3>2. DOMAIN l.todo = 1..(Len(r.todo) - 1) /\ Len(r.todo) \in Nat
      BY <1>1, <1>4, HeadTail
    <3> QED
      BY <3>1, <3>2
  <2>2. ASSUME NEW i \in DOMAIN l.todo, NEW x \in l.rows PROVE x[1] # l.todo[i]
    <3>1. l.todo[i] = r.todo[i + 1] /\ i + 1 \in DOMAIN r.todo /\ i + 1 # 1
      BY <1>1, <1>5
    <3>2. l.todo[i] # s
      BY <1>5, <3>1 DEF Reads, Once
    <3>3. CASE x \in r.rows
      BY <3>1, <3>3 DEF Reads
    <3>4. CASE x \in Window(s, a, b)
      BY <3>2, <3>4, RowsAre
    <3> QED
      BY <1>1, <3>3, <3>4
  <2>3. ASSUME NEW x \in l.rows PROVE x[2] <= l.next[x[1]]
    <3>1. CASE x \in r.rows
      <4>1. x[1] # s /\ x[1] \in Sources
        BY <1>4, <1>6, <3>1, RowsAre
      <4>2. l.next[x[1]] = r.next[x[1]]
        BY <1>2, <1>4, <4>1
      <4> QED
        BY <3>1, <4>2 DEF Reads
    <3>2. CASE x \in Window(s, a, b)
      <4>1. a < b /\ x[2] <= b /\ x[1] = s
        BY <1>9, <3>2, RowsAre
      <4>2. l.next[s] = b
        BY <1>2, <1>4, <4>1
      <4> QED
        BY <4>1, <4>2
    <3> QED
      BY <1>1, <3>1, <3>2
  <2>4. ASSUME NEW x \in l.rows PROVE Waits(x[1], l.pending)
    <3>1. CASE x \in r.rows
      BY <1>7, <3>1 DEF Reads
    <3>2. CASE x \in Window(s, a, b)
      BY <1>7, <1>9, <3>2, RowsAre
    <3> QED
      BY <1>1, <3>1, <3>2
  <2> QED
    BY <1>1, <2>1, <2>2, <2>3, <2>4 DEF Reads
<1> QED
  BY <1>10, <1>11 DEF l

\* A sink is written, with what the run has read at most, and left behind.
LEMMA BooksWritten ==
  ASSUME NEW r \in Runs, NEW n, NEW st, NEW sl, NEW e \in Nat, NEW k \in Sinks, NEW o, NEW o2,
         \A j \in Sinks \ {k} : o2[j] = o[j],
         \A x \in Rows : /\ Count(o[k], x) \in Nat /\ Count(o2[k], x) \in Nat
                         /\ Count(o2[k], x) <= Count(o[k], x) + 1
                         /\ x \notin r.rows => Count(o2[k], x) <= Count(o[k], x),
         Books(r, st, sl, o, e), Waits(k, r.todo), n.rows = r.rows, n.next = r.next,
         n.pending = r.pending, ~n.failed => ~r.failed,
         \A x \in Rows : x \in r.rows /\ ~n.failed /\ Ahead(x, st, sl) => Waits(x[1], r.pending),
         \A x \in r.rows : x[2] <= r.next[x[1]],
         \A j \in Sinks : Waits(j, n.todo) => Waits(j, r.todo) /\ j # k
  PROVE  Books(n, st, sl, o2, e)
<1> SUFFICES ASSUME NEW x \in Rows PROVE Entry(x, n, st, sl, o2, e)
  BY DEF Books
<1>1. Entry(x, r, st, sl, o, e)
  BY DEF Books
<1>2. x[1] \in Sources /\ x[2] \in Nat
  BY RowsAre
<1>3. CASE x \notin r.rows
  <2>1. \A j \in Sinks : Count(o2[j], x) <= Count(o[j], x) \/ o2[j] = o[j]
    BY <1>3
  <2>2. \A c \in Nat : Spare(x, o, c) => Spare(x, o2, c)
    <3> SUFFICES ASSUME NEW c \in Nat, Spare(x, o, c), NEW j \in Sinks PROVE Count(o2[j], x) <= c
      BY DEF Spare
    <3>1. CASE j = k
      BY <1>3, <3>1 DEF Spare
    <3>2. CASE j # k
      BY <3>2 DEF Spare
    <3> QED
      BY <3>1, <3>2
  <2> QED
    BY <1>1, <1>3, <2>2 DEF Entry
<1>4. CASE x \in r.rows
  <2>1. Count(o[k], x) <= e
    BY <1>1, <1>4 DEF Entry
  <2>2. Count(o2[k], x) <= e + 1
    BY <2>1
  <2>3. Spare(x, o2, e + 1)
    BY <1>1, <2>2 DEF Entry, Spare
  <2>4. \A j \in Sinks : Waits(j, n.todo) => Count(o2[j], x) <= e
    BY <1>1, <1>4 DEF Entry
  <2>5. ~(x[2] > n.next[x[1]])
    <3>1. r.next[x[1]] \in Int
      BY <1>2, TextsAre DEF Runs
    <3> QED
      BY <1>2, <1>4, <3>1
  <2> QED
    BY <1>1, <1>4, <2>3, <2>4, <2>5 DEF Entry
<1> QED
  BY <1>3, <1>4

\* What a run that goes on has read does not change.
LEMMA ReadsOn ==
  ASSUME NEW r \in Runs, NEW n, NEW st, NEW sl, NEW st2, NEW sl2, Reads(r, st, sl),
         n.todo \in {r.todo, <<>>} \/ (r.todo # <<>> /\ n.todo = Tail(r.todo)),
         n.rows = r.rows, n.next = r.next, n.at # "idle",
         n.at \in Ending \/ (r.at \notin Ending /\ n.pending = r.pending),
         n.at = "peek" => Saved(st2[Head(n.todo)]) <= sl2[Head(n.todo)]
  PROVE  Reads(n, st2, sl2)
<1>1. r.todo \in Seq(Stages)
  BY DEF Runs
<1>2. CASE n.todo \in {r.todo, <<>>}
  BY <1>2 DEF Reads, Once
<1>3. CASE r.todo # <<>> /\ n.todo = Tail(r.todo)
  <2>1. \A i \in DOMAIN n.todo : i \in Nat /\ i + 1 \in DOMAIN r.todo /\ n.todo[i] = r.todo[i + 1]
    BY <1>1, <1>3, HeadTail
  <2>2. Once(n.todo)
    <3> SUFFICES ASSUME NEW i \in DOMAIN n.todo, NEW j \in DOMAIN n.todo, n.todo[i] = n.todo[j]
                 PROVE  i = j
      BY DEF Once
    <3>1. i + 1 = j + 1
      BY <2>1 DEF Reads, Once
    <3> QED
      BY <2>1, <3>1
  <2>3. \A i \in DOMAIN n.todo : \A x \in n.rows : x[1] # n.todo[i]
    BY <2>1 DEF Reads
  <2> QED
    BY <2>2, <2>3 DEF Reads
<1> QED
  BY <1>2, <1>3

LEMMA ReadsIdle == \A st, sl : Reads(Idle, st, sl)
  BY DEF Reads, Once, Idle

\* The tail of a list without repetitions no longer has its head.
LEMMA TailWaits ==
  ASSUME NEW r \in Runs, r.todo # <<>>
  PROVE  /\ \A k : Waits(k, Tail(r.todo)) => Waits(k, r.todo)
         /\ Waits(Head(r.todo), r.todo)
         /\ Once(r.todo) => ~Waits(Head(r.todo), Tail(r.todo))
<1>1. r.todo \in Seq(Stages)
  BY DEF Runs
<1>2. /\ r.todo[1] = Head(r.todo) /\ 1 \in DOMAIN r.todo
      /\ \A i \in DOMAIN Tail(r.todo) : i + 1 \in DOMAIN r.todo /\ Tail(r.todo)[i] = r.todo[i + 1]
                                       /\ i + 1 # 1
  BY <1>1, HeadTail
<1> QED
  BY <1>2 DEF Waits, Once

\* The same of the list of positions to write, whatever is repeated in it.
LEMMA TailPending ==
  ASSUME NEW r \in Runs, r.pending # <<>>
  PROVE  /\ \A s : Waits(s, Tail(r.pending)) => Waits(s, r.pending)
         /\ \A s : Waits(s, r.pending) => s = Head(r.pending) \/ Waits(s, Tail(r.pending))
         /\ Waits(Head(r.pending), r.pending) /\ Head(r.pending) \in Sources
<1> DEFINE q == r.pending
<1>1. q \in Seq(Sources)
  BY DEF Runs
<1>2. /\ q[1] = Head(q) /\ DOMAIN q = 1..Len(q) /\ Len(q) \in Nat \ {0} /\ Head(q) \in Sources
      /\ DOMAIN Tail(q) = 1..(Len(q) - 1) /\ \A i \in 1..(Len(q) - 1) : Tail(q)[i] = q[i + 1]
  BY <1>1, HeadTail
<1>3. \A i \in DOMAIN q : i # 1 => i - 1 \in DOMAIN Tail(q) /\ Tail(q)[i - 1] = q[i]
  BY <1>2
<1>4. \A i \in DOMAIN Tail(q) : i + 1 \in DOMAIN q /\ Tail(q)[i] = q[i + 1]
  BY <1>2
<1> QED
  BY <1>2, <1>3, <1>4 DEF Waits

\* A position is written, or given up: the rows it was to pass are behind it, or
\* the run is a cause.
LEMMA BooksOnFrom ==
  ASSUME NEW p \in Runners, p \in DOMAIN run, run[p] \in Runs, run[p].pending # <<>>,
         NEW f \in BOOLEAN, OnFrom(p, f),
         excuses \in Nat, NEW o \in [Sinks -> Seq(SUBSET Rows)],
         NEW st, NEW sl, NEW st2,
         Books(run[p], st, sl, o, excuses), Reads(run[p], st, sl),
         \A x \in Rows :
           /\ Ahead(x, st2, sl) /\ ~Ahead(x, st, sl)
                => x[1] = Head(run[p].pending) /\ x[2] > run[p].next[x[1]]
           /\ ~f /\ x \in run[p].rows /\ x[1] = Head(run[p].pending) => ~Ahead(x, st2, sl)
  PROVE  Books(run'[p], st2, sl, o, excuses') /\ Reads(run'[p], st2, sl)
<1> DEFINE r == run[p]
           g == r.failed \/ f
           n == [r EXCEPT !.at = "check", !.pending = Tail(r.pending), !.failed = g]
<1>1. /\ n.rows = r.rows /\ n.next = r.next /\ n.todo = r.todo /\ n.at = "check"
      /\ n.pending = Tail(r.pending) /\ n.failed = g
  BY DEF Runs
<1>2. \/ run'[p] = n /\ excuses' = excuses
      \/ Tail(r.pending) = <<>> /\ run'[p] = Idle /\ excuses' = IF g THEN excuses + 1 ELSE excuses
  BY DEF OnFrom, Becomes
<1> HIDE DEF n, g
<1>3. Reads(n, st2, sl)
  BY <1>1, ReadsOn DEF Ending
<1>4. Books(n, st2, sl, o, excuses)
  <2> SUFFICES ASSUME NEW x \in Rows PROVE Entry(x, n, st2, sl, o, excuses)
    BY DEF Books
  <2>1. Entry(x, r, st, sl, o, excuses)
    BY DEF Books
  <2>2. Waits(x[1], n.pending) => Waits(x[1], r.pending)
    BY <1>1, TailPending
  <2>3. x \notin n.rows /\ Ahead(x, st2, sl) => Spare(x, o, excuses)
    <3> SUFFICES ASSUME x \notin r.rows, Ahead(x, st2, sl), ~Ahead(x, st, sl)
                 PROVE  Spare(x, o, excuses)
      BY <1>1, <2>1 DEF Entry
    <3>1. Waits(x[1], r.pending) /\ x[2] > r.next[x[1]]
      BY TailPending
    <3> QED
      BY <2>1, <3>1 DEF Entry
  <2>4. x \in n.rows /\ Ahead(x, st2, sl) /\ ~n.failed /\ ~Waits(x[1], n.pending)
          => Spare(x, o, excuses)
    <3> SUFFICES ASSUME x \in r.rows, Ahead(x, st2, sl), ~g, ~Waits(x[1], n.pending)
                 PROVE  Spare(x, o, excuses)
      BY <1>1
    <3>1. ~f /\ ~r.failed
      BY DEF g
    <3>2. x[1] # Head(r.pending)
      BY <3>1
    <3>3. ~Waits(x[1], r.pending) /\ Ahead(x, st, sl)
      BY <1>1, <3>2, TailPending
    <3> QED
      BY <2>1, <3>1, <3>3 DEF Entry
  <2> QED
    BY <1>1, <2>1, <2>2, <2>3, <2>4 DEF Entry
<1>5. CASE run'[p] = n /\ excuses' = excuses
  BY <1>3, <1>4, <1>5
<1>6. CASE Tail(r.pending) = <<>> /\ run'[p] = Idle /\ excuses' = IF g THEN excuses + 1 ELSE excuses
  <2>1. CASE g
    BY <1>4, <1>6, <2>1, BooksForgiven, ReadsIdle
  <2>2. CASE ~g
    <3>1. Books(Idle, st2, sl, o, excuses)
      BY <1>1, <1>4, <1>6, <2>2, BooksClosed
    <3> QED
      BY <1>6, <2>2, <3>1, ReadsIdle
  <2> QED
    BY <2>1, <2>2
<1> QED
  BY <1>2, <1>5, <1>6

\* A shorter file has a row no more often.
LEMMA BooksLess ==
  ASSUME NEW r, NEW st, NEW sl, NEW e \in Nat, NEW o, NEW o2, Books(r, st, sl, o, e),
         \A k \in Sinks : \A x \in Rows : /\ Count(o[k], x) \in Nat /\ Count(o2[k], x) \in Nat
                                          /\ Count(o2[k], x) <= Count(o[k], x)
  PROVE  Books(r, st, sl, o2, e)
<1> SUFFICES ASSUME NEW x \in Rows PROVE Entry(x, r, st, sl, o2, e)
  BY DEF Books
<1>1. Entry(x, r, st, sl, o, e)
  BY DEF Books
<1>2. \A c \in Nat : \A k \in Sinks : Count(o[k], x) <= c => Count(o2[k], x) <= c
  OBVIOUS
<1>3. \A c \in Nat : Spare(x, o, c) => Spare(x, o2, c)
  BY <1>2 DEF Spare
<1> QED
  BY <1>1, <1>2, <1>3 DEF Entry

\* The run that goes on, behind its stage, out of the loop, or with an error.
LEMMA GoesOn ==
  ASSUME NEW r \in Runs
  PROVE  /\ Done(r).at = "stage" /\ Done(r).todo = Tail(r.todo)
         /\ Done(r).rows = r.rows /\ Done(r).next = r.next /\ Done(r).pending = r.pending
         /\ Done(r).failed = r.failed
         /\ Break(r).at = "stage" /\ Break(r).todo = <<>>
         /\ Break(r).rows = r.rows /\ Break(r).next = r.next /\ Break(r).pending = r.pending
         /\ Break(r).failed = r.failed
         /\ Fails(r).at = "stage" /\ Fails(r).todo \in {Tail(r.todo), <<>>}
         /\ Fails(r).rows = r.rows /\ Fails(r).next = r.next /\ Fails(r).pending = r.pending
         /\ Fails(r).failed
BY DEF Done, Break, Fails, Runs

LEMMA NothingWaits == \A k : ~Waits(k, <<>>)
BY DEF Waits

LEMMA AccountIs ==
  ASSUME Inv, Account, NEW p \in Runners
  PROVE  /\ Books(run[p], state, slot, out, excuses) /\ Reads(run[p], state, slot)
         /\ run[p] \in Runs /\ p \in DOMAIN run /\ Placed(run[p])
         /\ Good(run[p], staged, out, tmp, waived)
         /\ excuses \in Nat /\ out \in [Sinks -> Seq(SUBSET Rows)]
         /\ state \in [Sources -> Texts] /\ slot \in [Slots -> 0..MaxRow]
         /\ \A k \in Sinks : \A x \in Rows : Count(out[k], x) \in Nat
<1>1. /\ run[p] \in Runs /\ p \in DOMAIN run /\ Placed(run[p]) /\ excuses \in Nat
      /\ out \in [Sinks -> Seq(SUBSET Rows)]
      /\ state \in [Sources -> Texts] /\ slot \in [Slots -> 0..MaxRow]
  BY DEF Inv, TypeInv, TypeOK
<1>2. \A k \in Sinks : \A x \in Rows : Count(out[k], x) \in Nat
  BY <1>1, Counts
<1> QED
  BY <1>1, <1>2 DEF Account, Inv

\* One run is all the runs there are.
LEMMA AccountKeeps ==
  ASSUME Alone, TypeInv', NEW p \in Runners, Books(run'[p], state', slot', out', excuses'),
         Reads(run'[p], state', slot')
  PROVE  Account'
<1>1. \A x \in Rows, k \in Sinks : Count(out'[k], x) <= excuses' + 1
  BY DEF Books, Entry, Spare
<1>2. RepeatsAreAccounted' <=> \A x \in Rows, k \in Sinks : Count(out'[k], x) <= 1 + excuses'
  BY DEF RepeatsAreAccounted, Times, Count
<1>3. excuses' + 1 = 1 + excuses'
  BY DEF TypeInv, TypeOK
<1> QED
  BY <1>1, <1>2, <1>3 DEF Alone, Account

\* A run that goes on with what it has, while files and positions stay.
LEMMA AccountOn ==
  ASSUME Alone, Inv, Account, TypeInv', NEW p \in Runners, NEW n, Becomes(p, n),
         UNCHANGED <<state, slot, out, excuses>>,
         n.rows = run[p].rows, n.next = run[p].next, n.pending = run[p].pending,
         ~n.failed => ~run[p].failed,
         n.todo \in {run[p].todo, <<>>} \/ (run[p].todo # <<>> /\ n.todo = Tail(run[p].todo)),
         n.at # "idle", n.at \in Ending \/ run[p].at \notin Ending,
         n.at = "peek" => run[p].at = "peek" /\ n.todo = run[p].todo
  PROVE  Account'
<1> DEFINE r == run[p]
<1>1. /\ Books(r, state, slot, out, excuses) /\ Reads(r, state, slot) /\ r \in Runs
      /\ p \in DOMAIN run
  BY AccountIs
<1>2. run'[p] = n
  BY <1>1 DEF Becomes
<1>3. \A k : Waits(k, n.todo) => Waits(k, r.todo)
  BY <1>1, TailWaits, NothingWaits
<1>4. Books(n, state, slot, out, excuses)
  BY <1>1, <1>3, BooksAlike
<1>5. Reads(n, state, slot)
  <2>1. n.at = "peek" => Saved(state[Head(n.todo)]) <= slot[Head(n.todo)]
    BY <1>1 DEF Reads
  <2> QED
    BY <1>1, <2>1, ReadsOn
<1> QED
  BY <1>2, <1>4, <1>5, AccountKeeps

\* The lists of stages a run starts with come to a stage once.
LEMMA ListsOnce == Once(Making \o Taking) /\ \A t \in Stages : Once(Toward(t))
<1>1. /\ Making \in Seq(Sources \cup {Limited}) /\ Taking \in Seq(Sinks)
      /\ (Sources \cup {Limited}) \cap Sinks = {}
      /\ \A i, j \in DOMAIN Making : Making[i] = Making[j] => i = j
      /\ \A i, j \in DOMAIN Taking : Taking[i] = Taking[j] => i = j
  BY PipelineAssumption
<1>2. /\ DOMAIN Making = 1..Len(Making) /\ Len(Making) \in Nat
      /\ DOMAIN Taking = 1..Len(Taking) /\ Len(Taking) \in Nat
      /\ \A i \in DOMAIN Making : Making[i] \in Sources \cup {Limited}
      /\ \A i \in DOMAIN Taking : Taking[i] \in Sinks
  BY <1>1, LenProperties
<1>3. Once(Making \o Taking)
  <2> DEFINE q == Making \o Taking
  <2>1. Making \in Seq(Stages) /\ Taking \in Seq(Stages)
    BY Constants
  <2>2. DOMAIN q = 1..(Len(Making) + Len(Taking))
    BY <2>1, ConcatProperties, LenProperties
  <2>3. \A i \in 1..(Len(Making) + Len(Taking)) :
          q[i] = IF i <= Len(Making) THEN Making[i] ELSE Taking[i - Len(Making)]
    BY <2>1, ConcatProperties
  <2> HIDE DEF q
  <2>4. ASSUME NEW i \in DOMAIN q
        PROVE  /\ i <= Len(Making) => i \in DOMAIN Making /\ q[i] = Making[i]
               /\ i > Len(Making) => i - Len(Making) \in DOMAIN Taking /\ q[i] = Taking[i - Len(Making)]
    BY <1>2, <2>2, <2>3
  <2> SUFFICES ASSUME NEW i \in DOMAIN q, NEW j \in DOMAIN q, q[i] = q[j] PROVE i = j
    BY DEF Once, q
  <2>5. i \in Nat /\ j \in Nat
    BY <1>2, <2>2
  <2>6. CASE i <= Len(Making) /\ j <= Len(Making)
    BY <1>1, <2>4, <2>6
  <2>7. CASE i > Len(Making) /\ j > Len(Making)
    <3>1. i - Len(Making) = j - Len(Making)
      BY <1>1, <2>4, <2>7
    <3> QED
      BY <1>2, <2>5, <3>1
  <2>8. ~(i <= Len(Making) /\ j > Len(Making)) /\ ~(i > Len(Making) /\ j <= Len(Making))
    BY <1>1, <1>2, <2>4
  <2> QED
    BY <1>2, <2>5, <2>6, <2>7, <2>8
<1>4. ASSUME NEW t \in Stages PROVE Once(Toward(t))
  <2>1. CASE t \in Sources
    <3>1. Toward(t) = <<t>>
      BY <2>1, Constants DEF Toward
    <3>2. DOMAIN <<t>> = {1}
      OBVIOUS
    <3> QED
      BY <3>1, <3>2 DEF Once
  <2>2. CASE t = Limited
    BY <1>1, <2>2, Constants DEF Toward, Once
  <2>3. CASE t \in Sinks
    <3> DEFINE q == Append(Making, t)
    <3>1. Toward(t) = q
      BY <2>3, Constants DEF Toward
    <3>2. /\ DOMAIN q = 1..(Len(Making) + 1)
          /\ \A i \in 1..Len(Making) : q[i] = Making[i]
          /\ q[Len(Making) + 1] = t
      BY Constants, AppendProperties, LenProperties
    <3> HIDE DEF q
    <3>3. \A i \in DOMAIN q : i \in DOMAIN Making \/ i = Len(Making) + 1
      BY <1>2, <3>2
    <3>4. \A i \in DOMAIN Making : q[i] = Making[i] /\ q[i] # t
      BY <1>1, <1>2, <2>3, <3>2
    <3> QED
      BY <1>1, <3>1, <3>2, <3>3, <3>4 DEF Once
  <2> QED
    BY <2>1, <2>2, <2>3 DEF Stages
<1> QED
  BY <1>3, <1>4

\* A run starts with nothing read.
LEMMA StartAccount ==
  ASSUME Alone, Inv, Account, TypeInv', NEW p \in Runners, Start(p)
  PROVE  Account'
<1> DEFINE r == run[p]
<1>1. /\ Books(r, state, slot, out, excuses) /\ Reads(r, state, slot) /\ p \in DOMAIN run
  BY AccountIs
<1>2. UNCHANGED <<state, slot, out, excuses>> /\ r.at = "idle"
  BY DEF Start, upstream, files
<1>3. r.rows = {}
  BY <1>1, <1>2 DEF Reads
<1>4. ASSUME NEW n, Becomes(p, n), n.at = "stage", n.rows = {}, n.pending = <<>>, Once(n.todo)
      PROVE  Account'
  <2>1. run'[p] = n
    BY <1>1, <1>4 DEF Becomes
  <2>2. Books(n, state, slot, out, excuses)
    BY <1>1, <1>3, <1>4, NothingWaits DEF Books, Entry
  <2>3. Reads(n, state, slot)
    BY <1>4 DEF Reads
  <2> QED
    BY <1>2, <2>1, <2>2, <2>3, AccountKeeps
<1>5. CASE Becomes(p, [Idle EXCEPT !.at = "stage", !.todo = Making \o Taking])
  <2> DEFINE n == [Idle EXCEPT !.at = "stage", !.todo = Making \o Taking]
  <2>1. n.at = "stage" /\ n.rows = {} /\ n.pending = <<>> /\ n.todo = Making \o Taking
    BY DEF Idle
  <2> HIDE DEF n
  <2> QED
    BY <1>4, <1>5, <2>1, ListsOnce DEF n
<1>6. ASSUME NEW t \in Stages,
             Becomes(p, [Idle EXCEPT !.at = "stage", !.todo = Toward(t), !.whole = FALSE])
      PROVE  Account'
  <2> DEFINE n == [Idle EXCEPT !.at = "stage", !.todo = Toward(t), !.whole = FALSE]
  <2>1. n.at = "stage" /\ n.rows = {} /\ n.pending = <<>> /\ n.todo = Toward(t)
    BY DEF Idle
  <2> HIDE DEF n
  <2> QED
    BY <1>4, <1>6, <2>1, ListsOnce DEF n
<1> QED
  BY <1>5, <1>6 DEF Start

\* The stages of a run, up to its sinks.
LEMMA StageAccount ==
  ASSUME Alone, Inv, Account, TypeInv', NEW p \in Runners,
         \/ AskCancel(p) \/ SeeCancel(p) \/ FailAttempt(p) \/ ReadPrior(p) \/ ReadMarked(p)
         \/ AdvanceSlot(p) \/ Peek(p) \/ Limit(p) \/ CopyOut(p) \/ Publish(p)
  PROVE  Account'
<1> DEFINE r == run[p]
           s == Head(r.todo)
<1>0. /\ Books(r, state, slot, out, excuses) /\ Reads(r, state, slot) /\ r \in Runs
      /\ p \in DOMAIN run /\ Placed(r) /\ excuses \in Nat
      /\ state \in [Sources -> Texts] /\ slot \in [Slots -> 0..MaxRow]
      /\ feed \in [Sources -> 0..MaxRow]
  BY AccountIs DEF Inv, TypeInv, TypeOK
<1> USE DEF upstream, files
<1>1. CASE AskCancel(p)
  <2> DEFINE n == [r EXCEPT !.cancel = TRUE]
  <2>1. /\ n.rows = r.rows /\ n.next = r.next /\ n.pending = r.pending /\ n.failed = r.failed
        /\ n.todo = r.todo /\ n.at = r.at
    BY <1>0 DEF Runs
  <2>2. Becomes(p, n) /\ UNCHANGED <<state, slot, out, excuses>> /\ r.at # "idle"
    BY <1>1 DEF AskCancel
  <2> HIDE DEF n
  <2> QED
    BY <2>1, <2>2, AccountOn
<1>2. CASE SeeCancel(p)
  <2> DEFINE e == [r EXCEPT !.failed = TRUE]
             n == Break(e)
  <2>1. /\ e.rows = r.rows /\ e.next = r.next /\ e.pending = r.pending /\ e.failed /\ e \in Runs
    BY <1>0 DEF Runs
  <2>2. Becomes(p, n) /\ UNCHANGED <<state, slot, out, excuses>> /\ r.at \notin Ending
    BY <1>2 DEF SeeCancel, Ending
  <2> HIDE DEF e
  <2>3. /\ n.rows = r.rows /\ n.next = r.next /\ n.pending = r.pending /\ n.failed
        /\ n.todo = <<>> /\ n.at = "stage"
    BY <2>1, GoesOn
  <2> HIDE DEF n
  <2> QED
    BY <2>2, <2>3, AccountOn
<1>3. CASE FailAttempt(p)
  <2>1. UNCHANGED <<state, slot, out, excuses>> /\ r.at \notin Ending /\ r.todo # <<>>
    BY <1>3 DEF FailAttempt, Ending
  <2>2. CASE Becomes(p, [r EXCEPT !.at = "stage", !.tries = @ + 1])
    <3> DEFINE n == [r EXCEPT !.at = "stage", !.tries = @ + 1]
    <3>1. /\ n.rows = r.rows /\ n.next = r.next /\ n.pending = r.pending /\ n.failed = r.failed
          /\ n.todo = r.todo /\ n.at = "stage"
      BY <1>0 DEF Runs
    <3>2. Becomes(p, n)
      BY <2>2
    <3> HIDE DEF n
    <3> QED
      BY <2>1, <3>1, <3>2, AccountOn
  <2>3. CASE Becomes(p, Fails(r))
    <3> DEFINE n == Fails(r)
    <3>1. /\ n.rows = r.rows /\ n.next = r.next /\ n.pending = r.pending /\ n.failed
          /\ n.todo \in {Tail(r.todo), <<>>} /\ n.at = "stage"
      BY <1>0, GoesOn
    <3> HIDE DEF n
    <3>2. Becomes(p, n)
      BY <2>3 DEF n
    <3> QED
      BY <2>1, <3>1, <3>2, AccountOn
  <2> QED
    BY <1>3, <2>2, <2>3 DEF FailAttempt
<1>4. CASE ReadPrior(p)
  <2> DEFINE n == [r EXCEPT !.at = "saved", !.prior[s] = state[s]]
  <2>1. /\ n.rows = r.rows /\ n.next = r.next /\ n.pending = r.pending /\ n.failed = r.failed
        /\ n.todo = r.todo /\ n.at = "saved"
    BY <1>0 DEF Runs
  <2>2. Becomes(p, n) /\ UNCHANGED <<state, slot, out, excuses>> /\ r.at \notin Ending
    BY <1>4 DEF ReadPrior, AtStage, Ending
  <2> HIDE DEF n
  <2> QED
    BY <2>1, <2>2, AccountOn
<1>5. CASE ReadMarked(p)
  <2> DEFINE n == [r EXCEPT !.from[s] = state[s]]
             a == Saved(state[s])
  <2>1. /\ n.rows = r.rows /\ n.next = r.next /\ n.pending = r.pending /\ n.failed = r.failed
        /\ n.todo = r.todo /\ n.at = r.at
    BY <1>0 DEF Runs
  <2>2. /\ Becomes(p, Loaded(n, s, a, feed[s])) /\ UNCHANGED <<state, slot, out, excuses>>
        /\ r.at = "saved"
    BY <1>5 DEF ReadMarked
  <2>3. r.todo # <<>> /\ s \in Marks /\ s \in Sources /\ s \notin Slots
    BY <1>0, <2>2, Constants DEF Placed
  <2>4. a \in Nat /\ feed[s] \in 0..MaxRow /\ a = Reach(s, state, slot)
    <3>1. state[s] \in Texts /\ feed[s] \in 0..MaxRow
      BY <1>0, <2>3
    <3>2. a \in 0..MaxRow /\ MaxRow \in Nat
      BY <3>1, TextsAre, Constants
    <3>3. a = Greatest(a, 0)
      BY <3>2 DEF Greatest
    <3> HIDE DEF a
    <3>4. Reach(s, state, slot) = Greatest(a, 0)
      BY <2>3 DEF Reach, a
    <3> QED
      BY <3>1, <3>2, <3>3, <3>4
  <2>5. n \in Runs
    <3>1. [r.from EXCEPT ![s] = state[s]] \in [Sources -> Texts]
      BY <1>0, <2>3 DEF Runs
    <3> QED
      BY <1>0, <3>1 DEF Runs
  <2> HIDE DEF n, a
  <2>6. Books(n, state, slot, out, excuses) /\ Reads(n, state, slot)
    <3>1. Books(n, state, slot, out, excuses)
      BY <1>0, <2>1, BooksAlike
    <3>2. Reads(n, state, slot)
      BY <1>0, <2>1, <2>2, ReadsOn DEF Ending
    <3> QED
      BY <3>1, <3>2
  <2>7. n.todo # <<>> /\ s = Head(n.todo) /\ n.at \notin Ending
    BY <2>1, <2>2, <2>3 DEF Ending
  <2>8. /\ Books(Loaded(n, s, a, feed[s]), state, slot, out, excuses)
        /\ Reads(Loaded(n, s, a, feed[s]), state, slot)
    BY <2>3, <2>4, <2>5, <2>6, <2>7, BooksLoaded
  <2>9. run'[p] = Loaded(n, s, a, feed[s])
    BY <1>0, <2>2 DEF Becomes
  <2> QED
    BY <2>2, <2>8, <2>9, AccountKeeps
<1>6. CASE AdvanceSlot(p)
  <2> DEFINE n == [r EXCEPT !.at = "peek", !.prior[s] = state[s], !.from[s] = state[s]]
  <2>1. /\ n.rows = r.rows /\ n.next = r.next /\ n.pending = r.pending /\ n.failed = r.failed
        /\ n.todo = r.todo /\ n.at = "peek"
    BY <1>0 DEF Runs
  <2>2. /\ Becomes(p, n) /\ UNCHANGED <<state, out, excuses>> /\ r.at \notin Ending
        /\ s \in Slots /\ slot' = [slot EXCEPT ![s] = Greatest(slot[s], Saved(state[s]))]
    BY <1>6 DEF AdvanceSlot, AtStage, Ending
  <2> HIDE DEF n
  <2>3. /\ slot'[s] = Greatest(slot[s], Saved(state[s]))
        /\ \A t \in Slots : t # s => slot'[t] = slot[t]
        /\ slot[s] \in Nat /\ Saved(state[s]) \in Nat
    <3>1. state[s] \in Texts /\ slot[s] \in 0..MaxRow /\ MaxRow \in Nat
      BY <1>0, <2>2, Constants
    <3>2. Saved(state[s]) \in 0..MaxRow
      BY <3>1, TextsAre
    <3> QED
      BY <1>0, <2>2, <3>1, <3>2
  <2>4. Saved(state[s]) <= slot'[s]
    BY <2>3 DEF Greatest
  <2>5. \A x \in Rows : Ahead(x, state, slot') => Ahead(x, state, slot)
    <3> SUFFICES ASSUME NEW x \in Rows PROVE Reach(x[1], state, slot') = Reach(x[1], state, slot)
      BY DEF Ahead
    <3>1. CASE x[1] = s
      BY <2>2, <2>3, <3>1 DEF Reach, Greatest
    <3>2. CASE x[1] # s
      BY <2>3, <3>2 DEF Reach
    <3> QED
      BY <3>1, <3>2
  <2>6. Books(n, state, slot', out, excuses)
    BY <1>0, <2>1, <2>5, BooksAlike
  <2>7. Reads(n, state, slot')
    <3>1. Saved(state[Head(n.todo)]) <= slot'[Head(n.todo)]
      BY <2>1, <2>4
    <3>2. n.at # "idle" /\ r.at \notin Ending /\ n.todo \in {r.todo, <<>>}
      BY <2>1, <2>2
    <3> QED
      BY <1>0, <2>1, <3>1, <3>2, ReadsOn
  <2>8. run'[p] = n
    BY <1>0, <2>2 DEF Becomes
  <2> QED
    BY <2>2, <2>6, <2>7, <2>8, AccountKeeps
<1>7. CASE Peek(p)
  <2> DEFINE a == slot[s]
             b == Least(slot[s] + Batch, feed[s])
  <2>1. /\ Becomes(p, Loaded(r, s, a, b)) /\ UNCHANGED <<state, slot, out, excuses>>
        /\ r.at = "peek"
    BY <1>7 DEF Peek
  <2>2. r.todo # <<>> /\ s \in Slots /\ s \in Sources
    BY <1>0, <2>1, Constants DEF Placed
  <2>3. Saved(state[s]) <= a /\ a \in Nat /\ Saved(state[s]) \in Nat
    <3>1. state[s] \in Texts /\ slot[s] \in 0..MaxRow /\ MaxRow \in Nat
      BY <1>0, <2>2, Constants
    <3>2. Saved(state[s]) \in 0..MaxRow
      BY <3>1, TextsAre
    <3>3. Saved(state[s]) <= slot[s]
      BY <1>0, <2>1 DEF Reads
    <3> QED
      BY <3>1, <3>2, <3>3
  <2>4. a = Reach(s, state, slot)
    BY <2>2, <2>3 DEF Reach, Greatest
  <2>5. b \in 0..MaxRow
    BY <1>0, <2>2, <2>3, Constants DEF Least
  <2> HIDE DEF a, b
  <2>6. r.at \notin Ending
    BY <2>1 DEF Ending
  <2>7. Books(Loaded(r, s, a, b), state, slot, out, excuses) /\ Reads(Loaded(r, s, a, b), state, slot)
    BY <1>0, <2>2, <2>3, <2>4, <2>5, <2>6, BooksLoaded
  <2>8. run'[p] = Loaded(r, s, a, b)
    BY <1>0, <2>1 DEF Becomes
  <2> QED
    BY <2>1, <2>7, <2>8, AccountKeeps
<1>8. CASE Limit(p)
  <2>1. UNCHANGED <<state, slot, out, excuses>> /\ r.at \notin Ending /\ r.todo # <<>>
    BY <1>8 DEF Limit, AtStage, Ending
  <2>2. CASE Becomes(p, Done(r))
    <3> DEFINE n == Done(r)
    <3>1. /\ n.rows = r.rows /\ n.next = r.next /\ n.pending = r.pending /\ n.failed = r.failed
          /\ n.todo = Tail(r.todo) /\ n.at = "stage"
      BY <1>0, GoesOn
    <3> HIDE DEF n
    <3>2. Becomes(p, n)
      BY <2>2 DEF n
    <3> QED
      BY <2>1, <3>1, <3>2, AccountOn
  <2>3. CASE Becomes(p, Break([r EXCEPT !.short = TRUE]))
    <3> DEFINE e == [r EXCEPT !.short = TRUE]
               n == Break(e)
    <3>1. e.rows = r.rows /\ e.next = r.next /\ e.pending = r.pending /\ e.failed = r.failed /\ e \in Runs
      BY <1>0 DEF Runs
    <3>2. Becomes(p, n)
      BY <2>3
    <3> HIDE DEF e
    <3>3. /\ n.rows = r.rows /\ n.next = r.next /\ n.pending = r.pending /\ n.failed = r.failed
          /\ n.todo = <<>> /\ n.at = "stage"
      BY <3>1, GoesOn
    <3> HIDE DEF n
    <3> QED
      BY <2>1, <3>2, <3>3, AccountOn
  <2> QED
    BY <1>8, <2>2, <2>3 DEF Limit
<1>9. CASE CopyOut(p)
  <2> DEFINE n == [r EXCEPT !.at = "publish"]
  <2>1. /\ n.rows = r.rows /\ n.next = r.next /\ n.pending = r.pending /\ n.failed = r.failed
        /\ n.todo = r.todo /\ n.at = "publish"
    BY <1>0 DEF Runs
  <2>2. Becomes(p, n) /\ UNCHANGED <<state, slot, out, excuses>> /\ r.at \notin Ending
    BY <1>9 DEF CopyOut, AtStage, Ending
  <2> HIDE DEF n
  <2> QED
    BY <2>1, <2>2, AccountOn
<1>10. CASE Publish(p)
  <2>1. UNCHANGED <<state, slot, out, excuses>> /\ r.at = "publish" /\ r.at \notin Ending
        /\ r.todo # <<>>
    BY <1>0, <1>10 DEF Publish, Ending, Placed
  <2>2. CASE Becomes(p, Done(r))
    <3> DEFINE n == Done(r)
    <3>1. /\ n.rows = r.rows /\ n.next = r.next /\ n.pending = r.pending /\ n.failed = r.failed
          /\ n.todo = Tail(r.todo) /\ n.at = "stage"
      BY <1>0, GoesOn
    <3> HIDE DEF n
    <3>2. Becomes(p, n)
      BY <2>2 DEF n
    <3> QED
      BY <2>1, <3>1, <3>2, AccountOn
  <2>3. CASE Becomes(p, [r EXCEPT !.at = "rename"])
    <3> DEFINE n == [r EXCEPT !.at = "rename"]
    <3>1. /\ n.rows = r.rows /\ n.next = r.next /\ n.pending = r.pending /\ n.failed = r.failed
          /\ n.todo = r.todo /\ n.at = "rename"
      BY <1>0 DEF Runs
    <3>2. Becomes(p, n)
      BY <2>3
    <3> HIDE DEF n
    <3> QED
      BY <2>1, <3>1, <3>2, AccountOn
  <2>4. CASE Becomes(p, [r EXCEPT !.at = "append", !.grab = staged[s].rows, !.len = Len(out[s])])
    <3> DEFINE n == [r EXCEPT !.at = "append", !.grab = staged[s].rows, !.len = Len(out[s])]
    <3>1. /\ n.rows = r.rows /\ n.next = r.next /\ n.pending = r.pending /\ n.failed = r.failed
          /\ n.todo = r.todo /\ n.at = "append"
      BY <1>0 DEF Runs
    <3>2. Becomes(p, n)
      BY <2>4
    <3> HIDE DEF n
    <3> QED
      BY <2>1, <3>1, <3>2, AccountOn
  <2> QED
    <3>1. CASE ~staged[s].there
      BY <1>10, <2>2, <3>1 DEF Publish
    <3>2. CASE staged[s].there /\ out[s] = <<>>
      BY <1>10, <2>3, <3>2 DEF Publish
    <3>3. CASE staged[s].there /\ out[s] # <<>>
      BY <1>10, <2>4, <3>3 DEF Publish
    <3> QED
      BY <3>1, <3>2, <3>3
<1> QED
  BY <1>1, <1>2, <1>3, <1>4, <1>5, <1>6, <1>7, <1>8, <1>9, <1>10

\* A sink is written, with what the run has read or a part of it.
LEMMA SinkWritten ==
  ASSUME Inv, Account, NEW p \in Runners, NEW k \in Sinks, NEW c \in SUBSET Rows, NEW n,
         k = Head(run[p].todo), run[p].todo # <<>>, run[p].at \notin Ending, c \subseteq run[p].rows,
         out' = [out EXCEPT ![k] = Behind(out[k], c)],
         n.rows = run[p].rows, n.next = run[p].next, n.pending = run[p].pending,
         ~n.failed => ~run[p].failed, n.todo \in {Tail(run[p].todo), <<>>}, n.at = "stage"
  PROVE  Books(n, state, slot, out', excuses) /\ Reads(n, state, slot)
<1> DEFINE r == run[p]
<1>0. /\ Books(r, state, slot, out, excuses) /\ Reads(r, state, slot) /\ r \in Runs
      /\ excuses \in Nat /\ out \in [Sinks -> Seq(SUBSET Rows)]
      /\ \A j \in Sinks : \A x \in Rows : Count(out[j], x) \in Nat
  BY AccountIs
<1>1. out'[k] = Behind(out[k], c) /\ \A j \in Sinks \ {k} : out'[j] = out[j]
  BY <1>0
<1>2. \A x \in Rows : /\ Count(out[k], x) \in Nat /\ Count(out'[k], x) \in Nat
                      /\ Count(out'[k], x) <= Count(out[k], x) + 1
                      /\ x \notin r.rows => Count(out'[k], x) <= Count(out[k], x)
  <2> SUFFICES ASSUME NEW x \in Rows
               PROVE  /\ Count(out[k], x) \in Nat /\ Count(out'[k], x) \in Nat
                      /\ Count(out'[k], x) <= Count(out[k], x) + 1
                      /\ x \notin r.rows => Count(out'[k], x) <= Count(out[k], x)
    OBVIOUS
  <2>1. out[k] \in Seq(SUBSET Rows)
    BY <1>0
  <2>2. /\ Count(out'[k], x) \in Nat
        /\ Count(out'[k], x) <= Count(out[k], x) + 1
        /\ x \notin c => Count(out'[k], x) = Count(out[k], x)
    <3> DEFINE q == out[k]
    <3> HIDE DEF q
    <3>1. q \in Seq(SUBSET Rows)
      BY <2>1 DEF q
    <3>2. /\ Count(Behind(q, c), x) \in Nat
          /\ Count(Behind(q, c), x) <= Count(q, x) + 1
          /\ x \notin c => Count(Behind(q, c), x) = Count(q, x)
      BY ONLY <3>1, c \in SUBSET Rows, CountBehind
    <3>3. out'[k] = Behind(q, c)
      BY <1>1 DEF q
    <3> QED
      BY <3>2, <3>3 DEF q
  <2> QED
    BY <1>0, <2>2
<1>3. /\ Waits(k, r.todo) /\ \A j : Waits(j, Tail(r.todo)) => Waits(j, r.todo) /\ j # k
  BY <1>0, TailWaits DEF Reads
<1>4. \A j \in Sinks : Waits(j, n.todo) => Waits(j, r.todo) /\ j # k
  BY <1>3, NothingWaits
<1>5. /\ \A x \in Rows : x \in r.rows /\ ~n.failed /\ Ahead(x, state, slot) => Waits(x[1], r.pending)
      /\ \A x \in r.rows : x[2] <= r.next[x[1]]
  BY <1>0 DEF Reads
<1>6. Books(n, state, slot, out', excuses)
  BY <1>0, <1>1, <1>2, <1>3, <1>4, <1>5, BooksWritten
<1>7. Reads(n, state, slot)
  BY <1>0, ReadsOn
<1> QED
  BY <1>6, <1>7

LEMMA SinkAccount ==
  ASSUME Alone, Inv, Account, TypeInv', NEW p \in Runners,
         RenameStaged(p) \/ AppendStaged(p) \/ PublishFails(p) \/ Kill(p)
  PROVE  Account'
<1> DEFINE r == run[p]
           k == Head(r.todo)
<1>0. /\ Books(r, state, slot, out, excuses) /\ Reads(r, state, slot) /\ r \in Runs
      /\ p \in DOMAIN run /\ Placed(r) /\ excuses \in Nat /\ Staging(r, staged, out)
      /\ out \in [Sinks -> Seq(SUBSET Rows)] /\ r.rows \in SUBSET Rows
      /\ \A j \in Sinks : \A x \in Rows : Count(out[j], x) \in Nat
  <2>1. r \in Runs
    BY AccountIs
  <2>2. r.rows \in SUBSET Rows
    BY <2>1 DEF Runs
  <2> QED
    BY <2>2, AccountIs DEF Good
<1>1. CASE RenameStaged(p) \/ AppendStaged(p)
  <2> DEFINE n == Done(r)
  <2>1. r.at \in {"rename", "append"} /\ UNCHANGED <<state, slot, excuses>>
    BY <1>1 DEF RenameStaged, AppendStaged, upstream
  <2>2. r.todo # <<>> /\ k \in Sinks /\ r.at \notin Ending
    BY <1>0, <2>1 DEF Placed, Ending
  <2>3. /\ staged[k].there /\ staged[k].rows = r.rows
        /\ r.at = "rename" => out[k] = <<>>
        /\ r.at = "append" => r.grab = r.rows
    BY <1>0, <2>1 DEF Staging
  <2>4. Becomes(p, n) /\ out' = [out EXCEPT ![k] = Behind(out[k], r.rows)]
    <3>1. CASE RenameStaged(p)
      <4>1. r.at = "rename" /\ out[k] = <<>>
        BY <2>3, <3>1 DEF RenameStaged
      <4> QED
        BY <2>3, <3>1, <4>1 DEF RenameStaged
    <3>2. CASE AppendStaged(p)
      <4>1. r.at = "append" /\ r.grab = r.rows
        BY <2>3, <3>2 DEF AppendStaged
      <4> QED
        BY <2>3, <3>2, <4>1 DEF AppendStaged
    <3> QED
      BY <1>1, <3>1, <3>2
  <2>5. /\ n.rows = r.rows /\ n.next = r.next /\ n.pending = r.pending /\ n.failed = r.failed
        /\ n.todo = Tail(r.todo) /\ n.at = "stage"
    BY <1>0, GoesOn
  <2> HIDE DEF n
  <2>6. Books(n, state, slot, out', excuses) /\ Reads(n, state, slot)
    BY <1>0, <2>2, <2>4, <2>5, SinkWritten
  <2>7. run'[p] = n
    BY <1>0, <2>4 DEF Becomes
  <2> QED
    BY <2>1, <2>6, <2>7, AccountKeeps
<1>2. CASE PublishFails(p)
  <2> DEFINE n == Fails(r)
             c == SubSeq(out[k], 1, Least(r.len, Len(out[k])))
  <2>1. /\ r.at \in {"rename", "append"} /\ UNCHANGED <<state, slot, excuses>>
        /\ run' = [run EXCEPT ![p] = n]
    BY <1>2 DEF PublishFails, upstream, Becomes
  <2>2. r.todo # <<>> /\ k \in Sinks /\ r.at \notin Ending
    BY <1>0, <2>1 DEF Placed, Ending
  <2>3. out' \in {out, [out EXCEPT ![k] = c]}
    BY <1>2 DEF PublishFails
  <2>4. out[k] \in Seq(SUBSET Rows) /\ Least(r.len, Len(out[k])) \in 0..Len(out[k])
    <3>1. out[k] \in Seq(SUBSET Rows) /\ r.len \in Nat /\ Len(out[k]) \in Nat
      BY <1>0, <2>2, LenProperties DEF Runs
    <3> QED
      BY <3>1 DEF Least
  <2>5. \A x \in Rows : Count(c, x) \in Nat /\ Count(c, x) <= Count(out[k], x)
    BY <2>4, CountCut
  <2> HIDE DEF c
  <2>6. \A j \in Sinks : \A x \in Rows : /\ Count(out[j], x) \in Nat /\ Count(out'[j], x) \in Nat
                                         /\ Count(out'[j], x) <= Count(out[j], x)
    <3>1. CASE out' = out
      BY <1>0, <3>1
    <3>2. CASE out' = [out EXCEPT ![k] = c]
      <4>1. \A j \in Sinks : out'[j] = IF j = k THEN c ELSE out[j]
        BY <1>0, <3>2
      <4> QED
        BY <1>0, <2>5, <4>1
    <3> QED
      BY <2>3, <3>1, <3>2
  <2>7. Books(r, state, slot, out', excuses)
    BY <1>0, <2>6, BooksLess
  <2>8. /\ n.rows = r.rows /\ n.next = r.next /\ n.pending = r.pending /\ n.failed
        /\ n.todo \in {Tail(r.todo), <<>>} /\ n.at = "stage"
    BY <1>0, GoesOn
  <2> HIDE DEF n
  <2>9. \A j : Waits(j, n.todo) => Waits(j, r.todo)
    BY <1>0, <2>2, <2>8, TailWaits, NothingWaits
  <2>10. Books(n, state, slot, out', excuses)
    BY <2>7, <2>8, <2>9, BooksAlike
  <2>11. Reads(n, state, slot)
    BY <1>0, <2>2, <2>8, ReadsOn
  <2>12. run'[p] = n
    BY <1>0, <2>1
  <2> QED
    BY <2>1, <2>10, <2>11, <2>12, AccountKeeps
<1>3. CASE Kill(p)
  <2>1. UNCHANGED <<state, slot>> /\ excuses' = excuses + 1 /\ run' = [run EXCEPT ![p] = Idle]
    BY <1>3 DEF Kill, upstream, Becomes
  <2>2. ASSUME NEW m, Books(m, state, slot, out', excuses) PROVE Account'
    <3>1. out' \in [Sinks -> Seq(SUBSET Rows)]
      BY DEF TypeInv, TypeOK
    <3>2. Books(Idle, state, slot, out', excuses + 1)
      BY <1>0, <2>2, <3>1, BooksForgiven
    <3>3. run'[p] = Idle
      BY <1>0, <2>1
    <3> QED
      BY <2>1, <3>2, <3>3, ReadsIdle, AccountKeeps
  <2>3. CASE r.at = "append"
    <3> DEFINE e == [r EXCEPT !.failed = TRUE]
               n == Break(e)
    <3>1. r.todo # <<>> /\ k \in Sinks /\ r.at \notin Ending /\ r.grab = r.rows
      BY <1>0, <2>3 DEF Placed, Ending, Staging
    <3>2. PICK part \in SUBSET r.grab : out' = [out EXCEPT ![k] = Behind(out[k], part)]
      BY <1>3, <2>3 DEF Kill
    <3>3. e.rows = r.rows /\ e.next = r.next /\ e.pending = r.pending /\ e.failed /\ e \in Runs
      BY <1>0 DEF Runs
    <3> HIDE DEF e
    <3>4. /\ n.rows = r.rows /\ n.next = r.next /\ n.pending = r.pending /\ n.failed
          /\ n.todo = <<>> /\ n.at = "stage"
      BY <3>3, GoesOn
    <3> HIDE DEF n
    <3>5. part \in SUBSET Rows /\ part \subseteq r.rows
      BY <1>0, <3>1
    <3>6. Books(n, state, slot, out', excuses)
      BY <3>1, <3>2, <3>4, <3>5, SinkWritten
    <3> QED
      BY <2>2, <3>6
  <2>4. CASE r.at # "append"
    BY <1>0, <1>3, <2>2, <2>4 DEF Kill
  <2> QED
    BY <2>3, <2>4
<1> QED
  BY <1>1, <1>2, <1>3

\* The end of a run, and its positions.
LEMMA EndAccount ==
  ASSUME Alone, Inv, Account, TypeInv', NEW p \in Runners,
         EndStages(p) \/ Check(p) \/ WriteTmp(p) \/ Place(p) \/ FlushFails(p)
  PROVE  Account'
<1> DEFINE r == run[p]
           s == Head(r.pending)
<1>0. /\ Books(r, state, slot, out, excuses) /\ Reads(r, state, slot) /\ r \in Runs
      /\ p \in DOMAIN run /\ Placed(r) /\ excuses \in Nat /\ Flushes(r, out, tmp)
      /\ out \in [Sinks -> Seq(SUBSET Rows)] /\ state \in [Sources -> Texts]
  BY AccountIs DEF Good
<1> USE DEF upstream, files
<1>1. ASSUME OnFrom(p, TRUE), UNCHANGED <<state, slot, out>>, r.pending # <<>>
      PROVE  Account'
  <2>1. Books(run'[p], state, slot, out, excuses') /\ Reads(run'[p], state, slot)
    BY <1>0, <1>1, BooksOnFrom
  <2> QED
    BY <1>1, <2>1, AccountKeeps
<1>2. ASSUME NEW at \in Ending, Becomes(p, [r EXCEPT !.at = at]),
             UNCHANGED <<state, slot, out, excuses>>
      PROVE  Account'
  <2> DEFINE n == [r EXCEPT !.at = at]
  <2>1. /\ n.rows = r.rows /\ n.next = r.next /\ n.pending = r.pending /\ n.failed = r.failed
        /\ n.todo = r.todo /\ n.at = at
    BY <1>0 DEF Runs
  <2>2. at # "idle" /\ at # "peek"
    BY DEF Ending
  <2>3. Becomes(p, n)
    BY <1>2
  <2> HIDE DEF n
  <2> QED
    BY <1>2, <2>1, <2>2, <2>3, AccountOn
<1>3. CASE EndStages(p)
  <2>1. UNCHANGED <<state, slot, out>>
    BY <1>3 DEF EndStages
  <2>2. CASE Writes(r) /\ r.pending # <<>>
    <3>1. Becomes(p, [r EXCEPT !.at = "check"]) /\ UNCHANGED excuses
      BY <1>3, <2>2 DEF EndStages
    <3> QED
      BY <1>2, <2>1, <3>1 DEF Ending
  <2>3. CASE ~(Writes(r) /\ r.pending # <<>>)
    <3>1. /\ run' = [run EXCEPT ![p] = Idle]
          /\ excuses' = IF Writes(r) THEN excuses ELSE excuses + 1
      BY <1>3, <2>3 DEF EndStages, Becomes
    <3>2. run'[p] = Idle
      BY <1>0, <3>1
    <3>3. CASE Writes(r)
      <4>1. ~r.failed /\ r.pending = <<>>
        BY <2>3, <3>3 DEF Writes
      <4>2. Books(Idle, state, slot, out, excuses)
        BY <1>0, <4>1, BooksClosed
      <4> QED
        BY <2>1, <3>1, <3>2, <3>3, <4>2, ReadsIdle, AccountKeeps
    <3>4. CASE ~Writes(r)
      <4>1. Books(Idle, state, slot, out, excuses + 1)
        BY <1>0, BooksForgiven
      <4> QED
        BY <2>1, <3>1, <3>2, <3>4, <4>1, ReadsIdle, AccountKeeps
    <3> QED
      BY <3>3, <3>4
  <2> QED
    BY <2>2, <2>3
<1>4. CASE Check(p)
  <2>1. UNCHANGED <<state, slot, out>> /\ r.pending # <<>>
    BY <1>0, <1>4 DEF Check, Placed
  <2>2. CASE Unchanged(p, s)
    <3>1. Becomes(p, [r EXCEPT !.at = "write"]) /\ UNCHANGED excuses
      BY <1>4, <2>2 DEF Check
    <3> QED
      BY <1>2, <2>1, <3>1 DEF Ending
  <2>3. CASE ~Unchanged(p, s)
    BY <1>1, <1>4, <2>1, <2>3 DEF Check
  <2> QED
    BY <2>2, <2>3
<1>5. CASE WriteTmp(p)
  <2>1. Becomes(p, [r EXCEPT !.at = "place"]) /\ UNCHANGED <<state, slot, out, excuses>>
    BY <1>5 DEF WriteTmp
  <2> QED
    BY <1>2, <2>1 DEF Ending
<1>6. CASE FlushFails(p)
  <2>1. UNCHANGED <<state, slot, out>> /\ r.pending # <<>> /\ OnFrom(p, TRUE)
    BY <1>0, <1>6 DEF FlushFails, Placed
  <2> QED
    BY <1>1, <2>1
<1>7. CASE Place(p)
  <2>1. /\ UNCHANGED <<slot, out>> /\ r.at = "place" /\ OnFrom(p, tmp[s] = NoFile)
        /\ state' = IF tmp[s] = NoFile THEN state ELSE [state EXCEPT ![s] = tmp[s]]
    BY <1>7 DEF Place
  <2>2. r.pending # <<>> /\ tmp[s] = r.next[s] /\ s \in Sources
    BY <1>0, <2>1, TailPending DEF Placed, Flushes
  <2>3. CASE tmp[s] = NoFile
    BY <1>1, <2>1, <2>2, <2>3
  <2>4. CASE tmp[s] # NoFile
    <3>1. OnFrom(p, FALSE) /\ state' = [state EXCEPT ![s] = r.next[s]]
      <4>1. (tmp[s] = NoFile) = FALSE
        BY <2>4
      <4> QED
        BY <2>1, <2>2, <2>4, <4>1
    <3>2. state'[s] = r.next[s] /\ \A t \in Sources \ {s} : state'[t] = state[t]
      BY <1>0, <2>2, <3>1
    <3>3. r.next[s] \in Texts
      BY <1>0, <2>2 DEF Runs
    <3>4. r.next[s] <= Reach(s, state', slot) /\ r.next[s] \in Int /\ Reach(s, state', slot) \in Int
      <4>1. Saved(r.next[s]) \in Int /\ r.next[s] \in Int /\ r.next[s] <= Saved(r.next[s])
        <5>1. r.next[s] \in Int
          BY <3>3, TextsAre
        <5> QED
          BY <5>1 DEF Saved, Greatest
      <4>2. s \in Slots => slot[s] \in Int
        BY Constants DEF Inv, TypeInv, TypeOK
      <4> QED
        BY <3>2, <4>1, <4>2 DEF Reach, Greatest
    <3>5. ASSUME NEW x \in Rows
          PROVE  /\ Ahead(x, state', slot) /\ ~Ahead(x, state, slot)
                      => x[1] = s /\ x[2] > r.next[x[1]]
                 /\ x \in r.rows /\ x[1] = s => ~Ahead(x, state', slot)
      <4>1. x[1] \in Sources /\ x[2] \in Int
        BY RowsAre
      <4>2. x[1] # s => (Ahead(x, state', slot) <=> Ahead(x, state, slot))
        BY <3>2, <4>1 DEF Ahead, Reach
      <4>3. x[1] = s /\ Ahead(x, state', slot) => x[2] > r.next[s]
        BY <3>4, <4>1 DEF Ahead
      <4>4. x \in r.rows => x[2] <= r.next[x[1]]
        BY <1>0 DEF Reads
      <4>5. x \in r.rows /\ x[1] = s => ~Ahead(x, state', slot)
        BY <3>4, <4>1, <4>3, <4>4
      <4> QED
        BY <4>2, <4>3, <4>5
    <3>6. Books(run'[p], state', slot, out, excuses') /\ Reads(run'[p], state', slot)
      BY <1>0, <2>2, <3>1, <3>5, BooksOnFrom
    <3> QED
      BY <2>1, <3>6, AccountKeeps
  <2> QED
    BY <2>3, <2>4
<1> QED
  BY <1>3, <1>4, <1>5, <1>6, <1>7

\* What happens to the sources and to the positions.
LEMMA WorldAccount ==
  ASSUME Inv, Account, TypeInv',
         \/ \E s \in Sources : Arrive(s) \/ Clear(s)
         \/ \E s \in Marks, v \in 0..MaxRow : BeginEdit(s, v)
         \/ EndEdit \/ EditDies
  PROVE  Account'
<1>0. /\ UNCHANGED <<slot, out, run>> /\ excuses \in Nat /\ excuses' \in Nat
      /\ excuses' \in {excuses, excuses + 1}
      /\ state \in [Sources -> Texts] /\ out \in [Sinks -> Seq(SUBSET Rows)]
  BY DEF Arrive, Clear, BeginEdit, EndEdit, EditDies, upstream, files, Inv, TypeInv, TypeOK
<1>1. RepeatsAreAccounted'
  <2>1. \A x \in Rows, k \in Sinks : Count(out[k], x) \in Nat /\ Count(out[k], x) <= 1 + excuses
    BY <1>0, Counts DEF Account, RepeatsAreAccounted, Times, Count
  <2>2. \A x \in Rows, k \in Sinks : Count(out[k], x) <= 1 + excuses'
    BY <1>0, <2>1
  <2> QED
    BY <1>0, <2>2 DEF RepeatsAreAccounted, Times, Count
<1>2. ASSUME \A x \in Rows : Ahead(x, state', slot) => Ahead(x, state, slot), excuses' = excuses,
             \A s \in Slots : Saved(state'[s]) = Saved(state[s])
      PROVE  Account'
  <2> SUFFICES ASSUME NEW p \in Runners
               PROVE  Books(run[p], state', slot, out, excuses) /\ Reads(run[p], state', slot)
    BY <1>0, <1>1, <1>2 DEF Account
  <2>1. Books(run[p], state, slot, out, excuses) /\ Reads(run[p], state, slot) /\ Placed(run[p])
    BY AccountIs
  <2> QED
    BY <1>2, <2>1, BooksAlike DEF Reads, Placed
<1>3. ASSUME excuses' = excuses + 1, \A s \in Slots : Saved(state'[s]) \in {Saved(state[s]), 0}
      PROVE  Account'
  <2> SUFFICES ASSUME NEW p \in Runners
               PROVE  Books(run[p], state', slot, out, excuses + 1) /\ Reads(run[p], state', slot)
    BY <1>0, <1>1, <1>3 DEF Account
  <2>1. Books(run[p], state, slot, out, excuses) /\ Reads(run[p], state, slot) /\ Placed(run[p])
    BY AccountIs
  <2>2. run[p].at = "peek" => Saved(state'[Head(run[p].todo)]) <= slot[Head(run[p].todo)]
    <3> SUFFICES ASSUME run[p].at = "peek"
                 PROVE  Saved(state'[Head(run[p].todo)]) <= slot[Head(run[p].todo)]
      OBVIOUS
    <3>1. Head(run[p].todo) \in Slots /\ Saved(state[Head(run[p].todo)]) <= slot[Head(run[p].todo)]
      BY <2>1 DEF Placed, Reads
    <3>2. slot[Head(run[p].todo)] \in Nat
      BY <3>1, Constants DEF Inv, TypeInv, TypeOK
    <3> QED
      BY <1>3, <3>1, <3>2
  <2>3. Books(run[p], state', slot, out, excuses + 1)
    BY <1>0, <2>1, BooksForgiven
  <2> QED
    BY <2>1, <2>2, <2>3 DEF Reads
<1>4. Saved(NoFile) = 0 /\ Saved(Torn) = 0
  BY DEF Saved, Greatest, NoFile, Torn
<1>5. CASE \E s \in Sources : Arrive(s)
  BY <1>2, <1>5 DEF Arrive
<1>6. CASE EditDies
  BY <1>2, <1>6 DEF EditDies
<1>7. CASE \E s \in Sources : Clear(s)
  <2>1. PICK s \in Sources : Clear(s)
    BY <1>7
  <2>2. \A t \in Sources : state'[t] = IF t = s THEN NoFile ELSE state[t]
    BY <1>0, <2>1 DEF Clear
  <2> QED
    BY <1>3, <1>4, <2>1, <2>2, Constants DEF Clear
<1>8. CASE \E s \in Marks, v \in 0..MaxRow : BeginEdit(s, v)
  <2>1. PICK s \in Marks, v \in 0..MaxRow : BeginEdit(s, v)
    BY <1>8
  <2>2. \A t \in Sources : state'[t] = IF t = s THEN Torn ELSE state[t]
    BY <1>0, <2>1 DEF BeginEdit
  <2> QED
    BY <1>3, <1>4, <2>1, <2>2, Constants DEF BeginEdit
<1>9. CASE EndEdit
  <2>1. CASE state[verb.node] = Torn
    <3>1. verb.node \in Marks /\ verb.to \in 0..MaxRow
      <4>1. verb \in Verbs /\ verb.on
        BY <1>9 DEF EndEdit, Inv, TypeInv, TypeOK
      <4>2. verb # NoVerb
        BY <4>1 DEF NoVerb
      <4> QED
        BY <4>1, <4>2 DEF Verbs
    <3>2. \A t \in Sources : state'[t] = IF t = verb.node THEN verb.to ELSE state[t]
      BY <1>0, <1>9, <2>1 DEF EndEdit
    <3>3. verb.node \notin Slots /\ verb.node \in Sources
      BY <3>1, Constants
    <3>4. ASSUME NEW x \in Rows, Ahead(x, state', slot) PROVE Ahead(x, state, slot)
      <4>1. x[1] \in Sources /\ x[2] \in 1..MaxRow
        BY RowsAre
      <4>2. CASE x[1] = verb.node
        BY <1>4, <2>1, <3>3, <4>1, <4>2 DEF Ahead, Reach, Greatest
      <4>3. CASE x[1] # verb.node
        BY <3>2, <3>4, <4>1, <4>3 DEF Ahead, Reach
      <4> QED
        BY <4>2, <4>3
    <3>5. \A t \in Slots : Saved(state'[t]) = Saved(state[t])
      BY <3>2, <3>3, Constants
    <3> QED
      BY <1>2, <1>9, <3>4, <3>5 DEF EndEdit
  <2>2. CASE state[verb.node] # Torn
    BY <1>2, <1>9, <2>2 DEF EndEdit
  <2> QED
    BY <2>1, <2>2
<1> QED
  BY <1>5, <1>6, <1>7, <1>8, <1>9

LEMMA StepAccount == Alone /\ Inv /\ Account /\ [Next]_vars => Account'
<1> SUFFICES ASSUME Alone, Inv, Account, [Next]_vars PROVE Account'
  OBVIOUS
<1>1. TypeInv'
  BY StepTypes DEF Inv
<1>2. CASE UNCHANGED vars
  BY <1>2 DEF vars, Account, RepeatsAreAccounted, Times
<1>3. ASSUME NEW p \in Runners, RunStep(p) PROVE Account'
  BY <1>1, <1>3, StageAccount, SinkAccount, EndAccount DEF RunStep
<1>4. ASSUME NEW p \in Runners,
             Start(p) \/ AskCancel(p) \/ FailAttempt(p) \/ PublishFails(p) \/ FlushFails(p) \/ Kill(p)
      PROVE  Account'
  BY <1>1, <1>4, StartAccount, StageAccount, SinkAccount, EndAccount
<1> QED
  BY <1>1, <1>2, <1>3, <1>4, WorldAccount DEF Next

LEMMA InitAccount == Init => Account
<1> SUFFICES ASSUME Init PROVE Account
  OBVIOUS
<1>1. \A x \in Rows, k \in Sinks : Count(out[k], x) = 0
  <2>1. \A x \in Rows : Count(<<>>, x) = 0
    BY Counts, <<>> \in Seq(SUBSET Rows)
  <2> QED
    BY <2>1 DEF Init
<1>2. RepeatsAreAccounted
  BY <1>1 DEF RepeatsAreAccounted, Times, Count, Init
<1>3. \A x \in Rows : Spare(x, out, 0) /\ Spare(x, out, 0 + 1)
  BY <1>1 DEF Spare
<1>4. ASSUME NEW p \in Runners PROVE Books(run[p], state, slot, out, excuses)
  BY <1>3, NothingWaits DEF Books, Entry, Init, Idle
<1>5. ASSUME NEW p \in Runners PROVE Reads(run[p], state, slot)
  BY ReadsIdle DEF Init
<1> QED
  BY <1>2, <1>4, <1>5 DEF Account

\* With one run of the pipeline at a time, a row is in a sink once, and once more
\* at most for each run that did not write its positions and each position moved by hand.
THEOREM RepeatsAreOwed == Alone /\ Spec => []RepeatsAreAccounted
<1>1. Alone /\ Spec => [](Inv /\ Account)
  <2>1. Alone => (Init /\ [][Next]_vars => [](Inv /\ Account))
    <3> SUFFICES ASSUME Alone PROVE Init /\ [][Next]_vars => [](Inv /\ Account)
      OBVIOUS
    <3>1. Inv /\ Account /\ [Next]_vars => Inv' /\ Account'
      BY StepInv, StepAccount
    <3> QED
      BY <3>1, InitInv, InitAccount, PTL
  <2> QED
    BY <2>1 DEF Spec
<1>2. Account => RepeatsAreAccounted
  BY DEF Account
<1> QED
  BY <1>1, <1>2, PTL

-----------------------------------------------------------------------------
(* An edit that lands between the two reads of a position.  One is caught:  *)
(* the second read is of what the first saw, or the file is no more what    *)
(* the first saw and stays so, as the edit that changed it was the last.    *)

\* A source the run is not in the middle of.
Settled(r, s) ==
  \/ r.at \in Ending
  \/ Writes(r) /\ ~(r.todo # <<>> /\ Head(r.todo) = s /\ r.at \in {"stage", "saved"})
\* Both reads saw one position, or the second a file that does not parse.
Same(r, s) == r.from[s] \in {r.prior[s], Torn}
\* The file shows that it was edited, and will be edited no more.
Shows(r, s, st, m, v) == m = 0 /\ st[s] # r.prior[s] /\ ~(v.on /\ v.node = s /\ st[s] = Torn)

Seen(r, st, m, v) ==
  /\ \A s \in Sources : Settled(r, s) => Same(r, s) \/ Shows(r, s, st, m, v)
  /\ r.at = "saved" => m = 0 \/ r.prior[Head(r.todo)] = st[Head(r.todo)]
  /\ r.at \in {"write", "place"} => Same(r, Head(r.pending))

Caught == /\ left["move"] <= 1 /\ (verb.on => left["move"] = 0)
          /\ \A p \in Runners : Seen(run[p], state, left["move"], verb)

\* A run that goes on with the positions it has read.
LEMMA SeenOn ==
  ASSUME NEW r, NEW n, NEW st, NEW m, NEW v, Seen(r, st, m, v),
         n.prior = r.prior, n.from = r.from, n.pending = r.pending,
         \A s \in Sources : Settled(n, s) => Settled(r, s),
         n.at = "saved" => r.at = "saved" /\ n.todo = r.todo,
         n.at \in {"write", "place"} => r.at \in {"write", "place"}
  PROVE  Seen(n, st, m, v)
BY DEF Seen, Same, Shows

\* A run that has read nothing.
LEMMA SeenFresh ==
  ASSUME NEW n, NEW st, NEW m, NEW v, n.prior = n.from, n.at \in {"idle", "stage"}
  PROVE  Seen(n, st, m, v)
BY DEF Seen, Same

LEMMA Moves ==
  ASSUME left \in [Kinds -> Nat]
  PROVE  /\ \A what \in Mishaps \ {"move"} : Spend(what) => left'["move"] = left["move"]
         /\ Spend("move") => left["move"] \in Nat \ {0} /\ left'["move"] = left["move"] - 1
<1>1. /\ "move" \in Kinds /\ "any" \in Kinds /\ Mishaps \subseteq Kinds /\ "any" \notin Mishaps
      /\ "move" \in Mishaps
  BY DEF Kinds, Mishaps
<1>2. ASSUME NEW what \in Mishaps, Spend(what)
      PROVE  /\ left[what] \in Nat \ {0} /\ left'[what] = left[what] - 1
             /\ \A k \in Kinds \ {what, "any"} : left'[k] = left[k]
  <2>1. left' = [left EXCEPT ![what] = @ - 1, !["any"] = @ - 1] /\ left[what] > 0
    BY <1>2 DEF Spend
  <2>2. what \in Kinds /\ what # "any" /\ left[what] \in Nat
    BY <1>1
  <2> QED
    BY <2>1, <2>2
<1> QED
  BY <1>1, <1>2

LEMMA CaughtKeeps ==
  ASSUME Alone, Caught, NEW p \in Runners, UNCHANGED verb, left'["move"] = left["move"],
         Seen(run'[p], state', left["move"], verb)
  PROVE  Caught'
BY DEF Alone, Caught

LEMMA CaughtIs ==
  ASSUME Inv, Caught, NEW p \in Runners
  PROVE  /\ Seen(run[p], state, left["move"], verb) /\ run[p] \in Runs /\ Placed(run[p]) /\ p \in DOMAIN run
         /\ left \in [Kinds -> Nat] /\ left["move"] \in Nat
         /\ state \in [Sources -> Texts]
<1>1. "move" \in Kinds
  BY DEF Kinds, Mishaps
<1> QED
  BY <1>1 DEF Inv, TypeInv, TypeOK, Caught

LEMMA IdleSeen == \A st, m, v : Seen(Idle, st, m, v)
<1>1. Idle.prior = Idle.from /\ Idle.at = "idle"
  BY DEF Idle
<1> QED
  BY <1>1, SeenFresh

\* The stages of a run.
LEMMA StageCaught ==
  ASSUME Alone, Inv, Caught, NEW p \in Runners,
         \/ Start(p) \/ AskCancel(p) \/ SeeCancel(p) \/ FailAttempt(p) \/ ReadPrior(p)
         \/ ReadMarked(p) \/ AdvanceSlot(p)
  PROVE  Caught'
<1> DEFINE r == run[p]
           s == Head(r.todo)
<1>0. /\ Seen(r, state, left["move"], verb) /\ r \in Runs /\ Placed(r) /\ p \in DOMAIN run
      /\ left \in [Kinds -> Nat] /\ left["move"] \in Nat /\ state \in [Sources -> Texts]
  BY CaughtIs
<1>a. UNCHANGED <<state, verb>> /\ left'["move"] = left["move"]
  <2>1. {"partial", "cancel", "fault"} \subseteq Mishaps \ {"move"}
    BY DEF Mishaps
  <2> QED
    BY <1>0, <2>1, Moves
    DEF Start, AskCancel, SeeCancel, FailAttempt, ReadPrior, ReadMarked, AdvanceSlot
<1>b. ASSUME NEW n, Becomes(p, n), Seen(n, state, left["move"], verb) PROVE Caught'
  <2>1. run'[p] = n
    BY <1>0, <1>b DEF Becomes
  <2> QED
    BY <1>a, <1>b, <2>1, CaughtKeeps
<1>c. ASSUME NEW n, Becomes(p, n), n.prior = r.prior, n.from = r.from, n.pending = r.pending,
             n.at = "stage", ~Writes(n) \/ (n.todo = r.todo /\ (Writes(n) => Writes(r)))
      PROVE  Caught'
  <2>1. \A t \in Sources : Settled(n, t) => Settled(r, t)
    BY <1>c DEF Settled, Ending
  <2>2. Seen(n, state, left["move"], verb)
    BY <1>0, <1>a, <1>c, <2>1, SeenOn
  <2> QED
    BY <1>b, <1>c, <2>2
<1>1. CASE Start(p)
  <2>1. CASE Becomes(p, [Idle EXCEPT !.at = "stage", !.todo = Making \o Taking])
    <3> DEFINE n == [Idle EXCEPT !.at = "stage", !.todo = Making \o Taking]
    <3>1. n.prior = n.from /\ n.at = "stage"
      BY DEF Idle
    <3>2. Becomes(p, n)
      BY <2>1
    <3> HIDE DEF n
    <3> QED
      BY <1>b, <3>1, <3>2, SeenFresh
  <2>2. ASSUME NEW t \in Stages,
               Becomes(p, [Idle EXCEPT !.at = "stage", !.todo = Toward(t), !.whole = FALSE])
        PROVE  Caught'
    <3> DEFINE n == [Idle EXCEPT !.at = "stage", !.todo = Toward(t), !.whole = FALSE]
    <3>1. n.prior = n.from /\ n.at = "stage"
      BY DEF Idle
    <3>2. Becomes(p, n)
      BY <2>2
    <3> HIDE DEF n
    <3> QED
      BY <1>b, <3>1, <3>2, SeenFresh
  <2> QED
    BY <1>1, <2>1, <2>2 DEF Start
<1>2. CASE AskCancel(p)
  <2> DEFINE n == [r EXCEPT !.cancel = TRUE]
  <2>1. /\ n.prior = r.prior /\ n.from = r.from /\ n.pending = r.pending /\ n.at = r.at
        /\ n.todo = r.todo /\ (Writes(n) <=> Writes(r))
    BY <1>0 DEF Runs, Writes
  <2>2. Becomes(p, n)
    BY <1>2 DEF AskCancel
  <2> HIDE DEF n
  <2>3. \A t \in Sources : Settled(n, t) => Settled(r, t)
    BY <2>1 DEF Settled
  <2>4. Seen(n, state, left["move"], verb)
    BY <1>0, <1>a, <2>1, <2>3, SeenOn
  <2> QED
    BY <1>b, <2>2, <2>4
<1>3. CASE SeeCancel(p)
  <2> DEFINE n == Break([r EXCEPT !.failed = TRUE])
  <2>1. /\ n.prior = r.prior /\ n.from = r.from /\ n.pending = r.pending /\ n.at = "stage"
        /\ ~Writes(n)
    BY <1>0 DEF Runs, Writes, Break
  <2>2. Becomes(p, n)
    BY <1>3 DEF SeeCancel
  <2> HIDE DEF n
  <2> QED
    BY <1>c, <2>1, <2>2
<1>4. CASE FailAttempt(p)
  <2>1. CASE Becomes(p, [r EXCEPT !.at = "stage", !.tries = @ + 1])
    <3> DEFINE n == [r EXCEPT !.at = "stage", !.tries = @ + 1]
    <3>1. /\ n.prior = r.prior /\ n.from = r.from /\ n.pending = r.pending /\ n.at = "stage"
          /\ n.todo = r.todo /\ (Writes(n) <=> Writes(r))
      BY <1>0 DEF Runs, Writes
    <3>2. Becomes(p, n)
      BY <2>1
    <3> HIDE DEF n
    <3> QED
      BY <1>c, <3>1, <3>2
  <2>2. CASE Becomes(p, Fails(r))
    <3> DEFINE n == Fails(r)
    <3>1. /\ n.prior = r.prior /\ n.from = r.from /\ n.pending = r.pending /\ n.at = "stage"
          /\ ~Writes(n)
      BY <1>0 DEF Runs, Writes, Fails, Done, Break
    <3>2. Becomes(p, n)
      BY <2>2
    <3> HIDE DEF n
    <3> QED
      BY <1>c, <3>1, <3>2
  <2> QED
    BY <1>4, <2>1, <2>2 DEF FailAttempt
<1>5. CASE ReadPrior(p)
  <2> DEFINE n == [r EXCEPT !.at = "saved", !.prior[s] = state[s]]
  <2>1. /\ n.at = "saved" /\ n.todo = r.todo /\ n.from = r.from /\ (Writes(n) <=> Writes(r))
        /\ n.prior = [r.prior EXCEPT ![s] = state[s]]
    BY <1>0 DEF Runs, Writes
  <2>2. Becomes(p, n) /\ s \in Sources /\ r.todo # <<>>
    BY <1>5, Constants DEF ReadPrior, AtStage
  <2> HIDE DEF n
  <2>3. n.prior[s] = state[s] /\ \A t \in Sources \ {s} : n.prior[t] = r.prior[t]
    BY <1>0, <2>1, <2>2 DEF Runs
  <2>4. \A t \in Sources : Settled(n, t) => t # s /\ Settled(r, t)
    BY <2>1, <2>2 DEF Settled, Ending
  <2>5. Seen(n, state, left["move"], verb)
    BY <1>0, <1>a, <2>1, <2>3, <2>4 DEF Seen, Same, Shows
  <2> QED
    BY <1>b, <2>2, <2>5
<1>6. CASE ReadMarked(p)
  <2> DEFINE m == [r EXCEPT !.from[s] = state[s]]
             n == Loaded(m, s, Saved(state[s]), feed[s])
  <2>1. r.at = "saved" /\ r.todo # <<>> /\ s \in Sources /\ Becomes(p, n)
    BY <1>0, <1>6, Constants DEF ReadMarked, Placed
  <2>2. /\ m.at = r.at /\ m.todo = r.todo /\ m.prior = r.prior /\ (Writes(m) <=> Writes(r))
        /\ m.from = [r.from EXCEPT ![s] = state[s]]
    BY <1>0 DEF Runs, Writes
  <2>3. m \in Runs
    <3>1. [r.from EXCEPT ![s] = state[s]] \in [Sources -> Texts]
      BY <1>0, <2>1 DEF Runs
    <3> QED
      BY <1>0, <3>1 DEF Runs
  <2> HIDE DEF m
  <2>4. n.at = "stage" /\ n.prior = m.prior /\ n.from = m.from /\ (Writes(n) => Writes(m))
    BY <2>3 DEF Loaded, Done, Runs, Writes
  <2> HIDE DEF n
  <2>5. n.from[s] = state[s] /\ \A t \in Sources \ {s} : n.from[t] = r.from[t]
    BY <1>0, <2>1, <2>2, <2>4 DEF Runs
  <2>6. ASSUME NEW t \in Sources, Settled(n, t) PROVE Same(n, t) \/ Shows(n, t, state, left["move"], verb)
    <3>1. CASE t = s
      <4>1. left["move"] = 0 \/ r.prior[s] = state[s]
        BY <1>0, <2>1 DEF Seen
      <4> QED
        BY <2>2, <2>4, <2>5, <3>1, <4>1 DEF Same, Shows
    <3>2. CASE t # s
      <4>1. Settled(r, t)
        BY <2>1, <2>2, <2>4, <2>6, <3>2 DEF Settled, Ending
      <4> QED
        BY <1>0, <2>2, <2>4, <2>5, <3>2, <4>1 DEF Seen, Same, Shows
    <3> QED
      BY <3>1, <3>2
  <2>7. Seen(n, state, left["move"], verb)
    BY <1>a, <2>4, <2>6 DEF Seen, Same, Shows
  <2> QED
    BY <1>b, <2>1, <2>7
<1>7. CASE AdvanceSlot(p)
  <2> DEFINE n == [r EXCEPT !.at = "peek", !.prior[s] = state[s], !.from[s] = state[s]]
  <2>1. /\ n.at = "peek" /\ n.todo = r.todo /\ (Writes(n) <=> Writes(r))
        /\ n.prior = [r.prior EXCEPT ![s] = state[s]] /\ n.from = [r.from EXCEPT ![s] = state[s]]
    BY <1>0 DEF Runs, Writes
  <2>2. Becomes(p, n) /\ s \in Sources
    BY <1>7, Constants DEF AdvanceSlot, AtStage
  <2> HIDE DEF n
  <2>3. /\ n.prior[s] = state[s] /\ n.from[s] = state[s]
        /\ \A t \in Sources \ {s} : n.prior[t] = r.prior[t] /\ n.from[t] = r.from[t]
    BY <1>0, <2>1, <2>2 DEF Runs
  <2>4. \A t \in Sources \ {s} : Settled(n, t) => Settled(r, t)
    BY <2>1 DEF Settled, Ending
  <2>5. Seen(n, state, left["move"], verb)
    BY <1>0, <1>a, <2>1, <2>3, <2>4 DEF Seen, Same, Shows
  <2> QED
    BY <1>b, <2>2, <2>5
<1> QED
  BY <1>1, <1>2, <1>3, <1>4, <1>5, <1>6, <1>7

\* The rest of a run reads no position.
LEMMA RunCaught ==
  ASSUME Alone, Inv, Caught, NEW p \in Runners,
         \/ Peek(p) \/ Limit(p) \/ CopyOut(p) \/ Publish(p) \/ RenameStaged(p) \/ AppendStaged(p)
         \/ PublishFails(p) \/ Kill(p)
  PROVE  Caught'
<1> DEFINE r == run[p]
           s == Head(r.todo)
           Mine(n) == Seen(n, state, left["move"], verb)
<1>0. /\ Mine(r) /\ r \in Runs /\ Placed(r) /\ p \in DOMAIN run
      /\ left \in [Kinds -> Nat] /\ state \in [Sources -> Texts]
  BY CaughtIs
<1>a. UNCHANGED <<state, verb>> /\ left'["move"] = left["move"]
  <2>1. {"fault", "kill", "short"} \subseteq Mishaps \ {"move"}
    BY DEF Mishaps
  <2> QED
    BY <1>0, <2>1, Moves
    DEF Peek, Limit, CopyOut, Publish, RenameStaged, AppendStaged, PublishFails, Kill
<1>b. ASSUME NEW n, Becomes(p, n), Mine(n) PROVE Caught'
  <2>1. run'[p] = n
    BY <1>0, <1>b DEF Becomes
  <2> QED
    BY <1>a, <1>b, <2>1, CaughtKeeps
\* What comes between two stages settles no source that was not.
<1>c. ASSUME NEW n, Becomes(p, n), n.prior = r.prior, n.from = r.from, n.at # "saved",
             n.at \notin Ending, Writes(n) => Writes(r),
             r.at \notin {"stage", "saved"} \/ s \notin Sources
      PROVE  Caught'
  <2>1. \A t \in Sources : Settled(n, t) => Settled(r, t)
    BY <1>c DEF Settled
  <2>2. Mine(n)
    BY <1>0, <1>c, <2>1 DEF Seen, Same, Shows, Ending
  <2> QED
    BY <1>b, <1>c, <2>2
<1>d. ASSUME Becomes(p, Done(r)) \/ Becomes(p, Fails(r)),
             r.at \notin {"stage", "saved"} \/ s \notin Sources
      PROVE  Caught'
  <2>1. /\ Done(r).prior = r.prior /\ Done(r).from = r.from /\ Done(r).at = "stage"
        /\ Writes(Done(r)) => Writes(r)
    BY <1>0 DEF Done, Runs, Writes
  <2>2. /\ Fails(r).prior = r.prior /\ Fails(r).from = r.from /\ Fails(r).at = "stage"
        /\ Writes(Fails(r)) => Writes(r)
    BY <1>0 DEF Done, Break, Fails, Runs, Writes
  <2>3. "stage" # "saved" /\ "stage" \notin Ending
    BY DEF Ending
  <2> QED
    BY <1>c, <1>d, <2>1, <2>2, <2>3
<1>1. CASE Peek(p)
  <2> DEFINE n == Loaded(r, s, slot[s], Least(slot[s] + Batch, feed[s]))
  <2>1. n.prior = r.prior /\ n.from = r.from /\ n.at = "stage" /\ (Writes(n) => Writes(r))
    BY <1>0 DEF Loaded, Done, Runs, Writes
  <2>2. Becomes(p, n) /\ r.at = "peek"
    BY <1>1 DEF Peek
  <2> HIDE DEF n
  <2> QED
    BY <1>c, <2>1, <2>2 DEF Ending
<1>2. CASE Limit(p)
  <2>1. s \notin Sources
    BY <1>2, Constants DEF Limit, AtStage
  <2>2. CASE Becomes(p, Done(r))
    BY <1>d, <2>1, <2>2
  <2>3. CASE Becomes(p, Break([r EXCEPT !.short = TRUE]))
    <3> DEFINE n == Break([r EXCEPT !.short = TRUE])
    <3>1. n.prior = r.prior /\ n.from = r.from /\ n.at = "stage" /\ ~Writes(n)
      BY <1>0 DEF Break, Runs, Writes
    <3>2. Becomes(p, n)
      BY <2>3
    <3> HIDE DEF n
    <3> QED
      BY <1>c, <2>1, <3>1, <3>2 DEF Ending
  <2> QED
    BY <1>2, <2>2, <2>3 DEF Limit
<1>3. CASE CopyOut(p)
  <2> DEFINE n == [r EXCEPT !.at = "publish"]
  <2>1. n.prior = r.prior /\ n.from = r.from /\ n.at = "publish" /\ (Writes(n) => Writes(r))
    BY <1>0 DEF Runs, Writes
  <2>2. Becomes(p, n) /\ s \notin Sources
    BY <1>3, Constants DEF CopyOut, AtStage
  <2> HIDE DEF n
  <2> QED
    BY <1>c, <2>1, <2>2 DEF Ending
<1>4. CASE Publish(p)
  <2>0. r.at = "publish"
    BY <1>4 DEF Publish
  <2>1. CASE Becomes(p, Done(r))
    BY <1>d, <2>0, <2>1
  <2>2. ASSUME NEW n, Becomes(p, n), n \in {[r EXCEPT !.at = "rename"],
                 [r EXCEPT !.at = "append", !.grab = staged[s].rows, !.len = Len(out[s])]}
        PROVE  Caught'
    <3>1. /\ n.prior = r.prior /\ n.from = r.from /\ n.at \in {"rename", "append"}
          /\ Writes(n) => Writes(r)
      BY <1>0, <2>2 DEF Runs, Writes
    <3> QED
      BY <1>c, <2>0, <2>2, <3>1 DEF Ending
  <2> DEFINE a == [r EXCEPT !.at = "rename"]
             b == [r EXCEPT !.at = "append", !.grab = staged[s].rows, !.len = Len(out[s])]
  <2>3. Becomes(p, Done(r)) \/ Becomes(p, a) \/ Becomes(p, b)
    <3>1. CASE ~staged[s].there
      BY <1>4, <3>1 DEF Publish
    <3>2. CASE staged[s].there /\ out[s] = <<>>
      BY <1>4, <3>2 DEF Publish
    <3>3. CASE staged[s].there /\ out[s] # <<>>
      BY <1>4, <3>3 DEF Publish
    <3> QED
      BY <3>1, <3>2, <3>3
  <2>4. \A n \in {a, b} : Becomes(p, n) => Caught'
    BY <2>2
  <2> HIDE DEF a, b
  <2> QED
    BY <2>1, <2>3, <2>4
<1>5. CASE RenameStaged(p) \/ AppendStaged(p) \/ PublishFails(p)
  <2>1. /\ r.at \notin {"stage", "saved"}
        /\ Becomes(p, Done(r)) \/ Becomes(p, Fails(r))
    BY <1>5 DEF RenameStaged, AppendStaged, PublishFails
  <2> QED
    BY <1>d, <2>1
<1>6. CASE Kill(p)
  <2>1. Becomes(p, Idle)
    BY <1>6 DEF Kill
  <2> QED
    BY <1>b, <2>1, IdleSeen
<1> QED
  BY <1>1, <1>2, <1>3, <1>4, <1>5, <1>6

\* On to the next position, with files as they are but for the one written.
LEMMA OnFromCaught ==
  ASSUME NEW p \in Runners, p \in DOMAIN run, run[p] \in Runs, NEW f, OnFrom(p, f),
         run[p].at \in Ending, NEW st, NEW m, NEW v, NEW st2, Seen(run[p], st, m, v),
         \A t \in Sources : st2[t] = st[t] \/ Same(run[p], t)
  PROVE  Seen(run'[p], st2, m, v)
<1> DEFINE r == run[p]
           n == [r EXCEPT !.at = "check", !.pending = Tail(r.pending), !.failed = r.failed \/ f]
<1>1. n.prior = r.prior /\ n.from = r.from /\ n.at = "check"
  BY DEF Runs
<1>2. run'[p] \in {n, Idle}
  BY DEF OnFrom, Becomes
<1> HIDE DEF n
<1>3. \A t \in Sources : Settled(r, t)
  BY DEF Settled
<1>4. \A t \in Sources : Same(n, t) \/ Shows(n, t, st2, m, v)
  BY <1>1, <1>3 DEF Seen, Same, Shows
<1>5. Seen(n, st2, m, v)
  BY <1>1, <1>4 DEF Seen
<1> QED
  BY <1>2, <1>5, IdleSeen

\* The end of a run writes over no position it did not read its rows by.
LEMMA EndCaught ==
  ASSUME Alone, Inv, Caught, NEW p \in Runners,
         EndStages(p) \/ Check(p) \/ WriteTmp(p) \/ Place(p) \/ FlushFails(p)
  PROVE  Caught'
<1> DEFINE r == run[p]
           s == Head(r.pending)
           Mine(n) == Seen(n, state, left["move"], verb)
<1>0. /\ Mine(r) /\ r \in Runs /\ Placed(r) /\ p \in DOMAIN run
      /\ left \in [Kinds -> Nat] /\ state \in [Sources -> Texts] /\ left["move"] \in Nat
  BY CaughtIs
<1>a. UNCHANGED verb /\ left'["move"] = left["move"]
  <2>1. "fault" \in Mishaps \ {"move"}
    BY DEF Mishaps
  <2> QED
    BY <1>0, <2>1, Moves DEF EndStages, Check, WriteTmp, Place, FlushFails
<1>b. ASSUME NEW n, Becomes(p, n), Mine(n), UNCHANGED state PROVE Caught'
  <2>1. run'[p] = n
    BY <1>0, <1>b DEF Becomes
  <2> QED
    BY <1>a, <1>b, <2>1, CaughtKeeps
<1>c. ASSUME NEW f, OnFrom(p, f), r.at \in Ending,
             \A t \in Sources : state'[t] = state[t] \/ Same(r, t)
      PROVE  Caught'
  <2> DEFINE st == state'
  <2>1. Seen(run'[p], st, left["move"], verb)
    BY <1>0, <1>c, OnFromCaught
  <2> QED
    BY <1>a, <2>1, CaughtKeeps
<1>1. CASE EndStages(p)
  <2>1. UNCHANGED state /\ r.at = "stage" /\ r.todo = <<>>
    BY <1>1 DEF EndStages
  <2>2. CASE Writes(r) /\ r.pending # <<>>
    <3> DEFINE n == [r EXCEPT !.at = "check"]
    <3>1. n.prior = r.prior /\ n.from = r.from /\ n.at = "check"
      BY <1>0 DEF Runs
    <3>2. Becomes(p, n)
      BY <1>1, <2>2 DEF EndStages
    <3> HIDE DEF n
    <3>3. \A t \in Sources : Settled(r, t)
      BY <2>1, <2>2 DEF Settled
    <3>4. Mine(n)
      BY <1>0, <3>1, <3>3 DEF Seen, Same, Shows
    <3> QED
      BY <1>b, <2>1, <3>2, <3>4
  <2>3. CASE ~(Writes(r) /\ r.pending # <<>>)
    <3>1. Becomes(p, Idle)
      BY <1>1, <2>3 DEF EndStages
    <3> QED
      BY <1>b, <2>1, <3>1, IdleSeen
  <2> QED
    BY <2>2, <2>3
<1>2. CASE Check(p)
  <2>1. UNCHANGED state /\ r.at = "check" /\ r.at \in Ending /\ r.pending # <<>>
    BY <1>0, <1>2 DEF Check, Ending, Placed
  <2>2. CASE Unchanged(p, s)
    <3> DEFINE n == [r EXCEPT !.at = "write"]
    <3>1. n.prior = r.prior /\ n.from = r.from /\ n.at = "write" /\ n.pending = r.pending
      BY <1>0 DEF Runs
    <3>2. Becomes(p, n)
      BY <1>2, <2>2 DEF Check
    <3> HIDE DEF n
    <3>3. \A t \in Sources : Settled(r, t)
      BY <2>1 DEF Settled
    <3>4. s \in Sources /\ state[s] = r.prior[s]
      BY <1>0, <2>1, <2>2, TailPending DEF Unchanged
    <3>5. Same(r, s)
      BY <1>0, <3>3, <3>4 DEF Seen, Shows
    <3>6. Mine(n)
      BY <1>0, <3>1, <3>3, <3>5 DEF Seen, Same, Shows
    <3> QED
      BY <1>b, <2>1, <3>2, <3>6
  <2>3. CASE ~Unchanged(p, s)
    <3>1. OnFrom(p, TRUE)
      BY <1>2, <2>3 DEF Check
    <3> QED
      BY <1>c, <2>1, <3>1
  <2> QED
    BY <2>2, <2>3
<1>3. CASE WriteTmp(p)
  <2> DEFINE n == [r EXCEPT !.at = "place"]
  <2>1. n.prior = r.prior /\ n.from = r.from /\ n.at = "place" /\ n.pending = r.pending
    BY <1>0 DEF Runs
  <2>2. Becomes(p, n) /\ UNCHANGED state /\ r.at = "write"
    BY <1>3 DEF WriteTmp
  <2> HIDE DEF n
  <2>3. \A t \in Sources : Settled(r, t)
    BY <2>2 DEF Settled, Ending
  <2>4. Mine(n)
    BY <1>0, <2>1, <2>2, <2>3 DEF Seen, Same, Shows
  <2> QED
    BY <1>b, <2>2, <2>4
<1>4. CASE FlushFails(p)
  <2>1. UNCHANGED state /\ OnFrom(p, TRUE) /\ r.at \in Ending
    BY <1>4 DEF FlushFails, Ending
  <2> QED
    BY <1>c, <2>1
<1>5. CASE Place(p)
  <2> DEFINE f == tmp[s] = NoFile
  <2>1. /\ r.at = "place" /\ r.at \in Ending /\ OnFrom(p, f)
        /\ state' = IF tmp[s] = NoFile THEN state ELSE [state EXCEPT ![s] = tmp[s]]
    BY <1>5 DEF Place, Ending
  <2> HIDE DEF f
  <2>2. Same(r, s)
    BY <1>0, <2>1 DEF Seen
  <2>3. \A t \in Sources : state'[t] = state[t] \/ Same(r, t)
    BY <1>0, <2>1, <2>2
  <2> QED
    BY <1>c, <2>1, <2>3
<1> QED
  BY <1>1, <1>2, <1>3, <1>4, <1>5

\* What happens to the positions meanwhile.
LEMMA WorldCaught ==
  ASSUME Inv, Caught,
         \/ \E s \in Sources : Arrive(s) \/ Clear(s)
         \/ \E s \in Marks, v \in 0..MaxRow : BeginEdit(s, v)
         \/ EndEdit \/ EditDies
  PROVE  Caught'
<1>0. /\ UNCHANGED run /\ left \in [Kinds -> Nat] /\ left["move"] \in Nat /\ left["move"] <= 1
      /\ state \in [Sources -> Texts] /\ verb \in Verbs
  <2>1. "move" \in Kinds
    BY DEF Kinds, Mishaps
  <2> QED
    BY <2>1 DEF Arrive, Clear, BeginEdit, EndEdit, EditDies, upstream, files, Inv, TypeInv, TypeOK, Caught
\* The last edit: what was read until now was read of one position.
<1>1. ASSUME Spend("move") PROVE Caught'
  <2>1. left["move"] # 0 /\ left'["move"] = 0
    BY <1>0, <1>1, Moves
  <2>2. ASSUME NEW p \in Runners PROVE Seen(run[p], state', 0, verb')
    <3>1. Seen(run[p], state, left["move"], verb)
      BY DEF Caught
    <3> QED
      BY <2>1, <3>1 DEF Seen, Shows
  <2> QED
    BY <1>0, <2>1, <2>2 DEF Caught
<1>2. CASE \E s \in Sources : Arrive(s)
  BY <1>2 DEF Arrive, Caught
<1>3. CASE \E s \in Sources : Clear(s)
  BY <1>1, <1>3 DEF Clear
<1>4. CASE \E s \in Marks, v \in 0..MaxRow : BeginEdit(s, v)
  BY <1>1, <1>4 DEF BeginEdit
<1>5. CASE EndEdit \/ EditDies
  <2>1. verb.on /\ verb' = NoVerb /\ ~verb'.on /\ left["move"] = 0
    BY <1>5 DEF EndEdit, EditDies, NoVerb, Caught
  <2>2. left'["move"] = 0
    <3>1. "kill" \in Kinds /\ "kill" # "move" /\ "move" \in Kinds
      BY DEF Kinds, Mishaps
    <3> QED
      BY <1>0, <1>5, <2>1, <3>1 DEF EndEdit, EditDies
  <2>3. ASSUME NEW s \in Sources
        PROVE  state'[s] = state[s] \/ (state[s] = Torn /\ verb.node = s)
    BY <1>0, <1>5 DEF EndEdit, EditDies
  <2>4. ASSUME NEW p \in Runners PROVE Seen(run[p], state', 0, verb')
    <3>1. Seen(run[p], state, 0, verb)
      BY <2>1 DEF Caught
    <3>2. \A s \in Sources : Shows(run[p], s, state, 0, verb) => Shows(run[p], s, state', 0, verb')
      BY <2>1, <2>3 DEF Shows
    <3> QED
      BY <3>1, <3>2 DEF Seen
  <2> QED
    BY <1>0, <2>1, <2>2, <2>4 DEF Caught
<1> QED
  BY <1>2, <1>3, <1>4, <1>5

LEMMA StepCaught == Alone /\ Inv /\ Caught /\ [Next]_vars => Caught'
<1> SUFFICES ASSUME Alone, Inv, Caught, [Next]_vars PROVE Caught'
  OBVIOUS
<1>1. CASE UNCHANGED vars
  BY <1>1 DEF vars, Caught
<1>2. ASSUME NEW p \in Runners, RunStep(p) PROVE Caught'
  BY <1>2, StageCaught, RunCaught, EndCaught DEF RunStep
<1>3. ASSUME NEW p \in Runners,
             Start(p) \/ AskCancel(p) \/ FailAttempt(p) \/ PublishFails(p) \/ FlushFails(p) \/ Kill(p)
      PROVE  Caught'
  BY <1>3, StageCaught, RunCaught, EndCaught
<1> QED
  BY <1>1, <1>2, <1>3, WorldCaught DEF Next

LEMMA InitCaught == Budget["move"] <= 1 /\ Init => Caught
<1> SUFFICES ASSUME Budget["move"] <= 1, Init PROVE Caught
  OBVIOUS
<1>1. \A p \in Runners : run[p] = Idle
  BY DEF Init
<1> QED
  BY <1>1, IdleSeen DEF Caught, Init, NoVerb

\* A run comes to write a position by Check alone.
LEMMA ChecksFirst ==
  ASSUME Alone, TypeInv, [Next]_vars, NEW p \in Runners, run[p].at = "check", run'[p].at = "write"
  PROVE  Unchanged(p, Head(run[p].pending))
<1>0. p \in DOMAIN run /\ run[p] \in Runs
  BY DEF TypeInv, TypeOK
<1>1. run' # run
  OBVIOUS
<1>2. \A q \in Runners : q = p
  BY DEF Alone
<1>3. Idle.at = "idle"
  BY DEF Idle
<1>4. ASSUME Becomes(p, Idle) PROVE FALSE
  BY <1>0, <1>3, <1>4 DEF Becomes
<1>5. CASE RunStep(p)
  <2>1. Check(p) \/ EndStages(p) \/ WriteTmp(p) \/ Place(p) \/ SeeCancel(p)
    BY <1>5 DEF RunStep, ReadPrior, ReadMarked, AdvanceSlot, Peek, Limit, CopyOut, Publish,
                RenameStaged, AppendStaged, AtStage
  <2>2. Check(p)
    BY <2>1 DEF EndStages, WriteTmp, Place, SeeCancel
  <2>3. ASSUME OnFrom(p, TRUE) PROVE FALSE
    <3> DEFINE n == [run[p] EXCEPT !.at = "check", !.pending = Tail(run[p].pending),
                                   !.failed = run[p].failed \/ TRUE]
    <3>1. n.at = "check"
      BY <1>0 DEF Runs
    <3>2. Becomes(p, n) \/ Becomes(p, Idle)
      BY <2>3 DEF OnFrom
    <3> HIDE DEF n
    <3> QED
      BY <1>0, <1>4, <3>1, <3>2 DEF Becomes
  <2> QED
    BY <2>2, <2>3 DEF Check
<1>6. ~Start(p) /\ ~FailAttempt(p) /\ ~PublishFails(p) /\ ~FlushFails(p)
  BY DEF Start, FailAttempt, PublishFails, FlushFails
<1>7. ASSUME AskCancel(p) PROVE FALSE
  <2> DEFINE n == [run[p] EXCEPT !.cancel = TRUE]
  <2>1. n.at = "check" /\ Becomes(p, n)
    BY <1>0, <1>7 DEF Runs, AskCancel
  <2> HIDE DEF n
  <2> QED
    BY <1>0, <2>1 DEF Becomes
<1>8. ASSUME Kill(p) PROVE FALSE
  BY <1>4, <1>8 DEF Kill
<1>9. ASSUME \/ \E s \in Sources : Arrive(s) \/ Clear(s)
             \/ \E s \in Marks, v \in 0..MaxRow : BeginEdit(s, v)
             \/ EndEdit \/ EditDies
      PROVE  FALSE
  BY <1>1, <1>9 DEF Arrive, Clear, BeginEdit, EndEdit, EditDies
<1>10. Next
  BY <1>1 DEF vars
<1> QED
  BY <1>2, <1>5, <1>6, <1>7, <1>8, <1>9, <1>10 DEF Next

\* With one run of the pipeline at a time, a position that is edited once is not
\* written over: a run writes a position only from the one it read its rows by.
\* (An edit that is undone before the flush goes unseen: the bound is needed.)
THEOREM OneEditStands == ASSUME Alone, Budget["move"] <= 1 PROVE Spec => EditStands
<1>1. Init => Inv /\ Caught
  BY InitInv, InitCaught
<1>2. Inv /\ Caught /\ [Next]_vars => Inv' /\ Caught'
  BY StepInv, StepCaught
<1> DEFINE Stands ==
      \A p \in Runners : run[p].at = "check" /\ run'[p].at = "write"
        => LET s == Head(run[p].pending) IN run[p].from[s] \in {state[s], Torn}
<1>3. Inv /\ Caught /\ [Next]_vars => Stands
  <2> SUFFICES ASSUME Inv, Caught, [Next]_vars, NEW p \in Runners,
                      run[p].at = "check", run'[p].at = "write"
               PROVE  run[p].from[Head(run[p].pending)] \in {state[Head(run[p].pending)], Torn}
    OBVIOUS
  <2> DEFINE s == Head(run[p].pending)
  <2>1. Unchanged(p, s)
    BY ChecksFirst DEF Inv
  <2>2. Seen(run[p], state, left["move"], verb) /\ run[p] \in Runs /\ run[p].pending # <<>>
    BY CaughtIs DEF Placed
  <2>3. s \in Sources /\ Settled(run[p], s)
    BY <2>2, TailPending DEF Settled, Ending
  <2> QED
    BY <2>1, <2>2, <2>3 DEF Seen, Same, Shows, Unchanged
<1>4. Spec => [][Stands]_vars
  BY <1>1, <1>2, <1>3, PTL DEF Spec
<1> QED
  BY <1>4 DEF EditStands
=============================================================================
